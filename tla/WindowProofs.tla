---------------------------- MODULE WindowProofs -----------------------------
(***************************************************************************)
(* Theorems about WindowState, for any threads, windows, sizes and depth   *)
(* of the stacks.                                                          *)
(*                                                                         *)
(* The invariant speaks of one window at a time, as a step concerns one:   *)
(* what is on a stack about the window it names (On), and nothing else of  *)
(* any other.  Of a window that one thread at a time uses, every message   *)
(* still to be sent says what the table says (SentInv), and when there is  *)
(* none for the compositor its view is the table's (ViewInv).  That a      *)
(* method called from a delegate finds no such message half sent is due to *)
(* the order in which the frames lie on the stack (Tidy).                  *)
(***************************************************************************)
EXTENDS WindowState, TLAPS

Tells      == {"windowShown", "windowResized"}
Says       == {"becameKey", "didResize"}
FrameKinds == Tells \cup Says \cup {"remove", "delegate"}
FrameSet   == [kind : FrameKinds, win : Windows, size : Sizes \cup {0}]
Entries    == [size : Sizes \cup {0}, key : BOOLEAN, delegate : BOOLEAN]

\* The frames on stack s that are about window w.
On(s, w) == {s[i] : i \in {j \in DOMAIN s : s[j].win = w}}

\* Under the top of a stack there are delegates, and the message to a delegate
\* that waits for the one to the compositor.
Tidy(s) ==
  \A i \in 1 .. Len(s) - 1 :
    s[i].kind # "delegate" =>
      i = Len(s) - 1 /\ s[i].kind \in Says /\ s[Len(s)].kind \in Tells

TypesInv ==
  /\ DOMAIN table \subseteq Windows
  /\ \A w \in DOMAIN table : table[w] \in Entries
  /\ installed \in BOOLEAN
  /\ shown \in [Windows -> Sizes \cup {0, Gone}]
  /\ stack \in [Threads -> Seq(FrameSet)]
  /\ life \in [Windows -> {"new", "open", "closed"}]
  /\ decided \in [Windows -> Nat]
  /\ mixed \in [Windows -> BOOLEAN]

StacksInv == \A t \in Threads : Tidy(stack[t])

\* A compositor that is not there shows nothing.
GoneInv == ~installed => \A w \in Windows : shown[w] = Gone

Alone(w) ==
  \A t, u \in Threads : On(stack[t], w) # {} /\ On(stack[u], w) # {} => t = u

SentInv(w) ==
  \A t \in Threads : \A f \in On(stack[t], w) :
    /\ f.kind = "becameKey" => State(w).key
    /\ f.kind \in Tells => w \in DOMAIN table /\ f.size = table[w].size
    /\ f.kind = "remove" => shown[w] = Gone

ViewInv(w) ==
  /\ \A t \in Threads : \A f \in On(stack[t], w) : f.kind \notin Tells \cup {"remove"}
  /\ shown[w] # Gone
  => w \in DOMAIN table /\ shown[w] = table[w].size

ForgottenInv(w) == life[w] # "open" => w \notin DOMAIN table /\ shown[w] = Gone

CallsInv(w) == ~mixed[w] => Alone(w) /\ SentInv(w) /\ ViewInv(w) /\ ForgottenInv(w)

KeyInv(w) == decided[w] = IF State(w).key THEN 1 ELSE 0

NewInv(w) == life[w] = "new" => \A t \in Threads : On(stack[t], w) = {}

OneInv(w) == CallsInv(w) /\ KeyInv(w) /\ NewInv(w)

WindowInv == TypesInv /\ StacksInv /\ GoneInv /\ \A w \in Windows : OneInv(w)
-----------------------------------------------------------------------------
(* Stacks.                                                                  *)

LEMMA Joined ==
  ASSUME NEW S, NEW r \in Seq(S), NEW s \in Seq(S), NEW q, q = r \o s
  PROVE  /\ q \in Seq(S) /\ Len(q) = Len(r) + Len(s)
         /\ Len(r) \in Nat /\ Len(s) \in Nat
         /\ DOMAIN r = 1 .. Len(r) /\ DOMAIN s = 1 .. Len(s) /\ DOMAIN q = 1 .. Len(r) + Len(s)
         /\ \A i \in 1 .. Len(r) : q[i] = r[i]
         /\ \A i \in 1 .. Len(s) : q[i + Len(r)] = s[i]
OBVIOUS

\* What a stack says of a window after frames of another stack are put on it.
LEMMA OnJoined ==
  ASSUME NEW S, NEW r \in Seq(S), NEW s \in Seq(S), NEW w
  PROVE  On(r \o s, w) = On(r, w) \cup On(s, w)
<1>1. PICK q : q = r \o s
  OBVIOUS
<1>2. /\ DOMAIN r = 1 .. Len(r) /\ DOMAIN s = 1 .. Len(s) /\ DOMAIN q = 1 .. Len(r) + Len(s)
      /\ Len(r) \in Nat /\ Len(s) \in Nat
      /\ \A i \in 1 .. Len(r) : q[i] = r[i]
      /\ \A i \in 1 .. Len(s) : q[i + Len(r)] = s[i]
  BY <1>1, Joined
<1>3. ASSUME NEW f \in On(q, w)
      PROVE  f \in On(r, w) \cup On(s, w)
  <2>1. PICK i \in DOMAIN q : q[i].win = w /\ f = q[i]
    BY <1>3 DEF On
  <2>2. CASE i \in 1 .. Len(r)
    BY <1>2, <2>1, <2>2 DEF On
  <2>3. CASE i \notin 1 .. Len(r)
    <3>1. i - Len(r) \in 1 .. Len(s) /\ q[(i - Len(r)) + Len(r)] = s[i - Len(r)]
          /\ (i - Len(r)) + Len(r) = i
      BY <1>2, <2>1, <2>3
    <3>2. i - Len(r) \in DOMAIN s /\ s[i - Len(r)].win = w /\ f = s[i - Len(r)]
      BY <1>2, <2>1, <3>1
    <3> QED BY <3>2 DEF On
  <2> QED BY <2>2, <2>3
<1>4. ASSUME NEW f \in On(r, w)
      PROVE  f \in On(q, w)
  <2>1. PICK i \in DOMAIN r : r[i].win = w /\ f = r[i]
    BY <1>4 DEF On
  <2>2. i \in DOMAIN q /\ q[i] = r[i]
    BY <1>2, <2>1
  <2> QED BY <2>1, <2>2 DEF On
<1>5. ASSUME NEW f \in On(s, w)
      PROVE  f \in On(q, w)
  <2>1. PICK i \in DOMAIN s : s[i].win = w /\ f = s[i]
    BY <1>5 DEF On
  <2>2. i + Len(r) \in DOMAIN q /\ q[i + Len(r)] = s[i]
    BY <1>2, <2>1
  <2> QED BY <2>1, <2>2 DEF On
<1> QED BY <1>1, <1>3, <1>4, <1>5

LEMMA OnNone ==
  ASSUME NEW w
  PROVE  On(<<>>, w) = {}
<1>1. DOMAIN <<>> = {}
  OBVIOUS
<1> QED BY <1>1 DEF On

LEMMA OnSingle ==
  ASSUME NEW f, NEW w
  PROVE  On(<<f>>, w) = IF f.win = w THEN {f} ELSE {}
<1>1. DOMAIN <<f>> = {1} /\ <<f>>[1] = f
  OBVIOUS
<1> QED BY <1>1 DEF On

LEMMA InCallOn ==
  ASSUME NEW t \in Threads, NEW w
  PROVE  InCall(t, w) <=> On(stack[t], w) # {}
BY DEF InCall, On

LEMMA FrontIs ==
  ASSUME NEW S, NEW s \in Seq(S), s # <<>>
  PROVE  /\ Len(s) \in Nat \ {0} /\ DOMAIN s = 1 .. Len(s)
         /\ Front(s) \in Seq(S) /\ Len(Front(s)) = Len(s) - 1
         /\ DOMAIN Front(s) = 1 .. Len(s) - 1
         /\ \A i \in 1 .. Len(s) - 1 : Front(s)[i] = s[i]
         /\ Last(s) = s[Len(s)] /\ Last(s) \in S
<1>1. /\ Len(s) \in Nat /\ Len(s) # 0
      /\ DOMAIN s = 1 .. Len(s) /\ \A i \in DOMAIN s : s[i] \in S
  OBVIOUS
<1>2. PICK n \in Nat : n = Len(s) - 1
  <2>1. Len(s) - 1 \in Nat
    BY <1>1
  <2> QED BY <2>1
<1>3. PICK q : q = SubSeq(s, 1, n)
  OBVIOUS
<1>4. q \in Seq(S) /\ Len(q) = n /\ DOMAIN q = 1 .. n /\ \A i \in 1 .. n : q[i] = s[i]
  BY <1>1, <1>2, <1>3
<1>5. Front(s) = q
  BY <1>2, <1>3 DEF Front
<1>6. Last(s) = s[Len(s)] /\ Last(s) \in S
  BY <1>1 DEF Last
<1> QED BY <1>1, <1>2, <1>4, <1>5, <1>6

LEMMA OnTop ==
  ASSUME NEW s \in Seq(FrameSet), s # <<>>, NEW w
  PROVE  /\ On(Front(s), w) \subseteq On(s, w)
         /\ Last(s).win = w => Last(s) \in On(s, w)
         /\ Last(s).win # w => On(Front(s), w) = On(s, w)
<1>1. /\ Len(s) \in Nat \ {0} /\ DOMAIN s = 1 .. Len(s)
      /\ DOMAIN Front(s) = 1 .. Len(s) - 1
      /\ \A i \in 1 .. Len(s) - 1 : Front(s)[i] = s[i]
      /\ Last(s) = s[Len(s)]
  BY FrontIs
<1>2. On(Front(s), w) \subseteq On(s, w)
  BY <1>1 DEF On
<1>3. Last(s).win = w => Last(s) \in On(s, w)
  BY <1>1 DEF On
<1>4. ASSUME Last(s).win # w, NEW f \in On(s, w)
      PROVE  f \in On(Front(s), w)
  <2>1. PICK i \in DOMAIN s : s[i].win = w /\ f = s[i]
    BY <1>4 DEF On
  <2>2. i \in 1 .. Len(s) - 1
    BY <1>1, <1>4, <2>1
  <2> QED BY <1>1, <2>1, <2>2 DEF On
<1> QED BY <1>2, <1>3, <1>4

LEMMA TopIs ==
  ASSUME TypesInv, NEW t \in Threads, Kind(t) \in FrameKinds
  PROVE  /\ stack[t] \in Seq(FrameSet) /\ stack[t] # <<>>
         /\ Last(stack[t]) \in FrameSet /\ Last(stack[t]).kind = Kind(t)
         /\ Last(stack[t]).win \in Windows
         /\ Last(stack[t]) \in On(stack[t], Last(stack[t]).win)
<1>1. stack[t] \in Seq(FrameSet)
  BY DEF TypesInv
<1>2. stack[t] # <<>> /\ Last(stack[t]).kind = Kind(t)
  BY DEF Kind, FrameKinds, Tells, Says
<1>3. Last(stack[t]) \in FrameSet
  BY <1>1, <1>2, FrontIs
<1>4. Last(stack[t]).win \in Windows
  BY <1>3 DEF FrameSet
<1> QED BY <1>1, <1>2, <1>3, <1>4, OnTop

\* Where a method may be called there are delegates only.
LEMMA OnlyDelegates ==
  ASSUME TypesInv, StacksInv, NEW t \in Threads, Kind(t) \in {"idle", "delegate"}
  PROVE  /\ stack[t] \in Seq(FrameSet)
         /\ \A i \in DOMAIN stack[t] : stack[t][i].kind = "delegate"
         /\ \A w : \A f \in On(stack[t], w) : f.kind = "delegate"
<1>1. stack[t] \in Seq(FrameSet) /\ Tidy(stack[t])
  BY DEF TypesInv, StacksInv
<1>2. ASSUME NEW i \in DOMAIN stack[t]
      PROVE  stack[t][i].kind = "delegate"
  <2>1. stack[t] # <<>> /\ Kind(t) = Last(stack[t]).kind /\ Kind(t) # "idle"
    <3>1. stack[t] # <<>>
      <4>1. DOMAIN <<>> = {}
        OBVIOUS
      <4> QED BY <1>2, <4>1
    <3>2. Kind(t) = Last(stack[t]).kind
      BY <3>1 DEF Kind
    <3>3. Last(stack[t]) \in FrameSet
      BY <1>1, <3>1, FrontIs
    <3>4. Kind(t) # "idle"
      BY <3>2, <3>3 DEF FrameSet, FrameKinds, Tells, Says
    <3> QED BY <3>1, <3>2, <3>4
  <2>2. /\ Len(stack[t]) \in Nat \ {0} /\ DOMAIN stack[t] = 1 .. Len(stack[t])
        /\ stack[t][Len(stack[t])].kind = "delegate"
    BY <1>1, <2>1, FrontIs
  <2>3. CASE i = Len(stack[t])
    BY <2>2, <2>3
  <2>4. CASE i \in 1 .. Len(stack[t]) - 1
    BY <1>1, <2>2, <2>4 DEF Tidy, Tells
  <2> QED BY <2>2, <2>3, <2>4
<1> QED BY <1>1, <1>2 DEF On

\* What a method puts on the stack.
Neat(fs, w) ==
  /\ fs \in Seq(FrameSet) /\ \A i \in DOMAIN fs : fs[i].win = w
  /\ Len(fs) <= 2
  /\ Len(fs) = 2 => fs[1].kind \in Says /\ fs[2].kind \in Tells

LEMMA NeatOn ==
  ASSUME NEW fs, NEW w, Neat(fs, w)
  PROVE  /\ \A v : v # w => On(fs, v) = {}
         /\ On(fs, w) = {fs[i] : i \in DOMAIN fs}
BY DEF Neat, On

LEMMA TidyPushed ==
  ASSUME NEW s \in Seq(FrameSet), \A i \in DOMAIN s : s[i].kind = "delegate",
         NEW fs, NEW w, Neat(fs, w)
  PROVE  Tidy(s \o fs)
<1>1. fs \in Seq(FrameSet)
  BY DEF Neat
<1>2. /\ Len(s \o fs) = Len(s) + Len(fs)
      /\ Len(s) \in Nat /\ Len(fs) \in Nat
      /\ DOMAIN s = 1 .. Len(s)
      /\ \A i \in 1 .. Len(s) : (s \o fs)[i] = s[i]
      /\ \A i \in 1 .. Len(fs) : (s \o fs)[i + Len(s)] = fs[i]
  BY <1>1
<1>3. PICK q : q = s \o fs
  OBVIOUS
<1>4. /\ Len(q) = Len(s) + Len(fs) /\ Len(s) \in Nat /\ Len(fs) \in {0, 1, 2}
      /\ \A i \in 1 .. Len(s) : q[i].kind = "delegate"
      /\ Len(fs) = 2 => q[Len(s) + 1].kind \in Says /\ q[Len(s) + 2].kind \in Tells
  <2>1. Len(fs) \in {0, 1, 2}
    <3>1. Len(fs) <= 2
      BY DEF Neat
    <3>2. PICK n \in Nat : n = Len(fs)
      BY <1>2
    <3> QED BY <3>1, <3>2
  <2>2. \A i \in 1 .. Len(s) : q[i].kind = "delegate"
    BY <1>2, <1>3
  <2>3. ASSUME Len(fs) = 2
        PROVE  q[Len(s) + 1].kind \in Says /\ q[Len(s) + 2].kind \in Tells
    <3>1. q[1 + Len(s)] = fs[1] /\ q[2 + Len(s)] = fs[2]
      BY <1>2, <1>3, <2>3
    <3>2. 1 + Len(s) = Len(s) + 1 /\ 2 + Len(s) = Len(s) + 2
      BY <1>2
    <3>3. fs[1].kind \in Says /\ fs[2].kind \in Tells
      BY <2>3 DEF Neat
    <3> QED BY <3>1, <3>2, <3>3
  <2> QED BY <1>2, <1>3, <2>1, <2>2, <2>3
<1>5. ASSUME NEW i \in 1 .. Len(q) - 1, q[i].kind # "delegate"
      PROVE  i = Len(q) - 1 /\ q[i].kind \in Says /\ q[Len(q)].kind \in Tells
  <2>1. i \notin 1 .. Len(s)
    BY <1>4, <1>5
  <2>2. PICK m \in Nat, n \in {0, 1, 2} : m = Len(s) /\ n = Len(fs)
    BY <1>4
  <2>3. i \in 1 .. m + n - 1 /\ i \notin 1 .. m
    BY <1>4, <1>5, <2>1, <2>2
  <2>4. n = 2 /\ i = m + 1
    BY <2>2, <2>3
  <2>5. Len(fs) = 2 /\ i = Len(s) + 1 /\ Len(q) = Len(s) + 2 /\ i = Len(q) - 1
    BY <1>4, <2>2, <2>4
  <2> QED BY <1>4, <2>5
<1> QED BY <1>3, <1>5 DEF Tidy
-----------------------------------------------------------------------------
(* Steps and windows.                                                       *)

\* A step that is not about window v.
LEMMA Elsewhere ==
  ASSUME NEW v \in Windows, OneInv(v),
         v \in DOMAIN table' <=> v \in DOMAIN table,
         v \in DOMAIN table => table'[v] = table[v],
         shown'[v] = shown[v], life'[v] = life[v],
         decided'[v] = decided[v], mixed'[v] = mixed[v],
         \A u \in Threads : On(stack'[u], v) = On(stack[u], v)
  PROVE  OneInv(v)'
<1>1. State(v)' = State(v)
  BY DEF State
<1>2. KeyInv(v)'
  BY <1>1 DEF OneInv, KeyInv
<1>3. NewInv(v)'
  BY DEF OneInv, NewInv
<1>4. ASSUME ~mixed[v]
      PROVE  Alone(v)' /\ SentInv(v)' /\ ViewInv(v)' /\ ForgottenInv(v)'
  <2>1. Alone(v) /\ SentInv(v) /\ ViewInv(v) /\ ForgottenInv(v)
    BY <1>4 DEF OneInv, CallsInv
  <2>2. Alone(v)'
    BY <2>1 DEF Alone
  <2>3. SentInv(v)'
    BY <1>1, <2>1 DEF SentInv
  <2>4. ViewInv(v)'
    BY <2>1 DEF ViewInv
  <2>5. ForgottenInv(v)'
    BY <2>1 DEF ForgottenInv
  <2> QED BY <2>2, <2>3, <2>4, <2>5
<1> QED BY <1>2, <1>3, <1>4 DEF OneInv, CallsInv

LEMMA StateIs ==
  ASSUME TypesInv, NEW w \in Windows
  PROVE  State(w) \in Entries /\ State(w).size \in Sizes \cup {0}
<1>1. Blank \in Entries
  BY DEF Blank, Entries
<1>2. State(w) \in Entries
  BY <1>1 DEF State, TypesInv
<1> QED BY <1>2 DEF Entries

LEMMA Stored ==
  ASSUME TypesInv, NEW w \in Windows, NEW s \in Entries, Store(w, s)
  PROVE  /\ DOMAIN table' = DOMAIN table \cup {w} /\ DOMAIN table' \subseteq Windows
         /\ table'[w] = s
         /\ \A v \in DOMAIN table' : table'[v] \in Entries
         /\ \A v \in DOMAIN table \ {w} : table'[v] = table[v]
         /\ State(w)' = s
<1>1. /\ DOMAIN table' = DOMAIN table \cup {w} /\ table'[w] = s
      /\ \A v \in DOMAIN table \ {w} : table'[v] = table[v]
  BY DEF Store
<1> QED BY <1>1 DEF TypesInv, State

\* A method is entered with nothing about its window half sent, unless two threads
\* are at it.
LEMMA Entering ==
  ASSUME TypesInv, StacksInv, NEW t \in Threads, NEW w \in Windows,
         NEW fs, Neat(fs, w), Enter(t, w, fs)
  PROVE  /\ stack' \in [Threads -> Seq(FrameSet)] /\ StacksInv'
         /\ mixed' \in [Windows -> BOOLEAN] /\ installed' = installed
         /\ \A v \in Windows \ {w} :
              mixed'[v] = mixed[v] /\ \A u \in Threads : On(stack'[u], v) = On(stack[u], v)
         /\ ~mixed'[w] =>
              /\ ~mixed[w]
              /\ \A u \in Threads \ {t} : On(stack[u], w) = {} /\ On(stack'[u], w) = {}
         /\ \A f \in On(stack[t], w) : f.kind = "delegate"
         /\ \A f \in On(stack'[t], w) : f.kind = "delegate" \/ \E i \in DOMAIN fs : f = fs[i]
         /\ \A i \in DOMAIN fs : fs[i] \in On(stack'[t], w)
<1>1. /\ Kind(t) \in {"idle", "delegate"}
      /\ stack' = [stack EXCEPT ![t] = @ \o fs]
      /\ mixed' = [mixed EXCEPT ![w] = @ \/ \E u \in Threads \ {t} : InCall(u, w)]
      /\ installed' = installed
  BY DEF Enter
<1>2. /\ stack[t] \in Seq(FrameSet) /\ fs \in Seq(FrameSet)
      /\ \A i \in DOMAIN stack[t] : stack[t][i].kind = "delegate"
      /\ \A v : \A f \in On(stack[t], v) : f.kind = "delegate"
  BY <1>1, OnlyDelegates DEF Neat
<1>3. stack[t] \o fs \in Seq(FrameSet)
  BY <1>2
<1>4. /\ stack'[t] = stack[t] \o fs /\ \A u \in Threads \ {t} : stack'[u] = stack[u]
      /\ stack' \in [Threads -> Seq(FrameSet)]
  BY <1>1, <1>3 DEF TypesInv
<1>5. StacksInv'
  <2>1. Tidy(stack[t] \o fs)
    BY <1>2, TidyPushed
  <2> QED BY <1>4, <2>1 DEF StacksInv
<1>6. \A v : On(stack'[t], v) = On(stack[t], v) \cup On(fs, v)
  BY <1>2, <1>4, OnJoined
<1>7. /\ \A v : v # w => On(fs, v) = {}
      /\ On(fs, w) = {fs[i] : i \in DOMAIN fs}
  BY NeatOn
<1>8. ASSUME NEW v \in Windows \ {w}
      PROVE  mixed'[v] = mixed[v] /\ \A u \in Threads : On(stack'[u], v) = On(stack[u], v)
  <2>1. mixed'[v] = mixed[v]
    BY <1>1 DEF TypesInv
  <2>2. On(stack'[t], v) = On(stack[t], v)
    BY <1>6, <1>7
  <2> QED BY <1>4, <2>1, <2>2
<1>9. mixed' \in [Windows -> BOOLEAN]
  <2>1. (mixed[w] \/ \E u \in Threads \ {t} : InCall(u, w)) \in BOOLEAN
    OBVIOUS
  <2> QED BY <1>1, <2>1, Zenon DEF TypesInv
<1>10. ASSUME ~mixed'[w]
       PROVE  /\ ~mixed[w]
              /\ \A u \in Threads \ {t} : On(stack[u], w) = {} /\ On(stack'[u], w) = {}
  <2>1. ~mixed[w] /\ \A u \in Threads \ {t} : ~InCall(u, w)
    BY <1>1, <1>10, Zenon DEF TypesInv
  <2>2. \A u \in Threads \ {t} : On(stack[u], w) = {}
    BY <2>1, InCallOn
  <2> QED BY <1>4, <2>1, <2>2
<1>11. \A f \in On(stack'[t], w) : f.kind = "delegate" \/ \E i \in DOMAIN fs : f = fs[i]
  BY <1>2, <1>6, <1>7
<1>12. \A i \in DOMAIN fs : fs[i] \in On(stack'[t], w)
  BY <1>6, <1>7
<1> QED BY <1>1, <1>2, <1>4, <1>5, <1>8, <1>9, <1>10, <1>11, <1>12

\* A method that stores s for its window and leaves fs to send.
LEMMA EnterKeeps ==
  ASSUME WindowInv, NEW t \in Threads, NEW w \in Windows,
         NEW fs, Neat(fs, w), Enter(t, w, fs),
         NEW s \in Entries, Store(w, s),
         shown' = shown, life' = [life EXCEPT ![w] = "open"],
         decided' \in [Windows -> Nat], decided'[w] = IF s.key THEN 1 ELSE 0,
         \A v \in Windows \ {w} : decided'[v] = decided[v],
         \A i \in DOMAIN fs :
           /\ fs[i].kind = "becameKey" => s.key
           /\ fs[i].kind \in Tells => fs[i].size = s.size
           /\ fs[i].kind # "remove",
         \/ \E i \in DOMAIN fs : fs[i].kind \in Tells
         \/ s.size = State(w).size
         \/ life[w] = "new"
  PROVE  WindowInv'
<1>1. TypesInv /\ StacksInv /\ GoneInv /\ OneInv(w)
  BY DEF WindowInv
<1>2. /\ stack' \in [Threads -> Seq(FrameSet)] /\ StacksInv'
      /\ mixed' \in [Windows -> BOOLEAN] /\ installed' = installed
      /\ \A v \in Windows \ {w} :
           mixed'[v] = mixed[v] /\ \A u \in Threads : On(stack'[u], v) = On(stack[u], v)
      /\ ~mixed'[w] =>
           ~mixed[w] /\ \A u \in Threads \ {t} : On(stack[u], w) = {} /\ On(stack'[u], w) = {}
      /\ \A f \in On(stack[t], w) : f.kind = "delegate"
      /\ \A f \in On(stack'[t], w) : f.kind = "delegate" \/ \E i \in DOMAIN fs : f = fs[i]
      /\ \A i \in DOMAIN fs : fs[i] \in On(stack'[t], w)
  BY <1>1, Entering
<1>3. /\ DOMAIN table' = DOMAIN table \cup {w} /\ DOMAIN table' \subseteq Windows
      /\ table'[w] = s
      /\ \A v \in DOMAIN table' : table'[v] \in Entries
      /\ \A v \in DOMAIN table \ {w} : table'[v] = table[v]
      /\ State(w)' = s
  BY <1>1, Stored
<1>4. /\ life' \in [Windows -> {"new", "open", "closed"}] /\ life'[w] = "open"
      /\ \A v \in Windows \ {w} : life'[v] = life[v]
  BY <1>1 DEF TypesInv
<1>5. TypesInv'
  BY <1>1, <1>2, <1>3, <1>4 DEF TypesInv
<1>6. GoneInv'
  BY <1>1, <1>2 DEF GoneInv
<1>7. ASSUME NEW v \in Windows, v # w
      PROVE  OneInv(v)'
  <2>1. OneInv(v)
    BY DEF WindowInv
  <2> QED BY <1>2, <1>3, <1>4, <1>7, <2>1, Elsewhere
<1>8. KeyInv(w)' /\ NewInv(w)'
  BY <1>3, <1>4 DEF KeyInv, NewInv
<1>9. ASSUME ~mixed'[w]
      PROVE  Alone(w)' /\ SentInv(w)' /\ ViewInv(w)' /\ ForgottenInv(w)'
  <2>1. /\ Alone(w) /\ SentInv(w) /\ ViewInv(w) /\ ForgottenInv(w)
        /\ \A u \in Threads \ {t} : On(stack[u], w) = {} /\ On(stack'[u], w) = {}
    BY <1>1, <1>2, <1>9 DEF OneInv, CallsInv
  <2>2. Alone(w)'
    BY <2>1 DEF Alone
  <2>3. SentInv(w)'
    <3> SUFFICES ASSUME NEW f \in On(stack'[t], w)
                 PROVE  /\ f.kind = "becameKey" => s.key
                        /\ f.kind \in Tells => f.size = s.size
                        /\ f.kind # "remove"
      BY <1>3, <2>1 DEF SentInv
    <3>1. CASE f.kind = "delegate"
      BY <3>1 DEF Tells
    <3>2. CASE \E i \in DOMAIN fs : f = fs[i]
      BY <3>2
    <3> QED BY <1>2, <3>1, <3>2
  <2>4. ViewInv(w)'
    <3> SUFFICES ASSUME \A f \in On(stack'[t], w) : f.kind \notin Tells \cup {"remove"},
                        shown[w] # Gone
                 PROVE  shown[w] = s.size
      BY <1>3 DEF ViewInv
    <3>1. s.size = State(w).size \/ life[w] = "new"
      BY <1>2
    <3>2. life[w] # "new"
      BY <2>1 DEF ForgottenInv
    <3>3. \A u \in Threads : \A f \in On(stack[u], w) : f.kind \notin Tells \cup {"remove"}
      BY <1>2, <2>1 DEF Tells
    <3>4. w \in DOMAIN table /\ shown[w] = table[w].size
      BY <2>1, <3>3 DEF ViewInv
    <3> QED BY <3>1, <3>2, <3>4 DEF State
  <2>5. ForgottenInv(w)'
    BY <1>4 DEF ForgottenInv
  <2> QED BY <2>2, <2>3, <2>4, <2>5
<1>10. \A v \in Windows : OneInv(v)'
  BY <1>7, <1>8, <1>9 DEF OneInv, CallsInv
<1> QED BY <1>2, <1>5, <1>6, <1>10 DEF WindowInv
-----------------------------------------------------------------------------
(* The methods.                                                             *)

LEMMA NothingNeat ==
  ASSUME NEW w
  PROVE  Neat(<<>>, w) /\ DOMAIN <<>> = {}
BY DEF Neat

LEMMA OneNeat ==
  ASSUME NEW w \in Windows, NEW kind \in FrameKinds, NEW size \in Sizes \cup {0}
  PROVE  /\ Neat(<<Frame(kind, w, size)>>, w)
         /\ DOMAIN <<Frame(kind, w, size)>> = {1}
         /\ <<Frame(kind, w, size)>>[1] = Frame(kind, w, size)
<1>1. Frame(kind, w, size) \in FrameSet /\ Frame(kind, w, size).win = w
  BY DEF Frame, FrameSet
<1>2. PICK f : f = Frame(kind, w, size)
  OBVIOUS
<1>3. /\ <<f>> \in Seq(FrameSet) /\ DOMAIN <<f>> = {1} /\ <<f>>[1] = f /\ Len(<<f>>) = 1
  BY <1>1, <1>2
<1> QED BY <1>1, <1>2, <1>3 DEF Neat

LEMMA TwoNeat ==
  ASSUME NEW w \in Windows, NEW says \in Says, NEW tells \in Tells,
         NEW a \in Sizes \cup {0}, NEW b \in Sizes \cup {0}
  PROVE  LET fs == <<Frame(says, w, a)>> \o <<Frame(tells, w, b)>>
         IN /\ Neat(fs, w) /\ DOMAIN fs = {1, 2}
            /\ fs[1] = Frame(says, w, a) /\ fs[2] = Frame(tells, w, b)
<1>1. /\ Frame(says, w, a) \in FrameSet /\ Frame(says, w, a).win = w
      /\ Frame(tells, w, b) \in FrameSet /\ Frame(tells, w, b).win = w
      /\ Frame(says, w, a).kind \in Says /\ Frame(tells, w, b).kind \in Tells
  BY DEF Frame, FrameSet, FrameKinds
<1>2. PICK f, g : f = Frame(says, w, a) /\ g = Frame(tells, w, b)
  OBVIOUS
<1>3. PICK q, r, fs : q = <<f>> /\ r = <<g>> /\ fs = q \o r
  OBVIOUS
<1>4. fs \in Seq(FrameSet) /\ DOMAIN fs = {1, 2} /\ fs[1] = f /\ fs[2] = g /\ Len(fs) = 2
  <2>1. q \in Seq(FrameSet) /\ r \in Seq(FrameSet) /\ Len(q) = 1 /\ Len(r) = 1
        /\ q[1] = f /\ r[1] = g
    BY <1>1, <1>2, <1>3
  <2>2. /\ fs \in Seq(FrameSet) /\ Len(fs) = Len(q) + Len(r)
        /\ DOMAIN fs = 1 .. Len(q) + Len(r)
        /\ \A i \in 1 .. Len(q) : fs[i] = q[i]
        /\ \A i \in 1 .. Len(r) : fs[i + Len(q)] = r[i]
    BY <1>3, <2>1, Joined
  <2>3. DOMAIN fs = 1 .. 2 /\ Len(fs) = 2 /\ fs[1] = f /\ fs[1 + 1] = g
    BY <2>1, <2>2
  <2>4. 1 .. 2 = {1, 2} /\ 1 + 1 = 2
    OBVIOUS
  <2>5. fs \in Seq(FrameSet)
    BY <2>2
  <2> QED BY <2>3, <2>4, <2>5, Zenon
<1>5. Neat(fs, w)
  BY <1>1, <1>2, <1>4 DEF Neat
<1> QED BY <1>2, <1>3, <1>4, <1>5

\* Methods with nothing to send.
LEMMA QuietKeeps ==
  ASSUME WindowInv, NEW t \in Threads, NEW w \in Windows,
         \/ \E size \in Sizes : WindowInit(t, w, size)
         \/ \E delegate \in BOOLEAN : SetDelegate(t, w, delegate)
         \/ Touch(t, w) \/ OrderOut(t, w)
  PROVE  WindowInv'
<1>1. TypesInv /\ KeyInv(w) /\ State(w) \in Entries /\ w \in Windows
  BY StateIs DEF WindowInv, OneInv
<1>2. PICK s \in Entries :
        /\ Store(w, s)
        /\ s.size = State(w).size \/ life[w] = "new"
        /\ \/ s.key = State(w).key /\ decided' = decided
           \/ ~s.key /\ decided' = [decided EXCEPT ![w] = 0]
  <2>1. CASE \E size \in Sizes : WindowInit(t, w, size)
    <3>1. PICK size \in Sizes : WindowInit(t, w, size)
      BY <2>1
    <3>2. /\ [State(w) EXCEPT !.size = size] \in Entries
          /\ [State(w) EXCEPT !.size = size].key = State(w).key
      BY <1>1 DEF Entries
    <3> QED BY <3>1, <3>2 DEF WindowInit
  <2>2. CASE \E delegate \in BOOLEAN : SetDelegate(t, w, delegate)
    <3>1. PICK delegate \in BOOLEAN : SetDelegate(t, w, delegate)
      BY <2>2
    <3>2. /\ [State(w) EXCEPT !.delegate = delegate] \in Entries
          /\ [State(w) EXCEPT !.delegate = delegate].key = State(w).key
          /\ [State(w) EXCEPT !.delegate = delegate].size = State(w).size
      BY <1>1 DEF Entries
    <3> QED BY <3>1, <3>2 DEF SetDelegate
  <2>3. CASE Touch(t, w)
    BY <1>1, <2>3 DEF Touch
  <2>4. CASE OrderOut(t, w)
    <3>1. /\ [State(w) EXCEPT !.key = FALSE] \in Entries
          /\ [State(w) EXCEPT !.key = FALSE].key = FALSE
          /\ [State(w) EXCEPT !.key = FALSE].size = State(w).size
      BY <1>1 DEF Entries
    <3> QED BY <2>4, <3>1 DEF OrderOut
  <2> QED BY <2>1, <2>2, <2>3, <2>4
<1>3. /\ Enter(t, w, <<>>) /\ shown' = shown /\ life' = [life EXCEPT ![w] = "open"]
  BY DEF WindowInit, SetDelegate, Touch, OrderOut, Use
<1>4. /\ decided' \in [Windows -> Nat] /\ decided'[w] = IF s.key THEN 1 ELSE 0
      /\ \A v \in Windows \ {w} : decided'[v] = decided[v]
  BY <1>1, <1>2 DEF TypesInv, KeyInv
<1> QED BY <1>2, <1>3, <1>4, NothingNeat, EnterKeeps

LEMMA MakeKeyKeeps ==
  ASSUME WindowInv, NEW t \in Threads, NEW w \in Windows, MakeKeyAndOrderFront(t, w)
  PROVE  WindowInv'
<1>1. TypesInv /\ KeyInv(w) /\ State(w) \in Entries /\ State(w).size \in Sizes \cup {0}
  BY StateIs DEF WindowInv, OneInv
<1>2. PICK fs : fs = KeyFrames(w, ~State(w).key)
  OBVIOUS
<1>3. PICK s : s = [State(w) EXCEPT !.key = TRUE]
  OBVIOUS
<1>4. s \in Entries /\ s.key = TRUE /\ s.size = State(w).size
  BY <1>1, <1>3 DEF Entries
<1>5. /\ Enter(t, w, fs) /\ Store(w, s)
      /\ shown' = shown /\ life' = [life EXCEPT ![w] = "open"]
      /\ decided' = [decided EXCEPT ![w] = IF State(w).key THEN @ ELSE @ + 1]
  BY <1>2, <1>3 DEF MakeKeyAndOrderFront, Use
<1>6. /\ decided' \in [Windows -> Nat] /\ decided'[w] = IF s.key THEN 1 ELSE 0
      /\ \A v \in Windows \ {w} : decided'[v] = decided[v]
  BY <1>1, <1>4, <1>5 DEF TypesInv, KeyInv
<1>7. PICK size \in Sizes \cup {0} : size = State(w).size
  BY <1>1
<1>8. Neat(fs, w) /\ \A i \in DOMAIN fs :
                       /\ fs[i].kind \in Tells => fs[i].size = s.size
                       /\ fs[i].kind # "remove"
  <2>1. CASE fs = <<Frame("becameKey", w, 0)>> \o <<Frame("windowShown", w, size)>>
    <3>1. "becameKey" \in Says /\ "windowShown" \in Tells
      BY DEF Says, Tells
    <3>2. /\ Neat(fs, w) /\ DOMAIN fs = {1, 2}
          /\ fs[1] = Frame("becameKey", w, 0) /\ fs[2] = Frame("windowShown", w, size)
      BY <2>1, <3>1, TwoNeat
    <3> QED BY <1>4, <1>7, <3>2 DEF Frame, Tells
  <2>2. CASE fs = <<>> \o <<Frame("windowShown", w, size)>>
    <3>1. fs = <<Frame("windowShown", w, size)>>
      BY <2>2
    <3> QED BY <1>4, <1>7, <3>1, OneNeat DEF Frame, FrameKinds, Tells
  <2> QED BY <1>2, <1>7, <2>1, <2>2 DEF KeyFrames
<1>9. \A i \in DOMAIN fs :
        /\ fs[i].kind = "becameKey" => s.key
        /\ fs[i].kind \in Tells => fs[i].size = s.size
        /\ fs[i].kind # "remove"
  BY <1>4, <1>8
<1> QED BY <1>4, <1>5, <1>6, <1>8, <1>9, EnterKeeps

LEMMA SetFrameKeeps ==
  ASSUME WindowInv, NEW t \in Threads, NEW w \in Windows, NEW size \in Sizes,
         SetFrameDisplay(t, w, size)
  PROVE  WindowInv'
<1>1. TypesInv /\ KeyInv(w) /\ State(w) \in Entries
  BY StateIs DEF WindowInv, OneInv
<1>2. PICK fs : fs = ResizeFrames(w, size)
  OBVIOUS
<1>3. PICK s : s = [State(w) EXCEPT !.size = size]
  OBVIOUS
<1>4. s \in Entries /\ s.key = State(w).key /\ s.size = size
  BY <1>1, <1>3 DEF Entries
<1>5. /\ Enter(t, w, fs) /\ Store(w, s)
      /\ shown' = shown /\ life' = [life EXCEPT ![w] = "open"]
      /\ decided' = decided
  BY <1>2, <1>3 DEF SetFrameDisplay, Use
<1>6. /\ decided' \in [Windows -> Nat] /\ decided'[w] = IF s.key THEN 1 ELSE 0
  BY <1>1, <1>4, <1>5 DEF TypesInv, KeyInv
<1>7. /\ Neat(fs, w)
      /\ \A i \in DOMAIN fs :
           /\ fs[i].kind \in {"didResize", "windowResized"}
           /\ fs[i].kind \in Tells => fs[i].size = s.size
      /\ (\E i \in DOMAIN fs : fs[i].kind \in Tells) \/ s.size = State(w).size
  <2>1. CASE fs = <<Frame("didResize", w, size)>> \o <<Frame("windowResized", w, size)>>
    BY <1>4, <2>1, TwoNeat DEF Frame, Says, Tells
  <2>2. CASE fs = <<>> \o <<Frame("windowResized", w, size)>>
    <3>1. fs = <<Frame("windowResized", w, size)>>
      BY <2>2
    <3> QED BY <1>4, <3>1, OneNeat DEF Frame, FrameKinds, Tells
  <2>3. CASE fs = <<>> /\ State(w).size = size
    BY <1>4, <2>3, NothingNeat
  <2> QED BY <1>2, <2>1, <2>2, <2>3 DEF ResizeFrames
<1> QED BY <1>4, <1>5, <1>6, <1>7, EnterKeeps

\* The window leaves the compositor before the table.
LEMMA CloseKeeps ==
  ASSUME WindowInv, NEW t \in Threads, NEW w \in Windows, Close(t, w)
  PROVE  WindowInv'
<1> DEFINE fs == <<Frame("remove", w, 0)>>
<1>1. TypesInv /\ StacksInv /\ GoneInv /\ OneInv(w)
  BY DEF WindowInv
<1>2. Neat(fs, w) /\ DOMAIN fs = {1} /\ fs[1] = Frame("remove", w, 0)
  BY OneNeat DEF FrameKinds
<1>3. Enter(t, w, fs)
  BY DEF Close
<1> HIDE DEF fs
<1>4. /\ stack' \in [Threads -> Seq(FrameSet)] /\ StacksInv'
      /\ mixed' \in [Windows -> BOOLEAN] /\ installed' = installed
      /\ \A v \in Windows \ {w} :
           mixed'[v] = mixed[v] /\ \A u \in Threads : On(stack'[u], v) = On(stack[u], v)
      /\ ~mixed'[w] =>
           ~mixed[w] /\ \A u \in Threads \ {t} : On(stack[u], w) = {} /\ On(stack'[u], w) = {}
      /\ \A f \in On(stack'[t], w) : f.kind = "delegate" \/ \E i \in DOMAIN fs : f = fs[i]
      /\ \A i \in DOMAIN fs : fs[i] \in On(stack'[t], w)
  BY <1>1, <1>2, <1>3, Entering
<1>5. /\ shown' \in [Windows -> Sizes \cup {0, Gone}] /\ shown'[w] = Gone
      /\ \A v \in Windows \ {w} : shown'[v] = shown[v]
      /\ life[w] # "new" /\ UNCHANGED <<table, life, decided>>
  BY <1>1 DEF Close, TypesInv, GoneInv
<1>6. TypesInv'
  BY <1>1, <1>4, <1>5 DEF TypesInv
<1>7. GoneInv'
  BY <1>1, <1>4, <1>5 DEF GoneInv
<1>8. ASSUME NEW v \in Windows, v # w
      PROVE  OneInv(v)'
  <2>1. OneInv(v)
    BY DEF WindowInv
  <2> QED BY <1>4, <1>5, <1>8, <2>1, Elsewhere
<1>9. KeyInv(w)' /\ NewInv(w)'
  BY <1>1, <1>5 DEF OneInv, KeyInv, NewInv, State
<1>10. ASSUME ~mixed'[w]
       PROVE  Alone(w)' /\ SentInv(w)' /\ ViewInv(w)' /\ ForgottenInv(w)'
  <2>1. /\ ForgottenInv(w)
        /\ \A u \in Threads \ {t} : On(stack[u], w) = {} /\ On(stack'[u], w) = {}
    BY <1>1, <1>4, <1>10 DEF OneInv, CallsInv
  <2>2. Alone(w)'
    BY <2>1 DEF Alone
  <2>3. SentInv(w)'
    <3>1. \A f \in On(stack'[t], w) : f.kind \in {"delegate", "remove"}
      BY <1>2, <1>4 DEF Frame
    <3> QED BY <1>5, <2>1, <3>1 DEF SentInv, Tells
  <2>4. ViewInv(w)' /\ ForgottenInv(w)'
    BY <1>5, <2>1 DEF ViewInv, ForgottenInv
  <2> QED BY <2>2, <2>3, <2>4
<1>11. \A v \in Windows : OneInv(v)'
  BY <1>8, <1>9, <1>10 DEF OneInv, CallsInv
<1> QED BY <1>4, <1>6, <1>7, <1>11 DEF WindowInv
-----------------------------------------------------------------------------
(* Messages and what is left when they are sent.                            *)

\* What lies under the top of a stack.
LEMMA Under ==
  ASSUME TypesInv, StacksInv, NEW t \in Threads, Kind(t) \in FrameKinds
  PROVE  \A i \in DOMAIN Front(stack[t]) :
           \/ stack[t][i].kind = "delegate"
           \/ i = Len(stack[t]) - 1 /\ stack[t][i].kind \in Says /\ Kind(t) \in Tells
<1>1. stack[t] \in Seq(FrameSet) /\ stack[t] # <<>> /\ Last(stack[t]).kind = Kind(t)
  BY TopIs
<1>2. /\ DOMAIN Front(stack[t]) = 1 .. Len(stack[t]) - 1
      /\ Last(stack[t]) = stack[t][Len(stack[t])]
  BY <1>1, FrontIs
<1> QED BY <1>1, <1>2 DEF StacksInv, Tidy

\* The message t sends next is taken from its stack, and the delegate takes its
\* place if it is one for the delegate.
LEMMA Leaving ==
  ASSUME TypesInv, StacksInv, NEW t \in Threads, Kind(t) \in FrameKinds,
         NEW w, w = Last(stack[t]).win,
         NEW fs, Replaced(t, fs),
         fs = <<>> \/ (Kind(t) \in Says /\ fs = <<Frame("delegate", w, 0)>>)
  PROVE  /\ stack' \in [Threads -> Seq(FrameSet)] /\ StacksInv'
         /\ \A v \in Windows \ {w} : \A u \in Threads : On(stack'[u], v) = On(stack[u], v)
         /\ \A u \in Threads \ {t} : On(stack'[u], w) = On(stack[u], w)
         /\ \A g \in On(stack[t], w) :
              g.kind \in {"delegate", Kind(t)} \/ (g.kind \in Says /\ Kind(t) \in Tells)
         /\ \A g \in On(stack'[t], w) :
              \/ g.kind = "delegate"
              \/ g \in On(stack[t], w) /\ g.kind \in Says /\ Kind(t) \in Tells
<1> DEFINE s == stack[t]
<1>1. /\ s \in Seq(FrameSet) /\ s # <<>> /\ Last(s).kind = Kind(t)
      /\ w \in Windows /\ Last(s).win = w /\ Last(s) \in On(s, w)
  BY TopIs
<1>2. /\ Len(s) \in Nat \ {0} /\ DOMAIN s = 1 .. Len(s)
      /\ Front(s) \in Seq(FrameSet) /\ Len(Front(s)) = Len(s) - 1
      /\ DOMAIN Front(s) = 1 .. Len(s) - 1
      /\ \A i \in 1 .. Len(s) - 1 : Front(s)[i] = s[i]
      /\ Last(s) = s[Len(s)]
  BY <1>1, FrontIs
<1>3. \A i \in 1 .. Len(s) - 1 :
        \/ s[i].kind = "delegate"
        \/ i = Len(s) - 1 /\ s[i].kind \in Says /\ Kind(t) \in Tells
  BY <1>2, Under
<1> HIDE DEF s
<1>4. Neat(fs, w) /\ \A i \in DOMAIN fs : fs[i].kind = "delegate"
  <2>1. CASE fs = <<>>
    BY <2>1, NothingNeat
  <2>2. CASE fs = <<Frame("delegate", w, 0)>>
    <3>1. "delegate" \in FrameKinds /\ 0 \in Sizes \cup {0}
      BY DEF FrameKinds
    <3>2. Neat(fs, w) /\ DOMAIN fs = {1} /\ fs[1] = Frame("delegate", w, 0)
      BY <1>1, <2>2, <3>1, OneNeat
    <3> QED BY <3>2 DEF Frame
  <2> QED BY <2>1, <2>2
<1>5. PICK q : q = Front(s) \o fs
  OBVIOUS
<1>6. /\ q \in Seq(FrameSet) /\ Len(q) = Len(s) - 1 + Len(fs) /\ Len(fs) \in Nat
      /\ \A i \in 1 .. Len(s) - 1 : q[i] = s[i]
      /\ \A v : On(q, v) = On(Front(s), v) \cup On(fs, v)
  BY <1>2, <1>4, <1>5, Joined, OnJoined DEF Neat
<1>7. stack' = [stack EXCEPT ![t] = q]
  BY <1>5 DEF Replaced, s
<1>8. /\ stack'[t] = q /\ \A u \in Threads \ {t} : stack'[u] = stack[u]
      /\ stack' \in [Threads -> Seq(FrameSet)]
  BY <1>6, <1>7 DEF TypesInv
<1>9. Tidy(q)
  <2>1. CASE fs = <<>>
    <3>1. Len(fs) = 0
      BY <2>1
    <3>2. Len(s) \in Nat /\ Len(q) = Len(s) - 1 + Len(fs)
      BY <1>2, <1>6
    <3>3. PICK n \in Nat, m \in Int : n = Len(s) /\ m = Len(q)
      BY <3>2
    <3>4. m = n - 1
      BY <3>1, <3>2, <3>3
    <3>5. \A i \in 1 .. m - 1 : i \in 1 .. n - 1 /\ i # n - 1
      BY <3>4
    <3>6. ASSUME NEW i \in 1 .. m - 1
          PROVE  q[i].kind = "delegate"
      BY <1>3, <1>6, <3>3, <3>5
    <3> QED BY <3>3, <3>6 DEF Tidy
  <2>2. CASE Kind(t) \in Says
    <3>1. Kind(t) \notin Tells
      BY <2>2 DEF Says, Tells
    <3>2. \A i \in DOMAIN Front(s) : Front(s)[i].kind = "delegate"
      BY <1>2, <1>3, <3>1
    <3> QED BY <1>2, <1>4, <1>5, <3>2, TidyPushed
  <2> QED BY <2>1, <2>2
<1>10. StacksInv'
  BY <1>8, <1>9 DEF StacksInv
<1>11. ASSUME NEW v \in Windows \ {w}, NEW u \in Threads
       PROVE  On(stack'[u], v) = On(stack[u], v)
  <2>1. On(fs, v) = {} /\ On(Front(s), v) = On(s, v)
    BY <1>1, <1>4, <1>11, NeatOn, OnTop
  <2>2. On(q, v) = On(s, v)
    BY <1>6, <2>1
  <2> QED BY <1>8, <2>2 DEF s
<1>12. ASSUME NEW g \in On(s, w)
       PROVE  g.kind \in {"delegate", Kind(t)} \/ (g.kind \in Says /\ Kind(t) \in Tells)
  <2>1. PICK i \in DOMAIN s : g = s[i]
    BY <1>12 DEF On
  <2>2. i = Len(s) \/ i \in 1 .. Len(s) - 1
    BY <1>2, <2>1
  <2> QED BY <1>1, <1>2, <1>3, <2>1, <2>2
<1>13. ASSUME NEW g \in On(q, w)
       PROVE  \/ g.kind = "delegate"
              \/ g \in On(s, w) /\ g.kind \in Says /\ Kind(t) \in Tells
  <2>1. CASE g \in On(fs, w)
    <3>1. PICK i \in DOMAIN fs : g = fs[i]
      BY <2>1 DEF On
    <3> QED BY <1>4, <3>1
  <2>2. CASE g \in On(Front(s), w)
    <3>1. PICK i \in DOMAIN Front(s) : g = Front(s)[i]
      BY <2>2 DEF On
    <3>2. g = s[i] /\ i \in 1 .. Len(s) - 1 /\ g \in On(s, w)
      BY <1>1, <1>2, <2>2, <3>1, OnTop
    <3> QED BY <1>3, <3>2
  <2> QED BY <1>6, <2>1, <2>2
<1> QED BY <1>8, <1>10, <1>11, <1>12, <1>13 DEF s

\* A step of a thread that has sent a message about w, of which the rest of the
\* state says about w what it should.
LEMMA LeaveKeeps ==
  ASSUME WindowInv, NEW t \in Threads, Kind(t) \in FrameKinds,
         NEW w, w = Last(stack[t]).win,
         NEW fs, Replaced(t, fs),
         fs = <<>> \/ (Kind(t) \in Says /\ fs = <<Frame("delegate", w, 0)>>),
         UNCHANGED <<installed, mixed>>, TypesInv',
         shown'[w] = Gone \/ installed \/ shown'[w] = shown[w],
         \A v \in Windows \ {w} :
           /\ v \in DOMAIN table' <=> v \in DOMAIN table
           /\ v \in DOMAIN table => table'[v] = table[v]
           /\ shown'[v] = shown[v] /\ life'[v] = life[v] /\ decided'[v] = decided[v],
         KeyInv(w)', life'[w] = life[w] \/ life'[w] = "closed",
         ~mixed[w] /\ OneInv(w) =>
           /\ \A g \in On(stack[t], w) :
                g.kind = "becameKey" /\ Kind(t) \in Tells /\ State(w).key => State(w)'.key
           /\ (\/ Kind(t) \in Tells \cup {"remove"}
               \/ shown[w] # Gone => w \in DOMAIN table /\ shown[w] = table[w].size)
              => (shown'[w] # Gone => w \in DOMAIN table' /\ shown'[w] = table'[w].size)
           /\ ForgottenInv(w)'
  PROVE  WindowInv'
<1>1. TypesInv /\ StacksInv /\ GoneInv
  BY DEF WindowInv
<1>2. w \in Windows /\ Last(stack[t]) \in On(stack[t], w)
  BY <1>1, TopIs
<1>3. OneInv(w)
  BY <1>2 DEF WindowInv
<1>4. /\ stack' \in [Threads -> Seq(FrameSet)] /\ StacksInv'
      /\ \A v \in Windows \ {w} : \A u \in Threads : On(stack'[u], v) = On(stack[u], v)
      /\ \A u \in Threads \ {t} : On(stack'[u], w) = On(stack[u], w)
      /\ \A g \in On(stack[t], w) :
           g.kind \in {"delegate", Kind(t)} \/ (g.kind \in Says /\ Kind(t) \in Tells)
      /\ \A g \in On(stack'[t], w) :
           \/ g.kind = "delegate"
           \/ g \in On(stack[t], w) /\ g.kind \in Says /\ Kind(t) \in Tells
  BY <1>1, Leaving
<1>5. GoneInv'
  BY <1>1, <1>2 DEF GoneInv
<1>6. ASSUME NEW v \in Windows, v # w
      PROVE  OneInv(v)'
  <2>1. OneInv(v)
    BY DEF WindowInv
  <2> QED BY <1>4, <1>6, <2>1, Elsewhere
<1>7. NewInv(w)'
  <2>1. life[w] # "new"
    BY <1>2, <1>3 DEF OneInv, NewInv
  <2> QED BY <2>1 DEF NewInv
<1>8. ASSUME ~mixed[w]
      PROVE  Alone(w)' /\ SentInv(w)' /\ ViewInv(w)' /\ ForgottenInv(w)'
  <2>1. Alone(w) /\ SentInv(w) /\ ViewInv(w)
    BY <1>3, <1>8 DEF OneInv, CallsInv
  <2>2. \A u \in Threads \ {t} : On(stack[u], w) = {} /\ On(stack'[u], w) = {}
    BY <1>2, <1>4, <2>1 DEF Alone
  <2>3. Alone(w)'
    BY <2>2 DEF Alone
  <2>4. SentInv(w)'
    <3> SUFFICES ASSUME NEW g \in On(stack'[t], w)
                 PROVE  /\ g.kind = "becameKey" => State(w)'.key
                        /\ g.kind \notin Tells \cup {"remove"}
      BY <2>2 DEF SentInv
    <3>1. CASE g.kind = "delegate"
      BY <3>1 DEF Tells
    <3>2. CASE g \in On(stack[t], w) /\ g.kind \in Says /\ Kind(t) \in Tells
      BY <1>3, <1>8, <2>1, <3>2 DEF SentInv, Says, Tells
    <3> QED BY <1>4, <3>1, <3>2
  <2>5. ViewInv(w)'
    <3>1. ASSUME Kind(t) \notin Tells \cup {"remove"}
          PROVE  shown[w] # Gone => w \in DOMAIN table /\ shown[w] = table[w].size
      <4>1. \A g \in On(stack[t], w) : g.kind \notin Tells \cup {"remove"}
        BY <1>4, <3>1 DEF Tells
      <4> QED BY <2>1, <2>2, <4>1 DEF ViewInv
    <3>2. shown'[w] # Gone => w \in DOMAIN table' /\ shown'[w] = table'[w].size
      BY <1>3, <1>8, <3>1
    <3> QED BY <3>2 DEF ViewInv
  <2>6. ForgottenInv(w)'
    BY <1>3, <1>8
  <2> QED BY <2>3, <2>4, <2>5, <2>6
<1>9. OneInv(w)'
  BY <1>7, <1>8 DEF OneInv, CallsInv
<1> QED BY <1>4, <1>5, <1>6, <1>9 DEF WindowInv

\* The compositor is told: its view is now what the message says, which is what the
\* table says.
LEMMA TellsKeep ==
  ASSUME WindowInv, NEW t \in Threads, WindowShown(t) \/ WindowResized(t)
  PROVE  WindowInv'
<1>1. PICK w : w = Last(stack[t]).win
  OBVIOUS
<1>2. TypesInv /\ StacksInv /\ GoneInv /\ Kind(t) \in Tells /\ Kind(t) \in FrameKinds
  BY DEF WindowInv, WindowShown, WindowResized, Tells, FrameKinds
<1>3. /\ w \in Windows /\ Last(stack[t]) \in FrameSet /\ Last(stack[t]).kind = Kind(t)
      /\ Last(stack[t]) \in On(stack[t], w)
  BY <1>1, <1>2, TopIs
<1>4. /\ shown' \in [Windows -> Sizes \cup {0, Gone}]
      /\ \A v \in Windows \ {w} : shown'[v] = shown[v]
      /\ shown'[w] = Last(stack[t]).size \/ shown'[w] = Gone
      /\ installed \/ shown'[w] = shown[w]
  <2>1. Last(stack[t]).size \in Sizes \cup {0, Gone} /\ (~installed => shown[w] = Gone)
    BY <1>2, <1>3 DEF FrameSet, GoneInv
  <2>2. CASE WindowShown(t)
    BY <1>1, <1>2, <1>3, <2>1, <2>2 DEF WindowShown, TypesInv
  <2>3. CASE WindowResized(t)
    BY <1>1, <1>2, <1>3, <2>1, <2>3 DEF WindowResized, TypesInv
  <2> QED BY <2>2, <2>3
<1>5. Replaced(t, <<>>) /\ UNCHANGED <<table, installed, life, decided, mixed>>
  BY DEF WindowShown, WindowResized
<1>6. KeyInv(w)' /\ State(w)' = State(w)
  BY <1>3, <1>5 DEF WindowInv, OneInv, KeyInv, State
<1>7. TypesInv'
  <2>1. stack' \in [Threads -> Seq(FrameSet)]
    BY <1>1, <1>2, <1>5, Leaving
  <2> QED BY <1>2, <1>4, <1>5, <2>1 DEF TypesInv
<1>8. ASSUME ~mixed[w], OneInv(w)
      PROVE  /\ shown'[w] # Gone => w \in DOMAIN table' /\ shown'[w] = table'[w].size
             /\ ForgottenInv(w)'
  <2>1. w \in DOMAIN table /\ Last(stack[t]).size = table[w].size /\ ForgottenInv(w)
    BY <1>2, <1>3, <1>8 DEF OneInv, CallsInv, SentInv
  <2> QED BY <1>4, <1>5, <2>1 DEF ForgottenInv
<1> QED BY <1>1, <1>2, <1>4, <1>5, <1>6, <1>7, <1>8, LeaveKeeps

LEMMA DelegateKeeps ==
  ASSUME WindowInv, NEW t \in Threads, SendToDelegate(t) \/ DelegateReturns(t)
  PROVE  WindowInv'
<1>1. PICK w : w = Last(stack[t]).win
  OBVIOUS
<1>2. /\ TypesInv /\ StacksInv
      /\ Kind(t) \in FrameKinds /\ Kind(t) \notin Tells \cup {"remove"}
  BY DEF WindowInv, SendToDelegate, DelegateReturns, Says, Tells, FrameKinds
<1>3. w \in Windows
  BY <1>1, <1>2, TopIs
<1>4. PICK fs : /\ Replaced(t, fs)
                /\ fs = <<>> \/ (Kind(t) \in Says /\ fs = <<Frame("delegate", w, 0)>>)
  BY <1>1 DEF SendToDelegate, DelegateReturns, Says
<1>5. UNCHANGED <<table, installed, shown, life, decided, mixed>>
  BY DEF SendToDelegate, DelegateReturns
<1>6. KeyInv(w)' /\ State(w)' = State(w)
  BY <1>3, <1>5 DEF WindowInv, OneInv, KeyInv, State
<1>7. TypesInv'
  <2>1. stack' \in [Threads -> Seq(FrameSet)]
    BY <1>1, <1>2, <1>4, Leaving
  <2> QED BY <1>2, <1>5, <2>1 DEF TypesInv
<1>8. ASSUME ~mixed[w], OneInv(w)
      PROVE  ForgottenInv(w)'
  BY <1>5, <1>8 DEF OneInv, CallsInv, ForgottenInv
<1> QED BY <1>1, <1>2, <1>4, <1>5, <1>6, <1>7, <1>8, LeaveKeeps

\* The table forgets the window, which the compositor does not show any more.
LEMMA RemoveKeeps ==
  ASSUME WindowInv, NEW t \in Threads, RemoveWindowState(t)
  PROVE  WindowInv'
<1>1. PICK w : w = Last(stack[t]).win
  OBVIOUS
<1>2. /\ TypesInv /\ StacksInv
      /\ Kind(t) = "remove" /\ Kind(t) \in FrameKinds /\ Kind(t) \notin Tells
  BY DEF WindowInv, RemoveWindowState, Tells, FrameKinds
<1>3. /\ w \in Windows /\ Last(stack[t]).kind = Kind(t)
      /\ Last(stack[t]) \in On(stack[t], w)
  BY <1>1, <1>2, TopIs
<1>4. /\ Replaced(t, <<>>) /\ UNCHANGED <<installed, shown, mixed>>
      /\ table' = [v \in DOMAIN table \ {w} |-> table[v]]
      /\ life' = [life EXCEPT ![w] = "closed"] /\ decided' = [decided EXCEPT ![w] = 0]
  BY <1>1 DEF RemoveWindowState
<1>5. /\ DOMAIN table' = DOMAIN table \ {w}
      /\ \A v \in DOMAIN table' : table'[v] = table[v]
      /\ life'[w] = "closed" /\ decided'[w] = 0
      /\ \A v \in Windows \ {w} : life'[v] = life[v] /\ decided'[v] = decided[v]
  BY <1>2, <1>3, <1>4 DEF TypesInv
<1>6. KeyInv(w)'
  BY <1>5 DEF KeyInv, State, Blank
<1>7. TypesInv'
  <2>1. stack' \in [Threads -> Seq(FrameSet)]
    BY <1>1, <1>2, <1>4, Leaving
  <2> QED BY <1>2, <1>4, <1>5, <2>1 DEF TypesInv
<1>8. ASSUME ~mixed[w], OneInv(w)
      PROVE  shown'[w] = Gone /\ ForgottenInv(w)'
  <2>1. shown[w] = Gone
    BY <1>2, <1>3, <1>8 DEF OneInv, CallsInv, SentInv
  <2> QED BY <1>4, <1>5, <2>1 DEF ForgottenInv
<1>9. life'[w] = "closed" /\ shown'[w] = shown[w] /\ UNCHANGED <<installed, mixed>>
  BY <1>4, <1>5
<1>10. \A v \in Windows \ {w} :
         /\ v \in DOMAIN table' <=> v \in DOMAIN table
         /\ v \in DOMAIN table => table'[v] = table[v]
         /\ shown'[v] = shown[v] /\ life'[v] = life[v] /\ decided'[v] = decided[v]
  BY <1>4, <1>5
<1> QED BY <1>1, <1>2, <1>4, <1>6, <1>7, <1>8, <1>9, <1>10, LeaveKeeps

\* The address of a closed window is free for the next.
LEMMA ReleaseKeeps ==
  ASSUME WindowInv, NEW w \in Windows, Release(w)
  PROVE  WindowInv'
<1>1. TypesInv /\ StacksInv /\ GoneInv /\ \A v \in Windows : OneInv(v)
  BY DEF WindowInv
<1>2. /\ life[w] = "closed" /\ life' = [life EXCEPT ![w] = "new"]
      /\ UNCHANGED <<table, installed, shown, stack, decided, mixed>>
      /\ \A t \in Threads : On(stack[t], w) = {}
  BY InCallOn DEF Release
<1>3. /\ life' \in [Windows -> {"new", "open", "closed"}] /\ life'[w] = "new"
      /\ \A v \in Windows \ {w} : life'[v] = life[v]
  BY <1>1, <1>2 DEF TypesInv
<1>4. TypesInv' /\ StacksInv' /\ GoneInv'
  BY <1>1, <1>2, <1>3 DEF TypesInv, StacksInv, GoneInv
<1>5. ASSUME NEW v \in Windows, v # w
      PROVE  OneInv(v)'
  BY <1>1, <1>2, <1>3, <1>5, Elsewhere
<1>6. KeyInv(w)' /\ NewInv(w)'
  BY <1>1, <1>2 DEF OneInv, KeyInv, NewInv, State
<1>7. ASSUME ~mixed[w]
      PROVE  Alone(w)' /\ SentInv(w)' /\ ViewInv(w)' /\ ForgottenInv(w)'
  <2>1. Alone(w) /\ SentInv(w) /\ ViewInv(w) /\ ForgottenInv(w)
    BY <1>1, <1>7 DEF OneInv, CallsInv
  <2>2. Alone(w)' /\ SentInv(w)'
    BY <1>2 DEF Alone, SentInv
  <2>3. ViewInv(w)' /\ ForgottenInv(w)'
    BY <1>2, <2>1 DEF ViewInv, ForgottenInv
  <2> QED BY <2>2, <2>3
<1>8. OneInv(w)'
  BY <1>2, <1>6, <1>7 DEF OneInv, CallsInv
<1> QED BY <1>4, <1>5, <1>8 DEF WindowInv

\* Nothing about a window changes.
LEMMA NowhereKeeps ==
  ASSUME WindowInv, UNCHANGED <<table, shown, stack, life, decided, mixed>>,
         installed' = TRUE \/ installed' = installed
  PROVE  WindowInv'
<1>1. TypesInv /\ StacksInv /\ GoneInv /\ \A v \in Windows : OneInv(v)
  BY DEF WindowInv
<1>2. TypesInv' /\ StacksInv' /\ GoneInv'
  BY <1>1 DEF TypesInv, StacksInv, GoneInv
<1>3. \A v \in Windows : OneInv(v)'
  BY <1>1, Elsewhere
<1> QED BY <1>2, <1>3 DEF WindowInv
-----------------------------------------------------------------------------
(* The theorems.                                                            *)

LEMMA InitWindow == Init => WindowInv
<1> SUFFICES ASSUME Init PROVE WindowInv
  OBVIOUS
<1>1. \A t \in Threads, w \in Windows : stack[t] = <<>> /\ On(stack[t], w) = {}
  BY OnNone DEF Init
<1>2. TypesInv
  <2>1. <<>> \in Seq(FrameSet) /\ DOMAIN <<>> = {}
    OBVIOUS
  <2> QED BY <2>1 DEF Init, TypesInv
<1>3. StacksInv /\ GoneInv
  BY <1>1 DEF Init, StacksInv, Tidy, GoneInv
<1>4. ASSUME NEW w \in Windows
      PROVE  OneInv(w)
  <2>1. w \notin DOMAIN table /\ shown[w] = Gone /\ decided[w] = 0
    BY DEF Init
  <2>2. KeyInv(w) /\ NewInv(w)
    BY <1>1, <2>1 DEF KeyInv, NewInv, State, Blank
  <2>3. Alone(w) /\ SentInv(w)
    BY <1>1 DEF Alone, SentInv
  <2>4. ViewInv(w) /\ ForgottenInv(w)
    BY <2>1 DEF ViewInv, ForgottenInv
  <2> QED BY <2>2, <2>3, <2>4 DEF OneInv, CallsInv
<1> QED BY <1>2, <1>3, <1>4 DEF WindowInv

LEMMA StepKeepsWindow == WindowInv /\ [Next]_vars => WindowInv'
<1> SUFFICES ASSUME WindowInv, [Next]_vars PROVE WindowInv'
  OBVIOUS
<1>1. CASE UNCHANGED vars
  BY <1>1, NowhereKeeps DEF vars
<1>2. CASE InstallCompositor
  BY <1>2, NowhereKeeps DEF InstallCompositor
<1>3. ASSUME NEW t \in Threads, NEW w \in Windows,
             \/ \E size \in Sizes : WindowInit(t, w, size) \/ SetFrameDisplay(t, w, size)
             \/ \E delegate \in BOOLEAN : SetDelegate(t, w, delegate)
             \/ Touch(t, w) \/ MakeKeyAndOrderFront(t, w) \/ OrderOut(t, w) \/ Close(t, w)
      PROVE  WindowInv'
  BY <1>3, QuietKeeps, SetFrameKeeps, MakeKeyKeeps, CloseKeeps
<1>4. ASSUME NEW t \in Threads,
             \/ RemoveWindowState(t) \/ WindowShown(t) \/ WindowResized(t)
             \/ SendToDelegate(t) \/ DelegateReturns(t)
      PROVE  WindowInv'
  BY <1>4, RemoveKeeps, TellsKeep, DelegateKeeps
<1>5. ASSUME NEW w \in Windows, Release(w)
      PROVE  WindowInv'
  BY <1>5, ReleaseKeeps
<1> QED BY <1>1, <1>2, <1>3, <1>4, <1>5 DEF Next

LEMMA WindowInvariant == Spec => []WindowInv
BY InitWindow, StepKeepsWindow, PTL DEF Spec

\* The frame a thread sends next is one of its frames about that frame's window.
LEMMA TopOn ==
  ASSUME WindowInv, NEW t \in Threads, Kind(t) \in FrameKinds
  PROVE  /\ Last(stack[t]).kind = Kind(t)
         /\ Last(stack[t]) \in On(stack[t], Last(stack[t]).win)
BY TopIs DEF WindowInv

\* Of the calls that race to make a window key one announces it; used by one thread
\* at a time, a window is still key when its delegate is about to be told.
THEOREM KeyAnnounced == Spec => []KeyAnnouncedOnce
<1>1. WindowInv => KeyAnnouncedOnce
  <2> SUFFICES ASSUME WindowInv, NEW w \in Windows
               PROVE  /\ decided[w] = IF State(w).key THEN 1 ELSE 0
                      /\ ~mixed[w] =>
                           \A t \in Threads :
                             Kind(t) = "becameKey" /\ Last(stack[t]).win = w => State(w).key
    BY DEF KeyAnnouncedOnce
  <2>1. OneInv(w)
    BY DEF WindowInv
  <2>2. ASSUME ~mixed[w], NEW t \in Threads, Kind(t) = "becameKey", Last(stack[t]).win = w
        PROVE  State(w).key
    <3>1. Last(stack[t]) \in On(stack[t], w) /\ Last(stack[t]).kind = "becameKey"
      BY <2>2, TopOn DEF FrameKinds, Says
    <3> QED BY <2>1, <2>2, <3>1 DEF OneInv, CallsInv, SentInv
  <2> QED BY <2>1, <2>2 DEF OneInv, KeyInv
<1> QED BY <1>1, WindowInvariant, PTL

\* When nothing is left to be said of a window, no frame about it says anything.
LEMMA QuietSays ==
  ASSUME NEW w, Quiet(w), NEW t \in Threads, NEW f \in On(stack[t], w)
  PROVE  f.kind = "delegate"
BY DEF Quiet, On

\* Between calls the compositor has the size the window reports, whatever delegates do
\* to the window from within a call.
THEOREM ViewCurrent == Spec => []CompositorCurrent
<1>1. WindowInv => CompositorCurrent
  <2> SUFFICES ASSUME WindowInv, NEW w \in Windows, ~mixed[w], Quiet(w), shown[w] # Gone
               PROVE  w \in DOMAIN table /\ shown[w] = table[w].size
    BY DEF CompositorCurrent
  <2>1. ViewInv(w)
    BY DEF WindowInv, OneInv, CallsInv
  <2> QED BY <2>1, QuietSays DEF ViewInv, Tells
<1> QED BY <1>1, WindowInvariant, PTL

\* A closed window that nobody has used since leaves nothing to the next one at its
\* address, and nothing on the screen.
THEOREM ClosedLeavesNothing == Spec => []ClosedForgotten
<1>1. WindowInv => ClosedForgotten
  BY DEF WindowInv, OneInv, CallsInv, ForgottenInv, ClosedForgotten
<1> QED BY <1>1, WindowInvariant, PTL
==============================================================================
