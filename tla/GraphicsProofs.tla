--------------------------- MODULE GraphicsProofs ----------------------------
(***************************************************************************)
(* Theorems about Graphics, for any threads, buffers, images and width of  *)
(* the names, and for any offers that are what Vulkan promises of one      *)
(* (OffersAssumption).  Three invariants:                                  *)
(*   HandleInv  HandlesAccounted speaks of a process that has neither lost *)
(*              names nor ended, but a step may leave that state, never come *)
(*              back to it; so what the buffers' part needs to be inductive *)
(*              is only that a process without a context has no names yet. *)
(*              The images' part needs that memory is owned and comes with *)
(*              an image, as destroy goes by the flag and DropImage loses  *)
(*              what there is.                                             *)
(*   ChoiceInv  until the device is global, the choice is what the loops   *)
(*              find in the offer.  What the loops find is stated apart from *)
(*              the states: a loop over a list takes its steps one by one, *)
(*              and each property of the steps holds of all of them, as there *)
(*              is no least one for which it fails.                        *)
(*   MemoryInv  what is bound is of a type that the global device, one of  *)
(*              those offered, has for it.                                 *)
(***************************************************************************)
EXTENDS Graphics, WellFoundedInduction, FiniteSetTheorems, TLAPS

GlInv ==
  ~aborted /\ ~reused =>
    /\ DOMAIN live = Recorded
    /\ \A m, n \in DOMAIN buffers : buffers[m] = buffers[n] => m = n \/ buffers[m] = Null
    /\ ~hasContext => DOMAIN buffers = {}

ImageInv ==
  /\ DOMAIN images = Images /\ DOMAIN parts = Images
  /\ \A i \in Images :
       /\ DOMAIN images[i] = {"fields", "owns", "type"}
       /\ images[i].fields = parts[i]
       /\ images[i].fields \subseteq Kinds
       /\ "memory" \in images[i].fields => "image" \in images[i].fields /\ images[i].owns

LostInv ==
  /\ "fd" \in lost => "memory" \in lost
  /\ "memory" \in lost => "image" \in lost

HandleInv == GlInv /\ ImageInv /\ LostInv

-----------------------------------------------------------------------------
LEMMA InitHandles == Init => HandleInv
<1> SUFFICES ASSUME Init PROVE HandleInv  OBVIOUS
<1>1. GlInv
  BY DEF Init, GlInit, GlInv, Recorded
<1>2. ImageInv /\ LostInv
  BY DEF Init, ImageInit, ImageInv, LostInv, NoImage, Kinds
<1> QED BY <1>1, <1>2 DEF HandleInv

LEMMA InvAccounts == HandleInv => HandlesAccounted
<1> SUFFICES ASSUME HandleInv PROVE HandlesAccounted  OBVIOUS
<1>1. ASSUME ~aborted, ~reused PROVE Touched \subseteq DOMAIN live
  <2> SUFFICES ASSUME NEW target \in Targets, Current(target),
                      buffers[bound[target]] # Null
               PROVE buffers[bound[target]] \in DOMAIN live
    BY DEF Touched
  <2> QED BY <1>1 DEF HandleInv, GlInv, Recorded, Current
<1> QED BY <1>1 DEF HandleInv, GlInv, ImageInv, LostInv, HandlesAccounted

\* Only the variables named count.
LEMMA GlUntouched == GlInv /\ UNCHANGED glVars => GlInv'
<1> QED BY DEF GlInv, glVars, Recorded

-----------------------------------------------------------------------------
\* A call that allocates: the new handle takes the place of the old.
LEMMA BufferDataKeeps ==
  ASSUME NEW target \in Targets, GlInv, BufferData(target) PROVE GlInv'
<1> DEFINE b == bound[target]
<1> SUFFICES ASSUME ~aborted, ~reused
             PROVE /\ DOMAIN live' = Recorded'
                   /\ \A m, n \in DOMAIN buffers' :
                        buffers'[m] = buffers'[n] => m = n \/ buffers'[m] = Null
                   /\ ~hasContext' => DOMAIN buffers' = {}
  BY DEF BufferData, GlInv
<1>1. b \in DOMAIN buffers
  BY DEF BufferData, Current
<1>2. PICK h \in Handles \ DOMAIN Destroyed(target) :
        live' = Allocated(target, h) /\ buffers' = [buffers EXCEPT ![b] = h]
  BY DEF BufferData
<1>3. h # Null
  BY <1>2, GlAssumption
<1>4. DOMAIN Destroyed(target) = DOMAIN live \ {buffers[b]}
  BY DEF Destroyed, Restrict
<1>5. DOMAIN live' = (DOMAIN live \ {buffers[b]}) \cup {h}
  BY <1>2, <1>4 DEF Allocated
<1>6. DOMAIN buffers' = DOMAIN buffers /\ buffers'[b] = h
      /\ \A n \in DOMAIN buffers \ {b} : buffers'[n] = buffers[n]
  BY <1>1, <1>2
<1>7. DOMAIN live = Recorded
      /\ \A m, n \in DOMAIN buffers : buffers[m] = buffers[n] => m = n \/ buffers[m] = Null
  BY DEF GlInv
<1>8. Recorded' = {buffers'[n] : n \in DOMAIN buffers'} \ {Null}
  BY DEF Recorded
<1>9. DOMAIN live' = Recorded'
  <2>1. ASSUME NEW x \in DOMAIN live' PROVE x \in Recorded'
    <3>1. CASE x = h
      BY <3>1, <1>1, <1>3, <1>6, <1>8
    <3>2. CASE x \in DOMAIN live \ {buffers[b]}
      <4>1. PICK n \in DOMAIN buffers : x = buffers[n] /\ x # Null /\ n # b
        BY <3>2, <1>7 DEF Recorded
      <4> QED BY <4>1, <1>6, <1>8
    <3> QED BY <2>1, <3>1, <3>2, <1>5
  <2>2. ASSUME NEW x \in Recorded' PROVE x \in DOMAIN live'
    <3>1. PICK n \in DOMAIN buffers : x = buffers'[n] /\ x # Null
      BY <2>2, <1>6, <1>8
    <3>2. CASE n = b
      BY <3>1, <3>2, <1>5, <1>6
    <3>3. CASE n # b
      <4>1. x = buffers[n] /\ x \in DOMAIN live
        BY <3>1, <3>3, <1>6, <1>7 DEF Recorded
      <4>2. x # buffers[b]
        BY <3>1, <3>3, <4>1, <1>1, <1>7
      <4> QED BY <4>1, <4>2, <1>5
    <3> QED BY <3>2, <3>3
  <2> QED BY <2>1, <2>2
<1>10. ASSUME NEW m \in DOMAIN buffers, NEW n \in DOMAIN buffers, m # n,
              buffers'[m] = buffers'[n]
       PROVE buffers'[m] = Null
  <2>1. ASSUME NEW k \in DOMAIN buffers \ {b} PROVE buffers[k] # h
    <3>1. SUFFICES ASSUME buffers[k] = h PROVE FALSE  OBVIOUS
    <3>2. h \in DOMAIN live /\ h # buffers[b]
      BY <3>1, <1>1, <1>3, <1>7 DEF Recorded
    <3> QED BY <3>2, <1>2, <1>4
  <2> QED BY <1>10, <2>1, <1>6, <1>7
<1>11. hasContext' = hasContext /\ hasContext
  BY DEF BufferData, Current, Enters
<1> QED BY <1>6, <1>9, <1>10, <1>11

LEMMA DeleteBuffersKeeps ==
  ASSUME NEW ids, GlInv, DeleteBuffers(ids) PROVE GlInv'
<1> DEFINE named == ids \cap DOMAIN buffers
           gone  == {buffers[n] : n \in named}
<1> SUFFICES ASSUME ~aborted, ~reused
             PROVE /\ DOMAIN live' = Recorded'
                   /\ \A m, n \in DOMAIN buffers' :
                        buffers'[m] = buffers'[n] => m = n \/ buffers'[m] = Null
                   /\ ~hasContext' => DOMAIN buffers' = {}
  BY DEF DeleteBuffers, GlInv
<1>1. DOMAIN buffers' = DOMAIN buffers \ named
      /\ \A n \in DOMAIN buffers \ named : buffers'[n] = buffers[n]
  BY DEF DeleteBuffers, Restrict
<1>2. DOMAIN live' = DOMAIN live \ gone
  BY DEF DeleteBuffers, Restrict
<1>3. DOMAIN live = Recorded
      /\ \A m, n \in DOMAIN buffers : buffers[m] = buffers[n] => m = n \/ buffers[m] = Null
  BY DEF GlInv
<1>4. ASSUME NEW x \in DOMAIN live' PROVE x \in Recorded'
  <2>1. PICK n \in DOMAIN buffers : x = buffers[n] /\ x # Null /\ n \notin named
    BY <1>4, <1>2, <1>3 DEF Recorded
  <2> QED BY <2>1, <1>1 DEF Recorded
<1>5. ASSUME NEW x \in Recorded' PROVE x \in DOMAIN live'
  <2>1. PICK n \in DOMAIN buffers \ named : x = buffers[n] /\ x # Null
    BY <1>5, <1>1 DEF Recorded
  <2>2. x \in DOMAIN live
    BY <2>1, <1>3 DEF Recorded
  <2>3. x \notin gone
    BY <2>1, <1>3
  <2> QED BY <2>2, <2>3, <1>2
<1>6. hasContext' = hasContext /\ hasContext
  BY DEF DeleteBuffers, Enters
<1> QED BY <1>1, <1>3, <1>4, <1>5, <1>6

\* New names stand for no handle; if one was in use already, reused tells.
LEMMA GenBuffersKeeps ==
  ASSUME NEW n, GlInv, GenBuffers(n) PROVE GlInv'
<1> SUFFICES ASSUME ~aborted', ~reused'
             PROVE /\ DOMAIN live' = Recorded'
                   /\ \A k, m \in DOMAIN buffers' :
                        buffers'[k] = buffers'[m] => k = m \/ buffers'[k] = Null
                   /\ ~hasContext' => DOMAIN buffers' = {}
  BY DEF GlInv
<1> DEFINE ids == {(nextId + i) % IdMod : i \in 0 .. n - 1}
<1>1. ids \cap DOMAIN buffers = {} /\ ~reused /\ ~aborted
      /\ hasContext' /\ live' = live
  BY DEF GenBuffers, Enters
<1>2. buffers' = [m \in DOMAIN buffers \cup ids |-> IF m \in ids THEN Null ELSE buffers[m]]
  BY DEF GenBuffers
<1> HIDE DEF ids
<1>3. DOMAIN buffers' = DOMAIN buffers \cup ids
      /\ (\A m \in ids : buffers'[m] = Null)
      /\ \A m \in DOMAIN buffers : buffers'[m] = buffers[m]
  BY <1>1, <1>2
<1>4. Recorded' = Recorded
  <2>1. ASSUME NEW x \in Recorded' PROVE x \in Recorded
    BY <2>1, <1>3 DEF Recorded
  <2>2. ASSUME NEW x \in Recorded PROVE x \in Recorded'
    BY <2>2, <1>3 DEF Recorded
  <2> QED BY <2>1, <2>2
<1> QED BY <1>1, <1>3, <1>4 DEF GlInv

LEMMA GlNextKeeps == GlInv /\ GlNext => GlInv'
<1> SUFFICES ASSUME GlInv, GlNext PROVE GlInv'  OBVIOUS
<1>1. ASSUME NEW t \in Threads, FindNoContext(t) PROVE GlInv'
  BY <1>1 DEF FindNoContext, GlInv, Recorded
<1>2. ASSUME NEW t \in Threads, StoreContext(t) PROVE GlInv'
  <2>1. DOMAIN buffers' = {} /\ live' = live /\ hasContext' = TRUE
        /\ aborted' = aborted /\ reused' = (reused \/ hasContext)
    BY <1>2 DEF StoreContext, NewContext
  <2>2. Recorded' = {}
    BY <2>1 DEF Recorded
  <2>3. ASSUME ~aborted, ~reused, ~hasContext PROVE DOMAIN live = {}
    BY <2>3 DEF GlInv, Recorded
  <2> QED BY <2>1, <2>2, <2>3 DEF GlInv
<1>3. ASSUME NEW target \in Targets, NEW name \in Names, BindBuffer(target, name) PROVE GlInv'
  BY <1>3 DEF BindBuffer, GlInv, Recorded
<1>4. ASSUME Panic PROVE GlInv'
  BY <1>4 DEF Panic, GlInv
<1> QED
  BY <1>1, <1>2, <1>3, <1>4, BufferDataKeeps, DeleteBuffersKeeps, GenBuffersKeeps
  DEF GlNext, GenOverflows, BufferDataPanics, SubDataPanics

-----------------------------------------------------------------------------
\* What the constructors do: an image with all it needs, or a loss with its image.
LEMMA MadeKeeps ==
  ASSUME NEW i \in Images, NEW fields \in SUBSET Kinds, NEW type,
         "memory" \in fields => "image" \in fields,
         ImageInv, LostInv, Made(i, fields, type)
  PROVE ImageInv' /\ LostInv'
<1> QED BY DEF Made, ImageInv, LostInv

LEMMA LoseKeeps ==
  ASSUME NEW kinds,
         "memory" \in kinds => "image" \in kinds, "fd" \in kinds => "memory" \in kinds,
         ImageInv, LostInv, Lose(kinds)
  PROVE ImageInv' /\ LostInv'
<1> QED BY DEF Lose, imageVars, ImageInv, LostInv

LEMMA MakeOwnedKeeps ==
  ASSUME NEW i \in Images, NEW consumed \in {{}, {"fd"}},
         ImageInv, LostInv, MakeOwned(i, consumed)
  PROVE ImageInv' /\ LostInv'
<1>1. CASE Lose({"image"})
  BY <1>1, LoseKeeps
<1>2. CASE Lose({"image", "memory"} \cup consumed)
  BY <1>2, LoseKeeps
<1>3. CASE \E type : Made(i, Kinds, type)
  BY <1>3, MadeKeeps DEF Kinds
<1> QED BY <1>1, <1>2, <1>3 DEF MakeOwned

LEMMA DestroyKeeps ==
  ASSUME NEW i \in Images, ImageInv, LostInv, Destroy(i)
  PROVE ImageInv' /\ LostInv'
<1> DEFINE freed == images[i].fields \ (IF images[i].owns THEN {} ELSE {"memory"})
<1>1. freed = images[i].fields
  BY DEF ImageInv
<1>2. images' = [images EXCEPT ![i].fields = {}] /\ parts' = [parts EXCEPT ![i] = {}]
      /\ lost' = lost
  BY <1>1 DEF Destroy, ImageInv
<1> QED BY <1>2 DEF ImageInv, LostInv

LEMMA DropImageKeeps ==
  ASSUME NEW i \in Images, ImageInv, LostInv, DropImage(i)
  PROVE ImageInv' /\ LostInv'
<1>1. ImageInv'
  BY DEF DropImage, ImageInv, NoImage, Kinds
<1>2. LostInv'
  BY DEF DropImage, ImageInv, LostInv, Kinds
<1> QED BY <1>1, <1>2

LEMMA ImageNextKeeps == ImageInv /\ LostInv /\ ImageNext => ImageInv' /\ LostInv'
<1> SUFFICES ASSUME ImageInv, LostInv, NEW i \in Images,
                    \/ CreateColorAttachment(i) \/ ImportOpaqueFd(i) \/ ImportFromMachPort(i)
                    \/ Destroy(i) \/ DropImage(i)
             PROVE ImageInv' /\ LostInv'
  BY DEF ImageNext
<1>1. CASE CreateColorAttachment(i) \/ ImportOpaqueFd(i)
  BY <1>1, MakeOwnedKeeps DEF CreateColorAttachment, ImportOpaqueFd
<1>2. CASE ImportFromMachPort(i)
  BY <1>2, LoseKeeps, MadeKeeps DEF ImportFromMachPort, Kinds
<1> QED BY <1>1, <1>2, DestroyKeeps, DropImageKeeps

-----------------------------------------------------------------------------
LEMMA StepKeepsHandles == HandleInv /\ [Next]_vars => HandleInv'
<1> SUFFICES ASSUME HandleInv, [Next]_vars PROVE HandleInv'  OBVIOUS
<1> USE DEF HandleInv
<1>1. ASSUME SelectDevice \/ SetGlobalSharedDevice \/ UNCHANGED vars PROVE HandleInv'
  <2>1. UNCHANGED <<glVars, imageVars, lost>>
    BY <1>1 DEF SelectDevice, SetGlobalSharedDevice, vars
  <2> QED BY <2>1, GlUntouched DEF ImageInv, LostInv, imageVars
<1>2. ASSUME PoolFails PROVE HandleInv'
  BY <1>2, GlUntouched DEF PoolFails, ImageInv, LostInv, imageVars
<1>3. ASSUME GlNext, UNCHANGED <<buildVars, lost, imageVars>> PROVE HandleInv'
  BY <1>3, GlNextKeeps DEF ImageInv, LostInv, imageVars
<1>4. ASSUME ImageNext, UNCHANGED <<buildVars, glVars>> PROVE HandleInv'
  BY <1>4, ImageNextKeeps, GlUntouched
<1> QED BY <1>1, <1>2, <1>3, <1>4 DEF Next

\* HandlesAccounted: while the process lives, every Vulkan buffer has one name and
\* every image its parts, whatever fails and in whatever order the calls come.
THEOREM Accounted == Spec => []HandlesAccounted
<1>1. HandleInv => HandlesAccounted
  BY InvAccounts
<1> QED BY InitHandles, StepKeepsHandles, <1>1, PTL DEF Spec

-----------------------------------------------------------------------------
\* A set of numbers has a least one: what follows by induction is the absurdity of a
\* least number for which it fails.
LEMMA Least ==
  ASSUME NEW T \in SUBSET Nat, T # {}
  PROVE  \E x \in T : \A y \in T : x <= y
<1>1. PICK x \in T : \A y \in T : ~(<<y, x>> \in OpToRel(<, Nat))
  BY WFMin, NatLessThanWellFounded, Zenon
<1>2. \A y \in T : ~(y < x)
  BY <1>1 DEF OpToRel
<1> QED BY <1>2

\* Min and Max choose what they should.
LEMMA MinIsLeast ==
  ASSUME NEW T \in SUBSET Nat, T # {}
  PROVE  Min(T) \in T /\ \A y \in T : Min(T) <= y
<1> QED BY Least DEF Min

LEMMA LeastIsMin ==
  ASSUME NEW T \in SUBSET Nat, NEW m \in T, \A y \in T : m <= y
  PROVE  Min(T) = m
<1>1. Min(T) \in T /\ \A y \in T : Min(T) <= y
  BY MinIsLeast
<1>2. m \in Nat /\ Min(T) \in Nat /\ Min(T) <= m /\ m <= Min(T)
  BY <1>1
<1> QED BY <1>2

\* Induction up to n over a set of numbers.
LEMMA UpTo ==
  ASSUME NEW n \in Nat, NEW T \in SUBSET Nat, 0 \in T,
         \A k \in 1 .. n : k - 1 \in T => k \in T
  PROVE  n \in T
<1> SUFFICES ASSUME n \notin T PROVE FALSE  OBVIOUS
<1> DEFINE U == {k \in 0 .. n : k \notin T}
<1>1. U \in SUBSET Nat /\ U # {}
  OBVIOUS
<1>2. PICK k \in U : \A y \in U : k <= y
  BY <1>1, Least
<1>3. k \in 1 .. n /\ k - 1 \in 0 .. n /\ ~(k <= k - 1)
  BY <1>2
<1>4. k - 1 \in T
  BY <1>2, <1>3
<1> QED BY <1>2, <1>3, <1>4

LEMMA MaxOfUpTo ==
  ASSUME NEW k \in Nat, NEW s, s \subseteq 1 .. k, k \in s
  PROVE  Max(s) = k
<1>1. \A x \in s : k >= x
  OBVIOUS
<1>2. \A x \in s : (\A y \in s : x >= y) => x = k
  OBVIOUS
<1> QED BY <1>1, <1>2 DEF Max

LEMMA MaxIsIn ==
  ASSUME NEW n \in Nat, NEW s, s \subseteq 1 .. n, s # {}
  PROVE  Max(s) \in s
<1> DEFINE T == {n - x : x \in s}
<1>1. T \in SUBSET Nat /\ T # {}
  <2>1. \A x \in s : n - x \in Nat
    OBVIOUS
  <2> QED BY <2>1
<1>2. PICK m \in T : \A y \in T : m <= y
  BY <1>1, Least
<1>3. PICK x \in s : m = n - x
  OBVIOUS
<1>4. \A y \in s : n - x <= n - y
  BY <1>2, <1>3
<1>5. \A y \in s : x >= y
  BY <1>4
<1> QED BY <1>5 DEF Max

-----------------------------------------------------------------------------
\* takes is the set of <<best, i>> such that a loop leaves best for i.
Recursion(g, n, takes) ==
  /\ g[{}] = 0
  /\ \A s \in SUBSET (1 .. n) :
       s # {} /\ g[s \ {Max(s)}] \in 0 .. n =>
         g[s] = IF <<g[s \ {Max(s)}], Max(s)>> \in takes THEN Max(s)
                ELSE g[s \ {Max(s)}]

\* v holds what the loop has taken after each step.
Steps(v, n, takes) ==
  /\ v[0] = 0
  /\ \A k \in 1 .. n : v[k] = IF <<v[k - 1], k>> \in takes THEN k ELSE v[k - 1]

\* The loops over devices and families keep one of the numbers seen so far or take
\* the next.  The recursion that FoldLeftDomain makes of such a loop has a solution.
LEMMA LoopExists ==
  ASSUME NEW n \in Nat, NEW takes \in SUBSET ((0 .. n) \X (1 .. n))
  PROVE  \E g \in [SUBSET (1 .. n) -> 0 .. n] : Recursion(g, n, takes)
<1> DEFINE Turn(b, i)   == IF <<b, i>> \in takes THEN i ELSE b
           Solves(g, k) ==
             \A s \in SUBSET (1 .. k) :
               g[s] = IF s = {} THEN 0 ELSE Turn(g[s \ {Max(s)}], Max(s))
           T == {k \in 0 .. n : \E g \in [SUBSET (1 .. k) -> 0 .. n] : Solves(g, k)}
<1>0. \A b \in 0 .. n, i \in 1 .. n : Turn(b, i) \in 0 .. n
  OBVIOUS
<1> HIDE DEF Turn
<1>1. 0 \in T
  <2> DEFINE g == [s \in SUBSET (1 .. 0) |-> 0]
  <2>1. \A s \in SUBSET (1 .. 0) : s = {}
    OBVIOUS
  <2>2. g \in [SUBSET (1 .. 0) -> 0 .. n] /\ Solves(g, 0)
    BY <2>1
  <2> QED BY <2>2
<1>2. ASSUME NEW k \in 1 .. n, k - 1 \in T PROVE k \in T
  <2>1. PICK g \in [SUBSET (1 .. k - 1) -> 0 .. n] : Solves(g, k - 1)
    BY <1>2
  <2> DEFINE h == [s \in SUBSET (1 .. k) |->
                     IF k \in s THEN Turn(g[s \ {k}], k) ELSE g[s]]
  <2>2. \A s \in SUBSET (1 .. k) : s \ {k} \in SUBSET (1 .. k - 1)
    OBVIOUS
  <2>3. \A s \in SUBSET (1 .. k) : k \notin s => s \in SUBSET (1 .. k - 1)
    OBVIOUS
  <2>4. h \in [SUBSET (1 .. k) -> 0 .. n]
    BY <1>0, <2>2, <2>3
  <2>5. ASSUME NEW s \in SUBSET (1 .. k)
        PROVE  h[s] = IF s = {} THEN 0 ELSE Turn(h[s \ {Max(s)}], Max(s))
    <3>1. CASE k \in s
      <4>1. Max(s) = k
        <5>1. k \in Nat /\ s \subseteq 1 .. k
          OBVIOUS
        <5> QED BY <3>1, <5>1, MaxOfUpTo
      <4>2. h[s \ {k}] = g[s \ {k}]
        BY <2>2
      <4> QED BY <3>1, <4>1, <4>2
    <3>2. CASE k \notin s
      <4>1. s \in SUBSET (1 .. k - 1) /\ s \ {Max(s)} \in SUBSET (1 .. k - 1)
        BY <2>3, <3>2
      <4>2. h[s] = g[s] /\ h[s \ {Max(s)}] = g[s \ {Max(s)}]
        BY <3>2, <4>1
      <4>3. g[s] = IF s = {} THEN 0 ELSE Turn(g[s \ {Max(s)}], Max(s))
        BY <2>1, <4>1
      <4> QED BY <4>2, <4>3
    <3> QED BY <3>1, <3>2
  <2> HIDE DEF h
  <2>6. Solves(h, k)
    BY <2>5
  <2> HIDE DEF Solves
  <2> QED BY <2>4, <2>6
<1>3. n \in T
  <2>1. T \in SUBSET Nat
    OBVIOUS
  <2> HIDE DEF T
  <2> QED BY <1>1, <1>2, <2>1, UpTo
<1>4. PICK g \in [SUBSET (1 .. n) -> 0 .. n] : Solves(g, n)
  BY <1>3
<1> QED BY <1>4 DEF Turn, Recursion

\* The loop takes those steps.
LEMMA LoopSteps ==
  ASSUME NEW n \in Nat, NEW takes \in SUBSET ((0 .. n) \X (1 .. n)), NEW h,
         Recursion(h, n, takes)
  PROVE  \E v \in [0 .. n -> 0 .. n] : Steps(v, n, takes) /\ v[n] = h[1 .. n]
<1> DEFINE v == [k \in 0 .. n |-> h[1 .. k]]
           Turn(k) == IF <<v[k - 1], k>> \in takes THEN k ELSE v[k - 1]
           T == {k \in 0 .. n : v[k] \in 0 .. k}
<1>0. \A k \in 0 .. n : v[k] = h[1 .. k]
  OBVIOUS
<1>v. DOMAIN v = 0 .. n /\ v = [k \in 0 .. n |-> v[k]]
  OBVIOUS
<1> HIDE DEF v
<1>1. v[0] = 0
  <2>1. 1 .. 0 = {} /\ v[0] = h[1 .. 0]
    BY <1>0
  <2> QED BY <2>1, Zenon DEF Recursion
<1>2. ASSUME NEW k \in 1 .. n, k - 1 \in T PROVE v[k] = Turn(k)
  <2>1. k \in 1 .. k /\ 1 .. k \in SUBSET (1 .. n) /\ 1 .. k # {} /\ k \in Nat
    OBVIOUS
  <2>2. Max(1 .. k) = k
    BY <2>1, MaxOfUpTo
  <2>3. (1 .. k) \ {k} = 1 .. k - 1 /\ k - 1 \in 0 .. n
    OBVIOUS
  <2>4. v[k] = h[1 .. k] /\ v[k - 1] = h[1 .. k - 1]
    BY <2>3, <1>0
  <2>5. v[k - 1] \in 0 .. n
    BY <1>2
  <2>6. h[1 .. k - 1] \in 0 .. n =>
          h[1 .. k] = IF <<h[1 .. k - 1], k>> \in takes THEN k ELSE h[1 .. k - 1]
    BY <2>1, <2>2, <2>3 DEF Recursion
  <2> QED BY <2>4, <2>5, <2>6
<1>3. ASSUME NEW k \in 1 .. n, k - 1 \in T PROVE k \in T
  <2>1. v[k - 1] \in 0 .. k - 1
    BY <1>3
  <2>2. v[k] = k \/ v[k] = v[k - 1]
    BY <1>2, <1>3
  <2> QED BY <2>1, <2>2
<1>4. \A k \in 0 .. n : k \in T
  <2> SUFFICES ASSUME NEW m \in 0 .. n PROVE m \in T  OBVIOUS
  <2>1. 0 \in T /\ T \in SUBSET Nat
    BY <1>1
  <2>2. m \in Nat /\ \A k \in 1 .. m : k - 1 \in T => k \in T
    BY <1>3
  <2> HIDE DEF T
  <2> QED BY <2>1, <2>2, UpTo
<1>5. v \in [0 .. n -> 0 .. n] /\ v[n] = h[1 .. n]
  <2>1. \A k \in 0 .. n : v[k] \in 0 .. n
    BY <1>4
  <2> QED BY <2>1, <1>0, <1>v
<1>6. \A k \in 1 .. n : v[k] = Turn(k)
  <2>1. \A k \in 1 .. n : k - 1 \in T
    BY <1>4
  <2> QED BY <2>1, <1>2
<1> QED BY <1>1, <1>5, <1>6 DEF Steps

-----------------------------------------------------------------------------
\* The loop for a transfer queue.
DedicatedRun(v, n, families) ==
  /\ v[0] = 0
  /\ \A k \in 1 .. n : v[k] = IF v[k - 1] = 0 /\ TransferOnly(families[k])
                            THEN k ELSE v[k - 1]

LEMMA DedicatedLoop ==
  ASSUME NEW n \in Nat, NEW families, DOMAIN families = 1 .. n
  PROVE  \E v \in [0 .. n -> 0 .. n] :
           DedicatedRun(v, n, families) /\ v[n] = DedicatedTransfer(families)
<1> DEFINE Better(b, i) == b = 0 /\ TransferOnly(families[i])
           id == [i \in DOMAIN families |-> i]
           Solution(h) ==
             h = [s \in SUBSET DOMAIN id |->
                    IF s = {} THEN 0
                    ELSE IF Better(h[s \ {Max(s)}], id[Max(s)])
                         THEN id[Max(s)] ELSE h[s \ {Max(s)}]]
           loop  == CHOOSE h : Solution(h)
           takes == {p \in (0 .. n) \X (1 .. n) : Better(p[1], p[2])}
<1>1. DedicatedTransfer(families) = loop[DOMAIN id]
  BY Zenon DEF DedicatedTransfer, FoldLeftDomain, FoldLeft, MapThenFoldSet
<1>2. DOMAIN id = 1 .. n /\ \A i \in 1 .. n : id[i] = i
  OBVIOUS
<1>3. \A b \in 0 .. n, i \in 1 .. n : <<b, i>> \in takes <=> Better(b, i)
  OBVIOUS
<1>4. takes \in SUBSET ((0 .. n) \X (1 .. n))
  OBVIOUS
<1> HIDE DEF id, takes
<1>5. \A s \in SUBSET (1 .. n) :
        s # {} => Max(s) \in 1 .. n /\ s \ {Max(s)} \in SUBSET (1 .. n)
  BY MaxIsIn
<1>6. PICK g \in [SUBSET (1 .. n) -> 0 .. n] : Recursion(g, n, takes)
  BY <1>4, LoopExists
<1>7. Solution(g)
  <2>1. ASSUME NEW s \in SUBSET (1 .. n), s # {}
        PROVE  g[s] = IF Better(g[s \ {Max(s)}], id[Max(s)])
                      THEN id[Max(s)] ELSE g[s \ {Max(s)}]
    <3>1. g[s] = IF <<g[s \ {Max(s)}], Max(s)>> \in takes THEN Max(s)
                 ELSE g[s \ {Max(s)}]
      BY <2>1, <1>5, <1>6 DEF Recursion
    <3>2. g[s \ {Max(s)}] \in 0 .. n /\ Max(s) \in 1 .. n /\ id[Max(s)] = Max(s)
      BY <2>1, <1>2, <1>5
    <3>3. <<g[s \ {Max(s)}], Max(s)>> \in takes <=> Better(g[s \ {Max(s)}], Max(s))
      BY <3>2, <1>3
    <3> QED BY <3>1, <3>2, <3>3, Zenon
  <2>2. g[{}] = 0
    BY <1>6 DEF Recursion
  <2> QED BY <2>1, <2>2, <1>2
<1>8. Solution(loop)
  BY <1>7
<1> HIDE DEF loop
<1>9. Recursion(loop, n, takes)
  <2>1. \A s \in SUBSET (1 .. n) :
          loop[s] = IF s = {} THEN 0
                    ELSE IF Better(loop[s \ {Max(s)}], id[Max(s)])
                         THEN id[Max(s)] ELSE loop[s \ {Max(s)}]
    BY <1>2, <1>8
  <2> HIDE DEF Solution
  <2>2. ASSUME NEW s \in SUBSET (1 .. n), s # {}, loop[s \ {Max(s)}] \in 0 .. n
        PROVE  loop[s] = IF <<loop[s \ {Max(s)}], Max(s)>> \in takes THEN Max(s)
                         ELSE loop[s \ {Max(s)}]
    <3>1. Max(s) \in 1 .. n /\ id[Max(s)] = Max(s)
      BY <2>2, <1>2, <1>5
    <3>2. <<loop[s \ {Max(s)}], Max(s)>> \in takes <=> Better(loop[s \ {Max(s)}], Max(s))
      BY <2>2, <3>1, <1>3
    <3> QED BY <2>1, <2>2, <3>1, <3>2, Zenon
  <2> QED BY <2>1, <2>2 DEF Recursion
<1> HIDE DEF Solution
<1>10. PICK v \in [0 .. n -> 0 .. n] : Steps(v, n, takes) /\ v[n] = loop[1 .. n]
  BY <1>4, <1>9, LoopSteps
<1>11. \A k \in 1 .. n : v[k] = IF Better(v[k - 1], k) THEN k ELSE v[k - 1]
  <2>1. \A k \in 1 .. n : v[k - 1] \in 0 .. n
    OBVIOUS
  <2> QED BY <2>1, <1>3, <1>10 DEF Steps
<1>12. v[n] = DedicatedTransfer(families)
  BY <1>1, <1>2, <1>10
<1> QED BY <1>10, <1>11, <1>12 DEF Steps, DedicatedRun

-----------------------------------------------------------------------------
\* pick_queue_families: when a family takes the place of another as graphics queue.
BetterGraphics(families, surface, b, i) ==
  /\ "graphics" \in families[i]
  /\ \/ b = 0
     \/ Presents(families[i], surface) /\ ~Presents(families[b], surface)

\* The loop for a graphics queue.
GraphicsRun(v, n, families, surface) ==
  /\ v[0] = 0
  /\ \A k \in 1 .. n : v[k] = IF BetterGraphics(families, surface, v[k - 1], k)
                            THEN k ELSE v[k - 1]

LEMMA GraphicsLoop ==
  ASSUME NEW n \in Nat, NEW families, NEW surface, DOMAIN families = 1 .. n
  PROVE  \E v \in [0 .. n -> 0 .. n] :
           GraphicsRun(v, n, families, surface) /\ v[n] = BestGraphics(families, surface)
<1> DEFINE Better(b, i) == BetterGraphics(families, surface, b, i)
           id == [i \in DOMAIN families |-> i]
           Solution(h) ==
             h = [s \in SUBSET DOMAIN id |->
                    IF s = {} THEN 0
                    ELSE IF Better(h[s \ {Max(s)}], id[Max(s)])
                         THEN id[Max(s)] ELSE h[s \ {Max(s)}]]
           loop  == CHOOSE h : Solution(h)
           takes == {p \in (0 .. n) \X (1 .. n) : Better(p[1], p[2])}
<1>1. BestGraphics(families, surface) = loop[DOMAIN id]
  BY Zenon DEF BestGraphics, BetterGraphics, FoldLeftDomain, FoldLeft, MapThenFoldSet
<1>2. DOMAIN id = 1 .. n /\ \A i \in 1 .. n : id[i] = i
  OBVIOUS
<1>3. \A b \in 0 .. n, i \in 1 .. n : <<b, i>> \in takes <=> Better(b, i)
  OBVIOUS
<1>4. takes \in SUBSET ((0 .. n) \X (1 .. n))
  OBVIOUS
<1> HIDE DEF id, takes
<1>5. \A s \in SUBSET (1 .. n) :
        s # {} => Max(s) \in 1 .. n /\ s \ {Max(s)} \in SUBSET (1 .. n)
  BY MaxIsIn
<1>6. PICK g \in [SUBSET (1 .. n) -> 0 .. n] : Recursion(g, n, takes)
  BY <1>4, LoopExists
<1>7. Solution(g)
  <2>1. ASSUME NEW s \in SUBSET (1 .. n), s # {}
        PROVE  g[s] = IF Better(g[s \ {Max(s)}], id[Max(s)])
                      THEN id[Max(s)] ELSE g[s \ {Max(s)}]
    <3>1. g[s] = IF <<g[s \ {Max(s)}], Max(s)>> \in takes THEN Max(s)
                 ELSE g[s \ {Max(s)}]
      BY <2>1, <1>5, <1>6 DEF Recursion
    <3>2. g[s \ {Max(s)}] \in 0 .. n /\ Max(s) \in 1 .. n /\ id[Max(s)] = Max(s)
      BY <2>1, <1>2, <1>5
    <3>3. <<g[s \ {Max(s)}], Max(s)>> \in takes <=> Better(g[s \ {Max(s)}], Max(s))
      BY <3>2, <1>3
    <3> QED BY <3>1, <3>2, <3>3, Zenon
  <2>2. g[{}] = 0
    BY <1>6 DEF Recursion
  <2> QED BY <2>1, <2>2, <1>2
<1>8. Solution(loop)
  BY <1>7
<1> HIDE DEF loop
<1>9. Recursion(loop, n, takes)
  <2>1. \A s \in SUBSET (1 .. n) :
          loop[s] = IF s = {} THEN 0
                    ELSE IF Better(loop[s \ {Max(s)}], id[Max(s)])
                         THEN id[Max(s)] ELSE loop[s \ {Max(s)}]
    BY <1>2, <1>8
  <2> HIDE DEF Solution
  <2>2. ASSUME NEW s \in SUBSET (1 .. n), s # {}, loop[s \ {Max(s)}] \in 0 .. n
        PROVE  loop[s] = IF <<loop[s \ {Max(s)}], Max(s)>> \in takes THEN Max(s)
                         ELSE loop[s \ {Max(s)}]
    <3>1. Max(s) \in 1 .. n /\ id[Max(s)] = Max(s)
      BY <2>2, <1>2, <1>5
    <3>2. <<loop[s \ {Max(s)}], Max(s)>> \in takes <=> Better(loop[s \ {Max(s)}], Max(s))
      BY <2>2, <3>1, <1>3
    <3> QED BY <2>1, <2>2, <3>1, <3>2, Zenon
  <2> QED BY <2>1, <2>2 DEF Recursion
<1> HIDE DEF Solution
<1>10. PICK v \in [0 .. n -> 0 .. n] : Steps(v, n, takes) /\ v[n] = loop[1 .. n]
  BY <1>4, <1>9, LoopSteps
<1>11. \A k \in 1 .. n : v[k] = IF Better(v[k - 1], k) THEN k ELSE v[k - 1]
  <2>1. \A k \in 1 .. n : v[k - 1] \in 0 .. n
    OBVIOUS
  <2> QED BY <2>1, <1>3, <1>10 DEF Steps
<1>12. v[n] = BestGraphics(families, surface)
  BY <1>1, <1>2, <1>10
<1> QED BY <1>10, <1>11, <1>12 DEF Steps, GraphicsRun

-----------------------------------------------------------------------------
\* select_physical_device: when a device takes the place of another.
BetterDevice(devices, surface, b, i) ==
  /\ Qualifies(devices[i], surface)
  /\ b = 0 \/ ScoreCandidate(devices[i]) >= ScoreCandidate(devices[b])

\* The loop over the devices.
DeviceRun(v, n, devices, surface) ==
  /\ v[0] = 0
  /\ \A k \in 1 .. n : v[k] = IF BetterDevice(devices, surface, v[k - 1], k)
                            THEN k ELSE v[k - 1]

LEMMA DeviceLoop ==
  ASSUME NEW n \in Nat, NEW devices, NEW surface, DOMAIN devices = 1 .. n
  PROVE  \E v \in [0 .. n -> 0 .. n] :
           DeviceRun(v, n, devices, surface) /\ v[n] = SelectPhysicalDevice(devices, surface)
<1> DEFINE Better(b, i) == BetterDevice(devices, surface, b, i)
           id == [i \in DOMAIN devices |-> i]
           Solution(h) ==
             h = [s \in SUBSET DOMAIN id |->
                    IF s = {} THEN 0
                    ELSE IF Better(h[s \ {Max(s)}], id[Max(s)])
                         THEN id[Max(s)] ELSE h[s \ {Max(s)}]]
           loop  == CHOOSE h : Solution(h)
           takes == {p \in (0 .. n) \X (1 .. n) : Better(p[1], p[2])}
<1>1. SelectPhysicalDevice(devices, surface) = loop[DOMAIN id]
  BY Zenon DEF SelectPhysicalDevice, BetterDevice, FoldLeftDomain, FoldLeft, MapThenFoldSet
<1>2. DOMAIN id = 1 .. n /\ \A i \in 1 .. n : id[i] = i
  OBVIOUS
<1>3. \A b \in 0 .. n, i \in 1 .. n : <<b, i>> \in takes <=> Better(b, i)
  OBVIOUS
<1>4. takes \in SUBSET ((0 .. n) \X (1 .. n))
  OBVIOUS
<1> HIDE DEF id, takes
<1>5. \A s \in SUBSET (1 .. n) :
        s # {} => Max(s) \in 1 .. n /\ s \ {Max(s)} \in SUBSET (1 .. n)
  BY MaxIsIn
<1>6. PICK g \in [SUBSET (1 .. n) -> 0 .. n] : Recursion(g, n, takes)
  BY <1>4, LoopExists
<1>7. Solution(g)
  <2>1. ASSUME NEW s \in SUBSET (1 .. n), s # {}
        PROVE  g[s] = IF Better(g[s \ {Max(s)}], id[Max(s)])
                      THEN id[Max(s)] ELSE g[s \ {Max(s)}]
    <3>1. g[s] = IF <<g[s \ {Max(s)}], Max(s)>> \in takes THEN Max(s)
                 ELSE g[s \ {Max(s)}]
      BY <2>1, <1>5, <1>6 DEF Recursion
    <3>2. g[s \ {Max(s)}] \in 0 .. n /\ Max(s) \in 1 .. n /\ id[Max(s)] = Max(s)
      BY <2>1, <1>2, <1>5
    <3>3. <<g[s \ {Max(s)}], Max(s)>> \in takes <=> Better(g[s \ {Max(s)}], Max(s))
      BY <3>2, <1>3
    <3> QED BY <3>1, <3>2, <3>3, Zenon
  <2>2. g[{}] = 0
    BY <1>6 DEF Recursion
  <2> QED BY <2>1, <2>2, <1>2
<1>8. Solution(loop)
  BY <1>7
<1> HIDE DEF loop
<1>9. Recursion(loop, n, takes)
  <2>1. \A s \in SUBSET (1 .. n) :
          loop[s] = IF s = {} THEN 0
                    ELSE IF Better(loop[s \ {Max(s)}], id[Max(s)])
                         THEN id[Max(s)] ELSE loop[s \ {Max(s)}]
    BY <1>2, <1>8
  <2> HIDE DEF Solution
  <2>2. ASSUME NEW s \in SUBSET (1 .. n), s # {}, loop[s \ {Max(s)}] \in 0 .. n
        PROVE  loop[s] = IF <<loop[s \ {Max(s)}], Max(s)>> \in takes THEN Max(s)
                         ELSE loop[s \ {Max(s)}]
    <3>1. Max(s) \in 1 .. n /\ id[Max(s)] = Max(s)
      BY <2>2, <1>2, <1>5
    <3>2. <<loop[s \ {Max(s)}], Max(s)>> \in takes <=> Better(loop[s \ {Max(s)}], Max(s))
      BY <2>2, <3>1, <1>3
    <3> QED BY <2>1, <2>2, <3>1, <3>2, Zenon
  <2> QED BY <2>1, <2>2 DEF Recursion
<1> HIDE DEF Solution
<1>10. PICK v \in [0 .. n -> 0 .. n] : Steps(v, n, takes) /\ v[n] = loop[1 .. n]
  BY <1>4, <1>9, LoopSteps
<1>11. \A k \in 1 .. n : v[k] = IF Better(v[k - 1], k) THEN k ELSE v[k - 1]
  <2>1. \A k \in 1 .. n : v[k - 1] \in 0 .. n
    OBVIOUS
  <2> QED BY <2>1, <1>3, <1>10 DEF Steps
<1>12. v[n] = SelectPhysicalDevice(devices, surface)
  BY <1>1, <1>2, <1>10
<1> QED BY <1>10, <1>11, <1>12 DEF Steps, DeviceRun

-----------------------------------------------------------------------------
\* The numbers up to the next.
LEMMA OneMore == \A n \in Nat : \A k \in 1 .. n : 1 .. k = 1 .. (k - 1) \cup {k}
<1> QED OBVIOUS

\* The first family that can only transfer.
LEMMA DedicatedIsFirst ==
  ASSUME NEW n \in Nat, NEW families, DOMAIN families = 1 .. n
  PROVE  LET only == {i \in 1 .. n : TransferOnly(families[i])}
         IN DedicatedTransfer(families) = IF only = {} THEN 0 ELSE Min(only)
<1> DEFINE Only(k) == {i \in 1 .. k : TransferOnly(families[i])}
<1>1. PICK v \in [0 .. n -> 0 .. n] :
        DedicatedRun(v, n, families) /\ v[n] = DedicatedTransfer(families)
  BY DedicatedLoop
<1> DEFINE T == {k \in 0 .. n : \/ v[k] = 0 /\ Only(k) = {}
                                \/ v[k] \in Only(k) /\ \A i \in Only(k) : v[k] <= i}
<1>2. 0 \in T /\ T \in SUBSET Nat
  BY <1>1 DEF DedicatedRun
<1>3. ASSUME NEW k \in 1 .. n, k - 1 \in T PROVE k \in T
  <2>0. 1 .. k = 1 .. (k - 1) \cup {k}
    BY OneMore, Zenon
  <2>1. /\ ~TransferOnly(families[k]) => Only(k) = Only(k - 1)
        /\ TransferOnly(families[k]) => Only(k) = Only(k - 1) \cup {k}
    BY <2>0
  <2>2. k \in 0 .. n /\ k - 1 \in 0 .. n /\ k \in Nat
        /\ \A i \in Only(k - 1) : i \in Nat /\ i < k /\ i # 0
    OBVIOUS
  <2>3. v[k] = IF v[k - 1] = 0 /\ TransferOnly(families[k]) THEN k ELSE v[k - 1]
    BY <1>1 DEF DedicatedRun
  <2>6. \/ v[k - 1] = 0 /\ Only(k - 1) = {}
        \/ v[k - 1] \in Only(k - 1) /\ \A i \in Only(k - 1) : v[k - 1] <= i
    BY <1>3
  <2> HIDE DEF Only
  <2>4. CASE v[k - 1] = 0 /\ Only(k - 1) = {}
    <3>1. ~TransferOnly(families[k]) => v[k] = 0 /\ Only(k) = {}
      BY <2>1, <2>3, <2>4
    <3>2. TransferOnly(families[k]) => v[k] = k /\ Only(k) = {k}
      BY <2>1, <2>3, <2>4
    <3> QED BY <2>2, <3>1, <3>2
  <2>5. CASE v[k - 1] \in Only(k - 1) /\ \A i \in Only(k - 1) : v[k - 1] <= i
    <3>1. v[k] = v[k - 1]
      BY <2>2, <2>3, <2>5
    <3>2. \A i \in Only(k) : i \in Only(k - 1) \/ i = k
      BY <2>1
    <3>3. v[k - 1] \in Only(k)
      BY <2>1, <2>5
    <3>4. v[k - 1] <= k
      BY <2>2, <2>5
    <3> QED BY <2>2, <2>5, <3>1, <3>2, <3>3, <3>4
  <2> QED BY <2>4, <2>5, <2>6
<1>4. n \in T
  <2> HIDE DEF T
  <2> QED BY <1>2, <1>3, UpTo
<1>5. CASE Only(n) = {}
  <2>1. v[n] = 0
    BY <1>4, <1>5
  <2> QED BY <1>1, <1>5, <2>1
<1>6. CASE Only(n) # {}
  <2>1. v[n] \in Only(n) /\ \A i \in Only(n) : v[n] <= i
    BY <1>4, <1>6
  <2>2. Only(n) \in SUBSET Nat
    OBVIOUS
  <2>3. Min(Only(n)) = v[n]
    <3> HIDE DEF Only
    <3> QED BY <2>1, <2>2, LeastIsMin
  <2> QED BY <1>1, <1>6, <2>3
<1> QED BY <1>5, <1>6

\* The first family that can present, or else the first for graphics.
LEMMA GraphicsIsFirst ==
  ASSUME NEW n \in Nat, NEW families, NEW surface, DOMAIN families = 1 .. n
  PROVE  LET any     == {i \in 1 .. n : "graphics" \in families[i]}
             present == {i \in any : Presents(families[i], surface)}
             best    == BestGraphics(families, surface)
         IN /\ any = {} => best = 0
            /\ any # {} => best \in any
            /\ present # {} => best = Min(present)
<1> DEFINE Graphic(k)     == {i \in 1 .. k : "graphics" \in families[i]}
           Present(k) == {i \in Graphic(k) : Presents(families[i], surface)}
<1>1. PICK v \in [0 .. n -> 0 .. n] :
        GraphicsRun(v, n, families, surface) /\ v[n] = BestGraphics(families, surface)
  BY GraphicsLoop
<1> DEFINE Good(b, k) == \/ b = 0 /\ Graphic(k) = {}
                         \/ b \in Graphic(k) /\ Present(k) = {}
                         \/ b \in Present(k) /\ \A i \in Present(k) : b <= i
           T == {k \in 0 .. n : Good(v[k], k)}
<1>2. 0 \in T /\ T \in SUBSET Nat
  BY <1>1 DEF GraphicsRun
<1>3. ASSUME NEW k \in 1 .. n, k - 1 \in T PROVE k \in T
  <2>0. 1 .. k = 1 .. (k - 1) \cup {k}
    BY OneMore, Zenon
  <2>1. Graphic(k) = Graphic(k - 1) \cup IF "graphics" \in families[k] THEN {k} ELSE {}
    <3>1. \A i : i \in Graphic(k) <=>
                   (i \in 1 .. (k - 1) \/ i = k) /\ "graphics" \in families[i]
      BY <2>0
    <3>2. \A i : i \in Graphic(k - 1) <=> i \in 1 .. (k - 1) /\ "graphics" \in families[i]
      OBVIOUS
    <3> HIDE DEF Graphic
    <3> QED BY <3>1, <3>2
  <2>2. Present(k) = Present(k - 1) \cup
          IF "graphics" \in families[k] /\ Presents(families[k], surface) THEN {k} ELSE {}
    <3> HIDE DEF Graphic
    <3> QED BY <2>1
  <2>3. \A i \in Present(k - 1) : i \in Graphic(k - 1) /\ Presents(families[i], surface)
    OBVIOUS
  <2>4. k \in 0 .. n /\ k - 1 \in 0 .. n /\ \A i \in Graphic(k - 1) : i < k /\ i # 0
    OBVIOUS
  <2>5. v[k] = IF BetterGraphics(families, surface, v[k - 1], k) THEN k ELSE v[k - 1]
    BY <1>1 DEF GraphicsRun
  <2>6. \A i \in Graphic(k - 1) : Presents(families[i], surface) => i \in Present(k - 1)
    OBVIOUS
  <2> HIDE DEF Graphic, Present
  <2>7. CASE v[k - 1] = 0 /\ Graphic(k - 1) = {}
    <3>1. Present(k - 1) = {}
      BY <2>3, <2>7
    <3>2. "graphics" \in families[k] =>
            v[k] = k /\ Graphic(k) = {k}
            /\ Present(k) = IF Presents(families[k], surface) THEN {k} ELSE {}
      BY <2>1, <2>2, <2>5, <2>7, <3>1 DEF BetterGraphics
    <3>3. "graphics" \notin families[k] => v[k] = 0 /\ Graphic(k) = {}
      BY <2>1, <2>5, <2>7 DEF BetterGraphics
    <3>4. Good(v[k], k)
      BY <2>4, <3>2, <3>3
    <3> QED BY <2>4, <3>4
  <2>8. CASE v[k - 1] \in Graphic(k - 1) /\ Present(k - 1) = {}
    <3>1. Good(v[k], k)
      <4>1. v[k - 1] # 0 /\ ~Presents(families[v[k - 1]], surface)
        BY <2>4, <2>6, <2>8
      <4>2. CASE "graphics" \in families[k] /\ Presents(families[k], surface)
        <5>1. v[k] = k /\ Present(k) = {k}
          BY <2>2, <2>5, <2>8, <4>1, <4>2 DEF BetterGraphics
        <5> QED BY <2>4, <5>1
      <4>3. CASE ~("graphics" \in families[k] /\ Presents(families[k], surface))
        <5>1. v[k] = v[k - 1] /\ Present(k) = {} /\ v[k - 1] \in Graphic(k)
          BY <2>1, <2>2, <2>5, <2>8, <4>1, <4>3 DEF BetterGraphics
        <5> QED BY <5>1
      <4> QED BY <4>2, <4>3
    <3> QED BY <2>4, <3>1
  <2>9. CASE v[k - 1] \in Present(k - 1) /\ \A i \in Present(k - 1) : v[k - 1] <= i
    <3>1. v[k] = v[k - 1]
      BY <2>3, <2>4, <2>5, <2>9 DEF BetterGraphics
    <3>2. Good(v[k], k)
      BY <2>2, <2>3, <2>4, <2>9, <3>1
    <3> QED BY <2>4, <3>2
  <2>10. Good(v[k - 1], k - 1)
    BY <1>3
  <2> QED BY <2>7, <2>8, <2>9, <2>10
<1>4. n \in T
  <2> HIDE DEF T
  <2> QED BY <1>2, <1>3, UpTo
<1>5. Good(v[n], n)
  BY <1>4
<1>6. ASSUME Present(n) # {} PROVE v[n] = Min(Present(n))
  <2>1. v[n] \in Present(n) /\ \A i \in Present(n) : v[n] <= i
    BY <1>5, <1>6
  <2>2. Present(n) \in SUBSET Nat
    OBVIOUS
  <2> HIDE DEF Present
  <2> QED BY <2>1, <2>2, LeastIsMin
<1>7. \A i \in Graphic(n) : i # 0
  OBVIOUS
<1>8. (Graphic(n) = {} => v[n] = 0) /\ (Graphic(n) # {} => v[n] \in Graphic(n))
  BY <1>5, <1>7
<1> QED BY <1>1, <1>6, <1>8

-----------------------------------------------------------------------------
\* max_by_key: the last of those with the highest score.
BestAmong(b, able, score) ==
  /\ b \in able
  /\ \A i \in able : score[i] <= score[b] /\ (i > b => score[i] < score[b])

LEMMA BestGrows ==
  ASSUME NEW k \in Nat, NEW able, NEW score, NEW b, BestAmong(b, able, score),
         score[k] \in Nat, \A i \in able : i \in Nat /\ i < k /\ score[i] \in Nat
  PROVE  /\ score[k] >= score[b] => BestAmong(k, able \cup {k}, score)
         /\ ~(score[k] >= score[b]) => BestAmong(b, able \cup {k}, score)
<1>1. b \in able /\ b \in Nat /\ b < k /\ score[b] \in Nat
  BY DEF BestAmong
<1>2. \A i \in able : score[i] <= score[b] /\ (i > b => score[i] < score[b])
  BY DEF BestAmong
<1>3. ASSUME score[k] >= score[b] PROVE BestAmong(k, able \cup {k}, score)
  <2>1. ASSUME NEW i \in able
        PROVE  score[i] <= score[k] /\ ~(i > k)
    <3>1. score[i] <= score[b] /\ score[i] \in Nat /\ i \in Nat /\ i < k
      BY <1>2
    <3> HIDE DEF BestAmong
    <3> QED BY <3>1, <1>1, <1>3
  <2>2. score[k] <= score[k] /\ ~(k > k)
    OBVIOUS
  <2> QED BY <2>1, <2>2 DEF BestAmong
<1>4. ASSUME ~(score[k] >= score[b]) PROVE BestAmong(b, able \cup {k}, score)
  <2>1. score[k] < score[b] /\ score[k] <= score[b]
    BY <1>1, <1>4
  <2> QED BY <1>1, <1>2, <2>1 DEF BestAmong
<1> QED BY <1>3, <1>4

LEMMA LastBest ==
  ASSUME NEW n \in Nat, NEW able \in SUBSET (1 .. n), NEW score \in [1 .. n -> Nat],
         NEW v \in [0 .. n -> 0 .. n]
  PROVE  /\ v[0] = 0
         /\ \A k \in 1 .. n :
              v[k] = IF k \in able /\ (v[k - 1] = 0 \/ score[k] >= score[v[k - 1]])
                     THEN k ELSE v[k - 1]
         => IF able = {} THEN v[n] = 0 ELSE BestAmong(v[n], able, score)
<1> DEFINE Able(k) == able \cap 1 .. k
           T == {k \in 0 .. n : \/ v[k] = 0 /\ Able(k) = {}
                                \/ BestAmong(v[k], Able(k), score)}
<1>1. SUFFICES ASSUME v[0] = 0,
                      \A k \in 1 .. n :
                        v[k] = IF k \in able /\ (v[k - 1] = 0 \/ score[k] >= score[v[k - 1]])
                               THEN k ELSE v[k - 1]
               PROVE  IF able = {} THEN v[n] = 0 ELSE BestAmong(v[n], able, score)
  OBVIOUS
<1>2. 0 \in T /\ T \in SUBSET Nat
  BY <1>1
<1>3. ASSUME NEW k \in 1 .. n, k - 1 \in T PROVE k \in T
  <2> DEFINE b == v[k - 1]
  <2>1. k \in 0 .. n /\ k \in Nat /\ score[k] \in Nat
    OBVIOUS
  <2>2. \A i \in Able(k - 1) : i \in Nat /\ i < k /\ i # 0 /\ score[i] \in Nat
    OBVIOUS
  <2>0. 1 .. k = 1 .. (k - 1) \cup {k}
    BY OneMore, Zenon
  <2>3. k \notin able => Able(k) = Able(k - 1)
    BY <2>0, Zenon
  <2>4. k \in able => Able(k) = Able(k - 1) \cup {k}
    BY <2>0
  <2>5. v[k] = IF k \in able /\ (b = 0 \/ score[k] >= score[b]) THEN k ELSE b
    BY <1>1
  <2>6. (b = 0 /\ Able(k - 1) = {}) \/ BestAmong(b, Able(k - 1), score)
    BY <1>3
  <2> HIDE DEF Able, b
  <2>7. CASE b = 0 /\ Able(k - 1) = {}
    <3>1. CASE k \notin able
      BY <2>1, <2>3, <2>5, <2>7, <3>1
    <3>2. CASE k \in able
      <4>1. v[k] = k /\ Able(k) = {k}
        BY <2>4, <2>5, <2>7, <3>2
      <4>2. BestAmong(v[k], Able(k), score)
        BY <2>1, <4>1 DEF BestAmong
      <4> QED BY <2>1, <4>2
    <3> QED BY <3>1, <3>2
  <2>8. CASE BestAmong(b, Able(k - 1), score)
    <3>1. b # 0
      BY <2>2, <2>8 DEF BestAmong
    <3>2. /\ score[k] >= score[b] => BestAmong(k, Able(k - 1) \cup {k}, score)
          /\ ~(score[k] >= score[b]) => BestAmong(b, Able(k - 1) \cup {k}, score)
      BY <2>1, <2>2, <2>8, BestGrows
    <3>3. BestAmong(v[k], Able(k), score)
      BY <2>3, <2>4, <2>5, <2>8, <3>1, <3>2, Zenon
    <3> QED BY <2>1, <3>3
  <2> QED BY <2>6, <2>7, <2>8
<1>4. n \in T
  <2> HIDE DEF T
  <2> QED BY <1>2, <1>3, UpTo
<1>5. Able(n) = able
  OBVIOUS
<1>6. (v[n] = 0 /\ able = {}) \/ BestAmong(v[n], able, score)
  BY <1>4, <1>5
<1> QED BY <1>6 DEF BestAmong

LEMMA DeviceIsBest ==
  ASSUME NEW n \in Nat, NEW devices, NEW surface, DOMAIN devices = 1 .. n,
         NEW score \in [1 .. n -> Nat]
  PROVE  (\A i \in 1 .. n : ScoreCandidate(devices[i]) = score[i])
         => LET able == {i \in 1 .. n : Qualifies(devices[i], surface)}
                best == SelectPhysicalDevice(devices, surface)
            IN IF able = {} THEN best = 0 ELSE BestAmong(best, able, score)
<1> DEFINE able == {i \in 1 .. n : Qualifies(devices[i], surface)}
<1>1. PICK v \in [0 .. n -> 0 .. n] :
        DeviceRun(v, n, devices, surface) /\ v[n] = SelectPhysicalDevice(devices, surface)
  BY DeviceLoop
<1>2. SUFFICES ASSUME \A i \in 1 .. n : ScoreCandidate(devices[i]) = score[i]
               PROVE  IF able = {} THEN v[n] = 0 ELSE BestAmong(v[n], able, score)
  BY <1>1
<1>3. ASSUME NEW k \in 1 .. n
      PROVE  v[k] = IF k \in able /\ (v[k - 1] = 0 \/ score[k] >= score[v[k - 1]])
                    THEN k ELSE v[k - 1]
  <2>1. k - 1 \in 0 .. n
    OBVIOUS
  <2>2. v[k - 1] = 0 \/ v[k - 1] \in 1 .. n
    BY <2>1
  <2>3. v[k - 1] # 0 => ScoreCandidate(devices[v[k - 1]]) = score[v[k - 1]]
    BY <1>2, <2>2
  <2>4. BetterDevice(devices, surface, v[k - 1], k)
          <=> k \in able /\ (v[k - 1] = 0 \/ score[k] >= score[v[k - 1]])
    BY <1>2, <2>3 DEF BetterDevice
  <2> QED BY <1>1, <2>4 DEF DeviceRun
<1>4. able \in SUBSET (1 .. n)
  OBVIOUS
<1> HIDE DEF able
<1> QED BY <1>1, <1>3, <1>4, LastBest DEF DeviceRun

-----------------------------------------------------------------------------
\* The features of a device add at most 900 to its score.
LEMMA FeaturesAdd ==
  ASSUME NEW S, S \subseteq DOMAIN FeatureScore
  PROVE  SumFunctionOnSet(FeatureScore, S) \in 0 .. 900
<1> DEFINE F == FeatureScore
           Solution(h) ==
             h = [s \in SUBSET S |->
                    IF s = {} THEN 0
                    ELSE F[CHOOSE x \in s : TRUE] + h[s \ {CHOOSE x \in s : TRUE}]]
           sum == CHOOSE h : Solution(h)
           Has(s, x) == IF x \in s THEN F[x] ELSE 0
           W(s) == Has(s, "sampler_anisotropy") + Has(s, "shader_storage_image_extended_formats")
                     + Has(s, "geometry_shader") + Has(s, "tessellation_shader")
<1>1. SumFunctionOnSet(F, S) = sum[S]
  BY Zenon DEF SumFunctionOnSet, FoldFunctionOnSet, MapThenFoldSet
<1>2. /\ F["sampler_anisotropy"] = 500 /\ F["shader_storage_image_extended_formats"] = 200
      /\ F["geometry_shader"] = 100 /\ F["tessellation_shader"] = 100
      /\ DOMAIN F = {"sampler_anisotropy", "shader_storage_image_extended_formats",
                     "geometry_shader", "tessellation_shader"}
      /\ S \subseteq DOMAIN F
  BY DEF FeatureScore
<1> HIDE DEF F
<1>3. \A s \in SUBSET S : W(s) \in 0 .. 900
  BY <1>2
<1>4. \A s \in SUBSET S, x \in S : x \in s => F[x] \in 1 .. 500 /\ W(s) = F[x] + W(s \ {x})
  <2> SUFFICES ASSUME NEW s \in SUBSET S, NEW x \in S, x \in s
               PROVE  F[x] \in 1 .. 500 /\ W(s) = F[x] + W(s \ {x})
    OBVIOUS
  <2>1. x \in DOMAIN F
    BY <1>2
  <2>2. CASE x = "sampler_anisotropy"
    BY <1>2, <2>2
  <2>3. CASE x = "shader_storage_image_extended_formats"
    BY <1>2, <2>3
  <2>4. CASE x = "geometry_shader"
    BY <1>2, <2>4
  <2>5. CASE x = "tessellation_shader"
    BY <1>2, <2>5
  <2> QED BY <1>2, <2>1, <2>2, <2>3, <2>4, <2>5
<1>5. W({}) = 0
  OBVIOUS
<1> HIDE DEF W
<1>6. \A s \in SUBSET S : s # {} => (CHOOSE x \in s : TRUE) \in s
  OBVIOUS
<1>7. \E h : Solution(h)
  <2> DEFINE g == [s \in SUBSET S |-> W(s)]
  <2>1. ASSUME NEW s \in SUBSET S, s # {}
        PROVE  W(s) = F[CHOOSE x \in s : TRUE] + g[s \ {CHOOSE x \in s : TRUE}]
    <3> DEFINE x == CHOOSE y \in s : TRUE
    <3>1. x \in s /\ x \in S /\ s \ {x} \in SUBSET S
      BY <2>1, <1>6
    <3> HIDE DEF x
    <3>2. W(s) = F[x] + W(s \ {x}) /\ g[s \ {x}] = W(s \ {x})
      BY <3>1, <1>4
    <3> QED BY <3>2 DEF x
  <2>2. Solution(g)
    BY <2>1, <1>5
  <2> QED BY <2>2
<1>8. Solution(sum)
  BY <1>7
<1> HIDE DEF sum
<1>9. \A s \in SUBSET S :
        sum[s] = IF s = {} THEN 0
                 ELSE F[CHOOSE x \in s : TRUE] + sum[s \ {CHOOSE x \in s : TRUE}]
  BY <1>8
<1> HIDE DEF Solution
<1> DEFINE T == {k \in 0 .. 900 : \A s \in SUBSET S : W(s) <= k => sum[s] = W(s)}
<1>10. 0 \in T /\ T \in SUBSET Nat
  <2> SUFFICES ASSUME NEW s \in SUBSET S, W(s) <= 0 PROVE sum[s] = W(s)
    OBVIOUS
  <2>1. CASE s = {}
    BY <2>1, <1>5, <1>9
  <2>2. CASE s # {}
    <3>1. PICK x \in s : TRUE
      BY <2>2
    <3>2. F[x] \in 1 .. 500 /\ W(s) = F[x] + W(s \ {x}) /\ W(s \ {x}) \in 0 .. 900
      BY <3>1, <1>3, <1>4
    <3>3. PICK f \in 1 .. 500, rest \in 0 .. 900 : f = F[x] /\ rest = W(s \ {x})
      BY <3>2
    <3>4. ~(f + rest <= 0)
      OBVIOUS
    <3>5. W(s) = f + rest /\ W(s) <= 0
      BY <3>2, <3>3
    <3> QED BY <3>4, <3>5, Zenon
  <2> QED BY <2>1, <2>2
<1>11. ASSUME NEW k \in 1 .. 900, k - 1 \in T PROVE k \in T
  <2> SUFFICES ASSUME NEW s \in SUBSET S, W(s) <= k PROVE sum[s] = W(s)
    OBVIOUS
  <2>1. CASE s = {}
    BY <2>1, <1>5, <1>9
  <2>2. CASE s # {}
    <3>1. PICK x \in s : sum[s] = F[x] + sum[s \ {x}]
      BY <2>2, <1>6, <1>9
    <3>2. F[x] \in 1 .. 500 /\ W(s) = F[x] + W(s \ {x}) /\ W(s \ {x}) \in 0 .. 900
      BY <3>1, <1>3, <1>4
    <3>3. PICK f \in 1 .. 500, rest \in 0 .. 900 : f = F[x] /\ rest = W(s \ {x})
      BY <3>2
    <3>4. f + rest <= k => rest <= k - 1
      OBVIOUS
    <3>5. W(s) <= k
      OBVIOUS
    <3>6. W(s) = f + rest
      BY <3>2, <3>3
    <3>7. W(s \ {x}) <= k - 1
      BY <3>3, <3>4, <3>5, <3>6, Zenon
    <3>8. sum[s \ {x}] = W(s \ {x})
      BY <1>11, <3>7
    <3> QED BY <3>1, <3>2, <3>8
  <2> QED BY <2>1, <2>2
<1>12. 900 \in T
  <2> HIDE DEF T
  <2>1. 900 \in Nat
    OBVIOUS
  <2> QED BY <1>10, <1>11, <2>1, UpTo
<1>13. sum[S] = W(S) /\ W(S) \in 0 .. 900
  BY <1>3, <1>12
<1> QED BY <1>1, <1>13 DEF F

\* What the type of a device adds outweighs the rest, within bounds.
LEMMA ScoreBounds ==
  ASSUME NEW device, device.type \in DOMAIN TypeScore,
         device.features \subseteq DOMAIN FeatureScore,
         device.localMemory \in Nat, device.maxDimension \in Nat
  PROVE  LET least == TypeScore[device.type] + device.localMemory
                        + device.maxDimension \div 64
         IN /\ least \in Nat /\ ScoreCandidate(device) \in Nat
            /\ least <= ScoreCandidate(device)
            /\ ScoreCandidate(device) <= least + 6900
<1> DEFINE wanted == PreferredExtensions \cap device.extensions
           d64 == device.maxDimension \div 64
<1>1. SumFunctionOnSet(FeatureScore, device.features) \in 0 .. 900
  BY FeaturesAdd
<1>2. Cardinality(wanted) \in 0 .. 4
  <2>1. IsFiniteSet(PreferredExtensions) /\ Cardinality(PreferredExtensions) <= 4
        /\ Cardinality(PreferredExtensions) \in Nat
    <3> DEFINE one  == {"external_memory"}
               two  == one \cup {"external_memory_fd"}
               three == two \cup {"external_memory_host"}
               four == three \cup {"metal_objects"}
    <3>2. IsFiniteSet(one) /\ Cardinality(one) = 1
      BY FS_Singleton
    <3>3. IsFiniteSet(two) /\ Cardinality(two) \in {1, 2}
      BY <3>2, FS_AddElement
    <3> HIDE DEF two
    <3>4. IsFiniteSet(three) /\ Cardinality(three) \in {1, 2, 3}
      BY <3>3, FS_AddElement
    <3> HIDE DEF three
    <3>5. IsFiniteSet(four) /\ Cardinality(four) \in {1, 2, 3, 4}
      BY <3>4, FS_AddElement
    <3>6. PreferredExtensions = four
      BY DEF PreferredExtensions, two, three
    <3> QED BY <3>5, <3>6
  <2>2. wanted \subseteq PreferredExtensions
    OBVIOUS
  <2>3. IsFiniteSet(wanted) /\ Cardinality(wanted) <= Cardinality(PreferredExtensions)
    BY <2>1, <2>2, FS_Subset
  <2>4. Cardinality(wanted) \in Nat
    BY <2>3, FS_CardinalityType
  <2> QED BY <2>1, <2>3, <2>4
<1>3. TypeScore[device.type] \in Nat
  BY DEF TypeScore
<1>4. d64 \in Nat
  OBVIOUS
<1>5. ScoreCandidate(device) = TypeScore[device.type] + device.localMemory + d64
        + SumFunctionOnSet(FeatureScore, device.features) + 1500 * Cardinality(wanted)
  BY DEF ScoreCandidate
<1> HIDE DEF wanted, d64
<1>6. PICK t \in Nat, m \in Nat, d \in Nat, f \in 0 .. 900, c \in 0 .. 4 :
        /\ t = TypeScore[device.type] /\ m = device.localMemory /\ d = d64
        /\ f = SumFunctionOnSet(FeatureScore, device.features) /\ c = Cardinality(wanted)
  BY <1>1, <1>2, <1>3, <1>4
<1>7. /\ t + m + d \in Nat /\ t + m + d + f + 1500 * c \in Nat
      /\ t + m + d <= t + m + d + f + 1500 * c
      /\ t + m + d + f + 1500 * c <= t + m + d + 6900
  OBVIOUS
<1>8. ScoreCandidate(device) = t + m + d + f + 1500 * c
  BY <1>5, <1>6
<1> QED BY <1>6, <1>7, <1>8 DEF d64

-----------------------------------------------------------------------------
\* What the loops find, for a family list and for a device as the instance reports it.
FirstPresenting(families, surface) ==
  {i \in DOMAIN families : "graphics" \in families[i] /\ Presents(families[i], surface)}

\* The domain of a sequence.
LEMMA Numbered ==
  ASSUME NEW s, s \in Seq(Range(s))
  PROVE  Len(s) \in Nat /\ DOMAIN s = 1 .. Len(s)
<1> QED OBVIOUS

LEMMA QueuesAreFirst ==
  ASSUME NEW families, families \in Seq(Range(families)), NEW surface
  PROVE  LET best     == BestGraphics(families, surface)
             present  == FirstPresenting(families, surface)
             onlyCopy == {i \in DOMAIN families : TransferOnly(families[i])}
         IN /\ best # 0 => best \in DOMAIN families /\ "graphics" \in families[best]
            /\ present # {} => best = Min(present) /\ best \in present /\ best # 0
            /\ DedicatedTransfer(families) = IF onlyCopy = {} THEN 0 ELSE Min(onlyCopy)
            /\ onlyCopy # {} => Min(onlyCopy) # 0
<1>1. PICK n \in Nat : DOMAIN families = 1 .. n
  BY Numbered
<1> DEFINE any      == {i \in 1 .. n : "graphics" \in families[i]}
           present  == {i \in any : Presents(families[i], surface)}
           onlyCopy == {i \in 1 .. n : TransferOnly(families[i])}
           best     == BestGraphics(families, surface)
<1>2. /\ any = {} => best = 0
      /\ any # {} => best \in any
      /\ present # {} => best = Min(present)
  BY <1>1, GraphicsIsFirst
<1>3. DedicatedTransfer(families) = IF onlyCopy = {} THEN 0 ELSE Min(onlyCopy)
  BY <1>1, DedicatedIsFirst
<1>4. present = FirstPresenting(families, surface)
      /\ onlyCopy = {i \in DOMAIN families : TransferOnly(families[i])}
  BY <1>1 DEF FirstPresenting
<1>5. present \in SUBSET Nat /\ onlyCopy \in SUBSET Nat /\ 0 \notin present /\ 0 \notin onlyCopy
  OBVIOUS
<1>6. any \subseteq DOMAIN families /\ \A i \in any : "graphics" \in families[i]
  BY <1>1
<1> HIDE DEF any, present, onlyCopy, best
<1>7. (present # {} => Min(present) \in present) /\ (onlyCopy # {} => Min(onlyCopy) \in onlyCopy)
  BY <1>5, MinIsLeast
<1> QED BY <1>2, <1>3, <1>4, <1>5, <1>6, <1>7 DEF best

\* A device qualifies if one of its families draws and presents.
LEMMA QualifiesIsUsable ==
  ASSUME NEW device, device.families \in Seq(Range(device.families)), NEW surface \in BOOLEAN
  PROVE  Qualifies(device, surface) <=>
           /\ device.enumerates /\ "swapchain" \in device.extensions
           /\ FirstPresenting(device.families, surface) # {}
<1> DEFINE families == device.families
           best     == BestGraphics(families, surface)
           present  == FirstPresenting(families, surface)
<1>1. /\ best # 0 => best \in DOMAIN families /\ "graphics" \in families[best]
      /\ present # {} => best \in present /\ best # 0
  BY QueuesAreFirst
<1>2. Qualifies(device, surface) <=>
        /\ device.enumerates /\ "swapchain" \in device.extensions
        /\ best # 0 /\ (surface => Presents(families[best], surface))
  BY DEF Qualifies, PickQueueFamilies, RequiredExtensions
<1>3. best # 0 /\ (surface => Presents(families[best], surface)) => best \in present
  BY <1>1 DEF FirstPresenting, Presents
<1>4. best \in present => Presents(families[best], surface)
  BY DEF FirstPresenting
<1> HIDE DEF best
<1> QED BY <1>1, <1>2, <1>3, <1>4

\* The bounds of the score, for a device offered.
LEMMA DeviceScores ==
  ASSUME NEW o \in Offers, NEW d \in DOMAIN o.devices
  PROVE  LET device == o.devices[d]
             least  == TypeScore[device.type] + device.localMemory + device.maxDimension \div 64
         IN /\ least \in Nat /\ ScoreCandidate(device) \in Nat
            /\ least <= ScoreCandidate(device)
            /\ ScoreCandidate(device) <= least + 6900
<1> DEFINE device == o.devices[d]
<1>1. /\ device.type \in DOMAIN TypeScore /\ device.features \subseteq DOMAIN FeatureScore
      /\ device.localMemory \in Nat /\ device.maxDimension \in Nat
  BY OffersAssumption, Zenon
<1> HIDE DEF device
<1>2. LET least == TypeScore[device.type] + device.localMemory + device.maxDimension \div 64
      IN /\ least \in Nat /\ ScoreCandidate(device) \in Nat
         /\ least <= ScoreCandidate(device)
         /\ ScoreCandidate(device) <= least + 6900
  BY <1>1, ScoreBounds
<1> QED BY <1>2 DEF device

\* select_physical_device of a whole offer.
CanUse(o) ==
  {d \in DOMAIN o.devices :
     /\ o.devices[d].enumerates /\ "swapchain" \in o.devices[d].extensions
     /\ FirstPresenting(o.devices[d].families, o.surface) # {}}

Scores(o) == [d \in DOMAIN o.devices |-> ScoreCandidate(o.devices[d])]

LEMMA SelectsBest ==
  ASSUME NEW o \in Offers
  PROVE  LET best == SelectPhysicalDevice(o.devices, o.surface)
         IN /\ CanUse(o) = {} => best = 0
            /\ CanUse(o) # {} => best # 0 /\ BestAmong(best, CanUse(o), Scores(o))
<1>1. PICK n \in Nat : DOMAIN o.devices = 1 .. n
  <2>1. o.devices \in Seq(Range(o.devices))
    BY OffersAssumption, Zenon
  <2> DEFINE s == o.devices
  <2> HIDE DEF s
  <2>2. s \in Seq(Range(s)) => Len(s) \in Nat /\ DOMAIN s = 1 .. Len(s)
    BY Numbered
  <2> QED BY <2>1, <2>2 DEF s
<1> DEFINE score == Scores(o)
           able  == {i \in 1 .. n : Qualifies(o.devices[i], o.surface)}
           best  == SelectPhysicalDevice(o.devices, o.surface)
<1>2. score \in [1 .. n -> Nat] /\ \A i \in 1 .. n : ScoreCandidate(o.devices[i]) = score[i]
  BY <1>1, DeviceScores DEF Scores
<1>3. able = CanUse(o)
  <2>1. ASSUME NEW d \in DOMAIN o.devices
        PROVE  o.devices[d].families \in Seq(Range(o.devices[d].families))
    BY OffersAssumption, Zenon
  <2>2. o.surface \in BOOLEAN
    BY OffersAssumption
  <2>3. ASSUME NEW d \in DOMAIN o.devices
        PROVE  Qualifies(o.devices[d], o.surface) <=>
                 /\ o.devices[d].enumerates /\ "swapchain" \in o.devices[d].extensions
                 /\ FirstPresenting(o.devices[d].families, o.surface) # {}
    BY <2>1, <2>2, QualifiesIsUsable
  <2> QED BY <1>1, <2>3 DEF CanUse
<1> HIDE DEF score
<1>4. IF able = {} THEN best = 0 ELSE BestAmong(best, able, score)
  BY <1>1, <1>2, DeviceIsBest
<1>5. 0 \notin CanUse(o)
  BY <1>1 DEF CanUse
<1> HIDE DEF able, best
<1>6. CanUse(o) # {} => best # 0
  BY <1>3, <1>4, <1>5 DEF BestAmong
<1> QED BY <1>3, <1>4, <1>6 DEF score, best

\* No devices, no choice.
LEMMA NothingToSelect == SelectPhysicalDevice(NoOffer.devices, NoOffer.surface) = 0
<1> DEFINE score   == [i \in 1 .. 0 |-> 0]
           devices == NoOffer.devices
           surface == NoOffer.surface
<1>1. DOMAIN devices = 1 .. 0 /\ score \in [1 .. 0 -> Nat] /\ 0 \in Nat
  BY DEF NoOffer
<1>2. {i \in 1 .. 0 : Qualifies(devices[i], surface)} = {}
  OBVIOUS
<1>3. \A i \in 1 .. 0 : ScoreCandidate(devices[i]) = score[i]
  OBVIOUS
<1> HIDE DEF score, devices, surface
<1>4. SelectPhysicalDevice(devices, surface) = 0
  BY <1>1, <1>2, <1>3, DeviceIsBest
<1> QED BY <1>4 DEF devices, surface

-----------------------------------------------------------------------------
\* Until the device is global, what was chosen is what the loops find in the offer;
\* then there is no offer any more, and the memory is that of a device offered.
ChoiceInv ==
  /\ offer \in Offers \cup {NoOffer}
  /\ choice # Unchosen =>
       LET best   == SelectPhysicalDevice(offer.devices, offer.surface)
           queues == PickQueueFamilies(offer.devices[best].families, offer.surface)
       IN /\ offer \in Offers /\ best # 0
          /\ choice = [device |-> best, queues |-> queues, infos |-> QueueCreateInfos(queues)]
  /\ shared # NoDevice =>
       /\ choice = Unchosen /\ offer = NoOffer
       /\ \E o \in Offers : \E d \in DOMAIN o.devices : shared = o.devices[d].memory

LEMMA StepKeepsChoice == ChoiceInv /\ [Next]_vars => ChoiceInv'
<1> SUFFICES ASSUME ChoiceInv, [Next]_vars PROVE ChoiceInv'  OBVIOUS
<1>1. CASE UNCHANGED buildVars
  BY <1>1 DEF ChoiceInv, buildVars
<1>2. CASE SelectDevice
  <2>1. offer # NoOffer
    BY <1>2, NothingToSelect DEF SelectDevice
  <2>2. offer \in Offers /\ shared = NoDevice
    BY <2>1 DEF ChoiceInv
  <2> QED BY <1>2, <2>2 DEF SelectDevice, ChoiceInv
<1>3. CASE PoolFails
  BY <1>3 DEF PoolFails, ChoiceInv
<1>4. CASE SetGlobalSharedDevice
  <2>1. offer \in Offers /\ choice.device \in DOMAIN offer.devices
    <3> DEFINE best == SelectPhysicalDevice(offer.devices, offer.surface)
    <3>1. offer \in Offers /\ best # 0 /\ choice.device = best
      BY <1>4 DEF SetGlobalSharedDevice, ChoiceInv
    <3>2. best \in CanUse(offer)
      BY <3>1, SelectsBest DEF BestAmong
    <3> QED BY <3>1, <3>2 DEF CanUse
  <2>2. shared' = offer.devices[choice.device].memory /\ offer' = NoOffer /\ choice' = Unchosen
    BY <1>4 DEF SetGlobalSharedDevice
  <2> QED BY <2>1, <2>2 DEF ChoiceInv
<1> QED BY <1>1, <1>2, <1>3, <1>4 DEF Next, vars

\* No device has more than 96 GiB of its own and images of more than 32768 at once: in
\* points of its score, 1536 + 512.
Ordinary ==
  \A o \in Offers : \A d \in DOMAIN o.devices :
    o.devices[d].localMemory + o.devices[d].maxDimension \div 64 <= 2048

LEMMA KindDecides ==
  ASSUME Ordinary, NEW o \in Offers, NEW c \in DOMAIN o.devices, NEW d \in DOMAIN o.devices,
         ScoreCandidate(o.devices[d]) <= ScoreCandidate(o.devices[c])
  PROVE  TypeRank[o.devices[d].type] <= TypeRank[o.devices[c].type]
<1> DEFINE Kind(e)  == o.devices[e].type
           Extra(e) == o.devices[e].localMemory + o.devices[e].maxDimension \div 64
           Score(e) == ScoreCandidate(o.devices[e])
<1>1. ASSUME NEW e \in {c, d}
      PROVE  /\ Kind(e) \in DOMAIN TypeScore /\ Extra(e) \in 0 .. 2048 /\ Score(e) \in Nat
             /\ TypeScore[Kind(e)] <= Score(e) /\ Score(e) <= TypeScore[Kind(e)] + 8948
  <2> DEFINE m == o.devices[e].localMemory
             x == o.devices[e].maxDimension \div 64
  <2>1. Kind(e) \in DOMAIN TypeScore /\ m \in Nat /\ x \in Nat
    <3>1. o.devices[e].maxDimension \in Nat /\ Kind(e) \in DOMAIN TypeScore /\ m \in Nat
      BY <1>1, OffersAssumption, Zenon
    <3> QED BY <3>1
  <2>2. m + x <= 2048
    BY <1>1 DEF Ordinary
  <2>3. TypeScore[Kind(e)] \in Nat
    BY <2>1 DEF TypeScore
  <2>4. /\ Score(e) \in Nat /\ TypeScore[Kind(e)] + m + x <= Score(e)
        /\ Score(e) <= TypeScore[Kind(e)] + m + x + 6900
    BY <1>1, DeviceScores
  <2>5. Extra(e) = m + x
    OBVIOUS
  <2> HIDE DEF m, x, Score, Kind, Extra
  <2>6. TypeScore[Kind(e)] <= Score(e) /\ Score(e) <= TypeScore[Kind(e)] + 8948
    BY <2>1, <2>2, <2>3, <2>4
  <2> QED BY <2>1, <2>2, <2>4, <2>5, <2>6
<1>2. Score(d) <= Score(c)
  OBVIOUS
<1> HIDE DEF Kind, Extra, Score
<1>3. TypeRank[Kind(d)] <= TypeRank[Kind(c)]
  BY <1>1, <1>2 DEF TypeScore, TypeRank
<1> QED BY <1>3 DEF Kind

LEMMA InvSelects == Ordinary /\ ChoiceInv => SelectionIsBest
<1> SUFFICES ASSUME Ordinary, ChoiceInv PROVE SelectionIsBest  OBVIOUS
<1>1. Usable = CanUse(offer)
  BY DEF Usable, CanUse, Presenting, Graphical, FirstPresenting, Presents
<1>2. SelectPhysicalDevice(offer.devices, offer.surface) = 0 <=> Usable = {}
  <2>1. CASE offer \in Offers
    BY <2>1, <1>1, SelectsBest
  <2>2. CASE offer = NoOffer
    <3>1. Usable = {}
      BY <2>2 DEF Usable, NoOffer
    <3> QED BY <2>2, <3>1, NothingToSelect
  <2> QED BY <2>1, <2>2 DEF ChoiceInv
<1>3. ASSUME choice # Unchosen
      PROVE  LET Device(d) == offer.devices[d]
                 families  == Device(choice.device).families
                 onlyCopy  == {i \in DOMAIN families :
                                 families[i] \cap {"graphics", "compute", "transfer"} = {"transfer"}}
             IN /\ choice.device \in Usable
                /\ \A d \in Usable \ {choice.device} :
                     /\ ScoreCandidate(Device(d)) <= ScoreCandidate(Device(choice.device))
                     /\ d > choice.device =>
                          ScoreCandidate(Device(d)) < ScoreCandidate(Device(choice.device))
                     /\ TypeRank[Device(d).type] <= TypeRank[Device(choice.device).type]
                /\ choice.queues.graphics = Min(Presenting(families))
                /\ choice.queues.transfer =
                     IF onlyCopy = {} THEN choice.queues.graphics ELSE Min(onlyCopy)
                /\ IsInjective(choice.infos)
                /\ Range(choice.infos) = {choice.queues.graphics, choice.queues.transfer}
  <2> DEFINE Device(d) == offer.devices[d]
             best      == SelectPhysicalDevice(offer.devices, offer.surface)
             families  == Device(best).families
             queues    == PickQueueFamilies(families, offer.surface)
             onlyCopy  == {i \in DOMAIN families :
                             families[i] \cap {"graphics", "compute", "transfer"} = {"transfer"}}
  <2>1. /\ offer \in Offers /\ best # 0 /\ choice.device = best
        /\ choice.queues = queues /\ choice.infos = QueueCreateInfos(queues)
    BY <1>3 DEF ChoiceInv
  <2>2. BestAmong(best, Usable, Scores(offer))
    BY <2>1, <1>1, SelectsBest
  <2>3. best \in Usable /\ Usable \subseteq DOMAIN offer.devices
    BY <2>2 DEF BestAmong, Usable
  <2>4. \A d \in DOMAIN offer.devices : Scores(offer)[d] = ScoreCandidate(Device(d))
    BY DEF Scores
  <2>5. ASSUME NEW d \in Usable
        PROVE  /\ ScoreCandidate(Device(d)) <= ScoreCandidate(Device(best))
               /\ d > best => ScoreCandidate(Device(d)) < ScoreCandidate(Device(best))
               /\ TypeRank[Device(d).type] <= TypeRank[Device(best).type]
    <3>1. /\ ScoreCandidate(Device(d)) <= ScoreCandidate(Device(best))
          /\ d > best => ScoreCandidate(Device(d)) < ScoreCandidate(Device(best))
      BY <2>2, <2>3, <2>4 DEF BestAmong
    <3> QED BY <3>1, <2>1, <2>3, KindDecides
  <2>6. families \in Seq(Range(families))
    BY <2>1, <2>3, OffersAssumption, Zenon
  <2>7. Presenting(families) = FirstPresenting(families, offer.surface)
        /\ onlyCopy = {i \in DOMAIN families : TransferOnly(families[i])}
    <3>1. \A i \in DOMAIN families :
            families[i] \cap {"graphics", "compute", "transfer"} = {"transfer"}
              <=> TransferOnly(families[i])
      BY DEF TransferOnly
    <3> HIDE DEF families
    <3> QED BY <3>1 DEF Presenting, Graphical, FirstPresenting, Presents
  <2>8. Presenting(families) # {}
    BY <2>3 DEF Usable
  <2>9. queues.graphics = Min(Presenting(families))
        /\ queues.transfer = IF onlyCopy = {} THEN queues.graphics ELSE Min(onlyCopy)
    <3> DEFINE copy == {i \in DOMAIN families : TransferOnly(families[i])}
    <3>1. /\ BestGraphics(families, offer.surface) = Min(Presenting(families))
          /\ DedicatedTransfer(families) = IF copy = {} THEN 0 ELSE Min(copy)
          /\ copy # {} => Min(copy) # 0
      BY <2>6, <2>7, <2>8, QueuesAreFirst
    <3> QED BY <3>1, <2>7 DEF PickQueueFamilies
  <2>10. IsInjective(choice.infos)
         /\ Range(choice.infos) = {choice.queues.graphics, choice.queues.transfer}
    <3> DEFINE q == choice.queues
    <3>1. choice.infos = IF q.transfer # q.graphics THEN <<q.graphics, q.transfer>>
                         ELSE <<q.graphics>>
      BY <2>1 DEF QueueCreateInfos
    <3> HIDE DEF q
    <3>2. CASE q.transfer # q.graphics
      BY <3>1, <3>2 DEF IsInjective, Range, q
    <3>3. CASE q.transfer = q.graphics
      BY <3>1, <3>3 DEF IsInjective, Range, q
    <3> QED BY <3>2, <3>3
  <2> HIDE DEF best, queues
  <2> QED BY <2>1, <2>3, <2>5, <2>9, <2>10
<1> QED BY <1>2, <1>3 DEF SelectionIsBest

LEMMA InitChoice == Init => ChoiceInv
<1> QED BY DEF Init, ChoiceInv

\* SelectionIsBest, for every list of devices and of families of each.
THEOREM Selected ==
  ASSUME Ordinary PROVE Spec => []SelectionIsBest
<1>1. ChoiceInv => SelectionIsBest
  BY InvSelects
<1> QED BY InitChoice, StepKeepsChoice, <1>1, PTL DEF Spec

-----------------------------------------------------------------------------
\* What is bound is of a type its device offers for it.
MemoryInv ==
  /\ \A h \in DOMAIN live :
       HasDevice /\ live[h] \in Suitable(shared.bufferBits, HostVisible)
  /\ \A i \in Images : "memory" \in images[i].fields =>
       HasDevice /\ images[i].type \in Suitable(shared.imageBits, DeviceLocal)

\* The searches, on a device that is global.
LEMMA SearchesFind ==
  ASSUME ChoiceInv, HasDevice
  PROVE  /\ BufferMemoryType(shared.bufferBits) \in Suitable(shared.bufferBits, HostVisible)
         /\ FindMemoryType(shared.imageBits, DeviceLocal) # 0 =>
              FindMemoryType(shared.imageBits, DeviceLocal)
                \in Suitable(shared.imageBits, DeviceLocal)
<1> DEFINE forBuffers == Suitable(shared.bufferBits, HostVisible)
           forImages  == Suitable(shared.imageBits, DeviceLocal)
<1>1. PICK o \in Offers : \E d \in DOMAIN o.devices : shared = o.devices[d].memory
  BY DEF ChoiceInv, HasDevice
<1>2. PICK d \in DOMAIN o.devices : shared = o.devices[d].memory
  BY <1>1
<1>3. /\ DOMAIN shared.types \subseteq Nat \ {0}
      /\ shared.bufferBits \cup shared.imageBits \subseteq DOMAIN shared.types
      /\ \E i \in shared.bufferBits : HostVisible \subseteq shared.types[i]
  BY <1>2, OffersAssumption, Zenon
<1>4. forBuffers \in SUBSET Nat /\ forBuffers # {} /\ forImages \in SUBSET Nat
  BY <1>3 DEF Suitable
<1> HIDE DEF forBuffers, forImages
<1>5. Min(forBuffers) \in forBuffers /\ (forImages # {} => Min(forImages) \in forImages)
  BY <1>4, MinIsLeast
<1> QED BY <1>4, <1>5 DEF BufferMemoryType, FindMemoryType, forBuffers, forImages

LEMMA GlKeepsMemory ==
  ASSUME ChoiceInv, MemoryInv, GlNext, UNCHANGED <<buildVars, imageVars>>
  PROVE  MemoryInv'
<1> DEFINE Good(t) == HasDevice /\ t \in Suitable(shared.bufferBits, HostVisible)
<1>1. shared' = shared /\ images' = images
  BY DEF buildVars, imageVars
<1>2. \A h \in DOMAIN live : Good(live[h])
  BY DEF MemoryInv
<1>3. ASSUME \A h \in DOMAIN live' : Good(live'[h]) PROVE MemoryInv'
  BY <1>1, <1>3 DEF MemoryInv, HasDevice, Suitable
<1> HIDE DEF Good
<1>4. CASE live' = live
  BY <1>2, <1>3, <1>4
<1>5. ASSUME NEW S \in SUBSET DOMAIN live, live' = Restrict(live, S) PROVE MemoryInv'
  BY <1>2, <1>3, <1>5 DEF Restrict
<1>6. ASSUME NEW target \in Targets, Current(target) PROVE
        /\ live' = Destroyed(target) => MemoryInv'
        /\ \A h \in Handles : live' = Allocated(target, h) => MemoryInv'
  <2>1. Good(BufferMemoryType(shared.bufferBits))
    BY <1>6, SearchesFind DEF Current, Good
  <2>2. live' = Destroyed(target) => MemoryInv'
    BY <1>5 DEF Destroyed
  <2>3. ASSUME NEW h \in Handles, live' = Allocated(target, h) PROVE MemoryInv'
    <3>1. DOMAIN Destroyed(target) \subseteq DOMAIN live
      BY DEF Destroyed, Restrict
    <3>2. \A g \in DOMAIN live' : Good(live'[g])
      BY <2>1, <2>3, <3>1, <1>2 DEF Allocated
    <3> QED BY <3>2, <1>3
  <2> QED BY <2>2, <2>3
<1>7. ASSUME NEW target \in Targets, BufferData(target) \/ BufferDataPanics(target)
      PROVE  MemoryInv'
  BY <1>6, <1>7 DEF BufferData, BufferDataPanics
<1>8. ASSUME NEW ids, DeleteBuffers(ids) PROVE MemoryInv'
  BY <1>5, <1>8 DEF DeleteBuffers
<1>9. ASSUME NEW t \in Threads, FindNoContext(t) \/ StoreContext(t) PROVE MemoryInv'
  BY <1>4, <1>9 DEF FindNoContext, StoreContext
<1>10. ASSUME NEW n, GenBuffers(n) \/ GenOverflows(n) PROVE MemoryInv'
  BY <1>4, <1>10 DEF GenBuffers, GenOverflows
<1>11. ASSUME NEW target, NEW name, BindBuffer(target, name) \/ SubDataPanics(target)
       PROVE  MemoryInv'
  BY <1>4, <1>11 DEF BindBuffer, SubDataPanics
<1> QED BY <1>7, <1>8, <1>9, <1>10, <1>11 DEF GlNext

LEMMA ImagesKeepMemory ==
  ASSUME ChoiceInv, ImageInv, MemoryInv, ImageNext, UNCHANGED <<buildVars, glVars>>
  PROVE  MemoryInv'
<1> DEFINE Good(image) ==
             "memory" \in image.fields =>
               HasDevice /\ image.type \in Suitable(shared.imageBits, DeviceLocal)
<1>1. shared' = shared /\ live' = live
  BY DEF buildVars, glVars
<1>2. DOMAIN images = Images /\ \A i \in Images : Good(images[i])
  BY DEF MemoryInv, ImageInv
<1>3. ASSUME \A i \in Images : Good(images'[i]) PROVE MemoryInv'
  BY <1>1, <1>3 DEF MemoryInv, HasDevice, Suitable
<1>4. CASE images' = images
  BY <1>2, <1>3, <1>4
<1>5. ASSUME NEW i \in Images, NEW image, Good(image), images' = [images EXCEPT ![i] = image]
      PROVE  MemoryInv'
  <2> HIDE DEF Good
  <2>1. \A k \in Images : images'[k] = IF k = i THEN image ELSE images[k]
    BY <1>2, <1>5
  <2> QED BY <2>1, <1>2, <1>3, <1>5
<1>6. ASSUME NEW i \in Images, NEW consumed, MakeOwned(i, consumed) PROVE MemoryInv'
  <2> DEFINE type == FindMemoryType(shared.imageBits, DeviceLocal)
  <2>1. CASE images' = images
    BY <1>4, <2>1
  <2>2. CASE type # 0 /\ Made(i, Kinds, type)
    <3>1. HasDevice
      BY <1>6 DEF MakeOwned, CanCreate
    <3>2. type \in Suitable(shared.imageBits, DeviceLocal)
      BY <2>2, <3>1, SearchesFind
    <3> HIDE DEF type
    <3>3. Good([fields |-> Kinds, owns |-> "memory" \in Kinds, type |-> type])
      BY <3>1, <3>2
    <3> QED BY <2>2, <3>3, <1>5 DEF Made
  <2> QED BY <1>6, <2>1, <2>2 DEF MakeOwned, Lose, imageVars
<1>7. ASSUME NEW i \in Images, ImportFromMachPort(i) PROVE MemoryInv'
  <2>1. CASE images' = images
    BY <1>4, <2>1
  <2>2. CASE Made(i, {"image", "view"}, 0)
    <3>1. Good([fields |-> {"image", "view"}, owns |-> "memory" \in {"image", "view"},
                type |-> 0])
      OBVIOUS
    <3> QED BY <2>2, <3>1, <1>5 DEF Made
  <2> QED BY <1>7, <2>1, <2>2 DEF ImportFromMachPort, Lose, imageVars
<1>8. ASSUME NEW i \in Images, Destroy(i) PROVE MemoryInv'
  <2> DEFINE image == [images[i] EXCEPT !.fields =
                         @ \ (images[i].fields \ (IF images[i].owns THEN {} ELSE {"memory"}))]
  <2>1. images' = [images EXCEPT ![i] = image]
    BY <1>2, <1>8 DEF Destroy
  <2>2. DOMAIN images[i] = {"fields", "owns", "type"}
    BY DEF ImageInv
  <2>3. image.fields \subseteq images[i].fields /\ image.type = images[i].type
    BY <2>2
  <2>4. Good(image)
    BY <2>3, <1>2
  <2> HIDE DEF image, Good
  <2> QED BY <2>1, <2>4, <1>5
<1>9. ASSUME NEW i \in Images, DropImage(i) PROVE MemoryInv'
  <2>1. Good(NoImage)
    BY DEF NoImage
  <2> QED BY <2>1, <1>5, <1>9 DEF DropImage
<1> QED BY <1>6, <1>7, <1>8, <1>9
  DEF ImageNext, CreateColorAttachment, ImportOpaqueFd

LEMMA StepKeepsMemory ==
  ChoiceInv /\ ImageInv /\ MemoryInv /\ [Next]_vars => MemoryInv'
<1> SUFFICES ASSUME ChoiceInv, ImageInv, MemoryInv, [Next]_vars PROVE MemoryInv'  OBVIOUS
<1>1. ASSUME UNCHANGED <<shared, live, images>> PROVE MemoryInv'
  BY <1>1 DEF MemoryInv, HasDevice, Suitable
<1>2. CASE SelectDevice \/ UNCHANGED vars
  BY <1>1, <1>2 DEF SelectDevice, vars, buildVars, glVars, imageVars
<1>3. CASE PoolFails \/ SetGlobalSharedDevice
  <2>1. shared = NoDevice
    BY <1>3 DEF PoolFails, SetGlobalSharedDevice, ChoiceInv
  <2>2. DOMAIN live = {} /\ \A i \in Images : "memory" \notin images[i].fields
    BY <2>1 DEF MemoryInv, HasDevice
  <2>3. live' = live /\ images' = images
    BY <1>3 DEF PoolFails, SetGlobalSharedDevice, glVars, imageVars
  <2> QED BY <2>2, <2>3 DEF MemoryInv
<1>4. CASE GlNext /\ UNCHANGED <<buildVars, lost, imageVars>>
  BY <1>4, GlKeepsMemory
<1>5. CASE ImageNext /\ UNCHANGED <<buildVars, glVars>>
  BY <1>5, ImagesKeepMemory
<1> QED BY <1>2, <1>3, <1>4, <1>5 DEF Next

\* MemorySuits: no buffer gets the fallback type of glBufferData's loop, no image a
\* type that is not the device's own, however selection, failures and calls interleave.
THEOREM Suited == Spec => []MemorySuits
<1> DEFINE Inv == HandleInv /\ ChoiceInv /\ MemoryInv
<1>1. Init => Inv
  BY InitHandles, InitChoice
  DEF Init, GlInit, ImageInit, MemoryInv, NoImage
<1>2. Inv /\ [Next]_vars => Inv'
  BY StepKeepsHandles, StepKeepsChoice, StepKeepsMemory DEF HandleInv
<1>3. Inv => MemorySuits
  BY DEF MemoryInv, MemorySuits, Suitable, DeviceLocal
<1> QED BY <1>1, <1>2, <1>3, PTL DEF Spec
==============================================================================
