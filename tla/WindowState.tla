---------------------------- MODULE WindowState ------------------------------
(***************************************************************************)
(* bridge/swizzle.rs and frameworks/appkit.rs: what the replaced NSWindow  *)
(* and NSView methods remember of a window, by its address, and what they  *)
(* tell the compositor and the window's delegate.                          *)
(*                                                                         *)
(* The table's mutex is held for one closure at a time: each closure is a  *)
(* step, each message to compositor or delegate another.  A method is a    *)
(* frame on its thread's stack while it has such a message to send; the    *)
(* delegate runs on the same thread, in a frame of its own, and may call   *)
(* any method of any window.                                               *)
(*                                                                         *)
(* Of a window's state the size, the key flag and the delegate are kept.   *)
(* The other members are only stored and read back: of their accessors     *)
(* Touch keeps that with_window_state makes an entry where there is none.  *)
(***************************************************************************)
EXTENDS Integers, SequencesExt

CONSTANTS Threads, Windows,   \* addresses of windows
          Users,              \* Users[w]: the threads that use window w
          Sizes,
          MaxDepth            \* bound: frames on a stack

ASSUME WindowAssumption ==
  /\ Sizes \subseteq Nat \ {0} /\ MaxDepth \in Nat
  /\ Users \in [Windows -> SUBSET Threads]

VARIABLES
  table,      \* window_states(): address -> [size, key, delegate]
  installed,  \* COMPOSITOR is set
  shown,      \* the compositor's view: a window's size, Gone if it has none
  stack,      \* stack[t]: the frames [kind, win, size] of thread t
  life,       \* "new" (allocated), "open", or "closed"
  decided,    \* history: calls that announce the window's present time as key
  mixed       \* history: two threads have been in calls on the window at once

vars == <<table, installed, shown, stack, life, decided, mixed>>

Gone    == -1
Blank   == [size |-> 0, key |-> FALSE, delegate |-> FALSE]   \* WindowState::default()

TypeOK ==
  /\ DOMAIN table \subseteq Windows
  /\ \A w \in DOMAIN table :
       table[w] \in [size : Sizes \cup {0}, key : BOOLEAN, delegate : BOOLEAN]
  /\ installed \in BOOLEAN
  /\ shown \in [Windows -> Sizes \cup {0, Gone}]
  /\ \A t \in Threads : Len(stack[t]) <= MaxDepth
  /\ life \in [Windows -> {"new", "open", "closed"}]

Init ==
  /\ table = <<>> /\ installed = FALSE
  /\ shown = [w \in Windows |-> Gone]
  /\ stack = [t \in Threads |-> <<>>]
  /\ life = [w \in Windows |-> "new"]
  /\ decided = [w \in Windows |-> 0] /\ mixed = [w \in Windows |-> FALSE]

-----------------------------------------------------------------------------
\* with_window_state: the entry or a blank one, and the table with a new entry.
State(w)       == IF w \in DOMAIN table THEN table[w] ELSE Blank
Store(w, s)    == table' = [v \in DOMAIN table \cup {w} |-> IF v = w THEN s ELSE table[v]]

Frame(kind, w, size) == [kind |-> kind, win |-> w, size |-> size]
InCall(t, w)         == \E i \in DOMAIN stack[t] : stack[t][i].win = w
Kind(t)              == IF stack[t] = <<>> THEN "idle" ELSE Last(stack[t]).kind
Replaced(t, frames)  == stack' = [stack EXCEPT ![t] = Front(@) \o frames]

\* A thread enters a method of w and leaves frames for what it has still to send.
Enter(t, w, frames) ==
  /\ t \in Users[w] /\ Kind(t) \in {"idle", "delegate"}
  /\ Len(stack[t]) + Len(frames) <= MaxDepth
  /\ stack' = [stack EXCEPT ![t] = @ \o frames]
  /\ mixed' = [mixed EXCEPT ![w] = @ \/ \E u \in Threads \ {t} : InCall(u, w)]
  /\ UNCHANGED installed

Use(t, w, frames) ==
  /\ life[w] # "new" /\ life' = [life EXCEPT ![w] = "open"]
  /\ Enter(t, w, frames)

InstallCompositor ==
  /\ installed' = TRUE
  /\ UNCHANGED <<table, shown, stack, life, decided, mixed>>

\* window_init, the first method a new window gets.
WindowInit(t, w, size) ==
  /\ life[w] = "new" /\ life' = [life EXCEPT ![w] = "open"]
  /\ Enter(t, w, <<>>)
  /\ Store(w, [State(w) EXCEPT !.size = size])
  /\ UNCHANGED <<shown, decided>>

SetDelegate(t, w, delegate) ==
  /\ Use(t, w, <<>>)
  /\ Store(w, [State(w) EXCEPT !.delegate = delegate])
  /\ UNCHANGED <<shown, decided>>

\* setTitle:, frame, bounds, layer, setLayer:, wantsLayer and setWantsLayer:.
Touch(t, w) ==
  /\ Use(t, w, <<>>)
  /\ Store(w, State(w))
  /\ UNCHANGED <<shown, decided>>

\* mutant: tells the delegate before the compositor
KeyFramesDelegateFirst(w, announce) ==
  <<Frame("windowShown", w, State(w).size)>>
    \o (IF announce /\ State(w).delegate THEN <<Frame("becameKey", w, 0)>> ELSE <<>>)

\* What makeKeyAndOrderFront: has to send, the last message first.
KeyFrames(w, announce) ==
  (IF announce /\ State(w).delegate THEN <<Frame("becameKey", w, 0)>> ELSE <<>>)
    \o <<Frame("windowShown", w, State(w).size)>>

\* mutant: looks at the key flag in one closure and sets it in another
MakeKeyInTwo(t, w) ==
  /\ UNCHANGED shown
  /\ \/ /\ Use(t, w, <<Frame("wasKey", w, IF State(w).key THEN 1 ELSE 0)>>)
        /\ UNCHANGED <<table, decided>>
     \/ /\ Kind(t) = "wasKey" /\ Last(stack[t]).win = w
        /\ Replaced(t, KeyFrames(w, Last(stack[t]).size = 0))
        /\ Store(w, [State(w) EXCEPT !.key = TRUE])
        /\ decided' = [decided EXCEPT ![w] = @ + 1 - Last(stack[t]).size]
        /\ UNCHANGED <<life, mixed, installed>>

MakeKeyAndOrderFront(t, w) ==
  /\ Use(t, w, KeyFrames(w, ~State(w).key))
  /\ Store(w, [State(w) EXCEPT !.key = TRUE])
  /\ decided' = [decided EXCEPT ![w] = IF State(w).key THEN @ ELSE @ + 1]
  /\ UNCHANGED shown

ResizeFrames(w, size) ==
  IF State(w).size = size THEN <<>>
  ELSE (IF State(w).delegate THEN <<Frame("didResize", w, size)>> ELSE <<>>)
         \o <<Frame("windowResized", w, size)>>

\* mutant: tells compositor and delegate before it stores the frame
SetFrameLast(t, w, size) ==
  /\ UNCHANGED <<shown, decided>>
  /\ \/ /\ State(w).size # size
        /\ Use(t, w, <<Frame("store", w, size)>> \o ResizeFrames(w, size))
        /\ UNCHANGED table
     \/ /\ Kind(t) = "store" /\ Last(stack[t]) = Frame("store", w, size)
        /\ Replaced(t, <<>>)
        /\ Store(w, [State(w) EXCEPT !.size = size])
        /\ UNCHANGED <<life, mixed, installed>>

SetFrameDisplay(t, w, size) ==
  /\ Use(t, w, ResizeFrames(w, size))
  /\ Store(w, [State(w) EXCEPT !.size = size])
  /\ UNCHANGED <<shown, decided>>

OrderOut(t, w) ==
  /\ Use(t, w, <<>>)
  /\ Store(w, [State(w) EXCEPT !.key = FALSE])
  /\ decided' = [decided EXCEPT ![w] = 0]
  /\ UNCHANGED shown

\* window_close: the compositor first, the table after it.
Close(t, w) ==
  /\ life[w] # "new"
  /\ Enter(t, w, <<Frame("remove", w, 0)>>)
  /\ shown' = [shown EXCEPT ![w] = IF installed THEN Gone ELSE @]
  /\ UNCHANGED <<table, life, decided>>

RemoveWindowState(t) ==
  LET w == Last(stack[t]).win
  IN /\ Kind(t) = "remove"
     /\ table' = [v \in DOMAIN table \ {w} |-> table[v]]
     /\ life' = [life EXCEPT ![w] = "closed"]
     /\ decided' = [decided EXCEPT ![w] = 0]
     /\ Replaced(t, <<>>)
     /\ UNCHANGED <<installed, shown, mixed>>

\* What the compositor makes of a size is its own affair; that of a window it was
\* never shown is taken to be ignored.
WindowShown(t) ==
  LET frame == Last(stack[t])
  IN /\ Kind(t) = "windowShown"
     /\ shown' = [shown EXCEPT ![frame.win] = IF installed THEN frame.size ELSE @]
     /\ Replaced(t, <<>>)
     /\ UNCHANGED <<table, installed, life, decided, mixed>>

WindowResized(t) ==
  LET frame == Last(stack[t])
  IN /\ Kind(t) = "windowResized"
     /\ shown' = [shown EXCEPT ![frame.win] =
                    IF installed /\ @ # Gone THEN frame.size ELSE @]
     /\ Replaced(t, <<>>)
     /\ UNCHANGED <<table, installed, life, decided, mixed>>

\* windowDidBecomeKey: or windowDidResize: starts the delegate.
SendToDelegate(t) ==
  /\ Kind(t) \in {"becameKey", "didResize"}
  /\ Replaced(t, <<Frame("delegate", Last(stack[t]).win, 0)>>)
  /\ UNCHANGED <<table, installed, shown, life, decided, mixed>>

DelegateReturns(t) ==
  /\ Kind(t) = "delegate"
  /\ Replaced(t, <<>>)
  /\ UNCHANGED <<table, installed, shown, life, decided, mixed>>

\* A closed window is freed by its last owner and its address used again.
Release(w) ==
  /\ life[w] = "closed" /\ \A t \in Threads : ~InCall(t, w)
  /\ life' = [life EXCEPT ![w] = "new"]
  /\ UNCHANGED <<table, installed, shown, stack, decided, mixed>>

Next ==
  \/ InstallCompositor
  \/ \E t \in Threads :
       \/ \E w \in Windows :
            \/ \E size \in Sizes : WindowInit(t, w, size) \/ SetFrameDisplay(t, w, size)
            \/ \E delegate \in BOOLEAN : SetDelegate(t, w, delegate)
            \/ Touch(t, w) \/ MakeKeyAndOrderFront(t, w) \/ OrderOut(t, w) \/ Close(t, w)
       \/ RemoveWindowState(t) \/ WindowShown(t) \/ WindowResized(t)
       \/ SendToDelegate(t) \/ DelegateReturns(t)
  \/ \E w \in Windows : Release(w)

Spec == Init /\ [][Next]_vars

-----------------------------------------------------------------------------
\* The window has nothing to send to anyone.
Quiet(w) ==
  \A t \in Threads : \A i \in DOMAIN stack[t] :
    stack[t][i].win = w => stack[t][i].kind = "delegate"

\* Each time a window becomes key exactly one of the calls that race to make it so
\* announces it (was_key in window_make_key_and_order_front); and with one thread at
\* a time on the window the delegate that is about to be told finds it still key.
KeyAnnouncedOnce ==
  \A w \in Windows :
    /\ decided[w] = IF State(w).key THEN 1 ELSE 0
    /\ ~mixed[w] =>
         \A t \in Threads : Kind(t) = "becameKey" /\ Last(stack[t]).win = w => State(w).key

\* Between calls the compositor has the size the window reports, although delegates
\* resize, close and show the window from within a call; asked of a window that one
\* thread uses at a time (window_set_frame_display, window_make_key_and_order_front).
CompositorCurrent ==
  \A w \in Windows :
    ~mixed[w] /\ Quiet(w) /\ shown[w] # Gone => w \in DOMAIN table /\ shown[w] = table[w].size

\* A closed window that nobody has used since leaves nothing: no state for the next
\* window at its address to inherit, nothing on the screen (window_close).
ClosedForgotten ==
  \A w \in Windows :
    ~mixed[w] /\ Quiet(w) /\ life[w] # "open" => w \notin DOMAIN table /\ shown[w] = Gone
==============================================================================
