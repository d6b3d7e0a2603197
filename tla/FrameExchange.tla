---------------------------- MODULE FrameExchange ----------------------------
(***************************************************************************)
(* What the shared slot table of native/shm_sync.c promises to the         *)
(* processes on both sides of it, with none of its mechanism: a published  *)
(* frame appears whole in an empty box, exactly one reader takes it out of *)
(* the box, and what that reader holds does not change until it gives the  *)
(* frame back.  There is no order between the boxes and no promise that a  *)
(* frame is ever taken.                                                    *)
(***************************************************************************)

CONSTANTS Slots,    \* the boxes
          Readers,  \* the processes that take frames
          Frames,   \* the frames a writer may publish
          Empty     \* a box, or a reader, without a frame

VARIABLES box,      \* box[s]: the published, not yet taken frame of slot s
          held      \* held[r]: the frame reader r is using

vars == <<box, held>>

Init ==
  /\ box = [s \in Slots |-> Empty]
  /\ held = [r \in Readers |-> Empty]

\* Some writer publishes a whole frame in an empty box.
Put(s, f) ==
  /\ box[s] = Empty
  /\ box' = [box EXCEPT ![s] = f]
  /\ UNCHANGED held

\* A reader without a frame takes the one in box s, which nobody else gets.
Take(s, r) ==
  /\ box[s] # Empty
  /\ held[r] = Empty
  /\ held' = [held EXCEPT ![r] = box[s]]
  /\ box' = [box EXCEPT ![s] = Empty]

\* A reader gives its frame back.
GiveBack(r) ==
  /\ held[r] # Empty
  /\ held' = [held EXCEPT ![r] = Empty]
  /\ UNCHANGED box

Next ==
  \/ \E s \in Slots, f \in Frames : Put(s, f)
  \/ \E s \in Slots, r \in Readers : Take(s, r)
  \/ \E r \in Readers : GiveBack(r)

Spec == Init /\ [][Next]_vars
==============================================================================
