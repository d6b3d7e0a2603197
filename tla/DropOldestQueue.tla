--------------------------- MODULE DropOldestQueue ---------------------------
(***************************************************************************)
(* What the host's frame queue promises its consumers: a bounded FIFO that  *)
(* never refuses a frame and makes room by discarding the oldest one.       *)
(***************************************************************************)
EXTENDS Naturals, Sequences

CONSTANTS Items,     \* what is queued
          Capacity   \* the most the queue holds

VARIABLE waiting     \* the queued items, oldest first

Init == waiting = <<>>

\* An item enters; when the queue is full the oldest one leaves for it.
Push(x) ==
  waiting' = IF Len(waiting) < Capacity
               THEN Append(waiting, x)
               ELSE Append(Tail(waiting), x)

\* The oldest item goes to a consumer.
Pop ==
  /\ waiting # <<>>
  /\ waiting' = Tail(waiting)

\* The queue is torn down with whatever is left in it.
Discard == waiting' = <<>>

Next == (\E x \in Items : Push(x)) \/ Pop \/ Discard

Spec == Init /\ [][Next]_waiting
==============================================================================
