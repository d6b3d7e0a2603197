---------------------------- MODULE MCKqueueLoop ----------------------------
(* Two threads besides the loop's and fewer slots than ids, so that the     *)
(* table fills and slots are used again under new ids.                     *)
EXTENDS KqueueLoop

CONSTANTS user1, user2

TwoUsers == {user1, user2}
==============================================================================
