------------------------------ MODULE MCShmSync ------------------------------
(* Small instances of ShmSync for TLC. *)
EXTENDS ShmSync, TLC

CONSTANTS w1, w2, r1, r2, f1, f2

\* The metadata words of qmv_shm_slot_t.
SlotFields == {"frame_index", "width", "height"}
OneField   == {"frame_index"}

\* Processes of one kind, and frames, are interchangeable.
Symmetry == Permutations(Writers) \cup Permutations(Readers) \cup Permutations(Frames)
==============================================================================
