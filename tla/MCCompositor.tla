----------------------------- MODULE MCCompositor ----------------------------
(* Small instances of Compositor for TLC. *)
EXTENDS Compositor, TLC

CONSTANTS c1, c2, k1, k2

Symmetry == Permutations(Clients) \cup Permutations(Consumers)
==============================================================================
