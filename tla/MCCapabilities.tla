--------------------------- MODULE MCCapabilities ---------------------------
(* Both devices are alike. *)
EXTENDS Capabilities, TLC
CONSTANTS a, b
Symmetry == Permutations(Node)
=============================================================================
