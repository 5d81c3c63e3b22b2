---------------------------- MODULE MCTrustStore ----------------------------
(* Two devices, one of them with a forged identity, and two calls at a time. *)
EXTENDS TrustStore, TLC
Symmetry == Permutations(Call)
=============================================================================
