---------------------------- MODULE MCLinkTable ----------------------------
(* One dial of each device, or two of one. *)
EXTENDS LinkTable, TLC

CONSTANTS a, b, a1, a2

MCTwoLinks == {a, b}
MCSameDialer == {a1, a2}
MCDialer == [l \in Link |-> IF l = b THEN Larger ELSE Smaller]
MCSymmetry == Permutations({a1, a2})
=============================================================================
