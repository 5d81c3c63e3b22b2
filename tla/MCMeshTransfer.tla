--------------------------- MODULE MCMeshTransfer ---------------------------
(* Two entities of one priority, or one alone. *)
EXTENDS MeshTransfer

CONSTANTS e1, e2

MCTwoEntities == {e1, e2}
MCOneEntity == {e1}
MCPriority == [e \in Job |-> 0]
=============================================================================
