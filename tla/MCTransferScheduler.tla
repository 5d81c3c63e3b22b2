------------------------ MODULE MCTransferScheduler ------------------------
(* Three transfers, of which one is more urgent than the others. *)
EXTENDS TransferScheduler

CONSTANTS j1, j2, j3

MCThreeJobs == {j1, j2, j3}
MCPriority == [j \in Job |-> IF j = j1 THEN 1 ELSE 0]
=============================================================================
