---------------------------- MODULE MCReconnect ----------------------------
(* A device with two names, chased without a limit or for one attempt. *)
EXTENDS Reconnect
MCLimits == {0, 1}
=============================================================================
