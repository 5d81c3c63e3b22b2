---------------------------- MODULE MCHeartbeat ----------------------------
(* The durations are given in the configurations, in seconds. *)
EXTENDS Heartbeat
=============================================================================
