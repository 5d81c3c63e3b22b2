---------------------------- MODULE MCPeerLink -----------------------------
(* Both ends of one link; each may send up to MaxApp messages. *)
EXTENDS PeerLink
=============================================================================
