---------------------------- MODULE LinkContract ----------------------------
(***************************************************************************)
(* What a link between two devices promises, with no frame, timer or       *)
(* socket in sight: each end decides whether it trusts the other, an end   *)
(* comes up only when BOTH have decided to, and an end that is down stays  *)
(* down.  PeerLink (the handshake of src/network/connection.ts) implements *)
(* it; layers above a PeerConnection may rely on no more than this.        *)
(***************************************************************************)
CONSTANT Side

VARIABLES consent,   \* consent[s]: what end s has decided about the other end
          phase      \* phase[s]: what the owner of end s has been told

linkVars == <<consent, phase>>

LinkInit == /\ consent = [s \in Side |-> "undecided"]
            /\ phase = [s \in Side |-> "opening"]

(* The owner's policy (or its user) makes up its mind, once. *)
Decide(s) == /\ consent[s] = "undecided"
             /\ \E c \in {"yes", "no"} : consent' = [consent EXCEPT ![s] = c]

(* onConnected: every end has agreed before either owner hears of a link. *)
ComeUp(s) == /\ phase[s] = "opening"
             /\ phase' = [phase EXCEPT ![s] = "up"]
             /\ \A t \in Side : consent'[t] = "yes"

(* onClosed: for good. *)
GoDown(s) == /\ phase[s] # "down"
             /\ phase' = [phase EXCEPT ![s] = "down"]

(* One event of the code may decide and, in the same turn of the event
   loop, come up or go down. *)
LinkStep(s) == \/ Decide(s) /\ UNCHANGED phase
               \/ (Decide(s) \/ UNCHANGED consent) /\ (ComeUp(s) \/ GoDown(s))

LinkNext == \E s \in Side : LinkStep(s)

LinkSpec == LinkInit /\ [][LinkNext]_linkVars
=============================================================================
