---------------------------- MODULE Capabilities ----------------------------
(***************************************************************************)
(* What two devices tell each other of what they can do: the capability    *)
(* service (src/mesh/capabilityService.ts) behind the messenger            *)
(* (src/mesh/messenger.ts), on nodes that a mesh system is attached to and *)
(* detached from (src/mesh/index.ts), over one connection after another.   *)
(* A connection is PeerLink seen from above: both ends are keyed, each     *)
(* comes up in its turn, and what one sent before it went down may be lost *)
(* at the other.                                                           *)
(***************************************************************************)
EXTENDS Session

CONSTANTS Node,      \* the two devices
          MaxConns,  \* bound: connections, one after the other
          MaxAttach  \* bound: attachments of a mesh system, in all

ASSUME BoundsAssumption == MaxConns \in Nat /\ MaxAttach \in Nat
ASSUME NodeAssumption == \E a, b \in Node : a # b /\ Node = {a, b}

(* The sessions there can be: every connection has ephemeral keys of its own. *)
Sessions == {SessionOf(role, <<n, c>>, <<m, c>>) :
               role \in {"initiator", "responder"}, n \in Node, m \in Node, c \in 1 .. MaxConns}
ASSUME SessionAssumption == NoSession \notin Sessions

VARIABLES
  conns,     \* connections so far
  phase,     \* of each end: "down", "keyed" (pairing), "up" (in the transport's table)
  session,   \* of each end
  wire,      \* frames of the connection on their way to each end
  attaches,  \* attachments so far
  doc,       \* the document of the attached system, named by its attachment; 0: none is
  remote,    \* what the attached system knows of the other device
  announced, \* announcedTo has the other device
  early,     \* history: the end came up under the system attached now
  heard      \* history: the document of the other's system came in this connection

link == <<conns, phase, session, wire>>
service == <<attaches, doc, remote, announced>>
vars == <<link, service, early, heard>>

Other(n) == CHOOSE m \in Node : m # n
Attached(n) == doc[n] # 0

TypeOK ==
  /\ conns \in 0 .. MaxConns /\ attaches \in 0 .. MaxAttach
  /\ phase \in [Node -> {"down", "keyed", "up"}]
  /\ \A n \in Node : (session[n] = NoSession) <=> phase[n] = "down"
  /\ \A n \in Node : \A k \in DOMAIN wire[n] :
       wire[n][k].message.envelope.channel = "capabilities"
  /\ doc \in [Node -> 0 .. attaches] /\ remote \in [Node -> 0 .. attaches]
  /\ announced \in [Node -> BOOLEAN]
  /\ early \in [Node -> BOOLEAN] /\ heard \in [Node -> BOOLEAN]

Init ==
  /\ conns = 0 /\ phase = [n \in Node |-> "down"]
  /\ session = [n \in Node |-> NoSession] /\ wire = [n \in Node |-> <<>>]
  /\ attaches = 0 /\ doc = [n \in Node |-> 0]
  /\ remote = [n \in Node |-> 0] /\ announced = [n \in Node |-> FALSE]
  /\ early = [n \in Node |-> FALSE] /\ heard = [n \in Node |-> FALSE]

-----------------------------------------------------------------------------
(* The connection. *)

(* The HELLOs, each with the ephemeral key of its end for this connection. *)
Handshake(dialler) ==
  /\ \A n \in Node : phase[n] = "down"
  /\ conns < MaxConns /\ conns' = conns + 1
  /\ phase' = [n \in Node |-> "keyed"]
  /\ session' = [n \in Node |-> SessionOf(IF n = dialler THEN "initiator" ELSE "responder",
                                          <<n, conns'>>, <<Other(n), conns'>>)]
  /\ wire' = [n \in Node |-> <<>>]
  /\ heard' = [n \in Node |-> FALSE]
  /\ UNCHANGED <<service, early>>

(* sendTo(): FALSE without a link in the table; the frame is sealed for the
   connection and lost if the other end is gone. *)
SendTo(n, w) ==
  LET m == Other(n)
      frame == EncodeEncrypted(session[n],
                 Signed(n, Envelope(n, "capabilities", doc[n])))
  IN wire' = IF phase[m] = "down" THEN w ELSE [w EXCEPT ![m] = Append(@, frame)]
Announce(n, w) == SendTo(n, w) /\ announced' = [announced EXCEPT ![n] = TRUE]

(* device:connected, at the subscribers that are attached. *)
Subscribed(n) == Attached(n)
ComesUp(n) ==
  /\ phase[n] = "keyed" /\ phase' = [phase EXCEPT ![n] = "up"]
  /\ early' = [early EXCEPT ![n] = Attached(n)]
  /\ IF Subscribed(n) THEN Announce(n, wire) ELSE UNCHANGED <<wire, announced>>
  /\ UNCHANGED <<conns, session, attaches, doc, remote, heard>>

(* An end closes, or finds the connection closed; what it has not read is lost. *)
GoesDown(n) ==
  /\ phase[n] # "down" /\ phase' = [phase EXCEPT ![n] = "down"]
  /\ session' = [session EXCEPT ![n] = NoSession]
  /\ wire' = [wire EXCEPT ![n] = <<>>]
  /\ UNCHANGED <<conns, service, early, heard>>

-----------------------------------------------------------------------------
(* onMessage of the messenger, onCapabilities of the service: whoever has not
   announced himself to the sender does so now. *)
NeverAnswers(n) == FALSE                         \* mutant: announced only on connection
Answers(n) == ~announced[n]
OnCapabilities(n, d, w) ==
  /\ remote' = [remote EXCEPT ![n] = d]
  /\ heard' = [heard EXCEPT ![n] = d = doc[Other(n)]]
  /\ IF Answers(n) THEN Announce(n, w) ELSE wire' = w /\ UNCHANGED announced

Receive(n) ==
  /\ phase[n] = "up" /\ wire[n] # <<>>
  /\ LET frame == Head(wire[n])
         rest == [wire EXCEPT ![n] = Tail(@)]
     IN IF Opens(session[n], frame, Other(n)) /\ Attached(n)
        THEN OnCapabilities(n, frame.message.envelope.data, rest)
        ELSE wire' = rest /\ UNCHANGED <<remote, announced, heard>>
  /\ UNCHANGED <<conns, phase, session, attaches, doc, early>>

(* attachTransferMesh(), with a service that knows nothing, at any time after
   the node's start; and detach() of the system. *)
Attach(n) ==
  /\ ~Attached(n) /\ attaches < MaxAttach /\ attaches' = attaches + 1
  /\ doc' = [doc EXCEPT ![n] = attaches']
  /\ remote' = [remote EXCEPT ![n] = 0]
  /\ announced' = [announced EXCEPT ![n] = FALSE]
  /\ early' = [early EXCEPT ![n] = phase[n] # "up"]
  /\ heard' = [m \in Node |-> FALSE]
  /\ UNCHANGED link
Detach(n) ==
  /\ Attached(n) /\ doc' = [doc EXCEPT ![n] = 0]
  /\ early' = [early EXCEPT ![n] = FALSE]
  /\ heard' = [m \in Node |-> FALSE]
  /\ UNCHANGED <<link, attaches, remote, announced>>

Next ==
  \E n \in Node :
    Handshake(n) \/ ComesUp(n) \/ GoesDown(n) \/ Receive(n) \/ Attach(n) \/ Detach(n)

Spec == Init /\ [][Next]_vars

-----------------------------------------------------------------------------
(* The two ends of a connection have the same verification code and the same
   entity key, never seal with one key, and every frame on its way opens at its
   destination, whichever side dialled and however often they reconnect. *)
FramesOpen ==
  /\ \A n, m \in Node :
       session[n] # NoSession /\ session[m] # NoSession =>
         /\ session[n].sas = session[m].sas /\ session[n].entity = session[m].entity
         /\ n # m => session[n].tx # session[m].tx
  /\ \A n \in Node : phase[n] # "down" =>
       \A k \in DOMAIN wire[n] : Opens(session[n], wire[n][k], Other(n))

(* The same, of connections whose ends are keyed as long as they are there. *)
SessionsMatch == TypeOK /\ FramesOpen

Settled == \A n \in Node : phase[n] = "up" /\ wire[n] = <<>> /\ Attached(n)

(* Once both ends are up and nothing is on its way, two systems that were
   attached before know each other's document of now, not that of an earlier
   system; and wherever one has heard the other in this connection, the other
   has heard it: knowledge is never one-sided ("Ensure both sides learn each
   other's capabilities", capabilityService.ts:64). *)
CapabilitiesMeet ==
  Settled =>
    /\ (\A n \in Node : early[n]) => \A n \in Node : remote[n] = doc[Other(n)]
    /\ \A n \in Node : heard[n] => remote[Other(n)] = doc[n]

(* "... even if we connected first" (capabilityService.ts:64): also for a system
   attached to a node that is connected. *)
LateSystemsMeet == Settled => \A n \in Node : remote[n] = doc[Other(n)]
=============================================================================
