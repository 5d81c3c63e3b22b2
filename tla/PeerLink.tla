------------------------------ MODULE PeerLink ------------------------------
(***************************************************************************)
(* One AirShare link: the two PeerConnection objects of                    *)
(* src/network/connection.ts, at the two ends of one WebSocket.  They      *)
(* exchange HELLOs, derive a session, ask their owners (authorize) whether *)
(* to trust the peer, exchange PAIR_ACCEPT / PAIR_REJECT, and only then    *)
(* carry application messages.  Either end may time out, be closed by its  *)
(* owner, or lose the network, between any two of these steps.             *)
(*                                                                         *)
(* PING and PONG are the business of module Heartbeat.                     *)
(***************************************************************************)
EXTENDS Naturals, Sequences

CONSTANTS Initiator,   \* the end whose device dialled (SessionRole "initiator")
          Responder,   \* the end whose server accepted the socket
          MaxApp       \* bound: application messages each end sends

ASSUME EndsAssumption == Initiator # Responder
ASSUME MaxAppAssumption == MaxApp \in Nat

Side == {Initiator, Responder}
Peer(s) == IF s = Initiator THEN Responder ELSE Initiator

(* The frames in order of use; CLOSE is the WebSocket's own closing frame. *)
HelloFrame == {"HELLO", "HELLO_ACK"}
EncryptedFrame == {"PAIR_ACCEPT", "PAIR_REJECT", "MESSAGE"}
Frame == HelloFrame \cup EncryptedFrame \cup {"CLOSE"}

VARIABLES
  state,           \* "absent" until the PeerConnection is constructed
  session,         \* session keys have been derived
  localApproved,
  remoteApproved,
  authorize,       \* the promise of the authorize callback
  handshakeTimer,  \* armed?
  inbox,           \* inbox[s]: frames on the socket towards s, oldest first
  line,            \* the TCP connection under the socket
  appSent,         \* application messages sent by each end
  sameVersion,     \* the two devices speak the same PROTOCOL_VERSION
  helloValid,      \* helloValid[s]: the HELLO of s passes its two checks
  clocksAgree      \* the clocks differ by at most clockSkewToleranceMs

peers == <<sameVersion, helloValid, clocksAgree>>
vars == <<state, session, localApproved, remoteApproved, authorize,
          handshakeTimer, inbox, line, appSent, peers>>

State == {"absent", "handshaking", "pairing", "connected", "closed"}
Promise == {"none", "asking", "approved", "refused", "failed"}

(* The shape of the state; and the handshake timer is armed exactly while an
   end is opening, so a connected or closed end is never closed by it and an
   opening end never lacks it. *)
TypeOK ==
  /\ state \in [Side -> State]
  /\ session \in [Side -> BOOLEAN]
  /\ localApproved \in [Side -> BOOLEAN]
  /\ remoteApproved \in [Side -> BOOLEAN]
  /\ authorize \in [Side -> Promise]
  /\ handshakeTimer \in [Side -> BOOLEAN]
  /\ inbox \in [Side -> Seq(Frame)]
  /\ line \in {"up", "broken"}
  /\ appSent \in [Side -> 0..MaxApp]
  /\ sameVersion \in BOOLEAN
  /\ helloValid \in [Side -> BOOLEAN]
  /\ clocksAgree \in BOOLEAN
  /\ \A s \in Side : handshakeTimer[s] <=> state[s] \in {"handshaking", "pairing"}

Init ==
  /\ state = [s \in Side |-> "absent"]
  /\ session = [s \in Side |-> FALSE]
  /\ localApproved = [s \in Side |-> FALSE]
  /\ remoteApproved = [s \in Side |-> FALSE]
  /\ authorize = [s \in Side |-> "none"]
  /\ handshakeTimer = [s \in Side |-> FALSE]
  /\ inbox = [s \in Side |-> <<>>]
  /\ line = "up"
  /\ appSent = [s \in Side |-> 0]
  /\ sameVersion \in BOOLEAN
  /\ helloValid \in [Side -> BOOLEAN]
  /\ clocksAgree \in BOOLEAN

-----------------------------------------------------------------------------
(* The socket. *)

LiveUnlessAbsent(s) == state[s] # "absent"         \* mutant: closed not tested
Live(s) == state[s] \notin {"absent", "closed"}

(* The inboxes once s has put frames on the socket.  Nothing travels over a
   broken line, and what is addressed to a closed end is discarded by the
   first test of handleFrame. *)
Sending(s, frames) ==
  [inbox EXCEPT ![Peer(s)] = IF line = "up" /\ state[Peer(s)] # "closed"
                             THEN @ \o frames ELSE @]

KeepTimer(s) == UNCHANGED handshakeTimer           \* mutant: not cleared
ClearTimer(s) == handshakeTimer' = [handshakeTimer EXCEPT ![s] = FALSE]

(* close(): once, clears the timer, closes the socket behind what was sent
   before; the end hears nothing more. *)
CloseUnheard(s, frames) ==                         \* mutant: socket left open
  /\ state' = [state EXCEPT ![s] = "closed"]
  /\ ClearTimer(s)
  /\ inbox' = [Sending(s, frames) EXCEPT ![s] = <<>>]
CloseAfter(s, frames) ==
  /\ state' = [state EXCEPT ![s] = "closed"]
  /\ ClearTimer(s)
  /\ inbox' = [Sending(s, Append(frames, "CLOSE")) EXCEPT ![s] = <<>>]

Close(s) == CloseAfter(s, <<>>)

(* A frame s is about to handle. *)
Receives(s, frames) == /\ Live(s)
                       /\ inbox[s] # <<>>
                       /\ Head(inbox[s]) \in frames

(* routeEnvelope: past the handshake a frame needs a session and a fresh
   timestamp; otherwise it is dropped without a word. *)
Authentic(s) == session[s] /\ clocksAgree

(* maybeConnected, given the approvals this step establishes. *)
EitherApproved(s) == localApproved'[s] \/ remoteApproved'[s]   \* mutant
PeerApproved(s) == remoteApproved'[s]                          \* mutant
ApprovedBefore(s) == localApproved'[s] /\ remoteApproved[s]    \* mutant: stale
BothApproved(s) == localApproved'[s] /\ remoteApproved'[s]

MaybeConnected(s) ==
  IF BothApproved(s) /\ state[s] # "connected"
  THEN state' = [state EXCEPT ![s] = "connected"] /\ ClearTimer(s)
  ELSE UNCHANGED <<state, handshakeTimer>>

-----------------------------------------------------------------------------
(* Opening.  The server hands over the socket before the dialler's "open". *)

StartResponder ==
  /\ state[Responder] = "absent"
  /\ state' = [state EXCEPT ![Responder] = "handshaking"]
  /\ handshakeTimer' = [handshakeTimer EXCEPT ![Responder] = TRUE]
  /\ UNCHANGED <<session, localApproved, remoteApproved, authorize, inbox,
                 line, appSent, peers>>

StartInitiator ==
  /\ state[Initiator] = "absent"
  /\ state[Responder] # "absent"
  /\ line = "up"
  /\ state' = [state EXCEPT ![Initiator] = "handshaking"]
  /\ handshakeTimer' = [handshakeTimer EXCEPT ![Initiator] = TRUE]
  /\ inbox' = Sending(Initiator, <<"HELLO">>)
  /\ UNCHANGED <<session, localApproved, remoteApproved, authorize, line,
                 appSent, peers>>

(* onHello refuses: another protocol version (decode), an id that is not
   the fingerprint of its key, or a bad signature. *)
RefuseHello(s) ==
  /\ Receives(s, HelloFrame)
  /\ ~session[s]
  /\ ~(sameVersion /\ helloValid[Peer(s)])
  /\ Close(s)
  /\ UNCHANGED <<session, localApproved, remoteApproved, authorize, line,
                 appSent, peers>>

(* onHello accepts: the responder answers before it derives the session,
   and pairing begins by asking the owner. *)
AcceptHello(s) ==
  /\ Receives(s, HelloFrame)
  /\ ~session[s]
  /\ sameVersion /\ helloValid[Peer(s)]
  /\ LET reply == IF Head(inbox[s]) = "HELLO" /\ s = Responder
                  THEN <<"HELLO_ACK">> ELSE <<>>
     IN  inbox' = [Sending(s, reply) EXCEPT ![s] = Tail(@)]
  /\ session' = [session EXCEPT ![s] = TRUE]
  /\ state' = [state EXCEPT ![s] = "pairing"]
  /\ authorize' = [authorize EXCEPT ![s] = "asking"]
  /\ UNCHANGED <<localApproved, remoteApproved, handshakeTimer, line,
                 appSent, peers>>

-----------------------------------------------------------------------------
(* Pairing.  The promise may settle long after the connection has closed. *)

AuthorizeApproves(s) ==
  /\ authorize[s] = "asking"
  /\ Live(s)
  /\ authorize' = [authorize EXCEPT ![s] = "approved"]
  /\ localApproved' = [localApproved EXCEPT ![s] = TRUE]
  /\ inbox' = Sending(s, <<"PAIR_ACCEPT">>)
  /\ UNCHANGED remoteApproved
  /\ MaybeConnected(s)
  /\ UNCHANGED <<session, line, appSent, peers>>

AuthorizeRefuses(s) ==
  /\ authorize[s] = "asking"
  /\ Live(s)
  /\ authorize' = [authorize EXCEPT ![s] = "refused"]
  /\ CloseAfter(s, <<"PAIR_REJECT">>)
  /\ UNCHANGED <<session, localApproved, remoteApproved, line, appSent, peers>>

AuthorizeThrows(s) ==
  /\ authorize[s] = "asking"
  /\ Live(s)
  /\ authorize' = [authorize EXCEPT ![s] = "failed"]
  /\ Close(s)
  /\ UNCHANGED <<session, localApproved, remoteApproved, line, appSent, peers>>

AuthorizeTooLate(s) ==
  /\ authorize[s] = "asking"
  /\ state[s] = "closed"
  /\ \E answer \in {"approved", "refused", "failed"} :
        authorize' = [authorize EXCEPT ![s] = answer]
  /\ UNCHANGED <<state, session, localApproved, remoteApproved,
                 handshakeTimer, inbox, line, appSent, peers>>

ReceivePairAccept(s) ==
  /\ Receives(s, {"PAIR_ACCEPT"})
  /\ Authentic(s)
  /\ remoteApproved' = [remoteApproved EXCEPT ![s] = TRUE]
  /\ inbox' = [inbox EXCEPT ![s] = Tail(@)]
  /\ UNCHANGED localApproved
  /\ MaybeConnected(s)
  /\ UNCHANGED <<session, authorize, line, appSent, peers>>

ReceivePairReject(s) ==
  /\ Receives(s, {"PAIR_REJECT"})
  /\ Authentic(s)
  /\ Close(s)
  /\ UNCHANGED <<session, localApproved, remoteApproved, authorize, line,
                 appSent, peers>>

-----------------------------------------------------------------------------
(* Application messages: sendAppMessage throws unless connected, and
   routeEnvelope hands a message up only if connected. *)

MaySendOnceKeyed(s) == Live(s) /\ session[s]       \* mutant: keys are enough
MaySend(s) == state[s] = "connected"

SendAppMessage(s) ==
  /\ MaySend(s)
  /\ appSent[s] < MaxApp
  /\ appSent' = [appSent EXCEPT ![s] = @ + 1]
  /\ inbox' = Sending(s, <<"MESSAGE">>)
  /\ UNCHANGED <<state, session, localApproved, remoteApproved, authorize,
                 handshakeTimer, line, peers>>

ReceiveMessage(s) ==
  /\ Receives(s, {"MESSAGE"})
  /\ Authentic(s)
  /\ inbox' = [inbox EXCEPT ![s] = Tail(@)]
  /\ UNCHANGED <<state, session, localApproved, remoteApproved, authorize,
                 handshakeTimer, line, appSent, peers>>

(* What handleFrame and routeEnvelope drop: a second HELLO, an encrypted
   frame before there is a session, a frame with a stale timestamp. *)
DropFrame(s) ==
  /\ Receives(s, HelloFrame \cup EncryptedFrame)
  /\ IF Head(inbox[s]) \in HelloFrame THEN session[s] ELSE ~Authentic(s)
  /\ inbox' = [inbox EXCEPT ![s] = Tail(@)]
  /\ UNCHANGED <<state, session, localApproved, remoteApproved, authorize,
                 handshakeTimer, line, appSent, peers>>

-----------------------------------------------------------------------------
(* Ends. *)

StillShakingHands(s) == state[s] = "handshaking"   \* mutant: pairing exempt
StillOpening(s) == state[s] # "connected"

HandshakeTimeout(s) ==
  /\ handshakeTimer[s]
  /\ StillOpening(s)
  /\ Close(s)
  /\ UNCHANGED <<session, localApproved, remoteApproved, authorize, line,
                 appSent, peers>>

(* The transport closes the connection: it stops, or the link is a
   duplicate, or the heartbeat gave up (module Heartbeat). *)
LocalClose(s) ==
  /\ Live(s)
  /\ Close(s)
  /\ UNCHANGED <<session, localApproved, remoteApproved, authorize, line,
                 appSent, peers>>

(* The socket reports "close" (or "error") once the frames before it have
   been handled. *)
SocketClosed(s) ==
  /\ Receives(s, {"CLOSE"})
  /\ Close(s)
  /\ UNCHANGED <<session, localApproved, remoteApproved, authorize, line,
                 appSent, peers>>

(* The network fails: each end still gets some prefix of what was on its
   way, then notices. *)
LineBreaks ==
  /\ line = "up"
  /\ state[Responder] # "absent"
  /\ line' = "broken"
  /\ \E i \in 0..Len(inbox[Initiator]), r \in 0..Len(inbox[Responder]) :
        inbox' = [s \in Side |->
                    IF state[s] = "closed" THEN <<>>
                    ELSE Append(SubSeq(inbox[s], 1, IF s = Initiator THEN i ELSE r),
                                "CLOSE")]
  /\ UNCHANGED <<state, session, localApproved, remoteApproved, authorize,
                 handshakeTimer, appSent, peers>>

Handles(s) == \/ RefuseHello(s) \/ AcceptHello(s)
              \/ ReceivePairAccept(s) \/ ReceivePairReject(s)
              \/ ReceiveMessage(s) \/ DropFrame(s)
              \/ SocketClosed(s)

Answers(s) == \/ AuthorizeApproves(s) \/ AuthorizeRefuses(s)
              \/ AuthorizeThrows(s) \/ AuthorizeTooLate(s)

Next == \/ StartResponder \/ StartInitiator
        \/ \E s \in Side : \/ Handles(s) \/ Answers(s)
                           \/ SendAppMessage(s)
                           \/ HandshakeTimeout(s) \/ LocalClose(s)
        \/ LineBreaks

Spec == Init /\ [][Next]_vars

(* The event loop of each end eventually handles what its socket delivers,
   and a timer that stays armed eventually fires.  No user is obliged to
   answer, no owner to send or to close, and no network to fail. *)
Fairness == \A s \in Side : WF_vars(Handles(s)) /\ WF_vars(HandshakeTimeout(s))

FairSpec == Spec /\ Fairness

-----------------------------------------------------------------------------
(* Properties. *)

(* Mutual consent: an end is connected (its owner sees device:connected and
   may send entities) only if the policies of BOTH ends have approved the
   other, however accepts, refusals, timeouts and failures interleave. *)
MutualConsent ==
  \A s \in Side : state[s] = "connected" =>
                    \A t \in Side : authorize[t] = "approved"

(* No frame outruns the state it needs: an encrypted frame always finds its
   session, and an application message always finds its receiver connected,
   although the two ends come up at different times.  So routeEnvelope's
   silent drops lose nothing on a socket that delivers in order. *)
NothingOutrunsItsState ==
  \A s \in Side : Live(s) /\ inbox[s] # <<>> =>
    /\ Head(inbox[s]) \in EncryptedFrame => session[s]
    /\ Head(inbox[s]) = "MESSAGE" => state[s] = "connected"

(* No lost wake-up: whichever of "my owner approves" and "PAIR_ACCEPT
   arrives" is last at an end, that end comes up.  When both owners have
   approved and nothing is left on the wire, two live ends are both up. *)
AcceptsNeverStall ==
  /\ clocksAgree
  /\ \A s \in Side : Live(s) /\ localApproved[s] /\ inbox[s] = <<>>
  => \A s \in Side : state[s] = "connected"

(* A link is half-up only in passing: while one end is connected and the
   other still pairing, the PAIR_ACCEPT or the CLOSE that resolves it is
   already on its way. *)
HalfUpIsTransient ==
  \A s \in Side :
    state[s] = "connected" /\ Live(Peer(s)) /\ state[Peer(s)] # "connected"
    => \E i \in 1..Len(inbox[Peer(s)]) :
          inbox[Peer(s)][i] \in {"PAIR_ACCEPT", "CLOSE"}

(* The link keeps the contract its owners rely on. *)
Consent(s) == IF authorize[s] \in {"none", "asking"} THEN "undecided"
              ELSE IF authorize[s] = "approved" THEN "yes" ELSE "no"
Phase(s) == IF state[s] = "connected" THEN "up"
            ELSE IF state[s] = "closed" THEN "down" ELSE "opening"
Contract == INSTANCE LinkContract
              WITH consent <- [s \in Side |-> Consent(s)],
                   phase <- [s \in Side |-> Phase(s)]

(* Refinement: every step of the handshake is a step of LinkContract. *)
ImplementsContract == Contract!LinkSpec

(* Liveness: nobody waits for ever in the handshake, even if no user ever
   answers and the peer falls silent. *)
HandshakeEnds ==
  \A s \in Side :
    state[s] \in {"handshaking", "pairing"} ~> state[s] \in {"connected", "closed"}

(* Liveness: when one end closes, for whatever reason, the other (if it was
   ever opened) closes too, so no end keeps a dead link. *)
CloseReachesPeer ==
  \A s \in Side : (state[s] = "closed" /\ state[Peer(s)] # "absent")
                    ~> state[Peer(s)] = "closed"
=============================================================================
