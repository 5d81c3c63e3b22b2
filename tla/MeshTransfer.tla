---------------------------- MODULE MeshTransfer ----------------------------
(***************************************************************************)
(* Entities on their way from one device to another: the pipeline that     *)
(* attachTransferMesh assembles.  At the source, dispatch() of             *)
(* src/transfer/transferRuntime.ts, the scheduler (module                  *)
(* TransferScheduler) and, as the scheduler's inner transport,             *)
(* src/mesh/meshTransport.ts with its table of pending acks and their      *)
(* timers; at the destination, handleIncoming and receive(); in between a  *)
(* link that comes and goes, with a new session key each time.             *)
(*                                                                         *)
(* An action is one turn of an event loop.  What the source does when      *)
(* promises settle (run() resuming after send(), dispatch() after that)    *)
(* happens in the same turn.                                               *)
(***************************************************************************)
EXTENDS TransferScheduler

CONSTANT MaxSession  \* bound: how often the link comes up

ASSUME SessionAssumption == MaxSession \in Nat

(* The scheduler of the source is TransferScheduler; the transfer of entity e
   is its job e. *)
VARIABLES
  (* the source *)
  source,       \* the state of the entity in the source's EntityManager
  sealed,       \* the session whose key encrypted it; 0: NoopCipher
  pending,      \* MeshTransferTransport.pending: sent, ack timer armed
  unsent,       \* jobs answered "target not connected"
  (* the link *)
  linkUp,
  session,      \* the number of the current or last session
  requests,     \* on the socket to the destination: entities
  acks,         \* on the socket to the source: [entity, accepted]
  (* the destination *)
  dest,         \* the state of the entity in the destination's EntityManager
  dropping,     \* calls of receive(e) that await sink.drop
  delivered,    \* history: drops of e that the sink completed
  thrown        \* history: entities on which a sink threw

schedulerVars == vars
sourceVars == <<source, sealed, pending, unsent>>
linkVars == <<linkUp, session>>
destVars == <<dest, dropping, delivered, thrown>>
meshVars == <<schedulerVars, sourceVars, linkVars, requests, acks, destVars>>

SourceState == {"HELD", "SENDING", "COMPLETED", "FAILED"}
DestState == {"NONE", "READY", "COMPLETED", "FAILED"}

MeshTypeOK ==
  /\ TypeOK
  /\ source \in [Job -> SourceState]
  /\ sealed \in [Job -> 0..MaxSession]
  /\ pending \subseteq Job /\ unsent \subseteq Job
  /\ linkUp \in BOOLEAN
  /\ session \in 0..MaxSession
  /\ requests \in Seq(Job)
  /\ acks \in Seq([entity : Job, accepted : BOOLEAN])
  /\ dest \in [Job -> DestState]
  /\ dropping \in [Job -> 0..(MaxRetries + 1)]
  /\ delivered \in [Job -> 0..(MaxRetries + 1)]
  /\ thrown \subseteq Job

MeshInit ==
  /\ Init
  /\ source = [e \in Job |-> "HELD"]
  /\ sealed = [e \in Job |-> 0]
  /\ pending = {} /\ unsent = {}
  /\ linkUp = FALSE /\ session = 0
  /\ requests = <<>> /\ acks = <<>>
  /\ dest = [e \in Job |-> "NONE"]
  /\ dropping = [e \in Job |-> 0]
  /\ delivered = [e \in Job |-> 0]
  /\ thrown = {}

-----------------------------------------------------------------------------
(* The source. *)

(* cipherFor: the key of the current session, or none. *)
CurrentKey == IF linkUp THEN session ELSE 0

(* MeshTransferTransport.send, for the jobs the scheduler starts in this
   step: on the socket with an ack timer, or answered at once.  stillPending
   and stillUnsent are the sends that remain unanswered. *)
Started == {e \in Job : sends'[e] # sends[e]}

SendUntimed(stillPending, stillUnsent) ==           \* mutant: no ack timer
  /\ pending' = stillPending
  /\ unsent' = IF linkUp THEN stillUnsent ELSE stillUnsent \cup Started
  /\ requests' = IF linkUp THEN requests \o SetToSeq(Started) ELSE requests
MeshSend(stillPending, stillUnsent) ==
  IF linkUp
  THEN /\ pending' = stillPending \cup Started
       /\ unsent' = stillUnsent
       /\ requests' = requests \o SetToSeq(Started)
  ELSE /\ pending' = stillPending
       /\ unsent' = stillUnsent \cup Started
       /\ UNCHANGED requests

(* dispatch() once its send() has settled. *)
CompletesAnyway(outcome) == "COMPLETED"             \* mutant: ack not read
Conclusion(outcome) == IF outcome = "accepted" THEN "COMPLETED" ELSE "FAILED"
Conclude ==
  source' = [e \in Job |->
               IF promise[e] = "pending" /\ promise'[e] # "pending"
               THEN Conclusion(promise'[e]) ELSE source[e]]

(* dispatch(): an entity that does not validate fails at once. *)
DispatchInvalid(e) ==
  /\ source[e] = "HELD"
  /\ source' = [source EXCEPT ![e] = "FAILED"]
  /\ UNCHANGED <<schedulerVars, sealed, pending, unsent, linkVars, requests,
                 acks, destVars>>

Dispatch(e) ==
  /\ source[e] = "HELD"
  /\ source' = [source EXCEPT ![e] = "SENDING"]
  /\ sealed' = [sealed EXCEPT ![e] = CurrentKey]
  /\ Send(e)
  /\ MeshSend(pending, unsent)
  /\ UNCHANGED <<linkVars, acks, destVars>>

(* The answers of the inner transport. *)
NotConnected(e) ==
  /\ e \in unsent
  /\ InnerRejects(e)
  /\ Conclude
  /\ MeshSend(pending, unsent \ {e})
  /\ UNCHANGED <<sealed, linkVars, acks, destVars>>

AckTimeout(e) ==
  /\ e \in pending
  /\ InnerRejects(e)
  /\ Conclude
  /\ MeshSend(pending \ {e}, unsent)
  /\ UNCHANGED <<sealed, linkVars, acks, destVars>>

(* handleAck: by transferId alone, so the ack of an earlier attempt answers
   the current one. *)
Unchecked(ack) == ack.entity \in running            \* mutant: pending not read
Awaited(ack) == ack.entity \in pending

HandleAck ==
  /\ acks # <<>> /\ Awaited(Head(acks))
  /\ acks' = Tail(acks)
  /\ LET e == Head(acks).entity
     IN  /\ IF Head(acks).accepted THEN InnerAccepts(e)
                                   ELSE InnerRejects(e)
         /\ MeshSend(pending \ {e}, unsent)
  /\ Conclude
  /\ UNCHANGED <<sealed, linkVars, destVars>>

IgnoreAck ==
  /\ acks # <<>> /\ ~Awaited(Head(acks))
  /\ acks' = Tail(acks)
  /\ UNCHANGED <<schedulerVars, sourceVars, linkVars, requests, destVars>>

Resend(e) ==
  /\ RetryTimer(e)
  /\ MeshSend(pending, unsent)
  /\ UNCHANGED <<source, sealed, linkVars, acks, destVars>>

CancelTransfer(e) ==
  /\ Cancel(e)
  /\ Conclude
  /\ UNCHANGED <<sealed, pending, unsent, linkVars, requests, acks, destVars>>

-----------------------------------------------------------------------------
(* The destination. *)

(* handleIncoming's last step: sendTo, whatever has become of the link. *)
AckWith(e, ok) ==
  acks' = IF linkUp THEN Append(acks, [entity |-> e, accepted |-> ok]) ELSE acks

(* cipher.decrypt: AES-GCM under the session's key, and it throws on the
   NoopCipher's meta. *)
Opens(e) == sealed[e] = session

(* receive() before an entity is adopted: decrypt throws. *)
ReceiveUnreadable ==
  /\ requests # <<>> /\ ~Opens(Head(requests))
  /\ requests' = Tail(requests)
  /\ AckWith(Head(requests), FALSE)
  /\ UNCHANGED <<schedulerVars, sourceVars, linkVars, destVars>>

(* receive() adopts the entity, over one of the same id if there is one, and
   finds it invalid or without a sink. *)
ReceiveRefused ==
  /\ requests # <<>> /\ Opens(Head(requests))
  /\ requests' = Tail(requests)
  /\ dest' = [dest EXCEPT ![Head(requests)] = "FAILED"]
  /\ AckWith(Head(requests), FALSE)
  /\ UNCHANGED <<schedulerVars, sourceVars, linkVars, dropping, delivered, thrown>>

(* receive() up to the await of sink.drop (or of the action's handler). *)
ReceiveReady ==
  /\ requests # <<>> /\ Opens(Head(requests))
  /\ requests' = Tail(requests)
  /\ dest' = [dest EXCEPT ![Head(requests)] = "READY"]
  /\ dropping' = [dropping EXCEPT ![Head(requests)] = @ + 1]
  /\ UNCHANGED <<schedulerVars, sourceVars, linkVars, acks, delivered, thrown>>

(* Two transitions that EntityManager ignores unless the entity is READY. *)
NeverRetired(e) == dest[e]                          \* mutant: not completed
Retired(e) == IF dest[e] = "READY" THEN "COMPLETED" ELSE dest[e]

SinkDone(e) ==
  /\ dropping[e] > 0
  /\ dropping' = [dropping EXCEPT ![e] = @ - 1]
  /\ delivered' = [delivered EXCEPT ![e] = @ + 1]
  /\ dest' = [dest EXCEPT ![e] = Retired(e)]
  /\ AckWith(e, TRUE)
  /\ UNCHANGED <<schedulerVars, sourceVars, linkVars, requests, thrown>>

(* The sink throws: receive() answers, and leaves the entity as it is. *)
SinkThrows(e) ==
  /\ dropping[e] > 0
  /\ dropping' = [dropping EXCEPT ![e] = @ - 1]
  /\ thrown' = thrown \cup {e}
  /\ AckWith(e, FALSE)
  /\ UNCHANGED <<schedulerVars, sourceVars, linkVars, requests, dest, delivered>>

-----------------------------------------------------------------------------
(* The link: module PeerLink, seen from above it.  What is on the sockets is
   lost when it breaks, and the next session has another key. *)

LinkComesUp ==
  /\ ~linkUp /\ session < MaxSession
  /\ linkUp' = TRUE
  /\ session' = session + 1
  /\ UNCHANGED <<schedulerVars, sourceVars, requests, acks, destVars>>

LinkBreaks ==
  /\ linkUp
  /\ linkUp' = FALSE
  /\ requests' = <<>> /\ acks' = <<>>
  /\ UNCHANGED <<schedulerVars, sourceVars, session, destVars>>

MeshNext == \/ \E e \in Job : \/ Dispatch(e) \/ DispatchInvalid(e)
                              \/ NotConnected(e) \/ AckTimeout(e)
                             \/ Resend(e) \/ CancelTransfer(e)
                             \/ SinkDone(e) \/ SinkThrows(e)
        \/ HandleAck \/ IgnoreAck
        \/ ReceiveUnreadable \/ ReceiveRefused \/ ReceiveReady
        \/ LinkComesUp \/ LinkBreaks

MeshSpec == MeshInit /\ [][MeshNext]_meshVars

(* Timers of the source fire, and a resolved promise resumes its reader.
   Nothing is asked of the network, the destination or its sinks. *)
MeshFairness == \A e \in Job : /\ WF_meshVars(NotConnected(e))
                               /\ WF_meshVars(AckTimeout(e))
                               /\ WF_meshVars(Resend(e))

FairMeshSpec == MeshSpec /\ MeshFairness

-----------------------------------------------------------------------------
(* Properties. *)

(* No false success: whatever acks are lost, late or attributed to another
   attempt, the source reports a transfer as completed (transfer:completed)
   only if the destination's sink has taken the entity. *)
NoFalseSuccess ==
  \A e \in Job : source[e] = "COMPLETED" => delivered[e] >= 1

(* The sink sees an entity at most once per attempt the scheduler counts, so
   at most 1 + maxRetries times, however late deliveries and acks are. *)
AttemptsBoundDrops ==
  \A e \in Job : delivered[e] + dropping[e] <= attempts[e] + 1

(* Two tables agree: a job holds a slot of the scheduler exactly while the
   mesh transport will answer it, by its ack timer or at once.  So no slot is
   held by a transfer nobody will answer, and no ack timer is armed for one
   that is not in flight. *)
SlotHasItsTimer ==
  /\ running = pending \cup unsent
  /\ pending \cap unsent = {}

(* At the destination an entity is left READY, in the live set for ever, only
   by a sink that threw. *)
ReadyMeansDropping ==
  \A e \in Job : dest[e] = "READY" => dropping[e] > 0 \/ e \in thrown

(* The source waits for exactly the transfers whose promise is pending: none is
   SENDING that the scheduler has settled, and none settles twice. *)
SendingIsPending ==
  \A e \in Job : source[e] = "SENDING" <=> promise[e] = "pending"

(* The books of the pipeline agree with each other, at every interleaving of
   timers, acks and links. *)
Bookkeeping ==
  /\ MeshTypeOK
  /\ AttemptsBoundDrops
  /\ SlotHasItsTimer
  /\ ReadyMeansDropping
  /\ SendingIsPending

(* As long as nothing is retried, and by default (retryOnRejectedAck false) no
   refusal or silence is, the ends agree on success: what the source completed,
   the destination completed, and dropped once. *)
EndsAgree ==
  \A e \in Job : attempts[e] = 0 =>
    /\ delivered[e] <= 1
    /\ source[e] = "COMPLETED" => dest[e] = "COMPLETED" /\ delivered[e] = 1

(* What TransferScheduler assumes of its inner transport, this one provides:
   every behaviour of the pipeline is a fair behaviour of the scheduler, even
   if the destination never answers and the link never comes up.  So the
   scheduler's SendSettles holds here, and by SendingIsPending every dispatch()
   ends that is not cancelled. *)
ServesScheduler == FairSpec

(* What docs/PHASE4.md and the scheduler's configuration say: a failure is
   retried.  An ack that does not come, or a target that is not connected,
   is a failure but reaches the scheduler as an ack, and by default
   acks are not retried. *)
FailuresRetried ==
  [][\A e \in Job :
       (AckTimeout(e) \/ NotConnected(e)) /\ source'[e] = "FAILED"
         => cancelled[e] \/ attempts[e] = MaxRetries]_meshVars
=============================================================================
