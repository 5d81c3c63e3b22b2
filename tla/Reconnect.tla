----------------------------- MODULE Reconnect -----------------------------
(***************************************************************************)
(* What a node does about one remote device: its discovery                 *)
(* (src/network/discovery.ts), its registry (src/services/                 *)
(* deviceRegistry.ts) and its connection manager (src/services/            *)
(* connectionManager.ts), wired by the event bus, from the start of the    *)
(* node to the end of its stop().  Records, timers and links of different  *)
(* devices do not touch each other, so one device is enough.               *)
(*                                                                         *)
(* A bus event is delivered in the step that emits it, to the registry     *)
(* first and to the manager second: the order of their attach().  The      *)
(* registry's handler of device:found awaits the trust store, and its rest *)
(* is a step of its own.                                                   *)
(***************************************************************************)
EXTENDS Integers, FiniteSets

CONSTANTS Service,             \* mDNS names, one address each
          Peer,                \* those that onServiceUp takes for the device
          Unknown,             \* the address of a device that dialled us
          NoDial,              \* nothing is being dialled
          AutoConnectTrusted,  \* DiscoveryConfig
          Enabled,             \* ReconnectConfig
          Limits,              \* ReconnectConfig.maxAttempts, one of these
          Cap,                 \* bound: attempts are counted up to here
          MaxLinks,            \* bound: handshakes at a time
          MaxLookups           \* bound: lookups at a time

ASSUME NamesAssumption ==
  Peer \subseteq Service /\ Unknown \notin Service /\ NoDial \notin Service \cup {Unknown}
ASSUME FlagsAssumption == AutoConnectTrusted \in BOOLEAN /\ Enabled \in BOOLEAN
ASSUME NumbersAssumption ==
  /\ Limits \subseteq Nat /\ Cap \in Nat
  /\ MaxLinks \in Nat
  /\ MaxLookups \in Nat

Address == Peer \cup {Unknown}
NoRetry == -1

VARIABLES
  node,     \* "running", or how far stop() has come
  home,     \* where the device really is
  trust,    \* the trust store has the device
  seen,     \* serviceToDevice: the names for which it was found
  lookups,  \* onFound() of the registry, awaiting isTrusted()
  status, trusted, address,  \* the registry's record; status "none": there is none
  retry,    \* the manager's: the attempt its timer is armed for, or NoRetry
  limit,    \* maxAttempts
  dialing,  \* the transport: the address it dials, expecting this device
  pending,  \* the transport: handshakes under way, by the address dialled
  up        \* the transport: isConnected

net == <<dialing, pending, up>>
record == <<status, trusted, address>>
world == <<home, trust, limit>>
vars == <<node, world, seen, lookups, record, retry, net>>

TypeOK ==
  /\ node \in {"running", "closing", "closed", "stopped"}
  /\ home \in Peer /\ trust \in BOOLEAN /\ limit \in Limits
  /\ seen \subseteq Peer
  /\ lookups \subseteq [address : Peer, trusted : BOOLEAN]
  /\ status \in {"none", "discovered", "connecting", "connected", "unreachable", "lost"}
  /\ trusted \in BOOLEAN /\ address \in Address
  /\ retry \in {NoRetry} \cup (IF limit = 0 THEN 0..Cap ELSE 0..limit - 1)
  /\ dialing \in Address \cup {NoDial}
  /\ pending \subseteq Address /\ up \in BOOLEAN

(* start() ends: everything is constructed and subscribed, nothing is found. *)
Init ==
  /\ node = "running"
  /\ home \in Peer /\ trust \in BOOLEAN /\ limit \in Limits
  /\ seen = {} /\ lookups = {}
  /\ status = "none" /\ trusted = FALSE /\ address = Unknown
  /\ retry = NoRetry
  /\ dialing = NoDial /\ pending = {} /\ up = FALSE

(* emit() reaches the subscribers until removeAll(). *)
Hears == node # "stopped"

-----------------------------------------------------------------------------
(* The registry's handlers. *)

(* setStatus: only a device with a record has a status. *)
SetStatus(s) == IF Hears /\ status # "none" THEN s ELSE status

(* onFound up to its await ... *)
StartLookup(s) ==
  lookups' = lookups \cup {[address |-> s, trusted |-> trust]}

(* ... and after it: the record of now, with the address and the trust of
   then. *)
Rediscovered == "discovered"                        \* mutant: a new record
KnownStatus == IF status = "none" THEN "discovered" ELSE status
FoundResumes(found) ==
  /\ found \in lookups
  /\ lookups' = lookups \ {found}
  /\ status' = KnownStatus
  /\ address' = found.address /\ trusted' = found.trusted
  /\ UNCHANGED <<node, world, seen, retry, net>>

(* onLost: a connected device stays connected. *)
OnLost == status' = IF status \in {"none", "connected"} THEN status ELSE "lost"

(* onConnected, with the address that was dialled, if we dialled. *)
OnConnected(a) ==
  /\ status' = "connected" /\ trusted' = TRUE
  /\ address' = IF a = Unknown /\ status # "none" THEN address ELSE a

-----------------------------------------------------------------------------
(* The manager's handlers. *)

(* connect() of the transport, with the record's address and the device id. *)
Connect ==
  IF ~up /\ dialing = NoDial
  THEN dialing' = address /\ status' = SetStatus("connecting")
  ELSE UNCHANGED <<dialing, status>>

(* onFound, which finds the record there was before this device:found. *)
AutoConnects == AutoConnectTrusted /\ ~up /\ status # "none" /\ trusted
AutoConnect == IF AutoConnects THEN Connect ELSE UNCHANGED <<dialing, status>>

Cancel == retry' = NoRetry

(* scheduleReconnect: the attempt its timer is armed for after it. *)
GivesUp(attempt) == limit > 0 /\ attempt >= limit
Counted(attempt) == IF limit = 0 /\ attempt > Cap THEN Cap ELSE attempt
KeepsWaiting == retry                               \* mutant: not re-armed
Rescheduled ==
  IF ~Enabled \/ ~trusted \/ status' \in {"none", "lost"} \/ up'
  THEN retry
  ELSE IF GivesUp(retry + 1) THEN NoRetry ELSE Counted(retry + 1)

(* The timer: attemptReconnect. *)
StillUnreachable == status = "unreachable" /\ trusted  \* mutant: one attempt
StillWanted == status \notin {"none", "lost"} /\ trusted
AttemptReconnect ==
  /\ retry # NoRetry
  /\ up' = up
  /\ IF StillWanted /\ ~up THEN Connect /\ retry' = Rescheduled
                           ELSE Cancel /\ UNCHANGED <<dialing, status>>
  /\ UNCHANGED <<node, world, seen, lookups, trusted, address, pending>>

(* device:disconnected, at both. *)
Disconnected ==
  /\ status' = SetStatus("unreachable")
  /\ retry' = IF Hears THEN Rescheduled ELSE retry

-----------------------------------------------------------------------------
(* Discovery. *)

(* onServiceUp: not for our own name, nor for one whose id is not that of its
   key or that has no address; device:found. *)
ServiceUp(s) ==
  /\ node = "running" /\ s \in Peer \ seen /\ Cardinality(lookups) < MaxLookups
  /\ seen' = seen \cup {s}
  /\ StartLookup(s)
  /\ AutoConnect
  /\ UNCHANGED <<node, world, trusted, address, retry, pending, up>>

(* onServiceDown, of a name that was found; device:lost. *)
ServiceDown(s) ==
  /\ node = "running" /\ s \in seen
  /\ seen' = seen \ {s}
  /\ OnLost
  /\ Cancel
  /\ UNCHANGED <<node, world, lookups, trusted, address, net>>

-----------------------------------------------------------------------------
(* The transport: module LinkTable, seen from above. *)

DialOpens ==
  /\ dialing = home /\ dialing \notin pending /\ Cardinality(pending) < MaxLinks
  /\ dialing' = NoDial /\ pending' = pending \cup {dialing}
  /\ UNCHANGED <<node, world, seen, lookups, record, retry, up>>

DialFails ==
  /\ dialing # NoDial
  /\ dialing' = NoDial
  /\ UNCHANGED <<node, world, seen, lookups, record, retry, pending, up>>

(* The device dials us, or a user dials it without naming it. *)
OpensUnasked(a) ==
  /\ node \in {"running", "closing"}
  /\ a \in {Unknown, home} \ pending /\ Cardinality(pending) < MaxLinks
  /\ pending' = pending \cup {a}
  /\ UNCHANGED <<node, world, seen, lookups, record, retry, dialing, up>>

(* A handshake ends: with a refusal before the device is known, or as a
   duplicate, of which nobody is told; with the refusal of a known device; or
   with a link, which may supersede the one in the table. *)
HandshakeFails(a) ==
  /\ a \in pending
  /\ pending' = pending \ {a}
  /\ up' = up
  /\ \/ UNCHANGED <<status, retry>>
     \/ ~up /\ Disconnected
  /\ UNCHANGED <<node, world, seen, lookups, trusted, address, dialing>>

HandshakeDone(a) ==
  /\ a \in pending
  /\ pending' = pending \ {a}
  /\ up' = TRUE
  /\ IF Hears THEN OnConnected(a) /\ Cancel ELSE UNCHANGED <<record, retry>>
  /\ UNCHANGED <<node, world, seen, lookups, dialing>>

(* heartbeat:ok, and onHeartbeat of the registry. *)
Heartbeat ==
  /\ up
  /\ status' = SetStatus("connected")
  /\ UNCHANGED <<node, world, seen, lookups, trusted, address, retry, net>>

(* The link closes.  If it is for a silent peer, device:unreachable goes before
   device:disconnected: it changes the status first and schedules nothing, for
   the link is still in the table. *)
LinkDrops ==
  /\ up /\ up' = FALSE
  /\ Disconnected
  /\ UNCHANGED <<node, world, seen, lookups, trusted, address, dialing, pending>>

-----------------------------------------------------------------------------
(* stop() of the node: three turns, between which the rest goes on. *)

ForgetServices == seen' = {}
StopDiscovery ==
  /\ node = "running" /\ node' = "closing"
  /\ ForgetServices
  /\ UNCHANGED <<world, lookups, record, retry, net>>

(* The manager is stopped and then the transport, which closes its links one
   after the other: k of them are of a known device, and told to the bus. *)
AfterDrops(k) ==
  IF k = 0 \/ ~Enabled \/ ~trusted \/ status = "none" THEN NoRetry
  ELSE IF limit > 0 /\ k > limit THEN NoRetry ELSE Counted(k - 1)
StopTransport ==
  /\ node = "closing" /\ node' = "closed"
  /\ up' = FALSE /\ pending' = {}
  /\ \E k \in 0..MaxLinks + 1 :
       /\ IF up THEN k \in 1..1 + Cardinality(pending) ELSE k <= Cardinality(pending)
       /\ status' = IF k = 0 THEN status ELSE SetStatus("unreachable")
       /\ retry' = AfterDrops(k)
  /\ UNCHANGED <<world, seen, lookups, trusted, address, dialing>>

RemoveAll ==
  /\ node = "closed" /\ node' = "stopped"
  /\ UNCHANGED <<world, seen, lookups, record, retry, net>>

-----------------------------------------------------------------------------
(* The rest of the world: the owner accepts the device or revokes it, the
   device changes its address. *)

Trusts == pending # {} /\ trust' = TRUE
          /\ UNCHANGED <<node, home, limit, seen, lookups, record, retry, net>>
Revokes == trust' = FALSE
           /\ UNCHANGED <<node, home, limit, seen, lookups, record, retry, net>>
Moves(s) == s \in Peer /\ home' = s
            /\ UNCHANGED <<node, trust, limit, seen, lookups, record, retry, net>>

LookupResumes == \E found \in lookups : FoundResumes(found)
Opens == \E a \in Address : OpensUnasked(a)
Drops == LinkDrops \/ \E a \in Address : HandshakeFails(a)
Discovers == \E s \in Service : ServiceUp(s) \/ ServiceDown(s) \/ Moves(s)

Next ==
  \/ Discovers \/ LookupResumes
  \/ AttemptReconnect
  \/ DialOpens \/ DialFails \/ Opens
  \/ (\E a \in Address : HandshakeDone(a)) \/ Heartbeat \/ Drops
  \/ StopDiscovery \/ StopTransport \/ RemoveAll
  \/ Trusts \/ Revokes

Spec == Init /\ [][Next]_vars

(* A promise that is settled resumes its reader, an armed timer fires, a
   WebSocket opens or fails within connectTimeoutMs; and the device, dialled
   again and again where it is, answers in the end and comes up. *)
Fairness ==
  /\ WF_vars(LookupResumes) /\ WF_vars(AttemptReconnect) /\ WF_vars(DialFails)
  /\ SF_vars(DialOpens)
  /\ \A a \in Address : SF_vars(HandshakeDone(a))

FairSpec == Spec /\ Fairness

-----------------------------------------------------------------------------
(* Properties. *)

(* The registry is right about the link, although lookups that started before
   a change end after it: a device shows as connected exactly while the
   transport has its link. *)
StatusTellsLink == Hears => (status = "connected" <=> up)

(* A device that is connected is not dialled: its retry ended when it came up,
   by whatever link, even one it dialled itself. *)
NoChaseWhileUp == Hears /\ up => retry = NoRetry

(* Registry, connection manager and transport agree, lookup by lookup. *)
ChaseIsOrderly == TypeOK /\ StatusTellsLink /\ NoChaseWhileUp

(* No drop goes unnoticed: when the link of a trusted device breaks under a
   running node a retry is armed at once, whatever was lost or found meanwhile
   ("This is what makes links survive Wi-Fi blips", connectionManager.ts:7). *)
DropIsChased ==
  [][up /\ ~up' /\ node' = "running" /\ Enabled /\ trusted
       => retry' # NoRetry]_vars

(* Liveness: a device that is being chased, without a limit, and is where the
   registry believes it to be is connected in the end: the timer goes on
   re-arming itself and each dial ends ("Guard against silent failure",
   connectionManager.ts:99). *)
Wanted == /\ node = "running" /\ limit = 0
          /\ status # "lost" /\ trusted /\ address = home
ChaseSucceeds == (retry # NoRetry /\ Wanted) ~> (up \/ ~Wanted)

(* "Only chase devices we trust and can still see on the network"
   (connectionManager.ts:65). *)
ChaseOnlySeen == retry # NoRetry => seen # {}
=============================================================================
