# AirShare in TLA+

AirShare moves things ("entities": a text, a file, a screenshot) from one
device of a local network to another by a gesture: pinch to grab, point, open
the hand to drop. Each device runs one Node.js process, an *AirShare node*;
there is no server. This directory is a verification development of that
program: TLA+ modules translated from `src/src/`, TLC configurations that check
them on small instances, and theorems that TLAPS proves for every instance.

Paths below are relative to `src/src/` unless they begin with `docs/` or
`test/`. `PROJECT.json` maps every definition to the lines it models.

## 1. The system

Everything in a node runs on one event loop: a handler runs to its end or to
its next `await` without interruption. What interleaves is the handlers, the
continuations of awaited promises, timers, and the other device. So an action
of a module is one turn of one event loop, and a handler that awaits something
outside is several actions.

| Component | State it keeps | Operations | Talks to |
|---|---|---|---|
| Peer connection (`network/connection.ts`) | state, session keys, the two approvals, handshake timer, heartbeat (sequence numbers, misses, two timers) | `start`, `handleFrame`, `onHello`, `beginPairing`, `maybeConnected`, `sendAppMessage`, `sendPing`, `onPong`, `onPingTimeout`, `close` | its twin at the other device, by frames over a WebSocket; the transport, by callbacks |
| Transport (`network/transport.ts`) | `connections` (one per device), `pending`, `dialing` | `connect`, `onIncoming`, `onConnected`, `onClosed`, `sendTo`, `stop` | peer connections; the event bus |
| Pairing service and trust store (`services/pairingService.ts`, `security/trust.ts`) | pending confirmations; the trusted peers, in a JSON document | `authorize`, `confirm`, `reject`, `markConnected`, `revoke` | peer connections; storage; the user |
| Storage (`storage/*.ts`) | a JSON file, rewritten as a whole | `read`, `write`, `update` | trust store, identity |
| Device registry (`services/deviceRegistry.ts`) | what is known of each device: address, status, trust | handlers of `discovery:*` and `device:*` events | event bus, trust store |
| Connection manager (`services/connectionManager.ts`) | reconnect timers and attempts | auto-dial on discovery, backoff on disconnection | registry, transport |
| Node lifecycle (`core/airShareNode.ts`) | started or not | `start`, `stop` | everything, in an order |
| Discovery (`network/discovery.ts`) | the mDNS browser and advertisement | found, lost | event bus |
| Transfer runtime (`transfer/transferRuntime.ts`) | none of its own; drives entities and hands | grab, aim, release, cancel, `dispatch`, `receive` | entity manager, hands, ciphers, transport below |
| Entity manager (`transfer/entityManager.ts`, `entityStateMachine.ts`) | the live entities and their states | create, adopt, transition, encode | runtime, ledger |
| Transfer scheduler (`transfer/scheduler.ts`) | queue, slot counter, jobs with attempts, retry timers | `send`, `cancel`, `pump`, `run` | the inner transport |
| Mesh transfer transport (`mesh/meshTransport.ts`) | `pending`: acks awaited, each with a timer | `send`, `handleIncoming`, `handleAck` | the messenger (`sendTo`) |
| Entity ciphers (`mesh/sessionCipher.ts`, `transfer/entityCipher.ts`) | none: the key of the current link | `cipherFor` | transport |
| Virtual hands (`transfer/virtualHand.ts`), ledger (`transfer/history.ts`) | the entity and the target of each hand; the last transfers and their outcomes | attach, detach; upsert, finish, evict | runtime, event bus |
| Capability service (`mesh/capabilityService.ts`, `mesh/messenger.ts`) | what the other devices can do, and who has been told | announce, answer | messenger, event bus |
| Vision (`vision/*.ts`) | per hand: the gesture state machine; trackers, smoothing | frame in, gesture events out | event bus |
| Event bus (`events/eventBus.ts`) | subscribers | `emit`: synchronous, in order of subscription | all |
| Session keys (`security/session.ts`, `sas.ts`, `crypto.ts`, `network/protocol.ts`) | the keys of one connection | derive, seal, open, verify | peer connection |
| Content (`content/**`, `transfer/registry.ts`) | the registry of providers and sinks | capture, drop, read and write clipboards | runtime; the system's tools |
| Browser bridge (`bridge/*.ts`, `web/client.ts`) | browsers connected; the object drawn | forward, draw, `stop` | event bus; browsers |
| Configuration, ids, logging, deferred promises | - | - | - |

**Hard behaviours and what correctness means for them.**

- *Two ends, one handshake* (peer connection). Both users must approve; each
  approval may come before or after the peer's; the connection may time out,
  close or lose the network at any step, also while a user is thinking. Right
  means: nobody is connected without both consents, no combination of orders
  leaves both ends waiting, no frame arrives before the state that can read
  it, each end learns of the other's end.
- *Two devices dial each other* (transport). Links come up in different orders
  at the two ends, and each end closes the surplus by itself. Right means: both
  ends keep the same link, the table names a link exactly while it is up, and
  subscribers of the event bus hear of every change.
- *Retries, acks and timers* (scheduler, mesh transport). An ack may be late,
  lost, or that of an earlier attempt; cancel meets a job in any of three
  places. Right means: no slot leaks, no job is lost or doubled, success is
  reported only if the sink took the entity, each dispatch ends.
- *Late answers* (heartbeat). Right means: a dead peer is noticed in bounded
  time and a punctual one is kept.
- *Await in the middle* (registry, trust store, grab, clipboard). State read
  before an `await` is used after it. Right means: the registry is right about
  the link, the trust store is a set that changes by one operation at a time,
  what is on a hand can be released exactly once, an entity is what was offered.
- *Disappearances* (discovery, reconnection, capabilities). A device is lost,
  found elsewhere, dropped and dialled by two parties at once; a mesh system is
  attached to a node that is connected. Right means: a drop is chased, a chase
  ends in a link, knowledge is never one-sided.
- *Crashes* (storage). Right means: the document is one whole version or the
  next.
- *Shutdown in steps* (node, bridge). What still happens between the awaits of a
  `stop()` must leave nothing behind.

`PROJECT.json` lists each such hazard at its line, with the properties that
would catch it going wrong.

## 2. The modules

| Module | Models | Is built on |
|---|---|---|
| `LinkContract` | what one link promises to those above it: no frames, no timers | - |
| `PeerLink` | two `PeerConnection`s and the socket between them | implements `LinkContract` |
| `Heartbeat` | PING, PONG and their timers at one connected end, in discrete time | - |
| `LinkTable` | `WebSocketTransport` at two devices, any number of links between them | one `LinkContract` per link |
| `Reconnect` | discovery, device registry, connection manager and `stop()` of one node, for one remote device | the transport seen from above |
| `AtomicStore` | what a store of trusted devices promises | - |
| `TrustStore` | pairing service, trust manager, repository, JSON document, files, crashes | implements `AtomicStore` |
| `Session` | keys, envelopes and frames, as terms | - |
| `Capabilities` | capability service and messenger at two nodes, over several connections | `Session` |
| `TransferScheduler` | the scheduler, over any inner transport that answers | - |
| `MeshTransfer` | source runtime, scheduler, mesh transport, link, destination runtime | extends `TransferScheduler`, implements its fair specification |
| `HandVision` | recogniser and state machine of one hand, as operators | - |
| `HandRuntime` | the source's handlers, hands, entities and ledger, as operators | - |
| `Experience` | camera, engine, runtime, bridge, browser | `HandVision`, `HandRuntime` |
| `Plugins` | registry, providers, sinks, clipboard backends, as operators | - |
| `Content` | capture at the source, receive and drop at the destination, two users | `Plugins` |
| `PeerLinkProofs`, `LinkTableProofs`, `TrustStoreProofs`, `CapabilitiesProofs`, `ExperienceProofs`, `ContentProofs` | theorems about the module named, and those it is built on | that module |
| `UpkeepProofs` | theorems about `Heartbeat` and `Reconnect`, the two that watch over links | `Heartbeat`, `Reconnect` |
| `TransferProofs` | theorems about `TransferScheduler` and `MeshTransfer` | `MeshTransfer` |
| `MC*` | instances for TLC | |

The layers meet in three ways. *Upwards*: `PeerLink` is shown to implement
`LinkContract`, and `LinkTable` assumes of a link no more than that contract
(its property `KeepsContracts` says that it does not ask for more either);
`TrustStore` is shown to implement `AtomicStore`.
*Downwards*: `MeshTransfer` extends the scheduler (its actions are conjuncts
of the composed ones, on the same variables) and is shown to implement
`FairSpec` of `TransferScheduler` (property `ServesScheduler`), that is, to
provide the answers that the scheduler's liveness assumes.
*Sideways*: code whose handlers run to their end inside one event (the runtime's
under the engine's `emit`, the plugins' under a transfer) is a module of
operators, and the module above says when they run.

### PeerLink

One variable per field of `PeerConnection` (`state`, `session`,
`localApproved`, `remoteApproved`, `handshakeTimer`), indexed by the two ends;
`authorize` is the promise of the callback; `inbox[s]` is what is on the socket
towards `s`. One action per handler: `StartResponder`/`StartInitiator` are
`start()`; `RefuseHello`/`AcceptHello` the paths through `onHello`;
`AuthorizeApproves`, `...Refuses`, `...Throws`, `...TooLate` the ways
`beginPairing` resumes after its await (the last: the connection has closed in
the meantime); `ReceivePairAccept`, `ReceivePairReject`, `ReceiveMessage`,
`DropFrame` the branches of `routeEnvelope`; `HandshakeTimeout`, `LocalClose`,
`SocketClosed` the callers of `close()`; `LineBreaks` the network. A step that
makes an end come up includes `maybeConnected`, and a step that closes it
includes all of `close()`.

Frames are reduced to their type. Whether a HELLO is well-signed, the versions
agree and the clocks are within the tolerance are initial choices that stay
(they are properties of the two devices). The socket keeps order and loses only
a suffix, when the line breaks: it is TCP. Keys are reduced to "derived or not".

### Heartbeat

Time is discrete; `Tick` is enabled only when no timer is due, so timers fire
when they should but in any order with the PONGs of the same instant. `waits`
is what the peer does: it answers in order, at once, late or never. The timer
closure of `sendPing` reads `this.pingSeq` when it fires, and `clearTimeout`
reaches only the timer armed last: both are modelled as they are.

### LinkTable

`table` is `connections`, `dialing` the guard of `connect`, `phase` and
`consent` the contract of each link at each end. The responder's end of a link
exists when the WebSocket opens. `Registers`, `Supersedes` and
`ClosesDuplicate` are the three paths of `onConnected`; closing is `onClosed`
with its three cases, of which `news` records what is emitted; `Stop` is
`stop()` (its several equal events are recorded as one). `superseded` is a
history of the decisions. Which dials are made is not the transport's choice,
so any device may dial at any time, with an expected id (subject to the guard)
or without (the manual dial).

### TransferScheduler

`queue`, `active`, and per job `attempts`, `cancelled` and the promise of
`send()` are the code's; `running` and `backoff` say who will call back: the
inner transport or the retry timer. `sends`, `ticket` and `clock` are history.
The three ways `inner.send` ends are `InnerAccepts`, `InnerRejects`,
`InnerThrows`, each with the retry or the settlement, the `finally` that frees
the slot, and the `pump()` that fills it. The delay of a backoff is left out: a
timer that is armed may fire.

### MeshTransfer

The scheduler's variables; `source` and `dest`, the state of the entity in the
two entity managers (states that follow each other in one turn are one);
`pending` and its timers; `requests` and `acks`, what is on the socket;
`session`, the number of the current link, which stands for its entity key, and
`sealed[e]`, the key `e` was encrypted with at dispatch. A link that breaks
loses what is on it. A retry sends the same envelope, so the same seal. A sink
may take its time, refuse or throw. Reading an ack by `transferId` alone is
`Awaited`.

### Reconnect

One remote device; records, timers and links of different devices do not touch
each other. `status`, `trusted`, `address` are the registry's record, `seen` is
discovery's `serviceToDevice`, `retry` the attempt the manager's timer is armed
for, `dialing`, `pending`, `up` the transport. An event of the bus is delivered
in the step that emits it, to the registry first and the manager second (the
order of their `attach`); the one handler that awaits, `onFound`, is
`StartLookup` and, later, `FoundResumes` with what it had read (`lookups`).
`home`, where the device really is, moves. `StopDiscovery`, `StopTransport` and
`RemoveAll` are what `stop()` does between its awaits; `AfterDrops` folds the
disconnections that closing the links emits after the manager has stopped. The
delay of a backoff is left out. Attempts without a limit are counted up to
`Cap`, because nothing but the delay depends on them.

### TrustStore

A call (`authorize`, with the `markConnected` and `trust` it ends in, or
`revoke`) is a record whose `pc` is the await it stands at. `read()`, `update()`
and `write()` of `JsonDocument` are each as many actions as they have awaits:
`ReadFile`, `Loads`; `Snapshot`; `Open`, `WriteFile`, `Rename`, `CacheWritten`.
Whether the document is loaded is asked when a call's first read begins: if it
is not, the call will read the file (`got` is `Asked`), also when another call
has loaded it by then; later reads of a call find it loaded.
`temp` are the temporary files; the name is taken freely from as many as there
are calls, since two writes of one millisecond have one name. `Crash` may happen
anywhere, and loses memory and every call. `raced` records that two updates
overlapped (or an update and the first read): what the properties promise is for
executions without that, which is the limit of what the code provides.

### Session and Capabilities

`Session` gives the terms: a key is what it was derived from, so two are equal
exactly when both ends derived them alike. `Capabilities` runs two nodes over one
connection after another. An end is `"keyed"` and later `"up"`, each in its own
turn; messages on the wire are lost when an end goes down. `Attach` and `Detach`
may happen at any time and name each system's document by a number, so an answer
of an earlier system can be told from one of the current. `announced` is
`announcedTo`, and as in the code it is not cleared when a connection ends.
`early` and `heard` are history.

### HandVision, HandRuntime, Experience

A hand's pipeline is `candidate`, `candidateCount` and `active`, with the events
a transition emits; the scores of a frame choose the gesture. The runtime's
handlers are operators on its tables, cut at their awaits: `OnGrab` up to the
provider, `Grabbed` after it; `Dispatch` up to the cipher, `Started` up to the
transport, `Acked` or `FailSource` after it. `Transition` obeys the table of
`entityStateMachine.ts` and refuses the rest. The ledger keeps `LedgerLimit`
entries and makes a new one for an event of an entity it has evicted.
`Experience` calls them from frames: one frame delivers every event it produces,
in order, to every handler. `wire` and `view` are the browser. `CloseBridge`,
`DetachRuntime` and `VisionStopped` are the bridge's `stop()`. `astray` is
history: entities whose hand's gesture ended before they were on it, so that no
event is left to move them.

### Plugins and Content

A provider is what it reads, in order; a sink is what it takes and what it
writes, in order; every read and write is an action. `Register` keeps the list
sorted by priority; `Detect` chooses the clipboard tool; `Put` says that a tool
replaces the selection and that the in-memory backend does not. The users of
both devices copy and select at any time. `mishap` is history: somebody else
wrote, or a tool failed, during the transfer.

## 3. The runs

Deadlock is not checked: a link that closed, a scheduler without jobs, bounded
dials and bounded grabs do stop. Every property of a passing run has a mutant: a
plausible error in the code that TLC finds by that property.

| Run | Instance | Properties | Shows |
|---|---|---|---|
| `link` | both ends, 2 messages each way | `TypeOK` `MutualConsent` `NothingOutrunsItsState` `AcceptsNeverStall` `HalfUpIsTransient` `ImplementsContract` `HandshakeEnds` `CloseReachesPeer` | every interleaving of one link's life, all combinations of valid and invalid peers: consent, order, no lost wake-up; that it implements the contract; that nobody waits for ever and no end keeps a dead link |
| `heartbeat` | 5, 3, 3: the defaults of `config/defaults.ts` in seconds; 6 PINGs | `SilenceIsBounded` `AlarmIsHonest` | misses are honest, a silent peer is noticed within `MaxMissed * Interval + Timeout`, one alarm |
| `table` | one dial in each direction | `SidesAgree` `OneLinkAndTold` `KeepsContracts` `TablesConverge` | a link is up exactly when it is in the table; duplicates are resolved alike at both ends; the bus is told the truth; the dial guard never sticks; both tables settle on the same link or on none |
| `reconnect` | two names of the device and a stranger's, no limit and a limit of 1, two lookups, one handshake at a time | `ChaseIsOrderly` `DropIsChased` `ChaseSucceeds` | the registry shows a device connected exactly while it is; nobody connected is dialled; every drop is chased; a chase ends in a link |
| `reconnect_lost` | the same | `ChaseOnlySeen` | **violated**, finding 6 |
| `trust` | three devices, one with a forged identity; two calls at a time; either policy | `OnlyAccepted` `StoreCoherent` `ImplementsStore` `RevokedStaysAway` | nobody is trusted who was not accepted; memory and disk agree; the file changes by one whole operation at a time, crashes included; a revoked device comes back only by a call that was under way |
| `capabilities` | 3 connections, 5 attachments | `SessionsMatch` `CapabilitiesMeet` | both ends of a connection hold matching keys, every frame opens; two systems know each other's current document, or neither does |
| `scheduler` | 3 jobs, one of them urgent, 1 slot, 1 retry, rejected acks retried | `TypeOK` `SlotsAccounted` `NoIdleSlot` `UrgentFirst` `OnePlace` `RetryBudget` `CancelledNeverSent` `SendSettles` | the accounting of slots, jobs, retries and cancellations; no promise hangs that nobody cancelled, nor one cancelled in flight |
| `scheduler_cancel` | 3 jobs, 1 slot | `CancelSettles` | **violated**, finding 1 |
| `mesh` | 2 entities, 1 slot, 1 retry, 2 sessions, rejected acks retried | `NoFalseSuccess` `EndsAgree` `Bookkeeping` `ServesScheduler` | doubled deliveries and misattributed acks never make a false success; the tables of the pipeline agree; it is a fair scheduler |
| `experience` | one hand, one target, gestures of 2 frames, a ledger of one entry, 2 grabs, 2 messages to the browser | `HandsAndObjects` `LedgerTellsFate` `NoGhostObject` `SentWhenOpened` | what a hand holds it can release exactly once; the ledger is the truth; the browser draws no object that is gone; a send starts only in the step in which the hand stops pinching, be it that it opened or that it was lost |
| `content` | 2 transfers, six pairs of machines, two sets of options, five offers, one act of a user | `DeliveredAsOffered` | what is accepted has arrived, the best that was offered; what is refused could not be written; only an empty offer is not sent |

**Conjunctions.** Some properties are several facts about one question, so that
one run states the question once. `Bookkeeping` is the type invariant,
`AttemptsBoundDrops`, `SlotHasItsTimer`, `ReadyMeansDropping` and
`SendingIsPending`; `OneLinkAndTold` is the type invariant, `OneLink` and
`NewsTellsTable`; `AlarmIsHonest` the type invariant, `OneAlarm` and
`HonestMisses`; `ChaseIsOrderly`, `StoreCoherent`, `HandsAndObjects`,
`SessionsMatch` and `DeliveredAsOffered` each include the type invariant of
their module.

That every `dispatch()` ends is not a property of its own. `ServesScheduler`
makes each behaviour of the pipeline one of the fair scheduler; there
`SendSettles` holds; and by `SendingIsPending` an entity is SENDING exactly as
long as its promise is pending.

**Bounds.** `MaxApp`: two messages are enough for one to be on the wire behind
another; nothing counts messages. Links: the decisions of `onConnected` compare
one new link with one entry, so two links cover each of them. `MaxPing` 6 is one
more round than `MaxMissed` misses after a first success. Jobs: one slot, one job
in it, one waiting and one more urgent; `SlotsAccounted` and `NoIdleSlot` are
proved for any number of slots. `mesh`: acks are matched by transfer, so what can
be confused are the attempts of one transfer, and one retry lets an earlier one be
under way; two entities share the slot; two sessions let a transfer be sealed
with the key of a link that is gone. `reconnect`: two names let the device
move and be found twice; two lookups let a later `onFound` overtake an earlier
one; a limit of 1 and none cover both branches of `GivesUp`. `trust`: all
overlaps the code can make are of two calls, because a call touches the
document in one update; more calls only add more of the same. `capabilities`:
three connections let knowledge of the first outlive the second; five
attachments let each end be attached again in mid-connection. `experience`: two
grabs let one be captured while another is held or on its way, and a ledger of
one entry makes every second entry an eviction. `content`: two transfers are
enough to interfere.
In `content`, transfers are interchangeable (nothing but safety is checked there,
so the symmetry is sound), and states in which both transfers have had a mishap
are not followed: `Delivered` says nothing of such a transfer, and a mishap
stays. `SetupAssumption` and its like name what an instance may choose.

**Fairness.** An event loop handles what its socket delivers (`Handles`); an
armed timer fires (`HandshakeTimeout`, `AckTimeout`, `RetryTimer` and in the
pipeline `Resend`, `AttemptReconnect`); a promise already resolved resumes its reader
(`NotConnected`, `LookupResumes`); a dial ends (`DialFails`: `connectTimeoutMs`).
No user has to answer, no owner to send, no peer or network to behave, with one
exception: `ChaseSucceeds` is about a device that is there, so it assumes, by
strong fairness of `DialOpens` and `HandshakeDone`, that one that is dialled
again and again at its address answers in the end; that it *is* dialled again
and again is what the code must do. `TransferScheduler` alone assumes
that its inner transport answers; `MeshTransfer` discharges that assumption by
the ack timer (`ServesScheduler`). `LinkTable` assumes of each link that consent
by both brings it up or closes it, and that a close reaches the other end:
`AcceptsNeverStall` and `CloseReachesPeer` of `PeerLink`.

## 4. The proofs

All in TLAPS, for every value of the constants: any `MaxApp`; any set of jobs,
priorities in the integers, any number of slots and retries, either retry
policy, any number of sessions; any devices, forged or not, and any number of
overlapping calls; any links, whoever dials them; any names, lookups and limit
of reconnection attempts; any number of connections and attachments; any hands,
scores, devices, grabs and ledger limit; any machines, options, offers and number
of transfers, and any acts of the users. The bounds that keep TLC's state spaces
finite (`MaxApp`, `MaxSession`, `MaxConns`, ...) are such constants, so the
theorems do not depend on them.

The assumptions are the `ASSUME`s of the modules: the two ends, the two devices,
the two nodes differ; numbers are numbers, and scores are; at least one slot, one
frame to enter a gesture, one entry in the ledger; at least one device to trust;
and the marks (`Torn`, `NoFile`, `Nothing`, `Asked`, `NoLink`, `NoSession`, `NoPipe`,
`NoHand`, `Nowhere`) are nothing of the kind they stand for the absence of.
`TransferProofs` needs `MaxSession \in Nat` for the pipeline. Two hypotheses are
more than that, and stand in the theorems that need them: `PongFirst`
(`Timeout < Interval`) in what `UpkeepProofs` says of `Heartbeat`, and
`OneDialEach` in `EndsResolveAlike`. The configuration checks neither; findings 5 and 3 are what
happens without them. The runs `heartbeat` and `table` satisfy them.

**PeerLinkProofs.** `TypeCorrect`: `Spec => []TypeOK`, whose strengthening
`TypeInv` adds that keys and approvals appear in order. The safety invariants
are not inductive: `AcceptsNeverStall` speaks of empty inboxes, and to know
what an empty inbox means one must know what was ever put in it. `LinkInv`
supplies that, for each end `s`: what the frames in `inbox[s]` mean
(`FramesMean`: a PAIR_ACCEPT there means that the peer has approved, a MESSAGE
that it has come up after both approvals; what must be before what); what the approvals mean
(`ApprovalsMean`); and that whatever the peer has done `s` has either absorbed
or has still in its inbox, unless a CLOSE is there too (`Conveyed`). Three
lemmas say how these survive the three things that happen to an inbox
(`Appending`, `Consuming`, `Truncating`), and each handler is one of them.
From `LinkInv` follow `Consented` (`MutualConsent`), `InOrder`
(`NothingOutrunsItsState`), `NoStall` (`AcceptsNeverStall`), `HalfUpResolves`
(`HalfUpIsTransient`), and `Implements`: `Spec => Contract!LinkSpec`, step by
step, where `MutualConsent` is what makes a step to `"connected"` a `ComeUp`.

**TransferProofs, the scheduler.** `SchedulerInv` is the conjunction of the
properties and of what they need of each other, in parts that are predicates of
a queue, a counter and a set rather than of the variables, because `pump`
receives an intermediate queue from its caller: `PumpKeeps` says that if the
parts hold of what a handler hands to `pump`, the invariant holds after it. The
fact that makes the loop of `pump` a single step is `NoIdleSlot` itself: a slot
is free only when the queue is empty, so a handler that adds one job or frees
one slot starts at most one (`OneToStart`). Lemmas on insertion into and removal
from an ordered queue carry `UrgentFirst`. Theorems: `TypeCorrect`,
`CountsItsSlots`, `LeavesNoSlotIdle`, `KeepsTheOrder`, `EveryJobHasItsPlace`,
`KeepsTheBudget`, `CancelIsFinal`.

**TransferProofs, the pipeline.** `PipelineSchedules`: `MeshSpec => Spec`, step
by step: each action of the pipeline is one of the scheduler or leaves it alone.
So the scheduler's theorems hold of the pipeline, and `MeshInv` is stated on top
of `SchedulerInv`. Its parts: `SourceInv`, how slots, ack timers, refused sends
and entity states go together; `DeliveryInv`, a conservation law: what is on the
wire, at a sink or delivered was sent (`OnWire + dropping + delivered <= sends`),
which is why `attempts` bounds what a sink can see; `AckInv`, that a positive
ack on the wire vouches for a delivery, of whichever attempt; `DestInv`, what the
destination's state says of an entity that was sent once. `OnWire` counts in a
sequence; `OnWireAppend` and `OnWireTail` are all that is needed of it. Theorems:
`MeshInvariant`, `CompletedWasDelivered` (`NoFalseSuccess`: an ack of an earlier
attempt may settle a later one, but never without a delivery), `BooksAgree`
(`Bookkeeping`), `SuccessIsAgreed` (`EndsAgree`).

**TrustStoreProofs.** `TrustInv` has two halves. `AcceptedInv` holds always:
`OnlyAccepted` speaks of the file and the memory, and to be inductive it must
follow a device along its whole way there, so it adds what a call has read, what
it will write, what is in every temporary file (where a torn one is no
content), and that a call at its `get` or `update` is of an accepted device.
`SoundInv` and `FreshInv` hold while no updates overlap. `SoundInv` says that
the one call between its snapshot and its end has in hand what its operation
makes of the file (`snap = Mutated`), that its temporary file is torn while it
is written and whole before the rename, and that the file is ahead of the memory
only between rename and cache; it rules out the branches in which a rename meets
another's file. `FreshInv` says that an upsert younger than the last revocation
is of a device with consent or in the store. A crash breaks nothing of either,
since it empties the calls and the memory. `FileStep` (the file changes only by
a rename, and to `Mutated`) then gives `Implements` and `RevokedStays`;
`Accepted` and `Coherent` follow from the invariant.

**LinkTableProofs.** `OneLink` (a link is up exactly when it is its device's
entry) needs `OpenedFirst`, that only a link whose WebSocket has opened is
anything but `"opening"`, so that what `stop()` closes is all there is; and
`UpIsAgreed`, that both devices have consented to a link that is up at either
end. With the types they are `LinkInv`. One statement about a step (`StepSound`)
carries the invariant, the news and the contract of each link together, because
`onConnected` that supersedes changes two links and tells of both. Theorems:
`OneLinkTold` (`OneLinkAndTold`), `ContractsKept` (`KeepsContracts`), and
`EndsResolveAlike` (`SidesAgree` under `OneDialEach`): the smaller id's dial is
then the one that each decision keeps (`KeptIsPrimary`), in whatever order the
links come up.

**UpkeepProofs, the chase.** `ChaseIsOrderly` is inductive as it stands, which was not to
be expected of a module whose lookups write late: what `FoundResumes` writes is
an address and a trust, never a status, and whoever changes the transport's table
tells registry and manager in the same turn. `Orderly` states it; `Chased`
(`DropIsChased`) follows from it for each drop.

**UpkeepProofs, the heartbeat.** Under `PongFirst`, a PONG's timer has fired or been cleared
before the next PING is sent; so the armed timer is the last PING's
(`TimerIsLastPings`), its wait is the wait of that PING, and each miss accounts
for one interval of silence (`MissedIsSilence`). From that follow `HonestAlarm`
(`AlarmIsHonest`), `DeadPeerNoticed` (`SilenceIsBounded`, for any `MaxMissed`:
the product needs its own lemma, `Silence`) and `PunctualPeerIsKept`
(`PunctualPeerKept`, the property that `MCHeartbeatSlow.cfg` violates).

**CapabilitiesProofs.** `CapInv` says of both directions at once: keys are derived
in pairs (`Matched`); every frame on its way opens and carries a document there
has been (`OnWire`); and a system that has announced itself in this connection is
the last thing on the wire or the last thing heard (`Conveyed`), unless the other
end had no system to hear it, which will then announce itself and be answered.
Without `Conveyed` nothing says what an empty wire means. Theorems:
`CapabilitiesInvariant`, `EveryFrameOpens` (`SessionsMatch`),
`KnowledgeIsMutual` (`CapabilitiesMeet`).

**ExperienceProofs.** One frame runs several handlers one after another, each on
the tables the previous one left, so the invariant of the step is not one of the
handlers. `TabInv(r, P, g, x)` is: of any tables `r` between two handlers, of the
hands `P` that the runtime has been told to be pinching, of whether the browser
last heard a grab, and with an entity `x` excepted that a handler has in its
hands. Each handler has a lemma that it keeps `TabInv` for the `P` its event
makes (`Grabs`, `Releases`, `Cancels`, `Loses`, ...); `Gestures` runs them
in the order in which a hand's pipeline emits (`InTurn`), and after the frame `P`
is what the pipelines say (`FrameKeeps`). `Moves` tracks beside it what
becomes of held entities, for `SentWhenOpened`. `ExperienceInv` adds that the
bridge's three stages leave nothing behind (`DetachedInv`: once detached,
whatever is on a hand or on its way there counts as astray) and what is on the
browser's wire (`BrowserInv`). Theorems: `ExperienceInvariant`,
`HandsKeepObjects` (`HandsAndObjects`), `LedgerIsTrue` (`LedgerTellsFate`),
`NoGhost` (`NoGhostObject`), `SentByOpening` (`SentWhenOpened`).

**ContentProofs.** `DeliveredAsOffered` speaks of a transfer that has ended;
what is inductive says of every transfer where it stands. `Shaped` holds of all
of them: a capture asks plugins there are, in the order of their priorities, and an entity
has parts of its own type only (`Asking`, `Holds`). `Faithful` holds of one that nobody disturbed. At the source: what was
read is what the machine holds (`Truthful`), and a provider passed over had
nothing (`Reading`, `Exhausted`), so that the one found is the best there is
(`FoundIsBest`) and an empty capture means an empty offer (`NothingFound`). At
the destination: each format is at its place or still among the writes
(`Placing`, and `Restoring` for the clipboard, where each write may replace the
selection, so that only the last one counts: `LastFormat`), and what was refused
could not be written (`Unwanted`). A turn of another transfer or of a user either
leaves all that alone or makes the transfer a disturbed one (`Unaffected`,
`OthersKept`), and there is a lemma for each action. All of it needs the plugins
in the order of their priorities: `RegisterAll` is a fold, and since induction
over data is out of reach its fixed point is unfolded for as many plugins as the
code ever registers, five (`FoldAgrees`, `FoldExists`, `AllRegistered`).
Theorems: `ContentInvariant`, `ArrivesAsOffered` (`DeliveredAsOffered`). No
assumption on the constants is used.

**Only model-checked.** Liveness, which is outside the prover's reach:
`HandshakeEnds`, `CloseReachesPeer`, `TablesConverge`, `ChaseSucceeds`,
`SendSettles`, and of `ServesScheduler` the fairness (its safety part is
`PipelineSchedules`). Every invariant and every action property of a passing run
is a theorem.

## 5. Findings

Where the code does something else than the repository says. The first and the
sixth are runs that must fail; the others can be seen with the configuration
named, which states the sentence as a property and is violated too. The properties
of the passing runs do not speak of 3, 5, 7, 8, 11 and 12, so the hazards there
are listed in `PROJECT.json` with a note instead of a property, but for the crash
of 7, of which they do.

1. *Cancelling a transfer that waits for its retry leaves it pending for ever*
   (`transfer/scheduler.ts:96`, run `scheduler_cancel`). `docs/PHASE4.md:96`:
   "Cancellation — `cancel(transferId)` drops queued or settles in-flight jobs."
2. *In the default configuration no failure of a mesh transfer is retried*
   (`transfer/scheduler.ts:144`, `MCMeshTransferFailures.cfg`,
   `FailuresRetried`). `docs/PHASE4.md:95`: "failures retried with capped
   exponential backoff". Timeouts and missing links are turned into rejected
   acks, and those are not retried.
3. *Two links dialled by the same device may each be closed by one end*
   (`network/transport.ts:214`, `MCLinkTableRedial.cfg`,
   `SidesAgree`). The comment there says the rule lets both sides agree; it does
   for a link in each direction only, and the guard against parallel dials is
   released before the link is in the table.
4. *A superseded duplicate is announced as a disconnection*
   (`network/transport.ts:214`, `MCLinkTableSilent.cfg`, `SupersededIsSilent`);
   line 255 says "stay silent".
5. *With a PONG timeout longer than the interval a punctual peer is declared
   unreachable* (`network/connection.ts:400`, `MCHeartbeatSlow.cfg`,
   `PunctualPeerKept`); configuration allows it. The theorem `PunctualPeerIsKept`
   shows that comparing the two durations is all that is missing.
6. *A device that nobody announces any more is dialled again and again*
   (`services/connectionManager.ts:67`, run `reconnect_lost`). Line 65: "Only
   chase devices we trust and can still see on the network." A device that was
   lost while connected, or never discovered, is not `lost` when its link drops.
7. *Two updates of one millisecond can leave a document that does not parse*
   (`storage/jsonDocument.ts:42`, `MCTrustStoreTorn.cfg`, `NeverCorrupt`).
   Lines 5-6 promise that a crash never corrupts the store; both updates write
   the same temporary file, and it may be renamed half written.
8. *A hand that is lost while it holds something sends it*
   (`vision/handStateMachine.ts:183`, `MCExperienceCancel.cfg`,
   `CancelSendsNothing`). `docs/PHASE3.md:150-152` says that an open palm or a
   lost hand cancels; leaving the pinch emits `pinch-release` first, and that
   dispatches.
9. *A mesh system attached to a connected node may stay unknown*
   (`mesh/capabilityService.ts:64`, `MCCapabilitiesLate.cfg`,
   `LateSystemsMeet`). The comment says "even if we connected first"; nobody
   announces anything until the next connection.
10. *A sink need not write every format back* (`MCContentFormats.cfg`,
   `EveryFormat`). `docs/PHASE5B.md:60` says it does; a clipboard tool owns the
   selection with the format it was given last.
11. *Of two pairings that overlap, the second may erase the first*
   (`storage/jsonDocument.ts:52`, `MCTrustStoreOverlap.cfg`,
   `UpsertForgetsNobody`). Line 50 calls `update` a "read-modify-write helper that
   keeps the in-memory cache coherent"; the content is taken before three awaits
   and written after them. `ImplementsStore`, `StoreCoherent` and
   `RevokedStaysAway` are promised only as long as no updates have overlapped, so
   they say nothing of this.
12. *An entity may be HELD although nothing pinches*
   (`transfer/transferRuntime.ts:108`, `MCExperienceAstray.cfg`,
   `HeldWhilePinched`). "A pinch is a sustained hold" (line 115), but what the
   provider delivers after the pinch has ended becomes HELD all the same, on the
   hand if it is still there; no event of that pinch is left to move it. These are
   the entities `astray` of `HandsAndObjects` and `NoGhostObject`.

## 6. Not modelled, and the plan

Done, in this order: (1) `PeerLink`, `LinkContract` and their proofs, because
everything rests on a link; (2) `TransferScheduler` and its proofs; (3)
`MeshTransfer`; (4) `Heartbeat`; (5) `LinkTable`; (6) `Reconnect`; (7)
`TrustStore`, `AtomicStore` and the proofs; (8) `HandVision`, `HandRuntime`, `Experience`; (9)
`Session`, `Capabilities`; (10) `Plugins`, `Content`; (11) the proofs about
`Reconnect`, `LinkTable`, `Heartbeat`, `MeshTransfer`, `Capabilities`,
`Experience` and `Content`.

Not in the models, although a neighbour is: the encoding of payloads and the
cache of retired entities; latencies and round-trip metrics; the delay (not the
order) of backoffs; ERROR frames that are only logged; the skew of clocks after
the handshake; identity and preference documents, which are the document of
`TrustStore` with other contents; the ledger at the receiving device.

Hazards known and not claimed, since nothing in the repository says what should
happen: a dial in flight that opens after `stop()` (`network/transport.ts:278`),
a first automatic dial that finds no record or has no retry of its own
(`services/connectionManager.ts:52` and `:55`), a clipboard that changes between
the reads of one snapshot (`content/providers/clipboard.ts:36`), a pairing under
way while its device is revoked (`security/trust.ts:50`, the exception that
`RevokedStaysAway` names), what a refused transfer has already written
(`content/backends/system.ts:105`). The models have
all of these interleavings.

Proofs that could be added: more of the findings turned into theorems, as
`PunctualPeerIsKept` is, that is, under which condition the code does what its
comment says.

Left out for good: cryptography and encodings (AEAD, signatures, JSON), kept only
as "which key" and "valid or not"; mDNS, an external service whose events are
inputs; landmarks, smoothing, detectors' geometry and swipes, which are
floating-point signal processing; HTTP, rendering and the sources of frames;
validation of the configuration, ids, logging, formatting.

## 7. Running it

    tlc -config MCPeerLink.cfg MCPeerLink          # and so for each run
    tlapm PeerLinkProofs.tla                       # and so for each *Proofs module

`MCContent` takes a minute and a half, `MCMeshTransfer` two and a half,
`MCReconnect` about one, `MCTrustStore` half a minute, all others seconds.
