----------------------------- MODULE Experience -----------------------------
(***************************************************************************)
(* From the camera to the picture: the vision engine                       *)
(* (src/vision/visionEngine.ts) drives the transfer runtime of PC-A, the   *)
(* bridge (src/bridge/bridgeServer.ts) forwards what happens, and the      *)
(* browser (web/client.ts) draws it.  Timestamps are the camera's: a hand  *)
(* that a frame does not show may be overdue or not.                       *)
(***************************************************************************)
EXTENDS HandVision, HandRuntime

CONSTANTS Handed,    \* handedness a frame may report: "left", "right", "unknown"
          Seen,      \* scores of the static gestures a frame may show
          MaxGrabs,  \* bound: grabs in all
          MaxWire    \* bound: messages on their way to the browser

ASSUME BoundsAssumption == MaxGrabs \in Nat /\ MaxWire \in Nat
ASSUME SeenAssumption == Seen \subseteq [1 .. 4 -> Nat]

VARIABLES
  pipe,      \* pipelines of the engine, by hand
  stage,     \* how far the bridge's stop() has come: "up", "closing", "detached", "stopped"
  rt,        \* the tables of the runtime (HandRuntime)
  browser,   \* a browser is connected to the bridge
  wire,      \* messages on their way to it
  view       \* its "holding": the object is drawn in the hand

vars == <<pipe, stage, rt, browser, wire, view>>
engine == <<pipe, stage>>

Hand == {HandId(x) : x \in Handed}
ASSUME HandAssumption == NoHand \notin Hand
Tracked == {h \in Hand : pipe[h] # NoPipe}
Pinching(h) == h \in Tracked /\ pipe[h].active = "pinch"
Events == {"hand:grab", "hand:release", "gesture:hand-lost"}
States == {"capturing", "nothing", "HELD", "VALIDATED", "SENDING"} \cup Ended

TypeOK ==
  /\ \A h \in Hand : pipe[h] = NoPipe \/ pipe[h] \in Pipeline
  /\ stage \in {"up", "closing", "detached", "stopped"}
  /\ \A h \in Hand : \/ rt.hand[h] = NoHand
                     \/ rt.hand[h] \in [entity : 0 .. Len(rt.ent), target : Device \cup {Nowhere}]
  /\ \A e \in DOMAIN rt.ent : rt.ent[e] \in [state : States, by : Hand]
  /\ Len(rt.ent) <= MaxGrabs /\ Len(rt.ledger) <= LedgerLimit
  /\ \A k \in DOMAIN rt.ledger : /\ rt.ledger[k].id \in DOMAIN rt.ent
                                 /\ rt.ledger[k].outcome \in {"pending", "completed", "failed"}
  /\ rt.astray \subseteq DOMAIN rt.ent /\ rt.news = <<>>
  /\ browser \in BOOLEAN /\ view \in BOOLEAN
  /\ Len(wire) <= MaxWire /\ \A k \in DOMAIN wire : wire[k] \in Events

(* start(): the vision of PC-A runs before the mesh is attached and the bridge
   listens. *)
Init ==
  /\ pipe = [h \in Hand |-> NoPipe] /\ stage = "up"
  /\ rt = [hand |-> [h \in Hand |-> NoHand], ent |-> <<>>, ledger |-> <<>>,
           news |-> <<>>, astray |-> {}]
  /\ browser = FALSE /\ wire = <<>> /\ view = FALSE

-----------------------------------------------------------------------------
(* broadcast(): to an open browser, in order. *)
Broadcast(r) ==
  /\ rt' = [r EXCEPT !.news = <<>>]
  /\ wire' = IF browser THEN wire \o r.news ELSE wire
  /\ Len(r.ent) <= MaxGrabs /\ Len(wire') <= MaxWire
  /\ UNCHANGED <<browser, view>>

Attached == {"up", "closing"}

(* forward(): an event on the bus reaches the runtime while that is attached, and
   the bridge. *)
Forward(r, h, event, aim, bad) ==
  LET handled == IF stage \in Attached THEN Handle(r, h, event, aim, bad) ELSE r
  IN IF event = "hand-lost" THEN Emit(handled, "gesture:hand-lost") ELSE handled
ForwardAll(r, h, events, aim, bad) ==
  LET upTo[k \in 0 .. Len(events)] ==
        IF k = 0 THEN r ELSE Forward(upTo[k - 1], h, events[k], aim, bad)
  IN upTo[Len(events)]
Lose(r, h, aim, bad) ==
  IF h = NoHand THEN r ELSE ForwardAll(r, h, LostEvents(pipe[h]), aim, bad)

(* What the handlers ask while they run: where the hand aims, which entities
   are not valid. *)
Aims == Device \cup {Nowhere}
Invalid == SUBSET {e \in DOMAIN rt.ent : rt.ent[e].state = "HELD"}

(* handleFrame(): the hand shown, if any (the browser tracks one), then those
   overdue, here one at most: the next frame may come at once. *)
PipeOf(h) == IF pipe[h] = NoPipe THEN NewPipe ELSE pipe[h]
Detected(h) == IF pipe[h] = NoPipe THEN <<"hand-detected">> ELSE <<>>
Frame(h, g, lost, aim, bad) ==
  /\ stage \in Attached /\ h # lost
  /\ pipe' = [i \in Hand |-> IF i = h THEN Updated(PipeOf(h), g)
                             ELSE IF i = lost THEN NoPipe ELSE pipe[i]]
  /\ Broadcast(Lose(ForwardAll(rt, h, Detected(h) \o GestureEvents(PipeOf(h), g), aim, bad),
                    lost, aim, bad))
  /\ UNCHANGED stage

EmptyFrame(lost, aim, bad) ==
  /\ stage \in Attached
  /\ pipe' = [pipe EXCEPT ![lost] = NoPipe]
  /\ Broadcast(Lose(rt, lost, aim, bad))
  /\ UNCHANGED stage

Shown == {<<HandId(x), Classify(s)>> : x \in Handed, s \in Seen}
Watch == \E f \in Shown, lost \in Tracked \cup {NoHand}, aim \in Aims, bad \in Invalid :
           Frame(f[1], f[2], lost, aim, bad)
Blank == \E lost \in Tracked, aim \in Aims, bad \in Invalid : EmptyFrame(lost, aim, bad)

(* stop() of the bridge: the browsers are sent away; when the servers are closed
   the runtime is detached and the engine told to stop, which at last gives up
   the hands it tracks; nobody hears of it. *)
CloseBridge ==
  /\ stage = "up" /\ stage' = "closing"
  /\ browser' = FALSE /\ wire' = <<>> /\ view' = FALSE
  /\ UNCHANGED <<pipe, rt>>
DetachRuntime ==
  /\ stage = "closing" /\ stage' = "detached"
  /\ rt' = [rt EXCEPT !.astray =
              @ \cup {e \in DOMAIN rt.ent : rt.ent[e].state \in {"capturing", "HELD"}}]
  /\ UNCHANGED <<pipe, browser, wire, view>>
VisionStopped ==
  /\ stage = "detached" /\ stage' = "stopped"
  /\ pipe' = [h \in Hand |-> NoPipe]
  /\ UNCHANGED <<rt, browser, wire, view>>

-----------------------------------------------------------------------------
(* What the handlers were waiting for. *)
In(e, state) == e \in DOMAIN rt.ent /\ rt.ent[e].state = state

(* resolveProvider(): the first provider that gives a draft, or none. *)
Provided(e) == In(e, "capturing") /\ Broadcast(Grabbed(rt, e)) /\ UNCHANGED engine
Declined(e) ==
  /\ In(e, "capturing")
  /\ Broadcast([rt EXCEPT !.ent[e].state = "nothing"]) /\ UNCHANGED engine

Encrypted(e) == In(e, "VALIDATED") /\ Broadcast(Started(rt, e)) /\ UNCHANGED engine
EncryptFails(e) == In(e, "VALIDATED") /\ Broadcast(FailSource(rt, e)) /\ UNCHANGED engine

(* The scheduler tries again, and settles the send. *)
Retried(e) ==
  /\ In(e, "SENDING") /\ ~Known(rt, e)
  /\ Broadcast(Upsert(rt, e)) /\ UNCHANGED engine
SendAnswered(e) ==
  /\ In(e, "SENDING")
  /\ \E accepted \in BOOLEAN : Broadcast(Acked(rt, e, accepted))
  /\ UNCHANGED engine
SendFails(e) == In(e, "SENDING") /\ Broadcast(FailSource(rt, e)) /\ UNCHANGED engine

-----------------------------------------------------------------------------
(* The browser: it starts with nothing drawn, and learns what is forwarded from
   then on. *)
BrowserOpens ==
  /\ ~browser /\ stage = "up" /\ browser' = TRUE /\ view' = FALSE
  /\ UNCHANGED <<engine, rt, wire>>
BrowserLeaves ==
  /\ browser /\ browser' = FALSE /\ wire' = <<>> /\ view' = FALSE
  /\ UNCHANGED <<engine, rt>>
OnEvent ==
  /\ wire # <<>> /\ wire' = Tail(wire)
  /\ view' = (Head(wire) = "hand:grab")
  /\ UNCHANGED <<engine, rt, browser>>

Resumes(e) == Encrypted(e) \/ EncryptFails(e)
Settles(e) == SendAnswered(e) \/ SendFails(e)
Answers(e) == Provided(e) \/ Declined(e) \/ Retried(e)

Next ==
  \/ Watch \/ Blank
  \/ CloseBridge \/ DetachRuntime \/ VisionStopped
  \/ \E e \in 1 .. MaxGrabs : Answers(e) \/ Resumes(e) \/ Settles(e)
  \/ BrowserOpens \/ BrowserLeaves \/ OnEvent

Spec == Init /\ [][Next]_vars

-----------------------------------------------------------------------------
(* An entity is held by the hand that grabbed it, which is pinching; and while
   a provider is asked the hand pinches.  The exceptions are those gone astray:
   the hand opened or was lost during the capture, the runtime was detached, or
   such a one took its place on the hand. *)
HeldIsPinched ==
  \A e \in DOMAIN rt.ent \ rt.astray : LET h == rt.ent[e].by IN
    /\ rt.ent[e].state \in {"HELD", "capturing"} => Pinching(h)
    /\ rt.ent[e].state = "HELD" => rt.hand[h] # NoHand /\ rt.hand[h].entity = e

(* What is on a hand is HELD, and by that hand: an entity on its way, put down
   or failed is on no hand, so no release can dispatch it a second time. *)
OnHandIsHeld ==
  \A h \in Hand : Holds(rt, h) =>
    /\ rt.ent[rt.hand[h].entity].state = "HELD" /\ rt.ent[rt.hand[h].entity].by = h

(* Hands and objects agree, whatever awaits and closures interleave. *)
HandsAndObjects == TypeOK /\ HeldIsPinched /\ OnHandIsHeld

(* An entry of the ledger tells the fate of its entity: pending exactly while
   the entity is on its way, else how it ended, evictions and late entries
   included. *)
LedgerTellsFate ==
  \A k \in DOMAIN rt.ledger :
    rt.ent[rt.ledger[k].id].state =
      CASE rt.ledger[k].outcome = "pending" -> "SENDING"
        [] rt.ledger[k].outcome = "completed" -> "COMPLETED"
        [] rt.ledger[k].outcome = "failed" -> "FAILED"

(* A browser that has heard all draws the object only while a hand holds one,
   unless an entity went astray. *)
NoGhostObject ==
  view /\ wire = <<>> /\ rt.astray = {} => \E h \in Hand : Holds(rt, h)

(* An entity starts on its way only in the step in which its hand stops
   pinching. *)
OpenedToSend(e) ==
  In(e, "HELD") /\ rt'.ent[e].state \in {"VALIDATED", "FAILED"} =>
    Pinching(rt.ent[e].by) /\ ~Pinching(rt.ent[e].by)'
SentWhenOpened == [][\A e \in DOMAIN rt.ent : OpenedToSend(e)]_vars

(* "a pinch is a sustained hold" (transferRuntime.ts:115): as long as the
   runtime hears the gestures, an entity is HELD only while its hand pinches. *)
HeldWhilePinched ==
  stage \in Attached => \A e \in DOMAIN rt.ent : In(e, "HELD") => Pinching(rt.ent[e].by)

(* "open-palm/hand-lost cancels" (docs/PHASE3.md): a hand that opens to the palm
   or is lost sends nothing. *)
Cancelling(h) == h \notin Tracked \/ pipe[h].active = "open-palm"
CancelSendsNothing ==
  [][\A e \in DOMAIN rt.ent :
       In(e, "HELD") /\ rt'.ent[e].state \in {"VALIDATED", "FAILED"}
         => ~Cancelling(rt.ent[e].by)']_vars
=============================================================================
