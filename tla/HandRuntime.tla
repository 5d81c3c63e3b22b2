----------------------------- MODULE HandRuntime -----------------------------
(***************************************************************************)
(* The source side of the transfer runtime                                 *)
(* (src/transfer/transferRuntime.ts) with the tables its handlers work on: *)
(* the virtual hands (virtualHand.ts), the entities and their life cycle   *)
(* (entityManager.ts, entityStateMachine.ts) and the ledger of transfers   *)
(* (history.ts).  An event's handlers run to their first await before the  *)
(* next event is emitted, so each is an operator from the tables to the    *)
(* tables; what follows an await is an operator of its own.                *)
(*                                                                         *)
(* The tables r: r.hand, the hands by id; r.ent, the entities in the order *)
(* their grabs began (an entity has no id before its provider answers, and *)
(* is "capturing" until then); r.ledger; r.news, what the bridge forwards  *)
(* of the events emitted; r.astray, history: the entities whose hand's     *)
(* gesture ended before they were on it, was not heard, or was taken over. *)
(***************************************************************************)
EXTENDS Naturals, Sequences

CONSTANTS NoHand,       \* there is no virtual hand of that id
          Device,       \* devices a hand may aim at
          Nowhere,      \* no device
          LedgerLimit   \* entries the ledger keeps (historyLimit)

ASSUME LedgerAssumption == LedgerLimit \in Nat \ {0}
ASSUME NowhereAssumption == Nowhere \notin Device
ASSUME NoHandAssumption == NoHand \notin [entity : Nat, target : Device \cup {Nowhere}]

(* A transition the table does not list is refused and nothing happens. *)
BaseTransitions(s) ==
  CASE s = "CREATED" -> {"SELECTED"}
    [] s = "SELECTED" -> {"LOCKED", "DROPPED"}
    [] s = "LOCKED" -> {"HELD"}
    [] s = "HELD" -> {"VALIDATED", "DROPPED"}
    [] s = "VALIDATED" -> {"ENCRYPTED"}
    [] s = "ENCRYPTED" -> {"QUEUED"}
    [] s = "QUEUED" -> {"SENDING"}
    [] s = "SENDING" -> {"IN_TRANSIT"}
    [] s \in {"IN_TRANSIT", "DROPPED"} -> {"COMPLETED"}
    [] OTHER -> {}
Ended == {"COMPLETED", "FAILED"}
Allowed(s) == BaseTransitions(s) \cup (IF s \in Ended THEN {} ELSE {"FAILED"})

(* transition(): an ended entity is out of the live set, and no handler finds it
   again. *)
Transition(r, e, to) ==
  IF to \in Allowed(r.ent[e].state) THEN [r EXCEPT !.ent[e].state = to] ELSE r
Live(r, e) == r.ent[e].state \notin Ended \cup {"capturing", "nothing"}

Emit(r, event) == [r EXCEPT !.news = Append(@, event)]

-----------------------------------------------------------------------------
(* The ledger: the entry of a transfer, made if there is none, the oldest
   leaving when there are too many; then its outcome. *)
Known(r, e) == \E k \in DOMAIN r.ledger : r.ledger[k].id = e
Upsert(r, e) ==
  IF Known(r, e) THEN r
  ELSE LET longer == Append(r.ledger, [id |-> e, outcome |-> "pending"])
       IN [r EXCEPT !.ledger = IF Len(longer) > LedgerLimit THEN Tail(longer) ELSE longer]
Finish(r, e, outcome) ==
  LET u == Upsert(r, e)
  IN [u EXCEPT !.ledger =
        [k \in DOMAIN @ |-> IF @[k].id = e THEN [@[k] EXCEPT !.outcome = outcome] ELSE @[k]]]

-----------------------------------------------------------------------------
(* The virtual hands; what nothing reads (holding, confidence) is left out. *)
NewHand == [entity |-> 0, target |-> Nowhere]
Ensure(r, h) == IF r.hand[h] = NoHand THEN [r EXCEPT !.hand[h] = NewHand] ELSE r
Attach(r, h, e) == IF r.hand[h] = NoHand THEN r ELSE [r EXCEPT !.hand[h].entity = e]
Detach(r, h) == [r EXCEPT !.hand[h].entity = 0]
Holds(r, h) == r.hand[h] # NoHand /\ r.hand[h].entity # 0

-----------------------------------------------------------------------------
(* onGrab(), up to its await of the provider. *)
OnGrab(r, h) ==
  LET known == Ensure(r, h)
  IN IF Holds(known, h) THEN known
     ELSE [known EXCEPT !.ent = Append(@, [state |-> "capturing", by |-> h])]

(* Its rest: an entity walks to HELD and is put on the hand there is by now,
   whatever that holds. *)
Capturing(r, h) == {e \in DOMAIN r.ent : r.ent[e].state = "capturing" /\ r.ent[e].by = h}
Displaced(r, h) == IF Holds(r, h) THEN {r.hand[h].entity} ELSE {}
Grabbed(r, e) ==
  LET h == r.ent[e].by
      made == [r EXCEPT !.ent[e].state = "CREATED",
                        !.astray = @ \cup Displaced(r, h)]
      held == Transition(Transition(Transition(made, e, "SELECTED"), e, "LOCKED"), e, "HELD")
  IN Emit(Attach(held, h, e), "hand:grab")

DropInPlace(r, e) == Transition(Transition(r, e, "DROPPED"), e, "COMPLETED")
\* mutant: a failure nobody is told of.
FailsQuietly(r, e) == IF Live(r, e) THEN Transition(r, e, "FAILED") ELSE r
FailSource(r, e) == Finish(IF Live(r, e) THEN Transition(r, e, "FAILED") ELSE r, e, "failed")

(* dispatch(), up to its await of the cipher; what is refused, or cannot be
   encoded, fails. *)
Dispatch(r, e, valid) ==
  IF valid THEN Transition(r, e, "VALIDATED") ELSE FailSource(r, e)
Started(r, e) ==
  LET queued == Transition(Transition(r, e, "ENCRYPTED"), e, "QUEUED")
  IN Transition(Upsert(queued, e), e, "SENDING")
Acked(r, e, accepted) ==
  LET there == Transition(r, e, "IN_TRANSIT")
  IN IF accepted THEN Finish(Transition(there, e, "COMPLETED"), e, "completed")
     ELSE FailSource(there, e)

\* mutants: the entity stays on the hand;
\* what is put down is not announced.
StaysOnHand(r, h, aim, bad) ==
  IF Holds(r, h) THEN Dispatch(Emit(r, "hand:release"), r.hand[h].entity, TRUE) ELSE r
PutDownQuietly(r, h, aim, bad) ==
  IF Holds(r, h) THEN DropInPlace(Detach(r, h), r.hand[h].entity) ELSE r
(* aim: what the target resolver answers now; bad: the entities that are not
   valid. *)
OnRelease(r, h, aim, bad) ==
  IF ~Holds(r, h) THEN r
  ELSE LET e == r.hand[h].entity
           target == IF r.hand[h].target # Nowhere THEN r.hand[h].target ELSE aim
           told == Emit(Detach(r, h), "hand:release")
       IN IF ~Live(r, e) THEN Detach(r, h)
          ELSE IF target = Nowhere THEN DropInPlace(told, e)
          ELSE Dispatch(told, e, e \notin bad)

OnAim(r, h, aim) == IF r.hand[h] = NoHand THEN r ELSE [r EXCEPT !.hand[h].target = aim]

OnCancel(r, h) ==
  IF ~Holds(r, h) THEN r
  ELSE LET e == r.hand[h].entity
       IN IF Live(r, e) THEN DropInPlace(Detach(r, h), e) ELSE Detach(r, h)

OnHandLost(r, h) == [OnCancel(r, h) EXCEPT !.hand[h] = NoHand]

(* The handlers attach() subscribes, by event. *)
Handle(r, h, event, aim, bad) ==
  CASE event = "hand-detected" -> Ensure(r, h)
    [] event = "pinch-start" -> OnGrab(r, h)
    [] event = "pinch-release" ->
         OnRelease([r EXCEPT !.astray = @ \cup Capturing(r, h)], h, aim, bad)
    [] event = "point" -> OnAim(r, h, aim)
    [] event = "open-palm" -> OnCancel(r, h)
    [] event = "hand-lost" -> OnHandLost(r, h)
=============================================================================
