--------------------------- MODULE ExperienceProofs ---------------------------
(***************************************************************************)
(* What hands, objects, ledger and browser keep of each other, for any     *)
(* hands, scores and devices, any ledger and any number of grabs.          *)
(*                                                                         *)
(* A frame runs several handlers one after another, so the invariant is    *)
(* stated on the tables r between two of them and on the hands P that the  *)
(* runtime has been told to be pinching: each handler keeps it for the P   *)
(* that its event makes, and after a frame P is what the pipelines say.    *)
(***************************************************************************)
EXTENDS Experience, SequenceTheorems, TLAPS

(* What tables are, in the middle of a handler too. *)
AnyState == States \cup {"CREATED", "SELECTED", "LOCKED", "DROPPED", "ENCRYPTED",
                         "QUEUED", "IN_TRANSIT"}
Entity == [state : AnyState, by : Hand]
Entry == [id : Nat, outcome : {"pending", "completed", "failed"}]
VirtualHand == [entity : Nat, target : Device \cup {Nowhere}]
Tables == [hand : [Hand -> VirtualHand \cup {NoHand}], ent : Seq(Entity),
           ledger : Seq(Entry), news : Seq(Events), astray : SUBSET Nat]

Well(r) ==
  /\ r \in Tables
  /\ \A e \in DOMAIN r.ent : r.ent[e].state \in States
  /\ \A h \in Hand : r.hand[h] # NoHand => r.hand[h].entity <= Len(r.ent)
  /\ r.astray \subseteq DOMAIN r.ent

(* The ledger l tells the fates of the entities en, but perhaps not that of e,
   which has just moved on. *)
Fate(outcome) ==
  CASE outcome = "pending" -> "SENDING"
    [] outcome = "completed" -> "COMPLETED"
    [] outcome = "failed" -> "FAILED"
Tells(l, en, e) ==
  /\ l \in Seq(Entry) /\ Len(l) <= LedgerLimit
  /\ \A k \in DOMAIN l : /\ l[k].id \in DOMAIN en
                         /\ l[k].id # e => en[l[k].id].state = Fate(l[k].outcome)

(* The runtime has a hand for each that pinches. *)
Present(r, P) == P \subseteq Hand /\ \A h \in P : r.hand[h] # NoHand

(* An entity that did not go astray, other than x, is captured and held by a
   hand that pinches. *)
Pinched(r, P, x) ==
  \A e \in DOMAIN r.ent \ (r.astray \cup {x}) :
    /\ r.ent[e].state \in {"HELD", "capturing"} => r.ent[e].by \in P
    /\ r.ent[e].state = "HELD" =>
         /\ r.hand[r.ent[e].by] # NoHand
         /\ r.hand[r.ent[e].by].entity = e

OnHand(r) ==
  \A h \in Hand : Holds(r, h) =>
    /\ r.ent[r.hand[h].entity].state = "HELD"
    /\ r.ent[r.hand[h].entity].by = h

(* If what the browser will have heard last is a grab, something is held.  g
   says whether the last it heard before r.news was one. *)
LastIsGrab(news, g) == IF news = <<>> THEN g ELSE news[Len(news)] = "hand:grab"
Drawn(r, g) ==
  r.astray = {} /\ LastIsGrab(r.news, g) => \E h \in Hand : Holds(r, h)

(* The invariant of the tables. *)
TabInv(r, P, g, x) ==
  /\ Well(r)
  /\ Tells(r.ledger, r.ent, 0)
  /\ Present(r, P)
  /\ Pinched(r, P, x)
  /\ OnHand(r)
  /\ Drawn(r, g)

(* What becomes of the entities while handlers run: one that is HELD may be put
   down, and is only sent off if its hand is in R. *)
Moves(r, q, R) ==
  /\ Len(r.ent) <= Len(q.ent)
  /\ \A e \in DOMAIN r.ent :
       /\ q.ent[e].by = r.ent[e].by
       /\ \/ q.ent[e].state = r.ent[e].state
          \/ /\ r.ent[e].state = "HELD"
             /\ \/ q.ent[e].state = "COMPLETED"
                \/ q.ent[e].state \in {"VALIDATED", "FAILED"} /\ r.ent[e].by \in R

(* The inductive invariant. *)
PinchingHands == {h \in Hand : Pinching(h)}
Told == LastIsGrab(wire, view)

EngineInv ==
  /\ pipe \in [Hand -> Pipeline \cup {NoPipe}]
  /\ stage \in {"up", "closing", "detached", "stopped"}

(* Once the runtime is detached no event reaches it, and whatever is on a hand
   or on its way there counts as astray. *)
DetachedInv ==
  stage \notin Attached =>
    \A e \in DOMAIN rt.ent : rt.ent[e].state \in {"HELD", "capturing"} => e \in rt.astray

BrowserInv ==
  /\ browser \in BOOLEAN /\ view \in BOOLEAN
  /\ wire \in Seq(Events) /\ Len(wire) <= MaxWire
  /\ ~browser => wire = <<>> /\ ~view

ExperienceInv ==
  /\ TabInv(rt, PinchingHands, Told, 0)
  /\ rt.news = <<>> /\ Len(rt.ent) <= MaxGrabs
  /\ EngineInv /\ DetachedInv /\ BrowserInv

-----------------------------------------------------------------------------
(* The tables: an entity moves from state to state. *)

At(r, e, s) == [r EXCEPT !.ent[e].state = s]

(* q is r with e in state s, as far as entities go. *)
Only(r, q, e, s) ==
  /\ Len(q.ent) = Len(r.ent)
  /\ \A x \in DOMAIN r.ent :
       q.ent[x] = IF x = e THEN [state |-> s, by |-> r.ent[x].by] ELSE r.ent[x]

LEMMA AtFields ==
  ASSUME NEW r \in Tables, NEW e \in DOMAIN r.ent, NEW s \in AnyState
  PROVE  /\ At(r, e, s) \in Tables
         /\ At(r, e, s).hand = r.hand /\ At(r, e, s).ledger = r.ledger
         /\ At(r, e, s).news = r.news /\ At(r, e, s).astray = r.astray
         /\ At(r, e, s).ent \in Seq(Entity) /\ DOMAIN At(r, e, s).ent = DOMAIN r.ent
         /\ Only(r, At(r, e, s), e, s)
<1> DEFINE en == [r.ent EXCEPT ![e].state = s]
<1>1. r.ent \in Seq(Entity) /\ DOMAIN r.ent = 1..Len(r.ent) /\ Len(r.ent) \in Nat
  BY DEF Tables
<1>2. \A x \in 1..Len(r.ent) : r.ent[x] \in Entity
  BY <1>1
<1>3. [r.ent[e] EXCEPT !.state = s] = [state |-> s, by |-> r.ent[e].by]
  BY <1>1, <1>2 DEF Entity
<1>4. [state |-> s, by |-> r.ent[e].by] \in Entity
  BY <1>1, <1>2 DEF Entity
<1>5. en = [r.ent EXCEPT ![e] = [state |-> s, by |-> r.ent[e].by]]
  BY <1>3
<1>6. /\ en \in [1..Len(r.ent) -> Entity]
      /\ \A x \in DOMAIN r.ent :
           en[x] = IF x = e THEN [state |-> s, by |-> r.ent[x].by] ELSE r.ent[x]
  BY <1>1, <1>2, <1>4, <1>5
<1>7. en \in Seq(Entity) /\ Len(en) = Len(r.ent) /\ DOMAIN en = DOMAIN r.ent
  BY <1>1, <1>6
<1> HIDE DEF en
<1>8. At(r, e, s) = [r EXCEPT !.ent = en]
  BY DEF At, en
<1>9. /\ [r EXCEPT !.ent = en] \in Tables
      /\ [r EXCEPT !.ent = en].ent = en
      /\ [r EXCEPT !.ent = en].hand = r.hand /\ [r EXCEPT !.ent = en].ledger = r.ledger
      /\ [r EXCEPT !.ent = en].news = r.news /\ [r EXCEPT !.ent = en].astray = r.astray
  BY <1>7 DEF Tables
<1> QED BY <1>6, <1>7, <1>8, <1>9 DEF Only

LEMMA AtTwice ==
  ASSUME NEW r \in Tables, NEW e \in DOMAIN r.ent, NEW s \in AnyState, NEW u \in AnyState
  PROVE  At(At(r, e, s), e, u) = At(r, e, u)
BY DEF At, Tables

LEMMA Steps ==
  ASSUME NEW r \in Tables, NEW e \in DOMAIN r.ent, NEW u \in AnyState,
         u \in Allowed(r.ent[e].state)
  PROVE  Transition(r, e, u) = At(r, e, u)
BY DEF Transition, At

LEMMA Walks ==
  ASSUME NEW r \in Tables, NEW e \in DOMAIN r.ent, NEW s \in AnyState, NEW u \in AnyState,
         u \in Allowed(s)
  PROVE  Transition(At(r, e, s), e, u) = At(r, e, u)
<1> DEFINE q == At(r, e, s)
<1>1. q \in Tables /\ DOMAIN q.ent = DOMAIN r.ent /\ Only(r, q, e, s)
  BY AtFields
<1>2. At(q, e, u) = At(r, e, u)
  BY AtTwice
<1> HIDE DEF q
<1>3. q.ent[e] = [state |-> s, by |-> r.ent[e].by]
  BY <1>1 DEF Only
<1>4. u \in Allowed(q.ent[e].state)
  BY <1>3
<1>5. Transition(q, e, u) = At(q, e, u)
  BY <1>1, <1>4, Steps
<1> QED BY <1>2, <1>5 DEF q

LEMMA TransitionTable ==
  /\ "SELECTED" \in Allowed("CREATED") /\ "LOCKED" \in Allowed("SELECTED")
  /\ "HELD" \in Allowed("LOCKED")
  /\ "VALIDATED" \in Allowed("HELD") /\ "DROPPED" \in Allowed("HELD")
  /\ "FAILED" \in Allowed("HELD")
  /\ "COMPLETED" \in Allowed("DROPPED")
  /\ "ENCRYPTED" \in Allowed("VALIDATED") /\ "FAILED" \in Allowed("VALIDATED")
  /\ "QUEUED" \in Allowed("ENCRYPTED") /\ "SENDING" \in Allowed("QUEUED")
  /\ "IN_TRANSIT" \in Allowed("SENDING") /\ "FAILED" \in Allowed("SENDING")
  /\ "COMPLETED" \in Allowed("IN_TRANSIT") /\ "FAILED" \in Allowed("IN_TRANSIT")
BY DEF Allowed, BaseTransitions, Ended

LEMMA StateNames ==
  {"capturing", "nothing", "HELD", "VALIDATED", "SENDING", "COMPLETED", "FAILED", "CREATED",
   "SELECTED", "LOCKED", "DROPPED", "ENCRYPTED", "QUEUED", "IN_TRANSIT"} = AnyState
BY DEF AnyState, States, Ended

-----------------------------------------------------------------------------
(* The ledger. *)

OnlyLedger(r, q) ==
  /\ q \in Tables
  /\ q.hand = r.hand /\ q.ent = r.ent /\ q.news = r.news /\ q.astray = r.astray

LEMMA Domains ==
  ASSUME NEW r \in Tables
  PROVE  /\ Len(r.ent) \in Nat /\ DOMAIN r.ent = 1..Len(r.ent) /\ r.ent \in Seq(Entity)
         /\ \A e \in DOMAIN r.ent : e \in Nat /\ e # 0
         /\ \A e \in DOMAIN r.ent : r.ent[e] \in Entity /\ r.ent[e].by \in Hand
         /\ r.ledger \in Seq(Entry) /\ r.news \in Seq(Events) /\ r.astray \subseteq Nat
<1>1. r.ent \in Seq(Entity) /\ r.ledger \in Seq(Entry) /\ r.news \in Seq(Events)
      /\ r.astray \subseteq Nat
  BY DEF Tables
<1>2. Len(r.ent) \in Nat /\ DOMAIN r.ent = 1..Len(r.ent)
  BY <1>1
<1>3. \A e \in DOMAIN r.ent : r.ent[e] \in Entity
  BY <1>1, <1>2
<1> QED BY <1>1, <1>2, <1>3 DEF Entity

LEMMA Upserted ==
  ASSUME NEW r \in Tables, NEW e \in DOMAIN r.ent, NEW x, Tells(r.ledger, r.ent, x),
         x = e \/ r.ent[e].state = "SENDING"
  PROVE  OnlyLedger(r, Upsert(r, e)) /\ Tells(Upsert(r, e).ledger, r.ent, x)
<1> DEFINE new == [id |-> e, outcome |-> "pending"]
           longer == Append(r.ledger, new)
           l == IF Len(longer) > LedgerLimit THEN Tail(longer) ELSE longer
<1>1. CASE Known(r, e)
  BY <1>1 DEF Upsert, OnlyLedger
<1>2. CASE ~Known(r, e)
  <2>1. /\ new \in Entry /\ new.id = e /\ new.outcome = "pending"
        /\ r.ledger \in Seq(Entry) /\ Len(r.ledger) \in Nat /\ Len(r.ledger) <= LedgerLimit
        /\ LedgerLimit \in Nat \ {0}
    BY Domains, LedgerAssumption DEF Entry, Tells
  <2> HIDE DEF new
  <2>2. /\ longer \in Seq(Entry) /\ Len(longer) = Len(r.ledger) + 1
        /\ \A k \in 1..Len(r.ledger) : longer[k] = r.ledger[k]
        /\ longer[Len(r.ledger) + 1] = new
    BY <2>1
  <2> HIDE DEF longer
  <2>3. \A k \in DOMAIN longer :
          longer[k] = new \/ \E j \in DOMAIN r.ledger : longer[k] = r.ledger[j]
    BY <2>1, <2>2
  <2>4. /\ l \in Seq(Entry) /\ Len(l) <= LedgerLimit
        /\ \A k \in DOMAIN l : \E j \in DOMAIN longer : l[k] = longer[j]
    <3>1. CASE Len(longer) > LedgerLimit
      <4>1. longer # <<>> /\ Len(longer) \in Nat
        BY <2>1, <2>2
      <4>2. /\ Tail(longer) \in Seq(Entry) /\ Len(Tail(longer)) = Len(longer) - 1
            /\ \A k \in 1..Len(Tail(longer)) : Tail(longer)[k] = longer[k + 1]
        BY <2>2, <4>1
      <4> QED BY <2>1, <2>2, <3>1, <4>2
    <3>2. CASE ~(Len(longer) > LedgerLimit)
      BY <2>1, <2>2, <3>2
    <3> QED BY <3>1, <3>2
  <2> HIDE DEF l
  <2>5. Upsert(r, e) = [r EXCEPT !.ledger = l]
    BY <1>2 DEF Upsert, l, longer, new
  <2>6. OnlyLedger(r, [r EXCEPT !.ledger = l]) /\ [r EXCEPT !.ledger = l].ledger = l
    BY <2>4 DEF OnlyLedger, Tables
  <2>7. \A k \in DOMAIN l : l[k] = new \/ \E j \in DOMAIN r.ledger : l[k] = r.ledger[j]
    BY <2>3, <2>4
  <2>8. ASSUME NEW k \in DOMAIN l
        PROVE  /\ l[k].id \in DOMAIN r.ent
               /\ l[k].id # x => r.ent[l[k].id].state = Fate(l[k].outcome)
    <3>1. CASE l[k] = new
      BY <2>1, <3>1 DEF Fate
    <3>2. ASSUME NEW j \in DOMAIN r.ledger, l[k] = r.ledger[j]
          PROVE  /\ l[k].id \in DOMAIN r.ent
                 /\ l[k].id # x => r.ent[l[k].id].state = Fate(l[k].outcome)
      BY <3>2 DEF Tells
    <3> QED BY <2>7, <3>1, <3>2
  <2>9. Tells(l, r.ent, x)
    BY <2>4, <2>8 DEF Tells
  <2> QED BY <2>5, <2>6, <2>9
<1> QED BY <1>1, <1>2

LEMMA Finished ==
  ASSUME NEW r \in Tables, NEW e \in DOMAIN r.ent, Tells(r.ledger, r.ent, e),
         NEW o \in {"completed", "failed"}, r.ent[e].state = Fate(o)
  PROVE  OnlyLedger(r, Finish(r, e, o)) /\ Tells(Finish(r, e, o).ledger, r.ent, 0)
<1> DEFINE u == Upsert(r, e)
           l == [k \in DOMAIN u.ledger |->
                   IF u.ledger[k].id = e THEN [u.ledger[k] EXCEPT !.outcome = o]
                   ELSE u.ledger[k]]
<1>1. OnlyLedger(r, u) /\ Tells(u.ledger, r.ent, e)
  BY Upserted
<1> HIDE DEF u
<1>2. Finish(r, e, o) = [u EXCEPT !.ledger = l]
  BY DEF Finish, u
<1>3. /\ u.ledger \in Seq(Entry) /\ DOMAIN u.ledger = 1..Len(u.ledger)
      /\ Len(u.ledger) \in Nat /\ Len(u.ledger) <= LedgerLimit
      /\ \A k \in DOMAIN u.ledger : u.ledger[k] \in Entry
  BY <1>1 DEF Tells
<1>4. ASSUME NEW k \in DOMAIN u.ledger
      PROVE  /\ l[k] \in Entry /\ l[k].id = u.ledger[k].id
             /\ l[k].outcome = IF u.ledger[k].id = e THEN o ELSE u.ledger[k].outcome
  BY <1>3 DEF Entry
<1>5. /\ l \in [1..Len(u.ledger) -> Entry]
  BY <1>3, <1>4
<1>6. l \in Seq(Entry) /\ Len(l) = Len(u.ledger) /\ DOMAIN l = DOMAIN u.ledger
  BY <1>3, <1>5
<1> HIDE DEF l
<1>7. ASSUME NEW k \in DOMAIN l
      PROVE  l[k].id \in DOMAIN r.ent /\ r.ent[l[k].id].state = Fate(l[k].outcome)
  <2>1. CASE u.ledger[k].id = e
    BY <1>4, <1>6, <2>1
  <2>2. CASE u.ledger[k].id # e
    BY <1>1, <1>4, <1>6, <2>2 DEF Tells
  <2> QED BY <2>1, <2>2
<1>8. Tells(l, r.ent, 0)
  BY <1>3, <1>6, <1>7 DEF Tells
<1>9. OnlyLedger(r, [u EXCEPT !.ledger = l]) /\ [u EXCEPT !.ledger = l].ledger = l
  BY <1>1, <1>6 DEF OnlyLedger, Tables
<1> QED BY <1>2, <1>8, <1>9

-----------------------------------------------------------------------------
(* The hands. *)

SetHand(r, h, v) == [r EXCEPT !.hand[h] = v]

(* q is r with v for hand h, as far as hands go. *)
OnlyHand(r, q, h, v) == \A i \in Hand : q.hand[i] = IF i = h THEN v ELSE r.hand[i]

LEMMA SetHandFields ==
  ASSUME NEW r \in Tables, NEW h \in Hand, NEW v \in VirtualHand \cup {NoHand}
  PROVE  /\ SetHand(r, h, v) \in Tables /\ OnlyHand(r, SetHand(r, h, v), h, v)
         /\ SetHand(r, h, v).ent = r.ent /\ SetHand(r, h, v).ledger = r.ledger
         /\ SetHand(r, h, v).news = r.news /\ SetHand(r, h, v).astray = r.astray
<1> DEFINE hands == [r.hand EXCEPT ![h] = v]
<1>1. r.hand \in [Hand -> VirtualHand \cup {NoHand}]
  BY DEF Tables
<1>2. /\ hands \in [Hand -> VirtualHand \cup {NoHand}]
      /\ \A i \in Hand : hands[i] = IF i = h THEN v ELSE r.hand[i]
  BY <1>1
<1> HIDE DEF hands
<1>3. SetHand(r, h, v) = [r EXCEPT !.hand = hands]
  BY DEF SetHand, hands
<1>4. /\ [r EXCEPT !.hand = hands] \in Tables /\ [r EXCEPT !.hand = hands].hand = hands
      /\ [r EXCEPT !.hand = hands].ent = r.ent /\ [r EXCEPT !.hand = hands].ledger = r.ledger
      /\ [r EXCEPT !.hand = hands].news = r.news
      /\ [r EXCEPT !.hand = hands].astray = r.astray
  BY <1>2 DEF Tables
<1> QED BY <1>2, <1>3, <1>4 DEF OnlyHand

LEMMA HandValues ==
  ASSUME NEW r \in Tables, NEW h \in Hand
  PROVE  /\ r.hand[h] \in VirtualHand \cup {NoHand}
         /\ NoHand \notin VirtualHand /\ NewHand \in VirtualHand /\ NewHand.entity = 0
         /\ r.hand[h] # NoHand => /\ r.hand[h].entity \in Nat
                                  /\ r.hand[h].target \in Device \cup {Nowhere}
<1>1. r.hand[h] \in VirtualHand \cup {NoHand}
  BY DEF Tables
<1>2. NoHand \notin VirtualHand
  BY NoHandAssumption DEF VirtualHand
<1>3. NewHand \in VirtualHand /\ NewHand.entity = 0
  BY DEF NewHand, VirtualHand
<1> QED BY <1>1, <1>2, <1>3 DEF VirtualHand

LEMMA Detached ==
  ASSUME NEW r \in Tables, NEW h \in Hand, r.hand[h] # NoHand
  PROVE  /\ Detach(r, h) = SetHand(r, h, [entity |-> 0, target |-> r.hand[h].target])
         /\ [entity |-> 0, target |-> r.hand[h].target] \in VirtualHand
<1>1. r.hand[h] \in VirtualHand
  BY HandValues
<1>2. [r.hand[h] EXCEPT !.entity = 0] = [entity |-> 0, target |-> r.hand[h].target]
  BY <1>1 DEF VirtualHand
<1> QED BY <1>1, <1>2 DEF Detach, SetHand, VirtualHand

LEMMA AttachedTo ==
  ASSUME NEW r \in Tables, NEW h \in Hand, NEW e \in Nat, r.hand[h] # NoHand
  PROVE  /\ Attach(r, h, e) = SetHand(r, h, [entity |-> e, target |-> r.hand[h].target])
         /\ [entity |-> e, target |-> r.hand[h].target] \in VirtualHand
<1>1. r.hand[h] \in VirtualHand
  BY HandValues
<1>2. [r.hand[h] EXCEPT !.entity = e] = [entity |-> e, target |-> r.hand[h].target]
  BY <1>1 DEF VirtualHand
<1> QED BY <1>1, <1>2 DEF Attach, SetHand, VirtualHand

LEMMA EmitFields ==
  ASSUME NEW r \in Tables, NEW n \in Events
  PROVE  /\ Emit(r, n) \in Tables /\ Emit(r, n).news = Append(r.news, n)
         /\ Emit(r, n).hand = r.hand /\ Emit(r, n).ent = r.ent
         /\ Emit(r, n).ledger = r.ledger /\ Emit(r, n).astray = r.astray
<1>1. Append(r.news, n) \in Seq(Events)
  BY Domains
<1> QED BY <1>1 DEF Emit, Tables

LEMMA LastNews ==
  ASSUME NEW news \in Seq(Events), NEW n \in Events, NEW g
  PROVE  LastIsGrab(Append(news, n), g) = (n = "hand:grab")
<1>1. /\ Append(news, n) # <<>> /\ Len(Append(news, n)) = Len(news) + 1
      /\ Append(news, n)[Len(news) + 1] = n
  OBVIOUS
<1> QED BY <1>1 DEF LastIsGrab

-----------------------------------------------------------------------------
(* How the invariant survives what becomes of one entity. *)

LEMMA OnlyState ==
  ASSUME NEW r \in Tables, NEW q, NEW e, NEW s, Only(r, q, e, s)
  PROVE  /\ DOMAIN r.ent = 1..Len(r.ent) /\ Len(q.ent) = Len(r.ent)
         /\ \A x \in DOMAIN r.ent :
              /\ q.ent[x].by = r.ent[x].by
              /\ q.ent[x].state = IF x = e THEN s ELSE r.ent[x].state
<1>1. DOMAIN r.ent = 1..Len(r.ent) /\ Len(q.ent) = Len(r.ent)
  BY Domains DEF Only
<1>2. ASSUME NEW x \in DOMAIN r.ent, x = e
      PROVE  q.ent[x].by = r.ent[x].by /\ q.ent[x].state = s
  <2>1. q.ent[x] = [state |-> s, by |-> r.ent[x].by]
    BY <1>2 DEF Only
  <2> QED BY <2>1
<1>3. ASSUME NEW x \in DOMAIN r.ent, x # e
      PROVE  q.ent[x] = r.ent[x]
  BY <1>3 DEF Only
<1> QED BY <1>1, <1>2, <1>3

(* Of an entity that was never sent off the ledger says nothing. *)
LEMMA NothingToTell ==
  ASSUME NEW r \in Tables, NEW q \in Tables, NEW e \in DOMAIN r.ent, NEW s,
         Tells(r.ledger, r.ent, 0), Only(r, q, e, s), q.ledger = r.ledger,
         r.ent[e].state \notin {"SENDING", "COMPLETED", "FAILED"}
  PROVE  Tells(q.ledger, q.ent, 0)
<1>1. DOMAIN q.ent = DOMAIN r.ent
  BY Domains DEF Only
<1>2. ASSUME NEW k \in DOMAIN r.ledger
      PROVE  r.ledger[k].id \in DOMAIN r.ent
             /\ q.ent[r.ledger[k].id].state = Fate(r.ledger[k].outcome)
  <2> r.ledger[k] \in Entry
    BY Domains
  <2>1. /\ r.ledger[k].id \in DOMAIN r.ent
        /\ r.ledger[k].outcome \in {"pending", "completed", "failed"}
    BY DEF Tells, Entry
  <2>2. r.ent[r.ledger[k].id].state = Fate(r.ledger[k].outcome)
    BY <2>1, Domains DEF Tells
  <2>3. Fate(r.ledger[k].outcome) \in {"SENDING", "COMPLETED", "FAILED"}
    BY <2>1 DEF Fate
  <2>4. r.ledger[k].id # e
    BY <2>2, <2>3
  <2> QED BY <2>1, <2>2, <2>4, OnlyState
<1> QED BY <1>1, <1>2 DEF Tells

LEMMA StillWell ==
  ASSUME NEW r, Well(r), NEW q \in Tables, NEW e \in DOMAIN r.ent, NEW s \in States,
         Only(r, q, e, s), q.astray = r.astray,
         \A h \in Hand : q.hand[h] # NoHand => q.hand[h].entity <= Len(r.ent)
  PROVE  Well(q)
<1>1. r \in Tables /\ DOMAIN q.ent = DOMAIN r.ent
  BY Domains DEF Only, Well
<1>2. \A x \in DOMAIN q.ent : q.ent[x].state \in States
  BY <1>1, OnlyState DEF Well
<1> QED BY <1>1, <1>2 DEF Well, Only

(* An entity nobody holds moves on. *)
LEMMA Onward ==
  ASSUME NEW r, NEW P, NEW g, TabInv(r, P, g, 0),
         NEW q \in Tables, NEW e \in DOMAIN r.ent, NEW s \in States \ {"HELD"},
         r.ent[e].state # "HELD", s = "capturing" => r.ent[e].state = "capturing",
         Only(r, q, e, s), q.hand = r.hand, q.news = r.news, q.astray = r.astray,
         Tells(q.ledger, q.ent, 0)
  PROVE  TabInv(q, P, g, 0)
<1>1. Well(r) /\ r \in Tables /\ DOMAIN q.ent = DOMAIN r.ent
  BY Domains DEF Only, Well, TabInv
<1>2. Well(q)
  BY <1>1, StillWell DEF Well
<1>3. Present(q, P) /\ Drawn(q, g)
  BY DEF TabInv, Present, Drawn, Holds
<1>4. Pinched(q, P, 0)
  <2> SUFFICES ASSUME NEW x \in DOMAIN q.ent \ (q.astray \cup {0})
               PROVE  /\ q.ent[x].state \in {"HELD", "capturing"} => q.ent[x].by \in P
                      /\ q.ent[x].state = "HELD" => /\ q.hand[q.ent[x].by] # NoHand
                                                    /\ q.hand[q.ent[x].by].entity = x
    BY DEF Pinched
  <2>1. x \in DOMAIN r.ent \ (r.astray \cup {0}) /\ q.ent[x].by = r.ent[x].by
    BY <1>1, OnlyState
  <2>2. q.ent[x].state = r.ent[x].state
        \/ q.ent[x].state \notin {"HELD", "capturing"}
        \/ r.ent[x].state = "capturing"
    BY <1>1, <2>1, OnlyState
  <2>3. q.ent[x].state = "HELD" => r.ent[x].state = "HELD"
    BY <1>1, <2>1, OnlyState
  <2> QED BY <2>1, <2>2, <2>3 DEF TabInv, Pinched
<1>5. OnHand(q)
  <2> SUFFICES ASSUME NEW h \in Hand, Holds(q, h)
               PROVE  /\ q.ent[q.hand[h].entity].state = "HELD"
                      /\ q.ent[q.hand[h].entity].by = h
    BY DEF OnHand
  <2>1. Holds(r, h) /\ r.hand[h].entity \in DOMAIN r.ent
    BY <1>1, HandValues, Domains DEF Holds, Well
  <2>2. r.ent[r.hand[h].entity].state = "HELD" /\ r.ent[r.hand[h].entity].by = h
    BY <2>1 DEF TabInv, OnHand
  <2>3. q.hand[h].entity = r.hand[h].entity /\ r.hand[h].entity # e
    BY <2>2
  <2>4. /\ q.ent[r.hand[h].entity].state = r.ent[r.hand[h].entity].state
        /\ q.ent[r.hand[h].entity].by = r.ent[r.hand[h].entity].by
    BY <1>1, <2>1, <2>3, OnlyState
  <2> QED BY <2>2, <2>3, <2>4
<1> QED BY <1>2, <1>3, <1>4, <1>5 DEF TabInv

(* What an open hand held is put down or sent off. *)
LEMMA PutDown ==
  ASSUME NEW r, NEW P, NEW g, NEW h \in Hand, h \notin P, Holds(r, h),
         TabInv(r, P, g, r.hand[h].entity), NEW q \in Tables,
         NEW s \in States \ {"HELD", "capturing"}, Only(r, q, r.hand[h].entity, s),
         NEW v \in VirtualHand \cup {NoHand}, v = NoHand \/ v.entity = 0, OnlyHand(r, q, h, v),
         \/ q.news = Append(r.news, "hand:release")
         \/ q.news = r.news /\ r.astray # {},
         q.astray = r.astray, Tells(q.ledger, q.ent, 0)
  PROVE  TabInv(q, P, g, 0)
<1> DEFINE e == r.hand[h].entity
<1>1. Well(r) /\ r \in Tables /\ DOMAIN q.ent = DOMAIN r.ent
  BY Domains DEF Only, Well, TabInv
<1>2. e \in DOMAIN r.ent /\ r.ent[e].state = "HELD" /\ r.ent[e].by = h
  BY <1>1, HandValues, Domains DEF Holds, Well, TabInv, OnHand
<1> HIDE DEF e
<1>3. Well(q)
  <2>1. \A i \in Hand : q.hand[i] # NoHand => q.hand[i].entity <= Len(r.ent)
    BY <1>1, Domains DEF Well, OnlyHand
  <2> QED BY <1>1, <1>2, <2>1, StillWell DEF Well, e
<1>4. Present(q, P)
  BY DEF TabInv, Present, OnlyHand
<1>5. Pinched(q, P, 0)
  <2> SUFFICES ASSUME NEW x \in DOMAIN q.ent \ (q.astray \cup {0})
               PROVE  /\ q.ent[x].state \in {"HELD", "capturing"} => q.ent[x].by \in P
                      /\ q.ent[x].state = "HELD" => /\ q.hand[q.ent[x].by] # NoHand
                                                    /\ q.hand[q.ent[x].by].entity = x
    BY DEF Pinched
  <2>1. x = e => q.ent[x].state \notin {"HELD", "capturing"}
    BY <1>1, <1>2, OnlyState DEF e
  <2>2. x # e => q.ent[x] = r.ent[x] /\ x \in DOMAIN r.ent \ (r.astray \cup {e})
    BY <1>1 DEF Only, e
  <2>3. CASE x # e
    <3>1. /\ r.ent[x].state \in {"HELD", "capturing"} => r.ent[x].by \in P
          /\ r.ent[x].state = "HELD" => /\ r.hand[r.ent[x].by] # NoHand
                                        /\ r.hand[r.ent[x].by].entity = x
      BY <2>2, <2>3 DEF TabInv, Pinched, e
    <3>2. r.ent[x].by \in Hand
      BY <1>1, <2>2, <2>3, Domains
    <3> QED BY <2>2, <2>3, <3>1, <3>2 DEF OnlyHand
  <2> QED BY <2>1, <2>3
<1>6. OnHand(q)
  <2> SUFFICES ASSUME NEW i \in Hand, Holds(q, i)
               PROVE  /\ q.ent[q.hand[i].entity].state = "HELD"
                      /\ q.ent[q.hand[i].entity].by = i
    BY DEF OnHand
  <2>1. i # h /\ q.hand[i] = r.hand[i]
    BY DEF Holds, OnlyHand
  <2>2. Holds(r, i) /\ r.hand[i].entity \in DOMAIN r.ent
    BY <1>1, <2>1, HandValues, Domains DEF Holds, Well
  <2>3. r.ent[r.hand[i].entity].state = "HELD" /\ r.ent[r.hand[i].entity].by = i
    BY <2>2 DEF TabInv, OnHand
  <2>4. r.hand[i].entity # e
    BY <1>2, <2>1, <2>3
  <2> QED BY <2>1, <2>2, <2>3, <2>4 DEF Only, e
<1>7. Drawn(q, g)
  <2>1. CASE q.news = Append(r.news, "hand:release")
    <3>1. r.news \in Seq(Events) /\ "hand:release" \in Events
      BY <1>1, Domains DEF Events
    <3>2. ~LastIsGrab(q.news, g)
      BY <2>1, <3>1, LastNews
    <3> QED BY <3>2 DEF Drawn
  <2>2. CASE r.astray # {}
    BY <2>2 DEF Drawn
  <2> QED BY <2>1, <2>2
<1> QED BY <1>3, <1>4, <1>5, <1>6, <1>7 DEF TabInv


(* Hands change only in what they aim at, or one appears that holds nothing. *)
LEMMA HandsAside ==
  ASSUME NEW r, NEW P, NEW g, NEW x, TabInv(r, P, g, x), NEW q \in Tables,
         q.ent = r.ent, q.ledger = r.ledger, q.news = r.news, q.astray = r.astray,
         \A i \in Hand :
           /\ r.hand[i] # NoHand => q.hand[i] # NoHand /\ q.hand[i].entity = r.hand[i].entity
           /\ r.hand[i] = NoHand => q.hand[i] = NoHand \/ q.hand[i].entity = 0
  PROVE  TabInv(q, P, g, x)
<1>1. Well(r) /\ r \in Tables
  BY DEF TabInv, Well
<1>2. \A i \in Hand : Holds(q, i) <=> Holds(r, i)
  BY DEF Holds
<1>3. \A i \in Hand : Holds(r, i) => q.hand[i].entity = r.hand[i].entity
  BY DEF Holds
<1>4. Well(q)
  <2>1. \A i \in Hand : q.hand[i] # NoHand => q.hand[i].entity <= Len(q.ent)
    BY <1>1, Domains DEF Well
  <2> QED BY <1>1, <2>1 DEF Well
<1>5. Tells(q.ledger, q.ent, 0) /\ Present(q, P)
  BY DEF TabInv, Present
<1>6. Pinched(q, P, x)
  <2> SUFFICES ASSUME NEW e \in DOMAIN q.ent \ (q.astray \cup {x})
               PROVE  /\ q.ent[e].state \in {"HELD", "capturing"} => q.ent[e].by \in P
                      /\ q.ent[e].state = "HELD" => /\ q.hand[q.ent[e].by] # NoHand
                                                    /\ q.hand[q.ent[e].by].entity = e
    BY DEF Pinched
  <2>1. r.ent[e].by \in Hand
    BY <1>1, Domains
  <2>2. /\ r.ent[e].state \in {"HELD", "capturing"} => r.ent[e].by \in P
        /\ r.ent[e].state = "HELD" => /\ r.hand[r.ent[e].by] # NoHand
                                      /\ r.hand[r.ent[e].by].entity = e
    BY DEF TabInv, Pinched
  <2> QED BY <2>1, <2>2
<1>7. OnHand(q)
  BY <1>2, <1>3 DEF TabInv, OnHand
<1>8. Drawn(q, g)
  BY <1>2 DEF TabInv, Drawn
<1> QED BY <1>4, <1>5, <1>6, <1>7, <1>8 DEF TabInv

LEMMA Unmoved ==
  ASSUME NEW r \in Tables, NEW q, q.ent = r.ent, NEW R
  PROVE  Moves(r, q, R)
BY Domains DEF Moves

(* Moves compose. *)
LEMMA MovesOn ==
  ASSUME NEW r \in Tables, NEW q \in Tables, NEW s, NEW R, NEW T, NEW U,
         Moves(r, q, R), Moves(q, s, T), R \subseteq U, T \subseteq U,
         Len(s.ent) \in Nat
  PROVE  Moves(r, s, U)
<1>1. /\ DOMAIN r.ent = 1..Len(r.ent) /\ Len(r.ent) \in Nat
      /\ DOMAIN q.ent = 1..Len(q.ent) /\ Len(q.ent) \in Nat
  BY Domains
<1>2. Len(r.ent) <= Len(s.ent)
  BY <1>1 DEF Moves
<1>3. ASSUME NEW e \in DOMAIN r.ent
      PROVE  /\ s.ent[e].by = r.ent[e].by
             /\ \/ s.ent[e].state = r.ent[e].state
                \/ /\ r.ent[e].state = "HELD"
                   /\ \/ s.ent[e].state = "COMPLETED"
                      \/ s.ent[e].state \in {"VALIDATED", "FAILED"} /\ r.ent[e].by \in U
  <2>1. e \in DOMAIN q.ent
    BY <1>1 DEF Moves
  <2>2. /\ q.ent[e].by = r.ent[e].by
        /\ \/ q.ent[e].state = r.ent[e].state
           \/ /\ r.ent[e].state = "HELD"
              /\ \/ q.ent[e].state = "COMPLETED"
                 \/ q.ent[e].state \in {"VALIDATED", "FAILED"} /\ r.ent[e].by \in U
    BY DEF Moves
  <2>3. /\ s.ent[e].by = q.ent[e].by
        /\ \/ s.ent[e].state = q.ent[e].state
           \/ /\ q.ent[e].state = "HELD"
              /\ \/ s.ent[e].state = "COMPLETED"
                 \/ s.ent[e].state \in {"VALIDATED", "FAILED"} /\ q.ent[e].by \in U
    BY <2>1 DEF Moves
  <2> QED BY <2>2, <2>3
<1> QED BY <1>2, <1>3 DEF Moves

-----------------------------------------------------------------------------
(* The handlers. *)

LEMMA Ensured ==
  ASSUME NEW r, NEW P, NEW g, NEW x, TabInv(r, P, g, x), NEW h \in Hand
  PROVE  /\ TabInv(Ensure(r, h), P, g, x) /\ Ensure(r, h) \in Tables
         /\ Ensure(r, h).hand[h] # NoHand /\ Ensure(r, h).ent = r.ent
<1>1. r \in Tables
  BY DEF TabInv, Well
<1>2. CASE r.hand[h] # NoHand
  BY <1>1, <1>2 DEF Ensure
<1>3. CASE r.hand[h] = NoHand
  <2> DEFINE q == SetHand(r, h, NewHand)
  <2>1. Ensure(r, h) = q
    BY <1>3 DEF Ensure, SetHand
  <2>2. NewHand \in VirtualHand /\ NewHand.entity = 0 /\ NewHand # NoHand
    BY <1>1, HandValues
  <2>3. /\ q \in Tables /\ OnlyHand(r, q, h, NewHand)
        /\ q.ent = r.ent /\ q.ledger = r.ledger /\ q.news = r.news /\ q.astray = r.astray
    BY <1>1, <2>2, SetHandFields
  <2> HIDE DEF q
  <2>4. q.hand[h] = NewHand
    BY <2>3 DEF OnlyHand
  <2>5. TabInv(q, P, g, x)
    BY <1>3, <2>2, <2>3, HandsAside DEF OnlyHand
  <2> QED BY <2>1, <2>2, <2>3, <2>4, <2>5
<1> QED BY <1>2, <1>3

LEMMA Aimed ==
  ASSUME NEW r, NEW P, NEW g, TabInv(r, P, g, 0), NEW h \in Hand, NEW aim \in Aims
  PROVE  TabInv(OnAim(r, h, aim), P, g, 0) /\ OnAim(r, h, aim).ent = r.ent
<1>1. r \in Tables
  BY DEF TabInv, Well
<1>2. CASE r.hand[h] = NoHand
  BY <1>2 DEF OnAim
<1>3. CASE r.hand[h] # NoHand
  <2> DEFINE v == [entity |-> r.hand[h].entity, target |-> aim]
             q == SetHand(r, h, v)
  <2>1. r.hand[h] \in VirtualHand
    BY <1>1, <1>3, HandValues
  <2>2. v \in VirtualHand /\ [r.hand[h] EXCEPT !.target = aim] = v
    BY <2>1 DEF VirtualHand, Aims
  <2>3. v # NoHand /\ v.entity = r.hand[h].entity
    BY <1>1, <2>2, HandValues
  <2> HIDE DEF v
  <2>4. OnAim(r, h, aim) = q
    BY <1>1, <1>3, <2>2 DEF OnAim, SetHand, Tables
  <2>5. /\ q \in Tables /\ OnlyHand(r, q, h, v)
        /\ q.ent = r.ent /\ q.ledger = r.ledger /\ q.news = r.news /\ q.astray = r.astray
    BY <1>1, <2>2, SetHandFields
  <2> HIDE DEF q
  <2>6. TabInv(q, P, g, 0)
    BY <1>3, <2>3, <2>5, HandsAside DEF OnlyHand
  <2> QED BY <2>4, <2>5, <2>6
<1> QED BY <1>2, <1>3

(* An entity is captured for a hand that pinches from now on. *)
LEMMA Grabs ==
  ASSUME NEW r, NEW P, NEW g, TabInv(r, P, g, 0), NEW h \in Hand
  PROVE  /\ TabInv(OnGrab(r, h), P \cup {h}, g, 0)
         /\ Moves(r, OnGrab(r, h), {})
<1> DEFINE k == Ensure(r, h)
           new == [state |-> "capturing", by |-> h]
           en == Append(k.ent, new)
           q == [k EXCEPT !.ent = en]
           Q == P \cup {h}
<1>1. /\ TabInv(k, P, g, 0) /\ k \in Tables /\ k.hand[h] # NoHand /\ k.ent = r.ent
      /\ r \in Tables
  BY Ensured DEF TabInv, Well
<1>2. OnGrab(r, h) = IF Holds(k, h) THEN k ELSE q
  BY DEF OnGrab
<1> HIDE DEF k
<1>3. TabInv(k, Q, g, 0)
  BY <1>1 DEF TabInv, Present, Pinched
<1>4. new \in Entity /\ new.state = "capturing" /\ new.by = h
  BY StateNames DEF Entity
<1> HIDE DEF new
<1>5. k.ent \in Seq(Entity) /\ Len(k.ent) \in Nat /\ DOMAIN k.ent = 1..Len(k.ent)
  BY <1>1, Domains
<1>6. /\ en \in Seq(Entity) /\ Len(en) = Len(k.ent) + 1 /\ DOMAIN en = 1..(Len(k.ent) + 1)
      /\ \A e \in DOMAIN k.ent : en[e] = k.ent[e]
      /\ en[Len(k.ent) + 1] = new
  BY <1>4, <1>5
<1> HIDE DEF en
<1>7. /\ q \in Tables /\ q.ent = en /\ q.hand = k.hand /\ q.ledger = k.ledger
      /\ q.news = k.news /\ q.astray = k.astray
  BY <1>1, <1>6 DEF Tables
<1> HIDE DEF q
<1>8. \A e \in DOMAIN en : e \in DOMAIN k.ent \/ en[e] = new
  BY <1>5, <1>6
<1>9. DOMAIN k.ent \subseteq DOMAIN en
  BY <1>5, <1>6
<1>10. Well(q)
  <2>1. \A e \in DOMAIN q.ent : q.ent[e].state \in States
    BY <1>1, <1>4, <1>6, <1>7, <1>8 DEF TabInv, Well, States
  <2>2. \A i \in Hand : q.hand[i] # NoHand => q.hand[i].entity <= Len(q.ent)
    BY <1>1, <1>5, <1>6, <1>7, HandValues DEF TabInv, Well
  <2>3. q.astray \subseteq DOMAIN q.ent
    BY <1>1, <1>7, <1>9 DEF TabInv, Well
  <2> QED BY <1>7, <2>1, <2>2, <2>3 DEF Well
<1>11. Tells(q.ledger, q.ent, 0)
  BY <1>1, <1>6, <1>7, <1>9 DEF TabInv, Tells
<1>12. Present(q, Q)
  BY <1>3, <1>7 DEF TabInv, Present
<1>13. Pinched(q, Q, 0)
  <2> SUFFICES ASSUME NEW e \in DOMAIN q.ent \ (q.astray \cup {0})
               PROVE  /\ q.ent[e].state \in {"HELD", "capturing"} => q.ent[e].by \in Q
                      /\ q.ent[e].state = "HELD" => /\ q.hand[q.ent[e].by] # NoHand
                                                    /\ q.hand[q.ent[e].by].entity = e
    BY DEF Pinched
  <2>1. CASE q.ent[e] = new
    BY <1>4, <2>1
  <2>2. CASE e \in DOMAIN k.ent
    <3>1. /\ k.ent[e].state \in {"HELD", "capturing"} => k.ent[e].by \in Q
          /\ k.ent[e].state = "HELD" => /\ k.hand[k.ent[e].by] # NoHand
                                        /\ k.hand[k.ent[e].by].entity = e
      BY <1>3, <1>7, <2>2 DEF TabInv, Pinched
    <3> QED BY <1>6, <1>7, <2>2, <3>1
  <2> QED BY <1>7, <1>8, <2>1, <2>2
<1>14. OnHand(q)
  <2> SUFFICES ASSUME NEW i \in Hand, Holds(q, i)
               PROVE  /\ q.ent[q.hand[i].entity].state = "HELD"
                      /\ q.ent[q.hand[i].entity].by = i
    BY DEF OnHand
  <2>1. Holds(k, i) /\ k.hand[i].entity \in DOMAIN k.ent
    BY <1>1, <1>5, <1>7, HandValues DEF Holds, TabInv, Well
  <2> QED BY <1>1, <1>6, <1>7, <2>1 DEF TabInv, OnHand
<1>15. Drawn(q, g)
  BY <1>1, <1>7 DEF TabInv, Drawn, Holds
<1>16. TabInv(q, Q, g, 0)
  BY <1>10, <1>11, <1>12, <1>13, <1>14, <1>15 DEF TabInv
<1>17. Moves(r, q, {})
  BY <1>1, <1>5, <1>6, <1>7 DEF Moves
<1>18. Moves(r, k, {})
  BY <1>1, Unmoved
<1> QED BY <1>2, <1>3, <1>16, <1>17, <1>18


(* The ledger tells every fate but that of the one that has just moved on. *)
LEMMA TellsOthers ==
  ASSUME NEW r \in Tables, NEW q \in Tables, NEW e \in DOMAIN r.ent, NEW s,
         Tells(r.ledger, r.ent, 0), Only(r, q, e, s), q.ledger = r.ledger
  PROVE  Tells(q.ledger, q.ent, e)
<1>1. DOMAIN q.ent = DOMAIN r.ent
  BY Domains, OnlyState
<1>2. ASSUME NEW k \in DOMAIN r.ledger
      PROVE  /\ r.ledger[k].id \in DOMAIN r.ent
             /\ r.ledger[k].id # e =>
                  q.ent[r.ledger[k].id].state = Fate(r.ledger[k].outcome)
  <2>1. r.ledger[k].id \in DOMAIN r.ent
    BY DEF Tells
  <2>2. r.ent[r.ledger[k].id].state = Fate(r.ledger[k].outcome)
    BY <2>1, Domains DEF Tells
  <2> QED BY <2>1, <2>2, OnlyState
<1> QED BY <1>1, <1>2 DEF Tells

(* A live entity fails, and the ledger says so. *)
LEMMA Fails ==
  ASSUME NEW r \in Tables, NEW e \in DOMAIN r.ent, Tells(r.ledger, r.ent, 0),
         r.ent[e].state \in {"HELD", "VALIDATED", "SENDING"}
  PROVE  LET q == FailSource(r, e) IN
           /\ q \in Tables /\ Only(r, q, e, "FAILED") /\ Tells(q.ledger, q.ent, 0)
           /\ q.hand = r.hand /\ q.news = r.news /\ q.astray = r.astray
<1> DEFINE f == At(r, e, "FAILED")
           q == Finish(f, e, "failed")
<1>1. /\ f \in Tables /\ DOMAIN f.ent = DOMAIN r.ent /\ Only(r, f, e, "FAILED")
      /\ f.ledger = r.ledger /\ f.hand = r.hand /\ f.news = r.news /\ f.astray = r.astray
  BY AtFields, StateNames
<1>2. Transition(r, e, "FAILED") = f
  BY Steps, StateNames, TransitionTable
<1>3. Live(r, e)
  BY DEF Live, Ended
<1>4. FailSource(r, e) = q
  BY <1>2, <1>3 DEF FailSource
<1> HIDE DEF f
<1>5. f.ent[e].state = Fate("failed")
  BY <1>1, OnlyState DEF Fate
<1>6. Tells(f.ledger, f.ent, e)
  BY <1>1, TellsOthers
<1>7. OnlyLedger(f, q) /\ Tells(q.ledger, f.ent, 0)
  BY <1>1, <1>5, <1>6, Finished
<1> HIDE DEF q
<1> QED BY <1>1, <1>4, <1>7 DEF OnlyLedger, Only

LEMMA Drops ==
  ASSUME NEW r \in Tables, NEW e \in DOMAIN r.ent, r.ent[e].state = "HELD"
  PROVE  DropInPlace(r, e) = At(r, e, "COMPLETED")
<1>1. Transition(r, e, "DROPPED") = At(r, e, "DROPPED")
  BY Steps, StateNames, TransitionTable
<1>2. Transition(At(r, e, "DROPPED"), e, "COMPLETED") = At(r, e, "COMPLETED")
  BY Walks, StateNames, TransitionTable
<1> QED BY <1>1, <1>2 DEF DropInPlace

LEMMA MovesDown ==
  ASSUME NEW r \in Tables, NEW q, NEW e \in DOMAIN r.ent, NEW s, NEW R,
         Only(r, q, e, s), r.ent[e].state = "HELD",
         s = "COMPLETED" \/ (s \in {"VALIDATED", "FAILED"} /\ r.ent[e].by \in R)
  PROVE  Moves(r, q, R)
BY OnlyState, Domains DEF Moves

(* The hand opens: what was being captured for it goes astray, what it held is
   put down or sent off. *)
LEMMA Releases ==
  ASSUME NEW r, NEW P, NEW g, TabInv(r, P, g, 0), NEW h \in Hand, NEW aim \in Aims, NEW bad
  PROVE  LET q == OnRelease([r EXCEPT !.astray = @ \cup Capturing(r, h)], h, aim, bad) IN
           TabInv(q, P \ {h}, g, 0) /\ Moves(r, q, {h})
<1> DEFINE gone == r.astray \cup Capturing(r, h)
           a == [r EXCEPT !.astray = gone]
           Q == P \ {h}
           q == OnRelease(a, h, aim, bad)
<1>1. r \in Tables /\ Well(r) /\ DOMAIN r.ent = 1..Len(r.ent) /\ Len(r.ent) \in Nat
  BY Domains DEF TabInv, Well
<1>2. gone \subseteq DOMAIN r.ent /\ gone \subseteq Nat
  BY <1>1 DEF Capturing, Well
<1>3. ASSUME NEW x \in DOMAIN r.ent, x \notin gone
      PROVE  /\ x \notin r.astray
             /\ r.ent[x].state = "capturing" => r.ent[x].by # h
  BY <1>3 DEF Capturing
<1>4. gone = {} => r.astray = {}
  OBVIOUS
<1> HIDE DEF gone
<1>5. /\ a \in Tables /\ a.ent = r.ent /\ a.hand = r.hand /\ a.ledger = r.ledger
      /\ a.news = r.news /\ a.astray = gone
  BY <1>1, <1>2 DEF Tables
<1> HIDE DEF a
<1>6. \A x : (Holds(r, h) => x = r.hand[h].entity) => TabInv(a, Q, g, x)
  <2> SUFFICES ASSUME NEW x, Holds(r, h) => x = r.hand[h].entity
               PROVE  TabInv(a, Q, g, x)
    OBVIOUS
  <2>1. Well(a) /\ Tells(a.ledger, a.ent, 0) /\ Present(a, Q)
    BY <1>1, <1>2, <1>5 DEF TabInv, Well, Present
  <2>2. Pinched(a, Q, x)
    <3> SUFFICES ASSUME NEW e \in DOMAIN a.ent \ (a.astray \cup {x})
                 PROVE  /\ a.ent[e].state \in {"HELD", "capturing"} => a.ent[e].by \in Q
                        /\ a.ent[e].state = "HELD" => /\ a.hand[a.ent[e].by] # NoHand
                                                      /\ a.hand[a.ent[e].by].entity = e
      BY DEF Pinched
    <3>1. e \in DOMAIN r.ent /\ e # x /\ e # 0 /\ e \notin r.astray
          /\ (r.ent[e].state = "capturing" => r.ent[e].by # h)
      BY <1>1, <1>3, <1>5
    <3>2. /\ r.ent[e].state \in {"HELD", "capturing"} => r.ent[e].by \in P
          /\ r.ent[e].state = "HELD" => /\ r.hand[r.ent[e].by] # NoHand
                                        /\ r.hand[r.ent[e].by].entity = e
      BY <3>1 DEF TabInv, Pinched
    <3>3. r.ent[e].state = "HELD" => r.ent[e].by # h
      BY <3>1, <3>2 DEF Holds
    <3> QED BY <1>5, <3>1, <3>2, <3>3
  <2>3. OnHand(a) /\ Drawn(a, g)
    BY <1>4, <1>5 DEF TabInv, OnHand, Drawn, Holds
  <2> QED BY <2>1, <2>2, <2>3 DEF TabInv
<1>7. Holds(a, h) <=> Holds(r, h)
  BY <1>5 DEF Holds
<1>8. CASE ~Holds(r, h)
  <2>1. q = a
    BY <1>7, <1>8 DEF OnRelease
  <2>2. Moves(r, a, {h})
    BY <1>1, <1>5, Unmoved
  <2> QED BY <1>6, <1>8, <2>1, <2>2 DEF gone, a
<1>9. CASE Holds(r, h)
  <2> DEFINE e == r.hand[h].entity
             v == [entity |-> 0, target |-> r.hand[h].target]
             d == SetHand(a, h, v)
             told == Emit(d, "hand:release")
  <2>1. /\ TabInv(a, Q, g, e) /\ e \in DOMAIN r.ent /\ a.hand[h].entity = e
        /\ a.hand[h] # NoHand /\ r.ent[e].state = "HELD" /\ r.ent[e].by = h
    <3>1. TabInv(a, Q, g, e)
      BY <1>6
    <3>2. a.hand[h].entity = e /\ a.hand[h] # NoHand
      BY <1>5, <1>9 DEF Holds
    <3>3. e \in DOMAIN r.ent
      BY <1>1, <1>9, HandValues DEF Holds, Well
    <3>4. r.ent[e].state = "HELD" /\ r.ent[e].by = h
      BY <1>9 DEF TabInv, OnHand
    <3> QED BY <3>1, <3>2, <3>3, <3>4
  <2> HIDE DEF e
  <2>2. Detach(a, h) = d /\ v \in VirtualHand /\ v.entity = 0
    BY <1>5, <2>1, Detached
  <2> HIDE DEF v
  <2>3. /\ d \in Tables /\ OnlyHand(a, d, h, v)
        /\ d.ent = a.ent /\ d.ledger = a.ledger /\ d.news = a.news /\ d.astray = a.astray
    BY <1>5, <2>2, SetHandFields
  <2> HIDE DEF d
  <2>4. /\ told \in Tables /\ told.news = Append(a.news, "hand:release")
        /\ told.hand = d.hand /\ told.ent = r.ent /\ told.ledger = a.ledger
        /\ told.astray = a.astray
    BY <1>5, <2>3, EmitFields DEF Events
  <2> HIDE DEF told
  <2>5. Live(a, e)
    BY <1>5, <2>1 DEF Live, Ended
  <2>6. q \in {DropInPlace(told, e), Transition(told, e, "VALIDATED"), FailSource(told, e)}
    BY <1>7, <1>9, <2>1, <2>2, <2>5 DEF OnRelease, Dispatch, told
  <2>7. e \in DOMAIN told.ent /\ told.ent[e].state = "HELD"
    BY <2>1, <2>4
  <2>8. DropInPlace(told, e) = At(told, e, "COMPLETED")
    BY <2>4, <2>7, Drops
  <2>9. Transition(told, e, "VALIDATED") = At(told, e, "VALIDATED")
    BY <2>4, <2>7, Steps, StateNames, TransitionTable
  <2>10. Tells(told.ledger, told.ent, 0)
    BY <1>5, <2>4 DEF TabInv
  <2>11. \E s \in {"COMPLETED", "VALIDATED", "FAILED"} :
           /\ q \in Tables /\ Only(told, q, e, s) /\ Tells(q.ledger, q.ent, 0)
           /\ q.hand = told.hand /\ q.news = told.news /\ q.astray = told.astray
    <3>1. ASSUME NEW s \in {"COMPLETED", "VALIDATED"}, q = At(told, e, s)
          PROVE  /\ q \in Tables /\ Only(told, q, e, s) /\ Tells(q.ledger, q.ent, 0)
                 /\ q.hand = told.hand /\ q.news = told.news /\ q.astray = told.astray
      <4>1. /\ q \in Tables /\ Only(told, q, e, s) /\ q.ledger = told.ledger
            /\ q.hand = told.hand /\ q.news = told.news /\ q.astray = told.astray
        BY <2>4, <2>7, <3>1, AtFields, StateNames
      <4> HIDE DEF q
      <4>2. Tells(q.ledger, q.ent, 0)
        BY <2>4, <2>7, <2>10, <4>1, NothingToTell
      <4> QED BY <4>1, <4>2
    <3>2. CASE q = FailSource(told, e)
      BY <2>4, <2>7, <2>10, <3>2, Fails
    <3> HIDE DEF q
    <3>3. CASE q \in {DropInPlace(told, e), Transition(told, e, "VALIDATED")}
      BY <2>8, <2>9, <3>1, <3>3
    <3> QED BY <2>6, <3>2, <3>3
  <2> HIDE DEF q
  <2>12. PICK s \in {"COMPLETED", "VALIDATED", "FAILED"} :
           /\ q \in Tables /\ Only(told, q, e, s) /\ Tells(q.ledger, q.ent, 0)
           /\ q.hand = told.hand /\ q.news = told.news /\ q.astray = told.astray
    BY <2>11
  <2>13. Only(a, q, e, s) /\ OnlyHand(a, q, h, v) /\ Only(r, q, e, s)
    BY <1>5, <2>3, <2>4, <2>12 DEF Only, OnlyHand
  <2>14. /\ q.news = Append(a.news, "hand:release") /\ q.astray = a.astray
         /\ s \in States \ {"HELD", "capturing"} /\ Holds(a, h) /\ h \notin Q
    BY <1>7, <1>9, <2>4, <2>12 DEF States, Ended
  <2>15. TabInv(q, Q, g, 0)
    BY <2>1, <2>2, <2>12, <2>13, <2>14, PutDown
  <2>16. Moves(r, q, {h})
    BY <1>1, <2>1, <2>12, <2>13, MovesDown
  <2> QED BY <2>15, <2>16 DEF q, a, gone
<1> QED BY <1>8, <1>9


(* A hand that does not pinch may only hold what went astray. *)
LEMMA AstrayOnOpenHand ==
  ASSUME NEW r, NEW P, NEW g, TabInv(r, P, g, 0), NEW h \in Hand, h \notin P, Holds(r, h)
  PROVE  /\ r.hand[h].entity \in DOMAIN r.ent /\ r.ent[r.hand[h].entity].state = "HELD"
         /\ r.ent[r.hand[h].entity].by = h /\ r.astray # {} /\ r.hand[h] # NoHand
<1>1. r \in Tables /\ Well(r) /\ DOMAIN r.ent = 1..Len(r.ent) /\ Len(r.ent) \in Nat
  BY Domains DEF TabInv, Well
<1>2. r.hand[h].entity \in DOMAIN r.ent /\ r.hand[h].entity # 0 /\ r.hand[h] # NoHand
  BY <1>1, HandValues DEF Holds, Well
<1>3. r.ent[r.hand[h].entity].state = "HELD" /\ r.ent[r.hand[h].entity].by = h
  BY DEF TabInv, OnHand
<1>4. r.hand[h].entity \in r.astray
  BY <1>2, <1>3 DEF TabInv, Pinched
<1> QED BY <1>2, <1>3, <1>4

(* v is what is left of an open hand when what it holds is put down: v is its
   virtual hand without an entity, or none. *)
LEMMA DropsHeld ==
  ASSUME NEW r, NEW P, NEW g, TabInv(r, P, g, 0), NEW h \in Hand, h \notin P, Holds(r, h),
         NEW v \in VirtualHand \cup {NoHand}, v = NoHand \/ v.entity = 0
  PROVE  LET q == At(SetHand(r, h, v), r.hand[h].entity, "COMPLETED") IN
           TabInv(q, P, g, 0) /\ Moves(r, q, {}) /\ q.news = r.news /\ q \in Tables
<1> DEFINE e == r.hand[h].entity
           d == SetHand(r, h, v)
           q == At(d, e, "COMPLETED")
<1>1. r \in Tables
  BY DEF TabInv, Well
<1>2. e \in DOMAIN r.ent /\ r.ent[e].state = "HELD" /\ r.astray # {}
  BY AstrayOnOpenHand
<1>3. TabInv(r, P, g, e)
  BY <1>1, Domains DEF TabInv, Pinched
<1>4. /\ d \in Tables /\ OnlyHand(r, d, h, v)
      /\ d.ent = r.ent /\ d.ledger = r.ledger /\ d.news = r.news /\ d.astray = r.astray
  BY <1>1, SetHandFields
<1> HIDE DEF d
<1>5. /\ q \in Tables /\ q.hand = d.hand /\ q.ledger = d.ledger /\ q.news = d.news
      /\ q.astray = d.astray /\ Only(d, q, e, "COMPLETED")
  BY <1>2, <1>4, AtFields, StateNames
<1> HIDE DEF q
<1>6. Only(r, q, e, "COMPLETED") /\ OnlyHand(r, q, h, v)
  BY <1>4, <1>5 DEF Only, OnlyHand
<1> HIDE DEF e
<1>7. Tells(q.ledger, q.ent, 0)
  BY <1>1, <1>2, <1>4, <1>5, <1>6, NothingToTell DEF TabInv
<1>8. "COMPLETED" \in States \ {"HELD", "capturing"}
  BY DEF States, Ended
<1>9. TabInv(q, P, g, 0)
  BY <1>2, <1>3, <1>4, <1>5, <1>6, <1>7, <1>8, PutDown DEF e
<1>10. Moves(r, q, {})
  BY <1>1, <1>2, <1>6, OnlyState, Domains DEF Moves
<1> QED BY <1>4, <1>5, <1>9, <1>10 DEF q, d, e

(* An open hand lets go of what it has. *)
LEMMA Cancels ==
  ASSUME NEW r, NEW P, NEW g, TabInv(r, P, g, 0), NEW h \in Hand, h \notin P
  PROVE  /\ TabInv(OnCancel(r, h), P, g, 0) /\ Moves(r, OnCancel(r, h), {})
         /\ ~Holds(OnCancel(r, h), h)
<1>1. r \in Tables
  BY DEF TabInv, Well
<1>2. CASE ~Holds(r, h)
  BY <1>1, <1>2, Unmoved DEF OnCancel
<1>3. CASE Holds(r, h)
  <2> DEFINE e == r.hand[h].entity
             v == [entity |-> 0, target |-> r.hand[h].target]
             d == SetHand(r, h, v)
             q == At(d, e, "COMPLETED")
  <2>1. e \in DOMAIN r.ent /\ r.ent[e].state = "HELD" /\ r.hand[h] # NoHand
    BY <1>3, AstrayOnOpenHand
  <2>2. Detach(r, h) = d /\ v \in VirtualHand /\ v.entity = 0
    BY <1>1, <2>1, Detached
  <2>3. TabInv(q, P, g, 0) /\ Moves(r, q, {})
    BY <1>3, <2>2, DropsHeld
  <2>4. d \in Tables /\ d.ent = r.ent /\ OnlyHand(r, d, h, v)
    BY <1>1, <2>2, SetHandFields
  <2>5. Live(r, e)
    BY <2>1 DEF Live, Ended
  <2>6. DropInPlace(d, e) = q
    BY <2>1, <2>4, Drops
  <2>7. OnCancel(r, h) = q
    BY <1>3, <2>2, <2>5, <2>6 DEF OnCancel
  <2>8. q.hand[h] = v
    <3>1. q.hand = d.hand
      BY <2>1, <2>4, AtFields, StateNames
    <3> QED BY <2>4, <3>1 DEF OnlyHand
  <2>9. ~Holds(q, h)
    BY <2>2, <2>8 DEF Holds
  <2> QED BY <2>3, <2>7, <2>9
<1> QED BY <1>2, <1>3

(* The hand is gone, and the browser hears of it. *)
LEMMA Loses ==
  ASSUME NEW r, NEW P, NEW g, TabInv(r, P, g, 0), NEW h \in Hand, h \notin P
  PROVE  LET q == Emit(OnHandLost(r, h), "gesture:hand-lost") IN
           TabInv(q, P, g, 0) /\ Moves(r, q, {})
<1> DEFINE c == OnCancel(r, h)
           l == SetHand(c, h, NoHand)
           q == Emit(l, "gesture:hand-lost")
<1>1. TabInv(c, P, g, 0) /\ c \in Tables /\ r \in Tables /\ Moves(r, c, {}) /\ ~Holds(c, h)
  BY Cancels DEF TabInv, Well
<1>2. OnHandLost(r, h) = l
  BY DEF OnHandLost, SetHand
<1> HIDE DEF c
<1>3. /\ l \in Tables /\ OnlyHand(c, l, h, NoHand)
      /\ l.ent = c.ent /\ l.ledger = c.ledger /\ l.news = c.news /\ l.astray = c.astray
  BY <1>1, SetHandFields
<1> HIDE DEF l
<1>4. /\ q \in Tables /\ q.news = Append(l.news, "gesture:hand-lost")
      /\ q.hand = l.hand /\ q.ent = c.ent /\ q.ledger = c.ledger /\ q.astray = c.astray
  BY <1>3, EmitFields DEF Events
<1> HIDE DEF q
<1>5. \A i \in Hand : q.hand[i] = IF i = h THEN NoHand ELSE c.hand[i]
  BY <1>3, <1>4 DEF OnlyHand
<1>6. Well(q)
  BY <1>1, <1>4, <1>5 DEF TabInv, Well
<1>7. Tells(q.ledger, q.ent, 0) /\ Present(q, P)
  BY <1>1, <1>4, <1>5 DEF TabInv, Present
<1>8. Pinched(q, P, 0)
  <2> SUFFICES ASSUME NEW e \in DOMAIN q.ent \ (q.astray \cup {0})
               PROVE  /\ q.ent[e].state \in {"HELD", "capturing"} => q.ent[e].by \in P
                      /\ q.ent[e].state = "HELD" => /\ q.hand[q.ent[e].by] # NoHand
                                                    /\ q.hand[q.ent[e].by].entity = e
    BY DEF Pinched
  <2>1. c.ent[e].by \in Hand
    BY <1>1, <1>4, Domains
  <2>2. /\ c.ent[e].state \in {"HELD", "capturing"} => c.ent[e].by \in P
        /\ c.ent[e].state = "HELD" => /\ c.hand[c.ent[e].by] # NoHand
                                      /\ c.hand[c.ent[e].by].entity = e
    BY <1>1, <1>4 DEF TabInv, Pinched
  <2> QED BY <1>4, <1>5, <2>1, <2>2
<1>9. \A i \in Hand : Holds(q, i) => i # h /\ Holds(c, i) /\ q.hand[i] = c.hand[i]
  BY <1>5 DEF Holds
<1>10. OnHand(q)
  BY <1>1, <1>4, <1>9 DEF TabInv, OnHand
<1>11. ~LastIsGrab(q.news, g)
  <2>1. l.news \in Seq(Events) /\ "gesture:hand-lost" \in Events
    BY <1>3, Domains DEF Events
  <2> QED BY <1>4, <2>1, LastNews
<1>12. TabInv(q, P, g, 0)
  BY <1>6, <1>7, <1>8, <1>10, <1>11 DEF TabInv, Drawn
<1>13. Moves(r, q, {})
  BY <1>1, <1>4 DEF Moves
<1> QED BY <1>2, <1>12, <1>13 DEF q, l, c


-----------------------------------------------------------------------------
(* The events of a frame, one after another: there are two at most. *)

LEMMA Unfolded ==
  ASSUME NEW r, NEW h, NEW aim, NEW bad, NEW es
  PROVE  /\ Len(es) = 0 => ForwardAll(r, h, es, aim, bad) = r
         /\ Len(es) = 1 => ForwardAll(r, h, es, aim, bad) = Forward(r, h, es[1], aim, bad)
         /\ Len(es) = 2 => ForwardAll(r, h, es, aim, bad) =
                             Forward(Forward(r, h, es[1], aim, bad), h, es[2], aim, bad)
<1> DEFINE F(q, e) == Forward(q, h, e, aim, bad)
           Eq(f) == f = [k \in 0 .. Len(es) |-> IF k = 0 THEN r ELSE F(f[k - 1], es[k])]
           up == CHOOSE f : Eq(f)
<1>1. ForwardAll(r, h, es, aim, bad) = up[Len(es)]
  BY DEF ForwardAll
<1> HIDE DEF F
<1>2. ASSUME Len(es) = 0 PROVE up[Len(es)] = r
  <2>1. Eq([k \in 0 .. 0 |-> r])
    BY <1>2
  <2>2. Eq(up)
    BY <2>1
  <2> HIDE DEF up
  <2> QED BY <1>2, <2>2
<1>3. ASSUME Len(es) = 1 PROVE up[Len(es)] = F(r, es[1])
  <2>1. Eq([k \in 0 .. 1 |-> IF k = 0 THEN r ELSE F(r, es[1])])
    BY <1>3
  <2>2. Eq(up)
    BY <2>1
  <2> HIDE DEF up
  <2>3. up[0] = r
    BY <1>3, <2>2
  <2> QED BY <1>3, <2>2, <2>3
<1>4. ASSUME Len(es) = 2 PROVE up[Len(es)] = F(F(r, es[1]), es[2])
  <2>1. Eq([k \in 0 .. 2 |-> IF k = 0 THEN r ELSE IF k = 1 THEN F(r, es[1])
                                                 ELSE F(F(r, es[1]), es[2])])
    BY <1>4
  <2>2. Eq(up)
    BY <2>1
  <2> HIDE DEF up
  <2>3. up[0] = r
    BY <1>4, <2>2
  <2>4. up[1] = F(r, es[1])
    BY <1>4, <2>2, <2>3
  <2> QED BY <1>4, <2>2, <2>4
<1> QED BY <1>1, <1>2, <1>3, <1>4 DEF F

Heard == {"hand-detected", "pinch-start", "pinch-release", "point", "open-palm", "hand-lost"}

LEMMA InTurn ==
  ASSUME NEW r, NEW h, NEW aim, NEW bad, NEW s \in Seq(Heard), NEW t \in Seq(Heard),
         Len(s) \in {0, 1}, Len(t) \in {0, 1}
  PROVE  ForwardAll(r, h, s \o t, aim, bad) =
           ForwardAll(ForwardAll(r, h, s, aim, bad), h, t, aim, bad)
<1> DEFINE F(q, e) == Forward(q, h, e, aim, bad)
           all(q, es) == ForwardAll(q, h, es, aim, bad)
           u == s \o t
<1>1. /\ Len(u) = Len(s) + Len(t)
      /\ Len(s) = 1 => u[1] = s[1]
      /\ Len(s) = 1 /\ Len(t) = 1 => u[2] = t[1]
      /\ Len(s) = 0 /\ Len(t) = 1 => u[1] = t[1]
  OBVIOUS
<1> HIDE DEF u
<1>2. \A q, es : Len(es) = 0 => all(q, es) = q
  BY Unfolded
<1>3. \A q, es : Len(es) = 1 => all(q, es) = F(q, es[1])
  BY Unfolded
<1>4. \A q, es : Len(es) = 2 => all(q, es) = F(F(q, es[1]), es[2])
  BY Unfolded
<1> HIDE DEF all, F
<1>5. all(r, u) = all(all(r, s), t)
  <2>1. CASE Len(s) = 0
    <3>1. all(r, s) = r
      BY <1>2, <2>1
    <3>2. CASE Len(t) = 0
      BY <1>1, <1>2, <2>1, <3>1, <3>2
    <3>3. CASE Len(t) = 1
      <4>1. all(r, u) = F(r, u[1]) /\ all(r, t) = F(r, t[1])
        BY <1>1, <1>3, <2>1, <3>3
      <4> QED BY <1>1, <2>1, <3>1, <3>3, <4>1
    <3> QED BY <3>2, <3>3
  <2>2. CASE Len(s) = 1
    <3>1. all(r, s) = F(r, s[1])
      BY <1>3, <2>2
    <3>2. CASE Len(t) = 0
      <4>1. all(r, u) = F(r, u[1])
        BY <1>1, <1>3, <2>2, <3>2
      <4>2. all(all(r, s), t) = all(r, s)
        BY <1>2, <3>2
      <4> QED BY <1>1, <2>2, <3>1, <4>1, <4>2
    <3>3. CASE Len(t) = 1
      <4>1. all(r, u) = F(F(r, u[1]), u[2])
        BY <1>1, <1>4, <2>2, <3>3
      <4>2. all(all(r, s), t) = F(all(r, s), t[1])
        BY <1>3, <3>3
      <4> QED BY <1>1, <2>2, <3>1, <3>3, <4>1, <4>2
    <3> QED BY <3>2, <3>3
  <2> QED BY <2>1, <2>2
<1> QED BY <1>5 DEF all, u

(* There is at most one event of a kind. *)
LEMMA FewEvents ==
  /\ Leaving(None) = <<>>
  /\ \A h : Detected(h) \in Seq(Heard) /\ Len(Detected(h)) \in {0, 1}
  /\ \A from : Leaving(from) \in Seq(Heard) /\ Len(Leaving(from)) \in {0, 1}
  /\ \A to : Entering(to) \in Seq(Heard) /\ Len(Entering(to)) \in {0, 1}
  /\ <<"hand-lost">> \in Seq(Heard) /\ Len(<<"hand-lost">>) \in {0, 1}
<1> DEFINE Few(s) == s \in Seq(Heard) /\ Len(s) \in {0, 1}
<1>1. Few(<<>>)
  OBVIOUS
<1>2. /\ Few(<<"hand-detected">>) /\ Few(<<"pinch-start">>) /\ Few(<<"pinch-release">>)
      /\ Few(<<"open-palm">>) /\ Few(<<"point">>) /\ Few(<<"hand-lost">>)
  BY DEF Heard
<1> HIDE DEF Few
<1>3. Leaving(None) = <<>>
  BY DEF Leaving, None
<1>4. \A h : Few(Detected(h))
  BY <1>1, <1>2 DEF Detected
<1>5. \A from : Few(Leaving(from))
  BY <1>1, <1>2 DEF Leaving
<1>6. \A to : Few(Entering(to))
  <2>1. ASSUME NEW to PROVE Few(Entering(to))
    <3>1. CASE to = "pinch"
      BY <1>2, <3>1 DEF Entering
    <3>2. CASE to = "open-palm"
      BY <1>2, <3>2 DEF Entering
    <3>3. CASE to = "point"
      BY <1>2, <3>3 DEF Entering
    <3>4. CASE to \notin {"pinch", "open-palm", "point"}
      BY <1>1, <3>4 DEF Entering
    <3> QED BY <3>1, <3>2, <3>3, <3>4
  <2> QED BY <2>1
<1> QED BY <1>2, <1>3, <1>4, <1>5, <1>6 DEF Few

(* The hand is first noticed. *)
LEMMA Detects ==
  ASSUME stage \in Attached, NEW r, NEW P, NEW g, TabInv(r, P, g, 0),
         NEW h \in Hand, NEW aim, NEW bad
  PROVE  LET q == ForwardAll(r, h, Detected(h), aim, bad) IN
           TabInv(q, P, g, 0) /\ Moves(r, q, {})
<1>1. r \in Tables
  BY DEF TabInv, Well
<1>2. CASE Detected(h) = <<>>
  BY <1>1, <1>2, Unfolded, Unmoved
<1>3. CASE Detected(h) = <<"hand-detected">>
  <2>1. ForwardAll(r, h, Detected(h), aim, bad) = Ensure(r, h)
    <3>1. ForwardAll(r, h, <<"hand-detected">>, aim, bad)
            = Forward(r, h, "hand-detected", aim, bad)
      BY Unfolded
    <3>2. Forward(r, h, "hand-detected", aim, bad) = Ensure(r, h)
      BY DEF Forward, Handle
    <3> QED BY <1>3, <3>1, <3>2
  <2>2. TabInv(Ensure(r, h), P, g, 0) /\ Ensure(r, h).ent = r.ent
    BY Ensured
  <2> QED BY <1>1, <2>1, <2>2, Unmoved
<1> QED BY <1>2, <1>3 DEF Detected

(* The hand leaves the gesture "from". *)
LEMMA Leaves ==
  ASSUME stage \in Attached, NEW r, NEW P, NEW g, TabInv(r, P, g, 0),
         NEW h \in Hand, NEW aim \in Aims, NEW bad,
         NEW from \in Gesture, h \in P <=> from = "pinch"
  PROVE  LET q == ForwardAll(r, h, Leaving(from), aim, bad) IN
           TabInv(q, P \ {h}, g, 0) /\ Moves(r, q, {h} \cap P)
<1>1. r \in Tables
  BY DEF TabInv, Well
<1>2. CASE from # "pinch"
  <2>1. ForwardAll(r, h, Leaving(from), aim, bad) = r
    BY <1>2, Unfolded DEF Leaving
  <2>2. P \ {h} = P
    BY <1>2
  <2> QED BY <1>1, <2>1, <2>2, Unmoved
<1>3. CASE from = "pinch"
  <2> DEFINE q == OnRelease([r EXCEPT !.astray = @ \cup Capturing(r, h)], h, aim, bad)
  <2>1. ForwardAll(r, h, Leaving(from), aim, bad) = q
    <3>1. ForwardAll(r, h, <<"pinch-release">>, aim, bad)
            = Forward(r, h, "pinch-release", aim, bad)
      BY Unfolded
    <3>2. Forward(r, h, "pinch-release", aim, bad) = q
      BY DEF Forward, Handle
    <3> QED BY <1>3, <3>1, <3>2 DEF Leaving
  <2>2. TabInv(q, P \ {h}, g, 0) /\ Moves(r, q, {h})
    BY Releases
  <2> HIDE DEF q
  <2>3. {h} \cap P = {h}
    BY <1>3
  <2> QED BY <2>1, <2>2, <2>3
<1> QED BY <1>2, <1>3

(* The hand, which does not pinch, enters the gesture "to". *)
LEMMA Enters ==
  ASSUME stage \in Attached, NEW r, NEW P, NEW g, TabInv(r, P, g, 0),
         NEW h \in Hand, h \notin P, NEW aim \in Aims, NEW bad, NEW to \in Gesture
  PROVE  LET q == ForwardAll(r, h, Entering(to), aim, bad) IN
           TabInv(q, IF to = "pinch" THEN P \cup {h} ELSE P, g, 0) /\ Moves(r, q, {})
<1>1. r \in Tables
  BY DEF TabInv, Well
<1>2. CASE to = "pinch"
  <2>1. ForwardAll(r, h, Entering(to), aim, bad) = OnGrab(r, h)
    <3>1. ForwardAll(r, h, <<"pinch-start">>, aim, bad) = Forward(r, h, "pinch-start", aim, bad)
      BY Unfolded
    <3>2. Forward(r, h, "pinch-start", aim, bad) = OnGrab(r, h)
      BY DEF Forward, Handle
    <3> QED BY <1>2, <3>1, <3>2 DEF Entering
  <2> QED BY <1>2, <2>1, Grabs
<1>3. CASE to = "open-palm"
  <2>1. ForwardAll(r, h, Entering(to), aim, bad) = OnCancel(r, h)
    <3>1. ForwardAll(r, h, <<"open-palm">>, aim, bad) = Forward(r, h, "open-palm", aim, bad)
      BY Unfolded
    <3>2. Forward(r, h, "open-palm", aim, bad) = OnCancel(r, h)
      BY DEF Forward, Handle
    <3> QED BY <1>3, <3>1, <3>2 DEF Entering
  <2> QED BY <1>3, <2>1, Cancels
<1>4. CASE to = "point"
  <2>1. ForwardAll(r, h, Entering(to), aim, bad) = OnAim(r, h, aim)
    <3>1. ForwardAll(r, h, <<"point">>, aim, bad) = Forward(r, h, "point", aim, bad)
      BY Unfolded
    <3>2. Forward(r, h, "point", aim, bad) = OnAim(r, h, aim)
      BY DEF Forward, Handle
    <3> QED BY <1>4, <3>1, <3>2 DEF Entering
  <2>2. TabInv(OnAim(r, h, aim), P, g, 0) /\ OnAim(r, h, aim).ent = r.ent
    BY Aimed
  <2> QED BY <1>1, <1>4, <2>1, <2>2, Unmoved
<1>5. CASE to \notin {"pinch", "open-palm", "point"}
  <2>1. ForwardAll(r, h, Entering(to), aim, bad) = r
    BY <1>5, Unfolded DEF Entering
  <2> QED BY <1>1, <1>5, <2>1, Unmoved
<1> QED BY <1>2, <1>3, <1>4, <1>5

(* The hand is overdue. *)
LEMMA IsLost ==
  ASSUME stage \in Attached, NEW r, NEW P, NEW g, TabInv(r, P, g, 0),
         NEW h \in Hand, NEW aim \in Aims, NEW bad,
         pipe[h] \in Pipeline, h \in P <=> pipe[h].active = "pinch"
  PROVE  LET q == ForwardAll(r, h, LostEvents(pipe[h]), aim, bad) IN
           TabInv(q, P \ {h}, g, 0) /\ Moves(r, q, {h} \cap P)
<1> DEFINE from == pipe[h].active
           m == ForwardAll(r, h, Leaving(from), aim, bad)
           q == Emit(OnHandLost(m, h), "gesture:hand-lost")
<1>1. from \in Gesture
  BY DEF Pipeline
<1>2. TabInv(m, P \ {h}, g, 0) /\ Moves(r, m, {h} \cap P)
  BY <1>1, Leaves
<1>4. ForwardAll(r, h, LostEvents(pipe[h]), aim, bad)
        = ForwardAll(m, h, <<"hand-lost">>, aim, bad)
  <2>1. LostEvents(pipe[h]) = Leaving(from) \o <<"hand-lost">>
    BY DEF LostEvents
  <2> QED BY <2>1, FewEvents, InTurn
<1> HIDE DEF m
<1>5. ForwardAll(m, h, <<"hand-lost">>, aim, bad) = Forward(m, h, "hand-lost", aim, bad)
  BY Unfolded
<1>6. Forward(m, h, "hand-lost", aim, bad) = q
  BY DEF Forward, Handle
<1>7. TabInv(q, P \ {h}, g, 0) /\ Moves(m, q, {})
  BY <1>2, Loses
<1>8. r \in Tables /\ m \in Tables /\ q \in Tables /\ Len(q.ent) \in Nat
  BY <1>2, <1>7, Domains DEF TabInv, Well
<1> HIDE DEF q
<1>9. Moves(r, q, {h} \cap P)
  BY <1>2, <1>7, <1>8, MovesOn
<1> QED BY <1>4, <1>5, <1>6, <1>7, <1>9 DEF q


(* The filter of one hand. *)
LEMMA Filtered ==
  ASSUME NEW p \in Pipeline, NEW gs \in Gesture
  PROVE  /\ Updated(p, gs) \in Pipeline
         /\ ~Confirmed(p, gs) => /\ Updated(p, gs).active = p.active
                                 /\ GestureEvents(p, gs) = <<>>
         /\ Confirmed(p, gs) =>
              /\ Updated(p, gs).active = gs /\ gs # p.active
              /\ GestureEvents(p, gs) = Leaving(p.active) \o Entering(gs)
<1> DEFINE c == IF gs = p.active THEN 0 ELSE IF p.candidate # gs THEN 1 ELSE p.count + 1
<1>1. p.candidate \in Gesture /\ p.count \in 0 .. EnterFrames /\ p.active \in Gesture
      /\ p = [candidate |-> p.candidate, count |-> p.count, active |-> p.active]
      /\ EnterFrames \in Nat \ {0}
  BY EnterFramesAssumption DEF Pipeline
<1>2. Debounced(p, gs) = [candidate |-> gs, count |-> c, active |-> p.active]
  <2>1. Debounced(p, gs) = [p EXCEPT !.candidate = gs, !.count = c]
    BY DEF Debounced
  <2> HIDE DEF c
  <2>2. [p EXCEPT !.candidate = gs, !.count = c]
          = [candidate |-> gs, count |-> c, active |-> p.active]
    <3>1. [p EXCEPT !.candidate = gs]
            = [candidate |-> gs, count |-> p.count, active |-> p.active]
      BY DEF Pipeline
    <3>2. [[candidate |-> gs, count |-> p.count, active |-> p.active] EXCEPT !.count = c]
            = [candidate |-> gs, count |-> c, active |-> p.active]
      OBVIOUS
    <3> QED BY <3>1, <3>2
  <2> QED BY <2>1, <2>2
<1>3. Debounced(p, gs).count = c
  BY <1>2
<1>4. c \in Nat
  BY <1>1
<1>5. CASE Confirmed(p, gs)
  <2>1. Updated(p, gs) = [candidate |-> gs, count |-> 0, active |-> gs]
    BY <1>5 DEF Updated
  <2>2. Updated(p, gs) \in Pipeline /\ Updated(p, gs).active = gs
    BY <1>1, <2>1 DEF Pipeline
  <2>3. gs # p.active
    BY <1>5 DEF Confirmed
  <2>4. GestureEvents(p, gs) = Leaving(p.active) \o Entering(gs)
    BY <1>5 DEF GestureEvents
  <2> QED BY <1>5, <2>2, <2>3, <2>4
<1>6. CASE ~Confirmed(p, gs)
  <2>1. c \in 0 .. EnterFrames
    BY <1>1, <1>3, <1>4, <1>6 DEF Confirmed
  <2> HIDE DEF c
  <2>2. Updated(p, gs) = [candidate |-> gs, count |-> c, active |-> p.active]
    BY <1>2, <1>6 DEF Updated
  <2>3. Updated(p, gs) \in Pipeline /\ Updated(p, gs).active = p.active
    BY <1>1, <2>1, <2>2 DEF Pipeline
  <2>4. GestureEvents(p, gs) = <<>>
    BY <1>6 DEF GestureEvents
  <2> QED BY <1>6, <2>3, <2>4
<1> QED BY <1>5, <1>6

LEMMA Pipes ==
  ASSUME pipe \in [Hand -> Pipeline \cup {NoPipe}], NEW h \in Hand
  PROVE  /\ PipeOf(h) \in Pipeline /\ NewPipe \in Pipeline /\ NewPipe.active = None
         /\ Pinching(h) <=> PipeOf(h).active = "pinch"
         /\ pipe[h] # NoPipe => pipe[h] \in Pipeline /\ PipeOf(h) = pipe[h]
         /\ Pinching(h) => pipe[h] \in Pipeline
         /\ pipe[h] = NoPipe => PipeOf(h) = NewPipe
<1>1. EnterFrames \in Nat \ {0}
  BY EnterFramesAssumption
<1>2. NewPipe \in Pipeline /\ NewPipe.active = None /\ None # "pinch"
  BY <1>1 DEF NewPipe, Pipeline, Gesture, None
<1>3. Pinching(h) <=> pipe[h] # NoPipe /\ pipe[h].active = "pinch"
  BY DEF Pinching, Tracked
<1> QED BY <1>2, <1>3 DEF PipeOf

(* The gesture events of a hand with pipeline p. *)
LEMMA Gestures ==
  ASSUME stage \in Attached, NEW r, NEW P, NEW g, TabInv(r, P, g, 0),
         NEW h \in Hand, NEW aim \in Aims, NEW bad,
         NEW p \in Pipeline, h \in P <=> p.active = "pinch", NEW gs \in Gesture
  PROVE  LET q == ForwardAll(r, h, GestureEvents(p, gs), aim, bad)
             Q == IF Updated(p, gs).active = "pinch" THEN P \cup {h} ELSE P \ {h}
         IN TabInv(q, Q, g, 0) /\ Moves(r, q, P \ Q)
<1> DEFINE q == ForwardAll(r, h, GestureEvents(p, gs), aim, bad)
           Q == IF Updated(p, gs).active = "pinch" THEN P \cup {h} ELSE P \ {h}
           m == ForwardAll(r, h, Leaving(p.active), aim, bad)
<1>1. r \in Tables
  BY DEF TabInv, Well
<1>2. CASE ~Confirmed(p, gs)
  <2>1. Updated(p, gs).active = p.active /\ GestureEvents(p, gs) = <<>>
    BY <1>2, Filtered
  <2>2. Q = P
    BY <2>1
  <2>3. q = r
    BY <2>1, Unfolded
  <2> QED BY <1>1, <2>2, <2>3, Unmoved
<1>3. CASE Confirmed(p, gs)
  <2>1. /\ Updated(p, gs).active = gs /\ gs # p.active
        /\ GestureEvents(p, gs) = Leaving(p.active) \o Entering(gs)
    BY <1>3, Filtered
  <2>2. p.active \in Gesture
    BY DEF Pipeline
  <2>3. TabInv(m, P \ {h}, g, 0) /\ Moves(r, m, {h} \cap P)
    BY <2>2, Leaves
  <2>4. q = ForwardAll(m, h, Entering(gs), aim, bad)
    BY <2>1, FewEvents, InTurn
  <2> HIDE DEF m, q
  <2>5. /\ TabInv(q, IF gs = "pinch" THEN (P \ {h}) \cup {h} ELSE P \ {h}, g, 0)
        /\ Moves(m, q, {})
    <3> DEFINE O == P \ {h}
    <3>1. h \notin O
      OBVIOUS
    <3> HIDE DEF O
    <3>2. TabInv(m, O, g, 0)
      BY <2>3 DEF O
    <3>3. /\ TabInv(q, IF gs = "pinch" THEN O \cup {h} ELSE O, g, 0)
          /\ Moves(m, q, {})
      BY <2>4, <3>1, <3>2, Enters
    <3> QED BY <3>3 DEF O
  <2>6. Q = IF gs = "pinch" THEN (P \ {h}) \cup {h} ELSE P \ {h}
    BY <2>1
  <2>7. {h} \cap P \subseteq P \ Q
    BY <2>1
  <2> HIDE DEF Q
  <2>8. m \in Tables /\ Len(q.ent) \in Nat
    BY <2>3, <2>5, Domains DEF TabInv, Well
  <2>9. Moves(r, q, P \ Q)
    BY <1>1, <2>3, <2>5, <2>7, <2>8, MovesOn
  <2> QED BY <2>5, <2>6, <2>9 DEF q, Q
<1> QED BY <1>2, <1>3

(* A frame that shows the hand h. *)
LEMMA Shows ==
  ASSUME stage \in Attached, pipe \in [Hand -> Pipeline \cup {NoPipe}],
         NEW r, NEW P, NEW g, TabInv(r, P, g, 0),
         NEW h \in Hand, h \in P <=> Pinching(h), NEW aim \in Aims, NEW bad, NEW gs \in Gesture
  PROVE  LET q == ForwardAll(r, h, Detected(h) \o GestureEvents(PipeOf(h), gs), aim, bad)
             Q == IF Updated(PipeOf(h), gs).active = "pinch" THEN P \cup {h} ELSE P \ {h}
         IN TabInv(q, Q, g, 0) /\ Moves(r, q, P \ Q)
<1> DEFINE p == PipeOf(h)
           m == ForwardAll(r, h, Detected(h), aim, bad)
           q == ForwardAll(m, h, GestureEvents(p, gs), aim, bad)
           Q == IF Updated(p, gs).active = "pinch" THEN P \cup {h} ELSE P \ {h}
<1>1. TabInv(m, P, g, 0) /\ Moves(r, m, {})
  BY Detects
<1>2. p \in Pipeline /\ (h \in P <=> p.active = "pinch")
  BY Pipes
<1>3. ForwardAll(r, h, Detected(h) \o GestureEvents(p, gs), aim, bad) = q
  <2>1. CASE pipe[h] = NoPipe
    <3>1. p.active = None
      BY <2>1, Pipes
    <3>2. Leaving(p.active) = <<>>
      BY <3>1, FewEvents
    <3>3. GestureEvents(p, gs) \in {<<>>, Entering(gs)}
      <4>1. <<>> \o Entering(gs) = Entering(gs)
        BY FewEvents
      <4> QED BY <3>2, <4>1 DEF GestureEvents
    <3>4. /\ GestureEvents(p, gs) \in Seq(Heard) /\ Len(GestureEvents(p, gs)) \in {0, 1}
          /\ Detected(h) \in Seq(Heard) /\ Len(Detected(h)) \in {0, 1}
      BY <3>3, FewEvents
    <3> HIDE DEF p
    <3> QED BY <3>4, InTurn
  <2>2. CASE pipe[h] # NoPipe
    <3>1. Detected(h) = <<>>
      BY <2>2 DEF Detected
    <3>2. <<>> \o GestureEvents(p, gs) = GestureEvents(p, gs)
      <4>1. Leaving(p.active) \o Entering(gs) \in Seq(Heard) /\ <<>> \in Seq(Heard)
        <5>1. Leaving(p.active) \in Seq(Heard) /\ Entering(gs) \in Seq(Heard)
          BY FewEvents
        <5> QED BY <5>1
      <4>2. GestureEvents(p, gs) \in Seq(Heard)
        BY <4>1 DEF GestureEvents
      <4> QED BY <4>2
    <3>3. m = r
      BY <3>1, Unfolded
    <3> QED BY <3>1, <3>2, <3>3
  <2> QED BY <2>1, <2>2
<1> HIDE DEF m, p
<1>4. TabInv(q, Q, g, 0) /\ Moves(m, q, P \ Q)
  BY <1>1, <1>2, Gestures
<1> HIDE DEF q, Q
<1>5. r \in Tables /\ m \in Tables /\ Len(q.ent) \in Nat
  BY <1>1, <1>4, Domains DEF TabInv, Well
<1>6. Moves(r, q, P \ Q)
  BY <1>1, <1>4, <1>5, MovesOn
<1> QED BY <1>3, <1>4, <1>6 DEF q, Q, p


(* Then the one that is overdue, if any. *)
LEMMA Loss ==
  ASSUME stage \in Attached, pipe \in [Hand -> Pipeline \cup {NoPipe}],
         NEW r, NEW P, NEW g, TabInv(r, P, g, 0),
         NEW lost \in Tracked \cup {NoHand}, lost \in P <=> lost \in PinchingHands,
         NEW aim \in Aims, NEW bad
  PROVE  LET q == Lose(r, lost, aim, bad)
         IN TabInv(q, P \ {lost}, g, 0) /\ Moves(r, q, P \cap {lost})
<1>1. r \in Tables /\ P \subseteq Hand
  BY DEF TabInv, Well, Present
<1>2. CASE lost = NoHand
  <2>1. P \ {lost} = P /\ Lose(r, lost, aim, bad) = r
    BY <1>1, <1>2, HandAssumption DEF Lose
  <2> QED BY <1>1, <2>1, Unmoved
<1>3. CASE lost # NoHand
  <2>1. lost \in Hand /\ pipe[lost] # NoPipe
    BY <1>3 DEF Tracked
  <2>2. pipe[lost] \in Pipeline /\ (Pinching(lost) <=> pipe[lost].active = "pinch")
    BY <2>1, Pipes
  <2>3. lost \in P <=> pipe[lost].active = "pinch"
    BY <2>1, <2>2 DEF PinchingHands
  <2>4. Lose(r, lost, aim, bad) = ForwardAll(r, lost, LostEvents(pipe[lost]), aim, bad)
    BY <1>3 DEF Lose
  <2>5. P \cap {lost} = {lost} \cap P
    OBVIOUS
  <2>6. LET q == ForwardAll(r, lost, LostEvents(pipe[lost]), aim, bad)
        IN TabInv(q, P \ {lost}, g, 0) /\ Moves(r, q, {lost} \cap P)
    BY <2>1, <2>2, <2>3, IsLost
  <2> QED BY <2>4, <2>5, <2>6
<1> QED BY <1>2, <1>3

(* What was emitted goes out on the wire. *)
LEMMA WireTells ==
  ASSUME NEW w \in Seq(Events), NEW news \in Seq(Events), NEW v \in BOOLEAN
  PROVE  LastIsGrab(w \o news, v) = LastIsGrab(news, LastIsGrab(w, v))
<1>1. CASE news = <<>>
  <2>1. w \o news = w
    BY <1>1
  <2> QED BY <1>1, <2>1 DEF LastIsGrab
<1>2. CASE news # <<>>
  <2>1. /\ Len(w) \in Nat /\ Len(news) \in Nat \ {0}
        /\ Len(w \o news) = Len(w) + Len(news)
        /\ (w \o news)[Len(w) + Len(news)] = news[Len(news)]
        /\ w \o news # <<>>
    BY <1>2
  <2> QED BY <1>2, <2>1 DEF LastIsGrab
<1> QED BY <1>1, <1>2

LEMMA Broadcasts ==
  ASSUME BrowserInv, NEW n, NEW P, TabInv(n, P, Told, 0), Broadcast(n)
  PROVE  /\ BrowserInv' /\ TabInv(rt', P, Told', 0) /\ rt'.news = <<>>
         /\ Len(rt'.ent) <= MaxGrabs /\ rt'.ent = n.ent /\ rt'.astray = n.astray
         /\ rt'.hand = n.hand
<1>1. n \in Tables /\ n.news \in Seq(Events)
  BY Domains DEF TabInv, Well
<1>2. /\ rt' \in Tables /\ rt'.news = <<>> /\ rt'.ent = n.ent /\ rt'.astray = n.astray
      /\ rt'.hand = n.hand /\ rt'.ledger = n.ledger
  <2>1. rt' = [n EXCEPT !.news = <<>>]
    BY DEF Broadcast
  <2>2. <<>> \in Seq(Events)
    OBVIOUS
  <2> QED BY <1>1, <2>1, <2>2 DEF Tables
<1>3. Len(rt'.ent) <= MaxGrabs
  BY <1>2 DEF Broadcast
<1>4. BrowserInv'
  <2>1. wire' \in Seq(Events)
    BY <1>1 DEF BrowserInv, Broadcast
  <2> QED BY <2>1 DEF BrowserInv, Broadcast
<1>5. Well(rt') /\ Tells(rt'.ledger, rt'.ent, 0) /\ Present(rt', P) /\ Pinched(rt', P, 0)
      /\ OnHand(rt')
  BY <1>2 DEF TabInv, Well, Present, Pinched, OnHand, Holds
<1>6. Drawn(rt', Told')
  <2>1. LastIsGrab(rt'.news, Told') = LastIsGrab(wire', view')
    BY <1>2 DEF LastIsGrab, Told
  <2>2. LastIsGrab(wire', view') => LastIsGrab(n.news, Told)
    <3>1. CASE browser
      <4>1. wire' = wire \o n.news /\ view' = view
        BY <3>1 DEF Broadcast
      <4> QED BY <1>1, <4>1, WireTells DEF BrowserInv, Told
    <3>2. CASE ~browser
      <4>1. wire' = <<>> /\ ~view'
        BY <3>2 DEF Broadcast, BrowserInv
      <4> QED BY <4>1 DEF LastIsGrab
    <3> QED BY <3>1, <3>2
  <2> QED BY <1>2, <2>1, <2>2 DEF TabInv, Drawn, Holds
<1> QED BY <1>2, <1>3, <1>4, <1>5, <1>6 DEF TabInv

(* A frame keeps the invariant, and nothing is sent off but by a hand that stops
   pinching in it. *)
LEMMA FrameKeeps ==
  ASSUME ExperienceInv, NEW h \in Hand, NEW gs \in Gesture, NEW lost \in Tracked \cup {NoHand},
         NEW aim \in Aims, NEW bad, Frame(h, gs, lost, aim, bad)
  PROVE  ExperienceInv' /\ Moves(rt, rt', PinchingHands \ PinchingHands')
<1> DEFINE P == PinchingHands
           u == Updated(PipeOf(h), gs)
           m == ForwardAll(rt, h, Detected(h) \o GestureEvents(PipeOf(h), gs), aim, bad)
           Q == IF u.active = "pinch" THEN P \cup {h} ELSE P \ {h}
           n == Lose(m, lost, aim, bad)
<1>1. /\ stage \in Attached /\ h # lost /\ stage' = stage /\ Broadcast(n)
      /\ pipe' = [i \in Hand |-> IF i = h THEN u ELSE IF i = lost THEN NoPipe ELSE pipe[i]]
  BY DEF Frame
<1>2. /\ TabInv(rt, P, Told, 0) /\ pipe \in [Hand -> Pipeline \cup {NoPipe}] /\ BrowserInv
      /\ stage \in {"up", "closing", "detached", "stopped"}
  BY DEF ExperienceInv, EngineInv
<1>3. u \in Pipeline /\ u # NoPipe
  BY <1>2, Pipes, Filtered, NoPipeAssumption
<1>4. TabInv(m, Q, Told, 0) /\ Moves(rt, m, P \ Q)
  BY <1>1, <1>2, Shows DEF PinchingHands
<1> HIDE DEF m
<1>5. lost \in Q <=> lost \in PinchingHands
  BY <1>1
<1>6. TabInv(n, Q \ {lost}, Told, 0) /\ Moves(m, n, Q \cap {lost})
  BY <1>1, <1>2, <1>4, <1>5, Loss
<1> HIDE DEF n
<1>7. PinchingHands' = Q \ {lost}
  <2>1. \A i \in Hand : pipe'[i] = IF i = h THEN u ELSE IF i = lost THEN NoPipe ELSE pipe[i]
    BY <1>1
  <2>2. \A i \in Hand : Pinching(i)' <=> pipe'[i] # NoPipe /\ pipe'[i].active = "pinch"
    BY DEF Pinching, Tracked
  <2>3. \A i \in Hand : Pinching(i) <=> pipe[i] # NoPipe /\ pipe[i].active = "pinch"
    BY DEF Pinching, Tracked
  <2> HIDE DEF u
  <2> QED BY <1>1, <1>3, <2>1, <2>2, <2>3 DEF PinchingHands
<1>8. /\ BrowserInv' /\ TabInv(rt', Q \ {lost}, Told', 0) /\ rt'.news = <<>>
      /\ Len(rt'.ent) <= MaxGrabs /\ rt'.ent = n.ent
  BY <1>1, <1>2, <1>6, Broadcasts
<1>9. EngineInv' /\ DetachedInv'
  BY <1>1, <1>2, <1>3 DEF EngineInv, DetachedInv, Attached
<1>10. ExperienceInv'
  BY <1>7, <1>8, <1>9 DEF ExperienceInv
<1>11. rt \in Tables /\ m \in Tables /\ Len(n.ent) \in Nat
  BY <1>2, <1>4, <1>6, Domains DEF TabInv, Well
<1>12. P \ Q \subseteq PinchingHands \ PinchingHands'
       /\ Q \cap {lost} \subseteq PinchingHands \ PinchingHands'
  BY <1>5, <1>7
<1>13. Moves(rt, n, PinchingHands \ PinchingHands')
  BY <1>4, <1>6, <1>11, <1>12, MovesOn
<1>14. Moves(rt, rt', PinchingHands \ PinchingHands')
  BY <1>8, <1>13 DEF Moves
<1> QED BY <1>10, <1>14


LEMMA BlankKeeps ==
  ASSUME ExperienceInv, NEW lost \in Tracked, NEW aim \in Aims, NEW bad,
         EmptyFrame(lost, aim, bad)
  PROVE  ExperienceInv' /\ Moves(rt, rt', PinchingHands \ PinchingHands')
<1> DEFINE P == PinchingHands
           n == Lose(rt, lost, aim, bad)
<1>1. /\ stage \in Attached /\ stage' = stage /\ Broadcast(n)
      /\ pipe' = [pipe EXCEPT ![lost] = NoPipe]
  BY DEF EmptyFrame
<1>2. /\ TabInv(rt, P, Told, 0) /\ pipe \in [Hand -> Pipeline \cup {NoPipe}] /\ BrowserInv
      /\ stage \in {"up", "closing", "detached", "stopped"} /\ lost \in Hand
  BY DEF ExperienceInv, EngineInv, Tracked
<1>3. TabInv(n, P \ {lost}, Told, 0) /\ Moves(rt, n, P \cap {lost})
  BY <1>1, <1>2, Loss
<1> HIDE DEF n
<1>4. PinchingHands' = P \ {lost}
  <2>1. \A i \in Hand : pipe'[i] = IF i = lost THEN NoPipe ELSE pipe[i]
    BY <1>1, <1>2
  <2>2. \A i \in Hand : Pinching(i)' <=> pipe'[i] # NoPipe /\ pipe'[i].active = "pinch"
    BY DEF Pinching, Tracked
  <2>3. \A i \in Hand : Pinching(i) <=> pipe[i] # NoPipe /\ pipe[i].active = "pinch"
    BY DEF Pinching, Tracked
  <2> QED BY <2>1, <2>2, <2>3 DEF PinchingHands
<1>5. /\ BrowserInv' /\ TabInv(rt', P \ {lost}, Told', 0) /\ rt'.news = <<>>
      /\ Len(rt'.ent) <= MaxGrabs /\ rt'.ent = n.ent
  BY <1>1, <1>2, <1>3, Broadcasts
<1>6. EngineInv' /\ DetachedInv'
  BY <1>1, <1>2 DEF EngineInv, DetachedInv, Attached
<1>7. ExperienceInv'
  BY <1>4, <1>5, <1>6 DEF ExperienceInv
<1>8. P \cap {lost} = PinchingHands \ PinchingHands'
  BY <1>4
<1>9. Moves(rt, rt', PinchingHands \ PinchingHands')
  BY <1>3, <1>5, <1>8 DEF Moves
<1> QED BY <1>7, <1>9

-----------------------------------------------------------------------------
(* What follows an await moves one entity, which no hand holds. *)

(* What is HELD stays so. *)
HeldStays == \A x \in DOMAIN rt.ent : rt.ent[x].state = "HELD" => rt'.ent[x].state = "HELD"

LEMMA AwaitKeeps ==
  ASSUME ExperienceInv, NEW n, TabInv(n, PinchingHands, Told, 0), Broadcast(n),
         UNCHANGED engine, NEW e \in DOMAIN rt.ent, NEW s, Only(rt, n, e, s),
         rt.ent[e].state # "HELD",
         s \in {"HELD", "capturing"} => rt.ent[e].state = "capturing",
         rt.astray \subseteq n.astray
  PROVE  ExperienceInv' /\ HeldStays
<1>1. /\ BrowserInv' /\ TabInv(rt', PinchingHands, Told', 0) /\ rt'.news = <<>>
      /\ Len(rt'.ent) <= MaxGrabs /\ rt'.ent = n.ent /\ rt'.astray = n.astray
  BY Broadcasts DEF ExperienceInv
<1>2. PinchingHands' = PinchingHands
  BY DEF PinchingHands, Pinching, Tracked, engine
<1>3. EngineInv'
  BY DEF ExperienceInv, EngineInv, engine
<1>4. /\ rt \in Tables /\ DOMAIN rt'.ent = DOMAIN rt.ent
      /\ \A x \in DOMAIN rt.ent : rt'.ent[x].state = IF x = e THEN s ELSE rt.ent[x].state
  <2>1. rt \in Tables /\ n \in Tables
    BY DEF ExperienceInv, TabInv, Well
  <2>2. DOMAIN n.ent = DOMAIN rt.ent
    BY <2>1, OnlyState, Domains
  <2> QED BY <1>1, <2>1, <2>2, OnlyState
<1>5. DetachedInv'
  <2> SUFFICES ASSUME stage \notin Attached, NEW x \in DOMAIN rt'.ent,
                      rt'.ent[x].state \in {"HELD", "capturing"}
               PROVE  x \in rt'.astray
    BY DEF DetachedInv, Attached, engine
  <2>1. rt.ent[x].state \in {"HELD", "capturing"}
    BY <1>4
  <2> QED BY <1>1, <1>4, <2>1 DEF ExperienceInv, DetachedInv
<1>6. ExperienceInv'
  BY <1>1, <1>2, <1>3, <1>5 DEF ExperienceInv
<1>7. HeldStays
  BY <1>4 DEF HeldStays
<1> QED BY <1>6, <1>7

LEMMA ProvidedKeeps ==
  ASSUME ExperienceInv, NEW e, Provided(e)
  PROVE  ExperienceInv' /\ HeldStays
<1> DEFINE P == PinchingHands
           h == rt.ent[e].by
           gone == rt.astray \cup Displaced(rt, h)
           made == [rt EXCEPT !.ent[e].state = "CREATED", !.astray = gone]
           c == [rt EXCEPT !.astray = gone]
           q == At(c, e, "HELD")
           a == Attach(q, h, e)
           n == Emit(a, "hand:grab")
<1>1. TabInv(rt, P, Told, 0) /\ rt \in Tables /\ Well(rt)
  BY DEF ExperienceInv, TabInv, Well
<1>2. /\ e \in DOMAIN rt.ent /\ rt.ent[e].state = "capturing" /\ Broadcast(Grabbed(rt, e))
      /\ UNCHANGED engine /\ h \in Hand /\ e \in Nat \ {0}
  BY <1>1, Domains DEF Provided, In
<1> HIDE DEF h
<1>3. /\ gone \subseteq DOMAIN rt.ent /\ gone \subseteq Nat
      /\ \A x \in DOMAIN rt.ent : x \notin gone =>
           x \notin rt.astray /\ ~(Holds(rt, h) /\ rt.hand[h].entity = x)
      /\ rt.astray \subseteq gone
  BY <1>1, <1>2, Domains, HandValues DEF Displaced, Holds, Well
<1> HIDE DEF gone
<1>4. /\ c \in Tables /\ c.ent = rt.ent /\ c.hand = rt.hand /\ c.ledger = rt.ledger
      /\ c.news = rt.news /\ c.astray = gone
  BY <1>1, <1>3 DEF Tables
<1>5. made = At(c, e, "CREATED")
  BY <1>1 DEF At, Tables
<1> HIDE DEF c, made
<1>6. Transition(Transition(Transition(made, e, "SELECTED"), e, "LOCKED"), e, "HELD") = q
  BY <1>2, <1>4, <1>5, Walks, StateNames, TransitionTable
<1>7. Grabbed(rt, e) = n
  BY <1>6 DEF Grabbed, made, gone, h
<1>8. /\ q \in Tables /\ q.hand = rt.hand /\ q.ledger = rt.ledger /\ q.news = rt.news
      /\ q.astray = gone /\ Only(c, q, e, "HELD")
  BY <1>2, <1>4, AtFields, StateNames
<1>9. Only(rt, q, e, "HELD")
  BY <1>4, <1>8 DEF Only
<1> HIDE DEF q
<1>10. /\ a \in Tables /\ a.ent = q.ent /\ a.ledger = q.ledger /\ a.news = q.news
       /\ a.astray = q.astray
       /\ \A i \in Hand : i # h => a.hand[i] = rt.hand[i]
       /\ rt.hand[h] = NoHand => a.hand[h] = NoHand
       /\ rt.hand[h] # NoHand => a.hand[h] # NoHand /\ a.hand[h].entity = e
  <2>1. CASE rt.hand[h] = NoHand
    BY <1>8, <2>1 DEF Attach
  <2>2. CASE rt.hand[h] # NoHand
    <3> DEFINE v == [entity |-> e, target |-> rt.hand[h].target]
    <3>1. a = SetHand(q, h, v) /\ v \in VirtualHand /\ v.entity = e
      BY <1>2, <1>8, <2>2, AttachedTo
    <3>2. v # NoHand
      BY <1>1, <1>2, <3>1, HandValues
    <3> HIDE DEF v
    <3>3. /\ a \in Tables /\ OnlyHand(q, a, h, v) /\ a.ent = q.ent /\ a.ledger = q.ledger
          /\ a.news = q.news /\ a.astray = q.astray
      BY <1>2, <1>8, <3>1, SetHandFields
    <3> HIDE DEF a
    <3> QED BY <1>2, <1>8, <2>2, <3>1, <3>2, <3>3 DEF OnlyHand
  <2> QED BY <2>1, <2>2
<1> HIDE DEF a
<1>11. /\ n \in Tables /\ n.ent = q.ent /\ n.ledger = rt.ledger /\ n.hand = a.hand
       /\ n.news = Append(rt.news, "hand:grab") /\ n.astray = gone
  BY <1>8, <1>10, EmitFields DEF Events
<1> HIDE DEF n
<1>12. Only(rt, n, e, "HELD") /\ DOMAIN n.ent = DOMAIN rt.ent
       /\ \A x \in DOMAIN rt.ent :
            /\ n.ent[x].by = rt.ent[x].by
            /\ n.ent[x].state = IF x = e THEN "HELD" ELSE rt.ent[x].state
  <2>1. Only(rt, n, e, "HELD")
    BY <1>9, <1>11 DEF Only
  <2>2. DOMAIN n.ent = DOMAIN rt.ent
    BY <1>1, <1>11, <2>1, OnlyState, Domains
  <2> QED BY <1>1, <2>1, <2>2, OnlyState
<1>13. e \notin gone => h \in P /\ rt.hand[h] # NoHand
  BY <1>1, <1>2, <1>3 DEF TabInv, Pinched, Present, h
<1>14. Well(n)
  <2>1. \A x \in DOMAIN n.ent : n.ent[x].state \in States
    BY <1>1, <1>12 DEF Well, States
  <2>2. \A i \in Hand : n.hand[i] # NoHand => n.hand[i].entity <= Len(n.ent)
    <3>1. Len(n.ent) = Len(rt.ent) /\ e <= Len(rt.ent)
      BY <1>1, <1>2, <1>12, Domains DEF Only
    <3> QED BY <1>1, <1>10, <1>11, <3>1 DEF Well
  <2>3. n.astray \subseteq DOMAIN n.ent
    BY <1>3, <1>11, <1>12
  <2> QED BY <1>11, <2>1, <2>2, <2>3 DEF Well
<1>15. Tells(n.ledger, n.ent, 0)
  BY <1>1, <1>2, <1>11, <1>12, NothingToTell DEF TabInv
<1>16. Present(n, P)
  BY <1>1, <1>10, <1>11 DEF TabInv, Present
<1>17. Pinched(n, P, 0)
  <2> SUFFICES ASSUME NEW x \in DOMAIN n.ent \ (n.astray \cup {0})
               PROVE  /\ n.ent[x].state \in {"HELD", "capturing"} => n.ent[x].by \in P
                      /\ n.ent[x].state = "HELD" => /\ n.hand[n.ent[x].by] # NoHand
                                                    /\ n.hand[n.ent[x].by].entity = x
    BY DEF Pinched
  <2>1. CASE x = e
    BY <1>2, <1>10, <1>11, <1>12, <1>13, <2>1 DEF h
  <2>2. CASE x # e
    <3>1. x \in DOMAIN rt.ent \ (rt.astray \cup {0}) /\ rt.ent[x].by \in Hand
          /\ ~(Holds(rt, h) /\ rt.hand[h].entity = x)
      BY <1>1, <1>3, <1>11, <1>12, Domains
    <3>2. /\ rt.ent[x].state \in {"HELD", "capturing"} => rt.ent[x].by \in P
          /\ rt.ent[x].state = "HELD" => /\ rt.hand[rt.ent[x].by] # NoHand
                                         /\ rt.hand[rt.ent[x].by].entity = x
      BY <1>1, <3>1 DEF TabInv, Pinched
    <3>3. rt.ent[x].state = "HELD" => rt.ent[x].by # h
      BY <3>1, <3>2 DEF Holds
    <3> QED BY <1>10, <1>11, <1>12, <2>2, <3>1, <3>2, <3>3
  <2> QED BY <2>1, <2>2
<1>18. OnHand(n)
  <2> SUFFICES ASSUME NEW i \in Hand, Holds(n, i)
               PROVE  /\ n.ent[n.hand[i].entity].state = "HELD"
                      /\ n.ent[n.hand[i].entity].by = i
    BY DEF OnHand
  <2>1. CASE i = h
    <3>1. n.hand[h].entity = e
      BY <1>10, <1>11, <2>1 DEF Holds
    <3> QED BY <1>2, <1>12, <2>1, <3>1 DEF h
  <2>2. CASE i # h
    <3>1. n.hand[i] = rt.hand[i] /\ Holds(rt, i) /\ rt.hand[i].entity \in DOMAIN rt.ent
      <4>1. n.hand[i] = rt.hand[i]
        BY <1>10, <1>11, <2>2
      <4> QED BY <1>1, <4>1, Domains, HandValues DEF Holds, Well
    <3>2. rt.ent[rt.hand[i].entity].state = "HELD" /\ rt.ent[rt.hand[i].entity].by = i
      BY <1>1, <3>1 DEF TabInv, OnHand
    <3> QED BY <1>12, <3>1, <3>2
  <2> QED BY <2>1, <2>2
<1>19. Drawn(n, Told)
  <2> SUFFICES ASSUME n.astray = {}
               PROVE  \E i \in Hand : Holds(n, i)
    BY DEF Drawn
  <2>1. rt.hand[h] # NoHand
    BY <1>11, <1>13
  <2>2. Holds(n, h)
    BY <1>2, <1>10, <1>11, <2>1 DEF Holds
  <2> QED BY <1>2, <2>2
<1>20. TabInv(n, P, Told, 0)
  BY <1>14, <1>15, <1>16, <1>17, <1>18, <1>19 DEF TabInv
<1> QED BY <1>2, <1>3, <1>7, <1>11, <1>12, <1>20, AwaitKeeps


(* The rest: an entity that is not held moves on to s. *)
LEMMA OnwardKeeps ==
  ASSUME ExperienceInv, NEW n \in Tables, Broadcast(n), UNCHANGED engine,
         NEW e \in DOMAIN rt.ent, NEW s \in States \ {"HELD", "capturing"},
         rt.ent[e].state # "HELD", Only(rt, n, e, s),
         n.hand = rt.hand, n.news = rt.news, n.astray = rt.astray,
         Tells(n.ledger, n.ent, 0)
  PROVE  ExperienceInv' /\ HeldStays
<1>1. TabInv(rt, PinchingHands, Told, 0)
  BY DEF ExperienceInv
<1>2. TabInv(n, PinchingHands, Told, 0)
  BY <1>1, Onward
<1> QED BY <1>2, AwaitKeeps

LEMMA DeclinedKeeps ==
  ASSUME ExperienceInv, NEW e, Declined(e)
  PROVE  ExperienceInv' /\ HeldStays
<1> DEFINE n == At(rt, e, "nothing")
<1>1. rt \in Tables /\ Tells(rt.ledger, rt.ent, 0)
  BY DEF ExperienceInv, TabInv, Well
<1>2. /\ e \in DOMAIN rt.ent /\ rt.ent[e].state = "capturing" /\ Broadcast(n)
      /\ UNCHANGED engine
  BY DEF Declined, In, At
<1>3. /\ n \in Tables /\ Only(rt, n, e, "nothing") /\ n.ledger = rt.ledger
      /\ n.hand = rt.hand /\ n.news = rt.news /\ n.astray = rt.astray
  BY <1>1, <1>2, AtFields, StateNames
<1> HIDE DEF n
<1>4. Tells(n.ledger, n.ent, 0)
  BY <1>1, <1>2, <1>3, NothingToTell
<1>5. "nothing" \in States \ {"HELD", "capturing"}
  BY DEF States
<1> QED BY <1>2, <1>3, <1>4, <1>5, OnwardKeeps

LEMMA FailureKeeps ==
  ASSUME ExperienceInv, NEW e, In(e, "VALIDATED") \/ In(e, "SENDING"),
         Broadcast(FailSource(rt, e)), UNCHANGED engine
  PROVE  ExperienceInv' /\ HeldStays
<1> DEFINE n == FailSource(rt, e)
<1>1. rt \in Tables /\ Tells(rt.ledger, rt.ent, 0)
  BY DEF ExperienceInv, TabInv, Well
<1>2. e \in DOMAIN rt.ent /\ rt.ent[e].state \in {"VALIDATED", "SENDING"}
  BY DEF In
<1>3. /\ n \in Tables /\ Only(rt, n, e, "FAILED") /\ Tells(n.ledger, n.ent, 0)
      /\ n.hand = rt.hand /\ n.news = rt.news /\ n.astray = rt.astray
  BY <1>1, <1>2, Fails
<1> HIDE DEF n
<1>4. "FAILED" \in States \ {"HELD", "capturing"}
  BY DEF States, Ended
<1> QED BY <1>2, <1>3, <1>4, OnwardKeeps DEF n

(* The entry of a transfer is made when the sending begins. *)
LEMMA EncryptedKeeps ==
  ASSUME ExperienceInv, NEW e, Encrypted(e)
  PROVE  ExperienceInv' /\ HeldStays
<1> DEFINE q == At(rt, e, "QUEUED")
           u == Upsert(q, e)
           n == At(u, e, "SENDING")
           d == At(rt, e, "SENDING")
           w == Upsert(d, e)
<1>1. rt \in Tables /\ Tells(rt.ledger, rt.ent, 0)
  BY DEF ExperienceInv, TabInv, Well
<1>2. /\ e \in DOMAIN rt.ent /\ rt.ent[e].state = "VALIDATED" /\ Broadcast(Started(rt, e))
      /\ UNCHANGED engine
  BY DEF Encrypted, In
<1>3. Transition(Transition(rt, e, "ENCRYPTED"), e, "QUEUED") = q
  <2>1. Transition(rt, e, "ENCRYPTED") = At(rt, e, "ENCRYPTED")
    BY <1>1, <1>2, Steps, StateNames, TransitionTable
  <2> QED BY <1>1, <1>2, <2>1, Walks, StateNames, TransitionTable
<1>4. /\ q \in Tables /\ Only(rt, q, e, "QUEUED") /\ q.ledger = rt.ledger
      /\ q.hand = rt.hand /\ q.news = rt.news /\ q.astray = rt.astray
      /\ DOMAIN q.ent = DOMAIN rt.ent
  BY <1>1, <1>2, AtFields, StateNames
<1>5. /\ d \in Tables /\ Only(rt, d, e, "SENDING") /\ d.ledger = rt.ledger
      /\ DOMAIN d.ent = DOMAIN rt.ent
  BY <1>1, <1>2, AtFields, StateNames
<1> HIDE DEF q, d
<1>6. Tells(d.ledger, d.ent, 0) /\ d.ent[e].state = "SENDING"
  BY <1>1, <1>2, <1>5, NothingToTell, OnlyState
<1>7. OnlyLedger(d, w) /\ Tells(w.ledger, d.ent, 0)
  BY <1>2, <1>5, <1>6, Upserted
<1>8. OnlyLedger(q, u)
  <2>1. Tells(q.ledger, q.ent, e)
    BY <1>1, <1>2, <1>4, TellsOthers
  <2> QED BY <1>2, <1>4, <2>1, Upserted
<1>9. u.ledger = w.ledger
  <2>1. q.ledger = d.ledger /\ (Known(q, e) <=> Known(d, e))
    BY <1>4, <1>5 DEF Known
  <2> QED BY <1>4, <1>5, <2>1 DEF Upsert, Tables
<1> HIDE DEF u, w
<1>10. e \in DOMAIN u.ent /\ u.ent[e].state = "QUEUED"
  BY <1>1, <1>2, <1>4, <1>8, OnlyState DEF OnlyLedger
<1>11. Transition(u, e, "SENDING") = n
  BY <1>8, <1>10, Steps, StateNames, TransitionTable DEF OnlyLedger
<1>12. Started(rt, e) = n
  BY <1>3, <1>11 DEF Started, u
<1>13. /\ n \in Tables /\ Only(u, n, e, "SENDING") /\ n.ledger = u.ledger
       /\ n.hand = u.hand /\ n.news = u.news /\ n.astray = u.astray
  BY <1>8, <1>10, AtFields, StateNames DEF OnlyLedger
<1> HIDE DEF n
<1>14. Only(rt, n, e, "SENDING")
  <2>1. Only(q, n, e, "SENDING")
    BY <1>8, <1>13 DEF Only, OnlyLedger
  <2>2. \A x \in DOMAIN rt.ent :
          q.ent[x] = IF x = e THEN [state |-> "QUEUED", by |-> rt.ent[x].by] ELSE rt.ent[x]
    BY <1>4 DEF Only
  <2>3. ASSUME NEW x \in DOMAIN rt.ent
        PROVE  n.ent[x] = IF x = e THEN [state |-> "SENDING", by |-> rt.ent[x].by]
                          ELSE rt.ent[x]
    <3>1. CASE x = e
      <4>1. q.ent[x].by = rt.ent[x].by
        BY <1>1, <1>4, OnlyState
      <4>2. n.ent[x] = [state |-> "SENDING", by |-> q.ent[x].by]
        BY <1>4, <2>1, <3>1 DEF Only
      <4> QED BY <3>1, <4>1, <4>2
    <3>2. CASE x # e
      BY <1>4, <2>1, <2>2, <3>2 DEF Only
    <3> QED BY <3>1, <3>2
  <2> QED BY <1>4, <2>1, <2>3 DEF Only
<1>15. n.ent = d.ent
  <2>1. n.ent \in Seq(Entity) /\ d.ent \in Seq(Entity) /\ Len(n.ent) = Len(d.ent)
    BY <1>5, <1>13, <1>14, Domains DEF Only
  <2>2. \A x \in 1..Len(n.ent) : n.ent[x] = d.ent[x]
    BY <1>1, <1>5, <1>14, Domains DEF Only
  <2> QED BY <2>1, <2>2, SeqEqual
<1>16. Tells(n.ledger, n.ent, 0)
  BY <1>7, <1>9, <1>13, <1>15
<1>17. n.hand = rt.hand /\ n.news = rt.news /\ n.astray = rt.astray
  BY <1>4, <1>8, <1>13 DEF OnlyLedger
<1>18. "SENDING" \in States \ {"HELD", "capturing"}
  BY DEF States
<1> QED BY <1>2, <1>12, <1>13, <1>14, <1>16, <1>17, <1>18, OnwardKeeps

(* A retry makes the entry anew when it was evicted. *)
LEMMA RetriedKeeps ==
  ASSUME ExperienceInv, NEW e, Retried(e)
  PROVE  ExperienceInv' /\ HeldStays
<1> DEFINE n == Upsert(rt, e)
<1>1. rt \in Tables /\ Tells(rt.ledger, rt.ent, 0)
  BY DEF ExperienceInv, TabInv, Well
<1>2. /\ e \in DOMAIN rt.ent /\ rt.ent[e].state = "SENDING" /\ Broadcast(n)
      /\ UNCHANGED engine
  BY DEF Retried, In
<1>3. OnlyLedger(rt, n) /\ Tells(n.ledger, rt.ent, 0)
  BY <1>1, <1>2, Upserted
<1> HIDE DEF n
<1>4. Only(rt, n, e, "SENDING")
  <2>1. rt.ent[e] = [state |-> "SENDING", by |-> rt.ent[e].by]
    <3>1. rt.ent[e] \in Entity
      BY <1>1, <1>2, Domains
    <3> QED BY <1>2, <3>1 DEF Entity
  <2> QED BY <1>3, <2>1 DEF Only, OnlyLedger
<1>5. "SENDING" \in States \ {"HELD", "capturing"}
  BY DEF States
<1> QED BY <1>2, <1>3, <1>4, <1>5, OnwardKeeps DEF OnlyLedger

LEMMA AnsweredKeeps ==
  ASSUME ExperienceInv, NEW e, SendAnswered(e)
  PROVE  ExperienceInv' /\ HeldStays
<1> DEFINE t == At(rt, e, "IN_TRANSIT")
<1>1. rt \in Tables /\ Tells(rt.ledger, rt.ent, 0)
  BY DEF ExperienceInv, TabInv, Well
<1>2. e \in DOMAIN rt.ent /\ rt.ent[e].state = "SENDING" /\ UNCHANGED engine
  BY DEF SendAnswered, In
<1>3. PICK accepted \in BOOLEAN : Broadcast(Acked(rt, e, accepted))
  BY DEF SendAnswered
<1>4. Transition(rt, e, "IN_TRANSIT") = t
  BY <1>1, <1>2, Steps, StateNames, TransitionTable
<1>5. CASE accepted
  <2> DEFINE f == At(rt, e, "COMPLETED")
             n == Finish(f, e, "completed")
  <2>1. Transition(t, e, "COMPLETED") = f
    BY <1>1, <1>2, Walks, StateNames, TransitionTable
  <2>2. Acked(rt, e, accepted) = n
    BY <1>4, <1>5, <2>1 DEF Acked
  <2>3. /\ f \in Tables /\ Only(rt, f, e, "COMPLETED") /\ f.ledger = rt.ledger
        /\ f.hand = rt.hand /\ f.news = rt.news /\ f.astray = rt.astray
        /\ DOMAIN f.ent = DOMAIN rt.ent
    BY <1>1, <1>2, AtFields, StateNames
  <2> HIDE DEF f
  <2>4. f.ent[e].state = Fate("completed") /\ Tells(f.ledger, f.ent, e)
    BY <1>1, <1>2, <2>3, OnlyState, TellsOthers DEF Fate
  <2>5. OnlyLedger(f, n) /\ Tells(n.ledger, f.ent, 0)
    BY <1>2, <2>3, <2>4, Finished
  <2> HIDE DEF n
  <2>6. Only(rt, n, e, "COMPLETED")
    BY <2>3, <2>5 DEF Only, OnlyLedger
  <2>7. "COMPLETED" \in States \ {"HELD", "capturing"}
    BY DEF States, Ended
  <2> QED BY <1>2, <1>3, <2>2, <2>3, <2>5, <2>6, <2>7, OnwardKeeps DEF OnlyLedger
<1>6. CASE ~accepted
  <2> DEFINE f == At(rt, e, "FAILED")
             n == Finish(f, e, "failed")
  <2>1. Transition(t, e, "FAILED") = f
    BY <1>1, <1>2, Walks, StateNames, TransitionTable
  <2>2. Acked(rt, e, accepted) = n
    <3>1. Live(t, e)
      <4>1. t.ent[e].state = "IN_TRANSIT"
        BY <1>1, <1>2, AtFields, OnlyState, StateNames
      <4> QED BY <4>1 DEF Live, Ended
    <3> QED BY <1>4, <1>6, <2>1, <3>1 DEF Acked, FailSource
  <2>3. /\ f \in Tables /\ Only(rt, f, e, "FAILED") /\ f.ledger = rt.ledger
        /\ f.hand = rt.hand /\ f.news = rt.news /\ f.astray = rt.astray
        /\ DOMAIN f.ent = DOMAIN rt.ent
    BY <1>1, <1>2, AtFields, StateNames
  <2> HIDE DEF f
  <2>4. f.ent[e].state = Fate("failed") /\ Tells(f.ledger, f.ent, e)
    BY <1>1, <1>2, <2>3, OnlyState, TellsOthers DEF Fate
  <2>5. OnlyLedger(f, n) /\ Tells(n.ledger, f.ent, 0)
    BY <1>2, <2>3, <2>4, Finished
  <2> HIDE DEF n
  <2>6. Only(rt, n, e, "FAILED")
    BY <2>3, <2>5 DEF Only, OnlyLedger
  <2>7. "FAILED" \in States \ {"HELD", "capturing"}
    BY DEF States, Ended
  <2> QED BY <1>2, <1>3, <2>2, <2>3, <2>5, <2>6, <2>7, OnwardKeeps DEF OnlyLedger
<1> QED BY <1>5, <1>6


-----------------------------------------------------------------------------
(* The bridge and the browser. *)

(* The tables stay but for what is astray, and what the browser hears. *)
LEMMA Rests ==
  ASSUME NEW r, NEW P, NEW g, TabInv(r, P, g, 0), r.news = <<>>,
         NEW q \in Tables, q.ent = r.ent, q.hand = r.hand, q.ledger = r.ledger,
         q.news = r.news, q.astray \subseteq DOMAIN r.ent, r.astray \subseteq q.astray,
         NEW k, k => g
  PROVE  TabInv(q, P, k, 0)
<1>1. Well(q) /\ Tells(q.ledger, q.ent, 0) /\ Present(q, P) /\ OnHand(q)
  BY DEF TabInv, Well, Present, OnHand, Holds
<1>2. Pinched(q, P, 0)
  BY DEF TabInv, Pinched
<1>3. Drawn(q, k)
  BY DEF TabInv, Drawn, LastIsGrab, Holds
<1> QED BY <1>1, <1>2, <1>3 DEF TabInv

LEMMA QuietWire ==
  ASSUME wire' = <<>>, browser' \in BOOLEAN, ~view', view' \in BOOLEAN
  PROVE  BrowserInv' /\ ~Told'
<1>1. MaxWire \in Nat
  BY BoundsAssumption
<1>2. <<>> \in Seq(Events) /\ Len(<<>>) <= MaxWire
  BY <1>1
<1>3. BrowserInv'
  BY <1>2, Zenon DEF BrowserInv
<1>4. ~Told'
  BY DEF Told, LastIsGrab
<1> QED BY <1>3, <1>4

LEMMA SamePinching ==
  ASSUME pipe' = pipe
  PROVE  PinchingHands' = PinchingHands
BY DEF PinchingHands, Pinching, Tracked

LEMMA BridgeKeeps ==
  ASSUME ExperienceInv, CloseBridge \/ DetachRuntime \/ VisionStopped
  PROVE  ExperienceInv' /\ HeldStays
<1>1. /\ TabInv(rt, PinchingHands, Told, 0) /\ rt \in Tables /\ Well(rt) /\ rt.news = <<>>
      /\ Len(rt.ent) <= MaxGrabs /\ EngineInv /\ DetachedInv /\ BrowserInv
  BY DEF ExperienceInv, TabInv, Well
<1>2. CASE CloseBridge
  <2>1. /\ rt' = rt /\ pipe' = pipe /\ stage' = "closing" /\ ~Told'
    BY <1>2 DEF CloseBridge, Told, LastIsGrab
  <2>2. TabInv(rt, PinchingHands, Told', 0)
    BY <1>1, <2>1, Rests DEF Well
  <2>3. BrowserInv'
    BY <1>2, QuietWire DEF CloseBridge
  <2>4. EngineInv' /\ DetachedInv'
    BY <1>1, <2>1 DEF EngineInv, DetachedInv, Attached
  <2>5. TabInv(rt', PinchingHands', Told', 0)
    BY <2>1, <2>2, SamePinching
  <2> QED BY <1>1, <2>1, <2>3, <2>4, <2>5 DEF ExperienceInv, HeldStays
<1>3. CASE DetachRuntime
  <2> DEFINE gone == rt.astray \cup
                       {e \in DOMAIN rt.ent : rt.ent[e].state \in {"capturing", "HELD"}}
             q == [rt EXCEPT !.astray = gone]
  <2>1. /\ rt' = q /\ pipe' = pipe /\ stage' = "detached"
        /\ browser' = browser /\ wire' = wire /\ view' = view
    BY <1>3 DEF DetachRuntime
  <2>2. gone \subseteq DOMAIN rt.ent /\ gone \subseteq Nat /\ rt.astray \subseteq gone
    BY <1>1, Domains DEF Well
  <2>3. \A e \in DOMAIN rt.ent : rt.ent[e].state \in {"HELD", "capturing"} => e \in gone
    OBVIOUS
  <2> HIDE DEF gone
  <2>4. /\ q \in Tables /\ q.ent = rt.ent /\ q.hand = rt.hand /\ q.ledger = rt.ledger
        /\ q.news = rt.news /\ q.astray = gone
    BY <1>1, <2>2 DEF Tables
  <2> HIDE DEF q
  <2>5. Told' = Told
    BY <2>1 DEF Told
  <2>6. TabInv(q, PinchingHands, Told, 0)
    BY <1>1, <2>2, <2>4, Rests
  <2>7. TabInv(rt', PinchingHands', Told', 0)
    BY <2>1, <2>5, <2>6, SamePinching
  <2>8. EngineInv' /\ BrowserInv'
    BY <1>1, <2>1 DEF EngineInv, BrowserInv
  <2>9. DetachedInv'
    BY <2>1, <2>3, <2>4 DEF DetachedInv
  <2> QED BY <1>1, <2>1, <2>4, <2>7, <2>8, <2>9 DEF ExperienceInv, HeldStays
<1>4. CASE VisionStopped
  <2>1. /\ rt' = rt /\ pipe' = [h \in Hand |-> NoPipe] /\ stage = "detached"
        /\ stage' = "stopped" /\ browser' = browser /\ wire' = wire /\ view' = view
    BY <1>4 DEF VisionStopped
  <2>2. PinchingHands' = {}
    BY <2>1 DEF PinchingHands, Pinching, Tracked
  <2>3. Told' = Told
    BY <2>1 DEF Told
  <2>4. \A e \in DOMAIN rt.ent : rt.ent[e].state \in {"HELD", "capturing"} => e \in rt.astray
    BY <1>1, <2>1 DEF DetachedInv, Attached
  <2>5. TabInv(rt, {}, Told, 0)
    BY <1>1, <2>4 DEF TabInv, Present, Pinched
  <2>6. TabInv(rt', PinchingHands', Told', 0)
    BY <2>1, <2>2, <2>3, <2>5
  <2>7. EngineInv' /\ BrowserInv' /\ DetachedInv'
    BY <1>1, <2>1, <2>4 DEF EngineInv, BrowserInv, DetachedInv
  <2> QED BY <1>1, <2>1, <2>6, <2>7 DEF ExperienceInv, HeldStays
<1> QED BY <1>2, <1>3, <1>4

LEMMA BrowserKeeps ==
  ASSUME ExperienceInv, BrowserOpens \/ BrowserLeaves \/ OnEvent
  PROVE  ExperienceInv' /\ HeldStays
<1>1. /\ TabInv(rt, PinchingHands, Told, 0) /\ rt \in Tables /\ Well(rt) /\ rt.news = <<>>
      /\ Len(rt.ent) <= MaxGrabs /\ EngineInv /\ DetachedInv /\ BrowserInv
  BY DEF ExperienceInv, TabInv, Well
<1>2. rt' = rt /\ pipe' = pipe /\ stage' = stage
  BY DEF BrowserOpens, BrowserLeaves, OnEvent, engine
<1>3. (Told' => Told) /\ BrowserInv'
  <2>1. CASE BrowserOpens
    <3>1. wire = <<>> /\ wire' = <<>> /\ ~view' /\ browser'
      BY <1>1, <2>1 DEF BrowserOpens, BrowserInv
    <3> QED BY <1>1, <2>1, <3>1 DEF BrowserOpens, BrowserInv, Told, LastIsGrab
  <2>2. CASE BrowserLeaves
    BY <2>2, QuietWire DEF BrowserLeaves
  <2>3. CASE OnEvent
    <3>1. /\ wire # <<>> /\ wire' = Tail(wire) /\ view' = (Head(wire) = "hand:grab")
          /\ browser' = browser /\ wire \in Seq(Events) /\ Len(wire) <= MaxWire
      BY <1>1, <2>3 DEF OnEvent, BrowserInv
    <3>2. /\ wire' \in Seq(Events) /\ Len(wire') = Len(wire) - 1 /\ Len(wire) \in Nat \ {0}
          /\ \A k \in 1..Len(wire') : wire'[k] = wire[k + 1]
          /\ Head(wire) = wire[1]
      BY <3>1
    <3>3. Told' = Told
      <4>1. CASE wire' = <<>>
        <5>1. Len(wire) = 1
          BY <3>2, <4>1
        <5> QED BY <3>1, <3>2, <4>1, <5>1 DEF Told, LastIsGrab
      <4>2. CASE wire' # <<>>
        <5>1. Len(wire') \in 1..Len(wire') /\ Len(wire') + 1 = Len(wire)
          BY <3>2, <4>2
        <5>2. wire'[Len(wire')] = wire[Len(wire)]
          BY <3>2, <5>1
        <5> QED BY <3>1, <4>2, <5>2 DEF Told, LastIsGrab
      <4> QED BY <4>1, <4>2
    <3>4. browser /\ view' \in BOOLEAN
      BY <1>1, <3>1 DEF BrowserInv
    <3>5. MaxWire \in Nat
      BY BoundsAssumption
    <3> QED BY <3>1, <3>2, <3>3, <3>4, <3>5 DEF BrowserInv
  <2> QED BY <2>1, <2>2, <2>3
<1>4. TabInv(rt, PinchingHands, Told', 0)
  BY <1>1, <1>3, Rests DEF Well
<1>5. TabInv(rt', PinchingHands', Told', 0)
  BY <1>2, <1>4, SamePinching
<1>6. EngineInv' /\ DetachedInv'
  BY <1>1, <1>2 DEF EngineInv, DetachedInv, Attached
<1> QED BY <1>1, <1>2, <1>3, <1>5, <1>6 DEF ExperienceInv, HeldStays

-----------------------------------------------------------------------------
(* The theorems. *)

LEMMA InitHolds == Init => ExperienceInv
<1> SUFFICES ASSUME Init PROVE ExperienceInv
  OBVIOUS
<1>1. /\ pipe = [h \in Hand |-> NoPipe] /\ stage = "up"
      /\ rt = [hand |-> [h \in Hand |-> NoHand], ent |-> <<>>, ledger |-> <<>>,
               news |-> <<>>, astray |-> {}]
      /\ browser = FALSE /\ wire = <<>> /\ view = FALSE
  BY DEF Init
<1>2. /\ rt.hand = [h \in Hand |-> NoHand] /\ rt.ent = <<>> /\ rt.ledger = <<>>
      /\ rt.news = <<>> /\ rt.astray = {}
  BY <1>1
<1>3. /\ <<>> \in Seq(Entity) /\ <<>> \in Seq(Entry) /\ <<>> \in Seq(Events)
      /\ Len(<<>>) = 0 /\ DOMAIN <<>> = {}
  OBVIOUS
<1>4. rt \in Tables
  BY <1>1, <1>3 DEF Tables
<1>5. Well(rt)
  BY <1>2, <1>3, <1>4 DEF Well
<1>6. Tells(rt.ledger, rt.ent, 0)
  BY <1>2, <1>3, LedgerAssumption DEF Tells
<1>7. PinchingHands = {}
  BY <1>1 DEF PinchingHands, Pinching, Tracked
<1>8. Present(rt, {}) /\ Pinched(rt, {}, 0) /\ OnHand(rt)
  BY <1>2, <1>3 DEF Present, Pinched, OnHand, Holds
<1>9. ~Told /\ Drawn(rt, Told)
  BY <1>1, <1>2 DEF Told, Drawn, LastIsGrab
<1>10. TabInv(rt, PinchingHands, Told, 0)
  BY <1>5, <1>6, <1>7, <1>8, <1>9 DEF TabInv
<1>11. EngineInv /\ DetachedInv /\ BrowserInv
  <2>1. EngineInv /\ DetachedInv
    BY <1>1 DEF EngineInv, DetachedInv, Attached
  <2>2. <<>> \in Seq(Events) /\ Len(<<>>) <= MaxWire
    BY BoundsAssumption
  <2>3. BrowserInv
    BY <1>1, <2>2, Zenon DEF BrowserInv
  <2> QED BY <2>1, <2>3
<1>12. Len(rt.ent) <= MaxGrabs
  BY <1>2, <1>3, BoundsAssumption
<1> QED BY <1>2, <1>10, <1>11, <1>12 DEF ExperienceInv

(* The first of the gestures that score best. *)
LEMMA Classified ==
  ASSUME NEW s \in Seen
  PROVE  Classify(s) \in Gesture
<1> DEFINE Best(k) == /\ \A j \in 1 .. 4 : s[j] <= s[k]
                      /\ \A j \in 1 .. k - 1 : s[j] < s[k]
<1>1. s \in [1 .. 4 -> Nat]
  BY SeenAssumption
<1>2. s[1] \in Nat /\ s[2] \in Nat /\ s[3] \in Nat /\ s[4] \in Nat
  BY <1>1
<1>3. \E k \in 1 .. 4 : Best(k)
  <2>1. \A j \in 1 .. 4 : j \in {1, 2, 3, 4}
    OBVIOUS
  <2>2. CASE s[2] <= s[1] /\ s[3] <= s[1] /\ s[4] <= s[1]
    BY <1>2, <2>1, <2>2
  <2>3. CASE s[1] < s[2] /\ s[3] <= s[2] /\ s[4] <= s[2]
    BY <1>2, <2>1, <2>3
  <2>4. CASE s[1] < s[3] /\ s[2] < s[3] /\ s[4] <= s[3]
    BY <1>2, <2>1, <2>4
  <2>5. CASE s[1] < s[4] /\ s[2] < s[4] /\ s[3] < s[4]
    BY <1>2, <2>1, <2>5
  <2> QED BY <1>2, <2>2, <2>3, <2>4, <2>5
<1>4. (CHOOSE k \in 1 .. 4 : Best(k)) \in 1 .. 4
  BY <1>3
<1> QED BY <1>4 DEF Classify, Gesture

(* What a step does to what is HELD. *)
SentOnOpening == Moves(rt, rt', PinchingHands \ PinchingHands') \/ HeldStays

LEMMA StepHolds ==
  ASSUME ExperienceInv, [Next]_vars
  PROVE  ExperienceInv' /\ SentOnOpening
<1>1. CASE Watch
  <2>1. PICK f \in Shown, lost \in Tracked \cup {NoHand}, aim \in Aims, bad \in Invalid :
          Frame(f[1], f[2], lost, aim, bad)
    BY <1>1 DEF Watch
  <2>2. f[1] \in Hand /\ f[2] \in Gesture
    BY Classified DEF Shown, Hand
  <2> QED BY <2>1, <2>2, FrameKeeps DEF SentOnOpening
<1>2. CASE Blank
  <2>1. PICK lost \in Tracked, aim \in Aims, bad \in Invalid : EmptyFrame(lost, aim, bad)
    BY <1>2 DEF Blank
  <2> QED BY <2>1, BlankKeeps DEF SentOnOpening
<1>3. CASE CloseBridge \/ DetachRuntime \/ VisionStopped
  BY <1>3, BridgeKeeps DEF SentOnOpening
<1>4. ASSUME NEW e \in 1 .. MaxGrabs, Answers(e) \/ Resumes(e) \/ Settles(e)
      PROVE  ExperienceInv' /\ SentOnOpening
  <2>1. CASE Provided(e)
    BY <2>1, ProvidedKeeps DEF SentOnOpening
  <2>2. CASE Declined(e)
    BY <2>2, DeclinedKeeps DEF SentOnOpening
  <2>3. CASE Retried(e)
    BY <2>3, RetriedKeeps DEF SentOnOpening
  <2>4. CASE Encrypted(e)
    BY <2>4, EncryptedKeeps DEF SentOnOpening
  <2>5. CASE EncryptFails(e) \/ SendFails(e)
    BY <2>5, FailureKeeps DEF SentOnOpening, EncryptFails, SendFails
  <2>6. CASE SendAnswered(e)
    BY <2>6, AnsweredKeeps DEF SentOnOpening
  <2> QED BY <1>4, <2>1, <2>2, <2>3, <2>4, <2>5, <2>6 DEF Answers, Resumes, Settles
<1>5. CASE BrowserOpens \/ BrowserLeaves \/ OnEvent
  BY <1>5, BrowserKeeps DEF SentOnOpening
<1>6. CASE UNCHANGED vars
  BY <1>6 DEF vars, ExperienceInv, EngineInv, DetachedInv, BrowserInv, PinchingHands, Pinching,
              Tracked, Told, SentOnOpening, HeldStays
<1> QED BY <1>1, <1>2, <1>3, <1>4, <1>5, <1>6 DEF Next

(* The inductive invariant holds in every reachable state: between any two steps
   the tables of the runtime are well formed, the ledger true, and what is held
   or being captured belongs to a hand that the pipelines say pinches. *)
THEOREM ExperienceInvariant == Spec => []ExperienceInv
<1>1. Init => ExperienceInv
  BY InitHolds
<1>2. ExperienceInv /\ [Next]_vars => ExperienceInv'
  BY StepHolds
<1> QED BY <1>1, <1>2, PTL DEF Spec

(* Hands and objects agree: what is held, or asked of a provider, belongs to a
   hand that pinches, unless it went astray, and what is on a hand is HELD by
   it - whatever closures, detachments and late providers interleave. *)
THEOREM HandsKeepObjects == Spec => []HandsAndObjects
<1>1. ExperienceInv => HandsAndObjects
  <2> SUFFICES ASSUME ExperienceInv PROVE HandsAndObjects
    OBVIOUS
  <2>1. /\ TabInv(rt, PinchingHands, Told, 0) /\ rt \in Tables /\ Well(rt) /\ rt.news = <<>>
        /\ Len(rt.ent) <= MaxGrabs /\ EngineInv /\ BrowserInv
    BY DEF ExperienceInv, TabInv, Well
  <2>2. TypeOK
    <3>1. \A h \in Hand : pipe[h] = NoPipe \/ pipe[h] \in Pipeline
      BY <2>1 DEF EngineInv
    <3>2. ASSUME NEW h \in Hand
          PROVE  \/ rt.hand[h] = NoHand
                 \/ rt.hand[h] \in [entity : 0 .. Len(rt.ent), target : Device \cup {Nowhere}]
      <4>1. CASE rt.hand[h] # NoHand
        <5>1. rt.hand[h] \in VirtualHand
          BY <2>1, <4>1, HandValues
        <5>2. rt.hand[h].entity \in 0 .. Len(rt.ent)
          BY <2>1, <4>1, <5>1, Domains DEF Well, VirtualHand
        <5> QED BY <5>1, <5>2 DEF VirtualHand
      <4> QED BY <4>1
    <3>3. \A e \in DOMAIN rt.ent : rt.ent[e] \in [state : States, by : Hand]
      <4>1. \A e \in DOMAIN rt.ent : rt.ent[e] \in Entity /\ rt.ent[e].state \in States
        BY <2>1, Domains DEF Well
      <4> QED BY <4>1 DEF Entity
    <3>4. /\ Len(rt.ledger) <= LedgerLimit
          /\ \A k \in DOMAIN rt.ledger :
               /\ rt.ledger[k].id \in DOMAIN rt.ent
               /\ rt.ledger[k].outcome \in {"pending", "completed", "failed"}
      <4>1. \A k \in DOMAIN rt.ledger : rt.ledger[k] \in Entry
        BY <2>1, Domains
      <4> QED BY <2>1, <4>1 DEF TabInv, Tells, Entry
    <3>5. rt.astray \subseteq DOMAIN rt.ent
      BY <2>1 DEF Well
    <3>6. \A k \in DOMAIN wire : wire[k] \in Events
      BY <2>1 DEF BrowserInv
    <3> QED BY <2>1, <3>1, <3>2, <3>3, <3>4, <3>5, <3>6 DEF TypeOK, EngineInv, BrowserInv
  <2>3. HeldIsPinched
    <3> SUFFICES ASSUME NEW e \in DOMAIN rt.ent \ rt.astray
                 PROVE  /\ rt.ent[e].state \in {"HELD", "capturing"} => Pinching(rt.ent[e].by)
                        /\ rt.ent[e].state = "HELD" => /\ rt.hand[rt.ent[e].by] # NoHand
                                                       /\ rt.hand[rt.ent[e].by].entity = e
      BY DEF HeldIsPinched
    <3>1. e # 0
      BY <2>1, Domains
    <3> QED BY <2>1, <3>1 DEF TabInv, Pinched, PinchingHands
  <2>4. OnHandIsHeld
    BY <2>1 DEF TabInv, OnHand, OnHandIsHeld
  <2> QED BY <2>2, <2>3, <2>4 DEF HandsAndObjects
<1> QED BY <1>1, ExperienceInvariant, PTL

(* The ledger is true: an entry is pending exactly while its entity is on its
   way, and otherwise says how it ended, also when it was evicted and made anew. *)
THEOREM LedgerIsTrue == Spec => []LedgerTellsFate
<1>1. ExperienceInv => LedgerTellsFate
  <2> SUFFICES ASSUME ExperienceInv, NEW k \in DOMAIN rt.ledger
               PROVE  rt.ent[rt.ledger[k].id].state = Fate(rt.ledger[k].outcome)
    BY DEF LedgerTellsFate, Fate
  <2>1. rt \in Tables /\ Tells(rt.ledger, rt.ent, 0)
    BY DEF ExperienceInv, TabInv, Well
  <2>2. rt.ledger[k].id \in DOMAIN rt.ent /\ rt.ledger[k].id # 0
    BY <2>1, Domains DEF Tells
  <2> QED BY <2>1, <2>2 DEF Tells
<1> QED BY <1>1, ExperienceInvariant, PTL

(* No ghost: a browser that has heard everything draws the object only while a
   hand holds one, as long as nothing went astray. *)
THEOREM NoGhost == Spec => []NoGhostObject
<1>1. ExperienceInv => NoGhostObject
  BY DEF ExperienceInv, TabInv, Drawn, LastIsGrab, Told, NoGhostObject
<1> QED BY <1>1, ExperienceInvariant, PTL

(* Ending the pinch sends: a held entity starts on its way in no step but the one
   in which its hand stops pinching. *)
THEOREM SentByOpening == Spec => SentWhenOpened
<1>1. ExperienceInv /\ [Next]_vars => [\A e \in DOMAIN rt.ent : OpenedToSend(e)]_vars
  <2> SUFFICES ASSUME ExperienceInv, [Next]_vars, NEW e \in DOMAIN rt.ent,
                      rt.ent[e].state = "HELD", rt'.ent[e].state \in {"VALIDATED", "FAILED"}
               PROVE  Pinching(rt.ent[e].by) /\ ~Pinching(rt.ent[e].by)'
    BY DEF OpenedToSend, In
  <2>1. Moves(rt, rt', PinchingHands \ PinchingHands')
    BY StepHolds DEF SentOnOpening, HeldStays
  <2>2. rt'.ent[e].by = rt.ent[e].by /\ rt.ent[e].by \in PinchingHands \ PinchingHands'
    BY <2>1 DEF Moves
  <2>3. Pinching(rt.ent[e].by)
    BY <2>2 DEF PinchingHands
  <2>4. ~Pinching(rt.ent[e].by)'
    BY <2>2 DEF PinchingHands
  <2> QED BY <2>3, <2>4
<1> QED BY <1>1, ExperienceInvariant, PTL DEF Spec, SentWhenOpened
=============================================================================
