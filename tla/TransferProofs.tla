---------------------------- MODULE TransferProofs ----------------------------
(***************************************************************************)
(* What TransferScheduler keeps, for any jobs, priorities, cap and retry   *)
(* budget; and what the pipeline of MeshTransfer around it keeps, for any  *)
(* entities, and however often the link comes and goes.                    *)
(*                                                                         *)
(* Every handler of the scheduler changes the queue or frees a slot and    *)
(* then pumps, so its invariant is stated on values: its parts say that a  *)
(* queue q, a counter b, the jobs f in flight and the counts s of sends    *)
(* fit the other variables.  One lemma shows that starting the head of the *)
(* queue keeps it, one that a job may join the queue and one that it may   *)
(* leave its slot; each action puts them together.                         *)
(*                                                                         *)
(* Each step of the pipeline is a step of the scheduler or leaves it       *)
(* alone, so the scheduler's invariant holds there too, and the invariant  *)
(* of the pipeline is stated on top of it.                                 *)
(***************************************************************************)
EXTENDS MeshTransfer, FiniteSetTheorems, SequenceTheorems, TLAPS

Waiting(q) == {q[i] : i \in 1..Len(q)}

Typed(q, b, f) == q \in Seq(Job) /\ b \in Nat /\ f \subseteq Job

Slots(b, f) == IsFiniteSet(f) /\ b = Cardinality(f) /\ b <= MaxConcurrent

(* Queue, slots and backoff bo share no job; the queue holds none twice. *)
Apart(q, f, bo) ==
  /\ \A i, k \in 1..Len(q) : q[i] = q[k] => i = k
  /\ \A i \in 1..Len(q) : q[i] \notin f /\ q[i] \notin bo
  /\ f \cap bo = {}

(* Only pending jobs are anywhere, of these only a job in flight may be
   cancelled (ca), and a pending job that is not cancelled is somewhere. *)
Placed(q, f, bo, ca, pr) ==
  /\ \A i \in 1..Len(q) : pr[q[i]] = "pending" /\ ~ca[q[i]]
  /\ \A j \in f : pr[j] = "pending"
  /\ \A j \in bo : pr[j] = "pending" /\ ~ca[j]
  /\ \A j \in Job : ca[j] => pr[j] # "none"
  /\ \A j \in Job : pr[j] = "pending" /\ ~ca[j]
                      => j \in f \/ j \in bo \/ j \in Waiting(q)

(* The sends of a job are one more than its retries (at) from its start until
   it is given another retry. *)
Budgeted(q, bo, at, pr, s) ==
  /\ s \in [Job -> Nat]
  /\ \A j \in Job : s[j] <= at[j] + 1
  /\ \A i \in 1..Len(q) : s[q[i]] <= at[q[i]]
  /\ \A j \in Job : j \in bo \/ pr[j] = "none" => s[j] <= at[j]

Before(j, k, ti) ==
  \/ Priority[j] > Priority[k]
  \/ Priority[j] = Priority[k] /\ ti[j] < ti[k]

InOrder(q, ti) == \A i, k \in 1..Len(q) : i < k => Before(q[i], q[k], ti)

TypedRest ==
  /\ backoff \subseteq Job
  /\ attempts \in [Job -> 0..MaxRetries]
  /\ cancelled \in [Job -> BOOLEAN]
  /\ promise \in [Job -> Promise]
  /\ ticket \in [Job -> Nat]
  /\ clock \in Nat
  /\ \A j \in Job : ticket[j] <= clock

(* The inductive invariant. *)
SchedulerInv ==
  /\ Typed(queue, active, running)
  /\ TypedRest
  /\ Slots(active, running)
  /\ Apart(queue, running, backoff)
  /\ Placed(queue, running, backoff, cancelled, promise)
  /\ Budgeted(queue, backoff, attempts, promise, sends)
  /\ InOrder(queue, ticket)
  /\ NoIdleSlot

(* There is never more to start than one job: a slot is free only when the
   queue is empty, so a handler that adds one job or frees one slot starts at
   most one. *)
OneToStart(q, b) == Len(q) <= 1 \/ b >= MaxConcurrent - 1

-----------------------------------------------------------------------------
(* pump starts the head of the queue, or nothing; and it leaves no slot idle. *)
LEMMA PumpStartsOne ==
  ASSUME NEW q \in Seq(Job), NEW b \in Nat, NEW f, b <= MaxConcurrent,
         sends \in [Job -> Nat], OneToStart(q, b), Pump(q, b, f)
  PROVE  /\ \/ /\ queue' = q /\ active' = b /\ running' = f /\ sends' = sends
            \/ /\ q # <<>> /\ b < MaxConcurrent
               /\ queue' = Tail(q) /\ active' = b + 1 /\ running' = f \cup {q[1]}
               /\ sends' = [sends EXCEPT ![q[1]] = @ + 1]
         /\ queue' # <<>> => active' = MaxConcurrent
<1>1. PICK n \in 0..Len(q) :
        /\ n <= FreeSlots(b)
        /\ n < Len(q) => n = FreeSlots(b)
        /\ queue' = SubSeq(q, n + 1, Len(q))
        /\ active' = b + n
        /\ running' = f \cup {q[i] : i \in 1..n}
        /\ sends' = [j \in Job |-> IF j \in {q[i] : i \in 1..n}
                                   THEN sends[j] + 1 ELSE sends[j]]
  BY DEF Pump
<1>2. n = 0 \/ n = 1
  BY <1>1, ConcurrencyAssumption DEF FreeSlots, OneToStart
<1>3. CASE n = 0
  <2>1. queue' = q /\ {q[i] : i \in 1..n} = {}
    BY <1>1, <1>3
  <2>2. active' = b /\ running' = f /\ sends' = sends
    BY <1>1, <1>3, <2>1
  <2>3. queue' # <<>> => active' = MaxConcurrent
    BY <1>1, <1>3, <2>1, <2>2, ConcurrencyAssumption DEF FreeSlots
  <2>4. QED
    BY <2>1, <2>2, <2>3
<1>4. CASE n = 1
  <2>1. q # <<>> /\ b < MaxConcurrent
    BY <1>1, <1>4, ConcurrencyAssumption DEF FreeSlots
  <2>2. {q[i] : i \in 1..n} = {q[1]} /\ q[1] \in Job
    BY <1>4, <2>1
  <2>3. queue' = Tail(q)
    BY <1>1, <1>4, <2>1
  <2>4. sends' = [sends EXCEPT ![q[1]] = @ + 1]
    BY <1>1, <2>2
  <2>5. active' = b + 1 /\ running' = f \cup {q[1]}
    BY <1>1, <1>4, <2>2
  <2>6. queue' # <<>> => active' = MaxConcurrent
    BY <1>1, <1>4, <2>1, <2>3, <2>5, ConcurrencyAssumption DEF FreeSlots
  <2>7. QED
    BY <2>1, <2>3, <2>4, <2>5, <2>6
<1>5. QED
  BY <1>2, <1>3, <1>4

(* Starting the head of a queue keeps every part of the invariant. *)
LEMMA StartHead ==
  ASSUME NEW q, NEW b, NEW f, NEW s, NEW bo, NEW at, NEW ca, NEW pr, NEW ti,
         Typed(q, b, f), Slots(b, f), Apart(q, f, bo), Placed(q, f, bo, ca, pr),
         Budgeted(q, bo, at, pr, s), InOrder(q, ti), at \in [Job -> Nat],
         q # <<>>, b < MaxConcurrent
  PROVE  LET h == q[1]
             g == f \cup {h}
             u == [s EXCEPT ![h] = @ + 1]
         IN  /\ Typed(Tail(q), b + 1, g) /\ Slots(b + 1, g)
             /\ Apart(Tail(q), g, bo) /\ Placed(Tail(q), g, bo, ca, pr)
             /\ Budgeted(Tail(q), bo, at, pr, u) /\ InOrder(Tail(q), ti)
<1> DEFINE h == q[1]
           g == f \cup {h}
           u == [s EXCEPT ![h] = @ + 1]
           t == Tail(q)
<1>1. /\ h \in Job /\ t \in Seq(Job) /\ Len(t) = Len(q) - 1 /\ Len(q) \in Nat \ {0}
      /\ \A i \in 1..Len(t) : t[i] = q[i + 1] /\ i + 1 \in 1..Len(q)
  BY DEF Typed
<1>2. h \notin f /\ h \notin bo /\ pr[h] = "pending" /\ s[h] <= at[h]
  BY <1>1 DEF Apart, Placed, Budgeted
<1>3. \A i \in 1..Len(t) : t[i] # h
  BY <1>1 DEF Apart
<1>4. Typed(t, b + 1, g)
  BY <1>1 DEF Typed
<1>5. Slots(b + 1, g)
  <2>1. IsFiniteSet(g) /\ Cardinality(g) = Cardinality(f) + 1
    BY <1>2, FS_AddElement DEF Slots
  <2>2. QED
    BY <2>1, ConcurrencyAssumption DEF Slots, Typed
<1>6. Apart(t, g, bo)
  <2>1. \A i, k \in 1..Len(t) : t[i] = t[k] => i = k
    BY <1>1 DEF Apart
  <2>2. \A i \in 1..Len(t) : t[i] \notin g /\ t[i] \notin bo
    BY <1>1, <1>3 DEF Apart
  <2>3. QED
    BY <1>2, <2>1, <2>2 DEF Apart
<1>7. Placed(t, g, bo, ca, pr)
  <2>1. Waiting(q) \subseteq Waiting(t) \cup {h}
    <3>1. ASSUME NEW i \in 1..Len(q), i # 1
          PROVE  q[i] = t[i - 1] /\ i - 1 \in 1..Len(t)
      BY <1>1, <3>1
    <3>2. QED
      BY <3>1 DEF Waiting
  <2>2. \A i \in 1..Len(t) : pr[t[i]] = "pending" /\ ~ca[t[i]]
    BY <1>1 DEF Placed
  <2>3. QED
    BY <1>2, <2>1, <2>2 DEF Placed
<1>8. Budgeted(t, bo, at, pr, u)
  <2>1. u \in [Job -> Nat] /\ u[h] = s[h] + 1 /\ \A j \in Job : j # h => u[j] = s[j]
    BY <1>1 DEF Budgeted
  <2>2. \A j \in Job : u[j] <= at[j] + 1
    BY <1>1, <1>2, <2>1 DEF Budgeted
  <2>3. \A i \in 1..Len(t) : u[t[i]] <= at[t[i]]
    BY <1>1, <1>3, <2>1 DEF Budgeted, Typed
  <2>4. \A j \in Job : j \in bo \/ pr[j] = "none" => u[j] <= at[j]
    BY <1>2, <2>1 DEF Budgeted
  <2>5. QED
    BY <2>1, <2>2, <2>3, <2>4 DEF Budgeted
<1>9. InOrder(t, ti)
  BY <1>1 DEF InOrder
<1>10. QED
  BY <1>4, <1>5, <1>6, <1>7, <1>8, <1>9

(* No step sends a job that the step finds, or makes, cancelled. *)
NoneCancelledSent == \A j \in Job : cancelled'[j] => sends'[j] = sends[j]

(* So a handler may hand to pump whatever satisfies the parts. *)
LEMMA PumpKeeps ==
  ASSUME NEW q, NEW b, NEW f, TypedRest', OneToStart(q, b), Pump(q, b, f),
         Typed(q, b, f), Slots(b, f), Apart(q, f, backoff'),
         Placed(q, f, backoff', cancelled', promise'),
         Budgeted(q, backoff', attempts', promise', sends),
         InOrder(q, ticket')
  PROVE  SchedulerInv' /\ NoneCancelledSent
<1>1. sends \in [Job -> Nat] /\ attempts' \in [Job -> Nat] /\ b <= MaxConcurrent
      /\ q \in Seq(Job) /\ b \in Nat
  BY RetriesAssumption DEF Budgeted, TypedRest, Slots, Typed
<1>2. /\ \/ /\ queue' = q /\ active' = b /\ running' = f /\ sends' = sends
         \/ /\ q # <<>> /\ b < MaxConcurrent
            /\ queue' = Tail(q) /\ active' = b + 1 /\ running' = f \cup {q[1]}
            /\ sends' = [sends EXCEPT ![q[1]] = @ + 1]
      /\ queue' # <<>> => active' = MaxConcurrent
  BY <1>1, PumpStartsOne
<1>3. CASE queue' = q /\ active' = b /\ running' = f /\ sends' = sends
  BY <1>2, <1>3 DEF SchedulerInv, NoIdleSlot, NoneCancelledSent
<1>4. CASE /\ q # <<>> /\ b < MaxConcurrent
           /\ queue' = Tail(q) /\ active' = b + 1 /\ running' = f \cup {q[1]}
           /\ sends' = [sends EXCEPT ![q[1]] = @ + 1]
  <2>1. SchedulerInv'
    BY <1>1, <1>2, <1>4, StartHead DEF SchedulerInv, NoIdleSlot
  <2>2. q[1] \in Job /\ ~cancelled'[q[1]]
    BY <1>1, <1>4 DEF Placed
  <2>3. QED
    BY <1>1, <1>4, <2>1, <2>2 DEF NoneCancelledSent
<1>5. QED
  BY <1>2, <1>3, <1>4

-----------------------------------------------------------------------------
(* The queue with j at its place. *)
LEMMA Inserted ==
  ASSUME NEW q \in Seq(Job), NEW j \in Job, NEW i \in 1..(Len(q) + 1)
  PROVE  /\ InsertAt(q, i, j) \in Seq(Job)
         /\ Len(InsertAt(q, i, j)) = Len(q) + 1
         /\ \A k \in 1..(Len(q) + 1) :
              InsertAt(q, i, j)[k] = IF k < i THEN q[k]
                                     ELSE IF k = i THEN j ELSE q[k - 1]
<1> DEFINE a == SubSeq(q, 1, i - 1)
           c == SubSeq(q, i, Len(q))
<1>1. /\ a \in Seq(Job) /\ Len(a) = i - 1
      /\ \A k \in 1..(i - 1) : a[k] = q[k]
  OBVIOUS
<1>2. /\ c \in Seq(Job) /\ Len(c) = Len(q) - i + 1
      /\ \A k \in 1..(Len(q) - i + 1) : c[k] = q[k + i - 1]
  OBVIOUS
<1>3. InsertAt(q, i, j) = (a \o <<j>>) \o c
  BY DEF InsertAt
<1>4. /\ a \o <<j>> \in Seq(Job) /\ Len(a \o <<j>>) = i
      /\ \A k \in 1..i : (a \o <<j>>)[k] = IF k < i THEN q[k] ELSE j
  <2> HIDE DEF a
  <2>1. QED
    BY <1>1
<1>5. QED
  <2> DEFINE e == a \o <<j>>
  <2>1. /\ e \in Seq(Job) /\ Len(e) = i
        /\ \A k \in 1..i : e[k] = IF k < i THEN q[k] ELSE j
    BY <1>4
  <2>2. InsertAt(q, i, j) = e \o c
    BY <1>3
  <2>0. Len(q) \in Nat /\ i \in Nat
    OBVIOUS
  <2> HIDE DEF e, c
  <2>3. /\ e \o c \in Seq(Job) /\ Len(e \o c) = Len(q) + 1
        /\ \A k \in 1..(Len(q) + 1) : (e \o c)[k] = IF k <= i THEN e[k] ELSE c[k - i]
    <3>1. /\ e \o c \in Seq(Job) /\ Len(e \o c) = Len(e) + Len(c)
          /\ \A k \in 1..(Len(e) + Len(c)) :
               (e \o c)[k] = IF k <= Len(e) THEN e[k] ELSE c[k - Len(e)]
      BY <1>2, <2>1, ConcatProperties
    <3>2. Len(e) + Len(c) = Len(q) + 1
      BY <2>0, <1>2, <2>1
    <3>3. QED
      BY <2>1, <3>1, <3>2
  <2>5. \A k \in 1..(Len(q) + 1) : k > i => c[k - i] = q[k - 1]
    <3>1. TAKE k \in 1..(Len(q) + 1)
    <3>2. HAVE k > i
    <3>3. k - i \in 1..(Len(q) - i + 1) /\ (k - i) + i - 1 = k - 1
      BY <3>2
    <3>4. QED
      BY <1>2, <3>3
  <2>6. ASSUME NEW k \in 1..(Len(q) + 1)
        PROVE  (e \o c)[k] = IF k < i THEN q[k] ELSE IF k = i THEN j ELSE q[k - 1]
    <3>1. CASE k <= i
      BY <2>0, <2>1, <2>3, <3>1
    <3>2. CASE k > i
      BY <2>0, <2>3, <2>5, <3>2
    <3>3. k <= i \/ k > i
      BY <2>0
    <3>4. QED
      BY <3>1, <3>2, <3>3
  <2>7. QED
    BY <2>2, <2>3, <2>6

(* The queue without its i-th job. *)
LEMMA Removed ==
  ASSUME NEW q \in Seq(Job), NEW i \in 1..Len(q)
  PROVE  /\ RemoveAt(q, i) \in Seq(Job)
         /\ Len(RemoveAt(q, i)) = Len(q) - 1
         /\ \A k \in 1..(Len(q) - 1) :
              RemoveAt(q, i)[k] = IF k < i THEN q[k] ELSE q[k + 1]
<1> DEFINE a == SubSeq(q, 1, i - 1)
           c == SubSeq(q, i + 1, Len(q))
<1>1. /\ a \in Seq(Job) /\ Len(a) = i - 1
      /\ \A k \in 1..(i - 1) : a[k] = q[k]
  OBVIOUS
<1>2. /\ c \in Seq(Job) /\ Len(c) = Len(q) - i
      /\ \A k \in 1..(Len(q) - i) : c[k] = q[k + i]
  OBVIOUS
<1>3. RemoveAt(q, i) = a \o c
  BY DEF RemoveAt
<1> HIDE DEF a, c
<1>0. Len(q) \in Nat /\ i \in Nat
  OBVIOUS
<1>4. /\ a \o c \in Seq(Job) /\ Len(a \o c) = Len(q) - 1
      /\ \A k \in 1..(Len(q) - 1) :
           (a \o c)[k] = IF k < i THEN a[k] ELSE c[k - i + 1]
  <2>1. /\ a \o c \in Seq(Job) /\ Len(a \o c) = Len(a) + Len(c)
        /\ \A k \in 1..(Len(a) + Len(c)) :
             (a \o c)[k] = IF k <= Len(a) THEN a[k] ELSE c[k - Len(a)]
    BY <1>1, <1>2, ConcatProperties
  <2>2. Len(a) + Len(c) = Len(q) - 1
    BY <1>0, <1>1, <1>2
  <2>3. ASSUME NEW k \in 1..(Len(q) - 1)
        PROVE  (k <= Len(a) <=> k < i) /\ k - Len(a) = k - i + 1
    BY <1>0, <1>1
  <2>4. QED
    BY <2>1, <2>2, <2>3
<1>5. \A k \in 1..(Len(q) - 1) : k >= i => c[k - i + 1] = q[k + 1]
  <2>1. TAKE k \in 1..(Len(q) - 1)
  <2>2. HAVE k >= i
  <2>3. k - i + 1 \in 1..(Len(q) - i) /\ (k - i + 1) + i = k + 1
    BY <2>2
  <2>4. QED
    BY <1>2, <2>3
<1>6. ASSUME NEW k \in 1..(Len(q) - 1)
      PROVE  (a \o c)[k] = IF k < i THEN q[k] ELSE q[k + 1]
  <2>1. CASE k < i
    <3>1. k \in 1..(i - 1)
      BY <1>0, <2>1
    <3>2. QED
      BY <1>1, <1>4, <2>1, <3>1
  <2>2. CASE k >= i
    BY <1>0, <1>4, <1>5, <2>2
  <2>3. k < i \/ k >= i
    BY <1>0
  <2>4. QED
    BY <2>1, <2>2, <2>3
<1>7. QED
  BY <1>3, <1>4, <1>6

(* What is in the queue with j in it is j or was there. *)
Joins(q, j) == \A m \in 1..Len(q) : q[m] = j \/ \E l \in 1..Len(queue) : q[m] = queue[l]

(* A pending job that is nowhere joins the queue: behind all that are at
   least as urgent, with the latest ticket. *)
LEMMA JoinQueue ==
  ASSUME NEW j \in Job, NEW q, NEW b, NEW f, NEW bo, NEW ca, NEW pr,
         Typed(queue, b, f), Apart(queue, f, bo), Placed(queue, f, bo \cup {j}, ca, pr),
         InOrder(queue, ticket), ticket \in [Job -> Nat], clock \in Nat,
         \A k \in Job : ticket[k] <= clock,
         j \notin f, j \notin bo, \A k \in 1..Len(queue) : queue[k] # j,
         NEW i \in 1..(Len(queue) + 1), IsPlaceOf(j, i), q = InsertAt(queue, i, j)
  PROVE  /\ Typed(q, b, f) /\ Len(q) = Len(queue) + 1 /\ Apart(q, f, bo)
         /\ Placed(q, f, bo, ca, pr)
         /\ InOrder(q, [ticket EXCEPT ![j] = clock + 1])
         /\ Joins(q, j)
<1> DEFINE ti == [ticket EXCEPT ![j] = clock + 1]
           n == Len(queue)
           From(k) == IF k < i THEN k ELSE k - 1
<1>1. /\ q \in Seq(Job) /\ Len(q) = n + 1 /\ n \in Nat
      /\ \A k \in 1..(n + 1) :
           q[k] = IF k < i THEN queue[k] ELSE IF k = i THEN j ELSE queue[k - 1]
  <2>1. queue \in Seq(Job) /\ n \in Nat
    BY DEF Typed
  <2>2. /\ InsertAt(queue, i, j) \in Seq(Job)
        /\ Len(InsertAt(queue, i, j)) = n + 1
        /\ \A k \in 1..(n + 1) :
             InsertAt(queue, i, j)[k] = IF k < i THEN queue[k]
                                        ELSE IF k = i THEN j ELSE queue[k - 1]
    BY <2>1, Inserted, ZenonT(40)
  <2>3. QED
    BY <2>1, <2>2
<1>2. q[i] = j /\ \A k \in 1..Len(q) : k # i => q[k] = queue[From(k)] /\ From(k) \in 1..n
  BY <1>1
<1>3. \A k, l \in 1..Len(q) : k # i /\ l # i =>
        (From(k) = From(l) => k = l) /\ (k < l => From(k) < From(l))
  <2>1. 1..Len(q) \subseteq Int /\ i \in Int
    BY <1>1
  <2>2. \A k, l \in Int : k # i /\ l # i =>
          (From(k) = From(l) => k = l) /\ (k < l => From(k) < From(l))
    BY <2>1
  <2> QED BY <2>1, <2>2, Zenon
<1> HIDE DEF From
<1>4. Apart(q, f, bo)
  <2>1. ASSUME NEW k \in 1..Len(q), NEW l \in 1..Len(q), q[k] = q[l]
        PROVE  k = l
    <3>1. CASE k # i /\ l # i
      BY <1>2, <1>3, <2>1, <3>1 DEF Apart
    <3>2. CASE k = i \/ l = i
      BY <1>2, <2>1, <3>2
    <3>3. QED
      BY <3>1, <3>2
  <2>2. \A k \in 1..Len(q) : q[k] \notin f /\ q[k] \notin bo
    BY <1>2 DEF Apart
  <2>3. QED
    BY <2>1, <2>2 DEF Apart
<1>5. Placed(q, f, bo, ca, pr)
  <2>1. pr[j] = "pending" /\ ~ca[j]
    BY DEF Placed
  <2>2. ASSUME NEW k \in 1..Len(q) PROVE pr[q[k]] = "pending" /\ ~ca[q[k]]
    <3>1. CASE k = i
      BY <1>2, <2>1, <3>1
    <3>2. CASE k # i
      <4>1. q[k] = queue[From(k)] /\ From(k) \in 1..n
        BY <1>2, <3>2
      <4>2. \A l \in 1..n : pr[queue[l]] = "pending" /\ ~ca[queue[l]]
        BY DEF Placed
      <4>3. QED
        BY <4>1, <4>2
    <3>3. QED
      BY <3>1, <3>2
  <2>3. Waiting(queue) \cup {j} \subseteq Waiting(q)
    <3>1. ASSUME NEW k \in 1..n
          PROVE  \E l \in 1..Len(q) : q[l] = queue[k]
      <4>1. CASE k < i
        <5>1. k \in 1..Len(q) /\ q[k] = queue[k]
          BY <1>1, <4>1
        <5>2. QED
          BY <5>1
      <4>2. CASE k >= i
        <5>1. k + 1 \in 1..Len(q) /\ k + 1 > i /\ (k + 1) - 1 = k
          BY <1>1, <4>2
        <5>2. q[k + 1] = queue[k]
          BY <1>1, <5>1
        <5>3. QED
          BY <5>1, <5>2
      <4>3. QED
        BY <1>1, <4>1, <4>2
    <3>2. QED
      BY <1>1, <1>2, <3>1 DEF Waiting
  <2>4. QED
    BY <2>2, <2>3 DEF Placed
<1>6. InOrder(q, ti)
  <2>1. /\ ti[j] = clock + 1
        /\ \A k \in 1..n : ti[queue[k]] = ticket[queue[k]] /\ ticket[queue[k]] < clock + 1
        /\ \A k \in 1..n : queue[k] \in Job /\ Priority[queue[k]] \in Int
    <3>1. ASSUME NEW k \in 1..n
          PROVE  /\ queue[k] \in Job /\ queue[k] # j
                 /\ Priority[queue[k]] \in Int /\ ticket[queue[k]] \in Nat
                 /\ ticket[queue[k]] <= clock
      BY PriorityAssumption DEF Typed
    <3>2. QED
      BY <3>1
  <2>2. \A k \in 1..n : k >= i => Priority[queue[k]] < Priority[j]
    BY <1>1 DEF IsPlaceOf, Outranked
  <2>3. \A k \in 1..n : k < i => Priority[queue[k]] >= Priority[j]
    <3>1. ASSUME NEW k \in 1..n, k < i
          PROVE  Priority[queue[k]] >= Priority[j]
      <4>1. i - 1 \in 1..n /\ k <= i - 1 /\ i > 1
        BY <1>1, <3>1
      <4>2. Priority[queue[i - 1]] >= Priority[j]
        BY <2>1, <4>1, PriorityAssumption DEF IsPlaceOf, Outranked
      <4>3. Priority[queue[k]] >= Priority[queue[i - 1]]
        <5>1. CASE k = i - 1
          BY <2>1, <4>1, <5>1
        <5>2. CASE k < i - 1
          <6>1. Before(queue[k], queue[i - 1], ticket)
            BY <4>1, <5>2 DEF InOrder
          <6>2. QED
            BY <2>1, <4>1, <6>1 DEF Before
        <5>3. QED
          BY <3>1, <4>1, <5>1, <5>2
      <4>4. QED
        BY <2>1, <4>1, <4>2, <4>3, PriorityAssumption
    <3>2. QED
      BY <3>1
  <2>4. ASSUME NEW k \in 1..Len(q), NEW l \in 1..Len(q), k < l
        PROVE  Before(q[k], q[l], ti)
    <3>1. CASE k # i /\ l # i
      <4>1. From(k) \in 1..n /\ From(l) \in 1..n /\ From(k) < From(l)
        BY <1>2, <1>3, <2>4, <3>1
      <4>2. Before(queue[From(k)], queue[From(l)], ticket)
        BY <4>1 DEF InOrder
      <4>3. QED
        BY <1>2, <2>1, <3>1, <4>1, <4>2 DEF Before
    <3>2. CASE l = i
      <4>1. q[l] = j /\ k < i /\ k \in 1..n /\ q[k] = queue[k]
        BY <1>1, <1>2, <2>4, <3>2
      <4>2. QED
        BY <2>1, <2>3, <4>1, PriorityAssumption DEF Before
    <3>3. CASE k = i
      <4>1. q[k] = j /\ l - 1 \in 1..n /\ l - 1 >= i /\ q[l] = queue[l - 1]
        <5>1. l \in 1..(n + 1) /\ l > i /\ l - 1 \in 1..n /\ l - 1 >= i
          BY <1>1, <2>4, <3>3
        <5>2. q[l] = queue[l - 1]
          BY <1>1, <5>1
        <5>3. QED
          BY <1>2, <3>3, <5>1, <5>2
      <4>2. Priority[queue[l - 1]] < Priority[j]
        BY <2>2, <4>1
      <4>3. QED
        BY <2>1, <4>1, <4>2, PriorityAssumption DEF Before
    <3>4. QED
      BY <3>1, <3>2, <3>3
  <2>5. QED
    BY <2>4 DEF InOrder
<1>7. Joins(q, j)
  BY <1>2 DEF Joins
<1>8. QED
  BY <1>1, <1>4, <1>5, <1>6, <1>7 DEF Typed

-----------------------------------------------------------------------------
(* The invariant at the start. *)
LEMMA InitSound == Init => SchedulerInv
<1>1. Init => running = {} /\ IsFiniteSet(running) /\ Cardinality(running) = 0
  BY FS_EmptySet DEF Init
<1>2. QED
  BY <1>1, ConcurrencyAssumption, RetriesAssumption
     DEF Init, SchedulerInv, Typed, TypedRest, Slots, Apart, Placed, Budgeted,
         InOrder, NoIdleSlot, Promise, Waiting

(* A handler that puts a job in the queue and pumps: what it owes is that the
   job is pending, was nowhere, and has a retry left for this send. *)
LEMMA EnqueueSound ==
  ASSUME NEW j \in Job, SchedulerInv, EnqueueAndPump(j), TypedRest',
         cancelled' = cancelled, attempts' = attempts,
         backoff' \subseteq backoff, j \notin backoff', j \notin running,
         \A k \in 1..Len(queue) : queue[k] # j,
         Placed(queue, running, backoff' \cup {j}, cancelled', promise'),
         \A k \in Job : promise'[k] = "none" => promise[k] = "none",
         sends[j] <= attempts[j]
  PROVE  SchedulerInv' /\ NoneCancelledSent
<1>1. PICK i \in 1..(Len(queue) + 1) :
        IsPlaceOf(j, i) /\ Pump(InsertAt(queue, i, j), active, running)
  BY DEF EnqueueAndPump
<1> DEFINE q == InsertAt(queue, i, j)
<1>2. /\ ticket' = [ticket EXCEPT ![j] = clock + 1]
      /\ \A k \in Job : ticket[k] <= clock
      /\ ticket \in [Job -> Nat] /\ clock \in Nat
  BY DEF EnqueueAndPump, SchedulerInv, TypedRest
<1>3. Typed(queue, active, running) /\ Slots(active, running)
      /\ Apart(queue, running, backoff') /\ InOrder(queue, ticket)
  BY DEF SchedulerInv, Apart
<1>4. /\ Typed(q, active, running) /\ Len(q) = Len(queue) + 1
      /\ Apart(q, running, backoff')
      /\ Placed(q, running, backoff', cancelled', promise')
      /\ InOrder(q, ticket')
      /\ Joins(q, j)
  <2>1. PICK r : r = q
    OBVIOUS
  <2>2. /\ Typed(r, active, running) /\ Len(r) = Len(queue) + 1
        /\ Apart(r, running, backoff')
        /\ Placed(r, running, backoff', cancelled', promise')
        /\ InOrder(r, [ticket EXCEPT ![j] = clock + 1])
        /\ Joins(r, j)
    BY <1>1, <1>2, <1>3, <2>1, JoinQueue
  <2>3. QED
    BY <1>2, <2>1, <2>2
<1>5. Budgeted(q, backoff', attempts', promise', sends)
  <2>1. ASSUME NEW k \in 1..Len(q)
        PROVE  sends[q[k]] <= attempts[q[k]]
    <3>1. q[k] = j \/ \E l \in 1..Len(queue) : q[k] = queue[l]
      BY <1>4 DEF Joins
    <3>2. QED
      BY <3>1 DEF SchedulerInv, Budgeted
  <2>2. QED
    BY <2>1 DEF SchedulerInv, Budgeted
<1>6. OneToStart(q, active)
  BY <1>3, <1>4, ConcurrencyAssumption DEF OneToStart, SchedulerInv, NoIdleSlot, Typed
<1>7. QED
  <2>1. Pump(q, active, running)
    BY <1>1
  <2> HIDE DEF q
  <2>2. QED
    BY <1>3, <1>4, <1>5, <1>6, <2>1, PumpKeeps

(* A handler that frees the slot of j and pumps: what it owes is where j is
   now. *)
LEMMA LeaveSound ==
  ASSUME NEW j \in running, SchedulerInv, LeaveSlot(j), TypedRest',
         cancelled' = cancelled, ticket' = ticket,
         \/ /\ backoff' = backoff /\ attempts' = attempts
            /\ promise'[j] \in Outcome
            /\ \A k \in Job : k # j => promise'[k] = promise[k]
         \/ /\ backoff' = backoff \cup {j} /\ ~cancelled[j] /\ promise' = promise
            /\ attempts' = [attempts EXCEPT ![j] = @ + 1]
  PROVE  SchedulerInv' /\ NoneCancelledSent
<1> DEFINE f == running \ {j}
           b == active - 1
<1>1. /\ Typed(queue, active, running) /\ Slots(active, running) /\ j \in Job
      /\ promise[j] = "pending" /\ promise \in [Job -> Promise]
      /\ attempts \in [Job -> Nat] /\ j \notin backoff
      /\ \A i \in 1..Len(queue) : queue[i] # j /\ queue[i] \in Job
  <2>1. /\ Typed(queue, active, running) /\ Slots(active, running) /\ TypedRest
        /\ Apart(queue, running, backoff)
        /\ Placed(queue, running, backoff, cancelled, promise)
    BY DEF SchedulerInv
  <2>2. /\ promise \in [Job -> Promise] /\ attempts \in [Job -> Nat] /\ j \in Job
    BY <2>1, RetriesAssumption DEF Typed, TypedRest
  <2>3. promise[j] = "pending" /\ j \notin backoff
    BY <2>1, <2>2 DEF Placed, Apart
  <2>4. \A i \in 1..Len(queue) : queue[i] # j /\ queue[i] \in Job
    BY <2>1 DEF Apart, Typed
  <2> QED BY <2>1, <2>2, <2>3, <2>4
<1>2. Typed(queue, b, f) /\ Slots(b, f) /\ active \in Nat /\ b < MaxConcurrent
  <2>1. IsFiniteSet(f) /\ Cardinality(f) = active - 1 /\ active - 1 \in Nat
    <3>1. IsFiniteSet(f) /\ Cardinality(f) = Cardinality(running) - 1
      BY <1>1, FS_RemoveElement DEF Slots
    <3>2. Cardinality(f) \in Nat
      BY <3>1, FS_CardinalityType
    <3>3. QED
      BY <1>1, <3>1, <3>2 DEF Slots
  <2>2. QED
    BY <1>1, <2>1, ConcurrencyAssumption DEF Typed, Slots
<1>3. Apart(queue, f, backoff')
  BY <1>1 DEF SchedulerInv, Apart
<1>4. Placed(queue, f, backoff', cancelled', promise')
  <2>1. \A k \in Job : k # j => promise'[k] = promise[k]
    OBVIOUS
  <2>2. promise'[j] # "none"
    BY <1>1 DEF Outcome
  <2>3. promise'[j] = "pending" => j \in backoff'
    BY DEF Outcome
  <2>4. Placed(queue, running, backoff, cancelled, promise) /\ backoff \subseteq Job
        /\ running \subseteq Job
    BY DEF SchedulerInv, TypedRest, Typed
  <2>5. \A i \in 1..Len(queue) : promise'[queue[i]] = "pending" /\ ~cancelled[queue[i]]
    BY <1>1, <2>1, <2>4 DEF Placed
  <2>6. \A k \in f : promise'[k] = "pending"
    BY <2>1, <2>4 DEF Placed
  <2>7. \A k \in backoff' : promise'[k] = "pending" /\ ~cancelled[k]
    BY <1>1, <2>1, <2>4 DEF Placed
  <2>8. \A k \in Job : promise'[k] = "pending" /\ ~cancelled[k]
                         => k \in f \/ k \in backoff' \/ k \in Waiting(queue)
    BY <1>1, <2>1, <2>3, <2>4 DEF Placed
  <2>9. QED
    BY <2>1, <2>2, <2>4, <2>5, <2>6, <2>7, <2>8 DEF Placed
<1>5. Budgeted(queue, backoff', attempts', promise', sends)
  <2>1. Budgeted(queue, backoff, attempts, promise, sends)
    BY DEF SchedulerInv
  <2>2. CASE attempts' = attempts /\ backoff' = backoff
    <3>1. \A k \in Job : promise'[k] = "none" => promise[k] = "none"
      BY <1>1 DEF Outcome
    <3>2. QED
      BY <2>1, <2>2, <3>1 DEF Budgeted
  <2>3. CASE /\ backoff' = backoff \cup {j} /\ promise' = promise
             /\ attempts' = [attempts EXCEPT ![j] = @ + 1]
    <3>1. attempts'[j] = attempts[j] + 1 /\ attempts[j] \in Nat
          /\ \A k \in Job : k # j => attempts'[k] = attempts[k]
      BY <1>1, <2>3
    <3>2. sends[j] <= attempts'[j] /\ sends[j] \in Nat
      BY <1>1, <2>1, <3>1 DEF Budgeted
    <3>3. \A k \in Job : sends[k] <= attempts'[k] + 1
      BY <2>1, <3>1, <3>2 DEF Budgeted
    <3>4. \A i \in 1..Len(queue) : sends[queue[i]] <= attempts'[queue[i]]
      BY <1>1, <2>1, <3>1 DEF Budgeted
    <3>5. \A k \in Job : k \in backoff' \/ promise'[k] = "none" => sends[k] <= attempts'[k]
      BY <2>1, <2>3, <3>1, <3>2 DEF Budgeted
    <3>6. QED
      BY <2>1, <3>3, <3>4, <3>5 DEF Budgeted
  <2>4. QED
    BY <2>2, <2>3
<1>6. OneToStart(queue, b) /\ InOrder(queue, ticket')
  <2>1. queue \in Seq(Job) /\ Len(queue) \in Nat
    BY <1>1 DEF Typed
  <2>2. queue # <<>> => active = MaxConcurrent
    BY DEF SchedulerInv, NoIdleSlot
  <2>3. OneToStart(queue, b)
    BY <1>2, <2>1, <2>2, ConcurrencyAssumption DEF OneToStart
  <2>4. QED
    BY <2>3 DEF SchedulerInv
<1>7. QED
  <2>1. Pump(queue, b, f)
    BY DEF LeaveSlot
  <2> HIDE DEF b, f
  <2>2. QED
    BY <1>2, <1>3, <1>4, <1>5, <1>6, <2>1, PumpKeeps

-----------------------------------------------------------------------------
(* Each action. *)

(* send() keeps the invariant: the job was nowhere, and has used no retry. *)
LEMMA SendSound ==
  ASSUME NEW j \in Job, SchedulerInv, Send(j)
  PROVE  SchedulerInv' /\ NoneCancelledSent
<1>1. /\ promise[j] = "none" /\ promise' = [promise EXCEPT ![j] = "pending"]
      /\ backoff' = backoff /\ attempts' = attempts /\ cancelled' = cancelled
      /\ EnqueueAndPump(j)
  BY DEF Send
<1>2. Typed(queue, active, running) /\ TypedRest
      /\ Placed(queue, running, backoff, cancelled, promise)
      /\ Budgeted(queue, backoff, attempts, promise, sends)
  BY DEF SchedulerInv
<1>3. ticket' = [ticket EXCEPT ![j] = clock + 1] /\ clock' = clock + 1
  BY <1>1 DEF EnqueueAndPump
<1>4. TypedRest'
  <2>1. promise' \in [Job -> Promise]
    BY <1>1, <1>2 DEF TypedRest, Promise
  <2>2. ticket' \in [Job -> Nat] /\ clock' \in Nat /\ \A k \in Job : ticket'[k] <= clock'
    BY <1>2, <1>3 DEF TypedRest
  <2>3. QED
    BY <1>1, <1>2, <2>1, <2>2 DEF TypedRest
<1>5. /\ promise'[j] = "pending" /\ ~cancelled[j]
      /\ \A k \in Job : k # j => promise'[k] = promise[k]
  BY <1>1, <1>2 DEF TypedRest, Placed
<1>6. /\ j \notin running /\ j \notin backoff
      /\ \A k \in 1..Len(queue) : queue[k] # j
  BY <1>1, <1>2 DEF Placed
<1>7. Placed(queue, running, backoff \cup {j}, cancelled, promise')
  <2>1. \A i \in 1..Len(queue) : queue[i] \in Job
    BY <1>2 DEF Typed
  <2>2. running \subseteq Job /\ backoff \subseteq Job
    BY <1>2 DEF Typed, TypedRest
  <2>3. QED
    BY <1>2, <1>5, <1>6, <2>1, <2>2 DEF Placed
<1>8. \A k \in Job : promise'[k] = "none" => promise[k] = "none"
  BY <1>1, <1>5
<1>9. sends[j] <= attempts[j]
  BY <1>1, <1>2 DEF Budgeted
<1>10. QED
  BY <1>1, <1>4, <1>6, <1>7, <1>8, <1>9, EnqueueSound

(* A retry timer keeps it: the job leaves its backoff for the queue. *)
LEMMA RetryTimerSound ==
  ASSUME NEW j \in Job, SchedulerInv, RetryTimer(j)
  PROVE  SchedulerInv' /\ NoneCancelledSent
<1>1. /\ j \in backoff /\ backoff' = backoff \ {j} /\ attempts' = attempts
      /\ cancelled' = cancelled /\ promise' = promise /\ EnqueueAndPump(j)
  BY DEF RetryTimer
<1>2. TypedRest /\ Placed(queue, running, backoff, cancelled, promise)
      /\ Apart(queue, running, backoff)
      /\ Budgeted(queue, backoff, attempts, promise, sends)
  BY DEF SchedulerInv
<1>3. ticket' = [ticket EXCEPT ![j] = clock + 1] /\ clock' = clock + 1
  BY <1>1 DEF EnqueueAndPump
<1>4. TypedRest'
  <2>1. ticket' \in [Job -> Nat] /\ clock' \in Nat /\ \A k \in Job : ticket'[k] <= clock'
    BY <1>2, <1>3 DEF TypedRest
  <2>2. QED
    BY <1>1, <1>2, <2>1 DEF TypedRest
<1>5. /\ j \notin running /\ \A k \in 1..Len(queue) : queue[k] # j
      /\ backoff' \cup {j} = backoff /\ sends[j] <= attempts[j]
  BY <1>1, <1>2 DEF Apart, Budgeted
<1>6. QED
  BY <1>1, <1>2, <1>4, <1>5, EnqueueSound

(* An answer keeps it: the job leaves its slot, settled or for its backoff. *)
LEMMA AnswersSound ==
  ASSUME NEW j \in Job, SchedulerInv, Answers(j)
  PROVE  SchedulerInv' /\ NoneCancelledSent
<1>1. /\ j \in running /\ LeaveSlot(j) /\ cancelled' = cancelled
      /\ ticket' = ticket /\ clock' = clock
      /\ \/ /\ \E o \in Outcome : Settle(j, o)
            /\ backoff' = backoff /\ attempts' = attempts
         \/ MayRetry(j) /\ ~cancelled[j] /\ ScheduleRetry(j)
  <2>1. CASE InnerAccepts(j)
    BY <2>1 DEF InnerAccepts, Outcome
  <2>2. CASE InnerRejects(j)
    BY <2>2 DEF InnerRejects, RetriesRejection, IsCancelled, Outcome
  <2>3. CASE InnerThrows(j)
    BY <2>3 DEF InnerThrows, IsCancelled, Outcome
  <2>4. QED
    BY <2>1, <2>2, <2>3 DEF Answers
<1>2. TypedRest /\ Placed(queue, running, backoff, cancelled, promise)
  BY DEF SchedulerInv
<1>3. CASE /\ \E o \in Outcome : Settle(j, o)
           /\ backoff' = backoff /\ attempts' = attempts
  <2>1. promise[j] = "pending" /\ promise \in [Job -> Promise]
    BY <1>1, <1>2 DEF Placed, TypedRest
  <2>2. PICK o \in Outcome : promise' = [promise EXCEPT ![j] = o]
    BY <1>3, <2>1 DEF Settle
  <2>3. /\ promise'[j] \in Outcome /\ promise' \in [Job -> Promise]
        /\ \A k \in Job : k # j => promise'[k] = promise[k]
    BY <2>1, <2>2 DEF Promise
  <2>4. TypedRest'
    BY <1>1, <1>2, <1>3, <2>3 DEF TypedRest
  <2>5. QED
    BY <1>1, <1>3, <2>3, <2>4, LeaveSound
<1>4. CASE MayRetry(j) /\ ~cancelled[j] /\ ScheduleRetry(j)
  <2>1. /\ backoff' = backoff \cup {j} /\ promise' = promise
        /\ attempts' = [attempts EXCEPT ![j] = @ + 1] /\ attempts[j] < MaxRetries
    BY <1>4 DEF ScheduleRetry, MayRetry
  <2>2. attempts' \in [Job -> 0..MaxRetries]
    BY <1>2, <2>1, RetriesAssumption DEF TypedRest
  <2>3. TypedRest'
    BY <1>1, <1>2, <2>1, <2>2 DEF TypedRest
  <2>4. QED
    BY <1>1, <1>4, <2>1, <2>3, LeaveSound
<1>5. QED
  BY <1>1, <1>3, <1>4

(* cancel() keeps it: a queued job leaves the queue and settles, any other is
   only marked. *)
LEMMA CancelSound ==
  ASSUME NEW j \in Job, SchedulerInv, Cancel(j)
  PROVE  SchedulerInv' /\ NoneCancelledSent
<1>1. /\ promise[j] = "pending" /\ cancelled' = [cancelled EXCEPT ![j] = TRUE]
      /\ backoff' = backoff \ {j} /\ active' = active /\ running' = running
      /\ attempts' = attempts /\ sends' = sends /\ ticket' = ticket /\ clock' = clock
  BY DEF Cancel
<1>2. /\ Typed(queue, active, running) /\ TypedRest /\ Slots(active, running)
      /\ Apart(queue, running, backoff)
      /\ Placed(queue, running, backoff, cancelled, promise)
      /\ Budgeted(queue, backoff, attempts, promise, sends)
      /\ InOrder(queue, ticket) /\ NoIdleSlot
  BY DEF SchedulerInv
<1>3. /\ cancelled' \in [Job -> BOOLEAN] /\ cancelled'[j]
      /\ \A k \in Job : k # j => cancelled'[k] = cancelled[k]
  BY <1>1, <1>2 DEF TypedRest
<1>4. NoneCancelledSent
  BY <1>1 DEF NoneCancelledSent
<1>5. queue \in Seq(Job) /\ Len(queue) \in Nat
      /\ running \subseteq Job /\ backoff \subseteq Job
      /\ \A i \in 1..Len(queue) : queue[i] \in Job
  BY <1>2 DEF Typed, TypedRest
<1>6. CASE queue' = queue /\ promise' = promise /\ j \notin Queued
  <2>1. \A i \in 1..Len(queue) : queue[i] # j
    BY <1>6 DEF Queued
  <2>2. TypedRest' /\ Typed(queue, active, running)' /\ Slots(active, running)'
    BY <1>1, <1>2, <1>3, <1>6 DEF TypedRest, Typed, Slots
  <2>3. Apart(queue, running, backoff)'
    BY <1>1, <1>2, <1>6 DEF Apart
  <2>4. Placed(queue, running, backoff, cancelled, promise)'
    BY <1>1, <1>2, <1>3, <1>5, <1>6, <2>1 DEF Placed, Waiting
  <2>5. Budgeted(queue, backoff, attempts, promise, sends)'
    BY <1>1, <1>2, <1>6 DEF Budgeted
  <2>6. InOrder(queue, ticket)' /\ NoIdleSlot'
    BY <1>1, <1>2, <1>6 DEF InOrder, NoIdleSlot, Before
  <2>7. QED
    BY <1>4, <2>2, <2>3, <2>4, <2>5, <2>6 DEF SchedulerInv
<1>7. CASE LeaveQueue(j) /\ Settle(j, "cancelled")
  <2>1. PICK i \in 1..Len(queue) : queue[i] = j /\ queue' = RemoveAt(queue, i)
    BY <1>7 DEF LeaveQueue
  <2> DEFINE From(k) == IF k < i THEN k ELSE k + 1
  <2>2. /\ queue' \in Seq(Job) /\ Len(queue') = Len(queue) - 1
        /\ \A k \in 1..Len(queue') : queue'[k] = queue[From(k)]
    BY <1>5, <2>1, Removed
  <2>3. /\ \A k \in 1..Len(queue') : From(k) \in 1..Len(queue) /\ From(k) # i
        /\ \A k, l \in 1..Len(queue') :
             (From(k) = From(l) => k = l) /\ (k < l => From(k) < From(l))
    BY <1>5, <2>2
  <2> HIDE DEF From
  <2>4. \A k \in 1..Len(queue') : queue'[k] # j
    BY <1>2, <2>1, <2>2, <2>3 DEF Apart
  <2>5. /\ promise' = [promise EXCEPT ![j] = "cancelled"]
        /\ promise \in [Job -> Promise] /\ promise' \in [Job -> Promise]
        /\ promise'[j] = "cancelled" /\ \A k \in Job : k # j => promise'[k] = promise[k]
    BY <1>1, <1>2, <1>7 DEF Settle, TypedRest, Promise, Outcome
  <2>6. TypedRest' /\ Typed(queue, active, running)' /\ Slots(active, running)'
    BY <1>1, <1>2, <1>3, <2>2, <2>5 DEF TypedRest, Typed, Slots
  <2>7. Apart(queue, running, backoff)'
    <3>1. ASSUME NEW k \in 1..Len(queue'), NEW l \in 1..Len(queue'), queue'[k] = queue'[l]
          PROVE  k = l
      BY <1>2, <2>2, <2>3, <3>1 DEF Apart
    <3>2. \A k \in 1..Len(queue') : queue'[k] \notin running' /\ queue'[k] \notin backoff'
      BY <1>1, <1>2, <2>2, <2>3 DEF Apart
    <3>3. running' \cap backoff' = {}
      BY <1>1, <1>2 DEF Apart
    <3>4. QED
      BY <3>1, <3>2, <3>3 DEF Apart
  <2>8. Placed(queue, running, backoff, cancelled, promise)'
    <3>1. j \notin running /\ j \notin backoff
      BY <1>2, <2>1 DEF Apart
    <3>2. ASSUME NEW k \in 1..Len(queue')
          PROVE  promise'[queue'[k]] = "pending" /\ ~cancelled'[queue'[k]]
      <4>1. queue'[k] # j /\ queue'[k] = queue[From(k)] /\ queue'[k] \in Job
            /\ From(k) \in 1..Len(queue)
        BY <1>5, <2>2, <2>3, <2>4
      <4>2. promise[queue'[k]] = "pending" /\ ~cancelled[queue'[k]]
        BY <1>2, <4>1 DEF Placed
      <4>3. QED
        BY <1>3, <2>5, <4>1, <4>2
    <3>3. ASSUME NEW k \in 1..Len(queue), queue[k] # j
          PROVE  \E l \in 1..Len(queue') : queue'[l] = queue[k]
      <4>1. k < i \/ k > i
        BY <1>5, <2>1, <3>3
      <4>2. CASE k < i
        <5>1. k \in 1..Len(queue') /\ From(k) = k
          BY <1>5, <2>2, <4>2 DEF From
        <5>2. QED
          BY <2>2, <5>1
      <4>3. CASE k > i
        <5>1. k - 1 \in 1..Len(queue') /\ From(k - 1) = k
          BY <1>5, <2>2, <4>3 DEF From
        <5>2. QED
          BY <2>2, <5>1
      <4>4. QED
        BY <4>1, <4>2, <4>3
    <3>4. ASSUME NEW k \in Job, promise'[k] = "pending", ~cancelled'[k]
          PROVE  k \in running' \/ k \in backoff' \/ k \in Waiting(queue')
      <4>1. k # j /\ promise[k] = "pending" /\ ~cancelled[k]
        BY <1>3, <2>5, <3>4
      <4>2. k \in running \/ k \in backoff \/ k \in Waiting(queue)
        BY <1>2, <4>1 DEF Placed
      <4>3. k \in Waiting(queue) => k \in Waiting(queue')
        BY <3>3, <4>1 DEF Waiting
      <4>4. QED
        BY <1>1, <4>1, <4>2, <4>3
    <3>5. /\ \A k \in running' : promise'[k] = "pending"
          /\ \A k \in backoff' : promise'[k] = "pending" /\ ~cancelled'[k]
          /\ \A k \in Job : cancelled'[k] => promise'[k] # "none"
      BY <1>1, <1>2, <1>3, <1>5, <2>5, <3>1 DEF Placed
    <3>6. QED
      BY <3>2, <3>4, <3>5 DEF Placed
  <2>9. Budgeted(queue, backoff, attempts, promise, sends)'
    <3>1. \A k \in 1..Len(queue') : sends[queue'[k]] <= attempts[queue'[k]]
      BY <1>2, <2>2, <2>3 DEF Budgeted
    <3>2. \A k \in Job : promise'[k] = "none" => promise[k] = "none"
      BY <2>5
    <3>3. QED
      BY <1>1, <1>2, <3>1, <3>2 DEF Budgeted
  <2>10. InOrder(queue, ticket)'
    <3>1. ASSUME NEW k \in 1..Len(queue'), NEW l \in 1..Len(queue'), k < l
          PROVE  Before(queue'[k], queue'[l], ticket)
      BY <1>2, <2>2, <2>3, <3>1 DEF InOrder
    <3>2. QED
      BY <1>1, <3>1 DEF InOrder, Before
  <2>11. NoIdleSlot'
    BY <1>1, <1>2, <1>5, <2>1, <2>2 DEF NoIdleSlot
  <2>12. QED
    BY <1>4, <2>6, <2>7, <2>8, <2>9, <2>10, <2>11 DEF SchedulerInv
<1>8. QED
  BY <1>6, <1>7 DEF Cancel

(* Every step keeps it, and no cancelled job is sent in one. *)
LEMMA StepSound ==
  SchedulerInv /\ [Next]_vars =>
    SchedulerInv' /\ (\A j \in Job : cancelled[j] => sends'[j] = sends[j])
<1> SUFFICES ASSUME SchedulerInv, [Next]_vars
             PROVE  /\ SchedulerInv'
                    /\ \A j \in Job : cancelled[j] => sends'[j] = sends[j]
  OBVIOUS
<1>1. CASE UNCHANGED vars
  BY <1>1 DEF vars, SchedulerInv, Typed, TypedRest, Slots, Apart, Placed, Budgeted,
              InOrder, Before, NoIdleSlot, Waiting
<1>2. CASE Next
  <2>1. PICK j \in Job : Send(j) \/ Answers(j) \/ RetryTimer(j) \/ Cancel(j)
    BY <1>2 DEF Next
  <2>2. SchedulerInv' /\ NoneCancelledSent
    BY <2>1, SendSound, AnswersSound, RetryTimerSound, CancelSound
  <2>3. \A k \in Job : cancelled[k] => cancelled'[k]
    <3>1. cancelled \in [Job -> BOOLEAN]
      BY DEF SchedulerInv, TypedRest
    <3>2. cancelled' = cancelled \/ cancelled' = [cancelled EXCEPT ![j] = TRUE]
      BY <2>1 DEF Send, Answers, InnerAccepts, InnerRejects, InnerThrows, RetryTimer, Cancel
    <3>3. QED
      BY <3>1, <3>2
  <2>4. QED
    BY <2>2, <2>3 DEF NoneCancelledSent
<1>3. QED
  BY <1>1, <1>2

(* The inductive invariant: the queue, the slots and the backoffs agree with
   the promises and the counters through every turn of the event loop. *)
THEOREM SchedulerInvariant == Spec => []SchedulerInv
<1>1. SchedulerInv /\ [Next]_vars => SchedulerInv'
  BY StepSound
<1>2. QED
  BY <1>1, InitSound, PTL DEF Spec

-----------------------------------------------------------------------------
(* Every variable keeps its type; in particular no job is ever given more
   retries than maxRetries. *)
THEOREM TypeCorrect == Spec => []TypeOK
<1>1. SchedulerInv => TypeOK
  BY DEF SchedulerInv, Typed, TypedRest, Budgeted, TypeOK
<1>2. QED
  BY <1>1, SchedulerInvariant, PTL

(* The counter of pump agrees with the jobs in flight and never passes the
   cap (scheduler.ts:129, :132, :161). *)
THEOREM CountsItsSlots == Spec => []SlotsAccounted
<1>1. SchedulerInv => SlotsAccounted
  BY DEF SchedulerInv, Slots, SlotsAccounted
<1>2. QED
  BY <1>1, SchedulerInvariant, PTL

(* A job waits only while every slot is taken: no handler forgets to pump. *)
THEOREM LeavesNoSlotIdle == Spec => []NoIdleSlot
<1>1. SchedulerInv => NoIdleSlot
  BY DEF SchedulerInv
<1>2. QED
  BY <1>1, SchedulerInvariant, PTL

(* The queue is by priority, and first come first served within one
   (scheduler.ts:121-126). *)
THEOREM KeepsTheOrder == Spec => []UrgentFirst
<1>1. SchedulerInv => UrgentFirst
  BY DEF SchedulerInv, InOrder, Before, UrgentFirst
<1>2. QED
  BY <1>1, SchedulerInvariant, PTL

(* No job is lost or doubled between the queue, the slots and the backoffs. *)
THEOREM EveryJobHasItsPlace == Spec => []OnePlace
<1>1. SchedulerInv => OnePlace
  <2> SUFFICES ASSUME SchedulerInv PROVE OnePlace
    OBVIOUS
  <2>1. Queued = Waiting(queue)
    BY DEF Queued, Waiting
  <2>2. /\ \A i, k \in 1..Len(queue) : queue[i] = queue[k] => i = k
        /\ Queued \cap running = {} /\ Queued \cap backoff = {} /\ running \cap backoff = {}
    BY <2>1 DEF SchedulerInv, Apart, Waiting
  <2>3. \A j \in Queued \cup running \cup backoff : promise[j] = "pending"
    BY <2>1 DEF SchedulerInv, Placed, Waiting
  <2>4. \A j \in Job : promise[j] = "pending" /\ ~cancelled[j]
                         => j \in Queued \cup running \cup backoff
    BY <2>1 DEF SchedulerInv, Placed
  <2>5. QED
    BY <2>2, <2>3, <2>4 DEF OnePlace
<1>2. QED
  BY <1>1, SchedulerInvariant, PTL

(* A job goes to the wire at most 1 + maxRetries times. *)
THEOREM KeepsTheBudget == Spec => []RetryBudget
<1>1. SchedulerInv => RetryBudget
  BY RetriesAssumption DEF SchedulerInv, TypedRest, Budgeted, RetryBudget
<1>2. QED
  BY <1>1, SchedulerInvariant, PTL

(* A cancelled job is not sent again, by any timer, retry or pump. *)
THEOREM CancelIsFinal == Spec => CancelledNeverSent
<1>1. SchedulerInv /\ [Next]_vars =>
        [\A j \in Job : cancelled[j] => sends'[j] = sends[j]]_vars
  BY StepSound
<1>2. QED
  BY <1>1, SchedulerInvariant, PTL DEF Spec, CancelledNeverSent

-----------------------------------------------------------------------------
(* The pipeline. *)

(* Where e is on the socket to the destination. *)
Places(r, e) == {i \in 1..Len(r) : r[i] = e}
OnWire(r, e) == Cardinality(Places(r, e))

(* The inductive invariant, by actor.

   The source: the scheduler's invariant, the two tables that must agree with
   its slots and promises, and no entity is sent before dispatch(). *)
SourceInv ==
  /\ SchedulerInv
  /\ source \in [Job -> SourceState]
  /\ sealed \in [Job -> 0..MaxSession]
  /\ pending \subseteq Job /\ unsent \subseteq Job
  /\ SlotHasItsTimer
  /\ SendingIsPending
  /\ \A e \in Job : source[e] = "HELD" => promise[e] = "none"

LinkInv == linkUp \in BOOLEAN /\ session \in 0..MaxSession

(* No entity is copied: what is on the wire, in a sink's hands or delivered was
   sent, each once. *)
DeliveryInv ==
  /\ requests \in Seq(Job)
  /\ dropping \in [Job -> Nat]
  /\ delivered \in [Job -> Nat]
  /\ \A e \in Job : OnWire(requests, e) + dropping[e] + delivered[e] <= sends[e]

(* An ack that says "accepted" was written by a sink that had taken it. *)
AckInv ==
  /\ acks \in Seq([entity : Job, accepted : BOOLEAN])
  /\ \A i \in 1..Len(acks) : acks[i].accepted => delivered[acks[i].entity] >= 1
  /\ NoFalseSuccess

(* The destination's table, while an entity has been sent at most once. *)
DestInv ==
  /\ dest \in [Job -> DestState]
  /\ thrown \subseteq Job
  /\ ReadyMeansDropping
  /\ \A e \in Job : sends[e] <= 1 =>
       /\ dropping[e] > 0 => dest[e] = "READY"
       /\ delivered[e] > 0 => dest[e] = "COMPLETED"

MeshInv == SourceInv /\ LinkInv /\ DeliveryInv /\ AckInv /\ DestInv

-----------------------------------------------------------------------------
(* The socket. *)

LEMMA OnWireType ==
  ASSUME NEW r \in Seq(Job), NEW e
  PROVE  IsFiniteSet(Places(r, e)) /\ OnWire(r, e) \in Nat
<1>1. IsFiniteSet(1..Len(r))
  BY FS_Interval
<1>2. IsFiniteSet(Places(r, e))
  BY <1>1, FS_Subset DEF Places
<1> QED BY <1>2, FS_CardinalityType DEF OnWire

LEMMA OnWireEmpty == \A e : OnWire(<<>>, e) = 0
<1>1. \A e : Places(<<>>, e) = {}
  BY DEF Places
<1> QED BY <1>1, FS_EmptySet DEF OnWire

LEMMA OnWireAppend ==
  ASSUME NEW r \in Seq(Job), NEW h \in Job, NEW e
  PROVE  OnWire(Append(r, h), e) <= OnWire(r, e) + (IF e = h THEN 1 ELSE 0)
<1>1. Len(r) \in Nat /\ Append(r, h) \in Seq(Job) /\ Len(Append(r, h)) = Len(r) + 1
      /\ \A i \in 1..Len(r) : Append(r, h)[i] = r[i]
      /\ Append(r, h)[Len(r) + 1] = h
  OBVIOUS
<1>2. CASE e = h
  <2>1. Places(Append(r, h), e) = Places(r, e) \cup {Len(r) + 1}
    BY <1>1, <1>2 DEF Places
  <2>2. Cardinality(Places(r, e) \cup {Len(r) + 1}) <= Cardinality(Places(r, e)) + 1
    <3>1. IsFiniteSet(Places(r, e)) /\ Cardinality(Places(r, e)) \in Nat
      BY OnWireType DEF OnWire
    <3> DEFINE S == Places(r, e)
               x == Len(r) + 1
    <3> HIDE DEF Places, S, x
    <3>2. Cardinality(S \cup {x}) = IF x \in S THEN Cardinality(S) ELSE Cardinality(S) + 1
      BY <3>1, FS_AddElement DEF S
    <3> QED BY <3>1, <3>2 DEF S, x
  <2> QED BY <1>2, <2>1, <2>2 DEF OnWire
<1>3. CASE e # h
  <2>1. Places(Append(r, h), e) = Places(r, e)
    BY <1>1, <1>3 DEF Places
  <2> QED BY <1>3, <2>1, OnWireType DEF OnWire
<1> QED BY <1>2, <1>3

LEMMA OnWireTail ==
  ASSUME NEW r \in Seq(Job), r # <<>>, NEW e
  PROVE  OnWire(Tail(r), e) + (IF e = Head(r) THEN 1 ELSE 0) <= OnWire(r, e)
<1>1. /\ Len(r) \in Nat \ {0} /\ Tail(r) \in Seq(Job) /\ Len(Tail(r)) = Len(r) - 1
      /\ \A i \in 1..Len(Tail(r)) : Tail(r)[i] = r[i + 1]
      /\ Head(r) = r[1] /\ Head(r) \in Job
  OBVIOUS
<1> DEFINE rest == Places(r, e) \ {1}
           f == [i \in Places(Tail(r), e) |-> i + 1]
<1>2. f \in Injection(Places(Tail(r), e), rest)
  <2>1. \A i \in Places(Tail(r), e) : i + 1 \in rest /\ i \in Nat
    BY <1>1 DEF Places
  <2>2. f \in [Places(Tail(r), e) -> rest]
    BY <2>1
  <2>3. IsInjective(f)
    BY <2>1 DEF IsInjective
  <2> QED BY <2>2, <2>3 DEF Injection
<1>3. IsFiniteSet(Places(r, e)) /\ OnWire(r, e) \in Nat
  BY OnWireType
<1>4. /\ IsFiniteSet(rest)
      /\ Cardinality(rest) = IF 1 \in Places(r, e) THEN OnWire(r, e) - 1 ELSE OnWire(r, e)
  BY <1>3, FS_RemoveElement DEF OnWire
<1>5. OnWire(Tail(r), e) <= Cardinality(rest) /\ OnWire(Tail(r), e) \in Nat
  <2> HIDE DEF f, rest
  <2>1. Cardinality(Places(Tail(r), e)) <= Cardinality(rest)
    BY <1>2, <1>4, FS_Injection
  <2> QED BY <1>1, <2>1, OnWireType DEF OnWire
<1>6. 1 \in Places(r, e) <=> e = Head(r)
  BY <1>1 DEF Places
<1> QED BY <1>3, <1>4, <1>5, <1>6

(* One job to start, or none, as a sequence. *)
LEMMA SequenceOfNone == SetToSeq({}) = <<>>
<1>1. [1..Cardinality({}) -> {}] = {<<>>}
  <2>1. Cardinality({}) = 0
    BY FS_EmptySet
  <2>2. <<>> \in [1..0 -> {}]
    OBVIOUS
  <2>3. ASSUME NEW g \in [1..0 -> {}] PROVE g = <<>>
    <3>1. g \in Seq({}) /\ Len(g) = 0
      OBVIOUS
    <3> QED BY <3>1
  <2> QED BY <2>1, <2>2, <2>3
<1>2. IsInjective(<<>>)
  BY DEF IsInjective
<1>3. \E g \in [1..Cardinality({}) -> {}] : IsInjective(g)
  BY <1>1, <1>2
<1>4. SetToSeq({}) \in [1..Cardinality({}) -> {}]
  BY <1>3 DEF SetToSeq
<1> QED BY <1>1, <1>4

LEMMA SequenceOfOne == \A h : SetToSeq({h}) = <<h>>
<1> SUFFICES ASSUME NEW h PROVE SetToSeq({h}) = <<h>>
  OBVIOUS
<1>1. Cardinality({h}) = 1
  BY FS_Singleton
<1>2. [1..1 -> {h}] = {<<h>>}
  <2>1. \A g \in [1..1 -> {h}] : g = [i \in 1..1 |-> h]
    OBVIOUS
  <2>2. <<h>> = [i \in 1..1 |-> h]
    OBVIOUS
  <2> QED BY <2>1, <2>2
<1>3. IsInjective(<<h>>)
  BY DEF IsInjective
<1>4. \E g \in [1..Cardinality({h}) -> {h}] : IsInjective(g)
  BY <1>1, <1>2, <1>3
<1>5. SetToSeq({h}) \in [1..Cardinality({h}) -> {h}]
  BY <1>4 DEF SetToSeq
<1> QED BY <1>1, <1>2, <1>5

-----------------------------------------------------------------------------
(* What a turn of the scheduler starts. *)

(* The turn starts one job that held no slot, or none: f are those that hold
   theirs on. *)
StartsBeside(f) ==
  \/ running' = f /\ sends' = sends
  \/ \E h \in Job \ running : running' = f \cup {h} /\ sends' = [sends EXCEPT ![h] = @ + 1]

LEMMA PumpStarts ==
  ASSUME SchedulerInv, NEW q \in Seq(Job), NEW b \in Nat, NEW f, b <= MaxConcurrent,
         OneToStart(q, b), Pump(q, b, f), \A i \in 1..Len(q) : q[i] \notin running
  PROVE  StartsBeside(f)
<1>1. sends \in [Job -> Nat]
  BY DEF SchedulerInv, Budgeted
<1>2. \/ running' = f /\ sends' = sends
      \/ /\ q # <<>> /\ running' = f \cup {q[1]}
         /\ sends' = [sends EXCEPT ![q[1]] = @ + 1]
  BY <1>1, PumpStartsOne
<1>3. q # <<>> => q[1] \in Job \ running
  OBVIOUS
<1> QED BY <1>2, <1>3 DEF StartsBeside

LEMMA EnqueueStarts ==
  ASSUME NEW j \in Job, SchedulerInv, EnqueueAndPump(j), j \notin running
  PROVE  StartsBeside(running)
<1>1. PICK i \in 1..(Len(queue) + 1) : Pump(InsertAt(queue, i, j), active, running)
  BY DEF EnqueueAndPump
<1>2. /\ queue \in Seq(Job) /\ active \in Nat /\ active <= MaxConcurrent
      /\ \A k \in 1..Len(queue) : queue[k] \notin running
      /\ queue # <<>> => active = MaxConcurrent
  BY DEF SchedulerInv, Typed, Slots, Apart, NoIdleSlot
<1> DEFINE q == InsertAt(queue, i, j)
<1>3. /\ q \in Seq(Job) /\ Len(q) = Len(queue) + 1
      /\ \A k \in 1..(Len(queue) + 1) :
           q[k] = IF k < i THEN queue[k] ELSE IF k = i THEN j ELSE queue[k - 1]
  BY <1>2, Inserted
<1>4. \A k \in 1..Len(q) : q[k] \notin running
  <2> SUFFICES ASSUME NEW k \in 1..Len(q) PROVE q[k] \notin running
    OBVIOUS
  <2>1. k # i => (IF k < i THEN k ELSE k - 1) \in 1..Len(queue)
    BY <1>2, <1>3
  <2>2. q[k] = IF k < i THEN queue[k] ELSE IF k = i THEN j ELSE queue[k - 1]
    BY <1>3
  <2> HIDE DEF q
  <2> QED BY <1>2, <2>1, <2>2
<1>5. OneToStart(q, active)
  BY <1>2, <1>3, ConcurrencyAssumption DEF OneToStart
<1> HIDE DEF q
<1>6. Pump(q, active, running)
  BY <1>1 DEF q
<1> QED BY <1>2, <1>3, <1>4, <1>5, <1>6, PumpStarts

LEMMA SendStarts ==
  ASSUME NEW j \in Job, SchedulerInv, Send(j) \/ RetryTimer(j)
  PROVE  StartsBeside(running)
<1>1. EnqueueAndPump(j) /\ (promise[j] = "none" \/ j \in backoff)
  BY DEF Send, RetryTimer
<1>2. j \notin running
  BY <1>1 DEF SchedulerInv, Apart, Placed
<1> QED BY <1>1, <1>2, EnqueueStarts

LEMMA AnswerStarts ==
  ASSUME NEW j \in Job, SchedulerInv, Answers(j)
  PROVE  j \in running /\ StartsBeside(running \ {j})
<1>1. j \in running /\ LeaveSlot(j)
  BY DEF Answers, InnerAccepts, InnerRejects, InnerThrows
<1>2. /\ queue \in Seq(Job) /\ active \in Nat /\ active <= MaxConcurrent
      /\ \A k \in 1..Len(queue) : queue[k] \notin running
      /\ queue # <<>> => active = MaxConcurrent
      /\ IsFiniteSet(running) /\ active = Cardinality(running)
  BY DEF SchedulerInv, Typed, Slots, Apart, NoIdleSlot
<1>3. active # 0
  BY <1>1, <1>2, FS_EmptySet
<1>4. active - 1 \in Nat /\ active - 1 <= MaxConcurrent /\ OneToStart(queue, active - 1)
  BY <1>2, <1>3, ConcurrencyAssumption DEF OneToStart
<1> QED BY <1>1, <1>2, <1>4, PumpStarts DEF LeaveSlot

(* What is written to the socket has been counted as sent. *)
SendsGrow ==
  /\ requests' \in Seq(Job)
  /\ \A e \in Job : /\ sends[e] <= sends'[e] /\ sends'[e] \in Nat
                    /\ OnWire(requests', e) + sends[e] <= OnWire(requests, e) + sends'[e]

(* What the scheduler starts, the mesh transport takes: it will be answered by
   its ack timer or at once, and it is written to the socket once at most. *)
LEMMA MeshSends ==
  ASSUME NEW f \in SUBSET Job, StartsBeside(f), f \subseteq running,
         sends \in [Job -> Nat], running \subseteq Job,
         requests \in Seq(Job), dropping \in [Job -> Nat], delivered \in [Job -> Nat],
         NEW p, NEW u, p \cup u = f, p \cap u = {}, MeshSend(p, u)
  PROVE  running' = pending' \cup unsent' /\ pending' \cap unsent' = {} /\ SendsGrow
<1>1. \A e \in Job : OnWire(requests, e) \in Nat
  BY OnWireType
<1>2. CASE running' = f /\ sends' = sends
  <2>1. Started = {}
    BY <1>2 DEF Started
  <2>2. requests' = requests
    <3>1. requests \o <<>> = requests
      OBVIOUS
    <3> QED BY <2>1, <3>1, SequenceOfNone DEF MeshSend
  <2>3. pending' = p /\ unsent' = u
    BY <2>1 DEF MeshSend
  <2> QED BY <1>1, <1>2, <2>2, <2>3 DEF SendsGrow
<1>3. ASSUME NEW h \in Job \ running, running' = f \cup {h},
             sends' = [sends EXCEPT ![h] = @ + 1]
      PROVE  running' = pending' \cup unsent' /\ pending' \cap unsent' = {} /\ SendsGrow
  <2>1. Started = {h}
    <3>1. \A e \in Job : sends'[e] # sends[e] <=> e = h
      BY <1>3
    <3> QED BY <3>1 DEF Started
  <2>2. requests' = requests \/ requests' = Append(requests, h)
    <3>1. requests \o <<h>> = Append(requests, h)
      OBVIOUS
    <3> QED BY <2>1, <3>1, SequenceOfOne DEF MeshSend
  <2>3. \/ pending' = p \cup {h} /\ unsent' = u
        \/ pending' = p /\ unsent' = u \cup {h}
    BY <2>1 DEF MeshSend
  <2>4. running' = pending' \cup unsent' /\ pending' \cap unsent' = {}
    BY <1>3, <2>3
  <2>5. requests' \in Seq(Job)
    <3>1. Append(requests, h) \in Seq(Job)
      OBVIOUS
    <3> QED BY <2>2, <3>1
  <2>6. ASSUME NEW e \in Job
        PROVE  /\ sends[e] <= sends'[e] /\ sends'[e] \in Nat
               /\ OnWire(requests', e) + sends[e] <= OnWire(requests, e) + sends'[e]
    <3>1. sends'[e] = sends[e] + (IF e = h THEN 1 ELSE 0) /\ sends[e] \in Nat
      BY <1>3
    <3>2. OnWire(requests', e) <= OnWire(requests, e) + (IF e = h THEN 1 ELSE 0)
      <4>1. CASE requests' = requests
        BY <1>1, <4>1
      <4>2. CASE requests' = Append(requests, h)
        BY <4>2, OnWireAppend
      <4> QED BY <2>2, <4>1, <4>2
    <3>3. OnWire(requests', e) \in Nat
      BY <2>5, OnWireType
    <3> QED BY <1>1, <3>1, <3>2, <3>3
  <2> QED BY <2>4, <2>5, <2>6 DEF SendsGrow
<1> QED BY <1>2, <1>3 DEF StartsBeside

-----------------------------------------------------------------------------
(* A promise settles, and dispatch() concludes. *)

LEMMA SettleFacts ==
  ASSUME promise \in [Job -> Promise], NEW j \in Job, NEW o \in Outcome, Settle(j, o)
  PROVE  \A k \in Job : promise'[k] = IF k = j /\ promise[k] = "pending" THEN o ELSE promise[k]
BY DEF Settle

(* A turn may settle promises that are pending, and no others. *)
Settling == \A k \in Job : \/ promise'[k] = promise[k]
                           \/ promise[k] = "pending" /\ promise'[k] \in Outcome

LEMMA ConcludeKeeps ==
  ASSUME SourceInv, Settling, Conclude
  PROVE  /\ source' \in [Job -> SourceState]
         /\ SendingIsPending'
         /\ \A e \in Job : source'[e] = "HELD" => promise'[e] = "none"
         /\ \A e \in Job : source'[e] = "COMPLETED" =>
              source[e] = "COMPLETED" \/ (promise[e] = "pending" /\ promise'[e] = "accepted")
<1>1. /\ source \in [Job -> SourceState] /\ SendingIsPending
      /\ \A e \in Job : source[e] = "HELD" => promise[e] = "none"
  BY DEF SourceInv
<1>2. source' = [e \in Job |-> IF promise[e] = "pending" /\ promise'[e] # "pending"
                               THEN Conclusion(promise'[e]) ELSE source[e]]
  BY DEF Conclude
<1>3. \A e \in Job : Conclusion(promise'[e]) =
                       IF promise'[e] = "accepted" THEN "COMPLETED" ELSE "FAILED"
  BY DEF Conclusion
<1>4. source' \in [Job -> SourceState]
  BY <1>1, <1>2, <1>3 DEF SourceState
<1>5. ASSUME NEW e \in Job
      PROVE  /\ source'[e] = "SENDING" <=> promise'[e] = "pending"
             /\ source'[e] = "HELD" => promise'[e] = "none"
             /\ source'[e] = "COMPLETED" =>
                  source[e] = "COMPLETED" \/ (promise[e] = "pending" /\ promise'[e] = "accepted")
  <2>1. /\ source[e] = "SENDING" <=> promise[e] = "pending"
        /\ source[e] = "HELD" => promise[e] = "none"
    BY <1>1 DEF SendingIsPending
  <2>2. CASE promise'[e] = promise[e]
    BY <1>2, <2>1, <2>2
  <2>3. CASE promise[e] = "pending" /\ promise'[e] \in Outcome
    BY <1>2, <1>3, <2>1, <2>3 DEF Outcome
  <2> QED BY <2>2, <2>3 DEF Settling
<1> QED BY <1>4, <1>5 DEF SendingIsPending

(* The inner transport answers for e, and has freed its entry. *)
LEMMA AnswerTurn ==
  ASSUME SourceInv, DeliveryInv, NEW e \in Job, InnerAccepts(e) \/ InnerRejects(e),
         Conclude, NEW p, NEW u, p \cup u = running \ {e}, p \cap u = {},
         MeshSend(p, u), sealed' = sealed
  PROVE  /\ SourceInv' /\ SendsGrow
         /\ \A k \in Job : source'[k] = "COMPLETED" =>
              source[k] = "COMPLETED" \/ (k = e /\ ~InnerRejects(e))
<1>1. /\ SchedulerInv /\ promise \in [Job -> Promise] /\ sends \in [Job -> Nat]
      /\ running \subseteq Job
  BY DEF SourceInv, SchedulerInv, TypedRest, Budgeted, Typed
<1>2. Answers(e)
  BY DEF Answers
<1>3. SchedulerInv' /\ StartsBeside(running \ {e})
  BY <1>1, <1>2, AnswersSound, AnswerStarts
<1>4. running' = pending' \cup unsent' /\ pending' \cap unsent' = {} /\ SendsGrow
  <2>1. running \ {e} \in SUBSET Job /\ running \ {e} \subseteq running
    BY <1>1
  <2>2. requests \in Seq(Job) /\ dropping \in [Job -> Nat] /\ delivered \in [Job -> Nat]
    BY DEF DeliveryInv
  <2> QED BY <1>1, <1>3, <2>1, <2>2, MeshSends
<1>5. Settling /\ \A k \in Job : promise[k] = "pending" /\ promise'[k] = "accepted" =>
                                   k = e /\ ~InnerRejects(e)
  <2>1. CASE ~InnerRejects(e)
    <3>1. PICK o \in {"accepted", "cancelled"} : Settle(e, o)
      BY <2>1 DEF InnerAccepts
    <3>2. \A k \in Job : promise'[k] = IF k = e /\ promise[k] = "pending" THEN o ELSE promise[k]
      BY <1>1, <3>1, SettleFacts DEF Outcome
    <3> QED BY <2>1, <3>2 DEF Settling, Outcome
  <2>2. CASE InnerRejects(e)
    <3>1. promise' = promise \/ \E o \in {"rejected", "cancelled"} : Settle(e, o)
      BY <2>2 DEF InnerRejects, ScheduleRetry
    <3>2. ASSUME NEW o \in {"rejected", "cancelled"}, Settle(e, o)
          PROVE  \A k \in Job : promise'[k] = IF k = e /\ promise[k] = "pending"
                                              THEN o ELSE promise[k]
      BY <1>1, <3>2, SettleFacts DEF Outcome
    <3> QED BY <3>1, <3>2 DEF Settling, Outcome
  <2> QED BY <2>1, <2>2
<1>6. /\ source' \in [Job -> SourceState] /\ SendingIsPending'
      /\ \A k \in Job : source'[k] = "HELD" => promise'[k] = "none"
      /\ \A k \in Job : source'[k] = "COMPLETED" =>
           source[k] = "COMPLETED" \/ (promise[k] = "pending" /\ promise'[k] = "accepted")
  BY <1>5, ConcludeKeeps
<1>7. pending' \subseteq Job /\ unsent' \subseteq Job
  BY <1>3, <1>4 DEF SchedulerInv, Typed
<1>8. sealed' \in [Job -> 0..MaxSession]
  BY DEF SourceInv
<1>9. SlotHasItsTimer'
  BY <1>4 DEF SlotHasItsTimer
<1>10. SourceInv'
  BY <1>3, <1>6, <1>7, <1>8, <1>9 DEF SourceInv
<1> QED BY <1>4, <1>5, <1>6, <1>10

-----------------------------------------------------------------------------
(* What a turn leaves alone. *)

LEMMA SourceStands ==
  ASSUME SourceInv, UNCHANGED <<schedulerVars, sourceVars>>
  PROVE  SourceInv'
<1>1. UNCHANGED vars /\ UNCHANGED <<source, sealed, pending, unsent>>
  BY DEF schedulerVars, sourceVars, vars
<1>2. SchedulerInv'
  BY <1>1, StepSound DEF SourceInv
<1> QED BY <1>1, <1>2 DEF SourceInv, SlotHasItsTimer, SendingIsPending, vars

LEMMA SchedulerStands ==
  ASSUME SourceInv, UNCHANGED schedulerVars, requests' = requests, DeliveryInv
  PROVE  SendsGrow
<1>1. \A e \in Job : OnWire(requests, e) \in Nat /\ sends[e] \in Nat
  BY OnWireType DEF SourceInv, SchedulerInv, Budgeted, DeliveryInv
<1> QED BY <1>1 DEF SendsGrow, DeliveryInv, schedulerVars, vars

LEMMA DeliveryKept ==
  ASSUME SourceInv, DeliveryInv, SendsGrow, UNCHANGED <<dropping, delivered>>
  PROVE  DeliveryInv'
<1>1. \A e \in Job : /\ OnWire(requests, e) \in Nat /\ OnWire(requests', e) \in Nat
                     /\ sends[e] \in Nat
                     /\ dropping[e] \in Nat /\ delivered[e] \in Nat
  BY OnWireType DEF SourceInv, SchedulerInv, Budgeted, DeliveryInv, SendsGrow
<1>2. ASSUME NEW e \in Job
      PROVE  OnWire(requests', e) + dropping[e] + delivered[e] <= sends'[e]
  <2>1. /\ OnWire(requests, e) + dropping[e] + delivered[e] <= sends[e]
        /\ OnWire(requests', e) + sends[e] <= OnWire(requests, e) + sends'[e]
        /\ sends'[e] \in Nat
    BY DEF DeliveryInv, SendsGrow
  <2> QED BY <1>1, <2>1
<1> QED BY <1>2 DEF DeliveryInv, SendsGrow

LEMMA DestKept ==
  ASSUME SourceInv, DestInv, SendsGrow, UNCHANGED destVars
  PROVE  DestInv'
<1>1. \A e \in Job : sends[e] \in Nat /\ sends'[e] \in Nat /\ sends[e] <= sends'[e]
  BY DEF SourceInv, SchedulerInv, Budgeted, SendsGrow
<1> QED BY <1>1 DEF DestInv, destVars, ReadyMeansDropping

LEMMA FirstOf ==
  ASSUME NEW S, NEW r \in Seq(S), r # <<>>
  PROVE  Head(r) = r[1] /\ 1 \in 1..Len(r) /\ r[1] \in S
OBVIOUS

LEMMA ElementOf ==
  ASSUME NEW S, NEW r \in Seq(S), NEW i \in 1..Len(r)
  PROVE  r[i] \in S
OBVIOUS

LEMMA EmptySequence == \A S : <<>> \in Seq(S)
OBVIOUS

(* An ack less, or none, and no new claim. *)
LEMMA AckKept ==
  ASSUME AckInv, delivered' = delivered,
         acks' = acks \/ acks' = <<>> \/ (acks # <<>> /\ acks' = Tail(acks)),
         \A e \in Job : source'[e] = "COMPLETED" => source[e] = "COMPLETED" \/ delivered[e] >= 1
  PROVE  AckInv'
<1>1. /\ acks' \in Seq([entity : Job, accepted : BOOLEAN])
      /\ \A i \in 1..Len(acks') : \E k \in 1..Len(acks) : acks'[i] = acks[k]
  <2>1. CASE acks' = acks
    BY <2>1 DEF AckInv
  <2>2. CASE acks' = <<>>
    <3>1. acks' \in Seq([entity : Job, accepted : BOOLEAN]) /\ Len(acks') = 0
      BY <2>2, EmptySequence
    <3> QED BY <3>1
  <2>3. CASE acks # <<>> /\ acks' = Tail(acks)
    <3>1. /\ acks' \in Seq([entity : Job, accepted : BOOLEAN])
          /\ \A i \in 1..Len(acks') : acks'[i] = acks[i + 1] /\ i + 1 \in 1..Len(acks)
      BY <2>3 DEF AckInv
    <3> QED BY <3>1
  <2> QED BY <2>1, <2>2, <2>3
<1>2. \A i \in 1..Len(acks') : acks'[i].accepted => delivered[acks'[i].entity] >= 1
  BY <1>1 DEF AckInv
<1>3. NoFalseSuccess'
  BY DEF AckInv, NoFalseSuccess
<1> QED BY <1>1, <1>2, <1>3 DEF AckInv

-----------------------------------------------------------------------------
(* The actions of the source. *)

LEMMA DispatchKeeps ==
  ASSUME MeshInv, NEW e \in Job, Dispatch(e)
  PROVE  MeshInv'
<1>1. /\ source[e] = "HELD" /\ source' = [source EXCEPT ![e] = "SENDING"]
      /\ sealed' = [sealed EXCEPT ![e] = CurrentKey]
      /\ Send(e) /\ MeshSend(pending, unsent)
      /\ UNCHANGED <<linkUp, session, acks, dest, dropping, delivered, thrown>>
  BY DEF Dispatch, linkVars, destVars
<1>2. SourceInv /\ LinkInv /\ DeliveryInv /\ AckInv /\ DestInv
  BY DEF MeshInv
<1>3. /\ SchedulerInv /\ promise \in [Job -> Promise] /\ sends \in [Job -> Nat]
      /\ running \subseteq Job /\ running = pending \cup unsent /\ pending \cap unsent = {}
      /\ source \in [Job -> SourceState] /\ sealed \in [Job -> 0..MaxSession]
  BY <1>2 DEF SourceInv, SchedulerInv, TypedRest, Budgeted, Typed, SlotHasItsTimer
<1>4. SchedulerInv' /\ StartsBeside(running)
  BY <1>1, <1>3, SendSound, SendStarts
<1>5. running' = pending' \cup unsent' /\ pending' \cap unsent' = {} /\ SendsGrow
  <2>1. requests \in Seq(Job) /\ dropping \in [Job -> Nat] /\ delivered \in [Job -> Nat]
    BY <1>2 DEF DeliveryInv
  <2> QED BY <1>1, <1>3, <1>4, <2>1, MeshSends
<1>6. SlotHasItsTimer' /\ pending' \subseteq Job /\ unsent' \subseteq Job
  BY <1>4, <1>5 DEF SlotHasItsTimer, SchedulerInv, Typed
<1>7. sealed' \in [Job -> 0..MaxSession]
  <2>1. CurrentKey \in 0..MaxSession
    BY <1>2, SessionAssumption DEF LinkInv, CurrentKey
  <2> QED BY <1>1, <1>3, <2>1
<1>8. promise' = [promise EXCEPT ![e] = "pending"]
  BY <1>1 DEF Send
<1>9. /\ source' \in [Job -> SourceState] /\ SendingIsPending'
      /\ \A k \in Job : source'[k] = "HELD" => promise'[k] = "none"
  <2>1. \A k \in Job : /\ source'[k] = IF k = e THEN "SENDING" ELSE source[k]
                       /\ promise'[k] = IF k = e THEN "pending" ELSE promise[k]
    BY <1>1, <1>3, <1>8
  <2>2. source' \in [Job -> SourceState]
    BY <1>1, <1>3 DEF SourceState
  <2> QED BY <1>2, <2>1, <2>2 DEF SourceInv, SendingIsPending
<1>10. SourceInv'
  BY <1>4, <1>6, <1>7, <1>9 DEF SourceInv
<1>11. LinkInv' /\ DeliveryInv' /\ DestInv'
  BY <1>1, <1>2, <1>5, DeliveryKept, DestKept DEF LinkInv, destVars
<1>12. AckInv'
  <2>1. \A k \in Job : source'[k] = "COMPLETED" => source[k] = "COMPLETED"
    BY <1>1, <1>3
  <2> QED BY <1>1, <1>2, <2>1, AckKept
<1> QED BY <1>10, <1>11, <1>12 DEF MeshInv

LEMMA DispatchInvalidKeeps ==
  ASSUME MeshInv, NEW e \in Job, DispatchInvalid(e)
  PROVE  MeshInv'
<1>1. /\ source[e] = "HELD" /\ source' = [source EXCEPT ![e] = "FAILED"]
      /\ UNCHANGED vars
      /\ UNCHANGED <<sealed, pending, unsent, linkUp, session, requests, acks,
                     dest, dropping, delivered, thrown>>
  BY DEF DispatchInvalid, schedulerVars, vars, linkVars, destVars
<1>2. SourceInv /\ LinkInv /\ DeliveryInv /\ AckInv /\ DestInv
  BY DEF MeshInv
<1>3. source \in [Job -> SourceState] /\ promise' = promise
  BY <1>1, <1>2 DEF SourceInv, vars
<1>4. \A k \in Job : source'[k] = IF k = e THEN "FAILED" ELSE source[k]
  BY <1>1, <1>3
<1>5. SourceInv'
  <2>1. SchedulerInv'
    BY <1>1, <1>2, StepSound DEF SourceInv
  <2>2. source' \in [Job -> SourceState]
    BY <1>1, <1>3 DEF SourceState
  <2>3. SendingIsPending' /\ \A k \in Job : source'[k] = "HELD" => promise'[k] = "none"
    BY <1>1, <1>2, <1>3, <1>4 DEF SourceInv, SendingIsPending
  <2>4. SlotHasItsTimer'
    BY <1>1, <1>2 DEF SourceInv, SlotHasItsTimer, vars
  <2> QED BY <1>1, <1>2, <2>1, <2>2, <2>3, <2>4 DEF SourceInv
<1>6. LinkInv' /\ DeliveryInv' /\ DestInv'
  BY <1>1, <1>2, SchedulerStands, DeliveryKept, DestKept DEF LinkInv, destVars, schedulerVars, vars
<1>7. AckInv'
  BY <1>1, <1>2, <1>4, AckKept
<1> QED BY <1>5, <1>6, <1>7 DEF MeshInv

(* The inner transport answers e, at once, by its timer or with an ack. *)
LEMMA AnswerKeeps ==
  ASSUME MeshInv, NEW e \in Job,
         NEW p, NEW u, p \cup u = running \ {e}, p \cap u = {},
         MeshSend(p, u), Conclude,
         InnerAccepts(e) \/ InnerRejects(e),
         InnerRejects(e) \/ delivered[e] >= 1,
         acks' = acks \/ (acks # <<>> /\ acks' = Tail(acks)),
         UNCHANGED <<sealed, linkVars, destVars>>
  PROVE  MeshInv'
<1>1. SourceInv /\ LinkInv /\ DeliveryInv /\ AckInv /\ DestInv
  BY DEF MeshInv
<1>2. UNCHANGED <<sealed, linkUp, session, dest, dropping, delivered, thrown>>
  BY DEF linkVars, destVars
<1>3. /\ SourceInv' /\ SendsGrow
      /\ \A k \in Job : source'[k] = "COMPLETED" =>
           source[k] = "COMPLETED" \/ (k = e /\ ~InnerRejects(e))
  BY <1>1, <1>2, AnswerTurn
<1>4. LinkInv' /\ DeliveryInv' /\ DestInv'
  BY <1>1, <1>2, <1>3, DeliveryKept, DestKept DEF LinkInv
<1>5. AckInv'
  BY <1>1, <1>2, <1>3, AckKept
<1> QED BY <1>3, <1>4, <1>5 DEF MeshInv

LEMMA SourceAnswered ==
  ASSUME MeshInv,
         \/ \E e \in Job : NotConnected(e) \/ AckTimeout(e)
         \/ HandleAck
  PROVE  MeshInv'
<1>1. running = pending \cup unsent /\ pending \cap unsent = {}
  BY DEF MeshInv, SourceInv, SlotHasItsTimer
<1>2. ASSUME NEW e \in Job, NotConnected(e)
      PROVE  MeshInv'
  <2>1. pending \cup (unsent \ {e}) = running \ {e} /\ pending \cap (unsent \ {e}) = {}
    BY <1>1, <1>2 DEF NotConnected
  <2>2. InnerRejects(e)
    BY <1>2 DEF NotConnected
  <2> QED BY <1>2, <2>1, <2>2, AnswerKeeps DEF NotConnected
<1>3. ASSUME NEW e \in Job, AckTimeout(e)
      PROVE  MeshInv'
  <2>1. (pending \ {e}) \cup unsent = running \ {e} /\ (pending \ {e}) \cap unsent = {}
    BY <1>1, <1>3 DEF AckTimeout
  <2>2. InnerRejects(e)
    BY <1>3 DEF AckTimeout
  <2> QED BY <1>3, <2>1, <2>2, AnswerKeeps DEF AckTimeout
<1>4. ASSUME HandleAck
      PROVE  MeshInv'
  <2> DEFINE e == Head(acks).entity
  <2>1. /\ acks # <<>> /\ acks' = Tail(acks) /\ e \in pending
        /\ IF Head(acks).accepted THEN InnerAccepts(e)
                                  ELSE InnerRejects(e)
        /\ MeshSend(pending \ {e}, unsent) /\ Conclude
        /\ UNCHANGED <<sealed, linkVars, destVars>>
    BY <1>4 DEF HandleAck, Awaited
  <2>2. e \in Job /\ (Head(acks).accepted => delivered[e] >= 1)
    <3>1. /\ acks \in Seq([entity : Job, accepted : BOOLEAN])
          /\ \A i \in 1..Len(acks) : acks[i].accepted => delivered[acks[i].entity] >= 1
      BY DEF MeshInv, AckInv
    <3>2. Head(acks) = acks[1] /\ 1 \in 1..Len(acks)
          /\ acks[1] \in [entity : Job, accepted : BOOLEAN]
      BY <2>1, <3>1, FirstOf
    <3> QED BY <3>1, <3>2
  <2> HIDE DEF e
  <2>3. (pending \ {e}) \cup unsent = running \ {e} /\ (pending \ {e}) \cap unsent = {}
    BY <1>1, <2>1
  <2>4. (InnerAccepts(e) \/ InnerRejects(e)) /\ (InnerRejects(e) \/ delivered[e] >= 1)
    BY <2>1, <2>2
  <2> QED BY <2>1, <2>2, <2>3, <2>4, AnswerKeeps
<1> QED BY <1>2, <1>3, <1>4

(* A retry timer fires: the job goes to the queue again, and what starts is sent. *)
LEMMA RetryKeeps ==
  ASSUME MeshInv, NEW e \in Job, Resend(e)
  PROVE  MeshInv'
<1>1. /\ RetryTimer(e) /\ MeshSend(pending, unsent) /\ promise' = promise
      /\ UNCHANGED <<source, sealed, linkUp, session, acks, dest, dropping, delivered, thrown>>
  BY DEF Resend, RetryTimer, linkVars, destVars
<1>2. SourceInv /\ LinkInv /\ DeliveryInv /\ AckInv /\ DestInv
  BY DEF MeshInv
<1>3. /\ SchedulerInv /\ sends \in [Job -> Nat]
      /\ running \subseteq Job /\ running = pending \cup unsent /\ pending \cap unsent = {}
  BY <1>2 DEF SourceInv, SchedulerInv, Budgeted, Typed, SlotHasItsTimer
<1>4. SchedulerInv' /\ StartsBeside(running)
  BY <1>1, <1>3, RetryTimerSound, SendStarts
<1>5. running' = pending' \cup unsent' /\ pending' \cap unsent' = {} /\ SendsGrow
  <2>1. requests \in Seq(Job) /\ dropping \in [Job -> Nat] /\ delivered \in [Job -> Nat]
    BY <1>2 DEF DeliveryInv
  <2> QED BY <1>1, <1>3, <1>4, <2>1, MeshSends
<1>6. SourceInv'
  <2>1. SlotHasItsTimer' /\ pending' \subseteq Job /\ unsent' \subseteq Job
    BY <1>4, <1>5 DEF SlotHasItsTimer, SchedulerInv, Typed
  <2>2. SendingIsPending'
    BY <1>1, <1>2 DEF SourceInv, SendingIsPending
  <2> QED BY <1>1, <1>2, <1>4, <2>1, <2>2 DEF SourceInv
<1>7. LinkInv' /\ DeliveryInv' /\ DestInv'
  BY <1>1, <1>2, <1>5, DeliveryKept, DestKept DEF LinkInv, destVars
<1>8. AckInv'
  BY <1>1, <1>2, AckKept
<1> QED BY <1>6, <1>7, <1>8 DEF MeshInv

(* cancel() settles at most its own promise, as cancelled, and sends nothing. *)
LEMMA CancelKeeps ==
  ASSUME MeshInv, NEW e \in Job, CancelTransfer(e)
  PROVE  MeshInv'
<1>1. /\ Cancel(e) /\ Conclude
      /\ UNCHANGED <<running, sends>>
      /\ UNCHANGED <<sealed, pending, unsent, linkUp, session, requests, acks,
                     dest, dropping, delivered, thrown>>
  BY DEF CancelTransfer, Cancel, linkVars, destVars
<1>2. SourceInv /\ LinkInv /\ DeliveryInv /\ AckInv /\ DestInv
  BY DEF MeshInv
<1>3. SchedulerInv /\ promise \in [Job -> Promise]
  BY <1>2 DEF SourceInv, SchedulerInv, TypedRest
<1>4. \A k \in Job : \/ promise'[k] = promise[k]
                     \/ promise[k] = "pending" /\ promise'[k] = "cancelled"
  <2>1. promise' = promise \/ Settle(e, "cancelled")
    BY <1>1 DEF Cancel
  <2>2. Settle(e, "cancelled") =>
          \A k \in Job : promise'[k] = IF k = e /\ promise[k] = "pending"
                                       THEN "cancelled" ELSE promise[k]
    BY <1>3, SettleFacts DEF Outcome
  <2> QED BY <2>1, <2>2
<1>5. Settling
  BY <1>4 DEF Settling, Outcome
<1>6. /\ source' \in [Job -> SourceState] /\ SendingIsPending'
      /\ \A k \in Job : source'[k] = "HELD" => promise'[k] = "none"
      /\ \A k \in Job : source'[k] = "COMPLETED" =>
           source[k] = "COMPLETED" \/ (promise[k] = "pending" /\ promise'[k] = "accepted")
  BY <1>1, <1>2, <1>5, ConcludeKeeps
<1>7. SourceInv'
  <2>1. SchedulerInv'
    BY <1>1, <1>3, CancelSound
  <2>2. SlotHasItsTimer'
    BY <1>1, <1>2 DEF SourceInv, SlotHasItsTimer
  <2> QED BY <1>1, <1>2, <1>6, <2>1, <2>2 DEF SourceInv
<1>8. SendsGrow
  <2>1. \A k \in Job : OnWire(requests, k) \in Nat /\ sends[k] \in Nat
    BY <1>2, <1>3, OnWireType DEF SchedulerInv, Budgeted, DeliveryInv
  <2> QED BY <1>1, <1>2, <2>1 DEF SendsGrow, DeliveryInv
<1>9. LinkInv' /\ DeliveryInv' /\ DestInv'
  BY <1>1, <1>2, <1>8, DeliveryKept, DestKept DEF LinkInv, destVars
<1>10. AckInv'
  <2>1. \A k \in Job : source'[k] = "COMPLETED" => source[k] = "COMPLETED"
    BY <1>4, <1>6
  <2> QED BY <1>1, <1>2, <2>1, AckKept
<1> QED BY <1>7, <1>9, <1>10 DEF MeshInv

LEMMA IgnoreAckKeeps ==
  ASSUME MeshInv, IgnoreAck
  PROVE  MeshInv'
<1>1. /\ acks # <<>> /\ acks' = Tail(acks)
      /\ UNCHANGED <<schedulerVars, sourceVars, destVars>>
      /\ UNCHANGED <<source, linkUp, session, requests, dropping, delivered>>
  BY DEF IgnoreAck, linkVars, sourceVars, destVars
<1>2. SourceInv /\ LinkInv /\ DeliveryInv /\ AckInv /\ DestInv
  BY DEF MeshInv
<1>3. SourceInv'
  BY <1>1, <1>2, SourceStands
<1>4. LinkInv' /\ DeliveryInv' /\ DestInv'
  BY <1>1, <1>2, SchedulerStands, DeliveryKept, DestKept DEF LinkInv
<1>5. AckInv'
  BY <1>1, <1>2, AckKept
<1> QED BY <1>3, <1>4, <1>5 DEF MeshInv

-----------------------------------------------------------------------------
(* The actions of the destination. *)

(* An ack more, if the link is up: it may claim what has been delivered. *)
LEMMA AckAdded ==
  ASSUME AckInv, NEW h \in Job, NEW ok \in BOOLEAN, AckWith(h, ok),
         source' = source, ok => delivered'[h] >= 1,
         \A e \in Job : delivered[e] \in Nat /\ delivered'[e] \in Nat
                        /\ delivered[e] <= delivered'[e]
  PROVE  AckInv'
<1> DEFINE ack == [entity |-> h, accepted |-> ok]
<1>1. acks' = acks \/ acks' = Append(acks, ack)
  BY DEF AckWith
<1>2. ack \in [entity : Job, accepted : BOOLEAN] /\ ack.entity = h /\ ack.accepted = ok
  OBVIOUS
<1> HIDE DEF ack
<1>3. /\ acks' \in Seq([entity : Job, accepted : BOOLEAN])
      /\ \A i \in 1..Len(acks') : acks'[i] = ack \/ \E k \in 1..Len(acks) : acks'[i] = acks[k]
  <2>1. CASE acks' = acks
    BY <2>1 DEF AckInv
  <2>2. CASE acks' = Append(acks, ack)
    <3>1. acks \in Seq([entity : Job, accepted : BOOLEAN])
      BY DEF AckInv
    <3>2. /\ acks' \in Seq([entity : Job, accepted : BOOLEAN])
          /\ Len(acks) \in Nat /\ Len(acks') = Len(acks) + 1
          /\ \A i \in 1..Len(acks) : acks'[i] = acks[i]
          /\ acks'[Len(acks) + 1] = ack
      BY <1>2, <2>2, <3>1
    <3>3. \A i \in 1..Len(acks') : i = Len(acks) + 1 \/ i \in 1..Len(acks)
      BY <3>2
    <3> QED BY <3>2, <3>3
  <2> QED BY <1>1, <2>1, <2>2
<1>4. ASSUME NEW i \in 1..Len(acks'), acks'[i].accepted
      PROVE  delivered'[acks'[i].entity] >= 1
  <2>1. CASE acks'[i] = ack
    BY <1>2, <1>4, <2>1
  <2>2. ASSUME NEW k \in 1..Len(acks), acks'[i] = acks[k]
        PROVE  delivered'[acks'[i].entity] >= 1
    <3>1. acks \in Seq([entity : Job, accepted : BOOLEAN])
      BY DEF AckInv
    <3>2. acks[k] \in [entity : Job, accepted : BOOLEAN]
      BY <3>1, ElementOf
    <3>3. acks[k].entity \in Job /\ delivered[acks[k].entity] >= 1
      BY <1>4, <2>2, <3>2 DEF AckInv
    <3> QED BY <2>2, <3>3
  <2> QED BY <1>3, <2>1, <2>2
<1>5. NoFalseSuccess'
  <2>1. ASSUME NEW e \in Job, source[e] = "COMPLETED" PROVE delivered'[e] >= 1
    <3>1. delivered[e] >= 1
      BY <2>1 DEF AckInv, NoFalseSuccess
    <3> QED BY <3>1
  <2> QED BY <2>1 DEF NoFalseSuccess
<1> QED BY <1>3, <1>4, <1>5 DEF AckInv

(* The head of the socket is taken from it; it was counted there. *)
LEMMA Received ==
  ASSUME DeliveryInv, SourceInv, requests # <<>>, requests' = Tail(requests)
  PROVE  /\ requests' \in Seq(Job) /\ Head(requests) \in Job
         /\ \A e \in Job :
              /\ OnWire(requests', e) + (IF e = Head(requests) THEN 1 ELSE 0)
                   + dropping[e] + delivered[e] <= sends[e]
              /\ OnWire(requests', e) \in Nat /\ sends[e] \in Nat
              /\ dropping[e] \in Nat /\ delivered[e] \in Nat
<1>1. requests \in Seq(Job) /\ dropping \in [Job -> Nat] /\ delivered \in [Job -> Nat]
      /\ \A e \in Job : OnWire(requests, e) + dropping[e] + delivered[e] <= sends[e]
  BY DEF DeliveryInv
<1>2. requests' \in Seq(Job) /\ Head(requests) \in Job
  BY <1>1, FirstOf
<1>3. sends \in [Job -> Nat]
  BY DEF SourceInv, SchedulerInv, Budgeted
<1>4. ASSUME NEW e \in Job
      PROVE  /\ OnWire(requests', e) + (IF e = Head(requests) THEN 1 ELSE 0)
                  + dropping[e] + delivered[e] <= sends[e]
             /\ OnWire(requests', e) \in Nat
  <2>1. OnWire(requests', e) + (IF e = Head(requests) THEN 1 ELSE 0) <= OnWire(requests, e)
    BY <1>1, OnWireTail
  <2>2. OnWire(requests', e) \in Nat /\ OnWire(requests, e) \in Nat
    BY <1>1, <1>2, OnWireType
  <2>3. /\ OnWire(requests, e) + dropping[e] + delivered[e] <= sends[e]
        /\ dropping[e] \in Nat /\ delivered[e] \in Nat /\ sends[e] \in Nat
    BY <1>1, <1>3
  <2> QED BY <2>1, <2>2, <2>3
<1> QED BY <1>1, <1>2, <1>3, <1>4

LEMMA ReceiveKeeps ==
  ASSUME MeshInv, ReceiveUnreadable \/ ReceiveRefused \/ ReceiveReady
  PROVE  MeshInv'
<1> DEFINE h == Head(requests)
<1>1. /\ requests # <<>> /\ requests' = Tail(requests)
      /\ UNCHANGED <<schedulerVars, sourceVars, linkUp, session, delivered, thrown>>
      /\ source' = source /\ sends' = sends
  BY DEF ReceiveUnreadable, ReceiveRefused, ReceiveReady,
         linkVars, destVars, sourceVars, schedulerVars, vars
<1>2. SourceInv /\ LinkInv /\ DeliveryInv /\ AckInv /\ DestInv
  BY DEF MeshInv
<1>3. SourceInv' /\ LinkInv'
  BY <1>1, <1>2, SourceStands DEF LinkInv
<1>4. /\ requests' \in Seq(Job) /\ h \in Job
      /\ \A e \in Job : /\ OnWire(requests', e) + (IF e = h THEN 1 ELSE 0)
                             + dropping[e] + delivered[e] <= sends[e]
                        /\ OnWire(requests', e) \in Nat /\ sends[e] \in Nat
                        /\ dropping[e] \in Nat /\ delivered[e] \in Nat
  BY <1>1, <1>2, Received
<1> HIDE DEF h
<1>5. dropping \in [Job -> Nat] /\ delivered \in [Job -> Nat] /\ dest \in [Job -> DestState]
  BY <1>2 DEF DeliveryInv, DestInv
<1>6. ASSUME \/ dropping' = dropping /\ AckWith(h, FALSE)
             \/ dropping' = [dropping EXCEPT ![h] = @ + 1] /\ acks' = acks
      PROVE  DeliveryInv' /\ AckInv'
  <2>1. \A e \in Job : \/ dropping'[e] = dropping[e]
                       \/ e = h /\ dropping'[e] = dropping[e] + 1
    BY <1>5, <1>6
  <2>2. dropping' \in [Job -> Nat]
    <3>1. CASE dropping' = dropping
      BY <1>5, <3>1
    <3>2. CASE dropping' = [dropping EXCEPT ![h] = @ + 1]
      BY <1>4, <1>5, <3>2
    <3> QED BY <1>6, <3>1, <3>2
  <2>3. DeliveryInv'
    <3>1. ASSUME NEW e \in Job
          PROVE  OnWire(requests', e) + dropping'[e] + delivered[e] <= sends[e]
      <4>1. /\ OnWire(requests', e) + (IF e = h THEN 1 ELSE 0)
                 + dropping[e] + delivered[e] <= sends[e]
            /\ OnWire(requests', e) \in Nat /\ sends[e] \in Nat
            /\ dropping[e] \in Nat /\ delivered[e] \in Nat
        BY <1>4
      <4>2. \/ dropping'[e] = dropping[e]
            \/ e = h /\ dropping'[e] = dropping[e] + 1
        BY <2>1
      <4> QED BY <4>1, <4>2
    <3> QED BY <1>1, <1>4, <1>5, <2>2, <3>1 DEF DeliveryInv
  <2>4. AckInv'
    <3>1. CASE AckWith(h, FALSE)
      <4>1. \A e \in Job : delivered[e] \in Nat /\ delivered'[e] \in Nat
                           /\ delivered[e] <= delivered'[e]
        BY <1>1, <1>4
      <4> QED BY <1>1, <1>2, <1>4, <3>1, <4>1, AckAdded
    <3>2. CASE acks' = acks
      BY <1>1, <1>2, <3>2, AckKept
    <3>3. AckWith(h, FALSE) \/ acks' = acks
      BY <1>6, Zenon
    <3> QED BY <3>1, <3>2, <3>3
  <2> QED BY <2>3, <2>4
<1>7. CASE ReceiveUnreadable
  <2>1. dropping' = dropping /\ dest' = dest /\ AckWith(h, FALSE)
    BY <1>7 DEF ReceiveUnreadable, destVars, h
  <2>2. DestInv'
    BY <1>1, <1>2, <2>1 DEF DestInv, ReadyMeansDropping
  <2> QED BY <1>3, <1>6, <2>1, <2>2 DEF MeshInv
<1>8. CASE ReceiveRefused
  <2>1. dropping' = dropping /\ dest' = [dest EXCEPT ![h] = "FAILED"] /\ AckWith(h, FALSE)
    BY <1>8 DEF ReceiveRefused, h
  <2>2. \A e \in Job : dest'[e] = IF e = h THEN "FAILED" ELSE dest[e]
    BY <1>4, <1>5, <2>1
  <2>3. dest' \in [Job -> DestState]
    BY <1>5, <2>1 DEF DestState
  <2>4. ASSUME NEW e \in Job, sends'[e] <= 1
        PROVE  /\ dropping'[e] > 0 => dest'[e] = "READY"
               /\ delivered'[e] > 0 => dest'[e] = "COMPLETED"
    <3>1. e = h => dropping[e] = 0 /\ delivered[e] = 0
      <4>1. /\ OnWire(requests', e) + (IF e = h THEN 1 ELSE 0)
                 + dropping[e] + delivered[e] <= sends[e]
            /\ OnWire(requests', e) \in Nat /\ sends[e] \in Nat
            /\ dropping[e] \in Nat /\ delivered[e] \in Nat
        BY <1>4
      <4>2. sends[e] <= 1
        BY <1>1, <2>4
      <4> QED BY <4>1, <4>2
    <3> QED BY <1>1, <1>2, <2>1, <2>2, <2>4, <3>1 DEF DestInv
  <2>5. DestInv'
    BY <1>1, <1>2, <2>1, <2>2, <2>3, <2>4 DEF DestInv, ReadyMeansDropping
  <2> QED BY <1>3, <1>6, <2>1, <2>5 DEF MeshInv
<1>9. CASE ReceiveReady
  <2>1. /\ dropping' = [dropping EXCEPT ![h] = @ + 1] /\ dest' = [dest EXCEPT ![h] = "READY"]
        /\ acks' = acks
    BY <1>9 DEF ReceiveReady, h
  <2>2. \A e \in Job : /\ dest'[e] = IF e = h THEN "READY" ELSE dest[e]
                       /\ dropping'[e] = IF e = h THEN dropping[e] + 1 ELSE dropping[e]
    BY <1>4, <1>5, <2>1
  <2>3. dest' \in [Job -> DestState]
    BY <1>5, <2>1 DEF DestState
  <2>4. ASSUME NEW e \in Job, sends'[e] <= 1
        PROVE  /\ dropping'[e] > 0 => dest'[e] = "READY"
               /\ delivered'[e] > 0 => dest'[e] = "COMPLETED"
    <3>1. e = h => delivered[e] = 0
      <4>1. /\ OnWire(requests', e) + (IF e = h THEN 1 ELSE 0)
                 + dropping[e] + delivered[e] <= sends[e]
            /\ OnWire(requests', e) \in Nat /\ sends[e] \in Nat
            /\ dropping[e] \in Nat /\ delivered[e] \in Nat
        BY <1>4
      <4> QED BY <1>1, <2>4, <4>1
    <3>2. /\ delivered'[e] = delivered[e] /\ sends[e] <= 1
          /\ dropping[e] > 0 => dest[e] = "READY"
          /\ delivered[e] > 0 => dest[e] = "COMPLETED"
      BY <1>1, <1>2, <2>4 DEF DestInv
    <3>3. delivered[e] \in Nat
      BY <1>4
    <3> QED BY <2>2, <3>1, <3>2, <3>3
  <2>5. ReadyMeansDropping'
    <3>1. ASSUME NEW e \in Job, dest'[e] = "READY"
          PROVE  dropping'[e] > 0 \/ e \in thrown'
      <4>1. dropping[e] \in Nat
        BY <1>4
      <4>2. e # h => dropping[e] > 0 \/ e \in thrown
        BY <1>2, <2>2, <3>1 DEF DestInv, ReadyMeansDropping
      <4> QED BY <1>1, <2>2, <4>1, <4>2
    <3> QED BY <3>1 DEF ReadyMeansDropping
  <2>6. DestInv'
    BY <1>1, <1>2, <2>3, <2>4, <2>5 DEF DestInv
  <2> QED BY <1>3, <1>6, <2>1, <2>6 DEF MeshInv
<1> QED BY <1>7, <1>8, <1>9

LEMMA SinkKeeps ==
  ASSUME MeshInv, NEW h \in Job, SinkDone(h) \/ SinkThrows(h)
  PROVE  MeshInv'
<1>1. /\ dropping[h] > 0 /\ dropping' = [dropping EXCEPT ![h] = @ - 1]
      /\ UNCHANGED <<schedulerVars, sourceVars, linkUp, session, requests>>
      /\ source' = source /\ sends' = sends
  BY DEF SinkDone, SinkThrows, linkVars, sourceVars, schedulerVars, vars
<1>2. SourceInv /\ LinkInv /\ DeliveryInv /\ AckInv /\ DestInv
  BY DEF MeshInv
<1>3. SourceInv' /\ LinkInv'
  BY <1>1, <1>2, SourceStands DEF LinkInv
<1>4. /\ dropping \in [Job -> Nat] /\ delivered \in [Job -> Nat] /\ dest \in [Job -> DestState]
      /\ requests \in Seq(Job)
      /\ \A e \in Job : /\ OnWire(requests, e) + dropping[e] + delivered[e] <= sends[e]
                        /\ OnWire(requests, e) \in Nat /\ sends[e] \in Nat
                        /\ dropping[e] \in Nat /\ delivered[e] \in Nat
  BY <1>2, OnWireType DEF DeliveryInv, DestInv, SourceInv, SchedulerInv, Budgeted
<1>5. /\ \A e \in Job : dropping'[e] = IF e = h THEN dropping[e] - 1 ELSE dropping[e]
      /\ dropping' \in [Job -> Nat]
  BY <1>1, <1>4
<1>6. CASE SinkDone(h)
  <2>1. /\ delivered' = [delivered EXCEPT ![h] = @ + 1] /\ dest' = [dest EXCEPT ![h] = Retired(h)]
        /\ AckWith(h, TRUE) /\ thrown' = thrown
    BY <1>6 DEF SinkDone
  <2>2. Retired(h) = IF dest[h] = "READY" THEN "COMPLETED" ELSE dest[h]
    BY DEF Retired
  <2>3. \A e \in Job : /\ delivered'[e] = IF e = h THEN delivered[e] + 1 ELSE delivered[e]
                       /\ dest'[e] = IF e = h /\ dest[e] = "READY" THEN "COMPLETED" ELSE dest[e]
    BY <1>4, <2>1, <2>2
  <2>4. delivered' \in [Job -> Nat]
    BY <1>4, <2>1
  <2>5. dest' \in [Job -> DestState]
    BY <1>4, <2>1, <2>2 DEF DestState
  <2>6. DeliveryInv'
    <3>1. ASSUME NEW e \in Job
          PROVE  OnWire(requests, e) + dropping'[e] + delivered'[e] <= sends[e]
      <4>1. /\ OnWire(requests, e) + dropping[e] + delivered[e] <= sends[e]
            /\ OnWire(requests, e) \in Nat /\ sends[e] \in Nat
            /\ dropping[e] \in Nat /\ delivered[e] \in Nat
        BY <1>4
      <4>2. /\ dropping'[e] = IF e = h THEN dropping[e] - 1 ELSE dropping[e]
            /\ delivered'[e] = IF e = h THEN delivered[e] + 1 ELSE delivered[e]
        BY <1>5, <2>3
      <4> QED BY <4>1, <4>2
    <3> QED BY <1>1, <1>4, <1>5, <2>4, <3>1 DEF DeliveryInv
  <2>7. AckInv'
    <3>1. ASSUME NEW e \in Job
          PROVE  /\ delivered[e] \in Nat /\ delivered'[e] \in Nat
                 /\ delivered[e] <= delivered'[e]
                 /\ e = h => delivered'[e] >= 1
      <4>1. delivered[e] \in Nat /\ delivered'[e] = IF e = h THEN delivered[e] + 1 ELSE delivered[e]
        BY <1>4, <2>3
      <4> QED BY <4>1
    <3>2. delivered'[h] >= 1
      BY <3>1
    <3> QED BY <1>1, <1>2, <2>1, <3>1, <3>2, AckAdded
  <2>8. ASSUME NEW e \in Job, sends'[e] <= 1
        PROVE  /\ dropping'[e] > 0 => dest'[e] = "READY"
               /\ delivered'[e] > 0 => dest'[e] = "COMPLETED"
    <3>1. e = h => dropping'[e] = 0 /\ dest[e] = "READY"
      BY <1>1, <1>2, <1>4, <1>5, <2>8 DEF DestInv
    <3> QED BY <1>1, <1>2, <1>5, <2>3, <2>8, <3>1 DEF DestInv
  <2>9. ReadyMeansDropping'
    BY <1>2, <1>5, <2>1, <2>3 DEF DestInv, ReadyMeansDropping
  <2>10. DestInv'
    BY <1>2, <2>1, <2>5, <2>8, <2>9 DEF DestInv
  <2> QED BY <1>3, <2>6, <2>7, <2>10 DEF MeshInv
<1>7. CASE SinkThrows(h)
  <2>1. UNCHANGED <<delivered, dest>> /\ AckWith(h, FALSE) /\ thrown' = thrown \cup {h}
    BY <1>7 DEF SinkThrows
  <2>2. DeliveryInv'
    <3>1. ASSUME NEW e \in Job
          PROVE  OnWire(requests, e) + dropping'[e] + delivered[e] <= sends[e]
      <4>1. /\ OnWire(requests, e) + dropping[e] + delivered[e] <= sends[e]
            /\ OnWire(requests, e) \in Nat /\ sends[e] \in Nat
            /\ dropping[e] \in Nat /\ delivered[e] \in Nat
        BY <1>4
      <4>2. dropping'[e] = IF e = h THEN dropping[e] - 1 ELSE dropping[e]
        BY <1>5
      <4> QED BY <4>1, <4>2
    <3> QED BY <1>1, <1>4, <1>5, <2>1, <3>1 DEF DeliveryInv
  <2>3. AckInv'
    <3>1. \A e \in Job : delivered[e] \in Nat /\ delivered'[e] \in Nat
                         /\ delivered[e] <= delivered'[e]
      BY <1>4, <2>1
    <3> QED BY <1>1, <1>2, <2>1, <3>1, AckAdded
  <2>4. ASSUME NEW e \in Job, sends'[e] <= 1
        PROVE  /\ dropping'[e] > 0 => dest'[e] = "READY"
               /\ delivered'[e] > 0 => dest'[e] = "COMPLETED"
    <3>1. dropping'[e] > 0 => dropping[e] > 0
      <4>1. dropping[e] \in Nat /\ dropping'[e] = IF e = h THEN dropping[e] - 1 ELSE dropping[e]
        BY <1>4, <1>5
      <4> QED BY <4>1
    <3> QED BY <1>1, <1>2, <2>1, <2>4, <3>1 DEF DestInv
  <2>5. ReadyMeansDropping'
    BY <1>2, <1>5, <2>1 DEF DestInv, ReadyMeansDropping
  <2>6. DestInv'
    BY <1>2, <2>1, <2>4, <2>5 DEF DestInv
  <2> QED BY <1>3, <2>2, <2>3, <2>6 DEF MeshInv
<1> QED BY <1>6, <1>7

-----------------------------------------------------------------------------
(* The link, and the whole. *)

LEMMA LinkKeeps ==
  ASSUME MeshInv, LinkComesUp \/ LinkBreaks
  PROVE  MeshInv'
<1>1. /\ UNCHANGED <<schedulerVars, sourceVars, destVars>>
      /\ UNCHANGED <<source, delivered, dropping>>
      /\ (requests' = requests /\ acks' = acks) \/ (requests' = <<>> /\ acks' = <<>>)
  BY DEF LinkComesUp, LinkBreaks, sourceVars, destVars
<1>2. SourceInv /\ LinkInv /\ DeliveryInv /\ AckInv /\ DestInv
  BY DEF MeshInv
<1>3. SourceInv'
  BY <1>1, <1>2, SourceStands
<1>4. LinkInv'
  <2>1. CASE LinkComesUp
    BY <1>2, <2>1, SessionAssumption DEF LinkInv, LinkComesUp
  <2>2. CASE LinkBreaks
    BY <1>2, <2>2 DEF LinkInv, LinkBreaks
  <2> QED BY <2>1, <2>2
<1>5. SendsGrow
  <2>1. CASE requests' = requests
    BY <1>1, <1>2, <2>1, SchedulerStands
  <2>2. CASE requests' = <<>>
    <3>1. \A e \in Job : OnWire(requests, e) \in Nat /\ sends[e] \in Nat /\ sends'[e] = sends[e]
      BY <1>1, <1>2, OnWireType
         DEF SourceInv, SchedulerInv, Budgeted, DeliveryInv, schedulerVars, vars
    <3>2. \A e \in Job : OnWire(requests', e) = 0
      BY <2>2, OnWireEmpty
    <3>3. requests' \in Seq(Job)
      BY <2>2, EmptySequence
    <3> QED BY <3>1, <3>2, <3>3 DEF SendsGrow
  <2> QED BY <1>1, <2>1, <2>2
<1>6. DeliveryInv' /\ DestInv'
  BY <1>1, <1>2, <1>5, DeliveryKept, DestKept
<1>7. AckInv'
  BY <1>1, <1>2, AckKept
<1> QED BY <1>3, <1>4, <1>6, <1>7 DEF MeshInv

LEMMA MeshStands ==
  ASSUME MeshInv, UNCHANGED meshVars
  PROVE  MeshInv'
<1>1. /\ UNCHANGED <<schedulerVars, sourceVars, destVars>>
      /\ UNCHANGED <<source, delivered, dropping, requests, acks, linkUp, session>>
  BY DEF meshVars, sourceVars, destVars, linkVars
<1>2. SourceInv /\ LinkInv /\ DeliveryInv /\ AckInv /\ DestInv
  BY DEF MeshInv
<1>3. SourceInv' /\ LinkInv'
  BY <1>1, <1>2, SourceStands DEF LinkInv
<1>4. DeliveryInv' /\ DestInv'
  BY <1>1, <1>2, SchedulerStands, DeliveryKept, DestKept
<1>5. AckInv'
  BY <1>1, <1>2, AckKept
<1> QED BY <1>3, <1>4, <1>5 DEF MeshInv

LEMMA MeshStarts ==
  ASSUME MeshInit
  PROVE  MeshInv
<1>1. /\ Init /\ SchedulerInv
      /\ source = [e \in Job |-> "HELD"] /\ sealed = [e \in Job |-> 0]
      /\ pending = {} /\ unsent = {} /\ linkUp = FALSE /\ session = 0
      /\ requests = <<>> /\ acks = <<>> /\ dest = [e \in Job |-> "NONE"]
      /\ dropping = [e \in Job |-> 0] /\ delivered = [e \in Job |-> 0] /\ thrown = {}
  BY InitSound DEF MeshInit
<1>2. running = {} /\ promise = [j \in Job |-> "none"] /\ sends = [j \in Job |-> 0]
  BY <1>1 DEF Init
<1>3. SourceInv
  <2>1. source \in [Job -> SourceState] /\ sealed \in [Job -> 0..MaxSession]
    BY <1>1, SessionAssumption DEF SourceState
  <2>2. SlotHasItsTimer
    BY <1>1, <1>2 DEF SlotHasItsTimer
  <2>3. SendingIsPending /\ \A e \in Job : promise[e] = "none"
    BY <1>1, <1>2 DEF SendingIsPending
  <2>4. pending \subseteq Job /\ unsent \subseteq Job
    BY <1>1
  <2> QED BY <1>1, <2>1, <2>2, <2>3, <2>4 DEF SourceInv
<1>4. LinkInv
  <2>1. linkUp = FALSE /\ session = 0
    BY <1>1
  <2>2. linkUp \in BOOLEAN
    BY <2>1
  <2>3. session \in 0..MaxSession
    BY <2>1, SessionAssumption
  <2> QED BY <2>2, <2>3 DEF LinkInv
<1>5. DeliveryInv
  <2>1. requests \in Seq(Job) /\ \A e \in Job : OnWire(requests, e) = 0
    BY <1>1, EmptySequence, OnWireEmpty
  <2> QED BY <1>1, <1>2, <2>1 DEF DeliveryInv
<1>6. AckInv
  <2>1. acks \in Seq([entity : Job, accepted : BOOLEAN]) /\ Len(acks) = 0
    BY <1>1, EmptySequence
  <2> QED BY <1>1, <2>1 DEF AckInv, NoFalseSuccess
<1>7. DestInv
  BY <1>1 DEF DestInv, DestState, ReadyMeansDropping
<1> QED BY <1>3, <1>4, <1>5, <1>6, <1>7 DEF MeshInv

LEMMA MeshStep ==
  ASSUME MeshInv, [MeshNext]_meshVars
  PROVE  MeshInv'
<1>1. CASE UNCHANGED meshVars
  BY <1>1, MeshStands
<1>2. ASSUME NEW e \in Job, Dispatch(e) PROVE MeshInv'
  BY <1>2, DispatchKeeps
<1>3. ASSUME NEW e \in Job, DispatchInvalid(e) PROVE MeshInv'
  BY <1>3, DispatchInvalidKeeps
<1>4. ASSUME NEW e \in Job, NotConnected(e) \/ AckTimeout(e) PROVE MeshInv'
  BY <1>4, SourceAnswered
<1>5. ASSUME NEW e \in Job, Resend(e) PROVE MeshInv'
  BY <1>5, RetryKeeps
<1>6. ASSUME NEW e \in Job, CancelTransfer(e) PROVE MeshInv'
  BY <1>6, CancelKeeps
<1>7. ASSUME NEW e \in Job, SinkDone(e) \/ SinkThrows(e) PROVE MeshInv'
  BY <1>7, SinkKeeps
<1>8. CASE HandleAck
  BY <1>8, SourceAnswered
<1>9. CASE IgnoreAck
  BY <1>9, IgnoreAckKeeps
<1>10. CASE ReceiveUnreadable \/ ReceiveRefused \/ ReceiveReady
  BY <1>10, ReceiveKeeps
<1>11. CASE LinkComesUp \/ LinkBreaks
  BY <1>11, LinkKeeps
<1> QED BY <1>1, <1>2, <1>3, <1>4, <1>5, <1>6, <1>7, <1>8, <1>9, <1>10, <1>11 DEF MeshNext

(* The inductive invariant, at every interleaving of the source's timers, the
   destination's sinks and the link. *)
THEOREM MeshInvariant == MeshSpec => []MeshInv
<1>1. MeshInit => MeshInv
  BY MeshStarts
<1>2. MeshInv /\ [MeshNext]_meshVars => MeshInv'
  BY MeshStep
<1> QED BY <1>1, <1>2, PTL DEF MeshSpec

-----------------------------------------------------------------------------
(* What the invariant says of the pipeline. *)

(* No false success: transfer:completed is reported at the source only for an
   entity that the destination's sink has taken, however many acks are lost,
   late, or those of an earlier attempt (handleAck matches by transferId alone,
   meshTransport.ts). *)
THEOREM CompletedWasDelivered == MeshSpec => []NoFalseSuccess
<1>1. MeshInv => NoFalseSuccess
  BY DEF MeshInv, AckInv
<1> QED BY <1>1, MeshInvariant, PTL

LEMMA DropsAreCounted ==
  ASSUME MeshInv, NEW e \in Job
  PROVE  /\ attempts[e] \in 0..MaxRetries
         /\ dropping[e] \in Nat /\ delivered[e] \in Nat /\ sends[e] \in Nat
         /\ dropping[e] + delivered[e] <= sends[e]
         /\ sends[e] <= attempts[e] + 1
<1>1. attempts[e] \in 0..MaxRetries /\ sends[e] \in Nat /\ sends[e] <= attempts[e] + 1
  BY DEF MeshInv, SourceInv, SchedulerInv, TypedRest, Budgeted
<1>2. /\ requests \in Seq(Job) /\ dropping[e] \in Nat /\ delivered[e] \in Nat
      /\ OnWire(requests, e) + dropping[e] + delivered[e] <= sends[e]
  BY DEF MeshInv, DeliveryInv
<1>3. OnWire(requests, e) \in Nat
  BY <1>2, OnWireType
<1> QED BY <1>1, <1>2, <1>3

(* The books agree: a slot of the scheduler is held exactly while the mesh
   transport has an ack timer or an answer ready for it, the entities SENDING
   are those whose promise is pending, an entity left READY at the destination
   has a sink at work or one that threw, and a sink sees an entity at most once
   per attempt, so at most 1 + maxRetries times. *)
THEOREM BooksAgree == MeshSpec => []Bookkeeping
<1>1. MeshInv => Bookkeeping
  <2> SUFFICES ASSUME MeshInv PROVE Bookkeeping
    OBVIOUS
  <2>1. SourceInv /\ LinkInv /\ DeliveryInv /\ AckInv /\ DestInv
    BY DEF MeshInv
  <2>2. TypeOK
    BY <2>1 DEF SourceInv, SchedulerInv, Typed, TypedRest, Budgeted,
                TypeOK, Promise, Outcome,
                Promise, Outcome
  <2>3. \A e \in Job : /\ dropping[e] + delivered[e] <= attempts[e] + 1
                       /\ dropping[e] \in 0..(MaxRetries + 1)
                       /\ delivered[e] \in 0..(MaxRetries + 1)
    BY DropsAreCounted, RetriesAssumption
  <2>4. /\ dropping \in [Job -> 0..(MaxRetries + 1)]
        /\ delivered \in [Job -> 0..(MaxRetries + 1)]
    BY <2>1, <2>3 DEF DeliveryInv
  <2>5. MeshTypeOK
    BY <2>1, <2>2, <2>4 DEF SourceInv, LinkInv, DeliveryInv, AckInv, DestInv, MeshTypeOK
  <2>6. AttemptsBoundDrops
    <3>1. \A e \in Job : delivered[e] + dropping[e] = dropping[e] + delivered[e]
      BY DropsAreCounted
    <3> QED BY <2>3, <3>1 DEF AttemptsBoundDrops
  <2> QED BY <2>1, <2>5, <2>6 DEF SourceInv, DestInv, Bookkeeping
<1> QED BY <1>1, MeshInvariant, PTL

(* As long as nothing is retried the two ends agree on success: what the source
   completed, the destination completed, and dropped once. *)
THEOREM SuccessIsAgreed == MeshSpec => []EndsAgree
<1>1. MeshInv => EndsAgree
  <2> SUFFICES ASSUME MeshInv, NEW e \in Job, attempts[e] = 0
               PROVE  /\ delivered[e] <= 1
                      /\ source[e] = "COMPLETED" => dest[e] = "COMPLETED" /\ delivered[e] = 1
    BY DEF EndsAgree
  <2>1. delivered[e] \in Nat /\ sends[e] <= 1 /\ delivered[e] <= 1
    BY DropsAreCounted
  <2>2. source[e] = "COMPLETED" => delivered[e] >= 1
    BY DEF MeshInv, AckInv, NoFalseSuccess
  <2>3. delivered[e] > 0 => dest[e] = "COMPLETED"
    BY <2>1 DEF MeshInv, DestInv
  <2> QED BY <2>1, <2>2, <2>3
<1> QED BY <1>1, MeshInvariant, PTL

(* The pipeline implements the scheduler's specification: dispatch() is its
   send, the ack timer, a missing connection and an ack are answers of the inner
   transport, and what the destination and the link do leaves it alone.  So all
   that is shown above of the scheduler holds of the pipeline.  (That it is a fair
   behaviour, the rest of ServesScheduler, is for TLC.) *)
THEOREM PipelineSchedules == MeshSpec => Spec
<1>1. MeshInit => Init
  BY DEF MeshInit
<1>2. MeshInv /\ [MeshNext]_meshVars => [Next]_vars
  <2> SUFFICES ASSUME MeshInv, [MeshNext]_meshVars
               PROVE  Next \/ UNCHANGED vars
    OBVIOUS
  <2>1. UNCHANGED schedulerVars => UNCHANGED vars
    BY DEF schedulerVars, vars
  <2>2. CASE UNCHANGED meshVars
    BY <2>1, <2>2 DEF meshVars
  <2>3. ASSUME NEW e \in Job, Dispatch(e) \/ Resend(e) \/ CancelTransfer(e)
        PROVE  Next
    <3>1. Send(e) \/ RetryTimer(e) \/ Cancel(e)
      BY <2>3 DEF Dispatch, Resend, CancelTransfer
    <3> QED BY <3>1 DEF Next
  <2>4. ASSUME NEW e \in Job, NotConnected(e) \/ AckTimeout(e)
        PROVE  Next
    <3>1. InnerRejects(e)
      BY <2>4 DEF NotConnected, AckTimeout
    <3> QED BY <3>1 DEF Next, Answers
  <2>5. CASE HandleAck
    <3>1. /\ Awaited(Head(acks))
          /\ \/ InnerAccepts(Head(acks).entity)
             \/ InnerRejects(Head(acks).entity)
      BY <2>5 DEF HandleAck
    <3>2. Head(acks).entity \in Job
      BY <3>1 DEF Awaited, MeshInv, SourceInv
    <3> QED BY <3>1, <3>2 DEF Next, Answers
  <2>6. CASE IgnoreAck \/ ReceiveUnreadable \/ ReceiveRefused
             \/ ReceiveReady \/ LinkComesUp \/ LinkBreaks
    BY <2>1, <2>6 DEF IgnoreAck, ReceiveUnreadable, ReceiveRefused,
                      ReceiveReady, LinkComesUp, LinkBreaks
  <2>7. ASSUME NEW e \in Job, DispatchInvalid(e) \/ SinkDone(e) \/ SinkThrows(e)
        PROVE  UNCHANGED vars
    BY <2>1, <2>7 DEF DispatchInvalid, SinkDone, SinkThrows
  <2> QED BY <2>2, <2>3, <2>4, <2>5, <2>6, <2>7 DEF MeshNext
<1> QED BY <1>1, <1>2, MeshInvariant, PTL DEF MeshSpec, Spec
=============================================================================
