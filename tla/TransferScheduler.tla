-------------------------- MODULE TransferScheduler --------------------------
(***************************************************************************)
(* The queue between the transfer runtime and the wire                     *)
(* (src/transfer/scheduler.ts): priority order, a cap on the transfers in  *)
(* flight, retries after a backoff, cancellation.  Every action is one     *)
(* turn of the event loop; between two turns the inner transport may be    *)
(* answering any of the running jobs, any backoff timer may fire, and the  *)
(* application may send or cancel.                                         *)
(***************************************************************************)
EXTENDS Integers, Sequences, FiniteSets, SequencesExt

CONSTANTS Job,                \* the transfer ids
          Priority,           \* Priority[j]: entity.metadata.priority, or 0
          MaxConcurrent,      \* SchedulerConfig.maxConcurrent
          MaxRetries,         \* SchedulerConfig.maxRetries
          RetryOnRejectedAck  \* SchedulerConfig.retryOnRejectedAck

ASSUME PriorityAssumption == Priority \in [Job -> Int]
ASSUME ConcurrencyAssumption == MaxConcurrent \in Nat \ {0}
ASSUME RetriesAssumption == MaxRetries \in Nat
ASSUME RejectedAckAssumption == RetryOnRejectedAck \in BOOLEAN

VARIABLES
  queue,      \* jobs waiting for a slot, first to leave first
  active,     \* the counter of jobs in flight
  running,    \* jobs whose inner.send has not answered
  backoff,    \* jobs whose retry timer is armed
  attempts,   \* retries used
  cancelled,
  promise,    \* what the promise returned by send() has resolved to
  sends,      \* history: calls of inner.send
  ticket,     \* history: when the job was last put in the queue
  clock       \* history: enqueuings so far

vars == <<queue, active, running, backoff, attempts, cancelled, promise,
          sends, ticket, clock>>

(* "none": send() has not been called. *)
Outcome == {"accepted", "rejected", "failed", "cancelled"}
Promise == {"none", "pending"} \cup Outcome

TypeOK ==
  /\ queue \in Seq(Job)
  /\ active \in Nat
  /\ running \subseteq Job
  /\ backoff \subseteq Job
  /\ attempts \in [Job -> 0..MaxRetries]
  /\ cancelled \in [Job -> BOOLEAN]
  /\ promise \in [Job -> Promise]
  /\ sends \in [Job -> Nat]
  /\ ticket \in [Job -> Nat]
  /\ clock \in Nat

Init ==
  /\ queue = <<>>
  /\ active = 0
  /\ running = {}
  /\ backoff = {}
  /\ attempts = [j \in Job |-> 0]
  /\ cancelled = [j \in Job |-> FALSE]
  /\ promise = [j \in Job |-> "none"]
  /\ sends = [j \in Job |-> 0]
  /\ ticket = [j \in Job |-> 0]
  /\ clock = 0

Queued == {queue[i] : i \in 1..Len(queue)}

-----------------------------------------------------------------------------

(* enqueue walks back over the jobs of lower priority: q is the queue with j
   behind all that are at least as urgent. *)
Overtaken(p, q) == p <= q                       \* mutant: overtakes its equals
Outranked(p, q) == p < q

IsPlaceOf(j, i) ==
  /\ \A k \in i..Len(queue) : Outranked(Priority[queue[k]], Priority[j])
  /\ i > 1 => ~Outranked(Priority[queue[i - 1]], Priority[j])

(* pump, from queue q with `busy` jobs in flight, those of `inFlight`: start
   the jobs at the head until the cap is reached.  Its skipping of cancelled
   jobs never applies: cancel takes a queued job out of the queue. *)
OneSlotTooMany(busy) == MaxConcurrent - busy + 1          \* mutant: <= for <
FreeSlots(busy) == MaxConcurrent - busy

PumpNothing(q, busy, inFlight) ==                         \* mutant: no pump
  /\ queue' = q
  /\ active' = busy
  /\ running' = inFlight
  /\ UNCHANGED sends
Pump(q, busy, inFlight) ==
  \E n \in 0..Len(q) :
    /\ n <= FreeSlots(busy)
    /\ n < Len(q) => n = FreeSlots(busy)
    /\ LET started == {q[i] : i \in 1..n}
       IN  /\ queue' = SubSeq(q, n + 1, Len(q))
           /\ active' = busy + n
           /\ running' = inFlight \cup started
           /\ sends' = [j \in Job |-> IF j \in started THEN sends[j] + 1 ELSE sends[j]]

(* enqueue and then pump *)
EnqueueAndPump(j) ==
  /\ \E i \in 1..(Len(queue) + 1) :
        IsPlaceOf(j, i) /\ Pump(InsertAt(queue, i, j), active, running)
  /\ ticket' = [ticket EXCEPT ![j] = clock + 1]
  /\ clock' = clock + 1

(* The flag cancel() sets and every later step consults. *)
NeverCancelled(j) == FALSE                     \* mutant: the flag is never set
IsCancelled(j) == cancelled[j]

(* settle: the promise resolves, once. *)
Settle(j, outcome) ==
  promise' = [promise EXCEPT ![j] = IF @ = "pending" THEN outcome ELSE @]

(* scheduleRetry, in a turn whose answer is not final. *)
MayRetryOnceMore(j) == attempts[j] <= MaxRetries          \* mutant: off by one
MayRetry(j) == attempts[j] < MaxRetries

ScheduleRetry(j) ==
  /\ attempts' = [attempts EXCEPT ![j] = @ + 1]
  /\ backoff' = backoff \cup {j}
  /\ UNCHANGED promise

-----------------------------------------------------------------------------

(* send() *)
Send(j) ==
  /\ promise[j] = "none"
  /\ promise' = [promise EXCEPT ![j] = "pending"]
  /\ EnqueueAndPump(j)
  /\ UNCHANGED <<backoff, attempts, cancelled>>

(* The finally of run(): the job leaves its slot, and the slot goes to the
   queue. *)
KeepSlot(j) == Pump(queue, active, running \ {j})      \* mutant: no active--
LeaveSlot(j) == Pump(queue, active - 1, running \ {j})

(* The inner transport answers with an ack. *)
RetriesRejection(j) == RetryOnRejectedAck /\ MayRetry(j) /\ ~IsCancelled(j)

InnerAccepts(j) ==
  /\ j \in running
  /\ Settle(j, IF IsCancelled(j) THEN "cancelled" ELSE "accepted")
  /\ LeaveSlot(j)
  /\ UNCHANGED <<backoff, attempts, cancelled, ticket, clock>>

InnerRejects(j) ==
  /\ j \in running
  /\ IF RetriesRejection(j)
     THEN ScheduleRetry(j)
     ELSE /\ Settle(j, IF IsCancelled(j) THEN "cancelled" ELSE "rejected")
          /\ UNCHANGED <<backoff, attempts>>
  /\ LeaveSlot(j)
  /\ UNCHANGED <<cancelled, ticket, clock>>

(* The inner transport throws. *)
InnerThrows(j) ==
  /\ j \in running
  /\ IF ~IsCancelled(j) /\ MayRetry(j)
     THEN ScheduleRetry(j)
     ELSE /\ Settle(j, "failed")
          /\ UNCHANGED <<backoff, attempts>>
  /\ LeaveSlot(j)
  /\ UNCHANGED <<cancelled, ticket, clock>>

(* A retry timer fires. *)
RetryTimer(j) ==
  /\ j \in backoff
  /\ ~IsCancelled(j)
  /\ backoff' = backoff \ {j}
  /\ EnqueueAndPump(j)
  /\ UNCHANGED <<attempts, cancelled, promise>>

(* cancel(): a job that send() knows and has not settled. *)
StayQueued(j) == UNCHANGED queue                        \* mutant: no splice
LeaveQueue(j) == \E i \in 1..Len(queue) : queue[i] = j /\ queue' = RemoveAt(queue, i)

Cancel(j) ==
  /\ promise[j] = "pending"
  /\ cancelled' = [cancelled EXCEPT ![j] = TRUE]
  /\ backoff' = backoff \ {j}
  /\ IF j \in Queued
     THEN /\ LeaveQueue(j)
          /\ Settle(j, "cancelled")
     ELSE UNCHANGED <<queue, promise>>
  /\ UNCHANGED <<active, running, attempts, sends, ticket, clock>>

Answers(j) == InnerAccepts(j) \/ InnerRejects(j) \/ InnerThrows(j)

Next == \E j \in Job : \/ Send(j)
                       \/ Answers(j)
                       \/ RetryTimer(j)
                       \/ Cancel(j)

Spec == Init /\ [][Next]_vars

(* The inner transport answers every send (MeshTransferTransport's ack timer
   sees to it), and an armed timer fires.  Nobody is obliged to send or to
   cancel. *)
Fairness == \A j \in Job : WF_vars(Answers(j)) /\ WF_vars(RetryTimer(j))

FairSpec == Spec /\ Fairness

-----------------------------------------------------------------------------
(* Properties. *)

(* Congestion control: the counter that gates pump agrees with the transfers
   really in flight, through every answer, retry and cancellation, and never
   passes maxConcurrent. *)
SlotsAccounted == active = Cardinality(running) /\ active <= MaxConcurrent

(* No lost pump: a job waits in the queue only while every slot is taken. *)
NoIdleSlot == queue # <<>> => active = MaxConcurrent

(* The queue is in order of urgency, and first come, first served among equals
   (a retry comes again), however sends, retries and cancels interleave. *)
UrgentFirst ==
  \A i, k \in 1..Len(queue) : i < k =>
    \/ Priority[queue[i]] > Priority[queue[k]]
    \/ /\ Priority[queue[i]] = Priority[queue[k]]
       /\ ticket[queue[i]] < ticket[queue[k]]

(* No job is lost and none is doubled: a pending job is in the queue, in
   flight, or in its backoff, and in one of these only; a settled job, or one
   not yet sent, is nowhere.  (A job cancelled in its backoff is the
   exception: see CancelSettles.) *)
OnePlace ==
  /\ \A i, k \in 1..Len(queue) : queue[i] = queue[k] => i = k
  /\ Queued \cap running = {} /\ Queued \cap backoff = {} /\ running \cap backoff = {}
  /\ \A j \in Queued \cup running \cup backoff : promise[j] = "pending"
  /\ \A j \in Job : promise[j] = "pending" /\ ~cancelled[j]
                      => j \in Queued \cup running \cup backoff

(* A transfer goes to the wire at most 1 + maxRetries times. *)
RetryBudget == \A j \in Job : sends[j] <= MaxRetries + 1

(* Once cancelled, a transfer is not sent again: no timer, retry or pump
   revives it. *)
CancelledNeverSent ==
  [][\A j \in Job : cancelled[j] => sends'[j] = sends[j]]_vars

(* Liveness: send()'s promise resolves unless the job is cancelled; and a job
   cancelled in flight still settles, when its answer comes. *)
SendSettles ==
  \A j \in Job :
    /\ promise[j] = "pending" ~> promise[j] \in Outcome \/ cancelled[j]
    /\ cancelled[j] /\ j \in running ~> promise[j] \in Outcome

(* What docs/PHASE4.md says of cancel(): a cancelled job settles.  The code
   forgets a job whose retry timer it clears: its promise stays pending, and
   the runtime's entity stays SENDING. *)
CancelSettles ==
  \A j \in Job : cancelled[j] ~> promise[j] \in Outcome
=============================================================================
