----------------------------- MODULE UpkeepProofs -----------------------------
(***************************************************************************)
(* What keeps a link up, and what brings it back.                          *)
(*                                                                         *)
(* First the heartbeat: what it keeps for any durations, provided that a   *)
(* PONG is given less time than the interval between two PINGs.            *)
(* config.ts's defaults do (3 s and 5 s); nothing checks it, and without   *)
(* it none of the theorems of Heartbeat holds.                             *)
(*                                                                         *)
(* Then the chase: what Reconnect keeps, for any names of the device, any  *)
(* limit of attempts, any number of lookups and handshakes at a time, and  *)
(* with automatic dialling and reconnection on or off. ChaseIsOrderly is   *)
(* inductive as it stands: what a lookup writes late (FoundResumes) is an  *)
(* address and a trust, never a status, and whoever changes the            *)
(* transport's table tells registry and manager in one turn.               *)
(***************************************************************************)
EXTENDS Heartbeat, Reconnect, FiniteSetTheorems, TLAPS

PongFirst == Timeout < Interval

(* Ticks since the last PING, or since the heartbeat was started. *)
SincePing == Interval - untilPing

(* The inductive invariant.  A pong timer is armed while a PONG is awaited and
   at no other time; it is the timer of the last PING, and so are its wait and
   its remaining time.  Each PING missed accounts for one interval of silence. *)
HeartbeatTypes ==
  /\ state \in {"connected", "closed", "unreachable"}
  /\ untilPing \in 0..Interval
  /\ pingSeq \in 0..MaxPing
  /\ missed \in 0..MaxMissed
  /\ waits \in Seq(Nat) /\ Len(waits) <= pingSeq
  /\ quiet \in Nat
  /\ alarms \in Nat
  /\ late \in BOOLEAN

TimerIsLastPings ==
  IF state = "connected" /\ pendingPingSeq # 0
  THEN /\ SincePing <= Timeout
       /\ timers = {[ping |-> pingSeq, left |-> Timeout - SincePing]}
  ELSE timers = {}

PendingIsLast == pendingPingSeq # 0 => pendingPingSeq = pingSeq

WaitIsLastPings ==
  state = "connected" /\ pendingPingSeq # 0
    => waits # <<>> /\ waits[Len(waits)] >= SincePing

LateIsKnown == waits # <<>> /\ waits[Len(waits)] >= Timeout => late

MissedIsSilence ==
  state = "connected" =>
    /\ missed < MaxMissed
    /\ quiet <= missed * Interval + (IF pendingPingSeq = 0 THEN 0 ELSE Interval)
                + SincePing

HeartbeatInv == /\ HeartbeatTypes /\ PendingIsLast /\ TimerIsLastPings
                /\ WaitIsLastPings /\ LateIsKnown /\ PunctualPeerKept
                /\ MissedIsSilence /\ OneAlarm

LEMMA Constants ==
  /\ Interval \in Nat /\ Interval > 0 /\ Timeout \in Nat /\ Timeout > 0
  /\ MaxMissed \in Nat /\ MaxMissed > 0 /\ MaxPing \in Nat
BY ConfigAssumption, MaxPingAssumption

(* What a count of misses is worth in silence. *)
LEMMA Silence ==
  /\ 0 * Interval = 0
  /\ \A m \in Nat : /\ m * Interval \in Nat
                    /\ (m + 1) * Interval = m * Interval + Interval
                    /\ m < MaxMissed => (m + 1) * Interval <= MaxMissed * Interval
<1>1. 0 * Interval = 0
  BY Constants
<1>2. ASSUME NEW m \in Nat
      PROVE  m * Interval \in Nat /\ (m + 1) * Interval = m * Interval + Interval
  BY Constants
<1>3. ASSUME NEW m \in Nat, m < MaxMissed
      PROVE  (m + 1) * Interval <= MaxMissed * Interval
  <2>1. PICK d \in Nat : MaxMissed = (m + 1) + d
    <3>1. MaxMissed - (m + 1) \in Nat /\ MaxMissed = (m + 1) + (MaxMissed - (m + 1))
      BY <1>3, Constants
    <3> QED BY <3>1
  <2>2. MaxMissed * Interval = (m + 1) * Interval + d * Interval
    BY <2>1, Constants
  <2>3. d * Interval \in Nat /\ (m + 1) * Interval \in Nat
    BY <1>2, Constants
  <2> QED BY <2>2, <2>3
<1> QED BY <1>1, <1>2, <1>3

LEMMA InvTypes == PongFirst /\ HeartbeatInv => HeartbeatTypeOK
<1> SUFFICES ASSUME PongFirst, HeartbeatInv PROVE HeartbeatTypeOK
  OBVIOUS
<1>1. HeartbeatTypes /\ PendingIsLast /\ TimerIsLastPings
  BY DEF HeartbeatInv
<1>2. pendingPingSeq \in 0..pingSeq
  BY <1>1, Constants DEF HeartbeatTypes, PendingIsLast
<1>3. timers \subseteq [ping : 1..MaxPing, left : 0..Timeout]
  BY <1>1, <1>2, Constants DEF HeartbeatTypes, PendingIsLast, TimerIsLastPings, SincePing
<1>4. Cardinality(timers) <= 1
  <2>1. timers = {} \/ \E t : timers = {t}
    BY <1>1 DEF TimerIsLastPings
  <2>2. CASE timers = {}
    <3>1. Cardinality({}) = 0
      BY FS_EmptySet
    <3> QED BY <2>2, <3>1
  <2>3. CASE \E t : timers = {t}
    <3>1. PICK t : timers = {t}
      BY <2>3
    <3>2. Cardinality({t}) = 1
      BY FS_Singleton
    <3> QED BY <3>1, <3>2
  <2> QED BY <2>1, <2>2, <2>3
<1>5. state # "connected" => timers = {}
  BY <1>1 DEF TimerIsLastPings
<1> QED BY <1>1, <1>2, <1>3, <1>4, <1>5 DEF HeartbeatTypeOK, HeartbeatTypes

LEMMA InitHolds == HeartbeatInit => HeartbeatInv
<1> SUFFICES ASSUME HeartbeatInit PROVE HeartbeatInv
  OBVIOUS
<1>1. HeartbeatTypes
  <2>1. waits \in Seq(Nat) /\ Len(waits) = 0
    BY DEF HeartbeatInit
  <2>2. untilPing \in 0..Interval /\ pingSeq \in 0..MaxPing /\ missed \in 0..MaxMissed
    BY Constants DEF HeartbeatInit, Period
  <2>3. state = "connected" /\ pingSeq = 0 /\ quiet = 0 /\ alarms = 0
    BY DEF HeartbeatInit
  <2>4. late \in BOOLEAN
    BY DEF HeartbeatInit
  <2> QED BY <2>1, <2>2, <2>3, <2>4 DEF HeartbeatTypes
<1>2. PendingIsLast /\ TimerIsLastPings /\ WaitIsLastPings /\ OneAlarm
  BY DEF HeartbeatInit, PendingIsLast, TimerIsLastPings, WaitIsLastPings, OneAlarm
<1>3. MissedIsSilence
  BY Constants, Silence DEF HeartbeatInit, MissedIsSilence, SincePing, Period
<1>4. LateIsKnown /\ PunctualPeerKept
  BY DEF HeartbeatInit, LateIsKnown, PunctualPeerKept
<1> QED BY <1>1, <1>2, <1>3, <1>4 DEF HeartbeatInv

(* While late, state and the waits stand, so does what they say. *)
LEMMA LateKept ==
  ASSUME LateIsKnown, PunctualPeerKept, UNCHANGED <<state, late>>,
         waits' # <<>> /\ waits'[Len(waits')] >= Timeout
           => waits # <<>> /\ waits[Len(waits)] >= Timeout
  PROVE  LateIsKnown' /\ PunctualPeerKept'
BY DEF LateIsKnown, PunctualPeerKept

-----------------------------------------------------------------------------
(* Steps. *)

LEMMA SendPingKeeps ==
  ASSUME PongFirst, HeartbeatInv, SendPing
  PROVE  HeartbeatInv'
<1>1. HeartbeatTypes /\ PendingIsLast /\ TimerIsLastPings /\ MissedIsSilence /\ OneAlarm
  BY DEF HeartbeatInv
<1>2. /\ state = "connected" /\ untilPing = 0 /\ pingSeq < MaxPing
      /\ untilPing' = Interval /\ pingSeq' = pingSeq + 1 /\ pendingPingSeq' = pingSeq + 1
      /\ timers' = timers \cup {[ping |-> pingSeq + 1, left |-> Timeout]}
      /\ waits' = Append(waits, 0)
      /\ UNCHANGED <<state, missed, quiet, alarms, late>>
  BY DEF SendPing, Period
<1>3. pendingPingSeq = 0 /\ timers = {}
  BY <1>1, <1>2, Constants DEF PongFirst, TimerIsLastPings, SincePing
<1>4. waits' \in Seq(Nat) /\ Len(waits') = Len(waits) + 1 /\ waits'[Len(waits')] = 0
  BY <1>1, <1>2 DEF HeartbeatTypes
<1>5. HeartbeatTypes'
  BY <1>1, <1>2, <1>4, Constants DEF HeartbeatTypes
<1>6. PendingIsLast' /\ OneAlarm'
  BY <1>1, <1>2 DEF PendingIsLast, OneAlarm
<1>7. TimerIsLastPings' /\ WaitIsLastPings'
  <2>1. SincePing' = 0 /\ pendingPingSeq' # 0 /\ Timeout - SincePing' = Timeout
    BY <1>1, <1>2, Constants DEF SincePing, HeartbeatTypes
  <2> QED BY <1>2, <1>3, <1>4, <2>1, Constants DEF TimerIsLastPings, WaitIsLastPings
<1>8. MissedIsSilence'
  BY <1>1, <1>2, <1>3, Constants, Silence DEF MissedIsSilence, SincePing, HeartbeatTypes
<1>9. LateIsKnown' /\ PunctualPeerKept'
  <2>1. ~(waits'[Len(waits')] >= Timeout)
    BY <1>4, Constants
  <2> QED BY <1>2, <2>1, LateKept DEF HeartbeatInv
<1> QED BY <1>5, <1>6, <1>7, <1>8, <1>9 DEF HeartbeatInv

(* The one timer, when there is one. *)
LEMMA NoOtherTimers == HeartbeatInv => OtherTimers = {}
BY DEF HeartbeatInv, TimerIsLastPings, OtherTimers

LEMMA ReceivePongKeeps ==
  ASSUME HeartbeatInv, ReceivePong
  PROVE  HeartbeatInv'
<1>1. /\ HeartbeatTypes /\ PendingIsLast /\ TimerIsLastPings /\ WaitIsLastPings
      /\ MissedIsSilence /\ OneAlarm
  BY DEF HeartbeatInv
<1>2. /\ waits # <<>> /\ waits' = Tail(waits)
      /\ UNCHANGED <<state, untilPing, pingSeq, alarms, late>>
  BY DEF ReceivePong
<1>3. /\ waits' \in Seq(Nat) /\ Len(waits') = Len(waits) - 1
      /\ waits' # <<>> => waits'[Len(waits')] = waits[Len(waits)]
  BY <1>1, <1>2 DEF HeartbeatTypes
<1>4. LateIsKnown' /\ PunctualPeerKept'
  BY <1>2, <1>3, LateKept DEF HeartbeatInv
<1>5. CASE state = "connected" /\ Expected
  <2>1. pendingPingSeq' = 0 /\ missed' = 0 /\ timers' = {} /\ quiet' = 0
    BY <1>5, NoOtherTimers DEF ReceivePong
  <2>2. HeartbeatTypes' /\ PendingIsLast' /\ TimerIsLastPings' /\ WaitIsLastPings' /\ OneAlarm'
    BY <1>1, <1>2, <1>3, <2>1, Constants
       DEF HeartbeatTypes, PendingIsLast, TimerIsLastPings, WaitIsLastPings, OneAlarm
  <2>3. MissedIsSilence'
    BY <1>1, <1>2, <2>1, Constants, Silence DEF MissedIsSilence, SincePing, HeartbeatTypes
  <2> QED BY <1>4, <2>2, <2>3 DEF HeartbeatInv
<1>6. CASE ~(state = "connected" /\ Expected)
  <2>1. UNCHANGED <<pendingPingSeq, missed, timers, quiet>>
    BY <1>6 DEF ReceivePong
  <2>2. HeartbeatTypes'
    BY <1>1, <1>2, <1>3, <2>1 DEF HeartbeatTypes
  <2>3. PendingIsLast' /\ TimerIsLastPings' /\ MissedIsSilence' /\ OneAlarm'
    BY <1>1, <1>2, <2>1
       DEF PendingIsLast, TimerIsLastPings, MissedIsSilence, OneAlarm, SincePing
  <2>4. WaitIsLastPings'
    <3> SUFFICES ASSUME state = "connected", pendingPingSeq # 0
                 PROVE  waits' # <<>> /\ waits'[Len(waits')] >= SincePing
      BY <1>2, <2>1 DEF WaitIsLastPings, SincePing
    <3>1. Oldest # pingSeq
      BY <1>1, <1>6 DEF Expected, PendingIsLast
    <3>2. ASSUME waits' = <<>> PROVE FALSE
      <4>1. pingSeq \in Nat /\ Len(waits) \in Nat
        BY <1>1 DEF HeartbeatTypes
      <4>2. Len(waits) = 1
        BY <1>3, <3>2, <4>1
      <4>3. Oldest = pingSeq
        BY <4>1, <4>2 DEF Oldest
      <4> QED BY <3>1, <4>3
    <3>3. waits' # <<>>
      BY <3>2
    <3> QED BY <1>1, <1>3, <3>3 DEF WaitIsLastPings
  <2> QED BY <1>4, <2>2, <2>3, <2>4 DEF HeartbeatInv
<1> QED BY <1>5, <1>6

(* A timer that fires is the last PING's, and its PING has waited for it. *)
LEMMA FiringTimer ==
  ASSUME HeartbeatInv, NEW t \in timers, t.left = 0
  PROVE  /\ state = "connected" /\ pendingPingSeq = pingSeq /\ SincePing = Timeout
         /\ timers = {t}
         /\ waits # <<>> /\ waits[Len(waits)] >= Timeout
<1>1. HeartbeatTypes /\ PendingIsLast /\ TimerIsLastPings /\ WaitIsLastPings
  BY DEF HeartbeatInv
<1>2. state = "connected" /\ pendingPingSeq # 0
  BY <1>1 DEF TimerIsLastPings
<1>3. timers = {[ping |-> pingSeq, left |-> Timeout - SincePing]} /\ SincePing <= Timeout
  BY <1>1, <1>2 DEF TimerIsLastPings
<1>4. SincePing \in Nat /\ Timeout - SincePing = 0
  BY <1>1, <1>3, Constants DEF SincePing, HeartbeatTypes
<1> QED BY <1>1, <1>2, <1>3, <1>4, Constants DEF PendingIsLast, WaitIsLastPings

LEMMA PongTimeoutKeeps ==
  ASSUME HeartbeatInv, PongTimeout
  PROVE  HeartbeatInv' /\ Waited
<1>1. HeartbeatTypes /\ PendingIsLast /\ MissedIsSilence /\ OneAlarm
  BY DEF HeartbeatInv
<1>2. PICK t \in timers :
        /\ t.left = 0
        /\ pingSeq = pendingPingSeq =>
             /\ pendingPingSeq' = 0
             /\ missed' = IF missed < MaxMissed THEN missed + 1 ELSE missed
             /\ IF LastStraw
                THEN alarms' = alarms + 1 /\ CloseAs("unreachable", timers \ {t})
                ELSE timers' = timers \ {t} /\ UNCHANGED <<state, alarms>>
        /\ UNCHANGED <<untilPing, pingSeq, waits, quiet, late>>
  BY DEF PongTimeout
<1>3. /\ state = "connected" /\ pendingPingSeq = pingSeq /\ SincePing = Timeout
      /\ timers = {t}
      /\ waits # <<>> /\ waits[Len(waits)] >= Timeout
  BY <1>2, FiringTimer
<1>4. missed < MaxMissed /\ missed' = missed + 1 /\ pendingPingSeq' = 0
  BY <1>1, <1>2, <1>3 DEF MissedIsSilence
<1>5. timers' = {}
  BY <1>2, <1>3 DEF CloseAs
<1>6. IF LastStraw THEN state' = "unreachable" /\ alarms' = alarms + 1
                   ELSE state' = state /\ alarms' = alarms
  BY <1>2, <1>3 DEF CloseAs
<1>7. HeartbeatTypes'
  BY <1>1, <1>2, <1>4, <1>6, Constants DEF HeartbeatTypes
<1>8. PendingIsLast' /\ TimerIsLastPings' /\ WaitIsLastPings' /\ OneAlarm'
  BY <1>1, <1>3, <1>4, <1>5, <1>6
     DEF PendingIsLast, TimerIsLastPings, WaitIsLastPings, OneAlarm
<1>9. MissedIsSilence'
  <2>1. state' = "connected" => missed + 1 < MaxMissed
    BY <1>1, <1>4, <1>6, Constants DEF LastStraw, HeartbeatTypes
  <2>2. quiet <= missed * Interval + Interval + SincePing
    <3>1. pendingPingSeq # 0
      BY <1>3, <1>2 DEF HeartbeatInv, TimerIsLastPings
    <3> QED BY <1>1, <1>3, <3>1 DEF MissedIsSilence
  <2> QED BY <1>1, <1>2, <1>4, <2>1, <2>2, Constants, Silence
             DEF MissedIsSilence, SincePing, HeartbeatTypes
<1>10. Waited
  <2>1. pendingPingSeq - Oldest + 1 = Len(waits)
    BY <1>1, <1>3 DEF Oldest, HeartbeatTypes
  <2>2. Len(waits) \in DOMAIN waits => waits # <<>>
    BY <1>1 DEF HeartbeatTypes
  <2> QED BY <1>3, <2>1, <2>2 DEF Waited
<1>11. LateIsKnown' /\ PunctualPeerKept'
  <2>1. late
    BY <1>3 DEF HeartbeatInv, LateIsKnown
  <2> QED BY <1>2, <2>1 DEF LateIsKnown, PunctualPeerKept
<1> QED BY <1>7, <1>8, <1>9, <1>10, <1>11 DEF HeartbeatInv

LEMMA CloseKeeps ==
  ASSUME HeartbeatInv, Close
  PROVE  HeartbeatInv'
<1>1. HeartbeatTypes /\ PendingIsLast /\ OneAlarm
  BY DEF HeartbeatInv
<1>2. /\ state = "connected" /\ state' = "closed" /\ timers' = {}
      /\ UNCHANGED <<untilPing, pingSeq, pendingPingSeq, missed, waits, quiet, alarms, late>>
  BY NoOtherTimers DEF Close, CloseAs
<1>3. HeartbeatTypes'
  BY <1>1, <1>2 DEF HeartbeatTypes
<1> QED BY <1>1, <1>2, <1>3
        DEF HeartbeatInv, PendingIsLast, TimerIsLastPings, WaitIsLastPings,
            MissedIsSilence, OneAlarm, LateIsKnown, PunctualPeerKept

LEMMA TickKeeps ==
  ASSUME HeartbeatInv, Tick
  PROVE  HeartbeatInv'
<1>1. /\ HeartbeatTypes /\ PendingIsLast /\ TimerIsLastPings /\ WaitIsLastPings
      /\ MissedIsSilence /\ OneAlarm
  BY DEF HeartbeatInv
<1>2. /\ \A t \in timers : t.left > 0
      /\ timers' = {[t EXCEPT !.left = @ - 1] : t \in timers}
      /\ waits' = [i \in DOMAIN waits |->
                     IF waits[i] < Timeout THEN waits[i] + 1 ELSE waits[i]]
      /\ UNCHANGED <<state, pingSeq, pendingPingSeq, missed, alarms>>
  BY DEF Tick
<1>3. state = "connected" /\ untilPing > 0 /\ untilPing' = untilPing - 1 /\ quiet' = quiet + 1
  BY <1>1 DEF Tick, TimerIsLastPings
<1>4. late' = (late \/ \E i \in DOMAIN waits : waits'[i] = Timeout)
  BY DEF Tick
<1>5. SincePing \in Nat /\ SincePing' = SincePing + 1
  BY <1>1, <1>3, Constants DEF HeartbeatTypes, SincePing
<1>6. /\ waits' \in Seq(Nat) /\ Len(waits') = Len(waits)
      /\ \A i \in 1..Len(waits) :
           waits'[i] = IF waits[i] < Timeout THEN waits[i] + 1 ELSE waits[i]
  <2> DEFINE older(i) == IF waits[i] < Timeout THEN waits[i] + 1 ELSE waits[i]
  <2>1. waits \in Seq(Nat) /\ DOMAIN waits = 1..Len(waits) /\ Len(waits) \in Nat
    BY <1>1 DEF HeartbeatTypes
  <2>2. waits' = [i \in 1..Len(waits) |-> older(i)]
    BY <1>2, <2>1
  <2>3. \A i \in 1..Len(waits) : older(i) \in Nat
    BY <2>1
  <2> HIDE DEF older
  <2>4. waits' \in [1..Len(waits) -> Nat] /\ \A i \in 1..Len(waits) : waits'[i] = older(i)
    BY <2>2, <2>3
  <2>5. waits' \in Seq(Nat) /\ Len(waits') = Len(waits)
    BY <2>1, <2>4
  <2> QED BY <2>4, <2>5 DEF older
<1>7. HeartbeatTypes'
  <2>1. late' \in BOOLEAN
    BY <1>4
  <2> QED BY <1>1, <1>2, <1>3, <1>6, <2>1, Constants DEF HeartbeatTypes
<1>8. PendingIsLast' /\ OneAlarm'
  BY <1>1, <1>2 DEF PendingIsLast, OneAlarm
<1>9. TimerIsLastPings' /\ (pendingPingSeq # 0 => SincePing < Timeout)
  <2>1. CASE pendingPingSeq # 0
    <3>1. SincePing <= Timeout
          /\ timers = {[ping |-> pingSeq, left |-> Timeout - SincePing]}
      BY <1>1, <1>3, <2>1 DEF TimerIsLastPings
    <3>2. Timeout - SincePing > 0
      BY <1>2, <3>1
    <3>3. timers' = {[ping |-> pingSeq, left |-> (Timeout - SincePing) - 1]}
      BY <1>2, <3>1
    <3>4. (Timeout - SincePing) - 1 = Timeout - SincePing' /\ SincePing' <= Timeout
      BY <1>5, <3>2, Constants
    <3> QED BY <1>2, <1>3, <1>5, <2>1, <3>2, <3>3, <3>4, Constants DEF TimerIsLastPings
  <2>2. CASE pendingPingSeq = 0
    BY <1>1, <1>2, <2>2 DEF TimerIsLastPings
  <2> QED BY <2>1, <2>2
<1>10. WaitIsLastPings'
  <2> SUFFICES ASSUME pendingPingSeq # 0
               PROVE  waits' # <<>> /\ waits'[Len(waits')] >= SincePing'
    BY <1>2 DEF WaitIsLastPings
  <2>1. waits # <<>> /\ waits[Len(waits)] >= SincePing
    BY <1>1, <1>3 DEF WaitIsLastPings
  <2>2. Len(waits) \in 1..Len(waits) /\ waits[Len(waits)] \in Nat
    BY <1>1, <2>1 DEF HeartbeatTypes
  <2> QED BY <1>5, <1>6, <1>9, <2>2, <2>1, Constants
<1>11. MissedIsSilence'
  <2> DEFINE owed == IF pendingPingSeq = 0 THEN 0 ELSE Interval
  <2>1. owed' = owed /\ owed \in Nat
    BY <1>2, Constants
  <2>2. missed * Interval \in Nat
    BY <1>1, Constants, Silence DEF HeartbeatTypes
  <2>3. missed < MaxMissed /\ quiet <= missed * Interval + owed + SincePing
    BY <1>1, <1>3 DEF MissedIsSilence
  <2> HIDE DEF owed
  <2>4. quiet' <= missed * Interval + owed + SincePing'
    BY <1>1, <1>3, <1>5, <2>1, <2>2, <2>3 DEF HeartbeatTypes
  <2>5. missed' < MaxMissed /\ quiet' <= missed' * Interval + owed' + SincePing'
    BY <1>2, <2>1, <2>3, <2>4
  <2> QED BY <2>5 DEF MissedIsSilence, owed
<1>12. LateIsKnown' /\ PunctualPeerKept'
  <2>1. ASSUME waits' # <<>>, waits'[Len(waits')] >= Timeout
        PROVE  late'
    <3>1. /\ waits # <<>> /\ Len(waits) \in DOMAIN waits /\ waits[Len(waits)] \in Nat
          /\ waits'[Len(waits)] =
               IF waits[Len(waits)] < Timeout THEN waits[Len(waits)] + 1 ELSE waits[Len(waits)]
      BY <1>1, <1>6, <2>1 DEF HeartbeatTypes
    <3>2. waits[Len(waits)] >= Timeout \/ waits'[Len(waits)] = Timeout
      BY <1>6, <2>1, <3>1, Constants
    <3>3. CASE waits[Len(waits)] >= Timeout
      BY <1>4, <3>1, <3>3 DEF HeartbeatInv, LateIsKnown
    <3>4. CASE waits'[Len(waits)] = Timeout
      BY <1>4, <3>1, <3>4
    <3> QED BY <3>2, <3>3, <3>4
  <2>2. late => late'
    BY <1>4
  <2> QED BY <1>2, <2>1, <2>2 DEF LateIsKnown, PunctualPeerKept, HeartbeatInv
<1> QED BY <1>7, <1>8, <1>9, <1>10, <1>11, <1>12 DEF HeartbeatInv

LEMMA StutterKeeps == HeartbeatInv /\ UNCHANGED heartbeatVars => HeartbeatInv'
BY DEF heartbeatVars, HeartbeatInv, HeartbeatTypes, PendingIsLast, TimerIsLastPings,
       WaitIsLastPings,
       MissedIsSilence, OneAlarm, SincePing, LateIsKnown, PunctualPeerKept

LEMMA Invariant ==
  ASSUME PongFirst
  PROVE  HeartbeatSpec => []HeartbeatInv
<1>1. HeartbeatInv /\ [HeartbeatNext]_heartbeatVars => HeartbeatInv'
  BY SendPingKeeps, ReceivePongKeeps, PongTimeoutKeeps, CloseKeeps, TickKeeps, StutterKeeps
     DEF HeartbeatNext
<1> QED BY InitHolds, <1>1, PTL DEF HeartbeatSpec

-----------------------------------------------------------------------------
(* A peer is declared unreachable once at most, by the end that closes for it,
   and every miss that led there was of a PING that had waited for its whole
   Timeout; no pong timer outlives the connection (connection.ts:388-435). *)
THEOREM HonestAlarm ==
  ASSUME PongFirst
  PROVE  HeartbeatSpec => AlarmIsHonest
<1>1. HeartbeatInv => HeartbeatTypeOK /\ OneAlarm
  BY InvTypes DEF HeartbeatInv
<1>2. HeartbeatInv /\ [HeartbeatNext]_heartbeatVars
        => [pendingPingSeq' = 0 /\ missed' > missed => Waited]_heartbeatVars
  <2> SUFFICES ASSUME HeartbeatInv, HeartbeatNext, missed' > missed
               PROVE  Waited
    OBVIOUS
  <2>1. missed \in Nat
    BY Constants DEF HeartbeatInv, HeartbeatTypes
  <2>2. missed' # missed /\ missed' # 0
    BY <2>1
  <2>3. PongTimeout
    BY <2>2 DEF HeartbeatNext, SendPing, ReceivePong, Close, Tick
  <2> QED BY <2>3, PongTimeoutKeeps
<1>3. HeartbeatSpec => [](HeartbeatTypeOK /\ OneAlarm)
  BY Invariant, <1>1, PTL
<1>4. HeartbeatSpec => [][pendingPingSeq' = 0 /\ missed' > missed => Waited]_heartbeatVars
  BY Invariant, <1>2, PTL DEF HeartbeatSpec
<1> QED BY <1>3, <1>4 DEF AlarmIsHonest, HonestMisses

(* An end never believes in a silent peer for longer than MaxMissed intervals
   and one timeout (connection.ts:388-424). *)
THEOREM DeadPeerNoticed ==
  ASSUME PongFirst
  PROVE  HeartbeatSpec => []SilenceIsBounded
<1>1. HeartbeatInv => SilenceIsBounded
  <2> SUFFICES ASSUME HeartbeatInv, state = "connected"
               PROVE  quiet <= MaxMissed * Interval + Timeout
    BY DEF SilenceIsBounded
  <2>1. HeartbeatTypes /\ TimerIsLastPings /\ MissedIsSilence
    BY DEF HeartbeatInv
  <2>2. missed \in Nat /\ missed < MaxMissed /\ SincePing \in Nat /\ SincePing <= Interval
    BY <2>1, Constants DEF HeartbeatTypes, MissedIsSilence, SincePing
  <2>3. missed * Interval \in Nat /\ missed * Interval + Interval <= MaxMissed * Interval
    BY <2>2, Silence
  <2>4. MaxMissed * Interval \in Nat
    BY Constants, Silence
  <2>5. pendingPingSeq # 0 => SincePing <= Timeout
    BY <2>1 DEF TimerIsLastPings
  <2> QED BY <2>1, <2>2, <2>3, <2>4, <2>5, Constants DEF MissedIsSilence, HeartbeatTypes
<1> QED BY Invariant, <1>1, PTL

(* What types.ts:36 promises the peer holds with these durations: an end whose
   peer answers every PING within Timeout never declares it unreachable. *)
THEOREM PunctualPeerIsKept ==
  ASSUME PongFirst
  PROVE  HeartbeatSpec => []PunctualPeerKept
BY Invariant, PTL DEF HeartbeatInv

-----------------------------------------------------------------------------
(* The parts of TypeOK that do not concern the chase. *)
WorldType ==
  /\ node \in {"running", "closing", "closed", "stopped"}
  /\ home \in Peer /\ trust \in BOOLEAN /\ limit \in Limits
  /\ seen \subseteq Peer
  /\ lookups \subseteq [address : Peer, trusted : BOOLEAN]

Statuses == {"none", "discovered", "connecting", "connected", "unreachable", "lost"}

NetType ==
  /\ status \in Statuses
  /\ trusted \in BOOLEAN /\ address \in Address
  /\ dialing \in Address \cup {NoDial}
  /\ pending \subseteq Address /\ up \in BOOLEAN

RetryType == retry \in {NoRetry} \cup (IF limit = 0 THEN 0..Cap ELSE 0..limit - 1)

LEMMA Types ==
  /\ TypeOK <=> WorldType /\ NetType /\ RetryType
  /\ TypeOK' <=> (WorldType /\ NetType /\ RetryType)'
BY DEF TypeOK, WorldType, NetType, RetryType, Statuses

-----------------------------------------------------------------------------
(* The helpers. *)

LEMMA SetStatusType ==
  ASSUME status \in Statuses, NEW s \in Statuses
  PROVE  SetStatus(s) \in Statuses
BY DEF SetStatus

(* connect() dials an address of the record, and only a device that is not
   connected. *)
LEMMA ConnectStep ==
  ASSUME NetType, Connect
  PROVE  /\ dialing' \in Address \cup {NoDial} /\ status' \in Statuses
         /\ up => status' = status
         /\ status' = "connected" => status = "connected"
BY DEF Connect, SetStatus, NetType, Statuses

(* scheduleReconnect arms the timer within the limit. *)
LEMMA RescheduledType ==
  ASSUME RetryType, limit \in Limits PROVE
    Rescheduled \in {NoRetry} \cup (IF limit = 0 THEN 0..Cap ELSE 0..limit - 1)
<1>1. limit \in Nat /\ Cap \in Nat
  BY NumbersAssumption
<1>2. CASE Rescheduled = retry
  BY <1>2 DEF RetryType
<1>3. CASE Rescheduled = NoRetry
  BY <1>3
<1>4. CASE Rescheduled = Counted(retry + 1) /\ ~GivesUp(retry + 1)
  <2>1. retry \in Int /\ retry + 1 >= 0
    BY <1>1 DEF RetryType, NoRetry
  <2>2. CASE limit = 0
    BY <1>1, <1>4, <2>1, <2>2 DEF Counted
  <2>3. CASE limit # 0
    BY <1>1, <1>4, <2>1, <2>3 DEF Counted, GivesUp
  <2> QED BY <2>2, <2>3
<1> QED BY <1>2, <1>3, <1>4 DEF Rescheduled

(* What stop() leaves armed is within it as well. *)
LEMMA AfterDropsType ==
  ASSUME limit \in Limits, NEW k \in 0..MaxLinks + 1 PROVE
    AfterDrops(k) \in {NoRetry} \cup (IF limit = 0 THEN 0..Cap ELSE 0..limit - 1)
<1>1. limit \in Nat /\ Cap \in Nat /\ MaxLinks \in Nat /\ k \in Nat
  BY NumbersAssumption
<1> QED BY <1>1 DEF AfterDrops, Counted

-----------------------------------------------------------------------------
(* Every handler keeps the invariant. *)

LEMMA InitInv == Init => ChaseIsOrderly
<1> SUFFICES ASSUME Init PROVE ChaseIsOrderly
  OBVIOUS
<1>1. WorldType /\ NetType /\ RetryType
  BY DEF Init, WorldType, NetType, RetryType, Statuses, Address
<1> QED BY <1>1, Types DEF Init, ChaseIsOrderly, StatusTellsLink, NoChaseWhileUp

(* The handlers of discovery and of the lookups it starts. *)
LEMMA DiscoveryKeeps ==
  ASSUME ChaseIsOrderly, Discovers \/ LookupResumes
  PROVE  ChaseIsOrderly'
<1> USE DEF ChaseIsOrderly, StatusTellsLink, NoChaseWhileUp, world, record, net, Hears
<1>0. WorldType /\ NetType /\ RetryType
  BY Types
<1>1. ASSUME NEW s \in Service, ServiceUp(s) PROVE ChaseIsOrderly'
  <2>1. UNCHANGED <<node, world, trusted, address, retry, pending, up>>
    BY <1>1 DEF ServiceUp
  <2>2. /\ dialing' \in Address \cup {NoDial} /\ status' \in Statuses
        /\ up => status' = status
        /\ status' = "connected" => status = "connected"
    BY <1>0, <1>1, ConnectStep DEF ServiceUp, AutoConnect, NetType
  <2>3. seen' \subseteq Peer /\ lookups' \subseteq [address : Peer, trusted : BOOLEAN]
    BY <1>0, <1>1 DEF ServiceUp, StartLookup, WorldType
  <2>4. (WorldType /\ NetType /\ RetryType)'
    BY <1>0, <2>1, <2>2, <2>3 DEF WorldType, NetType, RetryType
  <2> QED BY <2>1, <2>2, <2>4, Types
<1>2. ASSUME NEW s \in Service, ServiceDown(s) PROVE ChaseIsOrderly'
  <2>1. /\ UNCHANGED <<node, world, lookups, trusted, address, net>>
        /\ seen' \subseteq Peer /\ retry' = NoRetry
        /\ status' \in Statuses /\ (status' = "connected" <=> status = "connected")
    BY <1>0, <1>2 DEF ServiceDown, OnLost, Cancel, WorldType, NetType, Statuses
  <2>2. (WorldType /\ NetType /\ RetryType)'
    BY <1>0, <2>1 DEF WorldType, NetType, RetryType
  <2> QED BY <2>1, <2>2, Types
<1>3. ASSUME NEW s \in Service, Moves(s) PROVE ChaseIsOrderly'
  <2>1. (WorldType /\ NetType /\ RetryType)'
    BY <1>0, <1>3 DEF Moves, WorldType, NetType, RetryType
  <2> QED BY <1>3, <2>1, Types DEF Moves
<1>4. ASSUME NEW found \in lookups, FoundResumes(found) PROVE ChaseIsOrderly'
  <2>1. /\ UNCHANGED <<node, world, seen, retry, net>>
        /\ lookups' \subseteq [address : Peer, trusted : BOOLEAN]
        /\ address' \in Address /\ trusted' \in BOOLEAN
        /\ status' \in Statuses /\ (status' = "connected" <=> status = "connected")
    BY <1>0, <1>4 DEF FoundResumes, KnownStatus, WorldType, NetType, Statuses, Address
  <2>2. (WorldType /\ NetType /\ RetryType)'
    BY <1>0, <2>1 DEF WorldType, NetType, RetryType
  <2> QED BY <2>1, <2>2, Types
<1> QED BY <1>1, <1>2, <1>3, <1>4 DEF Discovers, LookupResumes

(* The reconnect timer. *)
LEMMA AttemptKeeps ==
  ASSUME ChaseIsOrderly, AttemptReconnect PROVE ChaseIsOrderly'
<1> USE DEF ChaseIsOrderly, StatusTellsLink, NoChaseWhileUp, world, record, net, Hears
<1>0. WorldType /\ NetType /\ RetryType
  BY Types
<1>1. up' = up /\ UNCHANGED <<node, world, seen, lookups, trusted, address, pending>>
  BY DEF AttemptReconnect
<1>2. CASE StillWanted /\ ~up
  <2>1. Connect /\ retry' = Rescheduled
    BY <1>2 DEF AttemptReconnect
  <2>2. /\ dialing' \in Address \cup {NoDial} /\ status' \in Statuses
        /\ status' = "connected" => status = "connected"
    BY <1>0, <2>1, ConnectStep
  <2>3. RetryType'
    BY <1>0, <1>1, <2>1, RescheduledType DEF RetryType, WorldType
  <2>4. (WorldType /\ NetType)'
    BY <1>0, <1>1, <2>2 DEF WorldType, NetType
  <2> QED BY <1>1, <1>2, <2>2, <2>3, <2>4, Types
<1>3. CASE ~(StillWanted /\ ~up)
  <2>1. retry' = NoRetry /\ UNCHANGED <<dialing, status>>
    BY <1>3 DEF AttemptReconnect, Cancel
  <2>2. (WorldType /\ NetType /\ RetryType)'
    BY <1>0, <1>1, <2>1 DEF WorldType, NetType, RetryType
  <2> QED BY <1>1, <2>1, <2>2, Types
<1> QED BY <1>2, <1>3

(* device:disconnected of a link that was not, or is no more, in the table. *)
LEMMA DisconnectedKeeps ==
  ASSUME ChaseIsOrderly, Disconnected, up' = FALSE, pending' \subseteq Address,
         UNCHANGED <<node, world, seen, lookups, trusted, address, dialing>>
  PROVE  ChaseIsOrderly'
<1> USE DEF ChaseIsOrderly, StatusTellsLink, NoChaseWhileUp, world, Hears
<1>0. WorldType /\ NetType /\ RetryType
  BY Types
<1>1. status' \in Statuses /\ (node # "stopped" => status' # "connected")
  BY <1>0 DEF Disconnected, SetStatus, NetType, Statuses
<1>2. RetryType'
  BY <1>0, RescheduledType DEF Disconnected, RetryType, WorldType
<1>3. (WorldType /\ NetType)'
  BY <1>0, <1>1 DEF WorldType, NetType
<1> QED BY <1>1, <1>2, <1>3, Types

(* Dials, handshakes, heartbeats and drops. *)
LEMMA NetKeeps ==
  ASSUME ChaseIsOrderly,
         \/ DialOpens \/ DialFails \/ Opens \/ Heartbeat \/ Drops
         \/ \E a \in Address : HandshakeDone(a)
  PROVE  ChaseIsOrderly'
<1> USE DEF ChaseIsOrderly, StatusTellsLink, NoChaseWhileUp, world, record, net, Hears
<1>0. WorldType /\ NetType /\ RetryType
  BY Types
<1>1. CASE DialOpens \/ DialFails \/ Opens
  <2>1. /\ UNCHANGED <<node, world, seen, lookups, record, retry, up>>
        /\ dialing' \in Address \cup {NoDial} /\ pending' \subseteq Address
    BY <1>0, <1>1 DEF DialOpens, DialFails, Opens, OpensUnasked, NetType, WorldType, Address
  <2>2. (WorldType /\ NetType /\ RetryType)'
    BY <1>0, <2>1 DEF WorldType, NetType, RetryType
  <2> QED BY <2>1, <2>2, Types
<1>2. CASE Heartbeat
  <2>1. /\ UNCHANGED <<node, world, seen, lookups, trusted, address, retry, net>>
        /\ status' \in Statuses /\ up
        /\ node # "stopped" => status' = "connected"
    BY <1>0, <1>2 DEF Heartbeat, SetStatus, NetType, Statuses
  <2>2. (WorldType /\ NetType /\ RetryType)'
    BY <1>0, <2>1 DEF WorldType, NetType, RetryType
  <2> QED BY <2>1, <2>2, Types
<1>3. CASE LinkDrops
  BY <1>0, <1>3, DisconnectedKeeps DEF LinkDrops, NetType
<1>4. ASSUME NEW a \in Address, HandshakeFails(a) PROVE ChaseIsOrderly'
  <2>1. /\ pending' \subseteq Address /\ up' = up
        /\ UNCHANGED <<node, world, seen, lookups, trusted, address, dialing>>
    BY <1>0, <1>4 DEF HandshakeFails, NetType
  <2>2. CASE UNCHANGED <<status, retry>>
    <3>1. (WorldType /\ NetType /\ RetryType)'
      BY <1>0, <2>1, <2>2 DEF WorldType, NetType, RetryType
    <3> QED BY <2>1, <2>2, <3>1, Types
  <2>3. CASE ~up /\ Disconnected
    BY <1>0, <2>1, <2>3, DisconnectedKeeps DEF NetType
  <2> QED BY <1>4, <2>2, <2>3 DEF HandshakeFails
<1>5. ASSUME NEW a \in Address, HandshakeDone(a) PROVE ChaseIsOrderly'
  <2>1. /\ pending' \subseteq Address /\ up' = TRUE
        /\ UNCHANGED <<node, world, seen, lookups, dialing>>
    BY <1>0, <1>5 DEF HandshakeDone, NetType
  <2>2. CASE node # "stopped"
    <3>1. /\ status' = "connected" /\ trusted' = TRUE /\ address' \in Address
          /\ retry' = NoRetry
      BY <1>0, <1>5, <2>2 DEF HandshakeDone, OnConnected, Cancel, NetType
    <3>2. (WorldType /\ NetType /\ RetryType)'
      BY <1>0, <2>1, <3>1 DEF WorldType, NetType, RetryType, Statuses
    <3> QED BY <2>1, <3>1, <3>2, Types
  <2>3. CASE node = "stopped"
    <3>1. UNCHANGED <<record, retry>>
      BY <1>5, <2>3 DEF HandshakeDone
    <3>2. (WorldType /\ NetType /\ RetryType)'
      BY <1>0, <2>1, <3>1 DEF WorldType, NetType, RetryType
    <3> QED BY <2>1, <2>3, <3>2, Types
  <2> QED BY <2>2, <2>3
<1> QED BY <1>1, <1>2, <1>3, <1>4, <1>5 DEF Drops

(* The turns of stop(), and the world around the node. *)
LEMMA StopKeeps ==
  ASSUME ChaseIsOrderly,
         StopDiscovery \/ StopTransport \/ RemoveAll \/ Trusts \/ Revokes
  PROVE  ChaseIsOrderly'
<1> USE DEF ChaseIsOrderly, StatusTellsLink, NoChaseWhileUp, world, record, net, Hears
<1>0. WorldType /\ NetType /\ RetryType
  BY Types
<1>1. CASE StopTransport
  <2>1. /\ up' = FALSE /\ pending' = {} /\ node = "closing" /\ node' = "closed"
        /\ UNCHANGED <<world, seen, lookups, trusted, address, dialing>>
    BY <1>1 DEF StopTransport
  <2>2. PICK k \in 0..MaxLinks + 1 :
          /\ up => k \in 1..1 + Cardinality(pending)
          /\ status' = IF k = 0 THEN status ELSE SetStatus("unreachable")
          /\ retry' = AfterDrops(k)
    BY <1>1 DEF StopTransport
  <2>3. status' \in Statuses /\ status' # "connected"
    <3>1. CASE k = 0
      <4>1. ~up
        BY <2>2, <3>1
      <4> QED BY <1>0, <2>1, <2>2, <3>1, <4>1 DEF NetType
    <3>2. CASE k # 0
      BY <1>0, <2>1, <2>2, <3>2 DEF SetStatus, NetType, Statuses
    <3> QED BY <3>1, <3>2
  <2>4. RetryType'
    BY <1>0, <2>1, <2>2, AfterDropsType DEF RetryType, WorldType
  <2>5. (WorldType /\ NetType)'
    BY <1>0, <2>1, <2>3 DEF WorldType, NetType
  <2> QED BY <2>1, <2>3, <2>4, <2>5, Types
<1>2. CASE StopDiscovery
  <2>1. (WorldType /\ NetType /\ RetryType)'
    BY <1>0, <1>2 DEF StopDiscovery, ForgetServices, WorldType, NetType, RetryType
  <2> QED BY <1>2, <2>1, Types DEF StopDiscovery
<1>3. CASE RemoveAll
  <2>1. (WorldType /\ NetType /\ RetryType)'
    BY <1>0, <1>3 DEF RemoveAll, WorldType, NetType, RetryType
  <2> QED BY <1>3, <2>1, Types DEF RemoveAll
<1>4. CASE Trusts \/ Revokes
  <2>1. UNCHANGED <<node, home, limit, seen, lookups, record, retry, net>> /\ trust' \in BOOLEAN
    BY <1>4 DEF Trusts, Revokes
  <2>2. (WorldType /\ NetType /\ RetryType)'
    BY <1>0, <2>1 DEF WorldType, NetType, RetryType
  <2> QED BY <2>1, <2>2, Types
<1> QED BY <1>1, <1>2, <1>3, <1>4

LEMMA NextInv == ChaseIsOrderly /\ [Next]_vars => ChaseIsOrderly'
<1> SUFFICES ASSUME ChaseIsOrderly, [Next]_vars PROVE ChaseIsOrderly'
  OBVIOUS
<1>1. CASE UNCHANGED vars
  BY <1>1 DEF vars, world, record, net, ChaseIsOrderly, TypeOK, StatusTellsLink,
              NoChaseWhileUp, Hears
<1> QED BY <1>1, DiscoveryKeeps, AttemptKeeps, NetKeeps, StopKeeps DEF Next

-----------------------------------------------------------------------------
(* Registry, connection manager and transport agree in every state, from the
   start of a node to the end of its stop(): the registry shows the device as
   connected exactly while the transport has its link, and a device that is
   connected is not chased. *)
THEOREM Orderly == Spec => []ChaseIsOrderly
BY InitInv, NextInv, PTL DEF Spec

(* When a link of a trusted device breaks under a running node, the very turn
   arms a retry, whatever was lost, found or looked up meanwhile. *)
LEMMA DropArms ==
  ASSUME ChaseIsOrderly, [Next]_vars, up, ~up', node' = "running", Enabled, trusted
  PROVE  retry' # NoRetry
<1> USE DEF world, record, net
<1>1. LinkDrops
  <2>1. ~StopTransport
    BY DEF StopTransport
  <2>2. \A a \in Address : ~HandshakeFails(a) /\ ~HandshakeDone(a)
    BY DEF HandshakeFails, HandshakeDone
  <2>3. ~(UNCHANGED vars) /\ ~Discovers /\ ~LookupResumes /\ ~AttemptReconnect /\ ~DialOpens
        /\ ~DialFails /\ ~Opens /\ ~Heartbeat /\ ~StopDiscovery /\ ~RemoveAll
        /\ ~Trusts /\ ~Revokes
    BY DEF vars, Discovers, ServiceUp, ServiceDown, Moves, LookupResumes, FoundResumes,
           AttemptReconnect, DialOpens, DialFails, Opens, OpensUnasked, Heartbeat,
           StopDiscovery, RemoveAll, Trusts, Revokes
  <2> QED BY <2>1, <2>2, <2>3 DEF Next, Drops
<1>2. Hears /\ status = "connected" /\ retry = NoRetry
  BY <1>1 DEF LinkDrops, ChaseIsOrderly, StatusTellsLink, NoChaseWhileUp, Hears
<1>3. status' = "unreachable" /\ retry' = Rescheduled
  BY <1>1, <1>2 DEF LinkDrops, Disconnected, SetStatus
<1>4. limit \in Nat /\ Cap \in Nat
  BY NumbersAssumption DEF ChaseIsOrderly, TypeOK
<1>5. ~GivesUp(retry + 1) /\ Counted(retry + 1) = 0
  BY <1>2, <1>4 DEF GivesUp, Counted, NoRetry
<1> QED BY <1>3, <1>5 DEF Rescheduled, NoRetry

(* No drop of a trusted device goes unnoticed by the connection manager. *)
THEOREM Chased == Spec => DropIsChased
<1>1. ChaseIsOrderly /\ [Next]_vars =>
        [up /\ ~up' /\ node' = "running" /\ Enabled /\ trusted => retry' # NoRetry]_vars
  BY DropArms
<1> QED BY <1>1, Orderly, PTL DEF Spec, DropIsChased
=============================================================================
