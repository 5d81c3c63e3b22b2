----------------------------- MODULE Heartbeat -----------------------------
(***************************************************************************)
(* The heartbeat of one connected end (src/network/connection.ts): a PING  *)
(* every Interval, a timer of Timeout for its PONG, and after MaxMissed    *)
(* misses in a row the peer is declared unreachable.  Time is discrete: a  *)
(* tick passes only when no timer is due, and any number of PONGs may      *)
(* arrive between two ticks.  The socket is ordered, so the PONGs come in  *)
(* the order of the PINGs; they may be late, or never come.                *)
(***************************************************************************)
EXTENDS Naturals, Sequences, FiniteSets

CONSTANTS Interval,   \* heartbeat.intervalMs, in ticks
          Timeout,    \* heartbeat.timeoutMs
          MaxMissed,  \* heartbeat.maxMissed
          MaxPing     \* bound: PINGs sent

(* What config.ts validates: it does not compare the two durations. *)
ASSUME ConfigAssumption == {Interval, Timeout, MaxMissed} \subseteq Nat \ {0}
ASSUME MaxPingAssumption == MaxPing \in Nat

VARIABLES
  state,      \* "connected", "closed", or "unreachable" and closed for that
  untilPing,  \* the interval timer
  pingSeq, pendingPingSeq,   \* pendingPingSeq 0: undefined
  missed,
  timers,     \* armed pong timers: [ping, left]
  waits,      \* waits[i]: ticks since the i-th oldest PING without a PONG
  quiet,      \* history: ticks since the last PONG that counted
  alarms,     \* history: calls of onUnreachable
  late        \* history: some PING has waited for Timeout

heartbeatVars ==
  <<state, untilPing, pingSeq, pendingPingSeq, missed, timers, waits,
    quiet, alarms, late>>

(* With Timeout < Interval at most one pong timer is armed, and none when the
   end is closed. *)
HeartbeatTypeOK ==
  /\ state \in {"connected", "closed", "unreachable"}
  /\ untilPing \in 0..Interval
  /\ pingSeq \in 0..MaxPing
  /\ pendingPingSeq \in 0..pingSeq
  /\ missed \in 0..MaxMissed
  /\ timers \subseteq [ping : 1..MaxPing, left : 0..Timeout]
  /\ waits \in Seq(Nat) /\ Len(waits) <= pingSeq
  /\ quiet \in Nat
  /\ alarms \in Nat
  /\ late \in BOOLEAN
  /\ Timeout < Interval => Cardinality(timers) <= 1
  /\ Timeout < Interval /\ state # "connected" => timers = {}

(* maybeConnected starts the heartbeat. *)
SwappedPeriod == Timeout                            \* mutant: the wrong duration
Period == Interval

HeartbeatInit ==
  /\ state = "connected"
  /\ untilPing = Period
  /\ pingSeq = 0 /\ pendingPingSeq = 0
  /\ missed = 0
  /\ timers = {}
  /\ waits = <<>>
  /\ quiet = 0
  /\ alarms = 0
  /\ late = FALSE

-----------------------------------------------------------------------------

(* clearTimeout(this.pingTimeoutTimer): the timer armed last, if it has not
   fired. *)
OtherTimers == {t \in timers : t.ping # pingSeq}

(* close(), of the timers left: once. *)
CloseAs(how, left) ==
  IF state = "connected"
  THEN state' = how /\ timers' = left \cap OtherTimers
  ELSE timers' = left /\ UNCHANGED state

SendPing ==
  /\ state = "connected"
  /\ untilPing = 0
  /\ pingSeq < MaxPing
  /\ untilPing' = Period
  /\ pingSeq' = pingSeq + 1
  /\ pendingPingSeq' = pingSeq + 1
  /\ timers' = timers \cup {[ping |-> pingSeq + 1, left |-> Timeout]}
  /\ waits' = Append(waits, 0)
  /\ UNCHANGED <<state, missed, quiet, alarms, late>>

(* onPong: only the PONG of the PING sent last counts. *)
Oldest == pingSeq - Len(waits) + 1
Expected == Oldest = pendingPingSeq

ReceivePong ==
  /\ waits # <<>>
  /\ waits' = Tail(waits)
  /\ IF state = "connected" /\ Expected
     THEN /\ pendingPingSeq' = 0
          /\ missed' = 0
          /\ timers' = OtherTimers
          /\ quiet' = 0
     ELSE UNCHANGED <<pendingPingSeq, missed, timers, quiet>>
  /\ UNCHANGED <<state, untilPing, pingSeq, alarms, late>>

(* onPingTimeout(this.pingSeq), by a timer that is due: the argument is read
   when the timer fires. *)
OneTooMany == missed >= MaxMissed                   \* mutant: off by one
LastStraw == missed + 1 >= MaxMissed

PongTimeout ==
  \E t \in timers :
    /\ t.left = 0
    /\ IF pingSeq # pendingPingSeq
       THEN /\ timers' = timers \ {t}
            /\ UNCHANGED <<state, pendingPingSeq, missed, alarms>>
       ELSE /\ pendingPingSeq' = 0
            /\ missed' = IF missed < MaxMissed THEN missed + 1 ELSE missed
            /\ IF LastStraw
               THEN /\ alarms' = alarms + 1
                    /\ CloseAs("unreachable", timers \ {t})
               ELSE /\ timers' = timers \ {t}
                    /\ UNCHANGED <<state, alarms>>
    /\ UNCHANGED <<untilPing, pingSeq, waits, quiet, late>>

(* The end is closed for another reason. *)
Close ==
  /\ state = "connected"
  /\ CloseAs("closed", timers)
  /\ UNCHANGED <<untilPing, pingSeq, pendingPingSeq, missed, waits, quiet,
                 alarms, late>>

Tick ==
  /\ \A t \in timers : t.left > 0
  /\ state = "connected" => untilPing > 0
  /\ state # "connected" => timers # {}
  /\ untilPing' = IF state = "connected" THEN untilPing - 1 ELSE untilPing
  /\ timers' = {[t EXCEPT !.left = @ - 1] : t \in timers}
  /\ waits' = [i \in DOMAIN waits |-> IF waits[i] < Timeout THEN waits[i] + 1 ELSE waits[i]]
  /\ quiet' = IF state = "connected" THEN quiet + 1 ELSE quiet
  /\ late' = (late \/ \E i \in DOMAIN waits : waits'[i] = Timeout)
  /\ UNCHANGED <<state, pingSeq, pendingPingSeq, missed, alarms>>

HeartbeatNext == SendPing \/ ReceivePong \/ PongTimeout \/ Close \/ Tick

HeartbeatSpec == HeartbeatInit /\ [][HeartbeatNext]_heartbeatVars

-----------------------------------------------------------------------------
(* Properties. *)

(* A miss is counted only for a PING that has waited the whole Timeout
   (types.ts:36, "Max time to wait for a PONG before counting a miss").  It
   needs Timeout < Interval: otherwise the timer of one PING, reading the
   sequence number as it fires, counts a miss of the next. *)
Waited == LET i == pendingPingSeq - Oldest + 1
          IN  i \in DOMAIN waits => waits[i] >= Timeout
HonestMisses == [][pendingPingSeq' = 0 /\ missed' > missed => Waited]_heartbeatVars

(* What the same line promises the peer: whose every PONG comes within Timeout
   is not declared unreachable.  With Timeout > Interval it is. *)
PunctualPeerKept == state = "unreachable" => late

(* A dead peer is noticed: an end stays connected without a PONG that counts
   for at most MaxMissed intervals and one timeout. *)
SilenceIsBounded ==
  state = "connected" => quiet <= MaxMissed * Interval + Timeout

(* onUnreachable is called once at most, and only by the end it closes: a link
   closed for another reason raises no alarm afterwards. *)
OneAlarm == alarms = IF state = "unreachable" THEN 1 ELSE 0

(* The alarm is right: raised once, for misses that were each waited for. *)
AlarmIsHonest == [](HeartbeatTypeOK /\ OneAlarm) /\ HonestMisses
=============================================================================
