--------------------------- MODULE LinkTableProofs ---------------------------
(***************************************************************************)
(* What LinkTable keeps, for any number of links, whoever dials them.      *)
(*                                                                         *)
(* OneLink needs two strengthenings.  Only a link whose WebSocket has      *)
(* opened has ends that are up or down, so what stop() closes is all there *)
(* is; and a link that is up has been agreed to, so its end knows its peer *)
(* and tells of its going down.                                            *)
(***************************************************************************)
EXTENDS LinkTable, TLAPS

Events == Seq({"connected", "disconnected"})

(* TypeOK in three parts. *)
DialType ==
  /\ dial \in [Link -> {"unused", "dialing", "open", "failed"}]
  /\ expected \in [Link -> BOOLEAN]
  /\ dialing \in [Device -> BOOLEAN]
  /\ \A n \in Device : dialing[n] =>
       \E l \in Link : Dialer[l] = n /\ dial[l] = "dialing" /\ expected[l]

LinkType ==
  /\ consent \in [Link -> [Device -> {"undecided", "yes", "no"}]]
  /\ phase \in [Link -> [Device -> {"opening", "up", "down"}]]
  /\ table \in [Device -> Link \cup {NoLink}]
  /\ stopped \in [Device -> BOOLEAN]

NewsType ==
  /\ news \in [Device -> Events]
  /\ superseded \subseteq [at : Device, lost : Link, kept : Link]

OpenedFirst ==
  \A l \in Link, n \in Device : phase[l][n] # "opening" => dial[l] = "open"

UpIsAgreed ==
  \A l \in Link, n \in Device : phase[l][n] = "up" =>
    \A m \in Device : consent[l][m] = "yes"

(* The inductive invariant. *)
LinkInv == DialType /\ LinkType /\ NewsType /\ OneLink /\ OpenedFirst /\ UpIsAgreed

LEMMA InvTypes == LinkInv => TypeOK
BY DEF LinkInv, DialType, LinkType, NewsType, TypeOK, Events

LEMMA DeviceFacts ==
  /\ Smaller \in Device /\ Larger \in Device
  /\ \A n \in Device : Other(n) \in Device /\ Other(n) # n
  /\ \A l \in Link : Dialer[l] \in Device
BY DevicesAssumption, DialerAssumption DEF Device, Other

(* What a device tells its bus in one step. *)
LEMMA NewsFacts ==
  /\ Silence \in [Device -> Events]
  /\ \A n \in Device : Silence[n] = <<>>
  /\ \A n \in Device, e \in Events :
       /\ [Silence EXCEPT ![n] = e] \in [Device -> Events]
       /\ [Silence EXCEPT ![n] = e][n] = e
       /\ \A m \in Device \ {n} : [Silence EXCEPT ![n] = e][m] = <<>>
<1>1. <<>> \in Events
  BY DEF Events
<1> QED BY <1>1 DEF Silence

LEMMA EventFacts ==
  /\ <<>> \in Events
  /\ <<"connected">> \in Events /\ <<"connected">> # <<>>
  /\ <<"connected">>[Len(<<"connected">>)] = "connected"
  /\ <<"disconnected">> \in Events /\ <<"disconnected">> # <<>>
  /\ <<"disconnected">>[Len(<<"disconnected">>)] = "disconnected"
  /\ <<"disconnected", "connected">> \in Events
  /\ <<"disconnected", "connected">> # <<>>
  /\ <<"disconnected", "connected">>[Len(<<"disconnected", "connected">>)] = "connected"
BY DEF Events

(* NewsTellsTable, of one step. *)
Told(n) ==
  IF news'[n] = <<>>
  THEN (table[n] = NoLink) <=> (table'[n] = NoLink)
  ELSE (news'[n][Len(news'[n])] = "connected") <=> (table'[n] # NoLink)

(* KeepsContracts, of one step. *)
Keeps(l) == Contract(l)!LinkNext \/ UNCHANGED <<consent[l], phase[l]>>

(* A step of one link's phase or consent, as the contract has it. *)
LEMMA ContractSteps ==
  ASSUME NEW l \in Link, NEW n \in Device
  PROVE  /\ /\ phase[l][n] # "down" /\ consent'[l] = consent[l]
            /\ phase'[l] = [phase[l] EXCEPT ![n] = "down"]
            => Keeps(l)
         /\ /\ phase[l][n] = "opening" /\ \A m \in Device : consent[l][m] = "yes"
            /\ consent'[l] = consent[l]
            /\ phase'[l] = [phase[l] EXCEPT ![n] = "up"]
            => Keeps(l)
         /\ /\ phase[l][n] = "opening" /\ consent[l][n] = "undecided"
            /\ phase'[l] = phase[l]
            /\ \E c \in {"yes", "no"} : consent'[l] = [consent[l] EXCEPT ![n] = c]
            => Keeps(l)
<1>1. ASSUME phase[l][n] # "down", consent'[l] = consent[l],
             phase'[l] = [phase[l] EXCEPT ![n] = "down"]
      PROVE  Keeps(l)
  BY <1>1 DEF Keeps, Contract!LinkNext, Contract!LinkStep, Contract!GoDown
<1>2. ASSUME phase[l][n] = "opening", \A m \in Device : consent[l][m] = "yes",
             consent'[l] = consent[l], phase'[l] = [phase[l] EXCEPT ![n] = "up"]
      PROVE  Keeps(l)
  BY <1>2 DEF Keeps, Contract!LinkNext, Contract!LinkStep, Contract!ComeUp
<1>3. ASSUME phase[l][n] = "opening", consent[l][n] = "undecided", phase'[l] = phase[l],
             NEW c \in {"yes", "no"}, consent'[l] = [consent[l] EXCEPT ![n] = c]
      PROVE  Keeps(l)
  BY <1>3 DEF Keeps, Contract!LinkNext, Contract!LinkStep, Contract!Decide
<1> QED BY <1>1, <1>2, <1>3

-----------------------------------------------------------------------------
(* Steps. *)

(* What each step keeps, says and does to each link. *)
StepSound ==
  /\ LinkInv'
  /\ \A n \in Device : Told(n)
  /\ \A l \in Link : Keeps(l)

LEMMA InitSound == Init => LinkInv
<1> SUFFICES ASSUME Init PROVE LinkInv
  OBVIOUS
<1>1. DialType /\ LinkType
  BY DEF Init, DialType, LinkType
<1>2. NewsType
  BY NewsFacts DEF Init, NewsType
<1>3. OneLink /\ OpenedFirst /\ UpIsAgreed
  BY NoLinkAssumption DEF Init, OneLink, OpenedFirst, UpIsAgreed
<1> QED BY <1>1, <1>2, <1>3 DEF LinkInv

(* A dial does not touch the links that are there. *)
LEMMA DialSound ==
  ASSUME LinkInv, NEW l \in Link, Dial(l) \/ DialOpens(l) \/ DialFails(l)
  PROVE  StepSound
<1>0. DialType /\ LinkType /\ NewsType /\ OneLink /\ OpenedFirst /\ UpIsAgreed /\ Dialer[l] \in Device
  BY DeviceFacts DEF LinkInv
<1>1. news' = Silence /\ UNCHANGED <<consent, phase, table, stopped, superseded>>
  BY DEF Dial, DialOpens, DialFails
<1>2. DialType'
  <2>1. CASE Dial(l)
    <3>1. dial[l] = "unused" /\ dial' = [dial EXCEPT ![l] = "dialing"]
      BY <2>1 DEF Dial
    <3>2. \/ /\ expected' = [expected EXCEPT ![l] = TRUE]
             /\ dialing' = [dialing EXCEPT ![Dialer[l]] = TRUE]
          \/ UNCHANGED <<expected, dialing>>
      BY <2>1 DEF Dial
    <3>3. ASSUME NEW n \in Device, dialing'[n]
          PROVE  \E k \in Link : Dialer[k] = n /\ dial'[k] = "dialing" /\ expected'[k]
      <4>1. CASE dialing[n]
        <5>1. PICK k \in Link : Dialer[k] = n /\ dial[k] = "dialing" /\ expected[k]
          BY <1>0, <4>1 DEF DialType
        <5>2. k # l
          BY <3>1, <5>1
        <5> QED BY <1>0, <3>1, <3>2, <5>1, <5>2 DEF DialType
      <4>2. CASE ~dialing[n]
        <5>1. n = Dialer[l] /\ expected' = [expected EXCEPT ![l] = TRUE]
          BY <1>0, <3>2, <3>3, <4>2 DEF DialType
        <5>2. dial'[l] = "dialing" /\ expected'[l]
          BY <1>0, <3>1, <5>1 DEF DialType
        <5> QED BY <5>1, <5>2
      <4> QED BY <4>1, <4>2
    <3> QED BY <1>0, <3>1, <3>2, <3>3 DEF DialType
  <2>2. CASE DialOpens(l) \/ DialFails(l)
    <3>1. /\ \E d \in {"open", "failed"} : dial' = [dial EXCEPT ![l] = d]
          /\ expected' = expected
          /\ dialing' = [dialing EXCEPT ![Dialer[l]] = @ /\ ~expected[l]]
      BY <2>2 DEF DialOpens, DialFails, CleanupDial
    <3>2. ASSUME NEW n \in Device, dialing'[n]
          PROVE  \E k \in Link : Dialer[k] = n /\ dial'[k] = "dialing" /\ expected'[k]
      <4>1. dialing[n] /\ (n = Dialer[l] => ~expected[l])
        BY <1>0, <3>1, <3>2 DEF DialType
      <4>2. PICK k \in Link : Dialer[k] = n /\ dial[k] = "dialing" /\ expected[k]
        BY <1>0, <4>1 DEF DialType
      <4>3. k # l
        BY <4>1, <4>2
      <4> QED BY <1>0, <3>1, <4>2, <4>3 DEF DialType
    <3>3. dialing' \in [Device -> BOOLEAN]
      BY <1>0, <3>1 DEF DialType
    <3> QED BY <1>0, <3>1, <3>2, <3>3 DEF DialType
  <2> QED BY <2>1, <2>2
<1>3. (LinkType /\ NewsType /\ OneLink /\ UpIsAgreed)'
  BY <1>0, <1>1, NewsFacts DEF LinkType, NewsType, OneLink, UpIsAgreed
<1>4. OpenedFirst'
  <2>1. dial[l] # "open" /\ \A k \in Link : k # l => dial'[k] = dial[k]
    BY <1>0 DEF Dial, DialOpens, DialFails, DialType
  <2> QED BY <1>0, <1>1, <2>1 DEF OpenedFirst
<1>5. \A n \in Device : Told(n)
  BY <1>1, NewsFacts DEF Told
<1>6. \A k \in Link : Keeps(k)
  BY <1>1 DEF Keeps
<1> QED BY <1>2, <1>3, <1>4, <1>5, <1>6 DEF StepSound, LinkInv

(* Nor does a step of the links touch the dials, except that an error of the
   WebSocket ends its dial's claim. *)
LEMMA DialTypeKept ==
  ASSUME DialType, UNCHANGED <<dial, expected>>,
         dialing' = dialing \/ \E l \in Link : CleanupDial(l)
  PROVE  DialType'
<1>1. CASE dialing' = dialing
  BY <1>1 DEF DialType
<1>2. ASSUME NEW l \in Link, CleanupDial(l) PROVE DialType'
  <2>1. \A n \in Device : dialing'[n] => dialing[n]
    BY <1>2, DeviceFacts DEF CleanupDial, DialType
  <2>2. dialing' \in [Device -> BOOLEAN]
    BY <1>2, DeviceFacts DEF CleanupDial, DialType
  <2> QED BY <2>1, <2>2 DEF DialType
<1> QED BY <1>1, <1>2

LEMMA DecideSound ==
  ASSUME LinkInv, NEW l \in Link, NEW n \in Device, Decide(l, n)
  PROVE  StepSound
<1>0. DialType /\ LinkType /\ NewsType /\ OneLink /\ OpenedFirst /\ UpIsAgreed
  BY DEF LinkInv
<1>1. /\ news' = Silence /\ phase[l][n] = "opening" /\ consent[l][n] = "undecided"
      /\ UNCHANGED <<dial, expected, phase, dialing, table, stopped, superseded>>
  BY DEF Decide
<1>2. PICK c \in {"yes", "no"} : consent' = [consent EXCEPT ![l][n] = c]
  BY DEF Decide
<1>3. consent' \in [Link -> [Device -> {"undecided", "yes", "no"}]]
  BY <1>0, <1>2 DEF LinkType
<1>4. LinkInv'
  <2>1. UpIsAgreed'
    BY <1>0, <1>1, <1>2 DEF LinkType, UpIsAgreed
  <2> QED BY <1>0, <1>1, <1>3, <2>1, DialTypeKept, NewsFacts
             DEF LinkInv, LinkType, NewsType, OneLink, OpenedFirst
<1>5. \A k \in Link : Keeps(k)
  <2>1. consent'[l] = [consent[l] EXCEPT ![n] = c] /\ phase'[l] = phase[l]
    BY <1>0, <1>1, <1>2 DEF LinkType
  <2>2. Keeps(l)
    BY <1>1, <2>1, ContractSteps
  <2>3. \A k \in Link \ {l} : consent'[k] = consent[k] /\ phase'[k] = phase[k]
    BY <1>0, <1>1, <1>2 DEF LinkType
  <2> QED BY <2>2, <2>3 DEF Keeps
<1>6. \A m \in Device : Told(m)
  BY <1>1, NewsFacts DEF Told
<1> QED BY <1>4, <1>5, <1>6 DEF StepSound

(* A link that both have agreed to comes up, or is closed as a duplicate. *)
LEMMA ComesUpSound ==
  ASSUME LinkInv, NEW l \in Link, NEW n \in Device, ComesUp(l, n)
  PROVE  StepSound
<1>0. DialType /\ LinkType /\ NewsType /\ OneLink /\ OpenedFirst /\ UpIsAgreed
  BY DEF LinkInv
<1>1. /\ dial[l] = "open" /\ phase[l][n] = "opening"
      /\ \A m \in Device : consent[l][m] = "yes"
      /\ UNCHANGED <<dial, expected, consent, dialing, stopped>>
  BY DEF ComesUp, Registers, Supersedes, ClosesDuplicate, Agreed, Live
<1>2. DialType' /\ table[n] # l /\ l # NoLink
  BY <1>0, <1>1, DialTypeKept, NoLinkAssumption DEF OneLink
<1>3. CASE Registers(l, n)
  <2>1. /\ phase' = [phase EXCEPT ![l][n] = "up"] /\ table' = [table EXCEPT ![n] = l]
        /\ news' = [Silence EXCEPT ![n] = <<"connected">>]
        /\ superseded' = superseded /\ table[n] = NoLink
    BY <1>3 DEF Registers
  <2>2. LinkType' /\ NewsType'
    BY <1>0, <1>1, <2>1, NewsFacts, EventFacts DEF LinkType, NewsType
  <2>3. OneLink' /\ OpenedFirst' /\ UpIsAgreed'
    <3>1. \A k \in Link, m \in Device :
            phase'[k][m] = IF k = l /\ m = n THEN "up" ELSE phase[k][m]
      BY <1>0, <2>1 DEF LinkType
    <3>2. \A m \in Device : table'[m] = IF m = n THEN l ELSE table[m]
      BY <1>0, <2>1 DEF LinkType
    <3> QED BY <1>0, <1>1, <2>1, <3>1, <3>2, NoLinkAssumption DEF OneLink, OpenedFirst, UpIsAgreed
  <2>4. \A m \in Device : Told(m)
    BY <1>0, <1>2, <2>1, NewsFacts, EventFacts DEF Told, LinkType
  <2>5. \A k \in Link : Keeps(k)
    <3>1. phase'[l] = [phase[l] EXCEPT ![n] = "up"] /\ consent' = consent
      BY <1>0, <1>1, <2>1 DEF LinkType
    <3>2. Keeps(l)
      BY <1>1, <3>1, ContractSteps
    <3>3. \A k \in Link \ {l} : phase'[k] = phase[k]
      BY <1>0, <2>1 DEF LinkType
    <3> QED BY <3>1, <3>2, <3>3 DEF Keeps
  <2> QED BY <1>2, <2>2, <2>3, <2>4, <2>5 DEF StepSound, LinkInv
<1>4. CASE Supersedes(l, n)
  <2> DEFINE old == table[n]
  <2>1. /\ phase' = Displaces(l, n) /\ table' = [table EXCEPT ![n] = l]
        /\ news' = [Silence EXCEPT ![n] = <<"disconnected", "connected">>]
        /\ superseded' = superseded \cup {[at |-> n, lost |-> old, kept |-> l]}
        /\ old # NoLink
    BY <1>4 DEF Supersedes
  <2>2. old \in Link /\ old # l /\ phase[old][n] = "up"
    BY <1>0, <1>2, <2>1 DEF LinkType, OneLink
  <2>3. phase' = [phase EXCEPT ![l][n] = "up", ![old][n] = "down"]
    BY <2>1 DEF Displaces
  <2> HIDE DEF old
  <2>4. LinkType' /\ NewsType'
    <3>1. phase' \in [Link -> [Device -> {"opening", "up", "down"}]]
      BY <1>0, <2>2, <2>3 DEF LinkType
    <3> QED BY <1>0, <1>1, <2>1, <2>2, <3>1, NewsFacts, EventFacts DEF LinkType, NewsType
  <2>5. OneLink' /\ OpenedFirst' /\ UpIsAgreed'
    <3>1. \A k \in Link, m \in Device :
            phase'[k][m] = IF k = l /\ m = n THEN "up"
                           ELSE IF k = old /\ m = n THEN "down" ELSE phase[k][m]
      BY <1>0, <2>2, <2>3 DEF LinkType
    <3>2. \A m \in Device : table'[m] = IF m = n THEN l ELSE table[m]
      BY <1>0, <2>1 DEF LinkType
    <3>3. \A k \in Link : k # old => phase[k][n] # "up"
      BY <1>0 DEF OneLink, old
    <3> QED BY <1>0, <1>1, <2>2, <3>1, <3>2, <3>3 DEF OneLink, OpenedFirst, UpIsAgreed
  <2>6. \A m \in Device : Told(m)
    BY <1>0, <1>2, <2>1, NewsFacts, EventFacts DEF Told, LinkType
  <2>7. \A k \in Link : Keeps(k)
    <3>1. /\ phase'[l] = [phase[l] EXCEPT ![n] = "up"] /\ consent' = consent
          /\ phase'[old] = [phase[old] EXCEPT ![n] = "down"]
          /\ \A k \in Link \ {l, old} : phase'[k] = phase[k]
      BY <1>0, <1>1, <2>2, <2>3 DEF LinkType
    <3>2. Keeps(l)
      BY <1>1, <3>1, ContractSteps
    <3>3. Keeps(old)
      <4>1. phase[old][n] # "down" /\ consent'[old] = consent[old]
        BY <2>2, <3>1
      <4> QED BY <2>2, <3>1, <4>1, ContractSteps
    <3>4. ASSUME NEW k \in Link \ {l, old} PROVE Keeps(k)
      BY <3>1 DEF Keeps
    <3> QED BY <3>2, <3>3, <3>4
  <2> QED BY <1>2, <2>4, <2>5, <2>6, <2>7 DEF StepSound, LinkInv
<1>5. CASE ClosesDuplicate(l, n)
  <2>1. /\ phase' = [phase EXCEPT ![l][n] = "down"] /\ table' = table
        /\ news' = Silence /\ table[n] # NoLink
        /\ superseded' = superseded \cup {[at |-> n, lost |-> l, kept |-> table[n]]}
    BY <1>5 DEF ClosesDuplicate
  <2>2. LinkType' /\ NewsType'
    BY <1>0, <1>1, <2>1, NewsFacts DEF LinkType, NewsType
  <2>3. OneLink' /\ OpenedFirst' /\ UpIsAgreed'
    <3>1. \A k \in Link, m \in Device :
            phase'[k][m] = IF k = l /\ m = n THEN "down" ELSE phase[k][m]
      BY <1>0, <2>1 DEF LinkType
    <3> QED BY <1>0, <1>1, <2>1, <3>1 DEF OneLink, OpenedFirst, UpIsAgreed
  <2>4. \A m \in Device : Told(m)
    BY <2>1, NewsFacts DEF Told
  <2>5. \A k \in Link : Keeps(k)
    <3>1. /\ phase'[l] = [phase[l] EXCEPT ![n] = "down"] /\ consent' = consent
          /\ \A k \in Link \ {l} : phase'[k] = phase[k]
      BY <1>0, <1>1, <2>1 DEF LinkType
    <3>2. Keeps(l)
      BY <1>1, <3>1, ContractSteps
    <3> QED BY <3>1, <3>2 DEF Keeps
  <2> QED BY <1>2, <2>2, <2>3, <2>4, <2>5 DEF StepSound, LinkInv
<1> QED BY <1>3, <1>4, <1>5 DEF ComesUp

(* A link goes down, of itself or after its other end. *)
LEMMA GoesDownSound ==
  ASSUME LinkInv, NEW l \in Link, NEW n \in Device, Closes(l, n) \/ PeerClosed(l, n)
  PROVE  StepSound
<1>0. DialType /\ LinkType /\ NewsType /\ OneLink /\ OpenedFirst /\ UpIsAgreed
  BY DEF LinkInv
<1>1. /\ dial[l] = "open" /\ phase[l][n] # "down"
      /\ phase' = [phase EXCEPT ![l][n] = "down"]
      /\ table' = [table EXCEPT ![n] = IF @ = l THEN NoLink ELSE @]
      /\ UNCHANGED <<dial, expected, consent, stopped, superseded>>
      /\ dialing' = dialing \/ CleanupDial(l)
  BY DEF Closes, PeerClosed, GoesDown, Live, WithoutEntry
<1>2. PICK known \in BOOLEAN :
        /\ consent[l][n] # "undecided" => known
        /\ news' = [Silence EXCEPT ![n] =
                      IF IsNews(l, n, known) THEN <<"disconnected">> ELSE <<>>]
  BY DEF Closes, PeerClosed, GoesDown
<1>3. DialType' /\ l # NoLink
  BY <1>0, <1>1, DialTypeKept, NoLinkAssumption
<1>4. LinkType' /\ NewsType'
  BY <1>0, <1>1, <1>2, NewsFacts, EventFacts DEF LinkType, NewsType
<1>5. OneLink' /\ OpenedFirst' /\ UpIsAgreed'
  <2>1. \A k \in Link, m \in Device :
          phase'[k][m] = IF k = l /\ m = n THEN "down" ELSE phase[k][m]
    BY <1>0, <1>1 DEF LinkType
  <2>2. \A m \in Device :
          table'[m] = IF m = n /\ table[n] = l THEN NoLink ELSE table[m]
    BY <1>0, <1>1 DEF LinkType
  <2> QED BY <1>0, <1>1, <2>1, <2>2, NoLinkAssumption DEF OneLink, OpenedFirst, UpIsAgreed
<1>6. \A m \in Device : Told(m)
  <2>1. ASSUME NEW m \in Device \ {n} PROVE Told(m)
    BY <1>0, <1>1, <1>2, NewsFacts, EventFacts DEF Told, LinkType
  <2>2. table'[n] = IF table[n] = l THEN NoLink ELSE table[n]
    BY <1>0, <1>1 DEF LinkType
  <2>3. CASE IsNews(l, n, known)
    <3>1. news'[n] = <<"disconnected">> /\ table'[n] = NoLink
      BY <1>2, <2>2, <2>3, NewsFacts, EventFacts DEF IsNews
    <3>2. news'[n] # <<>> /\ news'[n][Len(news'[n])] = "disconnected"
      BY <3>1, EventFacts
    <3> QED BY <2>1, <3>1, <3>2 DEF Told
  <2>4. CASE ~IsNews(l, n, known)
    <3>1. news'[n] = <<>>
      BY <1>2, <2>4, NewsFacts, EventFacts
    <3>2. table[n] = l => known
      BY <1>0, <1>2 DEF OneLink, UpIsAgreed
    <3>3. table'[n] = table[n]
      BY <2>2, <2>4, <3>2 DEF IsNews
    <3> QED BY <2>1, <3>1, <3>3 DEF Told
  <2> QED BY <2>1, <2>3, <2>4
<1>7. \A k \in Link : Keeps(k)
  <2>1. /\ phase'[l] = [phase[l] EXCEPT ![n] = "down"] /\ consent' = consent
        /\ \A k \in Link \ {l} : phase'[k] = phase[k]
    BY <1>0, <1>1 DEF LinkType
  <2>2. Keeps(l)
    BY <1>1, <2>1, ContractSteps
  <2> QED BY <2>1, <2>2 DEF Keeps
<1> QED BY <1>3, <1>4, <1>5, <1>6, <1>7 DEF StepSound, LinkInv

(* A device stops: every link there is goes down at its end. *)
LEMMA StopSound ==
  ASSUME LinkInv, NEW n \in Device, Stop(n)
  PROVE  StepSound
<1>0. DialType /\ LinkType /\ NewsType /\ OneLink /\ OpenedFirst /\ UpIsAgreed
  BY DEF LinkInv
<1>1. /\ stopped' = [stopped EXCEPT ![n] = TRUE]
      /\ phase' = [l \in Link |-> IF dial[l] = "open"
                                  THEN [phase[l] EXCEPT ![n] = "down"] ELSE phase[l]]
      /\ table' = [table EXCEPT ![n] = NoLink]
      /\ UNCHANGED <<dial, expected, consent, dialing, superseded>>
  BY DEF Stop
<1>2. PICK known \in BOOLEAN :
        /\ table[n] # NoLink => known
        /\ news' = [Silence EXCEPT ![n] =
                      IF known /\ \E l \in Link : Live(l, n)
                      THEN <<"disconnected">> ELSE <<>>]
  BY DEF Stop
<1>3. DialType'
  BY <1>0, <1>1, DialTypeKept
<1>4. LinkType' /\ NewsType'
  <2>1. phase' \in [Link -> [Device -> {"opening", "up", "down"}]]
    BY <1>0, <1>1 DEF LinkType
  <2>2. news' \in [Device -> Events]
    BY <1>2, NewsFacts, EventFacts
  <2> QED BY <1>0, <1>1, <2>1, <2>2 DEF LinkType, NewsType
<1>5. OneLink' /\ OpenedFirst' /\ UpIsAgreed'
  <2>1. \A k \in Link, m \in Device :
          phase'[k][m] = IF dial[k] = "open" /\ m = n THEN "down" ELSE phase[k][m]
    BY <1>0, <1>1 DEF LinkType
  <2>2. \A m \in Device : table'[m] = IF m = n THEN NoLink ELSE table[m]
    BY <1>0, <1>1 DEF LinkType
  <2> QED BY <1>0, <1>1, <2>1, <2>2, NoLinkAssumption DEF OneLink, OpenedFirst, UpIsAgreed
<1>6. \A m \in Device : Told(m)
  <2>1. ASSUME NEW m \in Device \ {n} PROVE Told(m)
    BY <1>0, <1>1, <1>2, NewsFacts, EventFacts DEF Told, LinkType
  <2>2. table'[n] = NoLink
    BY <1>0, <1>1 DEF LinkType
  <2>3. table[n] # NoLink => known /\ \E l \in Link : Live(l, n)
    BY <1>0, <1>2 DEF LinkType, OneLink, OpenedFirst, Live
  <2>4. CASE known /\ \E l \in Link : Live(l, n)
    <3>1. news'[n] = <<"disconnected">>
      BY <1>2, <2>4, NewsFacts, EventFacts
    <3>2. news'[n] # <<>> /\ news'[n][Len(news'[n])] = "disconnected"
      BY <3>1, EventFacts
    <3> QED BY <2>1, <2>2, <3>2 DEF Told
  <2>5. CASE ~(known /\ \E l \in Link : Live(l, n))
    <3>1. news'[n] = <<>>
      BY <1>2, <2>5, NewsFacts, EventFacts
    <3> QED BY <2>1, <2>2, <2>3, <2>5, <3>1 DEF Told
  <2> QED BY <2>1, <2>4, <2>5
<1>7. ASSUME NEW k \in Link PROVE Keeps(k)
  <2>1. consent'[k] = consent[k]
    BY <1>1
  <2>2. CASE dial[k] = "open" /\ phase[k][n] # "down"
    <3>1. phase'[k] = [phase[k] EXCEPT ![n] = "down"]
      BY <1>1, <2>2
    <3> QED BY <2>1, <2>2, <3>1, ContractSteps
  <2>3. CASE ~(dial[k] = "open" /\ phase[k][n] # "down")
    <3>1. phase'[k] = phase[k]
      BY <1>0, <1>1, <2>3 DEF LinkType
    <3> QED BY <2>1, <3>1 DEF Keeps
  <2> QED BY <2>2, <2>3
<1> QED BY <1>3, <1>4, <1>5, <1>6, <1>7 DEF StepSound, LinkInv

LEMMA StepsSound == LinkInv /\ Next => StepSound
BY DialSound, DecideSound, ComesUpSound, GoesDownSound, StopSound DEF Next

LEMMA StutterKeeps == LinkInv /\ UNCHANGED vars => LinkInv'
BY DEF vars, LinkInv, DialType, LinkType, NewsType, OneLink, OpenedFirst, UpIsAgreed

(* Types, one link per device, and what it rests on. *)
LEMMA Invariant == Spec => []LinkInv
<1>1. LinkInv /\ [Next]_vars => LinkInv'
  BY StepsSound, StutterKeeps DEF StepSound
<1> QED BY InitSound, <1>1, PTL DEF Spec

-----------------------------------------------------------------------------
(* However many links the two devices dial, and in whatever order they come
   up at each end, a link is up at a device exactly when it is the one in its
   table; and after each step the last event on the bus says whether there is
   one (transport.ts:207-257, and stop()). *)
THEOREM OneLinkTold == Spec => OneLinkAndTold
<1>1. LinkInv => TypeOK /\ OneLink
  BY InvTypes DEF LinkInv
<1>2. LinkInv /\ [Next]_vars => [\A n \in Device : Told(n)]_vars
  BY StepsSound DEF StepSound
<1>3. Spec => [](TypeOK /\ OneLink)
  BY Invariant, <1>1, PTL
<1>4. Spec => [][\A n \in Device : Told(n)]_vars
  BY Invariant, <1>2, PTL DEF Spec
<1> QED BY <1>3, <1>4 DEF OneLinkAndTold, NewsTellsTable, Told

(* The tables close links, refuse them and outlive them, and every link still
   does what LinkContract says of it, each in its own frame: Spec implements
   Contract(l)!LinkSpec for each l. *)
THEOREM ContractsKept == Spec => KeepsContracts
<1>1. Init => \A l \in Link : Contract(l)!LinkInit
  BY DEF Init, Contract!LinkInit
<1>2. LinkInv /\ [Next]_vars => [\A l \in Link : Keeps(l)]_vars
  BY StepsSound DEF StepSound
<1>3. Spec => [][\A l \in Link : Keeps(l)]_vars
  BY Invariant, <1>2, PTL DEF Spec
<1>4. Spec => \A l \in Link : Contract(l)!LinkInit
  BY <1>1 DEF Spec
<1> QED BY <1>3, <1>4 DEF KeepsContracts, Keeps

-----------------------------------------------------------------------------
(* Deduplication of one dial each. *)

OneDialEach == \A k, l \in Link : Dialer[k] = Dialer[l] => k = l

(* Of two dials, one each, the smaller id's is the primary: it is the one that
   every record keeps, at both ends. *)
KeptIsPrimary ==
  \A d \in superseded : IsPrimary(d.kept) /\ ~IsPrimary(d.lost)

LEMMA KeptStep ==
  ASSUME OneDialEach, LinkInv, KeptIsPrimary, Next
  PROVE  KeptIsPrimary'
<1>0. LinkType /\ OneLink
  BY DEF LinkInv
<1>1. ASSUME UNCHANGED superseded PROVE KeptIsPrimary'
  BY <1>1 DEF KeptIsPrimary, IsPrimary
<1>2. ASSUME NEW l \in Link, NEW n \in Device, Supersedes(l, n)
      PROVE  KeptIsPrimary'
  <2>1. /\ superseded' = superseded \cup {[at |-> n, lost |-> table[n], kept |-> l]}
        /\ table[n] \in Link /\ table[n] # l /\ IsPrimary(l)
    BY <1>0, <1>2 DEF Supersedes, Agreed, LinkType, OneLink
  <2>2. ~IsPrimary(table[n])
    BY <2>1 DEF OneDialEach, IsPrimary
  <2> QED BY <2>1, <2>2 DEF KeptIsPrimary, IsPrimary
<1>3. ASSUME NEW l \in Link, NEW n \in Device, ClosesDuplicate(l, n)
      PROVE  KeptIsPrimary'
  <2>1. /\ superseded' = superseded \cup {[at |-> n, lost |-> l, kept |-> table[n]]}
        /\ table[n] \in Link /\ table[n] # l /\ ~IsPrimary(l)
    BY <1>0, <1>3 DEF ClosesDuplicate, Agreed, LinkType, OneLink
  <2>2. IsPrimary(table[n])
    BY <2>1, DialerAssumption DEF OneDialEach, IsPrimary, Device
  <2> QED BY <2>1, <2>2 DEF KeptIsPrimary, IsPrimary
<1> QED BY <1>1, <1>2, <1>3
        DEF Next, Dial, DialOpens, DialFails, Decide, ComesUp, Registers, Closes,
            PeerClosed, Stop

(* When each device dials at most once, no pair of duplicates is ever resolved
   one way here and the other way there, in whatever order the links come up
   ("so both sides agree", transport.ts:211).  The run dials once from each;
   here there may be no dial from either.  Redialling breaks it. *)
THEOREM EndsResolveAlike ==
  ASSUME OneDialEach
  PROVE  Spec => []SidesAgree
<1>1. LinkInv /\ KeptIsPrimary /\ [Next]_vars => KeptIsPrimary'
  <2>1. LinkInv /\ KeptIsPrimary /\ Next => KeptIsPrimary'
    BY KeptStep
  <2>2. KeptIsPrimary /\ UNCHANGED vars => KeptIsPrimary'
    BY DEF KeptIsPrimary, IsPrimary, vars
  <2> QED BY <2>1, <2>2
<1>2. Init => KeptIsPrimary
  BY DEF Init, KeptIsPrimary
<1>3. KeptIsPrimary => SidesAgree
  BY DEF KeptIsPrimary, SidesAgree
<1> QED BY Invariant, <1>1, <1>2, <1>3, PTL DEF Spec
=============================================================================
