----------------------------- MODULE LinkTable -----------------------------
(***************************************************************************)
(* The links between two devices: WebSocketTransport of                    *)
(* src/network/transport.ts at both ends.  Each device may dial the other, *)
(* more than once; the links come up in one order here and in another      *)
(* there, and each transport keeps one of them in its table, closes the    *)
(* others, and tells its event bus.  Of a single link no more is assumed   *)
(* than its contract (module LinkContract, implemented by PeerLink).       *)
(***************************************************************************)
EXTENDS Naturals, Sequences

CONSTANTS Smaller, Larger,  \* the devices; Smaller has the smaller id
          Link,             \* bound: the links ever dialled
          Dialer,           \* Dialer[l]: who dials it (its initiator)
          NoLink            \* no entry in a table

Device == {Smaller, Larger}
Other(n) == IF n = Smaller THEN Larger ELSE Smaller

ASSUME DevicesAssumption == Smaller # Larger
ASSUME DialerAssumption == Dialer \in [Link -> Device]
ASSUME NoLinkAssumption == NoLink \notin Link

VARIABLES
  dial,        \* the WebSocket of each link, until it opens
  expected,    \* was its dial given the id of the device it expects?
  consent,     \* per link and end: module LinkContract
  phase,       \* per link and end: module LinkContract
  dialing,     \* dialing[n]: the other device is in n's set of the same name
  table,       \* table[n]: the entry of n's connections for the other device
  stopped,     \* stop() has been called
  news,        \* what n told its event bus in the last step, in order
  superseded   \* history: [at, lost, kept] of each duplicate closed

vars == <<dial, expected, consent, phase, dialing, table, stopped, news, superseded>>

(* The guard against parallel dials never outlives its dial: a device in
   `dialing` for good could not be dialled again. *)
TypeOK ==
  /\ dial \in [Link -> {"unused", "dialing", "open", "failed"}]
  /\ expected \in [Link -> BOOLEAN]
  /\ consent \in [Link -> [Device -> {"undecided", "yes", "no"}]]
  /\ phase \in [Link -> [Device -> {"opening", "up", "down"}]]
  /\ dialing \in [Device -> BOOLEAN]
  /\ table \in [Device -> Link \cup {NoLink}]
  /\ stopped \in [Device -> BOOLEAN]
  /\ news \in [Device -> Seq({"connected", "disconnected"})]
  /\ superseded \subseteq [at : Device, lost : Link, kept : Link]
  /\ \A n \in Device : dialing[n] =>
       \E l \in Link : Dialer[l] = n /\ dial[l] = "dialing" /\ expected[l]

Silence == [n \in Device |-> <<>>]

Init ==
  /\ dial = [l \in Link |-> "unused"]
  /\ expected = [l \in Link |-> FALSE]
  /\ consent = [l \in Link |-> [n \in Device |-> "undecided"]]
  /\ phase = [l \in Link |-> [n \in Device |-> "opening"]]
  /\ dialing = [n \in Device |-> FALSE]
  /\ table = [n \in Device |-> NoLink]
  /\ stopped = [n \in Device |-> FALSE]
  /\ news = Silence
  /\ superseded = {}

(* A PeerConnection that exists and is not closed. *)
Live(l, n) == dial[l] = "open" /\ phase[l][n] # "down"

-----------------------------------------------------------------------------
(* Dialling. *)

(* connect(): with an expected id only if the device is neither connected nor
   being dialled; without one (a manual dial) always. *)
Dial(l) ==
  LET n == Dialer[l]
  IN  /\ dial[l] = "unused"
      /\ dial' = [dial EXCEPT ![l] = "dialing"]
      /\ \/ /\ table[n] = NoLink /\ ~dialing[n]
            /\ expected' = [expected EXCEPT ![l] = TRUE]
            /\ dialing' = [dialing EXCEPT ![n] = TRUE]
         \/ UNCHANGED <<expected, dialing>>
      /\ news' = Silence
      /\ UNCHANGED <<consent, phase, table, stopped, superseded>>

(* cleanupDial, which runs when the WebSocket opens and on its errors, before
   or after. *)
CleanupDial(l) ==
  dialing' = [dialing EXCEPT ![Dialer[l]] = @ /\ ~expected[l]]

DialOpens(l) ==
  /\ dial[l] = "dialing"
  /\ ~stopped[Other(Dialer[l])]
  /\ dial' = [dial EXCEPT ![l] = "open"]
  /\ CleanupDial(l)
  /\ news' = Silence
  /\ UNCHANGED <<expected, consent, phase, table, stopped, superseded>>

DialFails(l) ==
  /\ dial[l] = "dialing"
  /\ dial' = [dial EXCEPT ![l] = "failed"]
  /\ CleanupDial(l)
  /\ news' = Silence
  /\ UNCHANGED <<expected, consent, phase, table, stopped, superseded>>

-----------------------------------------------------------------------------
(* A link comes up. *)

(* The owner of an end decides while it is opening. *)
Decide(l, n) ==
  /\ Live(l, n) /\ phase[l][n] = "opening"
  /\ consent[l][n] = "undecided"
  /\ \E c \in {"yes", "no"} : consent' = [consent EXCEPT ![l][n] = c]
  /\ news' = Silence
  /\ UNCHANGED <<dial, expected, phase, dialing, table, stopped, superseded>>

(* Both have agreed: maybeConnected reports the link to onConnected. *)
AgreedAlone(l, n) ==                                \* mutant: unilateral
  /\ Live(l, n) /\ phase[l][n] = "opening"
  /\ consent[l][n] = "yes"
Agreed(l, n) ==
  /\ Live(l, n) /\ phase[l][n] = "opening"
  /\ \A m \in Device : consent[l][m] = "yes"

Newest(l) == TRUE                                   \* mutant: the last one wins
IsPrimary(l) == Dialer[l] = Smaller

Registers(l, n) ==
  /\ Agreed(l, n) /\ table[n] = NoLink
  /\ phase' = [phase EXCEPT ![l][n] = "up"]
  /\ table' = [table EXCEPT ![n] = l]
  /\ news' = [Silence EXCEPT ![n] = <<"connected">>]
  /\ UNCHANGED <<dial, expected, consent, dialing, stopped, superseded>>

(* The link in the table is closed while it is still there. *)
Displaces(l, n) == [phase EXCEPT ![l][n] = "up", ![table[n]][n] = "down"]

Supersedes(l, n) ==
  /\ Agreed(l, n) /\ table[n] # NoLink
  /\ IsPrimary(l)
  /\ phase' = Displaces(l, n)
  /\ table' = [table EXCEPT ![n] = l]
  /\ news' = [Silence EXCEPT ![n] = <<"disconnected", "connected">>]
  /\ superseded' = superseded \cup {[at |-> n, lost |-> table[n], kept |-> l]}
  /\ UNCHANGED <<dial, expected, consent, dialing, stopped>>

ClosesDuplicate(l, n) ==
  /\ Agreed(l, n) /\ table[n] # NoLink
  /\ ~IsPrimary(l)
  /\ phase' = [phase EXCEPT ![l][n] = "down"]
  /\ news' = Silence
  /\ superseded' = superseded \cup {[at |-> n, lost |-> l, kept |-> table[n]]}
  /\ UNCHANGED <<dial, expected, consent, dialing, table, stopped>>

ComesUp(l, n) == Registers(l, n) \/ Supersedes(l, n) \/ ClosesDuplicate(l, n)

-----------------------------------------------------------------------------
(* A link goes down: onClosed.  Before its HELLO a link does not know whom it
   is with, and nothing is told. *)

TellsAnyway(l, n, known) == known                   \* mutant: no "stay silent"
IsNews(l, n, known) == known /\ table[n] \in {l, NoLink}

KeepsEntry(l, n) == table                           \* mutant: no delete
WithoutEntry(l, n) == [table EXCEPT ![n] = IF @ = l THEN NoLink ELSE @]

GoesDown(l, n) ==
  /\ Live(l, n)
  /\ phase' = [phase EXCEPT ![l][n] = "down"]
  /\ table' = WithoutEntry(l, n)
  /\ \E known \in BOOLEAN :
       /\ consent[l][n] # "undecided" => known
       /\ news' = [Silence EXCEPT ![n] =
                     IF IsNews(l, n, known) THEN <<"disconnected">> ELSE <<>>]

(* For a reason of its own: a refusal, a timeout, a silent peer, a WebSocket
   error (of which the dial's listener hears as well). *)
Closes(l, n) ==
  /\ GoesDown(l, n)
  /\ CleanupDial(l) \/ UNCHANGED dialing
  /\ UNCHANGED <<dial, expected, consent, stopped, superseded>>

(* Because the other end has closed. *)
PeerClosed(l, n) ==
  /\ phase[l][Other(n)] = "down"
  /\ GoesDown(l, n)
  /\ UNCHANGED <<dial, expected, consent, dialing, stopped, superseded>>

(* stop(): every connection there is, registered or pending, is closed and the
   server takes no more.  A dial in flight goes on.  Each closed link that
   knows its peer is told of; the news holds these equal events once. *)
Stop(n) ==
  /\ ~stopped[n]
  /\ stopped' = [stopped EXCEPT ![n] = TRUE]
  /\ phase' = [l \in Link |-> IF dial[l] = "open"
                              THEN [phase[l] EXCEPT ![n] = "down"] ELSE phase[l]]
  /\ table' = [table EXCEPT ![n] = NoLink]
  /\ \E known \in BOOLEAN :
       /\ table[n] # NoLink \/ (\E l \in Link : Live(l, n) /\ consent[l][n] # "undecided")
            => known
       /\ news' = [Silence EXCEPT ![n] =
                     IF known /\ \E l \in Link : Live(l, n) THEN <<"disconnected">> ELSE <<>>]
  /\ UNCHANGED <<dial, expected, consent, dialing, superseded>>

Next == \/ \E l \in Link : Dial(l) \/ DialOpens(l) \/ DialFails(l)
        \/ \E l \in Link, n \in Device :
             Decide(l, n) \/ ComesUp(l, n) \/ Closes(l, n) \/ PeerClosed(l, n)
        \/ \E n \in Device : Stop(n)

Spec == Init /\ [][Next]_vars

(* From PeerLink: what both owners agreed to comes up unless it closes
   (AcceptsNeverStall), and a close reaches the other end
   (CloseReachesPeer). *)
Fairness == \A l \in Link, n \in Device :
              WF_vars(ComesUp(l, n)) /\ WF_vars(PeerClosed(l, n))

FairSpec == Spec /\ Fairness

-----------------------------------------------------------------------------
(* Properties. *)

(* No orphan and no ghost: a link is up at a device exactly when it is the one
   in its table.  So sendTo never writes to a closed link, and no link stays
   open that nobody will ever use or close. *)
OneLink ==
  \A l \in Link, n \in Device : phase[l][n] = "up" <=> table[n] = l

(* When each device dials at most once, the two ends never resolve a pair of
   duplicates against each other, in whatever order the links come up at
   each: so deduplication alone never costs the last link
   (transport.ts:211, "so both sides agree"). *)
SidesAgree ==
  \A c, d \in superseded : ~(c.lost = d.kept /\ c.kept = d.lost)

(* The bus is told the truth: after each step the last event a device emitted
   about the other says whether its table has a link, and no link comes or
   goes unsaid. *)
NewsTellsTable ==
  [][\A n \in Device :
       IF news'[n] = <<>>
       THEN (table[n] = NoLink) <=> (table'[n] = NoLink)
       ELSE (news'[n][Len(news'[n])] = "connected") <=> (table'[n] # NoLink)]_vars

(* One link per device, and nobody is told otherwise (transport.ts:207-257). *)
OneLinkAndTold == [](TypeOK /\ OneLink) /\ NewsTellsTable

(* Every link keeps its contract, whatever the tables do to it: this is
   Contract(l)!LinkSpec for each l. *)
Contract(l) == INSTANCE LinkContract
                 WITH Side <- Device, consent <- consent[l], phase <- phase[l]
KeepsContracts ==
  /\ \A l \in Link : Contract(l)!LinkInit
  /\ [][\A l \in Link : Contract(l)!LinkNext \/ UNCHANGED <<consent[l], phase[l]>>]_vars

(* Liveness: when the dialling is over, both tables settle on the same link, or
   both on none. *)
TablesConverge == <>[](table[Smaller] = table[Larger])

(* What the comment at transport.ts:255 says of a superseded duplicate:
   "stay silent".  Supersedes closes the old link while it is in the table. *)
SupersededIsSilent ==
  [][\A n \in Device : table[n] # NoLink /\ table'[n] # NoLink
       => \A i \in 1..Len(news'[n]) : news'[n][i] # "disconnected"]_vars
=============================================================================
