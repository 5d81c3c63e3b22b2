----------------------------- MODULE TrustStore -----------------------------
(***************************************************************************)
(* Who is trusted: the pairing service (src/services/pairingService.ts),   *)
(* the trust manager (src/security/trust.ts), its repository               *)
(* (src/storage/jsonStorage.ts) and the document it keeps                  *)
(* (src/storage/jsonDocument.ts), down to the file.  Calls overlap at      *)
(* every await; the process may crash at any moment and start again.       *)
(*                                                                         *)
(* The content of the document is the set of the devices it has a record   *)
(* of.  A record holds the public key whose fingerprint is the device's    *)
(* id, so a stored key can differ from the one presented only by being     *)
(* absent.                                                                 *)
(***************************************************************************)
EXTENDS FiniteSets

CONSTANTS Peer,    \* devices that ask to be paired
          Bound,   \* those whose id is the fingerprint of their key
          Call,    \* bound: calls under way at a time, and names of temporary files
          Torn,    \* the content of a file that is no JSON
          NoFile,  \* there is no such file
          Nothing, \* nothing has been read
          Asked    \* the file is being read

ASSUME BoundAssumption == Peer # {} /\ Bound \subseteq Peer
ASSUME ValuesAssumption ==
  /\ Torn # NoFile /\ Asked # Nothing
  /\ \A s \in SUBSET Peer : s \notin {Torn, NoFile, Nothing, Asked}

VARIABLES
  approval,   \* requirePairingApproval
  file,       \* the document on disk (a missing one reads as empty)
  temp,       \* the temporary files, by name
  cache,      \* cache and loaded of JsonDocument
  loaded,
  call,       \* the calls, each at an await
  accepted,   \* history: devices ever accepted, by the user or by policy
  consented,  \* history: those accepted and not revoked since
  raced       \* history: an update has overlapped another, or a first read

vars == <<approval, file, temp, cache, loaded, call, accepted, consented, raced>>

Content == SUBSET Peer
Reading == {"isTrusted", "matches", "get", "update"}
Writing == {"open", "write", "rename", "cache"}

(* op: what update() will do; marks: for markConnected(); snap: the content it
   will write; got: what its readFile has read; name: its temporary file; early:
   a revocation was completed after the call began. *)
CallOK(r) ==
  /\ r.pc \in {"idle", "ask"} \cup Reading \cup Writing
  /\ r.peer \in Peer /\ r.op \in {"upsert", "remove"} /\ r.marks \in BOOLEAN
  /\ r.snap \in Content /\ (r.got \in {Nothing, Asked} \/ r.got \in Content)
  /\ r.name \in Call /\ r.early \in BOOLEAN

TypeOK ==
  /\ approval \in BOOLEAN
  /\ file = Torn \/ file \in Content
  /\ \A c \in Call : temp[c] \in {Torn, NoFile} \/ temp[c] \in Content
  /\ cache \in Content /\ loaded \in BOOLEAN
  /\ \A c \in Call : CallOK(call[c])
  /\ accepted \subseteq Bound /\ consented \subseteq accepted
  /\ raced \in BOOLEAN

Fresh(c) == [pc |-> "idle", peer |-> CHOOSE p \in Peer : TRUE, op |-> "upsert",
             marks |-> FALSE, snap |-> {}, got |-> Nothing, name |-> c, early |-> FALSE]

Init ==
  /\ approval \in BOOLEAN
  /\ file = {} /\ temp = [c \in Call |-> NoFile]
  /\ cache = {} /\ loaded = FALSE
  /\ call = [c \in Call |-> Fresh(c)]
  /\ accepted = {} /\ consented = {} /\ raced = FALSE

disk == <<file, temp>>
memory == <<cache, loaded>>
history == <<accepted, consented>>

(* An update is between its reading of the content and the end of its write;
   another is as well, or is about to load what it has read. *)
Updating(c) == call[c].pc \in Writing
HasRead(c) == call[c].got \notin {Nothing, Asked}
Overlap == \E c, d \in Call : c # d /\ Updating(c) /\ (Updating(d) \/ HasRead(d))
Keeping(rest) == UNCHANGED <<approval, rest>> /\ raced' = (raced \/ Overlap')

At(c, pc) == call[c].pc = pc
Goes(c, pc) == call' = [call EXCEPT ![c].pc = pc]
(* The call returns, whatever it returns. *)
Returns(c) == call' = [call EXCEPT ![c] = Fresh(c)]

-----------------------------------------------------------------------------
(* read() of the document, in any of the four places that await it. *)

(* The value in memory is at hand. *)
Read(c, pc) == At(c, pc) /\ loaded /\ call[c].got = Nothing

(* readFile reads the file at some moment, whoever has loaded the document
   meanwhile; a file that does not parse throws. *)
ReadFile(c) ==
  /\ call[c].got = Asked
  /\ IF file = Torn THEN Returns(c)
                    ELSE call' = [call EXCEPT ![c].got = file]
  /\ Keeping(<<disk, memory, history>>)

Loads(c) ==
  /\ HasRead(c)
  /\ cache' = call[c].got /\ loaded' = TRUE
  /\ call' = [call EXCEPT ![c].got = Nothing]
  /\ Keeping(<<disk, history>>)

-----------------------------------------------------------------------------
(* update() and write() of the document. *)

(* The mutators of upsert and remove. *)
OnlyItself(c) == IF call[c].op = "upsert" THEN {call[c].peer} ELSE {}  \* mutant: no spread
Mutated(c) == IF call[c].op = "upsert" THEN cache \cup {call[c].peer}
                                       ELSE cache \ {call[c].peer}

Snapshot(c) ==
  /\ Read(c, "update")
  /\ call' = [call EXCEPT ![c].snap = Mutated(c), ![c].pc = "open"]
  /\ Keeping(<<disk, memory, history>>)

(* The temporary file is named by process and millisecond: another write of
   the same millisecond has the same name.  Opening truncates it. *)
Open(c) ==
  /\ At(c, "open")
  /\ \E n \in Call :
       /\ temp' = [temp EXCEPT ![n] = Torn]
       /\ call' = [call EXCEPT ![c].name = n, ![c].pc = "write"]
  /\ Keeping(<<file, memory, history>>)

(* The data reach the temporary file, alone or mixed with another's; or the
   document itself, if the temporary file was renamed meanwhile. *)
Sharers(c) == {d \in Call \ {c} : call[d].name = call[c].name
                                  /\ call[d].pc \in {"write", "rename"}}
WriteFile(c) ==
  /\ At(c, "write")
  /\ LET n == call[c].name
         written == {call[c].snap} \cup (IF Sharers(c) = {} THEN {} ELSE {Torn})
     IN  IF temp[n] = NoFile
         THEN file' \in {file, Torn, call[c].snap} /\ UNCHANGED temp
         ELSE /\ \E w \in written : temp' = [temp EXCEPT ![n] = w]
              /\ UNCHANGED file
  /\ Goes(c, "rename")
  /\ Keeping(<<memory, history>>)

(* rename() throws if the file has gone under another's rename. *)
Rename(c) ==
  /\ At(c, "rename")
  /\ LET n == call[c].name
     IN  IF temp[n] = NoFile
         THEN Returns(c) /\ UNCHANGED disk
         ELSE /\ file' = temp[n] /\ temp' = [temp EXCEPT ![n] = NoFile]
              /\ Goes(c, "cache")
  /\ Keeping(<<memory, history>>)

(* A revocation is complete: whatever is under way began before it. *)
CachedBefore(c) == cache                            \* mutant: cache not updated
Cached(c) == call[c].snap
CacheWritten(c) ==
  /\ At(c, "cache")
  /\ cache' = Cached(c) /\ loaded' = TRUE
  /\ IF call[c].op = "remove"
     THEN /\ consented' = consented \ {call[c].peer}
          /\ call' = [d \in Call |-> IF d = c \/ At(d, "idle") THEN Fresh(d)
                                     ELSE [call[d] EXCEPT !.early = TRUE]]
     ELSE Returns(c) /\ UNCHANGED consented
  /\ Keeping(<<disk, accepted>>)

-----------------------------------------------------------------------------
(* The calls. *)

(* The first read of a call decides, as it starts, whether to read the file;
   the later ones find the document loaded. *)
Started(c, p, pc, op) ==
  [call EXCEPT ![c] = [@ EXCEPT !.pc = pc, !.peer = p, !.op = op,
                                !.got = IF loaded THEN Nothing ELSE Asked]]

(* authorize(): the identity must be bound to its key. *)
VerifyIdentityBinding(p) == p \in Bound
Authorize(c, p) ==
  /\ At(c, "idle") /\ VerifyIdentityBinding(p)
  /\ call' = Started(c, p, "isTrusted", "upsert")
  /\ Keeping(<<disk, memory, history>>)

Revoke(c, p) ==
  /\ At(c, "idle")
  /\ call' = Started(c, p, "update", "remove")
  /\ Keeping(<<disk, memory, history>>)

(* The user is asked, or the policy accepts. *)
Accepts(c) ==
  /\ Goes(c, "get")
  /\ accepted' = accepted \cup {call[c].peer}
  /\ consented' = consented \cup {call[c].peer}

IsTrusted(c) ==
  /\ Read(c, "isTrusted")
  /\ \/ call[c].peer \in cache /\ Goes(c, "matches") /\ UNCHANGED history
     \/ call[c].peer \notin cache /\ approval /\ Goes(c, "ask") /\ UNCHANGED history
     \/ call[c].peer \notin cache /\ ~approval /\ Accepts(c)
  /\ Keeping(<<disk, memory>>)

(* A device that was trusted and has no key now is refused. *)
MatchesStoredKey(c) == call[c].peer \in cache
Matches(c) ==
  /\ Read(c, "matches")
  /\ IF MatchesStoredKey(c)
     THEN call' = [call EXCEPT ![c].pc = "get", ![c].marks = TRUE]
     ELSE Returns(c)
  /\ Keeping(<<disk, memory, history>>)

(* get() of trust(), which then stores the device whatever it finds, and of
   markConnected(), which stores it again if it is still there. *)
Upserts(c) == ~call[c].marks \/ call[c].peer \in cache
Get(c) ==
  /\ Read(c, "get")
  /\ IF Upserts(c) THEN Goes(c, "update") ELSE Returns(c)
  /\ Keeping(<<disk, memory, history>>)

(* pair:request: the first answer settles it. *)
UserAccepts(c) == At(c, "ask") /\ Accepts(c) /\ Keeping(<<disk, memory>>)
RejectGoesOn(c) == At(c, "ask") /\ Goes(c, "get")    \* mutant: stored all the same
                   /\ Keeping(<<disk, memory, history>>)
UserRejects(c) == At(c, "ask") /\ Returns(c)
                  /\ Keeping(<<disk, memory, history>>)

(* The process dies and is started again. *)
Crash ==
  /\ call' = [c \in Call |-> Fresh(c)]
  /\ temp' = [c \in Call |-> NoFile]
  /\ cache' = {} /\ loaded' = FALSE /\ raced' = FALSE
  /\ UNCHANGED <<approval, file, history>>

-----------------------------------------------------------------------------
Next ==
  \/ \E c \in Call :
       \/ \E p \in Peer : Authorize(c, p) \/ Revoke(c, p)
       \/ ReadFile(c) \/ Loads(c)
       \/ IsTrusted(c) \/ Matches(c) \/ Get(c) \/ UserAccepts(c) \/ UserRejects(c)
       \/ Snapshot(c) \/ Open(c) \/ WriteFile(c) \/ Rename(c) \/ CacheWritten(c)
  \/ Crash

Spec == Init /\ [][Next]_vars

-----------------------------------------------------------------------------
(* Properties. *)

(* Consent: whatever calls overlap, nobody is ever trusted, on disk or in
   memory, whom neither the user nor the policy accepted. *)
OnlyAccepted ==
  /\ file # Torn => file \subseteq accepted
  /\ cache \subseteq accepted

(* While no update overlaps another, or the first read of the document, what
   is read is what is on disk ("keeps the in-memory cache coherent",
   jsonDocument.ts:50), before and after a crash. *)
CacheCoherent ==
  ~raced /\ loaded /\ (\A c \in Call : ~At(c, "cache")) => cache = file

(* The same, of a store whose file and cache are well-formed throughout. *)
StoreCoherent == TypeOK /\ CacheCoherent

(* ... and the store is atomic and durable: each step of the file is one whole
   operation that is under way, whatever has crashed. *)
Wanted == {[op |-> call[c].op, peer |-> call[c].peer] : c \in {x \in Call : Updating(x)}}
Store == INSTANCE AtomicStore WITH trusted <- file, wanted <- Wanted
ImplementsStore == [][~raced => Store!StoreNext]_vars

(* A device that was revoked comes back only by a call that was already under
   way when the revocation ended (trust.ts:50: markConnected between its get
   and its upsert), or by a new consent. *)
RevokedStaysAway ==
  [][\A p \in Peer :
       ~raced /\ file # Torn /\ p \notin file /\ p \in file' =>
         \/ p \in consented
         \/ \E c \in Call : At(c, "rename") /\ ~At(c, "rename")' /\ call[c].early]_vars

(* update() is a "Read-modify-write helper" (jsonDocument.ts:50), whatever
   others overlap with it: the update that stores a device takes no other
   device out of the document whose update has ended. *)
UpsertForgetsNobody ==
  [][\A c \in Call :
       /\ At(c, "rename") /\ ~At(c, "rename")' /\ call[c].op = "upsert"
       /\ file # Torn /\ file' # Torn /\ \A d \in Call : ~At(d, "cache")
       => file \subseteq file']_vars

(* "a crash mid-write can never corrupt the store" (jsonDocument.ts:5-6): the
   document parses whenever no call is under way, as after a crash. *)
NeverCorrupt == (\A c \in Call : At(c, "idle")) => file # Torn
=============================================================================
