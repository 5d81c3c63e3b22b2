-------------------------- MODULE TrustStoreProofs --------------------------
(***************************************************************************)
(* What TrustStore keeps, for any devices and any number of calls at a     *)
(* time, crashes included.                                                 *)
(***************************************************************************)
EXTENDS TrustStore, TLAPS

Await == {"idle", "ask"} \cup Reading \cup Writing

CallRecord ==
  [pc : Await, peer : Peer,
   op : {"upsert", "remove"}, marks : BOOLEAN, snap : Content,
   got : Content \cup {Nothing, Asked}, name : Call, early : BOOLEAN]

(* TypeOK with functions for what it says of each call. *)
TypeInv ==
  /\ approval \in BOOLEAN
  /\ file \in Content \cup {Torn}
  /\ temp \in [Call -> Content \cup {Torn, NoFile}]
  /\ cache \in Content /\ loaded \in BOOLEAN
  /\ call \in [Call -> CallRecord]
  /\ raced \in BOOLEAN
  /\ accepted \in Content /\ consented \in Content

(* A call between its awaits: what it has read is kept only while it reads,
   only an upsert asks anybody, and only for a device bound to its key. *)
CallInv ==
  \A c \in Call :
    /\ call[c].got # Nothing => call[c].pc \in Reading
    /\ call[c].pc \in {"isTrusted", "matches", "get", "ask"} => call[c].op = "upsert"
    /\ call[c].pc # "idle" /\ call[c].op = "upsert" => call[c].peer \in Bound

(* Only accepted devices are anywhere on the way into the store: in what is
   read, what will be written, the files and the memory. *)
AcceptedInv ==
  /\ accepted \subseteq Bound /\ consented \subseteq accepted
  /\ file # Torn => file \subseteq accepted
  /\ cache \subseteq accepted
  /\ \A n \in Call : temp[n] \notin {Torn, NoFile} => temp[n] \subseteq accepted
  /\ \A c \in Call :
       /\ HasRead(c) => call[c].got \subseteq accepted
       /\ call[c].pc \in Writing => call[c].snap \subseteq accepted
       /\ call[c].pc \in {"get", "update"} /\ call[c].op = "upsert"
            => call[c].peer \in accepted

(* Without a race one call at most is between its snapshot and its end, and
   nobody has read what it replaces. *)
SoundInv ==
  /\ ~Overlap
  /\ ~loaded => cache = {}
  /\ loaded /\ (\A c \in Call : ~At(c, "cache")) => cache = file
  /\ \A c \in Call :
       /\ HasRead(c) => call[c].got = file
       /\ Updating(c) => loaded
       /\ call[c].pc \in {"open", "write", "rename"} =>
            call[c].snap = Mutated(c) /\ cache = file
       /\ At(c, "write") => temp[call[c].name] = Torn
       /\ At(c, "rename") => temp[call[c].name] = call[c].snap
       /\ At(c, "cache") => file = call[c].snap /\ call[c].snap = Mutated(c)

(* Without a race an upsert that began after the last revocation of its device
   is of one whom somebody has consented to, or who is in the store. *)
FreshInv ==
  \A c \in Call :
    call[c].pc \in {"get", "update", "open", "write", "rename"}
      /\ call[c].op = "upsert" /\ ~call[c].early
      => call[c].peer \in consented \cup cache

TrustInv == TypeInv /\ CallInv /\ AcceptedInv /\ (~raced => SoundInv /\ FreshInv)

-----------------------------------------------------------------------------
(* No device set is one of the marks. *)
LEMMA Marks == Torn # NoFile /\ Torn \notin Content /\ NoFile \notin Content
               /\ Nothing \notin Content /\ Asked \notin Content /\ Asked # Nothing
BY ValuesAssumption DEF Content

LEMMA FreshType == \A c \in Call : Fresh(c) \in CallRecord
<1>1. (CHOOSE p \in Peer : TRUE) \in Peer
  BY BoundAssumption
<1> QED BY <1>1 DEF Fresh, CallRecord, Await, Content

(* The fields of a fresh call. *)
LEMMA FreshFields ==
  \A c \in Call : /\ Fresh(c).pc = "idle" /\ Fresh(c).got = Nothing
                  /\ Fresh(c).op = "upsert"
BY DEF Fresh

(* What the handlers change of a call at a time. *)
LEMMA Changed ==
  ASSUME NEW r \in CallRecord
  PROVE  /\ \A pc \in Await, p \in Peer, op \in {"upsert", "remove"}, g \in {Nothing, Asked} :
              [r EXCEPT !.pc = pc, !.peer = p, !.op = op, !.got = g] \in CallRecord
         /\ \A pc \in Await, s \in Content : [r EXCEPT !.snap = s, !.pc = pc] \in CallRecord
         /\ \A pc \in Await, n \in Call : [r EXCEPT !.name = n, !.pc = pc] \in CallRecord
         /\ [r EXCEPT !.early = TRUE] \in CallRecord
BY DEF CallRecord

LEMMA MutatedType ==
  ASSUME TypeInv, NEW c \in Call PROVE Mutated(c) \in Content
<1>1. call[c] \in CallRecord
  BY DEF TypeInv
<1>2. call[c].peer \in Peer
  BY <1>1 DEF CallRecord
<1>3. cache \in SUBSET Peer
  BY DEF TypeInv, Content
<1> QED BY <1>2, <1>3 DEF Mutated, Content

LEMMA InitInv == Init => TrustInv
<1> SUFFICES ASSUME Init PROVE TrustInv
  OBVIOUS
<1> USE DEF Init
<1>1. TypeInv
  BY FreshType, Marks DEF TypeInv, Content
<1>2. \A c \in Call : call[c].pc = "idle" /\ call[c].got = Nothing /\ call[c].op = "upsert"
  BY FreshFields
<1>3. CallInv
  BY <1>2 DEF CallInv
<1>4. AcceptedInv
  BY <1>2 DEF AcceptedInv, HasRead, Writing
<1>5. SoundInv /\ FreshInv
  BY <1>2 DEF SoundInv, FreshInv, Overlap, Updating, HasRead, At, Writing
<1> QED BY <1>1, <1>3, <1>4, <1>5 DEF TrustInv

-----------------------------------------------------------------------------
(* Types. *)

LEMMA NextType == TypeInv /\ CallInv /\ [Next]_vars => TypeInv'
<1> SUFFICES ASSUME TypeInv, CallInv, [Next]_vars PROVE TypeInv'
  OBVIOUS
<1> USE Marks, FreshType DEF TypeInv, Keeping, disk, memory, history, Goes, Returns
<1>1. ASSUME NEW c \in Call, NEW p \in Peer, Authorize(c, p) PROVE TypeInv'
  <2>1. [call[c] EXCEPT !.pc = "isTrusted", !.peer = p, !.op = "upsert",
                         !.got = IF loaded THEN Nothing ELSE Asked] \in CallRecord
    BY Changed DEF Await, Reading
  <2> QED BY <1>1, <2>1 DEF Authorize, Started
<1>2. ASSUME NEW c \in Call, NEW p \in Peer, Revoke(c, p) PROVE TypeInv'
  <2>1. [call[c] EXCEPT !.pc = "update", !.peer = p, !.op = "remove",
                         !.got = IF loaded THEN Nothing ELSE Asked] \in CallRecord
    BY Changed DEF Await, Reading
  <2> QED BY <1>2, <2>1 DEF Revoke, Started
<1>3. ASSUME NEW c \in Call, ReadFile(c) PROVE TypeInv'
  BY <1>3 DEF ReadFile, CallRecord
<1>4. ASSUME NEW c \in Call, Loads(c) PROVE TypeInv'
  BY <1>4 DEF Loads, HasRead, CallRecord
<1>5. ASSUME NEW c \in Call, IsTrusted(c) PROVE TypeInv'
  BY <1>5 DEF IsTrusted, Accepts, Read, At, Reading, Content, Await, CallRecord
<1>6. ASSUME NEW c \in Call, Matches(c) PROVE TypeInv'
  <2>1. CASE MatchesStoredKey(c)
    BY <1>6, <2>1 DEF Matches, Reading, Await, CallRecord
  <2>2. CASE ~MatchesStoredKey(c)
    BY <1>6, <2>2 DEF Matches, Await, CallRecord
  <2> QED BY <2>1, <2>2
<1>7. ASSUME NEW c \in Call, Get(c) PROVE TypeInv'
  BY <1>7 DEF Get, Reading, Await, CallRecord
<1>8. ASSUME NEW c \in Call, UserAccepts(c) PROVE TypeInv'
  BY <1>8 DEF UserAccepts, Accepts, Reading, Content, Await, CallRecord
<1>9. ASSUME NEW c \in Call, UserRejects(c) PROVE TypeInv'
  BY <1>9 DEF UserRejects, Await, CallRecord
<1>10. ASSUME NEW c \in Call, Snapshot(c) PROVE TypeInv'
  <2>1. Mutated(c) \in Content
    BY MutatedType
  <2>2. [call[c] EXCEPT !.snap = Mutated(c), !.pc = "open"] \in CallRecord
    BY <2>1, Changed DEF Await, Writing
  <2>3. call' = [call EXCEPT ![c] = [call[c] EXCEPT !.snap = Mutated(c), !.pc = "open"]]
    BY <1>10 DEF Snapshot
  <2> QED BY <1>10, <2>2, <2>3 DEF Snapshot
<1>11. ASSUME NEW c \in Call, Open(c) PROVE TypeInv'
  <2>1. PICK n \in Call : /\ temp' = [temp EXCEPT ![n] = Torn]
                          /\ call' = [call EXCEPT ![c].name = n, ![c].pc = "write"]
    BY <1>11 DEF Open
  <2>2. [call[c] EXCEPT !.name = n, !.pc = "write"] \in CallRecord
    BY Changed DEF Await, Writing
  <2> QED BY <1>11, <2>1, <2>2 DEF Open
<1>12. ASSUME NEW c \in Call, WriteFile(c) PROVE TypeInv'
  BY <1>12 DEF WriteFile, Writing, Await, CallRecord
<1>13. ASSUME NEW c \in Call, Rename(c) PROVE TypeInv'
  BY <1>13 DEF Rename, Writing, Await, CallRecord
<1>14. ASSUME NEW c \in Call, CacheWritten(c) PROVE TypeInv'
  <2>1. CASE call[c].op = "remove"
    <3>1. call' \in [Call -> CallRecord]
      <4>1. \A d \in Call : [call[d] EXCEPT !.early = TRUE] \in CallRecord
        BY Changed
      <4> QED BY <1>14, <2>1, <4>1 DEF CacheWritten
    <3>2. consented' \in Content
      BY <1>14, <2>1 DEF CacheWritten, Content
    <3>3. cache' \in Content
      BY <1>14 DEF CacheWritten, Cached, CallRecord
    <3> QED BY <1>14, <3>1, <3>2, <3>3 DEF CacheWritten
  <2>2. CASE call[c].op # "remove"
    <3>1. cache' \in Content
      BY <1>14 DEF CacheWritten, Cached, CallRecord
    <3> QED BY <1>14, <2>2, <3>1 DEF CacheWritten
  <2> QED BY <2>1, <2>2
<1>15. CASE Crash
  BY <1>15 DEF Crash, Content
<1>16. CASE UNCHANGED vars
  BY <1>16 DEF vars
<1> QED BY <1>1, <1>2, <1>3, <1>4, <1>5, <1>6, <1>7, <1>8, <1>9, <1>10, <1>11,
           <1>12, <1>13, <1>14, <1>15, <1>16 DEF Next

-----------------------------------------------------------------------------
(* What is known of a call at its await. *)

LEMMA NextCall == TypeInv /\ CallInv /\ [Next]_vars => CallInv'
<1> SUFFICES ASSUME TypeInv, CallInv, [Next]_vars PROVE CallInv'
  OBVIOUS
<1>0. call \in [Call -> CallRecord]
  BY DEF TypeInv
<1> USE <1>0, FreshFields DEF CallInv, CallRecord, Goes, Returns
<1>1. ASSUME NEW c \in Call, NEW p \in Peer, Authorize(c, p) PROVE CallInv'
  BY <1>1 DEF Authorize, Started, VerifyIdentityBinding, At, Reading
<1>2. ASSUME NEW c \in Call, NEW p \in Peer, Revoke(c, p) PROVE CallInv'
  BY <1>2 DEF Revoke, Started, At, Reading
<1>3. ASSUME NEW c \in Call, ReadFile(c) PROVE CallInv'
  BY <1>3, Marks DEF ReadFile
<1>4. ASSUME NEW c \in Call, Loads(c) PROVE CallInv'
  BY <1>4 DEF Loads
<1>5. ASSUME NEW c \in Call, IsTrusted(c) PROVE CallInv'
  BY <1>5 DEF IsTrusted, Accepts, Read, At
<1>6. ASSUME NEW c \in Call, Matches(c) PROVE CallInv'
  BY <1>6 DEF Matches, Read, At
<1>7. ASSUME NEW c \in Call, Get(c) PROVE CallInv'
  BY <1>7 DEF Get, Read, At
<1>8. ASSUME NEW c \in Call, UserAccepts(c) \/ UserRejects(c) PROVE CallInv'
  BY <1>8 DEF UserAccepts, UserRejects, Accepts, At, Reading
<1>9. ASSUME NEW c \in Call, Snapshot(c) PROVE CallInv'
  BY <1>9 DEF Snapshot, Read, At
<1>10. ASSUME NEW c \in Call, Open(c) PROVE CallInv'
  BY <1>10 DEF Open, At, Reading
<1>11. ASSUME NEW c \in Call, WriteFile(c) PROVE CallInv'
  BY <1>11 DEF WriteFile, At, Reading
<1>12. ASSUME NEW c \in Call, Rename(c) PROVE CallInv'
  BY <1>12 DEF Rename, At, Reading
<1>13. ASSUME NEW c \in Call, CacheWritten(c) PROVE CallInv'
  BY <1>13 DEF CacheWritten, At, Reading
<1>14. CASE Crash
  BY <1>14 DEF Crash
<1>15. CASE UNCHANGED vars
  BY <1>15 DEF vars
<1> QED BY <1>1, <1>2, <1>3, <1>4, <1>5, <1>6, <1>7, <1>8, <1>9, <1>10, <1>11,
           <1>12, <1>13, <1>14, <1>15 DEF Next

-----------------------------------------------------------------------------
(* Only accepted devices. *)

LEMMA NextAccepted == TypeInv /\ CallInv /\ AcceptedInv /\ [Next]_vars => AcceptedInv'
<1> SUFFICES ASSUME TypeInv, CallInv, AcceptedInv, [Next]_vars PROVE AcceptedInv'
  OBVIOUS
<1>0. call \in [Call -> CallRecord] /\ temp \in [Call -> Content \cup {Torn, NoFile}]
  BY DEF TypeInv
<1> USE <1>0, FreshFields, Marks
    DEF AcceptedInv, HasRead, CallRecord, Goes, Returns, Keeping, disk, memory, history
<1>1. ASSUME NEW c \in Call, NEW p \in Peer, Authorize(c, p) PROVE AcceptedInv'
  BY <1>1 DEF Authorize, Started, At, Writing
<1>2. ASSUME NEW c \in Call, NEW p \in Peer, Revoke(c, p) PROVE AcceptedInv'
  BY <1>2 DEF Revoke, Started, At, Writing
<1>3. ASSUME NEW c \in Call, ReadFile(c) PROVE AcceptedInv'
  BY <1>3 DEF ReadFile, Writing
<1>4. ASSUME NEW c \in Call, Loads(c) PROVE AcceptedInv'
  BY <1>4 DEF Loads
<1>5. ASSUME NEW c \in Call, IsTrusted(c) PROVE AcceptedInv'
  BY <1>5 DEF IsTrusted, Accepts, Read, At, CallInv, Writing
<1>6. ASSUME NEW c \in Call, Matches(c) PROVE AcceptedInv'
  BY <1>6 DEF Matches, MatchesStoredKey, Read, At, Writing
<1>7. ASSUME NEW c \in Call, Get(c) PROVE AcceptedInv'
  BY <1>7 DEF Get, Read, At, Writing
<1>8. ASSUME NEW c \in Call, UserAccepts(c) PROVE AcceptedInv'
  BY <1>8 DEF UserAccepts, Accepts, At, CallInv, Writing
<1>9. ASSUME NEW c \in Call, UserRejects(c) PROVE AcceptedInv'
  BY <1>9 DEF UserRejects, At, Writing
<1>10. ASSUME NEW c \in Call, Snapshot(c) PROVE AcceptedInv'
  <2>1. Mutated(c) \subseteq accepted
    BY <1>10 DEF Snapshot, Read, At, Mutated
  <2> QED BY <1>10, <2>1 DEF Snapshot, Read, At
<1>11. ASSUME NEW c \in Call, Open(c) PROVE AcceptedInv'
  BY <1>11 DEF Open, At, Writing
<1>12. ASSUME NEW c \in Call, WriteFile(c) PROVE AcceptedInv'
  BY <1>12 DEF WriteFile, At, Writing
<1>13. ASSUME NEW c \in Call, Rename(c) PROVE AcceptedInv'
  BY <1>13 DEF Rename, At, Writing
<1>14. ASSUME NEW c \in Call, CacheWritten(c) PROVE AcceptedInv'
  BY <1>14 DEF CacheWritten, Cached, At, Writing
<1>15. CASE Crash
  BY <1>15 DEF Crash, Writing
<1>16. CASE UNCHANGED vars
  BY <1>16 DEF vars
<1> QED BY <1>1, <1>2, <1>3, <1>4, <1>5, <1>6, <1>7, <1>8, <1>9, <1>10, <1>11,
           <1>12, <1>13, <1>14, <1>15, <1>16 DEF Next

-----------------------------------------------------------------------------
(* A store without races. *)

(* A step of calls that are not updating changes nothing but what they know. *)
LEMMA Quiet ==
  ASSUME SoundInv, ~Overlap', UNCHANGED <<disk, memory>>,
         \A d \in Call : \/ call'[d] = call[d]
                        \/ /\ call[d].pc \notin Writing /\ call'[d].pc \notin Writing
                           /\ call'[d].got \in {Nothing, Asked, call[d].got, file}
  PROVE  SoundInv'
<1> USE DEF disk, memory
<1>1. loaded /\ (\A d \in Call : call'[d].pc # "cache") => cache = file
  BY DEF SoundInv, At, Writing
<1>2. ASSUME NEW d \in Call
      PROVE  /\ HasRead(d)' => call'[d].got = file
             /\ Updating(d)' => loaded
             /\ call'[d].pc \in {"open", "write", "rename"} =>
                  call'[d].snap = Mutated(d)' /\ cache = file
             /\ call'[d].pc = "write" => temp[call'[d].name] = Torn
             /\ call'[d].pc = "rename" => temp[call'[d].name] = call'[d].snap
             /\ call'[d].pc = "cache" => file = call'[d].snap /\ call'[d].snap = Mutated(d)'
  <2>1. CASE call'[d] = call[d]
    BY <2>1 DEF SoundInv, Updating, HasRead, At, Mutated
  <2>2. CASE call'[d].pc \notin Writing /\ call'[d].got \in {Nothing, Asked, call[d].got, file}
    BY <2>2 DEF SoundInv, Updating, HasRead, Writing
  <2> QED BY <2>1, <2>2
<1> QED BY <1>1, <1>2 DEF SoundInv, At

LEMMA NextSound ==
  ASSUME TypeInv, CallInv, ~raced => SoundInv, [Next]_vars, ~raced'
  PROVE  SoundInv'
<1>0. call \in [Call -> CallRecord] /\ temp \in [Call -> Content \cup {Torn, NoFile}]
  BY DEF TypeInv
<1> USE <1>0, FreshFields, Marks
    DEF HasRead, CallRecord, Goes, Returns, disk, memory, history, At, Mutated
<1>1. ASSUME NEW c \in Call, NEW p \in Peer, Authorize(c, p) \/ Revoke(c, p)
      PROVE  SoundInv'
  <2>1. ~raced /\ ~Overlap' /\ SoundInv
    BY <1>1 DEF Authorize, Revoke, Keeping
  <2>2. \A d \in Call : \/ call'[d] = call[d]
                        \/ /\ call[d].pc \notin Writing /\ call'[d].pc \notin Writing
                           /\ call'[d].got \in {Nothing, Asked}
    <3>1. CASE Authorize(c, p)
      BY <3>1 DEF Authorize, Started, Writing
    <3>2. CASE Revoke(c, p)
      BY <3>2 DEF Revoke, Started, Writing
    <3> QED BY <1>1, <3>1, <3>2
  <2> QED BY <1>1, <2>1, <2>2, Quiet DEF Authorize, Revoke, Keeping
<1>2. ASSUME NEW c \in Call, ReadFile(c) PROVE SoundInv'
  <2>1. ~raced /\ ~Overlap' /\ SoundInv
    BY <1>2 DEF ReadFile, Keeping
  <2>2. \A d \in Call : \/ call'[d] = call[d]
                        \/ /\ call[d].pc \notin Writing /\ call'[d].pc \notin Writing
                           /\ call'[d].got \in {Nothing, file}
    BY <1>2 DEF ReadFile, CallInv, Reading, Writing
  <2> QED BY <1>2, <2>1, <2>2, Quiet DEF ReadFile, Keeping
<1>3. ASSUME NEW c \in Call, Loads(c) PROVE SoundInv'
  <2>1. ~raced /\ ~Overlap' /\ SoundInv
    BY <1>3 DEF Loads, Keeping
  <2>2. \A d \in Call : ~Updating(d)
    BY <1>3, <2>1 DEF Loads, SoundInv, Overlap, Updating, CallInv, Reading, Writing
  <2>3. cache' = file /\ file' = file /\ loaded'
    BY <1>3, <2>1 DEF Loads, Keeping, SoundInv
  <2>4. \A d \in Call : /\ call'[d].pc \notin Writing
                        /\ HasRead(d)' => call'[d].got = file
    <3>1. \A d \in Call : call'[d].pc = call[d].pc /\ call'[d].got \in {Nothing, call[d].got}
      BY <1>3 DEF Loads
    <3>2. \A d \in Call : HasRead(d) => call[d].got = file
      BY <2>1 DEF SoundInv
    <3> QED BY <2>2, <3>1, <3>2 DEF Updating
  <2>5. ~Overlap'
    BY <2>1
  <2> QED BY <2>3, <2>4, <2>5 DEF SoundInv, Updating, Writing
<1>4. ASSUME NEW c \in Call,
             IsTrusted(c) \/ Matches(c) \/ Get(c) \/ UserAccepts(c) \/ UserRejects(c)
      PROVE  SoundInv'
  <2>1. ~raced /\ ~Overlap' /\ SoundInv
    BY <1>4 DEF IsTrusted, Matches, Get, UserAccepts, UserRejects, Keeping
  <2>2. \A d \in Call : \/ call'[d] = call[d]
                        \/ /\ call[d].pc \notin Writing /\ call'[d].pc \notin Writing
                           /\ call'[d].got \in {Nothing, call[d].got}
    <3>1. CASE IsTrusted(c)
      BY <3>1 DEF IsTrusted, Accepts, Read, Writing
    <3>2. CASE Matches(c)
      BY <3>2 DEF Matches, Read, Writing
    <3>3. CASE Get(c)
      BY <3>3 DEF Get, Read, Writing
    <3>4. CASE UserAccepts(c)
      BY <3>4 DEF UserAccepts, Accepts, Writing
    <3>5. CASE UserRejects(c)
      BY <3>5 DEF UserRejects, Writing
    <3> QED BY <1>4, <3>1, <3>2, <3>3, <3>4, <3>5
  <2>3. UNCHANGED <<disk, memory>>
    <3>1. CASE IsTrusted(c)
      BY <3>1 DEF IsTrusted, Keeping
    <3>2. CASE Matches(c)
      BY <3>2 DEF Matches, Keeping
    <3>3. CASE Get(c)
      BY <3>3 DEF Get, Keeping
    <3>4. CASE UserAccepts(c)
      BY <3>4 DEF UserAccepts, Keeping
    <3>5. CASE UserRejects(c)
      BY <3>5 DEF UserRejects, Keeping
    <3> QED BY <1>4, <3>1, <3>2, <3>3, <3>4, <3>5
  <2> QED BY <2>1, <2>2, <2>3, Quiet
<1>5. ASSUME NEW c \in Call, Snapshot(c) PROVE SoundInv'
  <2>1. ~raced /\ ~Overlap' /\ SoundInv
    BY <1>5 DEF Snapshot, Keeping
  <2>2. ASSUME NEW d \in Call \ {c} PROVE ~Updating(d)
    <3>0. call' = [call EXCEPT ![c].snap = Mutated(c), ![c].pc = "open"]
      BY <1>5 DEF Snapshot
    <3>1. call'[c].pc = "open" /\ call'[d] = call[d]
      BY <3>0
    <3>2. Updating(c)'
      BY <3>1 DEF Updating, Writing
    <3>3. ~Updating(d)'
      BY <2>1, <3>2 DEF Overlap
    <3> QED BY <3>1, <3>3 DEF Updating
  <2> QED BY <1>5, <2>1, <2>2 DEF Snapshot, Read, Keeping, SoundInv, Updating, Writing
<1>6. ASSUME NEW c \in Call, Open(c) PROVE SoundInv'
  <2>1. ~raced /\ ~Overlap' /\ SoundInv
    BY <1>6 DEF Open, Keeping
  <2>2. \A d \in Call \ {c} : ~Updating(d)
    BY <1>6, <2>1 DEF Open, SoundInv, Overlap, Updating, Writing
  <2> QED BY <1>6, <2>1, <2>2 DEF Open, Keeping, SoundInv, Updating, Writing
<1>7. ASSUME NEW c \in Call, WriteFile(c) PROVE SoundInv'
  <2>1. ~raced /\ ~Overlap' /\ SoundInv
    BY <1>7 DEF WriteFile, Keeping
  <2>2. \A d \in Call \ {c} : ~Updating(d)
    BY <1>7, <2>1 DEF WriteFile, SoundInv, Overlap, Updating, Writing
  <2>3. temp' = [temp EXCEPT ![call[c].name] = call[c].snap] /\ file' = file
    <3>1. Sharers(c) = {}
      BY <2>2 DEF Sharers, Updating, Writing
    <3>2. temp[call[c].name] = Torn
      BY <1>7, <2>1 DEF WriteFile, SoundInv
    <3>3. temp[call[c].name] # NoFile
      BY <3>2
    <3> QED BY <1>7, <3>1, <3>3 DEF WriteFile
  <2>4. UNCHANGED <<cache, loaded>> /\ loaded /\ call[c].snap = Mutated(c) /\ cache = file
    BY <1>7, <2>1 DEF WriteFile, Keeping, SoundInv, Updating, Writing
  <2>5. /\ call[c].got = Nothing /\ call[c].name \in Call
        /\ call'[c] = [call[c] EXCEPT !.pc = "rename"]
        /\ \A d \in Call \ {c} : call'[d] = call[d]
    BY <1>7 DEF WriteFile, CallInv, Reading
  <2>6. /\ call'[c].pc = "rename" /\ call'[c].got = Nothing /\ call'[c].snap = call[c].snap
        /\ call'[c].op = call[c].op /\ call'[c].peer = call[c].peer
        /\ temp'[call'[c].name] = call[c].snap
    BY <2>3, <2>5
  <2>7. ASSUME NEW d \in Call
        PROVE  /\ HasRead(d)' => call'[d].got = file'
               /\ call'[d].pc \in {"open", "write", "rename"} =>
                    call'[d].snap = Mutated(d)' /\ cache' = file'
               /\ call'[d].pc # "write" /\ call'[d].pc # "cache"
               /\ call'[d].pc = "rename" => temp'[call'[d].name] = call'[d].snap
    <3>1. CASE d = c
      BY <2>3, <2>4, <2>6, <3>1
    <3>2. CASE d # c
      <4>1. call'[d] = call[d]
        BY <2>5, <3>2
      <4>2. call[d].pc \notin Writing
        BY <2>2, <3>2 DEF Updating
      <4>3. HasRead(d) => call[d].got = file
        BY <2>1 DEF SoundInv
      <4>4. file' = file
        BY <2>3
      <4> QED BY <4>1, <4>2, <4>3, <4>4 DEF Writing
    <3> QED BY <3>1, <3>2
  <2>8. ~Overlap' /\ (~loaded => cache = {})' /\ cache' = file' /\ loaded'
    BY <2>1, <2>3, <2>4
  <2> QED BY <2>7, <2>8 DEF SoundInv
<1>8. ASSUME NEW c \in Call, Rename(c) PROVE SoundInv'
  <2>1. ~raced /\ ~Overlap' /\ SoundInv
    BY <1>8 DEF Rename, Keeping
  <2>2. \A d \in Call \ {c} : ~Updating(d) /\ ~HasRead(d)
    BY <1>8, <2>1 DEF Rename, SoundInv, Overlap, Updating, Writing
  <2>3. file' = call[c].snap /\ Goes(c, "cache")
    <3>1. temp[call[c].name] = call[c].snap
      BY <1>8, <2>1 DEF Rename, SoundInv
    <3>2. temp[call[c].name] # NoFile
      BY <3>1
    <3> QED BY <1>8, <3>1, <3>2 DEF Rename
  <2>4. call[c].got = Nothing
    BY <1>8 DEF Rename, CallInv, Reading
  <2>5. UNCHANGED <<cache, loaded>> /\ loaded /\ call[c].snap = Mutated(c)
    BY <1>8, <2>1 DEF Rename, Keeping, SoundInv, Updating, Writing
  <2>6. /\ call'[c].pc = "cache" /\ call'[c].got = Nothing /\ call'[c].snap = call[c].snap
        /\ call'[c].op = call[c].op /\ call'[c].peer = call[c].peer
        /\ \A d \in Call \ {c} : call'[d] = call[d]
    BY <2>3, <2>4
  <2> QED BY <2>1, <2>2, <2>3, <2>5, <2>6 DEF SoundInv, Updating, Writing
<1>9. ASSUME NEW c \in Call, CacheWritten(c) PROVE SoundInv'
  <2>1. ~raced /\ ~Overlap' /\ SoundInv
    BY <1>9 DEF CacheWritten, Keeping
  <2>2. \A d \in Call \ {c} : ~Updating(d) /\ ~HasRead(d)
    BY <1>9, <2>1 DEF CacheWritten, SoundInv, Overlap, Updating, Writing
  <2>3. cache' = file /\ file' = file /\ loaded'
    BY <1>9, <2>1 DEF CacheWritten, Cached, SoundInv, Keeping
  <2>4. \A d \in Call : ~HasRead(d)' /\ call'[d].pc \notin Writing
    BY <1>9, <2>2 DEF CacheWritten, Updating, Writing
  <2> QED BY <2>1, <2>3, <2>4 DEF SoundInv, Updating, Writing
<1>10. CASE Crash
  <2>1. \A d \in Call : call'[d].got = Nothing /\ call'[d].pc = "idle"
    BY <1>10 DEF Crash
  <2> QED BY <1>10, <2>1 DEF Crash, SoundInv, Overlap, Updating, Writing
<1>11. CASE UNCHANGED vars
  BY <1>11 DEF vars, SoundInv, Overlap, Updating
<1> QED BY <1>1, <1>2, <1>3, <1>4, <1>5, <1>6, <1>7, <1>8, <1>9, <1>10, <1>11 DEF Next

-----------------------------------------------------------------------------
(* Consent. *)

Late == {"get", "update", "open", "write", "rename"}

(* Steps that take nothing from the memory or the consents, and bring no other
   call to an upsert than of a device in them. *)
LEMMA StaysFresh ==
  ASSUME FreshInv, cache \subseteq cache', consented \subseteq consented',
         \A d \in Call :
           \/ call'[d] = call[d]
           \/ call'[d].pc \notin Late \/ call'[d].op = "remove" \/ call'[d].early
           \/ call'[d].peer \in consented' \cup cache'
           \/ /\ call[d].pc \in Late /\ call'[d].op = call[d].op
              /\ call'[d].early = call[d].early /\ call'[d].peer = call[d].peer
  PROVE  FreshInv'
BY DEF FreshInv, Late

LEMMA NextFresh ==
  ASSUME TypeInv, CallInv, ~raced => SoundInv /\ FreshInv, [Next]_vars, ~raced'
  PROVE  FreshInv'
<1>0. call \in [Call -> CallRecord]
  BY DEF TypeInv
<1> USE <1>0, FreshFields
    DEF CallRecord, Goes, Returns, disk, memory, history, At, Late
<1>1. ASSUME NEW c \in Call, NEW p \in Peer, Authorize(c, p) \/ Revoke(c, p)
      PROVE  FreshInv'
  <2>1. FreshInv
    BY <1>1 DEF Authorize, Revoke, Keeping
  <2>2. \A d \in Call : \/ call'[d] = call[d]
                        \/ call'[d].pc \notin Late \/ call'[d].op = "remove"
    <3>1. CASE Authorize(c, p)
      BY <3>1 DEF Authorize, Started
    <3>2. CASE Revoke(c, p)
      BY <3>2 DEF Revoke, Started
    <3> QED BY <1>1, <3>1, <3>2
  <2>3. UNCHANGED <<cache, consented>>
    BY <1>1 DEF Authorize, Revoke, Keeping
  <2> QED BY <2>1, <2>2, <2>3, StaysFresh
<1>2. ASSUME NEW c \in Call, ReadFile(c) PROVE FreshInv'
  <2>1. FreshInv
    BY <1>2 DEF ReadFile, Keeping
  <2>2. \A d \in Call : \/ call'[d].pc \notin Late
                        \/ /\ call[d].pc \in Late /\ call'[d].op = call[d].op
                           /\ call'[d].early = call[d].early /\ call'[d].peer = call[d].peer
    BY <1>2 DEF ReadFile
  <2>3. UNCHANGED <<cache, consented>>
    BY <1>2 DEF ReadFile, Keeping
  <2> QED BY <2>1, <2>2, <2>3, StaysFresh
<1>3. ASSUME NEW c \in Call, Loads(c) PROVE FreshInv'
  <2>1. SoundInv /\ FreshInv
    BY <1>3 DEF Loads, Keeping
  <2>2. \A d \in Call : call[d].pc \notin Writing
    BY <1>3, <2>1 DEF Loads, HasRead, SoundInv, Overlap, Updating, CallInv, Reading, Writing
  <2>3. cache' = file /\ consented' = consented
    BY <1>3, <2>1 DEF Loads, Keeping, SoundInv
  <2>4. cache \subseteq cache'
    BY <2>1, <2>2, <2>3 DEF SoundInv, Writing
  <2>5. \A d \in Call : \/ call'[d].pc \notin Late
                        \/ /\ call[d].pc \in Late /\ call'[d].op = call[d].op
                           /\ call'[d].early = call[d].early /\ call'[d].peer = call[d].peer
    BY <1>3 DEF Loads
  <2> QED BY <2>1, <2>3, <2>4, <2>5, StaysFresh
<1>4. ASSUME NEW c \in Call,
             IsTrusted(c) \/ Matches(c) \/ Get(c) \/ UserAccepts(c) \/ UserRejects(c)
      PROVE  FreshInv'
  <2>1. FreshInv
    BY <1>4 DEF IsTrusted, Matches, Get, UserAccepts, UserRejects, Keeping
  <2>2. cache' = cache /\ consented \subseteq consented'
    BY <1>4 DEF IsTrusted, Matches, Get, UserAccepts, UserRejects, Accepts, Keeping
  <2>3. ASSUME NEW d \in Call
        PROVE  \/ call'[d] = call[d]
               \/ call'[d].pc \notin Late
               \/ call'[d].peer \in consented' \cup cache'
               \/ /\ call[d].pc \in Late /\ call'[d].op = call[d].op
                  /\ call'[d].early = call[d].early /\ call'[d].peer = call[d].peer
    <3>1. CASE IsTrusted(c)
      BY <3>1 DEF IsTrusted, Accepts
    <3>2. CASE Matches(c)
      BY <3>2, <2>2 DEF Matches, MatchesStoredKey
    <3>3. CASE Get(c)
      BY <3>3 DEF Get, Read
    <3>4. CASE UserAccepts(c)
      BY <3>4 DEF UserAccepts, Accepts
    <3>5. CASE UserRejects(c)
      BY <3>5 DEF UserRejects
    <3> QED BY <1>4, <3>1, <3>2, <3>3, <3>4, <3>5
  <2> QED BY <2>1, <2>2, <2>3, StaysFresh
<1>5. ASSUME NEW c \in Call, Snapshot(c) \/ Open(c) \/ WriteFile(c) \/ Rename(c)
      PROVE  FreshInv'
  <2>1. FreshInv
    BY <1>5 DEF Snapshot, Open, WriteFile, Rename, Keeping
  <2>2. UNCHANGED <<cache, consented>>
    BY <1>5 DEF Snapshot, Open, WriteFile, Rename, Keeping
  <2>3. ASSUME NEW d \in Call
        PROVE  \/ call'[d] = call[d]
               \/ call'[d].pc \notin Late
               \/ /\ call[d].pc \in Late /\ call'[d].op = call[d].op
                  /\ call'[d].early = call[d].early /\ call'[d].peer = call[d].peer
    <3>1. CASE Snapshot(c)
      BY <3>1 DEF Snapshot, Read
    <3>2. CASE Open(c)
      BY <3>2 DEF Open
    <3>3. CASE WriteFile(c)
      BY <3>3 DEF WriteFile
    <3>4. CASE Rename(c)
      BY <3>4 DEF Rename
    <3> QED BY <1>5, <3>1, <3>2, <3>3, <3>4
  <2> QED BY <2>1, <2>2, <2>3, StaysFresh
<1>6. ASSUME NEW c \in Call, CacheWritten(c) PROVE FreshInv'
  <2>1. SoundInv /\ FreshInv
    BY <1>6 DEF CacheWritten, Keeping
  <2>2. CASE call[c].op = "remove"
    <3>1. \A d \in Call : call'[d].pc = "idle" \/ call'[d].early
      BY <1>6, <2>2 DEF CacheWritten
    <3> QED BY <3>1 DEF FreshInv
  <2>3. CASE call[c].op # "remove"
    <3>1. call[c].op = "upsert"
      BY <2>3
    <3>2. cache' = cache \cup {call[c].peer}
      BY <1>6, <2>1, <3>1 DEF CacheWritten, Cached, SoundInv, Mutated
    <3>3. /\ consented' = consented
          /\ \A d \in Call : call'[d] = call[d] \/ call'[d].pc \notin Late
      BY <1>6, <2>3 DEF CacheWritten
    <3> QED BY <2>1, <3>2, <3>3, StaysFresh
  <2> QED BY <2>2, <2>3
<1>7. CASE Crash
  <2>1. \A d \in Call : call'[d].pc = "idle"
    BY <1>7 DEF Crash
  <2> QED BY <2>1 DEF FreshInv
<1>8. CASE UNCHANGED vars
  BY <1>8 DEF vars, FreshInv
<1> QED BY <1>1, <1>2, <1>3, <1>4, <1>5, <1>6, <1>7, <1>8 DEF Next

-----------------------------------------------------------------------------
(* The invariant. *)

LEMMA NextInv == TrustInv /\ [Next]_vars => TrustInv'
<1> SUFFICES ASSUME TrustInv, [Next]_vars PROVE TrustInv'
  OBVIOUS
<1>1. TypeInv' /\ CallInv' /\ AcceptedInv'
  BY NextType, NextCall, NextAccepted DEF TrustInv
<1>2. ASSUME ~raced' PROVE SoundInv' /\ FreshInv'
  BY <1>2, NextSound, NextFresh DEF TrustInv
<1> QED BY <1>1, <1>2 DEF TrustInv

LEMMA InvTypes == TrustInv => TypeOK
<1> SUFFICES ASSUME TrustInv PROVE TypeOK
  OBVIOUS
<1>1. ASSUME NEW c \in Call PROVE CallOK(call[c])
  BY DEF TrustInv, TypeInv, CallRecord, CallOK, Await
<1>2. ASSUME NEW c \in Call PROVE temp[c] \in {Torn, NoFile} \/ temp[c] \in Content
  BY DEF TrustInv, TypeInv
<1> QED BY <1>1, <1>2 DEF TrustInv, TypeInv, AcceptedInv, TypeOK

(* Reachable states: what is read, what will be written and what is on disk
   hold together, for any number of overlapping calls, crashes included. *)
THEOREM TrustInvariant == Spec => []TrustInv
<1> QED BY InitInv, NextInv, PTL DEF Spec

(* Consent: for any number of overlapping calls nobody is trusted, on disk or
   in memory, whom neither the user nor the policy accepted. *)
THEOREM Accepted == Spec => []OnlyAccepted
<1>1. TrustInv => OnlyAccepted
  BY DEF TrustInv, AcceptedInv, OnlyAccepted
<1> QED BY <1>1, TrustInvariant, PTL

(* Coherence: while no update overlaps another or the first read, what read()
   of the document answers is what is on disk, and all state is well-formed. *)
THEOREM Coherent == Spec => []StoreCoherent
<1>1. TrustInv => CacheCoherent
  BY DEF TrustInv, SoundInv, CacheCoherent
<1> QED BY <1>1, InvTypes, TrustInvariant, PTL DEF StoreCoherent

-----------------------------------------------------------------------------
(* What a step does to the file. *)

(* The file changes only when an update renames over it, and then it becomes
   what that update made of it. *)
LEMMA FileStep ==
  ASSUME TrustInv, [Next]_vars, ~raced
  PROVE  \/ file' = file
         \/ \E c \in Call : /\ At(c, "rename") /\ ~At(c, "rename")'
                            /\ file' = Mutated(c) /\ cache = file
<1>0. call \in [Call -> CallRecord] /\ SoundInv
  BY DEF TrustInv, TypeInv
<1> USE DEF disk
<1>1. ASSUME NEW c \in Call, NEW p \in Peer, Authorize(c, p) \/ Revoke(c, p)
      PROVE  file' = file
  BY <1>1 DEF Authorize, Revoke, Keeping
<1>2. ASSUME NEW c \in Call,
             \/ ReadFile(c) \/ Loads(c) \/ IsTrusted(c) \/ Matches(c) \/ Get(c)
             \/ UserAccepts(c) \/ UserRejects(c) \/ Snapshot(c) \/ Open(c)
             \/ CacheWritten(c)
      PROVE  file' = file
  BY <1>2 DEF ReadFile, Loads, IsTrusted, Matches, Get, UserAccepts, UserRejects,
              Snapshot, Open, CacheWritten, Keeping
<1>3. ASSUME NEW c \in Call, WriteFile(c) PROVE file' = file
  <2>1. temp[call[c].name] = Torn
    BY <1>0, <1>3 DEF WriteFile, SoundInv
  <2>2. temp[call[c].name] # NoFile
    BY <2>1, Marks
  <2> QED BY <1>3, <2>2 DEF WriteFile
<1>4. ASSUME NEW c \in Call, Rename(c)
      PROVE  /\ At(c, "rename") /\ ~At(c, "rename")'
             /\ file' = Mutated(c) /\ cache = file
  <2>1. /\ At(c, "rename") /\ temp[call[c].name] = call[c].snap
        /\ call[c].snap = Mutated(c) /\ cache = file
    BY <1>0, <1>4 DEF Rename, SoundInv, At
  <2>2. temp[call[c].name] # NoFile
    <3>1. call[c].snap \in Content
      BY <1>0 DEF CallRecord
    <3> QED BY <2>1, <3>1, Marks
  <2>3. file' = temp[call[c].name] /\ Goes(c, "cache")
    BY <1>4, <2>2 DEF Rename
  <2>4. ~At(c, "rename")'
    BY <1>0, <2>3 DEF Goes, At
  <2> QED BY <2>1, <2>3, <2>4
<1>5. CASE Crash \/ UNCHANGED vars
  BY <1>5 DEF Crash, vars
<1> QED BY <1>1, <1>2, <1>3, <1>4, <1>5 DEF Next

LEMMA StepImplements ==
  TrustInv /\ [Next]_vars => [~raced => Store!StoreNext]_vars
<1> SUFFICES ASSUME TrustInv, [Next]_vars, ~raced PROVE Store!StoreNext
  OBVIOUS
<1>1. CASE file' = file
  BY <1>1 DEF Store!StoreNext
<1>2. ASSUME NEW c \in Call, At(c, "rename"), file' = Mutated(c), cache = file
      PROVE  Store!StoreNext
  <2> DEFINE w == [op |-> call[c].op, peer |-> call[c].peer]
  <2>1. w \in Wanted
    BY <1>2 DEF Wanted, Updating, Writing, At
  <2>2. call[c].op \in {"upsert", "remove"}
    BY DEF TrustInv, TypeInv, CallRecord
  <2>3. file' = Store!Effect(w)
    BY <1>2, <2>2 DEF Mutated, Store!Effect
  <2> HIDE DEF w
  <2> QED BY <2>1, <2>3 DEF Store!StoreNext, Store!Apply
<1> QED BY <1>1, <1>2, FileStep

(* Refinement: while no two updates overlap, the file is an atomic, durable
   store, whatever crashes: each step of it is one whole operation under way. *)
THEOREM Implements == Spec => ImplementsStore
BY TrustInvariant, StepImplements, PTL DEF Spec, ImplementsStore

LEMMA StepStaysAway ==
  ASSUME TrustInv, [Next]_vars, NEW p \in Peer,
         ~raced, file # Torn, p \notin file, p \in file'
  PROVE  \/ p \in consented
         \/ \E c \in Call : At(c, "rename") /\ ~At(c, "rename")' /\ call[c].early
<1>1. PICK c \in Call : /\ At(c, "rename") /\ ~At(c, "rename")'
                        /\ file' = Mutated(c) /\ cache = file
  BY FileStep
<1>2. call[c].op = "upsert" /\ call[c].peer = p
  BY <1>1 DEF Mutated
<1>3. CASE call[c].early
  BY <1>1, <1>3
<1>4. CASE ~call[c].early
  <2>1. p \in consented \cup cache
    BY <1>1, <1>2, <1>4 DEF TrustInv, FreshInv, At
  <2> QED BY <1>1, <2>1
<1> QED BY <1>3, <1>4

(* Revocation: while no two updates overlap, a revoked device is stored again
   only on a new consent, or by a call that began before the revocation ended. *)
THEOREM RevokedStays == Spec => RevokedStaysAway
<1>1. TrustInv /\ [Next]_vars =>
        [\A p \in Peer :
           ~raced /\ file # Torn /\ p \notin file /\ p \in file' =>
             \/ p \in consented
             \/ \E c \in Call : At(c, "rename") /\ ~At(c, "rename")' /\ call[c].early]_vars
  BY StepStaysAway
<1> QED BY <1>1, TrustInvariant, PTL DEF Spec, RevokedStaysAway
=============================================================================
