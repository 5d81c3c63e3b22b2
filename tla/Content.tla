------------------------------ MODULE Content -------------------------------
(***************************************************************************)
(* Content from one device to the other: a grab captures what the source   *)
(* offers, provider by provider and slot by slot (resolveProvider() of     *)
(* src/transfer/registry.ts), the entity travels (MeshTransfer), and the   *)
(* destination hands it to an action handler or a sink (receive() of       *)
(* src/transfer/transferRuntime.ts), which writes it place by place. Every *)
(* read and write is an await: the users of both devices go on copying and *)
(* the transfers of several hands interleave.                              *)
(***************************************************************************)
EXTENDS Plugins

CONSTANTS Job,      \* transfers
          Machines, \* what source and destination may be: their displays and installed tools
          Options,  \* sets of options of the plugins
          Offers,   \* sets of sources that have content at first, or together
          MaxCopies \* bound: acts of the two users

ASSUME SetupAssumption ==
  /\ Machines \subseteq
       [1 .. 2 -> [displays : SUBSET {"wayland", "x11"}, installed : SUBSET Tool]]
  /\ Options \subseteq SUBSET {"image", "files", "browser", "text"}
  /\ Offers \subseteq SUBSET Source
  /\ MaxCopies \in Nat

VARIABLES
  here,     \* the clipboard backend of the source
  backend,  \* and of the destination
  options,  \* of the plugins at both
  handlers, \* actions with a handler of their own at the destination
  offered,  \* at the source: Source -> content
  there,    \* at the destination: Place -> content
  copies,   \* acts of the users so far
  job,      \* of each transfer: its stage, and what is captured of it
  mishap    \* history, of each transfer: somebody interfered with it, or a tool failed

vars == <<here, backend, options, handlers, offered, there, copies, job, mishap>>
setup == <<here, backend, options, handlers>>

Nothing == [s \in Source |-> 0]
Idle == [stage |-> "idle", action |-> "copy", todo |-> <<>>, reads |-> <<>>,
         entity |-> [type |-> "clipboard", parts |-> Nothing], writes |-> <<>>]

TypeOK ==
  /\ here \in Backend /\ backend \in Backend
  /\ handlers \subseteq TransferAction
  /\ offered \in [Source -> 0 .. copies + 1] /\ there \in [Place -> 0 .. copies + 1]
  /\ mishap \in [Job -> BOOLEAN]
  /\ \A j \in Job :
       /\ job[j].stage \in {"idle", "capturing", "empty", "sent", "dropping", "handled",
                            "accepted", "refused"}
       /\ job[j].entity.type \in EntityType /\ job[j].action \in TransferAction
       /\ job[j].stage = "dropping" => job[j].writes # <<>>

Init ==
  /\ \E machines \in Machines :
       /\ here = Detect(machines[1].displays, machines[1].installed)
       /\ backend = Detect(machines[2].displays, machines[2].installed)
  /\ options \in Options
  /\ handlers \in {{}, {"open"}}
  /\ \E full \in Offers : offered = [s \in Source |-> IF s \in full THEN 1 ELSE 0]
  /\ there = [p \in Place |-> 0]
  /\ copies = 0
  /\ job = [j \in Job |-> Idle] /\ mishap = [j \in Job |-> FALSE]

-----------------------------------------------------------------------------
(* The source: providers are asked in the order of the registry. *)
Ask(todo) ==
  IF todo = <<>> THEN [Idle EXCEPT !.stage = "empty"]
  ELSE [Idle EXCEPT !.stage = "capturing", !.todo = todo, !.reads = Head(todo).reads,
                    !.entity.type = Head(todo).type]

Grab(j, action) ==
  /\ job[j].stage = "idle"
  /\ job' = [job EXCEPT ![j] = [Ask(Providers(options)) EXCEPT !.action = action]]
  /\ UNCHANGED <<setup, offered, there, copies, mishap>>

(* One slot is read, nothing if there is nothing or the tool fails. After the
   last one of a provider its entity is sent, or the next provider is asked. *)
Captured(j, parts) ==
  LET left == Tail(job[j].reads)
  IN IF left # <<>> THEN [job[j] EXCEPT !.reads = left, !.entity.parts = parts]
     ELSE IF parts # Nothing
          THEN [job[j] EXCEPT !.stage = "sent", !.todo = <<>>, !.reads = <<>>,
                              !.entity.parts = parts]
          ELSE [Ask(Tail(job[j].todo)) EXCEPT !.action = job[j].action]

Read(j, works) ==
  /\ job[j].stage = "capturing"
  /\ LET slot == Head(job[j].reads)
         content == IF works /\ Handles(here, slot) THEN offered[slot] ELSE 0
     IN job' = [job EXCEPT ![j] = Captured(j, [job[j].entity.parts EXCEPT ![slot] = content])]
  /\ mishap' = [mishap EXCEPT ![j] = @ \/ ~works]
  /\ UNCHANGED <<setup, offered, there, copies>>

-----------------------------------------------------------------------------
(* The destination: receive(), and the sink's drop(). *)
Stage(j, stage) == job' = [job EXCEPT ![j].stage = stage, ![j].writes = <<>>]

Receive(j) ==
  /\ job[j].stage = "sent"
  /\ LET sinks == Matching(options, job[j].entity, job[j].action)
     IN CASE job[j].action \in handlers -> Stage(j, "handled")
          [] job[j].action \notin handlers /\ sinks = {} -> Stage(j, "refused")
          [] job[j].action \notin handlers /\ sinks # {} ->
               job' = [job EXCEPT ![j].stage = "dropping",
                                  ![j].writes = Writes(First(options, sinks), job[j].entity)]
  /\ UNCHANGED <<setup, offered, there, copies, mishap>>

(* Whoever writes interferes with every other transfer that has begun to. *)
Writing(j) == job[j].stage \in {"dropping", "handled", "accepted", "refused"}
Drop(j) ==
  /\ job[j].stage = "dropping" /\ Handles(backend, Head(job[j].writes).place)
  /\ LET write == Head(job[j].writes)
         left == Tail(job[j].writes)
     IN /\ there' = Put(backend, there, write.place, job[j].entity.parts[write.part])
        /\ IF left = <<>> THEN Stage(j, "accepted")
                          ELSE job' = [job EXCEPT ![j].writes = left]
  /\ mishap' = [i \in Job |-> mishap[i] \/ (i # j /\ Writing(i))]
  /\ UNCHANGED <<setup, offered, copies>>

(* The backend cannot write this, or its tool fails: the transfer is refused,
   whatever of it has been written. *)
DropThrows(j) ==
  /\ job[j].stage = "dropping" /\ Stage(j, "refused")
  /\ mishap' = [mishap EXCEPT ![j] = @ \/ Handles(backend, Head(job[j].writes).place)]
  /\ UNCHANGED <<setup, offered, there, copies>>

-----------------------------------------------------------------------------
(* The users: one copies at the source, or selects other text, another file or
   tab; one copies at the destination. *)
Copies(formats) ==
  /\ copies < MaxCopies /\ copies' = copies + 1
  /\ offered' = [s \in Source |-> IF s \in formats THEN copies' + 1
                                  ELSE IF s \in Format THEN 0 ELSE offered[s]]
  /\ mishap' = [j \in Job |-> mishap[j] \/ job[j].stage # "idle"]
  /\ UNCHANGED <<setup, there, job>>
Selects(source) ==
  /\ copies < MaxCopies /\ copies' = copies + 1
  /\ offered' = [offered EXCEPT ![source] = copies' + 1]
  /\ mishap' = [j \in Job |-> mishap[j] \/ job[j].stage # "idle"]
  /\ UNCHANGED <<setup, there, job>>
CopiesThere(formats) ==
  /\ copies < MaxCopies /\ copies' = copies + 1
  /\ there' = [p \in Place |-> IF p \in formats THEN copies' + 1
                               ELSE IF p \in Format THEN 0 ELSE there[p]]
  /\ mishap' = [j \in Job |-> mishap[j] \/ Writing(j)]
  /\ UNCHANGED <<setup, offered, job>>

Clips == {offer \cap Format : offer \in Offers} \ {{}}
Next ==
  \/ \E j \in Job :
       \/ \E action \in TransferAction : Grab(j, action)
       \/ \E works \in BOOLEAN : Read(j, works)
       \/ Receive(j) \/ Drop(j) \/ DropThrows(j)
  \/ \E formats \in Clips : Copies(formats) \/ CopiesThere(formats)
  \/ \E source \in Source \ Format : Selects(source)

Spec == Init /\ [][Next]_vars

-----------------------------------------------------------------------------
(* What the user could expect of a transfer: what is offered now, best first. *)
Readable(slot) == IF Handles(here, slot) THEN offered[slot] ELSE 0
HasFormat == {f \in Format : Readable(f) # 0}
Best ==
  CASE HasFormat # {} -> "clipboard"
    [] HasFormat = {} /\ offered["selection"] # 0 -> "text"
    [] HasFormat = {} /\ offered["selection"] = 0 /\ offered["path"] # 0 -> "file"
    [] HasFormat = {} /\ offered["selection"] = 0 /\ offered["path"] = 0
       /\ offered["tab"] # 0 -> "browser-tab"
    [] OTHER -> "none"

(* An accepted transfer that nobody interfered with has brought the best of what
   the source offers: every format of the clipboard that the source can read
   where backends keep formats side by side, the last of them where a tool
   replaces the selection, or else the selected text, the file, the tab. *)
Brought(j) ==
  LET last == CHOOSE f \in HasFormat : \A k \in DOMAIN Formats :
                Formats[k] \in HasFormat => \E i \in DOMAIN Formats : i >= k /\ Formats[i] = f
  IN CASE Best = "clipboard" ->
            IF backend = "memory" THEN \A f \in HasFormat : there[f] = offered[f]
            ELSE \A f \in Format : there[f] = IF f = last THEN offered[f] ELSE 0
       [] Best = "text" -> there["text/plain"] = offered["selection"]
       [] Best = "file" -> there["file"] = offered["path"]
       [] Best = "browser-tab" -> there["browser"] = offered["tab"]
       [] Best = "none" -> FALSE

(* It is refused exactly for an action that goes with no such content, a sink
   that is left out, or a format that the backend there cannot write. *)
Refusable(j) ==
  \/ Best = "clipboard" /\ (job[j].action \in {"move", "open"}
                            \/ \E f \in HasFormat : ~Handles(backend, f))
  \/ Best = "text" /\ job[j].action \in {"move", "open"}
  \/ Best = "file" /\ (job[j].action \in {"paste", "open"} \/ "files" \notin options)
  \/ Best = "browser-tab" /\ (job[j].action \in {"paste", "move"} \/ "browser" \notin options)

(* The end of every transfer that nobody interfered with (receive(),
   transferRuntime.ts:257-300) is the truth about what is at the destination;
   only an empty offer is not sent. *)
Delivered ==
  \A j \in Job : ~mishap[j] =>
    /\ job[j].stage = "accepted" => Brought(j) /\ ~Refusable(j)
    /\ job[j].stage = "refused" => Refusable(j)
    /\ job[j].stage = "empty" => Best = "none"

(* The same, of well-formed transfers. *)
DeliveredAsOffered == TypeOK /\ Delivered

(* "sink writes every format back" (docs/PHASE5B.md:60). *)
EveryFormat ==
  \A j \in Job : job[j].stage = "accepted" /\ ~mishap[j] /\ job[j].entity.type = "clipboard" =>
    \A f \in HasFormat : there[f] = offered[f]
=============================================================================
