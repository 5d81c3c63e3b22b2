------------------------------ MODULE Plugins -------------------------------
(***************************************************************************)
(* What can be grabbed and what becomes of it: the plugin registry          *)
(* (src/transfer/registry.ts), the content providers and sinks              *)
(* (src/content/providers), the default set of them (src/content/index.ts)  *)
(* and the clipboard backends (src/content/backends). Content is a number:  *)
(* which act of the user put it where it is, 0 being nothing.               *)
(***************************************************************************)
EXTENDS Naturals, Sequences, SequencesExt

(* EntityType and TransferAction, as far as a provider or a sink names them. *)
EntityType == {"clipboard", "text", "image", "file", "browser-tab"}
TransferAction == {"copy", "paste", "move", "open"}

(* Where content is read and written: the formats of the clipboard, in the
   order they are read and written in, and the other sources of providers. *)
Formats == <<"text/plain", "text/html", "image">>
Format == Range(Formats)
Source == Format \cup {"selection", "path", "tab"}
Place == Format \cup {"file", "browser"}

CONTENT_PRIORITY ==
  [clipboard |-> 100, text |-> 90, image |-> 80, file |-> 70, browser |-> 60]

-----------------------------------------------------------------------------
(* Providers read their sources one await at a time; sinks write the contents
   of an entity to places, one await at a time. *)
Provider(name, type, reads) ==
  [type |-> type, reads |-> reads, priority |-> CONTENT_PRIORITY[name]]
ClipboardProvider == Provider("clipboard", "clipboard", Formats)
TextProvider == Provider("text", "text", <<"selection">>)
ClipboardImageProvider == Provider("image", "image", <<"image">>)
FileProvider == Provider("file", "file", <<"path">>)
BrowserProvider == Provider("browser", "browser-tab", <<"tab">>)

Sink(name, types, actions) ==
  [name |-> name, types |-> types, actions |-> actions, priority |-> CONTENT_PRIORITY[name]]
ClipboardSink == Sink("clipboard", {"clipboard", "text"}, {"copy", "paste"})
ClipboardTextSink == Sink("text", {"text"}, {"copy", "paste"})
ImageSink == Sink("image", {"image"}, {"copy", "paste"})
FileSink == Sink("file", {"file"}, {"copy", "move"})
BrowserSink == Sink("browser", {"browser-tab"}, {"open", "copy"})

(* drop(): where the sink puts which part of the entity, in order. *)
Write(place, part) == [place |-> place, part |-> part]
WriteIfAny(entity, format) ==
  IF entity.parts[format] # 0 THEN << Write(format, format) >> ELSE <<>>
Writes(sink, entity) ==
  CASE entity.type = "clipboard" ->
         WriteIfAny(entity, "text/plain") \o WriteIfAny(entity, "text/html")
           \o WriteIfAny(entity, "image")
    [] entity.type = "text" -> << Write("text/plain", "selection") >>
    [] entity.type = "image" -> << Write("image", "image") >>
    [] entity.type = "file" -> << Write("file", "path") >>
    [] entity.type = "browser-tab" -> << Write("browser", "tab") >>

-----------------------------------------------------------------------------
(* registerProvider(), registerSink(): push, and sort stably, best first. *)
RegisterLast(list, plugin) == Append(list, plugin)            \* mutant: no sort
Register(list, plugin) ==
  LET better == {k \in DOMAIN list : list[k].priority >= plugin.priority}
  IN InsertAt(list, Cardinality(better) + 1, plugin)
RegisterAll(plugins) == FoldLeft(Register, <<>>, plugins)

(* defaultContentPlugins(), and what an application adds to them: it registers
   the worst first here, which must not matter. *)
When(option, options, plugin) == IF option \in options THEN <<plugin>> ELSE <<>>
Providers(options) ==
  RegisterAll(<<ClipboardProvider>> \o When("image", options, ClipboardImageProvider)
              \o <<BrowserProvider, FileProvider, TextProvider>>)
Sinks(options) ==
  RegisterAll(<<ClipboardSink>> \o When("image", options, ImageSink)
              \o When("files", options, FileSink)
              \o When("browser", options, BrowserSink)
              \o When("text", options, ClipboardTextSink))

(* resolveSink(): the first that takes the type and the action. *)
SinkMatches(sink, entity, action) ==
  entity.type \in sink.types /\ action \in sink.actions
Matching(options, entity, action) ==
  {k \in DOMAIN Sinks(options) : SinkMatches(Sinks(options)[k], entity, action)}
First(options, matching) == Sinks(options)[Min(matching)]

-----------------------------------------------------------------------------
(* detectClipboardBackend(). *)
Tool == {"wl-copy", "xclip", "xsel"}
Backend == {"wl-clipboard", "xclip", "xsel", "memory"}
Detect(displays, installed) ==
  CASE "wayland" \in displays /\ "wl-copy" \in installed -> "wl-clipboard"
    [] ~("wayland" \in displays /\ "wl-copy" \in installed)
       /\ "x11" \in displays /\ "xclip" \in installed -> "xclip"
    [] ~("wayland" \in displays /\ "wl-copy" \in installed)
       /\ "x11" \in displays /\ "xclip" \notin installed /\ "xsel" \in installed -> "xsel"
    [] OTHER -> "memory"

(* What a backend reads and writes: xsel has text only, reads nothing else and
   throws when it is told to write it. *)
Handles(backend, slot) == slot \in Format /\ backend = "xsel" => slot = "text/plain"

(* Writing: the in-memory backends set one slot; a clipboard tool becomes the
   owner of the selection with one format, so the formats before are gone. *)
Put(backend, there, place, content) ==
  IF place \in Format /\ backend # "memory"
  THEN [p \in Place |-> IF p = place THEN content ELSE IF p \in Format THEN 0 ELSE there[p]]
  ELSE [there EXCEPT ![place] = content]
=============================================================================
