------------------------------ MODULE MCContent -----------------------------
(* Two transfers one after the other or at once, between the kinds of machines
   that detectClipboardBackend() tells apart (wl-clipboard and xclip behave
   alike, and a source without tools reads as one with them does), for offers
   with one or two formats, selected text, a file or a tab. *)
EXTENDS Content
CONSTANTS j1, j2
Machine(displays, installed) == [displays |-> displays, installed |-> installed]
Wayland == Machine({"wayland", "x11"}, {"wl-copy", "xclip"})
Xsel == Machine({"x11"}, {"wl-copy", "xsel"})
Bare == Machine({"wayland"}, {"xclip"})
MCMachines == {Wayland, Xsel} \X {Wayland, Xsel, Bare}
MCOptions == { {"image", "files"}, {"browser", "text"} }
Symmetry == Permutations(Job)
(* Delivered says nothing of a transfer with a mishap, and mishaps stay. *)
Undisturbed == \E j \in Job : ~mishap[j]
MCOffers == { {"text/plain", "text/html"}, {"text/html", "image"},
              {"selection"}, {"tab", "path"}, {"tab"} }
=============================================================================
