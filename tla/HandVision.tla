----------------------------- MODULE HandVision -----------------------------
(***************************************************************************)
(* What the camera is taken to show: the recogniser                        *)
(* (src/vision/gestureRecognizer.ts), the mapping of MediaPipe's results   *)
(* (src/vision/mediapipeAdapter.ts) and the state machine of one hand      *)
(* (src/vision/handStateMachine.ts), as operators on a hand's pipeline.    *)
(* Smoothing, the detectors' geometry, swipes, the hold and the confidence *)
(* streams are left out: no transfer follows from them.                    *)
(***************************************************************************)
EXTENDS Naturals, Sequences

CONSTANTS EnterFrames,  \* frames a gesture must persist to become the active one
          NoPipe        \* the engine tracks no such hand

ASSUME EnterFramesAssumption == EnterFrames \in Nat \ {0}

None == "none"
Static == <<"pinch", "open-palm", "point", "fist">>  \* in the order they are scored
Gesture == {None} \cup {Static[k] : k \in 1 .. 4}

(* The gesture of the best score over the minimum, which is 0 here; of equal
   scores the first counts. *)
Classify(scores) ==
  IF \A k \in 1 .. 4 : scores[k] = 0 THEN None
  ELSE Static[CHOOSE k \in 1 .. 4 : /\ \A j \in 1 .. 4 : scores[j] <= scores[k]
                                    /\ \A j \in 1 .. k - 1 : scores[j] < scores[k]]

(* A hand is known by its handedness alone, and by its place without one. *)
HandId(handedness) == IF handedness = "unknown" THEN "hand-0" ELSE handedness

-----------------------------------------------------------------------------
(* candidate, candidateCount (which counts only until the candidate is active)
   and active. *)
Pipeline == [candidate : Gesture, count : 0 .. EnterFrames, active : Gesture]
ASSUME NoPipeAssumption == NoPipe \notin Pipeline
NewPipe == [candidate |-> None, count |-> 0, active |-> None]

Debounced(p, g) ==
  [p EXCEPT !.candidate = g,
            !.count = IF g = p.active THEN 0 ELSE IF p.candidate # g THEN 1 ELSE @ + 1]

Confirmed(p, g) == g # p.active /\ Debounced(p, g).count >= EnterFrames

Updated(p, g) ==
  IF Confirmed(p, g) THEN [candidate |-> g, count |-> 0, active |-> g] ELSE Debounced(p, g)

Leaving(from) == IF from = "pinch" THEN <<"pinch-release">> ELSE <<>>
Entering(to) == IF to = "pinch" THEN <<"pinch-start">>
                ELSE IF to \in {"open-palm", "point"} THEN <<to>> ELSE <<>>

(* transition(); mutant: a gesture counts before it has persisted. *)
Flickers(p, g) == IF g # p.active THEN Leaving(p.active) \o Entering(g) ELSE <<>>
GestureEvents(p, g) == IF Confirmed(p, g) THEN Leaving(p.active) \o Entering(g) ELSE <<>>

(* flushLost(): finalize(), then the loss itself. *)
LostEvents(p) == Leaving(p.active) \o <<"hand-lost">>
=============================================================================
