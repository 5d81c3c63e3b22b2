---------------------------- MODULE MCExperience ----------------------------
(* Scores of no gesture, of a pinch and an open palm that beat a weaker rival,
   and of a pointing finger that ties with a fist. *)
EXTENDS Experience
SeenScores == {<<0, 0, 0, 0>>, <<2, 1, 0, 0>>, <<1, 2, 0, 0>>, <<0, 0, 1, 1>>}
=============================================================================
