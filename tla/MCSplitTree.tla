----------------------------- MODULE MCSplitTree -----------------------------
(***************************************************************************)
(* SplitTree and Navigation for TLC: two boxes with room for four windows  *)
(* at any ratio, one without it for all, and small ones down to a pixel.   *)
(***************************************************************************)
EXTENDS Navigation

UsableAreas == {Rect(0, 0, 640, 400), Rect(-30, 7, 401, 399), Rect(3, 0, 60, 44)}
VerySmall == {Rect(x, 0, w, h) : x \in {0, 5}, w \in 1 .. 9, h \in {1, 2, 7, 30}}
=============================================================================
