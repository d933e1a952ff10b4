------------------------------ MODULE MCScreens ------------------------------
(***************************************************************************)
(* Screens for TLC: a bar that changes its exclusive zone, and one that    *)
(* moves between the bottom and the top layer, under and beside the first. *)
(***************************************************************************)
EXTENDS Screens, TLC

CONSTANTS b1, b2, o1, o2

BarLayers == b1 :> {2} @@ b2 :> {1, 2}
BarZones == b1 :> {1, 3} @@ b2 :> {2}
=============================================================================
