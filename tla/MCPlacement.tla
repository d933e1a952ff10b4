---------------------------- MODULE MCPlacement ----------------------------
(***************************************************************************)
(* Placement for TLC: a monitor with a bar at times, and two that mirror   *)
(* each other, placed by their `monitor =` lines; one monitor more than    *)
(* there are workspaces.                                                   *)
(***************************************************************************)
EXTENDS Placement, TLC

CONSTANTS m1, m2, m3

Sizes == m1 :> 4 @@ m2 :> 2 @@ m3 :> 2
BarOnFirst == m1 :> {0, 1} @@ m2 :> {0} @@ m3 :> {0}
BothAtOrigin == m2 :> 0 @@ m3 :> 0
Mirrored == Permutations({m2, m3})
=============================================================================
