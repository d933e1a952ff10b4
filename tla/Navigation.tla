------------------------------ MODULE Navigation ------------------------------
(***************************************************************************)
(* spatial_neighbor (src/tiling.rs): which window the direction keys go to,*)
(* and which one movewindow swaps places with, by the rects on screen.     *)
(* Checked over every split tree, rendered by module Layout.               *)
(***************************************************************************)
EXTENDS SplitTree

Horizontal == {"left", "right"}
Opposite(dir) ==
    CASE dir = "left" -> "right" [] dir = "right" -> "left"
      [] dir = "up" -> "down" [] dir = "down" -> "up"

CenterX(r) == r.x + r.w \div 2
CenterY(r) == r.y + r.h \div 2

(* The length two intervals have in common.                                *)
Common(a, n, b, m) ==
    LET from == IF a < b THEN b ELSE a
        to == IF a + n < b + m THEN a + n ELSE b + m
    IN  IF from < to THEN to - from ELSE 0

(* How much of a border r and s share across dir, were they side by side.  *)
Overlap(r, s, dir) ==
    IF dir \in Horizontal THEN Common(r.y, r.h, s.y, s.h) ELSE Common(r.x, r.w, s.x, s.w)

(* How far s's center is from r's, towards dir.                            *)
Distance(r, s, dir) ==
    CASE dir = "left" -> CenterX(r) - CenterX(s)
      [] dir = "right" -> CenterX(s) - CenterX(r)
      [] dir = "up" -> CenterY(r) - CenterY(s)
      [] dir = "down" -> CenterY(s) - CenterY(r)

Candidates(rects, from, dir) ==
    {i \in DOMAIN rects : i # from /\ Distance(rects[from], rects[i], dir) > 0}

(* Broken: centers alone decide, as they did before.                       *)
NearestCenter(rects, from, dir) ==
    LET far(i) == Distance(rects[from], rects[i], dir)
        found == Candidates(rects, from, dir)
    IN  IF found = {} THEN 0
        ELSE Min({i \in found : \A j \in found : far(i) <= far(j)})

(* The most border first and then the least distance, the last window of   *)
(* several; without any border in common, the nearest, the first of        *)
(* several; 0 for None.                                                    *)
spatial_neighbor(rects, from, dir) ==
    LET found == Candidates(rects, from, dir)
        far == [i \in found |-> Distance(rects[from], rects[i], dir)]
        border == [i \in found |-> Overlap(rects[from], rects[i], dir)]
        AsGood(i, j) ==
            border[i] > border[j] \/ (border[i] = border[j] /\ far[i] <= far[j])
    IN  CASE found = {} -> 0
          [] \E i \in found : border[i] > 0 -> Max({i \in found : \A j \in found : AsGood(i, j)})
          [] OTHER -> Min({i \in found : \A j \in found : far[i] <= far[j]})

-----------------------------------------------------------------------------
Along(r, dir) == IF dir \in Horizontal THEN <<r.y, r.h>> ELSE <<r.x, r.w>>

(* s is the window right beside r: the gap between them and nothing else.  *)
Beside(r, s, dir, gap) ==
    CASE dir = "left" -> s.x + s.w + gap = r.x
      [] dir = "right" -> r.x + r.w + gap = s.x
      [] dir = "up" -> s.y + s.h + gap = r.y
      [] dir = "down" -> r.y + r.h + gap = s.y

(* In every box with room, with every gap.                                 *)
Everywhere(P(_, _)) ==
    \A box \in Boxes, gap \in Gaps : HasRoom(box, gap, 2) => P(tree_rects(tree, box, gap), gap)

(* No window is cut off: from a window right beside it a direction key     *)
(* leads into it, however the tree came about and has been resized         *)
(* (src/tiling.rs, spatial_neighbor).                                      *)
NoWindowCutOff ==
    Everywhere(LAMBDA rects, gap :
        \A j \in DOMAIN rects :
            \/ DOMAIN rects = {j}
            \/ \E i \in DOMAIN rects, dir \in Directions :
                  Beside(rects[i], rects[j], dir, gap) /\ spatial_neighbor(rects, i, dir) = j)

(* Two windows that stand side by side with a whole border in common are   *)
(* each other's neighbours: there and back again (src/tiling.rs).          *)
ThereAndBack ==
    Everywhere(LAMBDA rects, gap :
        \A i, j \in DOMAIN rects, dir \in Directions :
            Beside(rects[i], rects[j], dir, gap) /\ Along(rects[i], dir) = Along(rects[j], dir) =>
                /\ spatial_neighbor(rects, i, dir) = j
                /\ spatial_neighbor(rects, j, Opposite(dir)) = i)

(* A window with a piece of border on the side the key asks for is not     *)
(* left for one that only meets it at a corner (src/tiling.rs).            *)
BordersComeFirst ==
    Everywhere(LAMBDA rects, gap :
        \A i, k \in DOMAIN rects, dir \in Directions :
            Beside(rects[i], rects[k], dir, gap) /\ Overlap(rects[i], rects[k], dir) > 0 =>
                LET j == spatial_neighbor(rects, i, dir)
                IN  j # 0 /\ Overlap(rects[i], rects[j], dir) > 0)

(* What the repository says and the code does not hold: the window chosen  *)
(* across a border is the adjacent one (src/tiling.rs, src/config.rs).     *)
NeighbourIsBeside ==
    Everywhere(LAMBDA rects, gap :
        \A i \in DOMAIN rects, dir \in Directions :
            LET j == spatial_neighbor(rects, i, dir)
            IN  j # 0 /\ Overlap(rects[i], rects[j], dir) > 0 =>
                    Beside(rects[i], rects[j], dir, gap))
=============================================================================
