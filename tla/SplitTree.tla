------------------------------ MODULE SplitTree ------------------------------
(***************************************************************************)
(* One workspace's split tree under every sequence of the operations       *)
(* tiling.rs and keybindings.rs call on it.  What holds of the tree and of *)
(* the rects it is rendered to.                                            *)
(***************************************************************************)
EXTENDS Layout

CONSTANTS
    Boxes, TinyBoxes,   \* usable areas of outputs; very small ones
    Gaps                \* configured gaps

ASSUME SplitTreeAssumption == Boxes \cup TinyBoxes \subseteq Rects /\ Gaps \subseteq Nat

VARIABLE tree

Directions == {"left", "right", "up", "down"}
Positions == 0 .. tree_leaf_count(tree) - 1

Init == tree = None

(* A window starts tiling, stops tiling, is resized.                       *)
InsertLeaf(i) == tree_leaf_count(tree) < MaxLeaves /\ tree' = tree_insert_at(tree, i)
RemoveLeaf(i) == tree' = tree_remove(tree, i)
ResizeLeaf(i, dir) == tree' = tree_resize(tree, i, dir)

Next ==
    \/ \E i \in 0 .. tree_leaf_count(tree) : InsertLeaf(i)
    \/ \E i \in Positions : RemoveLeaf(i) \/ \E dir \in Directions : ResizeLeaf(i, dir)

Spec == Init /\ [][Next]_tree

-----------------------------------------------------------------------------
(* The dividers in order: divider k separates tiled windows k - 1 and k.   *)
DividersOf[t \in Nodes] ==
    IF t = Leaf THEN <<>>
    ELSE DividersOf[t.first] \o <<[vertical |-> t.vertical, ratio |-> t.ratio]>> \o DividersOf[t.second]

Dividers(t) == IF t = None THEN <<>> ELSE DividersOf[t]

Apart(r, s, gap) ==
    \/ r.x + r.w + gap <= s.x \/ s.x + s.w + gap <= r.x
    \/ r.y + r.h + gap <= s.y \/ s.y + s.h + gap <= r.y

Inside(r, b) == b.x <= r.x /\ b.y <= r.y /\ r.x + r.w <= b.x + b.w /\ r.y + r.h <= b.y + b.h

-----------------------------------------------------------------------------
(* Every split has so many pixels to share out besides its gap.            *)
RoomIn[t \in Nodes] ==
    [least \in Nat |-> [gap \in Nat |-> [b \in Rects |->
        \/ t = Leaf
        \/ /\ least <= (IF t.vertical THEN b.w ELSE b.h) - gap
           /\ RoomIn[t.first][least][gap][FirstBox(t, b, gap)]
           /\ RoomIn[t.second][least][gap][SecondBox(t, b, gap)]]]]

HasRoom(box, gap, least) == tree = None \/ RoomIn[tree][least][gap][Padded(box, gap)]

(* The rects never overlap, keep the gap and stay within the margin, where *)
(* no split is down to less than a pixel for each side.                    *)
Tiled(box, gap) ==
    LET rects == tree_rects(tree, box, gap)
    IN  /\ \A i, j \in DOMAIN rects : i # j => Apart(rects[i], rects[j], gap)
        /\ \A i \in DOMAIN rects : Inside(rects[i], Padded(box, gap))

WindowsNeverOverlap ==
    \A box \in Boxes, gap \in Gaps : HasRoom(box, gap, 2) => Tiled(box, gap)

(* Opening windows one after the other gives the dwindle spiral, whatever  *)
(* size the box has: a tree of appended leaves nobody resized renders to   *)
(* what the flat layout it replaced computes.                              *)
AppendsAreTheSpiral ==
    \A box \in Boxes \cup TinyBoxes, gap \in Gaps :
        tree = build_dwindle(tree_leaf_count(tree)) =>
            /\ tree_rects(tree, box, gap) = spiral_rects(tree_leaf_count(tree), box, gap)
            /\ LET n == tree_leaf_count(tree) + 1
               IN  predict_tile_rect(tree, box, gap) = spiral_rects(n, box, gap)[n]

(* Every operation changes the number of leaves by exactly what its caller *)
(* counts on (module TreeInterface, TreeLaws): refresh zips the rects with   *)
(* the tiled windows.                                                      *)
LeavesCounted ==
    LET n == tree_leaf_count(tree)
    IN  /\ n = 0 <=> tree = None
        /\ \A i \in 0 .. n : tree_leaf_count(tree_insert_at(tree, i)) = n + 1
        /\ \A i \in Positions :
            /\ tree_leaf_count(tree_remove(tree, i)) = n - 1
            /\ \A dir \in Directions : tree_leaf_count(tree_resize(tree, i, dir)) = n

(* A leaf that is taken out right after it was put in leaves the tree as   *)
(* it was: the window that maps straight into fullscreen (handle_map).     *)
RemoveUndoesInsert ==
    \A i \in 0 .. tree_leaf_count(tree) : tree_remove(tree_insert_at(tree, i), i) = tree

(* A window that opens, closes, floats or tiles adds or takes one divider, *)
(* next to its own place, and leaves every other window's ratio alone      *)
(* (docs/design.md, "Layout").                                             *)
OtherDividersKept ==
    LET old == Dividers(tree)
    IN  tree # None =>
        /\ \A i \in 0 .. tree_leaf_count(tree) :
            LET new == Dividers(tree_insert_at(tree, i))
            IN  \E k \in {i, i + 1} \cap DOMAIN new :
                    RemoveAt(new, k) = old /\ new[k].ratio = DefaultRatio
        /\ old # <<>> => \A i \in Positions :
            \E k \in {i, i + 1} \cap DOMAIN old :
                RemoveAt(old, k) = Dividers(tree_remove(tree, i))

(* A resize moves one divider at most, on its own axis and by one step,    *)
(* and the window it was asked for is one that changes size, where a step  *)
(* is no less than a pixel.                                                *)
ResizeMovesOneDivider ==
    \A i \in Positions, dir \in Directions :
        LET resized == tree_resize(tree, i, dir)
            old == Dividers(tree)
            delta == IF dir \in {"right", "down"} THEN 1 ELSE -1
        IN  resized # tree =>
            /\ \E k \in DOMAIN old :
                /\ old[k].vertical = (dir \in {"left", "right"})
                /\ Dividers(resized) = [old EXCEPT ![k].ratio = @ + delta]
            /\ \A box \in Boxes, gap \in Gaps :
                HasRoom(box, gap, RatioUnits) =>
                    tree_rects(tree, box, gap)[i + 1] # tree_rects(resized, box, gap)[i + 1]
=============================================================================
