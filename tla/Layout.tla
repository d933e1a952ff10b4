------------------------------- MODULE Layout -------------------------------
(***************************************************************************)
(* src/layout.rs: a workspace's split tree and the pure operations on it.  *)
(* Names are the source's.  A tree is None, a Leaf, or a split of two      *)
(* trees; leaf i (from 0, in order) is tiled window i.                     *)
(*                                                                         *)
(* A ratio is an integer, out of RatioUnits, and a resize moves it by      *)
(* one: with 20 units (RESIZE_STEP is 0.05) the default 0.5 is 10, and the *)
(* code's bounds are 2 and 18.  The code's f32 arithmetic agrees up to a   *)
(* rounding error, which may move a divider by a pixel.                    *)
(*                                                                         *)
(* The source's recursive functions are functions on Nodes here, and take  *)
(* their other arguments one after the other.                              *)
(***************************************************************************)
EXTENDS Integers, SequencesExt

CONSTANTS
    RatioUnits, MinRatio, MaxRatio, DefaultRatio,
    MaxLeaves   \* bound: windows tiled at a time

ASSUME LayoutAssumption ==
    /\ {RatioUnits, MinRatio, MaxRatio, DefaultRatio, MaxLeaves} \subseteq Nat \ {0}
    /\ MinRatio <= DefaultRatio /\ DefaultRatio <= MaxRatio /\ MaxRatio < RatioUnits
    /\ RatioUnits = 2 * DefaultRatio

None == [kind |-> "none"]
Leaf == [kind |-> "leaf"]

Split(vertical, ratio, first, second) ==
    [kind |-> "split", vertical |-> vertical, ratio |-> ratio, first |-> first, second |-> second]

(* The trees of at most n levels of splits; and as many as the operations  *)
(* make, one to a leaf.                                                    *)
Levels[n \in Nat] ==
    IF n = 0 THEN {Leaf}
    ELSE {Leaf} \cup [kind : {"split"}, vertical : BOOLEAN, ratio : MinRatio .. MaxRatio,
                      first : Levels[n - 1], second : Levels[n - 1]]

Nodes == Levels[MaxLeaves]

Leaves[t \in Nodes] == IF t = Leaf THEN 1 ELSE Leaves[t.first] + Leaves[t.second]

tree_leaf_count(t) == IF t = None THEN 0 ELSE Leaves[t]

(* Whether leaf i of a split is in its first child; where in its second.   *)
InFirst(t, i) == i < Leaves[t.first]
InSecond(t, i) == i - Leaves[t.first]

-----------------------------------------------------------------------------
(* The dwindle spiral.                                                     *)
DwindleFrom[n \in 0 .. MaxLeaves] ==
    [vertical \in BOOLEAN |->
        IF n <= 1 THEN Leaf ELSE Split(vertical, DefaultRatio, Leaf, DwindleFrom[n - 1][~vertical])]

build_dwindle(n) == IF n = 0 THEN None ELSE DwindleFrom[n][TRUE]

-----------------------------------------------------------------------------
(* Insertion, removal, resize.                                             *)
InsertInto[t \in Nodes] ==
    [axis \in BOOLEAN |-> [i \in Nat |->
        IF t = Leaf THEN Split(axis, DefaultRatio, Leaf, Leaf)
        ELSE IF InFirst(t, i)
        THEN [t EXCEPT !.first = InsertInto[t.first][~t.vertical][i]]
        ELSE [t EXCEPT !.second = InsertInto[t.second][~t.vertical][InSecond(t, i)]]]]

(* Broken: the new window shares the whole box, not its neighbour's.       *)
InsertAtRoot(t, i) == IF t = None THEN Leaf ELSE Split(TRUE, DefaultRatio, t, Leaf)

tree_insert_at(t, i) == IF t = None THEN Leaf ELSE InsertInto[t][TRUE][i]

(* Broken: the sibling is rebuilt, its ratios reset.                       *)
CollapsedAndRebuilt(t, f, s) ==
    CASE f = None -> build_dwindle(Leaves[s])
      [] s = None -> build_dwindle(Leaves[f])
      [] OTHER -> Split(t.vertical, t.ratio, f, s)

(* Broken: a `?` on the way down takes the whole split away.               *)
CollapsedAway(t, f, s) == IF None \in {f, s} THEN None ELSE Split(t.vertical, t.ratio, f, s)

(* A split whose children became f and s: a child that is gone leaves its  *)
(* place to the other.                                                     *)
Collapsed(t, f, s) ==
    CASE f = None -> s
      [] s = None -> f
      [] OTHER -> Split(t.vertical, t.ratio, f, s)

RemoveFrom[t \in Nodes] ==
    [i \in Nat |->
        IF t = Leaf THEN None
        ELSE IF InFirst(t, i)
        THEN Collapsed(t, RemoveFrom[t.first][i], t.second)
        ELSE Collapsed(t, t.first, RemoveFrom[t.second][InSecond(t, i)])]

tree_remove(t, i) == IF t = None THEN None ELSE RemoveFrom[t][i]

Clamp(r) == IF r < MinRatio THEN MinRatio ELSE IF r > MaxRatio THEN MaxRatio ELSE r

IsVertical(dir) == dir \in {"left", "right"}
Step(dir) == IF dir \in {"right", "down"} THEN 1 ELSE -1

(* Broken: goes on to the splits further up as well.                       *)
ResizeCascading(t, i, dir) ==
    LET Moved(u) == IF u.vertical = IsVertical(dir) THEN [u EXCEPT !.ratio = Clamp(@ + Step(dir))] ELSE u
        cascade[u \in Nodes] ==
            [j \in Nat |->
                IF u = Leaf THEN u
                ELSE IF InFirst(u, j) THEN Moved([u EXCEPT !.first = cascade[u.first][j]])
                ELSE Moved([u EXCEPT !.second = cascade[u.second][InSecond(u, j)]])]
    IN  cascade[t][i]

(* The axes of the splits above leaf i.                                    *)
Axes[t \in Nodes] ==
    [i \in Nat |->
        IF t = Leaf THEN {}
        ELSE {t.vertical} \cup
             IF InFirst(t, i) THEN Axes[t.first][i] ELSE Axes[t.second][InSecond(t, i)]]

(* The nearest split above leaf i that is on the axis moves its divider; a *)
(* child that has one, though at its bound, handles it.                    *)
Resize[t \in Nodes] ==
    [axis \in BOOLEAN |-> [step \in {-1, 1} |-> [i \in Nat |->
        IF axis \notin Axes[t][i] THEN t
        ELSE IF InFirst(t, i) /\ axis \in Axes[t.first][i]
        THEN [t EXCEPT !.first = Resize[t.first][axis][step][i]]
        ELSE IF ~InFirst(t, i) /\ axis \in Axes[t.second][InSecond(t, i)]
        THEN [t EXCEPT !.second = Resize[t.second][axis][step][InSecond(t, i)]]
        ELSE [t EXCEPT !.ratio = Clamp(t.ratio + step)]]]]

tree_resize(t, i, dir) == Resize[t][IsVertical(dir)][Step(dir)][i]

-----------------------------------------------------------------------------
(* Rendering to rects.                                                     *)

Rects == [x : Int, y : Int, w : Int, h : Int]
Rect(x, y, w, h) == [x |-> x, y |-> y, w |-> w, h |-> h]

AtLeast1(n) == IF n < 1 THEN 1 ELSE n

(* How a split shares out a length.                                        *)
FirstPart(n, ratio, gap) == AtLeast1(((n - gap) * ratio) \div RatioUnits)
SecondPart(n, ratio, gap) == AtLeast1(n - gap - FirstPart(n, ratio, gap))

FirstBox(t, b, gap) ==
    IF t.vertical THEN Rect(b.x, b.y, FirstPart(b.w, t.ratio, gap), b.h)
                  ELSE Rect(b.x, b.y, b.w, FirstPart(b.h, t.ratio, gap))

(* Broken: the second child starts where the first one ends.               *)
SecondBoxWithoutGap(t, b, gap) ==
    IF t.vertical
    THEN Rect(b.x + FirstPart(b.w, t.ratio, gap), b.y, SecondPart(b.w, t.ratio, gap), b.h)
    ELSE Rect(b.x, b.y + FirstPart(b.h, t.ratio, gap), b.w, SecondPart(b.h, t.ratio, gap))

SecondBox(t, b, gap) ==
    IF t.vertical
    THEN Rect(b.x + FirstPart(b.w, t.ratio, gap) + gap, b.y, SecondPart(b.w, t.ratio, gap), b.h)
    ELSE Rect(b.x, b.y + FirstPart(b.h, t.ratio, gap) + gap, b.w, SecondPart(b.h, t.ratio, gap))

RectsIn[t \in Nodes] ==
    [gap \in Nat |-> [b \in Rects |->
        IF t = Leaf THEN <<Rect(b.x, b.y, AtLeast1(b.w), AtLeast1(b.h))>>
        ELSE RectsIn[t.first][gap][FirstBox(t, b, gap)] \o RectsIn[t.second][gap][SecondBox(t, b, gap)]]]

(* The outer margin.                                                       *)
Padded(b, gap) ==
    Rect(b.x + gap, b.y + gap, AtLeast1(b.w - gap * 2), AtLeast1(b.h - gap * 2))

tree_rects(t, b, gap) == IF t = None THEN <<>> ELSE RectsIn[t][gap][Padded(b, gap)]

(* spiral_rects, the flat reference: window i of n takes the first half of *)
(* what is left, the last one all of it.                                   *)
HalfOf(n, gap) == AtLeast1((n - gap) \div 2)

SpiralFrom[n \in 0 .. MaxLeaves + 1] ==
    [vertical \in BOOLEAN |-> [gap \in Nat |-> [b \in Rects |->
        IF n = 0 THEN <<>>
        ELSE IF n = 1 THEN <<b>>
        ELSE IF vertical
        THEN LET half == HalfOf(b.w, gap)
             IN  <<Rect(b.x, b.y, half, b.h)>> \o SpiralFrom[n - 1][FALSE][gap]
                    [Rect(b.x + half + gap, b.y, AtLeast1(b.w - half - gap), b.h)]
        ELSE LET half == HalfOf(b.h, gap)
             IN  <<Rect(b.x, b.y, b.w, half)>> \o SpiralFrom[n - 1][TRUE][gap]
                    [Rect(b.x, b.y + half + gap, b.w, AtLeast1(b.h - half - gap))]]]]

spiral_rects(n, b, gap) == SpiralFrom[n][TRUE][gap][Padded(b, gap)]

(* predict_tile_rect (src/tiling.rs): the last rect of a simulated append. *)
predict_tile_rect(t, b, gap) ==
    LET rects == tree_rects(tree_insert_at(t, tree_leaf_count(t)), b, gap)
    IN  rects[Len(rects)]
=============================================================================
