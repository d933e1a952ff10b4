---------------------------- MODULE TreeInterface ----------------------------
(***************************************************************************)
(* The split tree as its users see it: what module ServerState's handlers  *)
(* rely on.  Module Layout defines the real one, and module LayoutProofs   *)
(* proves that it satisfies TreeLaws.                                      *)
(***************************************************************************)
EXTENDS Integers, FiniteSets

CONSTANTS
    Toplevels,              \* the application windows clients create
    Trees, NoTree,          \* all trees (Option<Node>); None
    LeafCount(_),           \* tree_leaf_count, 0 for None
    TreeInsertAt(_, _),     \* tree_insert_at(tree, i)
    TreeRemove(_, _),       \* tree_remove(tree, i)
    TreeResize(_, _, _)     \* tree_resize(tree, i, dir, RESIZE_STEP)

Directions == {"left", "right", "up", "down"}

(* What the handlers rely on of the tree: a leaf more, a leaf less, as     *)
(* many leaves, and no tree but None without a leaf.  No workspace tiles   *)
(* more windows than there are.                                            *)
TreeLaws ==
    /\ NoTree \in Trees
    /\ \A t \in Trees :
        /\ LeafCount(t) \in Nat
        /\ LeafCount(t) = 0 <=> t = NoTree
        /\ LeafCount(t) < Cardinality(Toplevels) => \A i \in 0 .. LeafCount(t) :
            /\ TreeInsertAt(t, i) \in Trees
            /\ LeafCount(TreeInsertAt(t, i)) = LeafCount(t) + 1
        /\ \A i \in 0 .. LeafCount(t) - 1 :
            /\ TreeRemove(t, i) \in Trees
            /\ LeafCount(TreeRemove(t, i)) = LeafCount(t) - 1
            /\ \A dir \in Directions :
                /\ TreeResize(t, i, dir) \in Trees
                /\ LeafCount(TreeResize(t, i, dir)) = LeafCount(t)
=============================================================================
