----------------------------- MODULE MCRealTrees -----------------------------
(***************************************************************************)
(* Compositor for TLC with the real split tree of module Layout, for up to *)
(* as many leaves as there are windows: TLC checks on this run that the    *)
(* real tree satisfies TreeLaws.                                           *)
(***************************************************************************)
EXTENDS Compositor, Layout, TLC

SplitTrees == {None} \cup {t \in Nodes : Leaves[t] <= MaxLeaves}

Symmetry == Permutations(Toplevels)
NoFullscreen == fullscreen = {} /\ requested = {}
=============================================================================
