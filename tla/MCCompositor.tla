---------------------------- MODULE MCCompositor ----------------------------
(***************************************************************************)
(* Compositor for TLC, with a split tree abstracted to its leaf count.     *)
(* MCRealTrees runs it with the real one.                                  *)
(***************************************************************************)
EXTENDS Compositor, TLC

CountTrees == 0 .. Cardinality(Toplevels)
CountNone == 0
CountLeaves(t) == t
CountInsert(t, i) == t + 1
CountRemove(t, i) == t - 1
CountResize(t, i, dir) == t

(* The windows are alike when none is a dialog or has a rule, or all are.  *)
SymmetryAll == Permutations(Toplevels) \cup Permutations(OutputIds)

NoFullscreen == fullscreen = {} /\ requested = {}
=============================================================================
