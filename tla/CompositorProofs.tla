-------------------------- MODULE CompositorProofs --------------------------
(***************************************************************************)
(* Theorems about Compositor, for any windows, outputs and workspaces and  *)
(* for any split tree that satisfies TreeLaws.                             *)
(*                                                                         *)
(* The invariants hold each other up: a focused index in range needs lists *)
(* of known length, the tree's leaf count needs every window listed once,  *)
(* a window listed once needs that only mapped windows are listed.  So     *)
(* IInv is their conjunction, and each action is shown to preserve it.     *)
(***************************************************************************)
EXTENDS Compositor, ListLemmas, FiniteSetTheorems, WellFoundedInduction

(* FocusInRange of any focus indices and lists, for the handlers' values   *)
(* in between.                                                             *)
InRange(foc, lists) ==
    \A w \in Workspaces : IF lists[w] = <<>> THEN foc[w] = 0 ELSE foc[w] < Len(lists[w])

(* EachWindowOnce, list by list.                                           *)
ListedOnce(lists) ==
    /\ \A w \in Workspaces : Once(lists[w])
    /\ \A v, w \in Workspaces : v # w => Range(lists[v]) \cap Range(lists[w]) = {}

(* The inductive invariant.                                                *)
IInv ==
    /\ TypeOK
    /\ InRange(focused, windows)
    /\ ListedOnce(windows)
    /\ TrackedIsMapped
    /\ GrabTargetTracked
    /\ TreeMatchesTiled

-----------------------------------------------------------------------------
(* Helpers of ServerState.                                                 *)

(* The two ways to say that no window is listed twice agree.               *)
LEMMA OnceIsOnce ==
    ASSUME windows \in [Workspaces -> Seq(Toplevels)]
    PROVE  ListedOnce(windows) <=> EachWindowOnce
  <1>1. ASSUME EachWindowOnce, NEW w \in Workspaces
        PROVE  Once(windows[w])
    BY <1>1 DEF EachWindowOnce, Once
  <1>2. ASSUME EachWindowOnce, NEW v \in Workspaces, NEW w \in Workspaces, v # w
        PROVE  Range(windows[v]) \cap Range(windows[w]) = {}
    <2>1. \A i \in DOMAIN windows[v], j \in DOMAIN windows[w] : windows[v][i] # windows[w][j]
      BY <1>2 DEF EachWindowOnce
    <2> QED BY <2>1 DEF Range
  <1>3. ASSUME ListedOnce(windows), NEW v \in Workspaces, NEW w \in Workspaces,
               NEW i \in DOMAIN windows[v], NEW j \in DOMAIN windows[w],
               windows[v][i] = windows[w][j]
        PROVE  v = w /\ i = j
    <2>1. windows[v][i] \in Range(windows[v]) /\ windows[w][j] \in Range(windows[w])
      BY DEF Range
    <2>2. v = w
      BY <1>3, <2>1 DEF ListedOnce
    <2> QED BY <1>3, <2>2 DEF ListedOnce, Once
  <1> QED BY <1>1, <1>2, <1>3 DEF ListedOnce, EachWindowOnce

(* With an output connected, the active output is one of them, and the     *)
(* active workspace exists; a busy one has a window.                       *)
LEMMA ActiveFacts ==
    ASSUME outputs \in Seq(Output)
    PROVE  /\ outputs # <<>> => ActiveOutput \in 1 .. Len(outputs)
           /\ outputs # <<>> => ActiveWorkspace \in Workspaces
           /\ \A a \in BusyWorkspace :
                outputs # <<>> /\ a = ActiveWorkspace /\ a \in Workspaces /\ windows[a] # <<>>
  <1>1. DOMAIN outputs = 1 .. Len(outputs) /\ Len(outputs) \in Nat
    OBVIOUS
  <1>2. ASSUME outputs # <<>>
        PROVE  ActiveOutput \in 1 .. Len(outputs)
    <2>1. 1 \in 1 .. Len(outputs)
      BY <1>1, <1>2
    <2> QED BY <1>1, <2>1 DEF ActiveOutput
  <1>3. ASSUME outputs # <<>>
        PROVE  ActiveWorkspace \in Workspaces
    <2>1. outputs[ActiveOutput] \in Output
      BY <1>2, <1>3
    <2> QED BY <2>1 DEF ActiveWorkspace, Output
  <1> QED BY <1>2, <1>3 DEF BusyWorkspace

(* The same of the next state.                                             *)
LEMMA ActiveFactsNext ==
    ASSUME outputs' \in Seq(Output)
    PROVE  /\ outputs' # <<>> => ActiveWorkspace' \in Workspaces
           /\ \A a \in BusyWorkspace' :
                outputs' # <<>> /\ a = ActiveWorkspace' /\ a \in Workspaces /\ windows'[a] # <<>>
  <1>1. DOMAIN outputs' = 1 .. Len(outputs') /\ Len(outputs') \in Nat
    OBVIOUS
  <1>2. ASSUME outputs' # <<>>
        PROVE  ActiveOutput' \in 1 .. Len(outputs')
    <2>1. 1 \in 1 .. Len(outputs')
      BY <1>1, <1>2
    <2> QED BY <1>1, <2>1 DEF ActiveOutput
  <1>3. ASSUME outputs' # <<>>
        PROVE  ActiveWorkspace' \in Workspaces
    <2>1. outputs'[ActiveOutput'] \in Output
      BY <1>2, <1>3
    <2> QED BY <2>1 DEF ActiveWorkspace, Output
  <1> QED BY <1>2, <1>3 DEF BusyWorkspace

(* focus_index leaves every focused index in range and the seat on a       *)
(* window, whatever index it is asked for.                                 *)
LEMMA FocusIndexFacts ==
    ASSUME NEW foc \in [Workspaces -> Nat], NEW idx, NEW s \in Toplevels \cup {NoToplevel},
           windows' \in [Workspaces -> Seq(Toplevels)], outputs' \in Seq(Output),
           InRange(foc, windows'),
           BusyWorkspace' # {} => idx \in Int,
           FocusIndex(foc, idx, s)
    PROVE  /\ focused' \in [Workspaces -> Nat]
           /\ InRange(focused', windows')
           /\ seat' \in Toplevels \cup {NoToplevel}
  <1>1. CASE BusyWorkspace' = {}
    BY <1>1 DEF FocusIndex
  <1>2. CASE BusyWorkspace' # {}
    <2>1. PICK a \in BusyWorkspace' :
            /\ focused' = [foc EXCEPT ![a] = idx % Len(windows'[a])]
            /\ seat' = windows'[a][(idx % Len(windows'[a])) + 1]
      BY <1>2 DEF FocusIndex
    <2>2. a \in Workspaces /\ windows'[a] \in Seq(Toplevels) /\ windows'[a] # <<>>
      BY ActiveFactsNext
    <2>3. Len(windows'[a]) \in Nat \ {0}
      BY <2>2
    <2>4. idx % Len(windows'[a]) \in 0 .. Len(windows'[a]) - 1
      BY <1>2, <2>3
    <2> DEFINE i == idx % Len(windows'[a])
    <2> HIDE DEF i
    <2>5. i + 1 \in 1 .. Len(windows'[a]) /\ i \in Nat /\ i < Len(windows'[a])
      BY <2>3, <2>4 DEF i
    <2>6. seat' \in Toplevels
      BY <2>1, <2>2, <2>5 DEF i
    <2>7. focused' = [foc EXCEPT ![a] = i]
      BY <2>1 DEF i
    <2> QED BY <2>2, <2>5, <2>6, <2>7 DEF InRange
  <1> QED BY <1>1, <1>2

(* focus_index on the active workspace's own index, as remove_window and the *)
(* workspace binds call it.                                                *)
LEMMA RefocusFacts ==
    ASSUME NEW foc \in [Workspaces -> Nat], NEW s \in Toplevels \cup {NoToplevel},
           windows' \in [Workspaces -> Seq(Toplevels)], outputs' \in Seq(Output),
           InRange(foc, windows'),
           Refocus(foc, s)
    PROVE  /\ focused' \in [Workspaces -> Nat]
           /\ InRange(focused', windows')
           /\ seat' \in Toplevels \cup {NoToplevel}
  <1>1. BusyWorkspace' # {} => foc[ActiveWorkspace'] \in Int
    BY ActiveFactsNext
  <1>2. FocusIndex(foc, foc[ActiveWorkspace'], s)
    BY DEF Refocus
  <1> QED BY <1>1, <1>2, FocusIndexFacts

-----------------------------------------------------------------------------
(* The split tree's bookkeeping.                                           *)

(* A set of windows is finite, and no larger than the set of all.          *)
LEMMA WindowSets ==
    ASSUME NEW X \in SUBSET Toplevels
    PROVE  /\ IsFiniteSet(X) /\ Cardinality(X) \in Nat
           /\ Cardinality(X) <= Cardinality(Toplevels)
           /\ X # Toplevels => Cardinality(X) < Cardinality(Toplevels)
           /\ \A e \in X : Cardinality(X \ {e}) = Cardinality(X) - 1 /\ Cardinality(X) > 0
           /\ \A e \in Toplevels \ X : Cardinality(X \cup {e}) = Cardinality(X) + 1
           /\ \A Y \in SUBSET X : Cardinality(Y) \in Nat /\ Cardinality(Y) <= Cardinality(X)
  <1>1. IsFiniteSet(Toplevels)
    BY ServerAssumption
  <1>2. IsFiniteSet(X) /\ Cardinality(X) \in Nat /\ Cardinality(X) <= Cardinality(Toplevels)
    BY <1>1, FS_Subset, FS_CardinalityType
  <1>3. X # Toplevels => Cardinality(X) < Cardinality(Toplevels)
    BY <1>1, <1>2, FS_Subset, FS_CardinalityType
  <1>4. ASSUME NEW e \in X
        PROVE  Cardinality(X \ {e}) = Cardinality(X) - 1 /\ Cardinality(X) > 0
    <2>1. Cardinality(X \ {e}) = Cardinality(X) - 1
      BY <1>2, FS_RemoveElement
    <2>2. Cardinality(X \ {e}) \in Nat
      BY <1>2, FS_RemoveElement, FS_CardinalityType
    <2> QED BY <1>2, <2>1, <2>2
  <1>5. \A e \in Toplevels \ X : Cardinality(X \cup {e}) = Cardinality(X) + 1
    BY <1>2, FS_AddElement
  <1>6. ASSUME NEW Y \in SUBSET X
        PROVE  Cardinality(Y) \in Nat /\ Cardinality(Y) <= Cardinality(X)
    BY <1>2, FS_Subset, FS_CardinalityType
  <1> QED BY <1>2, <1>3, <1>4, <1>5, <1>6

(* A tiled window's position counts tiled windows other than itself.       *)
LEMMA PositionBound ==
    ASSUME NEW s \in Seq(Toplevels), Once(s), NEW F, NEW tl \in Range(s) \ F
    PROVE  Cardinality({s[i] : i \in 1 .. (CHOOSE i \in DOMAIN s : s[i] = tl) - 1}
                        \cap (Range(s) \ F))
             \in 0 .. Cardinality(Range(s) \ F) - 1
  <1> DEFINE k == CHOOSE i \in DOMAIN s : s[i] = tl
             before == {s[i] : i \in 1 .. k - 1} \cap (Range(s) \ F)
  <1>1. DOMAIN s = 1 .. Len(s) /\ Len(s) \in Nat /\ Range(s) \subseteq Toplevels
    BY SeqFacts
  <1>2. k \in DOMAIN s /\ s[k] = tl
    BY DEF Range
  <1> HIDE DEF k
  <1>3. tl \notin before
    BY <1>1, <1>2 DEF Once
  <1>4. before \subseteq (Range(s) \ F) \ {tl}
    BY <1>3
  <1> HIDE DEF before
  <1>5. (Range(s) \ F) \in SUBSET Toplevels /\ tl \in Range(s) \ F
    BY <1>1
  <1>6. Cardinality((Range(s) \ F) \ {tl}) = Cardinality(Range(s) \ F) - 1
    BY <1>5, WindowSets
  <1>7. /\ Cardinality(before) \in Nat
        /\ Cardinality(before) <= Cardinality((Range(s) \ F) \ {tl})
    <2>1. (Range(s) \ F) \ {tl} \in SUBSET Toplevels
      BY <1>5
    <2> QED BY <1>4, <2>1, WindowSets
  <1>8. Cardinality(Range(s) \ F) \in Nat
    BY <1>5, WindowSets
  <1> QED BY <1>6, <1>7, <1>8 DEF before, k

(* tree_untrack takes the leaf of a tiled window out of its workspace's    *)
(* tree, and touches no other tree.                                        *)
LEMMA UntrackFacts ==
    ASSUME TypeOK, ListedOnce(windows), TreeMatchesTiled,
           NEW w \in Workspaces, NEW tl \in TiledSet(w)
    PROVE  /\ Untrack(tree, w, tl) \in [Workspaces -> Trees]
           /\ LeafCount(Untrack(tree, w, tl)[w]) = Cardinality(TiledSet(w)) - 1
           /\ \A v \in Workspaces \ {w} : Untrack(tree, w, tl)[v] = tree[v]
  <1> DEFINE p == TiledPosition(w, tl)
  <1>1. tree[w] \in Trees /\ LeafCount(tree[w]) = Cardinality(TiledSet(w))
    BY DEF TypeOK, TreeMatchesTiled
  <1>2. windows[w] \in Seq(Toplevels) /\ Once(windows[w])
    BY DEF TypeOK, ListedOnce
  <1>3. p \in 0 .. Cardinality(TiledSet(w)) - 1
    BY <1>2, PositionBound DEF TiledSet, TiledPosition
  <1> HIDE DEF p
  <1>4. TreeRemove(tree[w], p) \in Trees /\ LeafCount(TreeRemove(tree[w], p)) = LeafCount(tree[w]) - 1
    BY <1>1, <1>3, TreeAssumption DEF TreeLaws
  <1>5. Untrack(tree, w, tl) = [tree EXCEPT ![w] = TreeRemove(tree[w], p)]
    BY DEF Untrack, p
  <1>6. tree \in [Workspaces -> Trees]
    BY DEF TypeOK
  <1> QED BY <1>1, <1>4, <1>5, <1>6

(* tree_track puts a leaf in for a window that is tiled from now on.       *)
LEMMA TrackFacts ==
    ASSUME NEW t \in [Workspaces -> Trees], NEW w \in Workspaces, NEW tl \in TiledSet(w)',
           windows' \in [Workspaces -> Seq(Toplevels)], Once(windows'[w]),
           LeafCount(t[w]) = Cardinality(TiledSet(w)') - 1
    PROVE  /\ Track(t, w, tl) \in [Workspaces -> Trees]
           /\ LeafCount(Track(t, w, tl)[w]) = Cardinality(TiledSet(w)')
           /\ \A v \in Workspaces \ {w} : Track(t, w, tl)[v] = t[v]
  <1> DEFINE p == TiledPosition(w, tl)'
  <1>1. windows'[w] \in Seq(Toplevels)
    OBVIOUS
  <1>2. p \in 0 .. Cardinality(TiledSet(w)') - 1
    BY <1>1, PositionBound DEF TiledSet, TiledPosition
  <1> HIDE DEF p
  <1>3. /\ Cardinality(TiledSet(w)') \in Nat
        /\ Cardinality(TiledSet(w)') <= Cardinality(Toplevels)
        /\ Cardinality(Toplevels) \in Nat
    <2>1. Range(windows'[w]) \subseteq Toplevels
      BY <1>1, SeqFacts
    <2>2. TiledSet(w)' \in SUBSET Toplevels
      BY <2>1 DEF TiledSet
    <2>3. Toplevels \in SUBSET Toplevels
      OBVIOUS
    <2> QED BY <2>2, <2>3, WindowSets
  <1>4. p \in 0 .. LeafCount(t[w]) /\ LeafCount(t[w]) < Cardinality(Toplevels)
    BY <1>2, <1>3
  <1>5. TreeInsertAt(t[w], p) \in Trees /\ LeafCount(TreeInsertAt(t[w], p)) = LeafCount(t[w]) + 1
    BY <1>4, TreeAssumption DEF TreeLaws
  <1>6. Track(t, w, tl) = [t EXCEPT ![w] = TreeInsertAt(t[w], p)]
    BY DEF Track, p
  <1> QED BY <1>3, <1>5, <1>6

-----------------------------------------------------------------------------
(* The flag flips.                                                         *)

Flagged == fullscreen \cup floating

(* When a window's flags change what is tiled, the call of tree_untrack or *)
(* tree_track that goes with it keeps the leaf counts right.               *)
LEMMA FlipFacts ==
    ASSUME IInv, NEW tl \in Toplevels, windows' = windows,
           \/ Flagged' = Flagged /\ tree' = tree
           \/ /\ tl \notin Flagged /\ Flagged' = Flagged \cup {tl}
              /\ \/ Holders(tl) = {} /\ tree' = tree
                 \/ \E w \in Holders(tl) : tree' = Untrack(tree, w, tl)
           \/ /\ tl \in Flagged /\ Flagged' = Flagged \ {tl}
              /\ \/ Holders(tl) = {} /\ tree' = tree
                 \/ \E w \in Holders(tl) : tree' = Track(tree, w, tl)
    PROVE  tree' \in [Workspaces -> Trees] /\ TreeMatchesTiled'
  <1>1. /\ windows \in [Workspaces -> Seq(Toplevels)] /\ tree \in [Workspaces -> Trees]
        /\ ListedOnce(windows) /\ TypeOK /\ TreeMatchesTiled
        /\ \A v \in Workspaces : LeafCount(tree[v]) = Cardinality(TiledSet(v))
    BY DEF IInv, TypeOK, TreeMatchesTiled
  <1>2. \A v \in Workspaces : TiledSet(v) = Range(windows[v]) \ Flagged
                           /\ TiledSet(v)' = Range(windows[v]) \ Flagged'
    BY DEF TiledSet, Flagged
  <1>3. CASE Flagged' = Flagged /\ tree' = tree
    BY <1>1, <1>2, <1>3 DEF TreeMatchesTiled
  <1>4. ASSUME Holders(tl) = {}, tree' = tree,
               Flagged' = Flagged \cup {tl} \/ Flagged' = Flagged \ {tl}
        PROVE  tree' \in [Workspaces -> Trees] /\ TreeMatchesTiled'
    <2>1. \A v \in Workspaces : tl \notin Range(windows[v])
      BY <1>4 DEF Holders
    <2>2. ASSUME NEW v \in Workspaces PROVE TiledSet(v)' = TiledSet(v)
      <3>1. Range(windows[v]) \ Flagged' = Range(windows[v]) \ Flagged
        BY <1>4, <2>1
      <3> QED BY <1>2, <3>1
    <2> QED BY <1>1, <1>4, <2>2 DEF TreeMatchesTiled
  <1>5. ASSUME NEW w \in Holders(tl)
        PROVE  w \in Workspaces /\ tl \in Range(windows[w])
               /\ \A v \in Workspaces \ {w} : tl \notin Range(windows[v])
    BY <1>1, <1>5 DEF Holders, ListedOnce
  <1>6. ASSUME NEW w \in Holders(tl), tree' = Untrack(tree, w, tl),
               tl \notin Flagged, Flagged' = Flagged \cup {tl}
        PROVE  tree' \in [Workspaces -> Trees] /\ TreeMatchesTiled'
    <2>1. ASSUME NEW v \in Workspaces \ {w} PROVE TiledSet(v)' = TiledSet(v)
      <3>1. Range(windows[v]) \ Flagged' = Range(windows[v]) \ Flagged
        BY <1>5, <1>6
      <3> QED BY <1>2, <3>1
    <2>2. tl \in TiledSet(w) /\ TiledSet(w)' = TiledSet(w) \ {tl}
      BY <1>2, <1>5, <1>6
    <2>3. TiledSet(w) \in SUBSET Toplevels
      BY <1>1, <1>2, <1>5, SeqFacts
    <2>4. Cardinality(TiledSet(w)') = Cardinality(TiledSet(w)) - 1
      BY <2>2, <2>3, WindowSets
    <2>5. /\ Untrack(tree, w, tl) \in [Workspaces -> Trees]
          /\ LeafCount(Untrack(tree, w, tl)[w]) = Cardinality(TiledSet(w)) - 1
          /\ \A v \in Workspaces \ {w} : Untrack(tree, w, tl)[v] = tree[v]
      BY <1>1, <1>5, <2>2, UntrackFacts
    <2> QED BY <1>1, <1>6, <2>1, <2>4, <2>5 DEF TreeMatchesTiled
  <1>7. ASSUME NEW w \in Holders(tl), tree' = Track(tree, w, tl),
               tl \in Flagged, Flagged' = Flagged \ {tl}
        PROVE  tree' \in [Workspaces -> Trees] /\ TreeMatchesTiled'
    <2>1. ASSUME NEW v \in Workspaces \ {w} PROVE TiledSet(v)' = TiledSet(v)
      <3>1. Range(windows[v]) \ Flagged' = Range(windows[v]) \ Flagged
        BY <1>5, <1>7
      <3> QED BY <1>2, <3>1
    <2>2. tl \notin TiledSet(w) /\ tl \in TiledSet(w)' /\ TiledSet(w)' = TiledSet(w) \cup {tl}
      BY <1>2, <1>5, <1>7
    <2>3. TiledSet(w) \in SUBSET Toplevels
      BY <1>1, <1>2, <1>5, SeqFacts
    <2>4. Cardinality(TiledSet(w)') = Cardinality(TiledSet(w)) + 1 /\ Cardinality(TiledSet(w)) \in Nat
      BY <2>2, <2>3, WindowSets
    <2>5. /\ windows' \in [Workspaces -> Seq(Toplevels)] /\ Once(windows'[w])
          /\ LeafCount(tree[w]) = Cardinality(TiledSet(w)') - 1
      BY <1>1, <1>5, <2>4 DEF ListedOnce
    <2>6. /\ Track(tree, w, tl) \in [Workspaces -> Trees]
          /\ LeafCount(Track(tree, w, tl)[w]) = Cardinality(TiledSet(w)')
          /\ \A v \in Workspaces \ {w} : Track(tree, w, tl)[v] = tree[v]
      <3>1. tree \in [Workspaces -> Trees] /\ w \in Workspaces /\ tl \in TiledSet(w)'
        BY <1>1, <1>5, <2>2
      <3> QED BY <2>5, <3>1, TrackFacts
    <2> QED BY <1>1, <1>7, <2>1, <2>6 DEF TreeMatchesTiled
  <1> QED BY <1>3, <1>4, <1>6, <1>7

(* set_fullscreen preserves the invariant.                                 *)
LEMMA SetFullscreenInv ==
    ASSUME IInv, NEW tl \in Toplevels, NEW on \in BOOLEAN, on <=> tl \notin fullscreen,
           requested' \in SUBSET Toplevels, SetFullscreen(tl, on)
    PROVE  IInv'
  <1> USE DEF SetFullscreen
  <1>1. TypeOK /\ ListedOnce(windows)
    BY DEF IInv
  <1>2. UNCHANGED <<windows, outputs, cursor, life, floating, tiledStates, focused, grab, grabTl, seat>>
    BY DEF outputVars, grabVars
  <1>3. tree' \in [Workspaces -> Trees] /\ TreeMatchesTiled'
    <2>1. CASE tl \in floating
      <3>1. Flagged' = Flagged /\ tree' = tree
        BY <1>2, <2>1 DEF Flagged
      <3> QED BY <1>2, <3>1, FlipFacts
    <2>2. CASE tl \notin floating /\ on
      <3>1. tl \notin Flagged /\ Flagged' = Flagged \cup {tl}
        BY <1>2, <2>2 DEF Flagged
      <3>2. \/ Holders(tl) = {} /\ tree' = tree
            \/ \E w \in Holders(tl) : tree' = Untrack(tree, w, tl)
        BY <2>2
      <3> QED BY <1>2, <3>1, <3>2, FlipFacts
    <2>3. CASE tl \notin floating /\ ~on
      <3>1. tl \in Flagged /\ Flagged' = Flagged \ {tl}
        BY <1>2, <2>3 DEF Flagged
      <3>2. \/ Holders(tl) = {} /\ tree' = tree
            \/ \E w \in Holders(tl) : tree' = Track(tree, w, tl)
        BY <2>3
      <3> QED BY <1>2, <3>1, <3>2, FlipFacts
    <2> QED BY <2>1, <2>2, <2>3
  <1>4. /\ fullscreen' \in SUBSET Toplevels
        /\ layer' \in [Toplevels -> Layers]
        /\ enabled' \in SUBSET Toplevels
    BY <1>1 DEF TypeOK, Layers, LayerOf, Refresh
  <1>5. TypeOK'
    BY <1>1, <1>2, <1>3, <1>4 DEF TypeOK
  <1>6. Tracked' = Tracked
    BY <1>2 DEF Tracked
  <1> QED BY <1>2, <1>3, <1>5, <1>6 DEF IInv, TrackedIsMapped, GrabTargetTracked

(* set_floating preserves the invariant.                                   *)
LEMMA SetFloatingInv ==
    ASSUME IInv, NEW tl \in Toplevels, NEW on \in BOOLEAN, on <=> tl \notin floating,
           SetFloating(tl, on)
    PROVE  IInv'
  <1> USE DEF SetFloating
  <1>1. TypeOK /\ ListedOnce(windows)
    BY DEF IInv
  <1>2. UNCHANGED <<windows, outputs, cursor, life, fullscreen, requested, focused, grab, grabTl, seat>>
    BY DEF outputVars, grabVars
  <1>3. tree' \in [Workspaces -> Trees] /\ TreeMatchesTiled'
    <2>1. CASE tl \in fullscreen
      <3>1. Flagged' = Flagged /\ tree' = tree
        BY <1>2, <2>1 DEF Flagged
      <3> QED BY <1>2, <3>1, FlipFacts
    <2>2. CASE tl \notin fullscreen /\ on
      <3>1. tl \notin Flagged /\ Flagged' = Flagged \cup {tl}
        BY <1>2, <2>2 DEF Flagged
      <3>2. \/ Holders(tl) = {} /\ tree' = tree
            \/ \E w \in Holders(tl) : tree' = Untrack(tree, w, tl)
        BY <2>2
      <3> QED BY <1>2, <3>1, <3>2, FlipFacts
    <2>3. CASE tl \notin fullscreen /\ ~on
      <3>1. tl \in Flagged /\ Flagged' = Flagged \ {tl}
        BY <1>2, <2>3 DEF Flagged
      <3>2. \/ Holders(tl) = {} /\ tree' = tree
            \/ \E w \in Holders(tl) : tree' = Track(tree, w, tl)
        BY <2>3
      <3> QED BY <1>2, <3>1, <3>2, FlipFacts
    <2> QED BY <2>1, <2>2, <2>3
  <1>4. /\ floating' \in SUBSET Toplevels
        /\ layer' \in [Toplevels -> Layers]
        /\ tiledStates' \in SUBSET Toplevels
        /\ enabled' \in SUBSET Toplevels
    BY <1>1 DEF TypeOK, Layers, LayerOf, Posture, Refresh
  <1>5. TypeOK'
    BY <1>1, <1>2, <1>3, <1>4 DEF TypeOK
  <1>6. Tracked' = Tracked
    BY <1>2 DEF Tracked
  <1> QED BY <1>2, <1>3, <1>5, <1>6 DEF IInv, TrackedIsMapped, GrabTargetTracked

-----------------------------------------------------------------------------
(* Windows that leave.                                                     *)

Without(w, k) == [windows EXCEPT ![w] = RemoveAt(windows[w], k)]

(* Vec::remove of a window from the one workspace that lists it.           *)
LEMMA RemoveFromList ==
    ASSUME windows \in [Workspaces -> Seq(Toplevels)], ListedOnce(windows),
           NEW w \in Workspaces, NEW k \in DOMAIN windows[w]
    PROVE  /\ Without(w, k) \in [Workspaces -> Seq(Toplevels)]
           /\ ListedOnce(Without(w, k))
           /\ Len(windows[w]) \in Nat /\ Len(Without(w, k)[w]) = Len(windows[w]) - 1
           /\ \A v \in Workspaces : Range(Without(w, k)[v]) = Range(windows[v]) \ {windows[w][k]}
           /\ \A v \in Workspaces \ {w} : Without(w, k)[v] = windows[v]
  <1> DEFINE lists == Without(w, k)
  <1>1. windows[w] \in Seq(Toplevels) /\ Once(windows[w]) /\ k \in 1 .. Len(windows[w])
    BY SeqFacts DEF ListedOnce
  <1>2. /\ RemoveAt(windows[w], k) \in Seq(Toplevels)
        /\ Len(RemoveAt(windows[w], k)) = Len(windows[w]) - 1
        /\ Range(RemoveAt(windows[w], k)) = Range(windows[w]) \ {windows[w][k]}
        /\ Once(RemoveAt(windows[w], k))
    BY <1>1, RemoveAtFacts, RemoveAtOnce
  <1>3. /\ lists[w] = RemoveAt(windows[w], k) /\ \A v \in Workspaces \ {w} : lists[v] = windows[v]
        /\ lists \in [Workspaces -> Seq(Toplevels)]
    BY <1>2 DEF Without
  <1> HIDE DEF lists
  <1>5. windows[w][k] \in Range(windows[w])
    BY <1>1 DEF Range
  <1>6. ASSUME NEW v \in Workspaces
        PROVE  Range(lists[v]) = Range(windows[v]) \ {windows[w][k]}
    <2>1. CASE v = w
      BY <1>2, <1>3, <2>1
    <2>2. CASE v # w
      <3>1. Range(windows[v]) \cap Range(windows[w]) = {} /\ lists[v] = windows[v]
        BY <1>3, <2>2 DEF ListedOnce
      <3> QED BY <1>5, <3>1
    <2> QED BY <2>1, <2>2
  <1>7. \A v \in Workspaces : Once(lists[v])
    BY <1>2, <1>3 DEF ListedOnce
  <1>8. ASSUME NEW u \in Workspaces, NEW v \in Workspaces, u # v
        PROVE  Range(lists[u]) \cap Range(lists[v]) = {}
    <2>1. Range(windows[u]) \cap Range(windows[v]) = {}
      BY <1>8 DEF ListedOnce
    <2> QED BY <1>6, <2>1
  <1>9. ListedOnce(lists)
    BY <1>7, <1>8 DEF ListedOnce
  <1>10. Len(windows[w]) \in Nat
    BY <1>1
  <1> QED BY <1>2, <1>3, <1>6, <1>9, <1>10 DEF lists

(* Clamping a workspace's index is what its list, one shorter, calls for.  *)
LEMMA ClampFacts ==
    ASSUME focused \in [Workspaces -> Nat], InRange(focused, windows),
           NEW lists \in [Workspaces -> Seq(Toplevels)],
           NEW w \in Workspaces, NEW n \in Nat, Len(windows[w]) = n, windows[w] # <<>>,
           Len(lists[w]) = n - 1,
           \A v \in Workspaces \ {w} : lists[v] = windows[v],
           NEW foc, foc = [focused EXCEPT ![w] = Clamped(focused[w], n - 1)]
    PROVE  foc \in [Workspaces -> Nat] /\ InRange(foc, lists)
  <1>1. lists[w] = <<>> <=> n - 1 = 0
    BY SeqFacts
  <1>2. n # 0 => n - 1 \in Nat
    OBVIOUS
  <1>3. focused[w] \in Nat /\ focused[w] < n
    BY DEF InRange
  <1>4. /\ Clamped(focused[w], n - 1) \in Nat
        /\ IF lists[w] = <<>> THEN Clamped(focused[w], n - 1) = 0
                              ELSE Clamped(focused[w], n - 1) < Len(lists[w])
    BY <1>1, <1>2, <1>3 DEF Clamped
  <1>5. foc[w] = Clamped(focused[w], n - 1) /\ \A v \in Workspaces \ {w} : foc[v] = focused[v]
    OBVIOUS
  <1> QED BY <1>4, <1>5 DEF InRange

(* Once tl has left its list, a tree without its leaf is right again: it   *)
(* is the only window whose flags may change meanwhile.                    *)
LEMMA UntrackRemoved ==
    ASSUME IInv, NEW tl \in Toplevels, Flagged' \ {tl} = Flagged \ {tl},
           windows' \in [Workspaces -> Seq(Toplevels)],
           NEW w \in Holders(tl),
           \A v \in Workspaces : Range(windows'[v]) = Range(windows[v]) \ {tl},
           tree' = Untrack(tree, w, tl)
    PROVE  tree' \in [Workspaces -> Trees] /\ TreeMatchesTiled'
  <1>1. /\ windows \in [Workspaces -> Seq(Toplevels)] /\ tree \in [Workspaces -> Trees]
        /\ ListedOnce(windows) /\ TypeOK /\ TreeMatchesTiled
        /\ \A v \in Workspaces : LeafCount(tree[v]) = Cardinality(TiledSet(v))
    BY DEF IInv, TypeOK, TreeMatchesTiled
  <1>2. /\ w \in Workspaces /\ tl \in Range(windows[w])
        /\ \A v \in Workspaces \ {w} : tl \notin Range(windows[v])
    BY <1>1 DEF Holders, ListedOnce
  <1>3. ASSUME NEW v \in Workspaces
        PROVE  TiledSet(v)' = TiledSet(v) \ {tl} /\ TiledSet(v) \in SUBSET Toplevels
    <2>1. /\ TiledSet(v) = Range(windows[v]) \ Flagged
          /\ TiledSet(v)' = (Range(windows[v]) \ {tl}) \ Flagged'
      BY DEF TiledSet, Flagged
    <2>2. Range(windows[v]) \subseteq Toplevels
      BY <1>1, SeqFacts
    <2> QED BY <2>1, <2>2
  <1>4. ASSUME NEW v \in Workspaces, tl \notin TiledSet(v)
        PROVE  TiledSet(v)' = TiledSet(v)
    BY <1>3, <1>4
  <1>5. ASSUME NEW v \in Workspaces \ {w}
        PROVE  TiledSet(v)' = TiledSet(v)
    BY <1>2, <1>4 DEF TiledSet
  <1>6. CASE tl \in TiledSet(w)
    <2>1. /\ Untrack(tree, w, tl) \in [Workspaces -> Trees]
          /\ LeafCount(Untrack(tree, w, tl)[w]) = Cardinality(TiledSet(w)) - 1
          /\ \A v \in Workspaces \ {w} : Untrack(tree, w, tl)[v] = tree[v]
      BY <1>1, <1>2, <1>6, UntrackFacts
    <2>2. Cardinality(TiledSet(w)') = Cardinality(TiledSet(w)) - 1
      BY <1>2, <1>3, <1>6, WindowSets
    <2> QED BY <1>1, <1>5, <2>1, <2>2 DEF TreeMatchesTiled
  <1>7. CASE tl \notin TiledSet(w)
    <2>1. tree' = tree
      BY <1>7 DEF Untrack
    <2>2. TiledSet(w)' = TiledSet(w)
      BY <1>2, <1>4, <1>7
    <2> QED BY <1>1, <1>5, <2>1, <2>2 DEF TreeMatchesTiled
  <1> QED BY <1>6, <1>7

(* remove_window, whatever else the handler does to tl's own flags.        *)
LEMMA RemoveWindowFacts ==
    ASSUME IInv, NEW tl \in Toplevels, NEW s \in Toplevels \cup {NoToplevel},
           Flagged' \ {tl} = Flagged \ {tl}, RemoveWindow(tl, s)
    PROVE  /\ windows' \in [Workspaces -> Seq(Toplevels)] /\ ListedOnce(windows')
           /\ \A v \in Workspaces : Range(windows'[v]) = Range(windows[v]) \ {tl}
           /\ Tracked' = Tracked \ {tl}
           /\ focused' \in [Workspaces -> Nat] /\ InRange(focused', windows')
           /\ tree' \in [Workspaces -> Trees] /\ TreeMatchesTiled'
           /\ outputs' = outputs /\ cursor' = cursor
           /\ grab' \in GrabModes /\ grabTl' \in Toplevels \cup {NoToplevel} /\ GrabTargetTracked'
           /\ seat' \in Toplevels \cup {NoToplevel}
  <1>1. /\ windows \in [Workspaces -> Seq(Toplevels)] /\ tree \in [Workspaces -> Trees]
        /\ focused \in [Workspaces -> Nat] /\ outputs \in Seq(Output)
        /\ ListedOnce(windows) /\ InRange(focused, windows)
        /\ \A v \in Workspaces : LeafCount(tree[v]) = Cardinality(TiledSet(v))
    BY DEF IInv, TypeOK, TreeMatchesTiled
  <1>2. outputs' = outputs /\ cursor' = cursor
    BY DEF RemoveWindow, outputVars
  <1>3. /\ windows' \in [Workspaces -> Seq(Toplevels)] /\ ListedOnce(windows')
        /\ \A v \in Workspaces : Range(windows'[v]) = Range(windows[v]) \ {tl}
        /\ focused' \in [Workspaces -> Nat] /\ InRange(focused', windows')
        /\ tree' \in [Workspaces -> Trees] /\ TreeMatchesTiled'
        /\ seat' \in Toplevels \cup {NoToplevel}
    <2>1. CASE Holders(tl) = {}
      <3>1. UNCHANGED <<windows, tree>> /\ Refocus(focused, s)
        BY <2>1 DEF RemoveWindow
      <3>2. \A v \in Workspaces : tl \notin Range(windows[v])
        BY <2>1 DEF Holders
      <3>3. ASSUME NEW v \in Workspaces PROVE TiledSet(v)' = TiledSet(v)
        <4>1. /\ TiledSet(v) = Range(windows[v]) \ Flagged
              /\ TiledSet(v)' = Range(windows[v]) \ Flagged'
          BY <3>1 DEF TiledSet, Flagged
        <4> QED BY <3>2, <4>1
      <3>4. TreeMatchesTiled'
        BY <1>1, <3>1, <3>3 DEF TreeMatchesTiled
      <3>5. /\ focused' \in [Workspaces -> Nat] /\ InRange(focused', windows')
            /\ seat' \in Toplevels \cup {NoToplevel}
        BY <1>1, <1>2, <3>1, RefocusFacts
      <3> QED BY <1>1, <3>1, <3>2, <3>4, <3>5
    <2>2. CASE Holders(tl) # {}
      <3>0. PICK w \in Holders(tl) : \E k \in DOMAIN windows[w] :
              /\ windows[w][k] = tl
              /\ windows' = [windows EXCEPT ![w] = RemoveAt(windows[w], k)]
              /\ tree' = Untrack(tree, w, tl)
              /\ Refocus([focused EXCEPT ![w] = Clamped(focused[w], Len(windows[w]) - 1)], s)
        BY <2>2 DEF RemoveWindow
      <3>1. PICK k \in DOMAIN windows[w] :
              /\ windows[w][k] = tl
              /\ windows' = [windows EXCEPT ![w] = RemoveAt(windows[w], k)]
              /\ tree' = Untrack(tree, w, tl)
              /\ Refocus([focused EXCEPT ![w] = Clamped(focused[w], Len(windows[w]) - 1)], s)
        BY <3>0
      <3>2. w \in Workspaces /\ windows[w][k] = tl
        BY <3>1 DEF Holders
      <3>3. windows' = Without(w, k)
        BY <3>1 DEF Without
      <3>4. /\ windows' \in [Workspaces -> Seq(Toplevels)] /\ ListedOnce(windows')
            /\ Len(windows[w]) \in Nat /\ Len(windows'[w]) = Len(windows[w]) - 1
            /\ \A v \in Workspaces : Range(windows'[v]) = Range(windows[v]) \ {windows[w][k]}
            /\ \A v \in Workspaces \ {w} : windows'[v] = windows[v]
        BY <1>1, <3>2, <3>3, RemoveFromList
      <3>5. \A v \in Workspaces : Range(windows'[v]) = Range(windows[v]) \ {tl}
        BY <3>2, <3>4
      <3>6. windows[w] # <<>>
        OBVIOUS
      <3> DEFINE foc == [focused EXCEPT ![w] = Clamped(focused[w], Len(windows[w]) - 1)]
      <3>7. foc \in [Workspaces -> Nat] /\ InRange(foc, windows')
        BY <1>1, <3>2, <3>4, <3>6, ClampFacts
      <3>8. Refocus(foc, s)
        BY <3>1
      <3> HIDE DEF foc
      <3>9. /\ focused' \in [Workspaces -> Nat] /\ InRange(focused', windows')
            /\ seat' \in Toplevels \cup {NoToplevel}
        BY <1>1, <1>2, <3>4, <3>7, <3>8, RefocusFacts
      <3>10. tree' \in [Workspaces -> Trees] /\ TreeMatchesTiled'
        BY <3>1, <3>4, <3>5, UntrackRemoved
      <3> QED BY <3>4, <3>5, <3>9, <3>10
    <2> QED BY <2>1, <2>2
  <1>4. Tracked' = Tracked \ {tl}
    BY <1>3 DEF Tracked
  <1>5. grab' \in GrabModes /\ grabTl' \in Toplevels \cup {NoToplevel} /\ GrabTargetTracked'
    <2>1. grab \in GrabModes /\ grabTl \in Toplevels \cup {NoToplevel} /\ GrabTargetTracked
      BY DEF IInv, TypeOK
    <2>2. DropGrab(tl)
      BY DEF RemoveWindow
    <2> QED BY <1>4, <2>1, <2>2 DEF DropGrab, GrabTargetTracked, GrabModes, grabVars
  <1> QED BY <1>2, <1>3, <1>4, <1>5

-----------------------------------------------------------------------------
(* The handlers of a window's life.                                        *)

(* The flags of a window no workspace lists are no concern of the trees.   *)
LEMMA UnlistedFlags ==
    ASSUME IInv, NEW tl \in Toplevels, tl \notin Tracked, windows' = windows, tree' = tree,
           Flagged' \ {tl} = Flagged \ {tl}
    PROVE  TreeMatchesTiled' /\ Tracked' = Tracked
  <1>1. ASSUME NEW v \in Workspaces PROVE TiledSet(v)' = TiledSet(v)
    <2>1. /\ TiledSet(v) = Range(windows[v]) \ Flagged
          /\ TiledSet(v)' = Range(windows[v]) \ Flagged'
      BY DEF TiledSet, Flagged
    <2>2. tl \notin Range(windows[v])
      BY DEF Tracked
    <2> QED BY <2>1, <2>2
  <1> QED BY <1>1 DEF IInv, TreeMatchesTiled, Tracked

(* handle_new_toplevel preserves the invariant.                            *)
LEMMA NewToplevelInv ==
    ASSUME IInv, NEW tl \in Toplevels, NewToplevel(tl)
    PROVE  IInv'
  <1>1. tl \notin Tracked
    BY DEF IInv, TrackedIsMapped, NewToplevel
  <1>2. UNCHANGED <<windows, focused, tree, outputs, cursor, requested, tiledStates, grab, grabTl, seat>>
    BY DEF NewToplevel, outputVars, grabVars
  <1>3. Flagged' \ {tl} = Flagged \ {tl}
    BY DEF NewToplevel, Flagged
  <1>4. TreeMatchesTiled' /\ Tracked' = Tracked
    BY <1>1, <1>2, <1>3, UnlistedFlags
  <1>5. TypeOK'
    BY <1>2 DEF IInv, TypeOK, NewToplevel, Layers, Lives
  <1>6. TrackedIsMapped'
    BY <1>1, <1>4 DEF IInv, TypeOK, TrackedIsMapped, NewToplevel
  <1> QED BY <1>2, <1>4, <1>5, <1>6 DEF IInv, GrabTargetTracked

(* handle_commit, on the initial commit, preserves the invariant.          *)
LEMMA InitialCommitInv ==
    ASSUME IInv, NEW tl \in Toplevels, InitialCommit(tl)
    PROVE  IInv'
  <1>1. tl \notin Tracked
    BY DEF IInv, TrackedIsMapped, InitialCommit
  <1>2. UNCHANGED <<windows, focused, tree, outputs, cursor, fullscreen, requested, layer,
                    enabled, grab, grabTl, seat>>
    BY DEF InitialCommit, outputVars, grabVars
  <1>3. /\ Flagged' \ {tl} = Flagged \ {tl}
        /\ floating' \in SUBSET Toplevels /\ tiledStates' \in SUBSET Toplevels
    BY <1>2 DEF InitialCommit, Flagged, IInv, TypeOK
  <1>4. TreeMatchesTiled' /\ Tracked' = Tracked
    BY <1>1, <1>2, <1>3, UnlistedFlags
  <1>5. life' \in [Toplevels -> Lives]
    BY DEF IInv, TypeOK, InitialCommit, Lives
  <1>6. TypeOK'
    BY <1>2, <1>3, <1>5 DEF IInv, TypeOK
  <1>7. TrackedIsMapped'
    BY <1>1, <1>4 DEF IInv, TypeOK, TrackedIsMapped, InitialCommit
  <1> QED BY <1>2, <1>4, <1>6, <1>7 DEF IInv, GrabTargetTracked

(* handle_map's early return preserves the invariant.                      *)
LEMMA MapWithoutOutputInv ==
    ASSUME IInv, NEW tl \in Toplevels, MapWithoutOutput(tl)
    PROVE  IInv'
  <1>1. UNCHANGED <<windows, focused, tree, outputs, cursor, fullscreen, floating, requested,
                    layer, tiledStates, enabled, grab, grabTl, seat>>
    BY DEF MapWithoutOutput, outputVars, grabVars
  <1>2. life' = [life EXCEPT ![tl] = "mapped"] /\ life \in [Toplevels -> Lives]
    BY DEF MapWithoutOutput, IInv, TypeOK
  <1>3. TypeOK'
    BY <1>1, <1>2 DEF IInv, TypeOK, Lives
  <1>4. Tracked' = Tracked /\ TreeMatchesTiled'
    BY <1>1 DEF IInv, Tracked, TreeMatchesTiled, TiledSet
  <1>5. TrackedIsMapped'
    BY <1>2, <1>4 DEF IInv, TrackedIsMapped
  <1> QED BY <1>1, <1>3, <1>4, <1>5 DEF IInv, GrabTargetTracked

(* handle_unmap preserves the invariant.                                   *)
LEMMA UnmapInv ==
    ASSUME IInv, NEW tl \in Toplevels, Unmap(tl)
    PROVE  IInv'
  <1>1. TypeOK /\ TrackedIsMapped
    BY DEF IInv
  <1>2. Flagged' \ {tl} = Flagged \ {tl} /\ RemoveWindow(tl, seat)
    BY DEF Unmap, Flagged
  <1>3. /\ windows' \in [Workspaces -> Seq(Toplevels)] /\ ListedOnce(windows')
        /\ Tracked' = Tracked \ {tl}
        /\ focused' \in [Workspaces -> Nat] /\ InRange(focused', windows')
        /\ tree' \in [Workspaces -> Trees] /\ TreeMatchesTiled'
        /\ outputs' = outputs /\ cursor' = cursor
        /\ grab' \in GrabModes /\ grabTl' \in Toplevels \cup {NoToplevel} /\ GrabTargetTracked'
        /\ seat' \in Toplevels \cup {NoToplevel}
    BY <1>1, <1>2, RemoveWindowFacts DEF TypeOK
  <1>4. /\ life' = [life EXCEPT ![tl] = "created"]
        /\ requested' \in SUBSET Toplevels /\ tiledStates' \in SUBSET Toplevels
        /\ UNCHANGED <<fullscreen, floating, layer>>
        /\ enabled' \in SUBSET Toplevels
    BY <1>1 DEF Unmap, TypeOK, Refresh
  <1>5. TypeOK'
    BY <1>1, <1>3, <1>4 DEF TypeOK, Lives
  <1>6. TrackedIsMapped'
    BY <1>1, <1>3, <1>4 DEF TypeOK, TrackedIsMapped
  <1> QED BY <1>3, <1>5, <1>6 DEF IInv

(* handle_destroy preserves the invariant.                                 *)
LEMMA DestroyInv ==
    ASSUME IInv, NEW tl \in Toplevels, Destroy(tl)
    PROVE  IInv'
  <1>1. TypeOK /\ TrackedIsMapped
    BY DEF IInv
  <1>2. Flagged' \ {tl} = Flagged \ {tl}
    BY DEF Destroy, Flagged
  <1>3. RemoveWindow(tl, IF seat = tl THEN NoToplevel ELSE seat)
    BY DEF Destroy
  <1>4. /\ windows' \in [Workspaces -> Seq(Toplevels)] /\ ListedOnce(windows')
        /\ Tracked' = Tracked \ {tl}
        /\ focused' \in [Workspaces -> Nat] /\ InRange(focused', windows')
        /\ tree' \in [Workspaces -> Trees] /\ TreeMatchesTiled'
        /\ outputs' = outputs /\ cursor' = cursor
        /\ grab' \in GrabModes /\ grabTl' \in Toplevels \cup {NoToplevel} /\ GrabTargetTracked'
        /\ seat' \in Toplevels \cup {NoToplevel}
    <2>1. (IF seat = tl THEN NoToplevel ELSE seat) \in Toplevels \cup {NoToplevel}
      BY <1>1 DEF TypeOK
    <2> QED BY <1>2, <1>3, <2>1, RemoveWindowFacts
  <1>5. /\ life' = [life EXCEPT ![tl] = "absent"]
        /\ requested' \in SUBSET Toplevels /\ tiledStates' \in SUBSET Toplevels
        /\ fullscreen' \in SUBSET Toplevels /\ floating' \in SUBSET Toplevels
        /\ layer' = layer
        /\ enabled' \in SUBSET Toplevels
    BY <1>1 DEF Destroy, TypeOK, Refresh
  <1>6. TypeOK'
    BY <1>1, <1>4, <1>5 DEF TypeOK, Lives
  <1>7. TrackedIsMapped'
    BY <1>1, <1>4, <1>5 DEF TypeOK, TrackedIsMapped
  <1> QED BY <1>4, <1>6, <1>7 DEF IInv

(* handle_request_fullscreen preserves the invariant.                      *)
LEMMA RequestFullscreenInv ==
    ASSUME IInv, NEW tl \in Toplevels, NEW on \in BOOLEAN, RequestFullscreen(tl, on)
    PROVE  IInv'
  <1>1. requested' \in SUBSET Toplevels
    BY DEF RequestFullscreen, IInv, TypeOK
  <1>2. CASE (tl \in fullscreen) = on
    <2>1. UNCHANGED <<windows, focused, tree, outputs, cursor, life, fullscreen, floating,
                      layer, tiledStates, enabled, grab, grabTl, seat>>
      BY <1>2 DEF RequestFullscreen, outputVars, grabVars
    <2> QED BY <1>1, <2>1 DEF IInv, TypeOK, TrackedIsMapped, GrabTargetTracked, Tracked,
                              TreeMatchesTiled, TiledSet
  <1>3. CASE (tl \in fullscreen) # on
    <2>1. SetFullscreen(tl, on)
      BY <1>3 DEF RequestFullscreen
    <2>2. on <=> tl \notin fullscreen
      BY <1>3
    <2> QED BY <1>1, <2>1, <2>2, SetFullscreenInv
  <1> QED BY <1>2, <1>3

With(lists, a, tl) == [lists EXCEPT ![a] = Append(lists[a], tl)]

(* Vec::push of a window that no workspace lists onto the one of a.        *)
LEMMA PushFacts ==
    ASSUME NEW lists \in [Workspaces -> Seq(Toplevels)], ListedOnce(lists),
           NEW tl \in Toplevels, \A v \in Workspaces : tl \notin Range(lists[v]),
           NEW a \in Workspaces
    PROVE  /\ With(lists, a, tl) \in [Workspaces -> Seq(Toplevels)]
           /\ ListedOnce(With(lists, a, tl))
           /\ Len(lists[a]) \in Nat /\ Len(With(lists, a, tl)[a]) = Len(lists[a]) + 1
           /\ Range(With(lists, a, tl)[a]) = Range(lists[a]) \cup {tl}
           /\ \A v \in Workspaces \ {a} : With(lists, a, tl)[v] = lists[v]
  <1> DEFINE more == With(lists, a, tl)
  <1>1. /\ Append(lists[a], tl) \in Seq(Toplevels) /\ Once(Append(lists[a], tl))
        /\ Len(lists[a]) \in Nat /\ Len(Append(lists[a], tl)) = Len(lists[a]) + 1
        /\ Range(Append(lists[a], tl)) = Range(lists[a]) \cup {tl}
    BY AppendFacts, AppendOnce, SeqFacts DEF ListedOnce
  <1>2. /\ more \in [Workspaces -> Seq(Toplevels)]
        /\ more[a] = Append(lists[a], tl)
        /\ \A v \in Workspaces \ {a} : more[v] = lists[v]
    BY <1>1 DEF With
  <1> HIDE DEF more
  <1>3. ASSUME NEW v \in Workspaces
        PROVE  Range(more[v]) \subseteq Range(lists[v]) \cup {tl} /\ (v # a => tl \notin Range(more[v]))
    BY <1>1, <1>2
  <1>4. ASSUME NEW u \in Workspaces, NEW v \in Workspaces, u # v
        PROVE  Range(more[u]) \cap Range(more[v]) = {}
    <2>1. Range(lists[u]) \cap Range(lists[v]) = {}
      BY <1>4 DEF ListedOnce
    <2> QED BY <1>3, <1>4, <2>1
  <1>5. ListedOnce(more)
    BY <1>1, <1>2, <1>4 DEF ListedOnce
  <1> QED BY <1>1, <1>2, <1>5 DEF more

(* handle_map preserves the invariant: with a leaf put in, and taken out   *)
(* again when the client has asked for fullscreen.                         *)
LEMMA MapInv ==
    ASSUME IInv, NEW tl \in Toplevels, Map(tl)
    PROVE  IInv'
  <1>1. /\ TypeOK /\ TrackedIsMapped /\ ListedOnce(windows) /\ InRange(focused, windows)
        /\ windows \in [Workspaces -> Seq(Toplevels)] /\ tree \in [Workspaces -> Trees]
        /\ \A v \in Workspaces : LeafCount(tree[v]) = Cardinality(TiledSet(v))
    BY DEF IInv, TypeOK, TreeMatchesTiled
  <1>2. PICK a \in Workspaces : a = ActiveWorkspace
    BY <1>1, ActiveFacts DEF Map, TypeOK
  <1> DEFINE last == Cardinality(TiledSet(a))
             grown == IF tl \in floating' \cup fullscreen THEN tree[a] ELSE TreeInsertAt(tree[a], last)
  <1>3. tl \notin Tracked /\ \A v \in Workspaces : tl \notin Range(windows[v])
    BY <1>1 DEF Map, TrackedIsMapped, Tracked
  <1>4. /\ windows' = [windows EXCEPT ![a] = Append(windows[a], tl)]
        /\ tree' = [tree EXCEPT ![a] =
                      IF tl \in fullscreen' \ (fullscreen \cup floating')
                      THEN TreeRemove(grown, last) ELSE grown]
        /\ FocusIndex(focused, Len(windows[a]), seat)
    BY <1>2 DEF Map
  <1>5. /\ UNCHANGED <<outputs, cursor, requested, tiledStates, grab, grabTl>>
        /\ life' = [life EXCEPT ![tl] = "mapped"]
        /\ floating' \in SUBSET Toplevels /\ fullscreen' \in SUBSET Toplevels
        /\ layer' \in [Toplevels -> Layers]
        /\ enabled' \in SUBSET Toplevels
        /\ Flagged' \ {tl} = Flagged \ {tl}
        /\ fullscreen \subseteq fullscreen'
    BY <1>1 DEF Map, TypeOK, Layers, Refresh, outputVars, grabVars, Flagged
  <1> HIDE DEF last, grown
  <1>6. /\ windows' \in [Workspaces -> Seq(Toplevels)]
        /\ ListedOnce(windows')
        /\ Len(windows[a]) \in Nat /\ Len(windows'[a]) = Len(windows[a]) + 1
        /\ Range(windows'[a]) = Range(windows[a]) \cup {tl}
        /\ \A v \in Workspaces \ {a} : windows'[v] = windows[v]
    <2>1. windows' = With(windows, a, tl)
      BY <1>4 DEF With
    <2>2. /\ windows \in [Workspaces -> Seq(Toplevels)] /\ ListedOnce(windows)
          /\ \A v \in Workspaces : tl \notin Range(windows[v])
      BY <1>1, <1>3
    <2>3. /\ With(windows, a, tl) \in [Workspaces -> Seq(Toplevels)]
          /\ ListedOnce(With(windows, a, tl))
          /\ Len(windows[a]) \in Nat /\ Len(With(windows, a, tl)[a]) = Len(windows[a]) + 1
          /\ Range(With(windows, a, tl)[a]) = Range(windows[a]) \cup {tl}
          /\ \A v \in Workspaces \ {a} : With(windows, a, tl)[v] = windows[v]
      BY <2>2, PushFacts, Zenon
    <2> QED BY <2>1, <2>3
  <1>7. Tracked' = Tracked \cup {tl}
    BY <1>2, <1>6 DEF Tracked
  <1>8. /\ focused' \in [Workspaces -> Nat] /\ InRange(focused', windows')
        /\ seat' \in Toplevels \cup {NoToplevel}
    <2>1. /\ focused \in [Workspaces -> Nat] /\ seat \in Toplevels \cup {NoToplevel}
          /\ outputs \in Seq(Output)
      BY <1>1 DEF TypeOK
    <2>2. windows'[a] # <<>> /\ focused[a] < Len(windows'[a])
      <3>1. focused[a] = 0 \/ focused[a] < Len(windows[a])
        BY <1>1, <1>2 DEF InRange
      <3> QED BY <1>2, <1>6, <2>1, <3>1
    <2>3. InRange(focused, windows')
      BY <1>1, <1>6, <2>2 DEF InRange
    <2>4. FocusIndex(focused, Len(windows[a]), seat) /\ Len(windows[a]) \in Int
      BY <1>4, <1>6
    <2>5. outputs' \in Seq(Output)
      BY <1>5, <2>1
    <2> QED BY <1>6, <2>1, <2>3, <2>4, <2>5, FocusIndexFacts
  <1>9. tree' \in [Workspaces -> Trees] /\ TreeMatchesTiled'
    <2>1. ASSUME NEW v \in Workspaces
          PROVE  /\ TiledSet(v) = Range(windows[v]) \ Flagged
                 /\ TiledSet(v)' = Range(windows'[v]) \ Flagged'
      BY DEF TiledSet, Flagged
    <2>2. ASSUME NEW v \in Workspaces \ {a} PROVE TiledSet(v)' = TiledSet(v)
      <3>1. TiledSet(v) = Range(windows[v]) \ Flagged /\ TiledSet(v)' = Range(windows[v]) \ Flagged'
        BY <1>6, <2>1
      <3>2. Range(windows[v]) \ Flagged = Range(windows[v]) \ Flagged'
        BY <1>3, <1>5
      <3> QED BY <3>1, <3>2
    <2>3. TiledSet(a)' = TiledSet(a) \cup ({tl} \ Flagged')
      BY <1>2, <1>3, <1>5, <1>6, <2>1
    <2>4. TiledSet(a) \in SUBSET Toplevels /\ tl \notin TiledSet(a)
      BY <1>1, <1>2, <1>3, <2>1, SeqFacts
    <2>5. /\ last \in Nat /\ last < Cardinality(Toplevels)
          /\ Cardinality(TiledSet(a) \cup {tl}) = last + 1
      BY <2>4, WindowSets DEF last
    <2>6. tree[a] \in Trees /\ LeafCount(tree[a]) = last
      BY <1>1 DEF last
    <2>7. /\ TreeInsertAt(tree[a], last) \in Trees
          /\ LeafCount(TreeInsertAt(tree[a], last)) = last + 1
      BY <2>5, <2>6, TreeAssumption DEF TreeLaws
    <2>8. CASE tl \in floating' \cup fullscreen
      <3>1. tree'[a] = tree[a] /\ tree' \in [Workspaces -> Trees]
        BY <1>1, <1>2, <1>4, <2>6, <2>8 DEF grown
      <3>2. TiledSet(a)' = TiledSet(a)
        BY <1>5, <2>3, <2>8 DEF Flagged
      <3>3. LeafCount(tree'[a]) = Cardinality(TiledSet(a)')
        BY <1>1, <3>1, <3>2
      <3> QED BY <1>1, <1>4, <2>2, <3>1, <3>3 DEF TreeMatchesTiled
    <2>9. CASE tl \notin floating' \cup fullscreen /\ tl \in fullscreen'
      <3>1. tree' = [tree EXCEPT ![a] = TreeRemove(TreeInsertAt(tree[a], last), last)]
        BY <1>4, <2>9 DEF grown
      <3>2. /\ TreeRemove(TreeInsertAt(tree[a], last), last) \in Trees
            /\ LeafCount(TreeRemove(TreeInsertAt(tree[a], last), last)) = last
        BY <2>5, <2>7, TreeAssumption DEF TreeLaws
      <3>3. TiledSet(a)' = TiledSet(a)
        BY <1>5, <2>3, <2>9 DEF Flagged
      <3>4. LeafCount(tree'[a]) = Cardinality(TiledSet(a)')
        BY <1>1, <1>2, <3>1, <3>2, <3>3 DEF last
      <3> QED BY <1>1, <1>2, <2>2, <3>1, <3>2, <3>4 DEF TreeMatchesTiled
    <2>10. CASE tl \notin floating' \cup fullscreen /\ tl \notin fullscreen'
      <3>1. tree' = [tree EXCEPT ![a] = TreeInsertAt(tree[a], last)]
        BY <1>4, <2>10 DEF grown
      <3>2. TiledSet(a)' = TiledSet(a) \cup {tl}
        BY <1>5, <2>3, <2>10 DEF Flagged
      <3>3. LeafCount(tree'[a]) = Cardinality(TiledSet(a)')
        BY <1>1, <1>2, <2>5, <2>7, <3>1, <3>2
      <3> QED BY <1>1, <1>2, <2>2, <2>7, <3>1, <3>3 DEF TreeMatchesTiled
    <2> QED BY <2>8, <2>9, <2>10
  <1>10. TypeOK'
    BY <1>1, <1>5, <1>6, <1>8, <1>9 DEF TypeOK, Lives
  <1>11. TrackedIsMapped'
    BY <1>1, <1>5, <1>7 DEF TypeOK, TrackedIsMapped
  <1>12. GrabTargetTracked'
    BY <1>5, <1>7 DEF IInv, GrabTargetTracked
  <1> QED BY <1>6, <1>8, <1>9, <1>10, <1>11, <1>12 DEF IInv

-----------------------------------------------------------------------------
(* The keybindings.                                                        *)

(* A handler that moves nothing but the focus.                             *)
LEMMA FocusOnly ==
    ASSUME IInv, UNCHANGED <<windows, tree, outputVars, toplevelVars, enabled, grabVars>>,
           focused' \in [Workspaces -> Nat], InRange(focused', windows'),
           seat' \in Toplevels \cup {NoToplevel}
    PROVE  IInv'
  <1>1. UNCHANGED <<windows, tree, outputs, cursor, life, fullscreen, floating, requested, layer,
                    tiledStates, enabled, grab, grabTl>>
    BY DEF outputVars, toplevelVars, grabVars
  <1> QED BY <1>1 DEF IInv, TypeOK, TrackedIsMapped, GrabTargetTracked, Tracked, TreeMatchesTiled,
                      TiledSet

(* focusnext and focusprev preserve the invariant.                         *)
LEMMA FocusStepInv ==
    ASSUME IInv, FocusStep
    PROVE  IInv'
  <1>1. UNCHANGED <<windows, tree, outputVars, toplevelVars, enabled, grabVars>>
    BY DEF FocusStep
  <1>2. PICK a \in BusyWorkspace : \E step \in {1, Len(windows[a]) - 1} :
            FocusIndex(focused, focused[a] + step, seat)
    BY DEF FocusStep
  <1>3. /\ windows' \in [Workspaces -> Seq(Toplevels)] /\ outputs' \in Seq(Output)
        /\ outputs \in Seq(Output) /\ windows \in [Workspaces -> Seq(Toplevels)]
        /\ focused \in [Workspaces -> Nat] /\ InRange(focused, windows')
        /\ seat \in Toplevels \cup {NoToplevel}
    BY <1>1 DEF IInv, TypeOK, outputVars
  <1>4. a \in Workspaces
    BY <1>3, ActiveFacts
  <1>5. PICK idx \in Int : FocusIndex(focused, idx, seat)
    <2>1. focused[a] + 1 \in Int /\ focused[a] + (Len(windows[a]) - 1) \in Int
      BY <1>3, <1>4, SeqFacts
    <2> QED BY <1>2, <2>1
  <1>6. focused' \in [Workspaces -> Nat] /\ InRange(focused', windows') /\ seat' \in Toplevels \cup {NoToplevel}
    BY <1>3, <1>5, FocusIndexFacts
  <1> QED BY <1>1, <1>6, FocusOnly

(* movefocus preserves the invariant.                                      *)
LEMMA MoveFocusInv ==
    ASSUME IInv, MoveFocus
    PROVE  IInv'
  <1>1. UNCHANGED <<windows, tree, outputVars, toplevelVars, enabled, grabVars>>
    BY DEF MoveFocus
  <1>2. /\ windows' \in [Workspaces -> Seq(Toplevels)] /\ outputs' \in Seq(Output)
        /\ focused \in [Workspaces -> Nat] /\ InRange(focused, windows')
        /\ seat \in Toplevels \cup {NoToplevel}
    BY <1>1 DEF IInv, TypeOK, outputVars
  <1>3. PICK idx \in Int : FocusIndex(focused, idx, seat)
    BY DEF MoveFocus
  <1>4. focused' \in [Workspaces -> Nat] /\ InRange(focused', windows') /\ seat' \in Toplevels \cup {NoToplevel}
    BY <1>2, <1>3, FocusIndexFacts
  <1> QED BY <1>1, <1>4, FocusOnly

(* The windows of a list in another order: what is tiled stays.            *)
LEMMA MoveWindowInv ==
    ASSUME IInv, MoveWindow
    PROVE  IInv'
  <1>1. /\ TypeOK /\ windows \in [Workspaces -> Seq(Toplevels)] /\ focused \in [Workspaces -> Nat]
        /\ outputs \in Seq(Output) /\ ListedOnce(windows) /\ InRange(focused, windows)
    BY DEF IInv, TypeOK
  <1>2. PICK a \in BusyWorkspace : \E i \in (0 .. Len(windows[a]) - 1) \ {focused[a]} :
            /\ windows' = [windows EXCEPT ![a] = Swap(windows[a], focused[a] + 1, i + 1)]
            /\ focused' = [focused EXCEPT ![a] = i]
    BY DEF MoveWindow
  <1>3. PICK i \in 0 .. Len(windows[a]) - 1 :
            /\ windows' = [windows EXCEPT ![a] = Swap(windows[a], focused[a] + 1, i + 1)]
            /\ focused' = [focused EXCEPT ![a] = i]
    BY <1>2
  <1>4. /\ UNCHANGED <<tree, outputs, cursor, life, fullscreen, floating, requested, layer,
                       tiledStates, grab, grabTl, seat>>
        /\ enabled' \in SUBSET Toplevels
    BY <1>1 DEF MoveWindow, Refresh, outputVars, toplevelVars, grabVars, TypeOK
  <1>5. a \in Workspaces /\ windows[a] # <<>> /\ windows[a] \in Seq(Toplevels) /\ Once(windows[a])
    BY <1>1, ActiveFacts DEF ListedOnce
  <1>6. focused[a] + 1 \in 1 .. Len(windows[a]) /\ i + 1 \in 1 .. Len(windows[a]) /\ i \in Nat
        /\ Len(windows[a]) \in Nat
    BY <1>1, <1>5, SeqFacts DEF InRange
  <1> DEFINE s == Swap(windows[a], focused[a] + 1, i + 1)
  <1>7. s \in Seq(Toplevels) /\ Len(s) = Len(windows[a]) /\ Range(s) = Range(windows[a]) /\ Once(s)
    BY <1>5, <1>6, SwapFacts DEF Swap
  <1> HIDE DEF s
  <1>8. windows' = [windows EXCEPT ![a] = s]
    BY <1>3 DEF s
  <1>9. /\ windows' \in [Workspaces -> Seq(Toplevels)]
        /\ \A v \in Workspaces : Range(windows'[v]) = Range(windows[v]) /\ Once(windows'[v])
        /\ windows'[a] = s /\ \A v \in Workspaces \ {a} : windows'[v] = windows[v]
    BY <1>1, <1>5, <1>7, <1>8 DEF ListedOnce
  <1>10. ListedOnce(windows')
    BY <1>1, <1>9 DEF ListedOnce
  <1>11. focused' \in [Workspaces -> Nat] /\ InRange(focused', windows')
    <2>1. windows'[a] # <<>> /\ focused'[a] = i /\ i < Len(windows'[a])
      BY <1>1, <1>3, <1>5, <1>6, <1>7, <1>9
    <2>2. \A v \in Workspaces \ {a} : focused'[v] = focused[v]
      BY <1>1, <1>3
    <2> QED BY <1>1, <1>3, <1>6, <1>9, <2>1, <2>2 DEF InRange
  <1>12. Tracked' = Tracked /\ TreeMatchesTiled'
    <2>1. ASSUME NEW v \in Workspaces PROVE TiledSet(v)' = TiledSet(v)
      BY <1>4, <1>9 DEF TiledSet
    <2> QED BY <1>4, <1>9, <2>1 DEF Tracked, IInv, TreeMatchesTiled
  <1>13. TypeOK'
    BY <1>1, <1>4, <1>9, <1>11 DEF TypeOK
  <1> QED BY <1>4, <1>10, <1>11, <1>12, <1>13 DEF IInv, TrackedIsMapped, GrabTargetTracked

(* resizewindow preserves the invariant.                                   *)
LEMMA ResizeWindowInv ==
    ASSUME IInv, ResizeWindow
    PROVE  IInv'
  <1>1. /\ TypeOK /\ windows \in [Workspaces -> Seq(Toplevels)] /\ outputs \in Seq(Output)
        /\ ListedOnce(windows) /\ tree \in [Workspaces -> Trees]
        /\ \A v \in Workspaces : LeafCount(tree[v]) = Cardinality(TiledSet(v))
    BY DEF IInv, TypeOK, TreeMatchesTiled
  <1>2. PICK a \in BusyWorkspace, tl \in Toplevels, dir \in Directions :
            /\ tl \in TiledSet(a)
            /\ tree' = [tree EXCEPT ![a] = TreeResize(tree[a], TiledPosition(a, tl), dir)]
    <2>1. ASSUME NEW a \in BusyWorkspace PROVE TiledSet(a) \subseteq Toplevels
      BY <1>1, ActiveFacts, SeqFacts DEF TiledSet
    <2> QED BY <2>1 DEF ResizeWindow
  <1>3. /\ UNCHANGED <<windows, focused, outputs, cursor, life, fullscreen, floating, requested,
                       layer, tiledStates, grab, grabTl, seat>>
        /\ enabled' \in SUBSET Toplevels
    BY <1>1 DEF ResizeWindow, Refresh, outputVars, toplevelVars, grabVars, TypeOK
  <1>4. a \in Workspaces /\ windows[a] \in Seq(Toplevels) /\ Once(windows[a])
    BY <1>1, ActiveFacts DEF ListedOnce
  <1> DEFINE p == TiledPosition(a, tl)
  <1>5. p \in 0 .. Cardinality(TiledSet(a)) - 1
    BY <1>2, <1>4, PositionBound DEF TiledSet, TiledPosition
  <1> HIDE DEF p
  <1>6. tree[a] \in Trees /\ LeafCount(tree[a]) = Cardinality(TiledSet(a))
    BY <1>1, <1>4
  <1>7. TreeResize(tree[a], p, dir) \in Trees /\ LeafCount(TreeResize(tree[a], p, dir)) = LeafCount(tree[a])
    BY <1>5, <1>6, TreeAssumption DEF TreeLaws
  <1>8. tree' = [tree EXCEPT ![a] = TreeResize(tree[a], p, dir)]
    BY <1>2 DEF p
  <1>9. tree' \in [Workspaces -> Trees] /\ \A v \in Workspaces : LeafCount(tree'[v]) = LeafCount(tree[v])
    BY <1>1, <1>4, <1>7, <1>8
  <1>10. Tracked' = Tracked /\ TreeMatchesTiled'
    <2>1. ASSUME NEW v \in Workspaces PROVE TiledSet(v)' = TiledSet(v)
      BY <1>3 DEF TiledSet
    <2> QED BY <1>1, <1>3, <1>9, <2>1 DEF Tracked, TreeMatchesTiled
  <1>11. TypeOK'
    BY <1>1, <1>3, <1>9 DEF TypeOK
  <1> QED BY <1>3, <1>10, <1>11 DEF IInv, TrackedIsMapped, GrabTargetTracked

(* The focused window of a busy workspace is one of its windows.           *)
LEMMA FocusedWindowFacts ==
    ASSUME IInv, NEW a \in BusyWorkspace
    PROVE  /\ a \in Workspaces /\ windows[a] # <<>>
           /\ focused[a] + 1 \in DOMAIN windows[a]
           /\ FocusedWindow(a) \in Toplevels /\ a \in Holders(FocusedWindow(a))
  <1>1. /\ windows \in [Workspaces -> Seq(Toplevels)] /\ focused \in [Workspaces -> Nat]
        /\ outputs \in Seq(Output) /\ InRange(focused, windows)
    BY DEF IInv, TypeOK
  <1>2. a \in Workspaces /\ windows[a] # <<>> /\ windows[a] \in Seq(Toplevels)
    BY <1>1, ActiveFacts
  <1>3. focused[a] + 1 \in 1 .. Len(windows[a])
    BY <1>1, <1>2, SeqFacts DEF InRange
  <1>4. focused[a] + 1 \in DOMAIN windows[a] /\ windows[a][focused[a] + 1] \in Toplevels
    BY <1>2, <1>3
  <1> QED BY <1>2, <1>4 DEF FocusedWindow, Holders, Range

(* The fullscreen bind preserves the invariant.                            *)
LEMMA ToggleFullscreenInv ==
    ASSUME IInv, ToggleFullscreen
    PROVE  IInv'
  <1>1. PICK a \in BusyWorkspace :
            SetFullscreen(FocusedWindow(a), FocusedWindow(a) \notin fullscreen) /\ UNCHANGED requested
    BY DEF ToggleFullscreen
  <1>2. PICK tl \in Toplevels : tl = FocusedWindow(a)
    BY FocusedWindowFacts
  <1>3. PICK on \in BOOLEAN : on = (tl \notin fullscreen)
    OBVIOUS
  <1>4. SetFullscreen(tl, on) /\ (on <=> tl \notin fullscreen)
    BY <1>1, <1>2, <1>3
  <1>5. requested' \in SUBSET Toplevels
    BY <1>1 DEF IInv, TypeOK
  <1> QED BY <1>4, <1>5, SetFullscreenInv

(* The togglefloating bind preserves the invariant.                        *)
LEMMA ToggleFloatingInv ==
    ASSUME IInv, ToggleFloating
    PROVE  IInv'
  <1>1. PICK a \in BusyWorkspace : SetFloating(FocusedWindow(a), FocusedWindow(a) \notin floating)
    BY DEF ToggleFloating
  <1>2. PICK tl \in Toplevels : tl = FocusedWindow(a)
    BY FocusedWindowFacts
  <1>3. PICK on \in BOOLEAN : on = (tl \notin floating)
    OBVIOUS
  <1>4. SetFloating(tl, on) /\ (on <=> tl \notin floating)
    BY <1>1, <1>2, <1>3
  <1> QED BY <1>4, SetFloatingInv

(* A handler that leaves the windows, their trees and their flags alone.   *)
LEMMA WindowsKept ==
    ASSUME IInv, TypeOK', InRange(focused', windows'),
           UNCHANGED <<windows, tree, life, fullscreen, floating, grab, grabTl>>
    PROVE  IInv'
  <1>1. Tracked' = Tracked
    BY DEF Tracked
  <1>2. ASSUME NEW v \in Workspaces PROVE TiledSet(v)' = TiledSet(v)
    BY DEF TiledSet
  <1> QED BY <1>1, <1>2 DEF IInv, TrackedIsMapped, GrabTargetTracked, TreeMatchesTiled

(* switch_workspace preserves the invariant.                               *)
LEMMA SwitchWorkspaceInv ==
    ASSUME IInv, NEW target \in Workspaces, SwitchWorkspace(target)
    PROVE  IInv'
  <1>1. TypeOK /\ outputs \in Seq(Output) /\ InRange(focused, windows)
    BY DEF IInv, TypeOK
  <1>2. UNCHANGED <<windows, tree, cursor, life, fullscreen, floating, requested, layer,
                    tiledStates, grab, grabTl>>
    BY DEF SwitchWorkspace, toplevelVars, grabVars
  <1>3. outputs' \in Seq(Output)
    <2>1. PICK fo \in 1 .. Len(outputs) : outputs' = Switched(fo, target)
      BY <1>1, ActiveFacts DEF SwitchWorkspace
    <2>2. DOMAIN outputs = 1 .. Len(outputs) /\ \A o \in 1 .. Len(outputs) : outputs[o] \in Output
      BY <1>1
    <2>3. \A o \in 1 .. Len(outputs) : outputs[o].workspace \in Workspaces
      BY <2>2 DEF Output
    <2>4. ASSUME NEW o \in 1 .. Len(outputs)
          PROVE  outputs'[o] \in Output
      <3>1. \E w \in {target, outputs[fo].workspace, outputs[o].workspace} :
                outputs'[o] = [outputs[o] EXCEPT !.workspace = w]
        BY <2>1, <2>2 DEF Switched
      <3>2. PICK w \in Workspaces : outputs'[o] = [outputs[o] EXCEPT !.workspace = w]
        BY <2>3, <3>1
      <3>3. outputs[o] \in Output
        BY <2>2
      <3> QED BY <3>2, <3>3 DEF Output
    <2>5. outputs' = [o \in 1 .. Len(outputs) |-> outputs'[o]]
      BY <2>1, <2>2 DEF Switched
    <2>6. outputs' \in [1 .. Len(outputs) -> Output] /\ Len(outputs) \in Nat
      BY <1>1, <2>4, <2>5
    <2> QED BY <2>6
  <1>4. focused' \in [Workspaces -> Nat] /\ InRange(focused', windows') /\ seat' \in Toplevels \cup {NoToplevel}
    <2>1. /\ windows' \in [Workspaces -> Seq(Toplevels)] /\ focused \in [Workspaces -> Nat]
          /\ InRange(focused, windows') /\ seat \in Toplevels \cup {NoToplevel}
      BY <1>1, <1>2 DEF TypeOK
    <2>2. Refocus(focused, seat)
      BY DEF SwitchWorkspace
    <2> QED BY <1>3, <2>1, <2>2, RefocusFacts
  <1>5. enabled' \in SUBSET Toplevels
    BY DEF SwitchWorkspace, Refresh
  <1>6. TypeOK'
    BY <1>1, <1>2, <1>3, <1>4, <1>5 DEF TypeOK
  <1> QED BY <1>2, <1>4, <1>6, WindowsKept

(* The window's leaf leaves one tree and enters another.                   *)
LEMMA MoveToWorkspaceInv ==
    ASSUME IInv, NEW target \in Workspaces, MoveToWorkspace(target)
    PROVE  IInv'
  <1>1. /\ TypeOK /\ windows \in [Workspaces -> Seq(Toplevels)] /\ focused \in [Workspaces -> Nat]
        /\ outputs \in Seq(Output) /\ ListedOnce(windows) /\ InRange(focused, windows)
        /\ tree \in [Workspaces -> Trees] /\ TreeMatchesTiled
        /\ \A v \in Workspaces : LeafCount(tree[v]) = Cardinality(TiledSet(v))
    BY DEF IInv, TypeOK, TreeMatchesTiled
  <1>2. PICK a \in BusyWorkspace \ {target} :
            /\ windows' = Carried(a, target)
            /\ tree' = IF FocusedWindow(a) \in TiledSet(a)
                       THEN Track(Untrack(tree, a, FocusedWindow(a)), target, FocusedWindow(a)) ELSE tree
            /\ Refocus([focused EXCEPT ![a] = Clamped(focused[a], Len(windows[a]) - 1)], seat)
    BY DEF MoveToWorkspace
  <1>3. PICK tl \in Toplevels : tl = FocusedWindow(a)
    BY <1>2, FocusedWindowFacts
  <1>4. PICK k \in DOMAIN windows[a] : k = focused[a] + 1
    BY <1>2, FocusedWindowFacts
  <1>5. /\ a \in Workspaces /\ a # target /\ windows[a] # <<>>
        /\ windows[a][k] = tl /\ tl \in Range(windows[a])
        /\ \A v \in Workspaces \ {a} : tl \notin Range(windows[v])
    <2>1. a \in Workspaces /\ a # target /\ windows[a] # <<>> /\ a \in Holders(tl)
      BY <1>2, <1>3, FocusedWindowFacts
    <2>2. windows[a][k] = tl
      BY <1>3, <1>4 DEF FocusedWindow
    <2> QED BY <1>1, <2>1, <2>2 DEF Holders, ListedOnce
  <1>6. /\ UNCHANGED <<outputs, cursor, life, fullscreen, floating, requested, layer,
                       tiledStates, grab, grabTl>>
        /\ enabled' \in SUBSET Toplevels
    BY DEF MoveToWorkspace, Refresh, outputVars, toplevelVars, grabVars
  <1> DEFINE left == Without(a, k)
  <1>7. /\ left \in [Workspaces -> Seq(Toplevels)] /\ ListedOnce(left)
        /\ Len(windows[a]) \in Nat /\ Len(left[a]) = Len(windows[a]) - 1
        /\ \A v \in Workspaces : Range(left[v]) = Range(windows[v]) \ {tl}
        /\ \A v \in Workspaces \ {a} : left[v] = windows[v]
    <2>1. /\ left \in [Workspaces -> Seq(Toplevels)] /\ ListedOnce(left)
          /\ Len(windows[a]) \in Nat /\ Len(left[a]) = Len(windows[a]) - 1
          /\ \A v \in Workspaces : Range(left[v]) = Range(windows[v]) \ {windows[a][k]}
          /\ \A v \in Workspaces \ {a} : left[v] = windows[v]
      BY <1>1, <1>5, RemoveFromList
    <2> QED BY <1>5, <2>1
  <1>8. windows' = With(left, target, tl)
    BY <1>1, <1>2, <1>3, <1>4, <1>5 DEF Carried, Without, With
  <1> HIDE DEF left
  <1>9. /\ windows' \in [Workspaces -> Seq(Toplevels)] /\ ListedOnce(windows')
        /\ Len(left[target]) \in Nat /\ Len(windows'[target]) = Len(left[target]) + 1
        /\ Range(windows'[target]) = Range(left[target]) \cup {tl}
        /\ \A v \in Workspaces \ {target} : windows'[v] = left[v]
    <2>1. \A v \in Workspaces : tl \notin Range(left[v])
      BY <1>7
    <2>2. /\ With(left, target, tl) \in [Workspaces -> Seq(Toplevels)]
          /\ ListedOnce(With(left, target, tl))
          /\ Len(left[target]) \in Nat /\ Len(With(left, target, tl)[target]) = Len(left[target]) + 1
          /\ Range(With(left, target, tl)[target]) = Range(left[target]) \cup {tl}
          /\ \A v \in Workspaces \ {target} : With(left, target, tl)[v] = left[v]
      BY ZenonT(60), <1>7, <2>1, PushFacts
    <2> QED BY <1>8, <2>2
  <1>10. focused' \in [Workspaces -> Nat] /\ InRange(focused', windows') /\ seat' \in Toplevels \cup {NoToplevel}
    <2> DEFINE foc == [focused EXCEPT ![a] = Clamped(focused[a], Len(windows[a]) - 1)]
    <2>1. foc \in [Workspaces -> Nat] /\ InRange(foc, left)
      BY <1>1, <1>5, <1>7, ClampFacts
    <2>2. Refocus(foc, seat)
      BY <1>2
    <2> HIDE DEF foc
    <2>3. windows'[target] # <<>> /\ foc[target] < Len(windows'[target])
      <3>1. foc[target] = 0 \/ foc[target] < Len(left[target])
        BY <2>1 DEF InRange
      <3> QED BY <1>9, <2>1, <3>1
    <2>4. InRange(foc, windows')
      BY <1>9, <2>1, <2>3 DEF InRange
    <2>5. outputs' \in Seq(Output) /\ seat \in Toplevels \cup {NoToplevel}
      BY <1>1, <1>6 DEF TypeOK
    <2> QED BY <1>9, <2>1, <2>2, <2>4, <2>5, RefocusFacts
  <1>11. Tracked' = Tracked
    <2>1. /\ Range(windows'[target]) = Range(windows[target]) \cup {tl}
          /\ Range(windows'[a]) = Range(windows[a]) \ {tl}
          /\ \A v \in Workspaces \ {a, target} : Range(windows'[v]) = Range(windows[v])
      BY <1>5, <1>7, <1>9
    <2> QED BY <1>5, <2>1 DEF Tracked
  <1>12. tree' \in [Workspaces -> Trees] /\ TreeMatchesTiled'
    <2>1. ASSUME NEW v \in Workspaces
          PROVE  /\ TiledSet(v) = Range(windows[v]) \ Flagged
                 /\ TiledSet(v)' = Range(windows'[v]) \ Flagged
      BY <1>6 DEF TiledSet, Flagged
    <2>2. ASSUME NEW v \in Workspaces \ {a, target} PROVE TiledSet(v)' = TiledSet(v)
      <3>1. Range(windows'[v]) = Range(windows[v])
        BY <1>5, <1>7, <1>9
      <3> QED BY <2>1, <3>1
    <2>3. TiledSet(a)' = TiledSet(a) \ {tl}
      <3>1. Range(windows'[a]) = Range(windows[a]) \ {tl}
        BY <1>5, <1>7, <1>9
      <3> QED BY <1>5, <2>1, <3>1
    <2>4. TiledSet(target)' = TiledSet(target) \cup ({tl} \ Flagged)
      <3>1. Range(windows'[target]) = Range(windows[target]) \cup {tl}
        BY <1>5, <1>7, <1>9
      <3> QED BY <2>1, <3>1
    <2>5. TiledSet(a) \in SUBSET Toplevels /\ TiledSet(target) \in SUBSET Toplevels
      BY <1>1, <1>5, <2>1, SeqFacts
    <2>6. tl \notin TiledSet(target) /\ (tl \in TiledSet(a) <=> tl \notin Flagged)
      BY <1>5, <2>1
    <2>7. CASE tl \in TiledSet(a)
      <3> DEFINE t == Untrack(tree, a, tl)
      <3>1. /\ t \in [Workspaces -> Trees]
            /\ LeafCount(t[a]) = Cardinality(TiledSet(a)) - 1
            /\ \A v \in Workspaces \ {a} : t[v] = tree[v]
        BY <1>1, <1>5, <2>7, UntrackFacts
      <3>2. tree' = Track(t, target, tl)
        BY <1>2, <1>3, <2>7
      <3> HIDE DEF t
      <3>3. tl \in TiledSet(target)' /\ TiledSet(target)' = TiledSet(target) \cup {tl}
        BY <2>4, <2>6, <2>7
      <3>4. /\ Cardinality(TiledSet(target)') = Cardinality(TiledSet(target)) + 1
            /\ Cardinality(TiledSet(target)) \in Nat
            /\ Cardinality(TiledSet(a)') = Cardinality(TiledSet(a)) - 1
        BY <2>3, <2>5, <2>6, <2>7, <3>3, WindowSets
      <3>5. LeafCount(t[target]) = Cardinality(TiledSet(target)') - 1
        BY <1>1, <1>5, <3>1, <3>4
      <3>6. /\ Track(t, target, tl) \in [Workspaces -> Trees]
            /\ LeafCount(Track(t, target, tl)[target]) = Cardinality(TiledSet(target)')
            /\ \A v \in Workspaces \ {target} : Track(t, target, tl)[v] = t[v]
        <4>1. windows' \in [Workspaces -> Seq(Toplevels)] /\ Once(windows'[target])
          BY <1>9 DEF ListedOnce
        <4> QED BY <3>1, <3>3, <3>5, <4>1, TrackFacts
      <3>7. ASSUME NEW v \in Workspaces PROVE LeafCount(tree'[v]) = Cardinality(TiledSet(v)')
        <4>1. CASE v = target
          BY <3>2, <3>6, <4>1
        <4>2. CASE v = a
          BY <1>5, <3>1, <3>2, <3>4, <3>6, <4>2
        <4>3. CASE v \notin {a, target}
          BY <1>1, <2>2, <3>1, <3>2, <3>6, <4>3
        <4> QED BY <4>1, <4>2, <4>3
      <3> QED BY <3>2, <3>6, <3>7 DEF TreeMatchesTiled
    <2>8. CASE tl \notin TiledSet(a)
      <3>1. tree' = tree
        BY <1>2, <1>3, <2>8
      <3>2. TiledSet(a)' = TiledSet(a)
        BY <2>3, <2>8
      <3>3. TiledSet(target)' = TiledSet(target)
        BY <2>4, <2>6, <2>8
      <3>4. ASSUME NEW v \in Workspaces PROVE LeafCount(tree'[v]) = Cardinality(TiledSet(v)')
        BY <1>1, <2>2, <3>1, <3>2, <3>3
      <3> QED BY <1>1, <3>1, <3>4 DEF TreeMatchesTiled
    <2> QED BY <2>7, <2>8
  <1>13. TypeOK'
    BY <1>1, <1>6, <1>9, <1>10, <1>12 DEF TypeOK
  <1> QED BY <1>6, <1>9, <1>10, <1>11, <1>12, <1>13 DEF IInv, TrackedIsMapped, GrabTargetTracked

-----------------------------------------------------------------------------
(* Monitors and the pointer.                                               *)

(* The output handlers preserve the invariant.                             *)
LEMMA OutputNextInv ==
    ASSUME IInv, OutputNext
    PROVE  IInv'
  <1>1. TypeOK /\ outputs \in Seq(Output) /\ InRange(focused, windows)
    BY DEF IInv, TypeOK
  <1>2. ASSUME NEW id \in OutputIds, NewOutput(id)
        PROVE  IInv'
    <2>1. UNCHANGED <<windows, focused, tree, life, fullscreen, floating, requested, layer,
                      tiledStates, grab, grabTl, seat>>
      BY <1>2 DEF NewOutput, toplevelVars, grabVars
    <2>2. [id |-> id, workspace |-> FreeWorkspace] \in Output
      <3>1. 0 \in Workspaces
        BY ServerAssumption DEF Workspaces
      <3>2. ASSUME Workspaces \ Shown # {}
            PROVE  (CHOOSE w \in Workspaces \ Shown : \A v \in Workspaces \ Shown : w <= v) \in Workspaces
        <4>1. PICK n \in Workspaces \ Shown : \A v \in Workspaces \ Shown : n <= v
          <5>1. Workspaces \ Shown \subseteq Nat
            BY DEF Workspaces
          <5> QED BY <3>2, <5>1, LeastNatural
        <4> QED BY <4>1
      <3>3. FreeWorkspace \in Workspaces
        BY <3>1, <3>2 DEF FreeWorkspace
      <3> QED BY <3>3 DEF Output
    <2>3. outputs' \in Seq(Output)
      BY <1>1, <1>2, <2>2 DEF NewOutput
    <2>4. cursor' \in OutputIds \cup {NoOutput}
      <3>1. \A o \in DOMAIN outputs' : outputs'[o] \in Output
        BY <2>3
      <3> QED BY <1>2, <3>1 DEF NewOutput, CursorAnywhere, Output
    <2>5. TypeOK'
      BY <1>1, <1>2, <2>1, <2>3, <2>4 DEF TypeOK, NewOutput, Refresh
    <2> QED BY <1>1, <2>1, <2>5, WindowsKept
  <1>3. ASSUME NEW id \in OutputIds, OutputDestroy(id)
        PROVE  IInv'
    <2>1. UNCHANGED <<windows, focused, tree, life, fullscreen, floating, requested, layer,
                      tiledStates, grab, grabTl, seat>>
      BY <1>3 DEF OutputDestroy, toplevelVars, grabVars
    <2>2. outputs' \in Seq(Output)
      BY <1>1, <1>3, RemoveAtFacts DEF OutputDestroy
    <2>3. cursor' \in OutputIds \cup {NoOutput}
      <3>1. \A o \in DOMAIN outputs' : outputs'[o] \in Output
        BY <2>2
      <3> QED BY <1>3, <3>1 DEF OutputDestroy, CursorAnywhere, Output
    <2>4. TypeOK'
      BY <1>1, <1>3, <2>1, <2>2, <2>3 DEF TypeOK, OutputDestroy, Refresh
    <2> QED BY <1>1, <2>1, <2>4, WindowsKept
  <1>4. ASSUME SessionActive
        PROVE  IInv'
    <2>1. UNCHANGED <<windows, focused, tree, outputs, cursor, life, fullscreen, floating,
                      requested, tiledStates, grab, grabTl, seat>>
      BY <1>4 DEF SessionActive, outputVars, grabVars
    <2>2. layer' \in [Toplevels -> Layers] /\ enabled' \in SUBSET Toplevels
      BY <1>1, <1>4 DEF SessionActive, TypeOK, Layers, Refresh
    <2>3. TypeOK'
      BY <1>1, <2>1, <2>2 DEF TypeOK
    <2> QED BY <1>1, <2>1, <2>3, WindowsKept
  <1> QED BY <1>2, <1>3, <1>4 DEF OutputNext

(* The pointer handlers preserve the invariant.                            *)
LEMMA PointerNextInv ==
    ASSUME IInv, PointerNext
    PROVE  IInv'
  <1>1. /\ TypeOK /\ outputs \in Seq(Output) /\ InRange(focused, windows)
        /\ windows \in [Workspaces -> Seq(Toplevels)] /\ focused \in [Workspaces -> Nat]
    BY DEF IInv, TypeOK
  <1>2. ASSUME NEW tl \in Toplevels, NEW chord \in GrabModes, Press(tl, chord)
        PROVE  IInv'
    <2>1. UNCHANGED <<windows, tree, outputs, cursor, life, fullscreen, floating, requested,
                      layer, tiledStates, enabled>>
      BY <1>2 DEF Press, outputVars, toplevelVars
    <2>2. focused' \in [Workspaces -> Nat] /\ InRange(focused', windows')
      <3>1. ASSUME NEW w \in Workspaces
            PROVE  /\ focused'[w] \in Nat
                   /\ IF windows[w] = <<>> THEN focused'[w] = 0 ELSE focused'[w] < Len(windows[w])
        <4>1. CASE w \notin Holders(tl)
          BY <1>1, <1>2, <4>1 DEF Press, ClickFocus, InRange
        <4>2. CASE w \in Holders(tl)
          <5> DEFINE k == CHOOSE k \in DOMAIN windows[w] : windows[w][k] = tl
          <5>1. k \in DOMAIN windows[w]
            BY <4>2 DEF Holders, Range
          <5>2. focused'[w] = k - 1
            BY <1>2, <4>2 DEF Press, ClickFocus
          <5> HIDE DEF k
          <5>3. windows[w] \in Seq(Toplevels)
            BY <1>1
          <5> QED BY <5>1, <5>2, <5>3
        <4> QED BY <4>1, <4>2
      <3>2. focused' = [w \in Workspaces |-> focused'[w]]
        BY <1>2 DEF Press, ClickFocus
      <3> QED BY <2>1, <3>1, <3>2 DEF InRange
    <2>3. /\ grab' \in GrabModes /\ grabTl' \in Toplevels \cup {NoToplevel}
          /\ GrabTargetTracked' /\ seat' \in Toplevels
      <3>1. Tracked' = Tracked
        BY <2>1 DEF Tracked
      <3>2. tl # NoToplevel
        BY ServerAssumption
      <3> QED BY <1>1, <1>2, <3>1, <3>2 DEF Press, GrabPress, grabVars, IInv, TypeOK, GrabTargetTracked
    <2>4. TypeOK'
      BY <1>1, <2>1, <2>2, <2>3 DEF TypeOK
    <2> QED BY <2>1, <2>2, <2>3, <2>4 DEF IInv, TrackedIsMapped, Tracked, TreeMatchesTiled, TiledSet
  <1>3. ASSUME PressLayerSurface
        PROVE  IInv'
    <2>1. UNCHANGED <<windows, focused, tree, outputVars, toplevelVars, enabled, grabVars>>
      BY <1>3 DEF PressLayerSurface
    <2>2. seat' \in Toplevels \cup {NoToplevel}
      BY <1>3 DEF PressLayerSurface
    <2> QED BY <1>1, <2>1, <2>2, FocusOnly
  <1>4. ASSUME Release
        PROVE  IInv'
    <2>1. UNCHANGED <<windows, focused, tree, outputs, cursor, life, fullscreen, floating,
                      requested, layer, tiledStates, enabled, seat>>
      BY <1>4 DEF Release, outputVars, toplevelVars
    <2>2. grab' = "none" /\ grabTl' = NoToplevel
      BY <1>4 DEF Release
    <2>3. TypeOK'
      BY <1>1, <2>1, <2>2 DEF TypeOK, GrabModes
    <2> QED BY <2>1, <2>2, <2>3 DEF IInv, TrackedIsMapped, Tracked, TreeMatchesTiled, TiledSet,
                                    GrabTargetTracked
  <1>5. ASSUME Motion
        PROVE  IInv'
    <2>1. UNCHANGED <<windows, focused, tree, outputs, life, fullscreen, floating, requested,
                      layer, tiledStates, enabled, grab, grabTl, seat>>
      BY <1>5 DEF Motion, toplevelVars, grabVars
    <2>2. cursor' \in OutputIds \cup {NoOutput}
      <3>1. \A o \in DOMAIN outputs : outputs[o] \in Output
        BY <1>1
      <3> QED BY <1>5, <3>1 DEF Motion, Output
    <2>3. TypeOK'
      BY <1>1, <2>1, <2>2 DEF TypeOK
    <2> QED BY <1>1, <2>1, <2>3, WindowsKept
  <1> QED BY <1>2, <1>3, <1>4, <1>5 DEF PointerNext

-----------------------------------------------------------------------------
(* A server that has just started satisfies the invariant.                 *)
LEMMA InitInv == Init => IInv
  <1> SUFFICES ASSUME Init PROVE IInv
    OBVIOUS
  <1>1. ASSUME NEW w \in Workspaces
        PROVE  windows[w] = <<>> /\ Range(windows[w]) = {} /\ TiledSet(w) = {}
    BY DEF Init, Range, TiledSet
  <1>2. TypeOK
    BY TreeAssumption DEF Init, TypeOK, TreeLaws, Lives, Layers, GrabModes
  <1>3. InRange(focused, windows) /\ ListedOnce(windows)
    BY <1>1 DEF Init, InRange, ListedOnce, Once
  <1>4. Tracked = {}
    BY <1>1 DEF Tracked
  <1>5. TreeMatchesTiled
    BY <1>1, TreeAssumption, FS_EmptySet DEF Init, TreeMatchesTiled, TreeLaws
  <1> QED BY <1>2, <1>3, <1>4, <1>5 DEF IInv, Init, TrackedIsMapped, GrabTargetTracked

(* The invariant is inductive.                                             *)
LEMMA NextInv == IInv /\ [Next]_vars => IInv'
  <1> SUFFICES ASSUME IInv, [Next]_vars PROVE IInv'
    OBVIOUS
  <1>1. CASE ToplevelNext
    BY <1>1, NewToplevelInv, InitialCommitInv, MapWithoutOutputInv, MapInv, UnmapInv, DestroyInv,
       RequestFullscreenInv DEF ToplevelNext
  <1>2. CASE KeyNext
    BY <1>2, FocusStepInv, MoveFocusInv, MoveWindowInv, ResizeWindowInv, ToggleFullscreenInv,
       ToggleFloatingInv, SwitchWorkspaceInv, MoveToWorkspaceInv DEF KeyNext
  <1>3. CASE OutputNext
    BY <1>3, OutputNextInv
  <1>4. CASE PointerNext
    BY <1>4, PointerNextInv
  <1>5. CASE UNCHANGED vars
    <2>1. UNCHANGED <<windows, focused, tree, outputs, cursor, life, fullscreen, floating,
                      requested, layer, tiledStates, enabled, grab, grabTl, seat>>
      BY <1>5 DEF vars, outputVars, toplevelVars, grabVars
    <2> QED BY <2>1 DEF IInv, TypeOK, TrackedIsMapped, GrabTargetTracked, Tracked,
                        TreeMatchesTiled, TiledSet
  <1> QED BY <1>1, <1>2, <1>3, <1>4, <1>5 DEF Next

(* The inductive invariant holds of every reachable state.                 *)
THEOREM Invariance == Spec => []IInv
  BY InitInv, NextInv, PTL DEF Spec

(* Whatever the clients, keys, pointer and monitors do, in any order:      *)
(* every variable keeps its type (the Rust fields and the shim's objects). *)
THEOREM TypeCorrect == Spec => []TypeOK
  <1>1. IInv => TypeOK
    BY DEF IInv
  <1> QED BY <1>1, Invariance, PTL

(* `Workspace.focused` is a valid index into `Workspace.windows` whenever  *)
(* there is a window: move_to_workspace and movewindow index with it.      *)
THEOREM FocusAlwaysInRange == Spec => []FocusInRange
  <1>1. IInv => FocusInRange
    BY DEF IInv, InRange, FocusInRange
  <1> QED BY <1>1, Invariance, PTL

(* No window is on two workspaces, or twice on one: remove_window leaves   *)
(* no second, dangling pointer.                                            *)
THEOREM WindowsListedOnce == Spec => []EachWindowOnce
  <1>1. IInv => EachWindowOnce
    BY OnceIsOnce DEF IInv, TypeOK
  <1> QED BY <1>1, Invariance, PTL

(* Every window on a workspace is mapped, so handle_destroy frees none     *)
(* that a workspace lists.                                                 *)
THEOREM ListedAreMapped == Spec => []TrackedIsMapped
  <1>1. IInv => TrackedIsMapped
    BY DEF IInv
  <1> QED BY <1>1, Invariance, PTL

(* The window under a pointer grab is alive: handle_grab_motion may        *)
(* dereference it.                                                         *)
THEOREM GrabIsAlive == Spec => []GrabTargetTracked
  <1>1. IInv => GrabTargetTracked
    BY DEF IInv
  <1> QED BY <1>1, Invariance, PTL

(* Every workspace's split tree has one leaf per tiled window, for any     *)
(* tree whose operations obey TreeLaws.                                    *)
THEOREM TreeInStep == Spec => []TreeMatchesTiled
  <1>1. IInv => TreeMatchesTiled
    BY DEF IInv
  <1> QED BY <1>1, Invariance, PTL

-----------------------------------------------------------------------------
(* Visibility.                                                             *)

(* refresh makes it right, whatever the handler did before.                *)
LEMMA RefreshShows ==
    ASSUME windows' \in [Workspaces -> Seq(Toplevels)], ListedOnce(windows'), Refresh
    PROVE  VisibleIffShown'
  <1> SUFFICES ASSUME NEW w \in Workspaces, NEW tl \in Range(windows'[w])
               PROVE  tl \in enabled' <=> w \in Shown'
    BY DEF VisibleIffShown
  <1>1. tl \in Toplevels /\ tl \in Tracked'
    BY SeqFacts DEF Tracked
  <1>2. Holders(tl)' = {w}
    BY DEF Holders, ListedOnce
  <1> QED BY <1>1, <1>2 DEF Refresh

(* Every handler keeps the listed windows' visibility right: it refreshes, or *)
(* moves no window and changes no output.                                  *)
LEMMA NextShows == IInv /\ IInv' /\ VisibleIffShown /\ [Next]_vars => VisibleIffShown'
  <1> SUFFICES ASSUME IInv, IInv', VisibleIffShown, [Next]_vars PROVE VisibleIffShown'
    OBVIOUS
  <1>1. windows' \in [Workspaces -> Seq(Toplevels)] /\ ListedOnce(windows')
    BY DEF IInv, TypeOK
  <1>2. CASE Refresh
    BY <1>1, <1>2, RefreshShows
  <1>3. CASE UNCHANGED <<windows, outputs, enabled>>
    <2>1. Shown' = Shown
      BY <1>3 DEF Shown
    <2> QED BY <1>3, <2>1 DEF VisibleIffShown
  <1>4. ASSUME NEW tl \in Toplevels, NewToplevel(tl)
        PROVE  VisibleIffShown'
    <2>1. \A w \in Workspaces : tl \notin Range(windows[w])
      BY <1>4 DEF IInv, TrackedIsMapped, Tracked, NewToplevel
    <2>2. UNCHANGED <<windows, outputs>> /\ enabled' = enabled \cup {tl}
      BY <1>4 DEF NewToplevel, outputVars
    <2>3. Shown' = Shown
      BY <2>2 DEF Shown
    <2>4. ASSUME NEW w \in Workspaces, NEW x \in Range(windows[w])
          PROVE  x \in enabled' <=> w \in Shown
      BY <2>1, <2>2 DEF VisibleIffShown
    <2> QED BY <2>2, <2>3, <2>4 DEF VisibleIffShown
  <1>5. ASSUME NEW tl \in Toplevels, NEW on \in BOOLEAN, RequestFullscreen(tl, on)
        PROVE  Refresh \/ UNCHANGED <<windows, outputs, enabled>>
    BY <1>5 DEF RequestFullscreen, SetFullscreen, outputVars
  <1>6. CASE ToplevelNext
    <2>1. PICK tl \in Toplevels :
            \/ NewToplevel(tl)
            \/ \E on \in BOOLEAN : RequestFullscreen(tl, on)
            \/ InitialCommit(tl) \/ MapWithoutOutput(tl)
            \/ Map(tl) \/ Unmap(tl) \/ Destroy(tl)
      BY <1>6 DEF ToplevelNext
    <2>2. ASSUME InitialCommit(tl) \/ MapWithoutOutput(tl)
          PROVE  UNCHANGED <<windows, outputs, enabled>>
      BY <2>2 DEF InitialCommit, MapWithoutOutput, outputVars
    <2>3. ASSUME Map(tl) \/ Unmap(tl) \/ Destroy(tl)
          PROVE  Refresh
      BY <2>3 DEF Map, Unmap, Destroy
    <2> QED BY <1>2, <1>3, <1>4, <1>5, <2>1, <2>2, <2>3
  <1>7. CASE KeyNext
    <2>1. ASSUME FocusStep \/ MoveFocus
          PROVE  UNCHANGED <<windows, outputs, enabled>>
      BY <2>1 DEF FocusStep, MoveFocus, outputVars
    <2>2. ASSUME MoveWindow \/ ResizeWindow \/ ToggleFullscreen \/ ToggleFloating
          PROVE  Refresh
      BY <2>2 DEF MoveWindow, ResizeWindow, ToggleFullscreen, ToggleFloating, SetFullscreen, SetFloating
    <2>3. ASSUME NEW target \in Workspaces, SwitchWorkspace(target) \/ MoveToWorkspace(target)
          PROVE  Refresh
      BY <2>3 DEF SwitchWorkspace, MoveToWorkspace
    <2> QED BY <1>2, <1>3, <1>7, <2>1, <2>2, <2>3 DEF KeyNext
  <1>8. CASE OutputNext
    BY <1>2, <1>8 DEF OutputNext, NewOutput, OutputDestroy, SessionActive
  <1>9. CASE PointerNext
    BY <1>3, <1>9 DEF PointerNext, Press, PressLayerSurface, Release, Motion, outputVars
  <1>10. CASE UNCHANGED vars
    BY <1>3, <1>10 DEF vars, outputVars
  <1> QED BY <1>6, <1>7, <1>8, <1>9, <1>10 DEF Next

(* A window on a workspace has its scene node enabled exactly while its    *)
(* workspace is on an output: no handler leaves out refresh where it is    *)
(* needed, and none shows a window elsewhere.                              *)
THEOREM ShownAreVisible == Spec => []VisibleIffShown
  <1>1. Init => VisibleIffShown
    BY DEF Init, VisibleIffShown, Range
  <1> QED BY <1>1, NextShows, Invariance, PTL DEF Spec
=============================================================================
