----------------------------- MODULE LayoutProofs -----------------------------
(***************************************************************************)
(* Theorems about the real split tree (modules Layout, SplitTree and       *)
(* Navigation), for any number of windows, any ratios, boxes and gaps.     *)
(*                                                                         *)
(* A recursive function is a CHOOSE to the prover: that one exists is      *)
(* proved first (Recursion), from which its equation follows.  Induction   *)
(* over trees is by a set of trees with the property (TreeInduction),      *)
(* induction over numbers by a least counterexample (LeastNatural).        *)
(***************************************************************************)
EXTENDS Navigation, ListLemmas

-----------------------------------------------------------------------------
(* The trees.                                                              *)

Splits(S) == [kind : {"split"}, vertical : BOOLEAN, ratio : MinRatio .. MaxRatio,
              first : S, second : S]

LEMMA Parameters ==
    /\ RatioUnits \in Nat /\ MinRatio \in Nat /\ MaxRatio \in Nat /\ DefaultRatio \in Nat
    /\ MaxLeaves \in Nat /\ MaxLeaves >= 1
    /\ 1 <= MinRatio /\ MinRatio <= DefaultRatio /\ DefaultRatio <= MaxRatio
    /\ MaxRatio < RatioUnits /\ RatioUnits = 2 * DefaultRatio
  BY LayoutAssumption

(* The levels exist: up to any level k there are some, by induction on k,  *)
(* and only one way.                                                       *)
LEMMA LevelsExist ==
    \E L : L = [n \in Nat |-> IF n = 0 THEN {Leaf} ELSE {Leaf} \cup Splits(L[n - 1])]
  <1> DEFINE Good(L, k) ==
                L = [n \in 0 .. k |-> IF n = 0 THEN {Leaf} ELSE {Leaf} \cup Splits(L[n - 1])]
  <1>1. ASSUME NEW k \in Nat PROVE \E L : Good(L, k)
    <2> DEFINE T == {m \in Nat : ~ \E L : Good(L, m)}
    <2>1. SUFFICES ASSUME T # {} PROVE FALSE
      OBVIOUS
    <2>2. T \subseteq Nat
      OBVIOUS
    <2>3. PICK m \in T : \A j \in T : m <= j
      <3> HIDE DEF T
      <3> QED BY <2>1, <2>2, LeastNatural
    <2>4. Good([n \in 0 .. 0 |-> {Leaf}], 0)
      OBVIOUS
    <2>5. m # 0
      BY <2>3, <2>4
    <2>6. m \in Nat /\ m - 1 \in Nat /\ m - 1 \notin T
      <3> HIDE DEF T
      <3> QED BY <2>2, <2>3, <2>5
    <2>7. PICK L : Good(L, m - 1)
      BY <2>6
    <2> DEFINE M == [n \in 0 .. m |-> IF n = 0 THEN {Leaf} ELSE {Leaf} \cup Splits(L[n - 1])]
    <2>8. ASSUME NEW n \in 0 .. m - 1 PROVE M[n] = L[n]
      <3>1. L[n] = IF n = 0 THEN {Leaf} ELSE {Leaf} \cup Splits(L[n - 1])
        BY <2>7, Zenon
      <3> QED BY <2>6, <3>1
    <2>9. Good(M, m)
      <3> SUFFICES ASSUME NEW n \in 0 .. m, n # 0 PROVE L[n - 1] = M[n - 1]
        OBVIOUS
      <3>1. n - 1 \in 0 .. m - 1
        BY <2>6
      <3> QED BY <2>8, <3>1, Zenon
    <2> QED BY <2>3, <2>9
  <1>2. ASSUME NEW k \in Nat, NEW L, Good(L, k), NEW n \in 0 .. k
        PROVE  L[n] = IF n = 0 THEN {Leaf} ELSE {Leaf} \cup Splits(L[n - 1])
    BY <1>2, Zenon
  <1>3. ASSUME NEW k \in Nat, NEW L, Good(L, k), NEW j \in Nat, NEW M, Good(M, j)
        PROVE  \A n \in Nat : n <= k /\ n <= j => L[n] = M[n]
    <2> DEFINE T == {n \in Nat : n <= k /\ n <= j /\ L[n] # M[n]}
    <2>1. SUFFICES ASSUME T # {} PROVE FALSE
      OBVIOUS
    <2>2. T \subseteq Nat
      OBVIOUS
    <2>3. PICK n \in T : \A i \in T : n <= i
      <3> HIDE DEF T
      <3> QED BY <2>1, <2>2, LeastNatural
    <2>4. n \in Nat /\ n \in 0 .. k /\ n \in 0 .. j /\ L[n] # M[n]
      OBVIOUS
    <2>5. /\ L[n] = IF n = 0 THEN {Leaf} ELSE {Leaf} \cup Splits(L[n - 1])
          /\ M[n] = IF n = 0 THEN {Leaf} ELSE {Leaf} \cup Splits(M[n - 1])
      <3>1. Good(L, k) /\ Good(M, j)
        BY <1>3
      <3> HIDE DEF T, Good
      <3> QED BY <1>2, <2>4, <3>1
    <2>6. n # 0
      BY <2>4, <2>5
    <2>7. n - 1 \in Nat /\ n - 1 <= k /\ n - 1 <= j /\ n - 1 \notin T
      <3>1. n - 1 \notin T
        <4> HIDE DEF T
        <4> QED BY <2>3, <2>4, <2>6
      <3> QED BY <2>4, <2>6, <3>1
    <2> QED BY <2>4, <2>5, <2>7
  <1> DEFINE F(k) == CHOOSE L : Good(L, k)
             H == [n \in Nat |-> F(n)[n]]
  <1>4. ASSUME NEW k \in Nat PROVE Good(F(k), k)
    BY <1>1, Zenon
  <1>5. ASSUME NEW n \in Nat
        PROVE  H[n] = IF n = 0 THEN {Leaf} ELSE {Leaf} \cup Splits(H[n - 1])
    <2> HIDE DEF Good, F
    <2>1. F(n)[n] = IF n = 0 THEN {Leaf} ELSE {Leaf} \cup Splits(F(n)[n - 1])
      <3>1. n \in 0 .. n /\ Good(F(n), n)
        BY <1>4
      <3> QED BY <1>2, <3>1
    <2>2. ASSUME n # 0 PROVE F(n)[n - 1] = H[n - 1]
      <3>1. n - 1 \in Nat /\ n - 1 <= n /\ n - 1 <= n - 1
        BY <2>2
      <3>2. Good(F(n), n) /\ Good(F(n - 1), n - 1)
        BY <1>4, <3>1
      <3>3. F(n)[n - 1] = F(n - 1)[n - 1]
        BY <1>3, <3>1, <3>2
      <3> QED BY <3>1, <3>3
    <2> QED BY <2>1, <2>2
  <1>6. H = [n \in Nat |-> IF n = 0 THEN {Leaf} ELSE {Leaf} \cup Splits(H[n - 1])]
    <2>1. H = [n \in Nat |-> H[n]]
      OBVIOUS
    <2> HIDE DEF H
    <2> QED BY <1>5, <2>1
  <1> QED BY <1>6

LEMMA LevelsAre ==
    /\ Levels[0] = {Leaf}
    /\ \A n \in Nat : Levels[n + 1] = {Leaf} \cup Splits(Levels[n])
  <1> DEFINE Body(L) ==
        [n \in Nat |-> IF n = 0 THEN {Leaf} ELSE {Leaf} \cup Splits(L[n - 1])]
  <1>1. PICK L : L = Body(L)
    BY LevelsExist
  <1>2. Levels = CHOOSE M : M = Body(M)
    BY DEF Levels, Splits
  <1>3. Levels = Body(Levels)
    BY <1>1, <1>2
  <1>4. \A n \in Nat :
            Levels[n] = IF n = 0 THEN {Leaf} ELSE {Leaf} \cup Splits(Levels[n - 1])
    BY <1>3, Zenon
  <1>5. Levels[0] = {Leaf}
    BY <1>4
  <1>6. ASSUME NEW n \in Nat
        PROVE  Levels[n + 1] = {Leaf} \cup Splits(Levels[n])
    <2>1. n + 1 \in Nat /\ n + 1 # 0 /\ (n + 1) - 1 = n
      OBVIOUS
    <2> QED BY <1>4, <2>1
  <1> QED BY <1>5, <1>6

(* A node is a leaf or a split of two nodes, and no leaf is a split.       *)
LEMMA SplitFacts ==
    ASSUME NEW S, NEW t \in Splits(S)
    PROVE  /\ t # Leaf /\ t # None
           /\ t.vertical \in BOOLEAN
           /\ t.ratio \in MinRatio .. MaxRatio
           /\ t.first \in S /\ t.second \in S
           /\ t = Split(t.vertical, t.ratio, t.first, t.second)
  BY DEF Splits, Leaf, None, Split

LEMMA SplitIn ==
    ASSUME NEW S, NEW vertical \in BOOLEAN, NEW ratio \in MinRatio .. MaxRatio,
           NEW first \in S, NEW second \in S
    PROVE  Split(vertical, ratio, first, second) \in Splits(S)
  BY DEF Splits, Split

LEMMA SplitFields ==
    ASSUME NEW vertical, NEW ratio, NEW first, NEW second
    PROVE  LET t == Split(vertical, ratio, first, second)
           IN  /\ t.vertical = vertical /\ t.ratio = ratio
               /\ t.first = first /\ t.second = second
               /\ t # Leaf /\ t # None
               /\ \A f : [t EXCEPT !.first = f] = Split(vertical, ratio, f, second)
               /\ \A f : [t EXCEPT !.second = f] = Split(vertical, ratio, first, f)
               /\ \A r : [t EXCEPT !.ratio = r] = Split(vertical, r, first, second)
  <1> DEFINE t == Split(vertical, ratio, first, second)
  <1>1. /\ t.vertical = vertical /\ t.ratio = ratio
        /\ t.first = first /\ t.second = second
    BY DEF Split
  <1>2. t # Leaf /\ t # None
    BY DEF Split, Leaf, None
  <1>3. ASSUME NEW f
        PROVE  /\ [t EXCEPT !.first = f] = Split(vertical, ratio, f, second)
               /\ [t EXCEPT !.second = f] = Split(vertical, ratio, first, f)
               /\ [t EXCEPT !.ratio = f] = Split(vertical, f, first, second)
    BY DEF Split
  <1> QED BY <1>1, <1>2, <1>3

LEMMA SplitsMonotone ==
    ASSUME NEW S, NEW U, S \subseteq U
    PROVE  Splits(S) \subseteq Splits(U)
  BY DEF Splits

LEMMA LeafIsNotNone == Leaf # None
  BY DEF Leaf, None

(* Each level is in the next.                                              *)
LEMMA LevelsMonotone ==
    ASSUME NEW n \in Nat
    PROVE  Levels[n] \subseteq Levels[n + 1]
  <1> DEFINE T == {k \in Nat : ~ Levels[k] \subseteq Levels[k + 1]}
  <1>1. SUFFICES ASSUME T # {} PROVE FALSE
    OBVIOUS
  <1>2. PICK k \in T : \A m \in T : k <= m
    <2>1. T \subseteq Nat
      OBVIOUS
    <2> HIDE DEF T
    <2> QED BY <1>1, <2>1, LeastNatural
  <1>3. k \in Nat /\ ~ Levels[k] \subseteq Levels[k + 1]
    OBVIOUS
  <1>4. \A m \in Nat : m < k => Levels[m] \subseteq Levels[m + 1]
    BY <1>2, <1>3
  <1> HIDE DEF T
  <1>5. CASE k = 0
    BY <1>3, <1>5, LevelsAre
  <1>6. CASE k # 0
    <2>1. PICK m \in Nat : k = m + 1
      <3>1. k - 1 \in Nat /\ k = (k - 1) + 1
        BY <1>3, <1>6
      <3> QED BY <3>1
    <2>2. Levels[m] \subseteq Levels[m + 1]
      BY <1>4, <2>1
    <2>3. Splits(Levels[m]) \subseteq Splits(Levels[m + 1])
      BY <2>2, SplitsMonotone
    <2> QED BY <1>3, <2>1, <2>3, LevelsAre
  <1> QED BY <1>5, <1>6

LEMMA LevelsGrow ==
    ASSUME NEW n \in Nat, NEW m \in Nat, m <= n
    PROVE  Levels[m] \subseteq Levels[n]
  <1> DEFINE T == {k \in Nat : m <= k /\ ~ Levels[m] \subseteq Levels[k]}
  <1>1. SUFFICES ASSUME T # {} PROVE FALSE
    OBVIOUS
  <1>2. PICK k \in T : \A j \in T : k <= j
    <2>1. T \subseteq Nat
      OBVIOUS
    <2> HIDE DEF T
    <2> QED BY <1>1, <2>1, LeastNatural
  <1>3. k \in Nat /\ m <= k /\ ~ Levels[m] \subseteq Levels[k]
    OBVIOUS
  <1>4. \A j \in Nat : m <= j /\ j < k => Levels[m] \subseteq Levels[j]
    BY <1>2, <1>3
  <1> HIDE DEF T
  <1>5. k # m
    BY <1>3
  <1>6. k - 1 \in Nat /\ m <= k - 1 /\ k - 1 < k /\ (k - 1) + 1 = k
    BY <1>3, <1>5
  <1>7. Levels[k - 1] \subseteq Levels[k]
    BY <1>6, LevelsMonotone
  <1> QED BY <1>3, <1>4, <1>6, <1>7

LEMMA LeafInLevels ==
    ASSUME NEW n \in Nat
    PROVE  Leaf \in Levels[n]
  BY LevelsAre, LevelsGrow

(* All trees there are, of any height.                                     *)
AllNodes == UNION {Levels[n] : n \in Nat}

LEMMA NodesAreAllNodes == Nodes \subseteq AllNodes
  BY Parameters DEF Nodes, AllNodes

LEMMA AllNodesClosed ==
    /\ Leaf \in AllNodes
    /\ Splits(AllNodes) \subseteq AllNodes
  <1>1. Leaf \in AllNodes
    BY LeafInLevels DEF AllNodes
  <1>2. ASSUME NEW t \in Splits(AllNodes) PROVE t \in AllNodes
    <2>1. PICK m \in Nat, n \in Nat : t.first \in Levels[m] /\ t.second \in Levels[n]
      BY SplitFacts DEF AllNodes
    <2>2. PICK k \in Nat : m <= k /\ n <= k
      <3>1. CASE m <= n
        BY <3>1
      <3>2. CASE ~(m <= n)
        BY <3>2
      <3> QED BY <3>1, <3>2
    <2>3. t.first \in Levels[k] /\ t.second \in Levels[k]
      BY <2>1, <2>2, LevelsGrow
    <2>4. t \in Splits(Levels[k])
      BY <2>3, SplitFacts, SplitIn
    <2>5. t \in Levels[k + 1] /\ k + 1 \in Nat
      BY <2>4, LevelsAre
    <2> QED BY <2>5 DEF AllNodes
  <1> QED BY <1>1, <1>2

(* A level is closed under what stays below it.                            *)
LEMMA SplitInLevels ==
    ASSUME NEW n \in Nat, NEW t \in Levels[n], t # Leaf
    PROVE  /\ n # 0 /\ n - 1 \in Nat
           /\ t \in Splits(Levels[n - 1])
           /\ t.first \in Levels[n - 1] /\ t.second \in Levels[n - 1]
  <1>1. n # 0
    BY LevelsAre
  <1>2. n - 1 \in Nat /\ (n - 1) + 1 = n
    BY <1>1
  <1>3. t \in Splits(Levels[n - 1])
    BY <1>2, LevelsAre
  <1> QED BY <1>1, <1>2, <1>3, SplitFacts

(* What is inside a node is a node.                                        *)
LEMMA NodeFacts ==
    /\ Leaf \in Nodes /\ None \notin Nodes
    /\ \A t \in Nodes : t # Leaf =>
        /\ t \in Splits(Nodes)
        /\ t.first \in Nodes /\ t.second \in Nodes
        /\ t.vertical \in BOOLEAN /\ t.ratio \in MinRatio .. MaxRatio
        /\ t = Split(t.vertical, t.ratio, t.first, t.second)
  <1>1. MaxLeaves \in Nat /\ MaxLeaves - 1 \in Nat /\ MaxLeaves - 1 <= MaxLeaves
        /\ (MaxLeaves - 1) + 1 = MaxLeaves
    BY Parameters
  <1>2. Nodes = {Leaf} \cup Splits(Levels[MaxLeaves - 1])
    BY <1>1, LevelsAre DEF Nodes
  <1>3. Splits(Levels[MaxLeaves - 1]) \subseteq Splits(Nodes)
    BY <1>1, LevelsGrow, SplitsMonotone DEF Nodes
  <1>4. None \notin Nodes
    BY <1>2, SplitFacts, LeafIsNotNone
  <1>5. ASSUME NEW t \in Nodes, t # Leaf PROVE t \in Splits(Nodes)
    BY <1>2, <1>3, <1>5
  <1>6. Leaf \in Nodes
    BY <1>2
  <1> QED BY <1>4, <1>5, <1>6, SplitFacts

(* A set of nodes with the leaf in it, and every split whose children are  *)
(* in it, has all nodes.                                                   *)
LEMMA TreeInduction ==
    ASSUME NEW T, Leaf \in T,
           \A t \in Nodes : t # Leaf /\ t.first \in T /\ t.second \in T => t \in T
    PROVE  Nodes \subseteq T
  <1> DEFINE B == {k \in Nat : k <= MaxLeaves /\ ~ Levels[k] \subseteq T}
  <1>1. SUFFICES ASSUME B # {} PROVE FALSE
    BY Parameters DEF Nodes
  <1>2. PICK k \in B : \A j \in B : k <= j
    <2>1. B \subseteq Nat
      OBVIOUS
    <2> HIDE DEF B
    <2> QED BY <1>1, <2>1, LeastNatural
  <1>3. k \in Nat /\ k <= MaxLeaves /\ ~ Levels[k] \subseteq T
    OBVIOUS
  <1>4. \A j \in Nat : j < k => Levels[j] \subseteq T
    BY <1>2, <1>3, Parameters
  <1> HIDE DEF B
  <1>5. Levels[k] \subseteq Nodes
    BY <1>3, LevelsGrow, Parameters DEF Nodes
  <1>6. ASSUME NEW t \in Levels[k] PROVE t \in T
    <2>1. CASE t = Leaf
      BY <2>1
    <2>2. CASE t # Leaf
      <3>1. k - 1 \in Nat /\ k - 1 < k /\ t.first \in Levels[k - 1] /\ t.second \in Levels[k - 1]
        BY <1>3, <2>2, SplitInLevels
      <3> QED BY <1>4, <1>5, <2>2, <3>1
    <2> QED BY <2>1, <2>2
  <1> QED BY <1>3, <1>6

(* A function on nodes may be defined by what it is at a leaf, and at a    *)
(* split from what it is at the children.                                  *)
NodeRules(V) == [Nodes -> [V -> [V -> V]]]

Follows(f, V, base, node) ==
    /\ f \in [Nodes -> V]
    /\ \A t \in Nodes : f[t] = IF t = Leaf THEN base ELSE node[t][f[t.first]][f[t.second]]

LEMMA Recursion ==
    ASSUME NEW V, NEW base \in V, NEW node \in NodeRules(V)
    PROVE  \E f : Follows(f, V, base, node)
  <1> DEFINE Value(f, t) == IF t = Leaf THEN base ELSE node[t][f[t.first]][f[t.second]]
             Good(k) == \E f \in [Levels[k] -> V] : \A t \in Levels[k] : f[t] = Value(f, t)
             B == {k \in Nat : k <= MaxLeaves /\ ~ Good(k)}
  <1>1. SUFFICES ASSUME B # {} PROVE FALSE
    <2>1. SUFFICES Good(MaxLeaves)
      BY <2>1 DEF Nodes, Follows
    <2> HIDE DEF Good
    <2> QED BY Parameters
  <1>2. PICK k \in B : \A j \in B : k <= j
    <2>1. B \subseteq Nat
      OBVIOUS
    <2> HIDE DEF B
    <2> QED BY <1>1, <2>1, LeastNatural
  <1>3. k \in Nat /\ k <= MaxLeaves /\ ~ Good(k)
    OBVIOUS
  <1>4. \A j \in Nat : j < k => Good(j)
    <2> SUFFICES ASSUME NEW j \in Nat, j < k PROVE j \notin B /\ j <= MaxLeaves
      OBVIOUS
    <2> HIDE DEF B
    <2> QED BY <1>2, <1>3, Parameters
  <1> HIDE DEF B
  <1>5. k # 0
    <2>1. Good(0)
      <3> DEFINE f == [t \in Levels[0] |-> base]
      <3>1. f \in [Levels[0] -> V] /\ \A t \in Levels[0] : f[t] = Value(f, t)
        BY LevelsAre
      <3> QED BY <3>1
    <2> QED BY <1>3, <2>1
  <1>6. k - 1 \in Nat /\ k - 1 < k /\ (k - 1) + 1 = k
    BY <1>3, <1>5
  <1>7. PICK g \in [Levels[k - 1] -> V] : \A t \in Levels[k - 1] : g[t] = Value(g, t)
    BY <1>4, <1>6
  <1> DEFINE f == [t \in Levels[k] |-> Value(g, t)]
  <1>8. \A t \in Levels[k] : t # Leaf => t.first \in Levels[k - 1] /\ t.second \in Levels[k - 1]
    BY <1>3, SplitInLevels
  <1>9. Levels[k - 1] \subseteq Levels[k] /\ Levels[k] \subseteq Nodes
    <2>1. Levels[k - 1] \subseteq Levels[k]
      BY <1>6, LevelsMonotone
    <2>2. Levels[k] \subseteq Nodes
      BY <1>3, LevelsGrow, Parameters DEF Nodes
    <2> QED BY <2>1, <2>2
  <1>10. f \in [Levels[k] -> V]
    BY <1>7, <1>8, <1>9 DEF NodeRules
  <1>11. \A t \in Levels[k - 1] : f[t] = g[t]
    BY <1>7, <1>9
  <1>12. \A t \in Levels[k] : f[t] = Value(f, t)
    <2> SUFFICES ASSUME NEW t \in Levels[k] PROVE Value(g, t) = Value(f, t)
      OBVIOUS
    <2> HIDE DEF f
    <2> QED BY <1>8, <1>11
  <1> HIDE DEF f, Value
  <1> QED BY <1>3, <1>10, <1>12
-----------------------------------------------------------------------------
(* Counting leaves.                                                        *)
LEMMA LeavesAre ==
    \A t \in Nodes : Leaves[t] = IF t = Leaf THEN 1 ELSE Leaves[t.first] + Leaves[t.second]
  <1> DEFINE node == [t \in Nodes |-> [a \in Nat |-> [b \in Nat |-> a + b]]]
             Body(f) == [t \in Nodes |-> IF t = Leaf THEN 1 ELSE f[t.first] + f[t.second]]
  <1>1. node \in NodeRules(Nat) /\ 1 \in Nat
    BY DEF NodeRules
  <1>2. PICK f : Follows(f, Nat, 1, node)
    <2> HIDE DEF node
    <2> QED BY <1>1, Recursion
  <1>3. f = Body(f)
    BY <1>2, NodeFacts DEF Follows
  <1>4. Leaves = CHOOSE g : g = Body(g)
    BY DEF Leaves
  <1>5. Leaves = Body(Leaves)
    BY <1>3, <1>4
  <1> QED BY <1>5, Zenon

LEMMA LeavesType ==
    \A t \in Nodes : Leaves[t] \in Nat /\ Leaves[t] >= 1
  <1> DEFINE T == {t \in Nodes : Leaves[t] \in Nat /\ Leaves[t] >= 1}
  <1>1. Leaf \in T
    BY NodeFacts, LeavesAre
  <1>2. ASSUME NEW t \in Nodes, t # Leaf, t.first \in T, t.second \in T PROVE t \in T
    BY <1>2, LeavesAre
  <1>3. Nodes \subseteq T
    <2> HIDE DEF T
    <2> QED BY <1>1, <1>2, TreeInduction
  <1> QED BY <1>3

LEMMA LeavesOfSplit ==
    ASSUME NEW t \in Nodes, t # Leaf
    PROVE  /\ Leaves[t] = Leaves[t.first] + Leaves[t.second]
           /\ Leaves[t.first] \in Nat /\ Leaves[t.first] >= 1
           /\ Leaves[t.second] \in Nat /\ Leaves[t.second] >= 1
           /\ t.first \in Nodes /\ t.second \in Nodes
  BY NodeFacts, LeavesAre, LeavesType

(* A tree of few leaves is not high.                                       *)
LEMMA FewLeavesAreShallow ==
    \A t \in Nodes : t \in Levels[Leaves[t] - 1]
  <1> DEFINE T == {t \in Nodes : t \in Levels[Leaves[t] - 1]}
  <1>1. Leaf \in T
    BY NodeFacts, LeavesAre, LevelsAre
  <1>2. ASSUME NEW t \in Nodes, t # Leaf, t.first \in T, t.second \in T PROVE t \in T
    <2> DEFINE m == Leaves[t.first]
               n == Leaves[t.second]
    <2>1. m \in Nat /\ m >= 1 /\ n \in Nat /\ n >= 1 /\ Leaves[t] = m + n
      BY <1>2, LeavesOfSplit
    <2>2. t.first \in Levels[m - 1] /\ t.second \in Levels[n - 1]
      BY <1>2
    <2> HIDE DEF m, n, T
    <2>3. m - 1 \in Nat /\ n - 1 \in Nat /\ (m + n) - 2 \in Nat
          /\ m - 1 <= (m + n) - 2 /\ n - 1 <= (m + n) - 2
          /\ ((m + n) - 2) + 1 = Leaves[t] - 1
      BY <2>1
    <2>4. t.first \in Levels[(m + n) - 2] /\ t.second \in Levels[(m + n) - 2]
      BY <2>2, <2>3, LevelsGrow
    <2>5. t \in Splits(Levels[(m + n) - 2])
      BY <1>2, <2>4, NodeFacts, SplitIn
    <2>6. t \in Levels[Leaves[t] - 1]
      BY <2>3, <2>5, LevelsAre
    <2> QED BY <2>6 DEF T
  <1>3. Nodes \subseteq T
    <2> HIDE DEF T
    <2> QED BY <1>1, <1>2, TreeInduction
  <1> QED BY <1>3

(* So up to MaxLeaves of them it is a node.                                *)
LEMMA FewLeavesAreNodes ==
    ASSUME NEW t \in Nodes, NEW n \in Nat, Leaves[t] <= n + 1
    PROVE  t \in Levels[n]
  <1>1. t \in Levels[Leaves[t] - 1] /\ Leaves[t] - 1 \in Nat /\ Leaves[t] - 1 <= n
    BY FewLeavesAreShallow, LeavesType
  <1> QED BY <1>1, LevelsGrow
(* A split with one part replaced.                                         *)
LEMMA NodeUpdates ==
    ASSUME NEW t \in Nodes, t # Leaf, NEW x
    PROVE  /\ [t EXCEPT !.first = x] = Split(t.vertical, t.ratio, x, t.second)
           /\ [t EXCEPT !.second = x] = Split(t.vertical, t.ratio, t.first, x)
           /\ [t EXCEPT !.ratio = x] = Split(t.vertical, x, t.first, t.second)
  <1>1. PICK vertical, ratio, first, second : t = Split(vertical, ratio, first, second)
    BY NodeFacts
  <1> QED BY <1>1, SplitFields

(* Where leaf i of a split is.                                             *)
LEMMA ChildIndex ==
    ASSUME NEW t \in Nodes, t # Leaf, NEW i \in Nat
    PROVE  /\ InFirst(t, i) \in BOOLEAN
           /\ InFirst(t, i) <=> i < Leaves[t.first]
           /\ ~InFirst(t, i) => InSecond(t, i) \in Nat /\ i = Leaves[t.first] + InSecond(t, i)
  BY LeavesOfSplit DEF InFirst, InSecond

-----------------------------------------------------------------------------
(* Insertion.                                                              *)
LEMMA InsertAre ==
    \A t \in Nodes : \A axis \in BOOLEAN, i \in Nat :
        InsertInto[t][axis][i] =
            IF t = Leaf THEN Split(axis, DefaultRatio, Leaf, Leaf)
            ELSE IF InFirst(t, i)
            THEN Split(t.vertical, t.ratio, InsertInto[t.first][~t.vertical][i], t.second)
            ELSE Split(t.vertical, t.ratio, t.first, InsertInto[t.second][~t.vertical][InSecond(t, i)])
  <1> DEFINE V == [BOOLEAN -> [Nat -> AllNodes]]
             base == [axis \in BOOLEAN |-> [i \in Nat |-> Split(axis, DefaultRatio, Leaf, Leaf)]]
             At(t, a, b) == [axis \in BOOLEAN |-> [i \in Nat |->
                IF t = Leaf THEN Split(axis, DefaultRatio, Leaf, Leaf)
                ELSE IF InFirst(t, i)
                THEN [t EXCEPT !.first = a[~t.vertical][i]]
                ELSE [t EXCEPT !.second = b[~t.vertical][InSecond(t, i)]]]]
             node == [t \in Nodes |-> [a \in V |-> [b \in V |-> At(t, a, b)]]]
             Body(f) == [t \in Nodes |-> At(t, f[t.first], f[t.second])]
  <1>1. \A axis \in BOOLEAN : Split(axis, DefaultRatio, Leaf, Leaf) \in AllNodes
    <2>1. DefaultRatio \in MinRatio .. MaxRatio
      BY Parameters
    <2> QED BY <2>1, AllNodesClosed, SplitIn
  <1>2. base \in V
    BY <1>1
  <1>3. ASSUME NEW t \in Nodes, t # Leaf, NEW a \in V, NEW b \in V,
               NEW axis \in BOOLEAN, NEW i \in Nat
        PROVE  At(t, a, b)[axis][i] \in AllNodes
    <2>1. t.vertical \in BOOLEAN /\ t.ratio \in MinRatio .. MaxRatio
          /\ t.first \in AllNodes /\ t.second \in AllNodes
      BY <1>3, NodeFacts, NodesAreAllNodes
    <2>2. CASE InFirst(t, i)
      <3>1. a[~t.vertical][i] \in AllNodes
        BY <2>1
      <3>2. Split(t.vertical, t.ratio, a[~t.vertical][i], t.second) \in AllNodes
        BY <2>1, <3>1, SplitIn, AllNodesClosed
      <3> QED BY <1>3, <2>2, <3>2, NodeUpdates
    <2>3. CASE ~InFirst(t, i)
      <3>1. b[~t.vertical][InSecond(t, i)] \in AllNodes
        BY <1>3, <2>1, <2>3, ChildIndex
      <3>2. Split(t.vertical, t.ratio, t.first, b[~t.vertical][InSecond(t, i)]) \in AllNodes
        BY <2>1, <3>1, SplitIn, AllNodesClosed
      <3> QED BY <1>3, <2>3, <3>2, NodeUpdates
    <2> QED BY <2>2, <2>3
  <1>4. ASSUME NEW t \in Nodes, NEW a \in V, NEW b \in V
        PROVE  At(t, a, b) \in V
    <2>1. CASE t = Leaf
      BY <1>1, <2>1
    <2>2. CASE t # Leaf
      <3>1. \A axis \in BOOLEAN : \A i \in Nat : At(t, a, b)[axis][i] \in AllNodes
        BY <1>3, <2>2
      <3> QED BY <3>1
    <2> QED BY <2>1, <2>2
  <1>5. node \in NodeRules(V)
    <2> HIDE DEF At, V
    <2> QED BY <1>4 DEF NodeRules
  <1>6. PICK f : Follows(f, V, base, node)
    <2> HIDE DEF node, base, V
    <2> QED BY <1>2, <1>5, Recursion
  <1>7. f = Body(f)
    <2>1. f \in [Nodes -> V]
      BY <1>6 DEF Follows
    <2>2. ASSUME NEW t \in Nodes PROVE f[t] = At(t, f[t.first], f[t.second])
      <3>1. CASE t = Leaf
        <4>1. f[t] = base
          BY <1>6, <3>1 DEF Follows
        <4> QED BY <3>1, <4>1
      <3>2. CASE t # Leaf
        <4>1. f[t.first] \in V /\ f[t.second] \in V
          BY <2>1, <3>2, NodeFacts
        <4>2. f[t] = node[t][f[t.first]][f[t.second]]
          BY <1>6, <3>2 DEF Follows
        <4> HIDE DEF At, V
        <4> QED BY <4>1, <4>2
      <3> QED BY <3>1, <3>2
    <2> HIDE DEF At, V
    <2> QED BY <2>1, <2>2
  <1>8. InsertInto = CHOOSE g : g = Body(g)
    BY DEF InsertInto
  <1>9. InsertInto = Body(InsertInto)
    <2> HIDE DEF Body
    <2> QED BY <1>7, <1>8
  <1>10. ASSUME NEW t \in Nodes, NEW axis \in BOOLEAN, NEW i \in Nat
         PROVE  InsertInto[t][axis][i] = At(t, InsertInto[t.first], InsertInto[t.second])[axis][i]
    <2> HIDE DEF At
    <2> QED BY <1>9, Zenon
  <1>11. ASSUME NEW t \in Nodes, t # Leaf, NEW axis \in BOOLEAN, NEW i \in Nat
         PROVE  At(t, InsertInto[t.first], InsertInto[t.second])[axis][i] =
                    IF InFirst(t, i)
                    THEN Split(t.vertical, t.ratio, InsertInto[t.first][~t.vertical][i], t.second)
                    ELSE Split(t.vertical, t.ratio, t.first, InsertInto[t.second][~t.vertical][InSecond(t, i)])
    BY <1>11, NodeUpdates
  <1>12. ASSUME NEW axis \in BOOLEAN, NEW i \in Nat
         PROVE  At(Leaf, InsertInto[Leaf.first], InsertInto[Leaf.second])[axis][i] = Split(axis, DefaultRatio, Leaf, Leaf)
    OBVIOUS
  <1> HIDE DEF At
  <1> QED BY <1>10, <1>11, <1>12
(* The parts of a split that is a node.                                    *)
LEMMA SplitNode ==
    ASSUME NEW vertical, NEW ratio, NEW first, NEW second,
           Split(vertical, ratio, first, second) \in Nodes
    PROVE  LET t == Split(vertical, ratio, first, second)
           IN  /\ first \in Nodes /\ second \in Nodes
               /\ vertical \in BOOLEAN /\ ratio \in MinRatio .. MaxRatio
               /\ t # Leaf /\ t # None
               /\ t.first = first /\ t.second = second
               /\ t.vertical = vertical /\ t.ratio = ratio
               /\ Leaves[t] = Leaves[first] + Leaves[second]
               /\ \A i : InFirst(t, i) <=> i < Leaves[first]
               /\ \A i : InSecond(t, i) = i - Leaves[first]
  <1> DEFINE t == Split(vertical, ratio, first, second)
  <1>1. /\ t.vertical = vertical /\ t.ratio = ratio
        /\ t.first = first /\ t.second = second
        /\ t # Leaf /\ t # None
    BY SplitFields
  <1> HIDE DEF t
  <1>2. t \in Nodes
    BY DEF t
  <1>3. /\ first \in Nodes /\ second \in Nodes
        /\ vertical \in BOOLEAN /\ ratio \in MinRatio .. MaxRatio
    BY <1>1, <1>2, NodeFacts
  <1>4. Leaves[t] = Leaves[first] + Leaves[second]
    BY <1>1, <1>2, LeavesAre
  <1>5. /\ \A i : InFirst(t, i) <=> i < Leaves[first]
        /\ \A i : InSecond(t, i) = i - Leaves[first]
    BY <1>1 DEF InFirst, InSecond
  <1> QED BY <1>1, <1>3, <1>4, <1>5 DEF t

(* An insertion adds one level at most.                                    *)
LEMMA InsertLevel ==
    \A t \in Nodes : \A n \in Nat, axis \in BOOLEAN, i \in Nat :
        t \in Levels[n] => InsertInto[t][axis][i] \in Splits(Levels[n])
  <1> DEFINE P(t) == \A n \in Nat, axis \in BOOLEAN, i \in Nat :
                        t \in Levels[n] => InsertInto[t][axis][i] \in Splits(Levels[n])
             T == {t \in Nodes : P(t)}
  <1>1. Leaf \in T
    <2> SUFFICES ASSUME NEW n \in Nat, NEW axis \in BOOLEAN, NEW i \in Nat
                 PROVE  InsertInto[Leaf][axis][i] \in Splits(Levels[n])
      BY NodeFacts
    <2>1. InsertInto[Leaf][axis][i] = Split(axis, DefaultRatio, Leaf, Leaf)
      BY InsertAre, NodeFacts
    <2>2. DefaultRatio \in MinRatio .. MaxRatio
      BY Parameters
    <2> QED BY <2>1, <2>2, LeafInLevels, SplitIn
  <1>2. ASSUME NEW t \in Nodes, t # Leaf, t.first \in T, t.second \in T PROVE t \in T
    <2> SUFFICES ASSUME NEW n \in Nat, NEW axis \in BOOLEAN, NEW i \in Nat, t \in Levels[n]
                 PROVE  InsertInto[t][axis][i] \in Splits(Levels[n])
      OBVIOUS
    <2>1. /\ n - 1 \in Nat /\ (n - 1) + 1 = n
          /\ t.first \in Levels[n - 1] /\ t.second \in Levels[n - 1]
      BY <1>2, SplitInLevels
    <2>2. /\ t.vertical \in BOOLEAN /\ t.ratio \in MinRatio .. MaxRatio
          /\ t.first \in Levels[n] /\ t.second \in Levels[n]
      BY <1>2, <2>1, NodeFacts, LevelsMonotone
    <2>3. CASE InFirst(t, i)
      <3>1. InsertInto[t.first][~t.vertical][i] \in Splits(Levels[n - 1])
        BY <1>2, <2>1, <2>2
      <3>2. InsertInto[t.first][~t.vertical][i] \in Levels[n]
        BY <2>1, <3>1, LevelsAre
      <3>3. InsertInto[t][axis][i] = Split(t.vertical, t.ratio, InsertInto[t.first][~t.vertical][i], t.second)
        BY <1>2, <2>3, InsertAre
      <3> QED BY <2>2, <3>2, <3>3, SplitIn
    <2>4. CASE ~InFirst(t, i)
      <3>1. InSecond(t, i) \in Nat
        BY <1>2, <2>4, ChildIndex
      <3>2. InsertInto[t.second][~t.vertical][InSecond(t, i)] \in Splits(Levels[n - 1])
        BY <1>2, <2>1, <2>2, <3>1
      <3>3. InsertInto[t.second][~t.vertical][InSecond(t, i)] \in Levels[n]
        BY <2>1, <3>2, LevelsAre
      <3>4. InsertInto[t][axis][i] =
                Split(t.vertical, t.ratio, t.first, InsertInto[t.second][~t.vertical][InSecond(t, i)])
        BY <1>2, <2>4, InsertAre
      <3> QED BY <2>2, <3>3, <3>4, SplitIn
    <2> QED BY <2>3, <2>4
  <1>3. Nodes \subseteq T
    <2> HIDE DEF T
    <2> QED BY <1>1, <1>2, TreeInduction
  <1> QED BY <1>3

(* An insertion adds one leaf.                                             *)
LEMMA InsertLeaves ==
    \A t \in Nodes : \A axis \in BOOLEAN, i \in Nat :
        InsertInto[t][axis][i] \in Nodes => Leaves[InsertInto[t][axis][i]] = Leaves[t] + 1
  <1> DEFINE P(t) == \A axis \in BOOLEAN, i \in Nat :
                InsertInto[t][axis][i] \in Nodes => Leaves[InsertInto[t][axis][i]] = Leaves[t] + 1
             T == {t \in Nodes : P(t)}
  <1>1. Leaf \in T
    <2> SUFFICES ASSUME NEW axis \in BOOLEAN, NEW i \in Nat, InsertInto[Leaf][axis][i] \in Nodes
                 PROVE  Leaves[InsertInto[Leaf][axis][i]] = Leaves[Leaf] + 1
      BY NodeFacts
    <2>1. InsertInto[Leaf][axis][i] = Split(axis, DefaultRatio, Leaf, Leaf)
      BY InsertAre, NodeFacts
    <2> QED BY <2>1, SplitNode, LeavesAre
  <1>2. ASSUME NEW t \in Nodes, t # Leaf, t.first \in T, t.second \in T PROVE t \in T
    <2> SUFFICES ASSUME NEW axis \in BOOLEAN, NEW i \in Nat, InsertInto[t][axis][i] \in Nodes
                 PROVE  Leaves[InsertInto[t][axis][i]] = Leaves[t] + 1
      OBVIOUS
    <2>1. (~t.vertical) \in BOOLEAN
      BY <1>2, NodeFacts
    <2>2. CASE InFirst(t, i)
      <3> DEFINE f == InsertInto[t.first][~t.vertical][i]
      <3>1. InsertInto[t][axis][i] = Split(t.vertical, t.ratio, f, t.second)
        BY <1>2, <2>2, InsertAre
      <3>2. f \in Nodes /\ Leaves[InsertInto[t][axis][i]] = Leaves[f] + Leaves[t.second]
        <4> HIDE DEF f
        <4> QED BY <3>1, SplitNode
      <3>3. Leaves[f] = Leaves[t.first] + 1
        BY <1>2, <2>1, <3>2
      <3> HIDE DEF f, T
      <3> QED BY <1>2, <3>2, <3>3, LeavesOfSplit
    <2>3. CASE ~InFirst(t, i)
      <3> DEFINE j == InSecond(t, i)
                 s == InsertInto[t.second][~t.vertical][j]
      <3>0. j \in Nat
        BY <1>2, <2>3, ChildIndex
      <3>1. InsertInto[t][axis][i] = Split(t.vertical, t.ratio, t.first, s)
        BY <1>2, <2>3, InsertAre
      <3>2. s \in Nodes /\ Leaves[InsertInto[t][axis][i]] = Leaves[t.first] + Leaves[s]
        <4> HIDE DEF s
        <4> QED BY <3>1, SplitNode
      <3>3. Leaves[s] = Leaves[t.second] + 1
        <4> HIDE DEF j
        <4> QED BY <1>2, <2>1, <3>0, <3>2
      <3>4. Leaves[t] = Leaves[t.first] + Leaves[t.second]
            /\ Leaves[t.first] \in Nat /\ Leaves[t.second] \in Nat
        BY <1>2, LeavesOfSplit
      <3> HIDE DEF s, j
      <3> QED BY <3>2, <3>3, <3>4
    <2> QED BY <2>2, <2>3
  <1>3. Nodes \subseteq T
    <2> HIDE DEF T
    <2> QED BY <1>1, <1>2, TreeInduction
  <1> QED BY <1>3

-----------------------------------------------------------------------------
(* Removal.                                                                *)
LEMMA CollapsedAre ==
    ASSUME NEW t \in Nodes, t # Leaf, NEW c
    PROVE  /\ Collapsed(t, c, t.second) =
                IF c = None THEN t.second ELSE Split(t.vertical, t.ratio, c, t.second)
           /\ Collapsed(t, t.first, c) =
                IF c = None THEN t.first ELSE Split(t.vertical, t.ratio, t.first, c)
  <1>1. t.first # None /\ t.second # None
    BY NodeFacts
  <1> QED BY <1>1 DEF Collapsed

LEMMA RemoveAre ==
    \A t \in Nodes : \A i \in Nat :
        RemoveFrom[t][i] =
            IF t = Leaf THEN None
            ELSE IF InFirst(t, i)
            THEN LET f == RemoveFrom[t.first][i]
                 IN  IF f = None THEN t.second ELSE Split(t.vertical, t.ratio, f, t.second)
            ELSE LET s == RemoveFrom[t.second][InSecond(t, i)]
                 IN  IF s = None THEN t.first ELSE Split(t.vertical, t.ratio, t.first, s)
  <1> DEFINE W == AllNodes \cup {None}
             V == [Nat -> W]
             base == [i \in Nat |-> None]
             At(t, a, b) == [i \in Nat |->
                IF t = Leaf THEN None
                ELSE IF InFirst(t, i) THEN Collapsed(t, a[i], t.second)
                ELSE Collapsed(t, t.first, b[InSecond(t, i)])]
             node == [t \in Nodes |-> [a \in V |-> [b \in V |-> At(t, a, b)]]]
             Body(f) == [t \in Nodes |-> At(t, f[t.first], f[t.second])]
  <1>1. base \in V
    OBVIOUS
  <1>2. ASSUME NEW t \in Nodes, t # Leaf, NEW c \in W
        PROVE  Collapsed(t, c, t.second) \in W /\ Collapsed(t, t.first, c) \in W
    <2>1. t.vertical \in BOOLEAN /\ t.ratio \in MinRatio .. MaxRatio
          /\ t.first \in AllNodes /\ t.second \in AllNodes
      BY <1>2, NodeFacts, NodesAreAllNodes
    <2>2. c # None => /\ Split(t.vertical, t.ratio, c, t.second) \in AllNodes
                      /\ Split(t.vertical, t.ratio, t.first, c) \in AllNodes
      BY <2>1, SplitIn, AllNodesClosed
    <2> QED BY <1>2, <2>1, <2>2, CollapsedAre
  <1>3. ASSUME NEW t \in Nodes, NEW a \in V, NEW b \in V
        PROVE  At(t, a, b) \in V
    <2>1. CASE t = Leaf
      BY <2>1
    <2>2. CASE t # Leaf
      <3>1. ASSUME NEW i \in Nat PROVE At(t, a, b)[i] \in W
        <4>1. CASE InFirst(t, i)
          <5>1. a[i] \in W
            OBVIOUS
          <5> HIDE DEF W
          <5> QED BY <1>2, <2>2, <4>1, <5>1
        <4>2. CASE ~InFirst(t, i)
          <5>1. InSecond(t, i) \in Nat
            BY <2>2, <4>2, ChildIndex
          <5>2. b[InSecond(t, i)] \in W
            BY <5>1
          <5> HIDE DEF W
          <5> QED BY <1>2, <2>2, <4>2, <5>2
        <4> QED BY <4>1, <4>2
      <3> QED BY <3>1
    <2> QED BY <2>1, <2>2
  <1>4. node \in NodeRules(V)
    <2> HIDE DEF At, V
    <2> QED BY <1>3 DEF NodeRules
  <1>5. PICK f : Follows(f, V, base, node)
    <2> HIDE DEF node, base, V
    <2> QED BY <1>1, <1>4, Recursion
  <1>6. f = Body(f)
    <2>1. f \in [Nodes -> V]
      BY <1>5 DEF Follows
    <2>2. ASSUME NEW t \in Nodes PROVE f[t] = At(t, f[t.first], f[t.second])
      <3>1. CASE t = Leaf
        <4>1. f[t] = base
          BY <1>5, <3>1 DEF Follows
        <4> QED BY <3>1, <4>1
      <3>2. CASE t # Leaf
        <4>1. f[t.first] \in V /\ f[t.second] \in V
          BY <2>1, <3>2, NodeFacts
        <4>2. f[t] = node[t][f[t.first]][f[t.second]]
          BY <1>5, <3>2 DEF Follows
        <4> HIDE DEF At, V
        <4> QED BY <4>1, <4>2
      <3> QED BY <3>1, <3>2
    <2> HIDE DEF At, V
    <2> QED BY <2>1, <2>2
  <1>7. RemoveFrom = CHOOSE g : g = Body(g)
    BY DEF RemoveFrom
  <1>8. RemoveFrom = Body(RemoveFrom)
    <2> HIDE DEF Body
    <2> QED BY <1>6, <1>7
  <1>9. ASSUME NEW t \in Nodes, NEW i \in Nat
        PROVE  RemoveFrom[t][i] = At(t, RemoveFrom[t.first], RemoveFrom[t.second])[i]
    <2> HIDE DEF At
    <2> QED BY <1>8, Zenon
  <1>10. ASSUME NEW t \in Nodes, NEW i \in Nat
         PROVE  At(t, RemoveFrom[t.first], RemoveFrom[t.second])[i] =
                    IF t = Leaf THEN None
                    ELSE IF InFirst(t, i)
                    THEN Collapsed(t, RemoveFrom[t.first][i], t.second)
                    ELSE Collapsed(t, t.first, RemoveFrom[t.second][InSecond(t, i)])
    OBVIOUS
  <1> HIDE DEF At
  <1> QED BY <1>9, <1>10, CollapsedAre
(* A removal leaves a node, of no more levels, unless it was the last leaf.*)
LEMMA RemoveLevel ==
    \A t \in Nodes : \A i \in Nat :
        /\ RemoveFrom[t][i] = None <=> t = Leaf
        /\ t # Leaf => \A n \in Nat : t \in Levels[n] => RemoveFrom[t][i] \in Levels[n]
  <1> DEFINE P(t) == \A i \in Nat :
                /\ RemoveFrom[t][i] = None <=> t = Leaf
                /\ t # Leaf => \A n \in Nat : t \in Levels[n] => RemoveFrom[t][i] \in Levels[n]
             T == {t \in Nodes : P(t)}
  <1>1. Leaf \in T
    BY NodeFacts, RemoveAre
  <1>2. ASSUME NEW t \in Nodes, t # Leaf, t.first \in T, t.second \in T PROVE t \in T
    <2> SUFFICES ASSUME NEW i \in Nat
                 PROVE  /\ RemoveFrom[t][i] # None
                        /\ \A n \in Nat : t \in Levels[n] => RemoveFrom[t][i] \in Levels[n]
      BY <1>2
    <2>1. /\ t.vertical \in BOOLEAN /\ t.ratio \in MinRatio .. MaxRatio
          /\ t.first \in Nodes /\ t.second \in Nodes
          /\ t.first # None /\ t.second # None
      BY <1>2, NodeFacts
    <2>2. ASSUME NEW n \in Nat, t \in Levels[n]
          PROVE  /\ n - 1 \in Nat /\ (n - 1) + 1 = n
                 /\ t.first \in Levels[n - 1] /\ t.second \in Levels[n - 1]
                 /\ t.first \in Levels[n] /\ t.second \in Levels[n]
                 /\ \A f \in Levels[n - 1] :
                        /\ Split(t.vertical, t.ratio, f, t.second) \in Levels[n]
                        /\ Split(t.vertical, t.ratio, t.first, f) \in Levels[n]
      <3>1. /\ n - 1 \in Nat /\ (n - 1) + 1 = n
            /\ t.first \in Levels[n - 1] /\ t.second \in Levels[n - 1]
        BY <1>2, <2>2, SplitInLevels
      <3> QED BY <2>1, <3>1, LevelsMonotone, LevelsAre, SplitIn
    <2>3. CASE InFirst(t, i)
      <3> DEFINE f == RemoveFrom[t.first][i]
      <3>1. RemoveFrom[t][i] = IF f = None THEN t.second ELSE Split(t.vertical, t.ratio, f, t.second)
        BY <1>2, <2>3, RemoveAre
      <3>2. f = None <=> t.first = Leaf
        BY <1>2
      <3>3. f # None => \A n \in Nat : t.first \in Levels[n] => f \in Levels[n]
        BY <1>2, <3>2
      <3> HIDE DEF f, T
      <3> QED BY <2>1, <2>2, <3>1, <3>3, SplitFields
    <2>4. CASE ~InFirst(t, i)
      <3> DEFINE j == InSecond(t, i)
                 s == RemoveFrom[t.second][j]
      <3>0. j \in Nat
        BY <1>2, <2>4, ChildIndex
      <3>1. RemoveFrom[t][i] = IF s = None THEN t.first ELSE Split(t.vertical, t.ratio, t.first, s)
        BY <1>2, <2>4, RemoveAre
      <3> HIDE DEF j
      <3>2. s = None <=> t.second = Leaf
        BY <1>2, <3>0
      <3>3. s # None => \A n \in Nat : t.second \in Levels[n] => s \in Levels[n]
        BY <1>2, <3>0, <3>2
      <3> HIDE DEF s, T
      <3> QED BY <2>1, <2>2, <3>1, <3>3, SplitFields
    <2> QED BY <2>3, <2>4
  <1>3. Nodes \subseteq T
    <2> HIDE DEF T
    <2> QED BY <1>1, <1>2, TreeInduction
  <1> QED BY <1>3

LEMMA RemoveNode ==
    ASSUME NEW t \in Nodes, t # Leaf, NEW i \in Nat
    PROVE  RemoveFrom[t][i] \in Nodes
  BY RemoveLevel, Parameters DEF Nodes

(* A removal takes one leaf.                                               *)
LEMMA RemoveLeaves ==
    \A t \in Nodes : t # Leaf => \A i \in Nat : Leaves[RemoveFrom[t][i]] = Leaves[t] - 1
  <1> DEFINE P(t) == t # Leaf => \A i \in Nat : Leaves[RemoveFrom[t][i]] = Leaves[t] - 1
             T == {t \in Nodes : P(t)}
  <1>1. Leaf \in T
    BY NodeFacts
  <1>2. ASSUME NEW t \in Nodes, t # Leaf, t.first \in T, t.second \in T PROVE t \in T
    <2> SUFFICES ASSUME NEW i \in Nat PROVE Leaves[RemoveFrom[t][i]] = Leaves[t] - 1
      OBVIOUS
    <2>1. /\ Leaves[t] = Leaves[t.first] + Leaves[t.second]
          /\ Leaves[t.first] \in Nat /\ Leaves[t.second] \in Nat
          /\ t.first \in Nodes /\ t.second \in Nodes
      BY <1>2, LeavesOfSplit
    <2>2. t.first = Leaf => Leaves[t.first] = 1
      BY LeavesAre, <2>1
    <2>3. t.second = Leaf => Leaves[t.second] = 1
      BY LeavesAre, <2>1
    <2>4. RemoveFrom[t][i] \in Nodes
      BY <1>2, RemoveNode
    <2>5. CASE InFirst(t, i)
      <3> DEFINE f == RemoveFrom[t.first][i]
      <3>1. RemoveFrom[t][i] = IF f = None THEN t.second ELSE Split(t.vertical, t.ratio, f, t.second)
        BY <1>2, <2>5, RemoveAre
      <3>2. f = None <=> t.first = Leaf
        BY <2>1, RemoveLevel
      <3>3. f # None => Leaves[f] = Leaves[t.first] - 1
        BY <1>2, <3>2
      <3> HIDE DEF f, T
      <3>4. f # None => Leaves[RemoveFrom[t][i]] = Leaves[f] + Leaves[t.second]
        BY <2>4, <3>1, SplitNode
      <3> QED BY <2>1, <2>2, <3>1, <3>2, <3>3, <3>4
    <2>6. CASE ~InFirst(t, i)
      <3> DEFINE j == InSecond(t, i)
                 s == RemoveFrom[t.second][j]
      <3>0. j \in Nat
        BY <1>2, <2>6, ChildIndex
      <3>1. RemoveFrom[t][i] = IF s = None THEN t.first ELSE Split(t.vertical, t.ratio, t.first, s)
        BY <1>2, <2>6, RemoveAre
      <3> HIDE DEF j
      <3>2. s = None <=> t.second = Leaf
        BY <2>1, <3>0, RemoveLevel
      <3>3. s # None => Leaves[s] = Leaves[t.second] - 1
        BY <1>2, <3>0, <3>2
      <3> HIDE DEF s, T
      <3>4. s # None => Leaves[RemoveFrom[t][i]] = Leaves[t.first] + Leaves[s]
        BY <2>4, <3>1, SplitNode
      <3> QED BY <2>1, <2>3, <3>1, <3>2, <3>3, <3>4
    <2> QED BY <2>5, <2>6
  <1>3. Nodes \subseteq T
    <2> HIDE DEF T
    <2> QED BY <1>1, <1>2, TreeInduction
  <1> QED BY <1>3

(* Removing what was just inserted.                                        *)
LEMMA RemoveAfterInsert ==
    \A t \in Nodes : \A axis \in BOOLEAN, i \in Nat :
        i <= Leaves[t] /\ InsertInto[t][axis][i] \in Nodes => RemoveFrom[InsertInto[t][axis][i]][i] = t
  <1> DEFINE P(t) == \A axis \in BOOLEAN, i \in Nat :
                i <= Leaves[t] /\ InsertInto[t][axis][i] \in Nodes =>
                    RemoveFrom[InsertInto[t][axis][i]][i] = t
             T == {t \in Nodes : P(t)}
  <1>1. Leaf \in T
    <2> SUFFICES ASSUME NEW axis \in BOOLEAN, NEW i \in Nat, i <= Leaves[Leaf],
                        InsertInto[Leaf][axis][i] \in Nodes
                 PROVE  RemoveFrom[InsertInto[Leaf][axis][i]][i] = Leaf
      BY NodeFacts
    <2> DEFINE u == Split(axis, DefaultRatio, Leaf, Leaf)
    <2>1. InsertInto[Leaf][axis][i] = u /\ u \in Nodes
      BY InsertAre, NodeFacts
    <2>2. u # Leaf /\ u.first = Leaf /\ u.second = Leaf
      BY SplitFields
    <2>3. \A j \in Nat : RemoveFrom[Leaf][j] = None
      BY RemoveAre, NodeFacts
    <2> HIDE DEF u
    <2>4. ~InFirst(u, i) => InSecond(u, i) \in Nat
      BY <2>1, <2>2, ChildIndex
    <2>5. RemoveFrom[u][i] = Leaf
      BY <2>1, <2>2, <2>3, <2>4, RemoveAre
    <2> QED BY <2>1, <2>5
  <1>2. ASSUME NEW t \in Nodes, t # Leaf, t.first \in T, t.second \in T PROVE t \in T
    <2> SUFFICES ASSUME NEW axis \in BOOLEAN, NEW i \in Nat, i <= Leaves[t],
                        InsertInto[t][axis][i] \in Nodes
                 PROVE  RemoveFrom[InsertInto[t][axis][i]][i] = t
      OBVIOUS
    <2> DEFINE u == InsertInto[t][axis][i]
    <2>1. /\ Leaves[t] = Leaves[t.first] + Leaves[t.second]
          /\ Leaves[t.first] \in Nat /\ Leaves[t.second] \in Nat
          /\ t.first \in Nodes /\ t.second \in Nodes /\ (~t.vertical) \in BOOLEAN
          /\ t.first # None /\ t.second # None
          /\ t = Split(t.vertical, t.ratio, t.first, t.second)
      BY <1>2, LeavesOfSplit, NodeFacts
    <2>2. CASE InFirst(t, i)
      <3> DEFINE f == InsertInto[t.first][~t.vertical][i]
      <3>1. u = Split(t.vertical, t.ratio, f, t.second)
        BY <1>2, <2>2, InsertAre
      <3>2. i < Leaves[t.first]
        BY <1>2, <2>2, ChildIndex
      <3> HIDE DEF u, f
      <3>3. f \in Nodes /\ u # Leaf /\ u.first = f /\ u.second = t.second
            /\ u.vertical = t.vertical /\ u.ratio = t.ratio
            /\ (InFirst(u, i) <=> i < Leaves[f])
        BY <3>1, SplitNode DEF u
      <3>4. Leaves[f] = Leaves[t.first] + 1
        BY <2>1, <3>3, InsertLeaves DEF f
      <3>5. RemoveFrom[f][i] = t.first
        <4>1. P(t.first) /\ i <= Leaves[t.first]
          BY <1>2, <2>1, <3>2
        <4> HIDE DEF T
        <4> QED BY <2>1, <3>3, <4>1 DEF f
      <3>6. InFirst(u, i)
        BY <2>1, <3>2, <3>3, <3>4
      <3>7. RemoveFrom[u][i] = Split(t.vertical, t.ratio, t.first, t.second)
        <4> HIDE DEF T
        <4>1. u \in Nodes
          BY DEF u
        <4> QED BY <2>1, <3>3, <3>5, <3>6, <4>1, RemoveAre
      <3> QED BY <2>1, <3>7 DEF u
    <2>3. CASE ~InFirst(t, i)
      <3> DEFINE j == InSecond(t, i)
                 s == InsertInto[t.second][~t.vertical][j]
      <3>1. u = Split(t.vertical, t.ratio, t.first, s)
        BY <1>2, <2>3, InsertAre
      <3>2. j \in Nat /\ i = Leaves[t.first] + j
        BY <1>2, <2>3, ChildIndex
      <3> HIDE DEF u, s, j
      <3>3. s \in Nodes /\ u # Leaf /\ u.first = t.first /\ u.second = s
            /\ u.vertical = t.vertical /\ u.ratio = t.ratio
            /\ (InFirst(u, i) <=> i < Leaves[t.first])
            /\ InSecond(u, i) = i - Leaves[t.first]
        BY <3>1, SplitNode DEF u
      <3>4. j <= Leaves[t.second] /\ ~InFirst(u, i) /\ InSecond(u, i) = j
        BY <2>1, <3>2, <3>3
      <3>5. RemoveFrom[s][j] = t.second
        BY <1>2, <2>1, <3>2, <3>3, <3>4 DEF s
      <3>6. RemoveFrom[u][i] = Split(t.vertical, t.ratio, t.first, t.second)
        <4> HIDE DEF T
        <4>1. u \in Nodes
          BY DEF u
        <4> QED BY <2>1, <3>3, <3>4, <3>5, <4>1, RemoveAre
      <3> QED BY <2>1, <3>6 DEF u
    <2> QED BY <2>2, <2>3
  <1>3. Nodes \subseteq T
    <2> HIDE DEF T
    <2> QED BY <1>1, <1>2, TreeInduction
  <1> QED BY <1>3
-----------------------------------------------------------------------------
(* Resizing.                                                               *)
LEMMA AxesAre ==
    \A t \in Nodes : \A i \in Nat :
        Axes[t][i] = IF t = Leaf THEN {}
                     ELSE {t.vertical} \cup
                          IF InFirst(t, i) THEN Axes[t.first][i] ELSE Axes[t.second][InSecond(t, i)]
  <1> DEFINE V == [Nat -> SUBSET BOOLEAN]
             base == [i \in Nat |-> {}]
             At(t, a, b) == [i \in Nat |->
                IF t = Leaf THEN {}
                ELSE {t.vertical} \cup IF InFirst(t, i) THEN a[i] ELSE b[InSecond(t, i)]]
             node == [t \in Nodes |-> [a \in V |-> [b \in V |-> At(t, a, b)]]]
             Body(f) == [t \in Nodes |-> At(t, f[t.first], f[t.second])]
  <1>1. base \in V
    OBVIOUS
  <1>2. ASSUME NEW t \in Nodes, NEW a \in V, NEW b \in V
        PROVE  At(t, a, b) \in V
    <2>1. CASE t = Leaf
      BY <2>1
    <2>2. CASE t # Leaf
      <3>1. ASSUME NEW i \in Nat PROVE At(t, a, b)[i] \in SUBSET BOOLEAN
        <4>1. t.vertical \in BOOLEAN /\ (~InFirst(t, i) => InSecond(t, i) \in Nat)
          BY <2>2, NodeFacts, ChildIndex
        <4>2. a[i] \in SUBSET BOOLEAN
          OBVIOUS
        <4>3. ~InFirst(t, i) => b[InSecond(t, i)] \in SUBSET BOOLEAN
          BY <4>1
        <4> QED BY <2>2, <4>1, <4>2, <4>3
      <3> QED BY <3>1
    <2> QED BY <2>1, <2>2
  <1>3. node \in NodeRules(V)
    <2> HIDE DEF At, V
    <2> QED BY <1>2 DEF NodeRules
  <1>4. PICK f : Follows(f, V, base, node)
    <2> HIDE DEF node, base, V
    <2> QED BY <1>1, <1>3, Recursion
  <1>5. f = Body(f)
    <2>1. f \in [Nodes -> V]
      BY <1>4 DEF Follows
    <2>2. ASSUME NEW t \in Nodes PROVE f[t] = At(t, f[t.first], f[t.second])
      <3>1. CASE t = Leaf
        <4>1. f[t] = base
          BY <1>4, <3>1 DEF Follows
        <4> QED BY <3>1, <4>1
      <3>2. CASE t # Leaf
        <4>1. f[t.first] \in V /\ f[t.second] \in V
          BY <2>1, <3>2, NodeFacts
        <4>2. f[t] = node[t][f[t.first]][f[t.second]]
          BY <1>4, <3>2 DEF Follows
        <4> HIDE DEF At, V
        <4> QED BY <4>1, <4>2
      <3> QED BY <3>1, <3>2
    <2> HIDE DEF At, V
    <2> QED BY <2>1, <2>2
  <1>6. Axes = CHOOSE g : g = Body(g)
    BY DEF Axes
  <1>7. Axes = Body(Axes)
    <2> HIDE DEF Body
    <2> QED BY <1>5, <1>6
  <1>8. ASSUME NEW t \in Nodes, NEW i \in Nat
        PROVE  Axes[t][i] = At(t, Axes[t.first], Axes[t.second])[i]
    <2> HIDE DEF At
    <2> QED BY <1>7, Zenon
  <1> QED BY <1>8

LEMMA ClampIn ==
    ASSUME NEW r \in Int
    PROVE  Clamp(r) \in MinRatio .. MaxRatio
  BY Parameters DEF Clamp

(* Which split a resize goes to.                                           *)
LEMMA ResizeAre ==
    \A t \in Nodes : \A axis \in BOOLEAN, step \in {-1, 1}, i \in Nat :
        Resize[t][axis][step][i] =
            IF axis \notin Axes[t][i] THEN t
            ELSE IF InFirst(t, i) /\ axis \in Axes[t.first][i]
            THEN Split(t.vertical, t.ratio, Resize[t.first][axis][step][i], t.second)
            ELSE IF ~InFirst(t, i) /\ axis \in Axes[t.second][InSecond(t, i)]
            THEN Split(t.vertical, t.ratio, t.first, Resize[t.second][axis][step][InSecond(t, i)])
            ELSE Split(t.vertical, Clamp(t.ratio + step), t.first, t.second)
  <1> DEFINE V == [BOOLEAN -> [{-1, 1} -> [Nat -> AllNodes]]]
             At(t, a, b) ==
                [axis \in BOOLEAN |-> [step \in {-1, 1} |-> [i \in Nat |->
                    IF axis \notin Axes[t][i] THEN t
                    ELSE IF InFirst(t, i) /\ axis \in Axes[t.first][i]
                    THEN [t EXCEPT !.first = a[axis][step][i]]
                    ELSE IF ~InFirst(t, i) /\ axis \in Axes[t.second][InSecond(t, i)]
                    THEN [t EXCEPT !.second = b[axis][step][InSecond(t, i)]]
                    ELSE [t EXCEPT !.ratio = Clamp(t.ratio + step)]]]]
             base == [axis \in BOOLEAN |-> [step \in {-1, 1} |-> [i \in Nat |-> Leaf]]]
             node == [t \in Nodes |-> [a \in V |-> [b \in V |-> IF t = Leaf THEN base ELSE At(t, a, b)]]]
             Body(f) == [t \in Nodes |-> At(t, f[t.first], f[t.second])]
  <1>1. base \in V
    BY AllNodesClosed
  <1>2. ASSUME NEW t \in Nodes, t # Leaf, NEW a \in V, NEW b \in V,
               NEW axis \in BOOLEAN, NEW step \in {-1, 1}, NEW i \in Nat
        PROVE  At(t, a, b)[axis][step][i] =
                    IF axis \notin Axes[t][i] THEN t
                    ELSE IF InFirst(t, i) /\ axis \in Axes[t.first][i]
                    THEN Split(t.vertical, t.ratio, a[axis][step][i], t.second)
                    ELSE IF ~InFirst(t, i) /\ axis \in Axes[t.second][InSecond(t, i)]
                    THEN Split(t.vertical, t.ratio, t.first, b[axis][step][InSecond(t, i)])
                    ELSE Split(t.vertical, Clamp(t.ratio + step), t.first, t.second)
    BY <1>2, NodeUpdates
  <1>3. ASSUME NEW t \in Nodes, t # Leaf, NEW a \in V, NEW b \in V,
               NEW axis \in BOOLEAN, NEW step \in {-1, 1}, NEW i \in Nat
        PROVE  At(t, a, b)[axis][step][i] \in AllNodes
    <2>1. t.vertical \in BOOLEAN /\ t.ratio \in MinRatio .. MaxRatio
          /\ t.first \in AllNodes /\ t.second \in AllNodes /\ t \in AllNodes
      BY <1>3, NodeFacts, NodesAreAllNodes
    <2>2. Clamp(t.ratio + step) \in MinRatio .. MaxRatio
      <3>1. t.ratio + step \in Int
        BY <2>1, Parameters
      <3> QED BY <3>1, ClampIn
    <2>3. Split(t.vertical, Clamp(t.ratio + step), t.first, t.second) \in AllNodes
      BY <2>1, <2>2, SplitIn, AllNodesClosed
    <2>4. a[axis][step][i] \in AllNodes
      OBVIOUS
    <2>5. Split(t.vertical, t.ratio, a[axis][step][i], t.second) \in AllNodes
      BY <2>1, <2>4, SplitIn, AllNodesClosed
    <2>6. ASSUME ~InFirst(t, i)
          PROVE  Split(t.vertical, t.ratio, t.first, b[axis][step][InSecond(t, i)]) \in AllNodes
      <3>1. InSecond(t, i) \in Nat
        BY <1>3, <2>6, ChildIndex
      <3>2. b[axis][step][InSecond(t, i)] \in AllNodes
        BY <3>1
      <3> QED BY <2>1, <3>2, SplitIn, AllNodesClosed
    <2> HIDE DEF At, V
    <2> QED BY <1>2, <1>3, <2>1, <2>3, <2>5, <2>6
  <1>4. ASSUME NEW t \in Nodes, t # Leaf, NEW a \in V, NEW b \in V
        PROVE  At(t, a, b) \in V
    <2>1. \A axis \in BOOLEAN : \A step \in {-1, 1} : \A i \in Nat :
            At(t, a, b)[axis][step][i] \in AllNodes
      <3> HIDE DEF At, V
      <3> QED BY <1>3, <1>4
    <2> QED BY ZenonT(60), <2>1
  <1>5. node \in NodeRules(V)
    <2> HIDE DEF At, V, base
    <2> QED BY <1>1, <1>4 DEF NodeRules
  <1>6. PICK f : Follows(f, V, base, node)
    <2> HIDE DEF node, base, V
    <2> QED BY <1>1, <1>5, Recursion
  <1>7. ASSUME NEW a, NEW b PROVE At(Leaf, a, b) = base
    <2>1. \A i \in Nat : Axes[Leaf][i] = {}
      BY AxesAre, NodeFacts
    <2> QED BY <2>1
  <1>8. f = Body(f)
    <2>1. f \in [Nodes -> V]
      BY <1>6 DEF Follows
    <2>2. ASSUME NEW t \in Nodes PROVE f[t] = At(t, f[t.first], f[t.second])
      <3>1. CASE t = Leaf
        <4>1. f[t] = base
          BY <1>6, <3>1 DEF Follows
        <4> HIDE DEF At, base
        <4> QED BY <1>7, <3>1, <4>1
      <3>2. CASE t # Leaf
        <4>1. f[t.first] \in V /\ f[t.second] \in V
          BY <2>1, <3>2, NodeFacts
        <4>2. f[t] = node[t][f[t.first]][f[t.second]]
          BY <1>6, <3>2 DEF Follows
        <4> HIDE DEF At, V
        <4> QED BY <3>2, <4>1, <4>2
      <3> QED BY <3>1, <3>2
    <2> HIDE DEF At, V
    <2> QED BY <2>1, <2>2
  <1>9. Resize = CHOOSE g : g = Body(g)
    BY DEF Resize
  <1>10. Resize = Body(Resize)
    <2> HIDE DEF Body
    <2> QED BY <1>8, <1>9
  <1>11. ASSUME NEW t \in Nodes, NEW axis \in BOOLEAN, NEW step \in {-1, 1}, NEW i \in Nat
         PROVE  Resize[t][axis][step][i] = At(t, Resize[t.first], Resize[t.second])[axis][step][i]
    <2> HIDE DEF At
    <2> QED BY <1>10, Zenon
  <1>12. ASSUME NEW t \in Nodes, t # Leaf, NEW axis \in BOOLEAN, NEW step \in {-1, 1}, NEW i \in Nat
         PROVE  At(t, Resize[t.first], Resize[t.second])[axis][step][i] =
                    IF axis \notin Axes[t][i] THEN t
                    ELSE IF InFirst(t, i) /\ axis \in Axes[t.first][i]
                    THEN Split(t.vertical, t.ratio, Resize[t.first][axis][step][i], t.second)
                    ELSE IF ~InFirst(t, i) /\ axis \in Axes[t.second][InSecond(t, i)]
                    THEN Split(t.vertical, t.ratio, t.first, Resize[t.second][axis][step][InSecond(t, i)])
                    ELSE Split(t.vertical, Clamp(t.ratio + step), t.first, t.second)
    BY <1>12, NodeUpdates
  <1>13. ASSUME NEW axis \in BOOLEAN, NEW step \in {-1, 1}, NEW i \in Nat
         PROVE  Resize[Leaf][axis][step][i] = Leaf /\ axis \notin Axes[Leaf][i]
    <2>1. Axes[Leaf][i] = {}
      BY AxesAre, NodeFacts
    <2>2. Resize[Leaf][axis][step][i] = base[axis][step][i]
      <3> HIDE DEF At, base
      <3> QED BY <1>7, <1>11, NodeFacts
    <2> QED BY <2>1, <2>2
  <1> HIDE DEF At
  <1> QED BY <1>11, <1>12, <1>13

(* A resize keeps the shape of the tree: its levels and its leaves.        *)
LEMMA ResizeLevel ==
    \A t \in Nodes : \A axis \in BOOLEAN, step \in {-1, 1}, i \in Nat, n \in Nat :
        t \in Levels[n] => Resize[t][axis][step][i] \in Levels[n]
  <1> DEFINE P(t) == \A axis \in BOOLEAN, step \in {-1, 1}, i \in Nat, n \in Nat :
                        t \in Levels[n] => Resize[t][axis][step][i] \in Levels[n]
             T == {t \in Nodes : P(t)}
  <1>1. Leaf \in T
    <2>1. \A i \in Nat : Axes[Leaf][i] = {}
      BY AxesAre, NodeFacts
    <2> QED BY <2>1, NodeFacts, ResizeAre
  <1>2. ASSUME NEW t \in Nodes, t # Leaf, t.first \in T, t.second \in T PROVE t \in T
    <2> SUFFICES ASSUME NEW axis \in BOOLEAN, NEW step \in {-1, 1}, NEW i \in Nat, NEW n \in Nat,
                        t \in Levels[n]
                 PROVE  Resize[t][axis][step][i] \in Levels[n]
      BY <1>2
    <2>1. /\ t.vertical \in BOOLEAN /\ t.ratio \in MinRatio .. MaxRatio
          /\ t.first \in Nodes /\ t.second \in Nodes
          /\ Clamp(t.ratio + step) \in MinRatio .. MaxRatio
      <3>1. t.ratio + step \in Int
        BY <1>2, NodeFacts, Parameters
      <3> QED BY <1>2, <3>1, NodeFacts, ClampIn
    <2>2. /\ n - 1 \in Nat /\ (n - 1) + 1 = n
          /\ t.first \in Levels[n - 1] /\ t.second \in Levels[n - 1]
      BY <1>2, SplitInLevels
    <2>3. \A ratio \in MinRatio .. MaxRatio, f \in Levels[n - 1], s \in Levels[n - 1] :
            Split(t.vertical, ratio, f, s) \in Levels[n]
      BY <2>1, <2>2, LevelsAre, SplitIn
    <2>4. Resize[t.first][axis][step][i] \in Levels[n - 1]
      BY <1>2, <2>2
    <2>5. ~InFirst(t, i) => Resize[t.second][axis][step][InSecond(t, i)] \in Levels[n - 1]
      <3>1. ~InFirst(t, i) => InSecond(t, i) \in Nat
        BY <1>2, ChildIndex
      <3> QED BY <1>2, <2>2, <3>1
    <2> HIDE DEF T
    <2> QED BY SMTT(30), <2>1, <2>2, <2>3, <2>4, <2>5, ResizeAre
  <1>3. Nodes \subseteq T
    <2> HIDE DEF T
    <2> QED BY <1>1, <1>2, TreeInduction
  <1> QED BY <1>3

(* A resize that reaches the divider of the split itself.                  *)
LEMMA ResizeOwn ==
    ASSUME NEW t \in Nodes, NEW axis \in BOOLEAN, NEW step \in {-1, 1}, NEW i \in Nat,
           axis \in Axes[t][i],
           ~(InFirst(t, i) /\ axis \in Axes[t.first][i]),
           ~(~InFirst(t, i) /\ axis \in Axes[t.second][InSecond(t, i)])
    PROVE  Resize[t][axis][step][i] = Split(t.vertical, Clamp(t.ratio + step), t.first, t.second)
  BY ResizeAre

LEMMA ResizeNode ==
    ASSUME NEW t \in Nodes, NEW axis \in BOOLEAN, NEW step \in {-1, 1}, NEW i \in Nat
    PROVE  Resize[t][axis][step][i] \in Nodes
  BY ResizeLevel, Parameters DEF Nodes

LEMMA ResizeLeaves ==
    \A t \in Nodes : \A axis \in BOOLEAN, step \in {-1, 1}, i \in Nat :
        Leaves[Resize[t][axis][step][i]] = Leaves[t]
  <1> DEFINE P(t) == \A axis \in BOOLEAN, step \in {-1, 1}, i \in Nat :
                        Leaves[Resize[t][axis][step][i]] = Leaves[t]
             T == {t \in Nodes : P(t)}
  <1>1. Leaf \in T
    <2>1. \A i \in Nat : Axes[Leaf][i] = {}
      BY AxesAre, NodeFacts
    <2> QED BY <2>1, NodeFacts, ResizeAre
  <1>2. ASSUME NEW t \in Nodes, t # Leaf, t.first \in T, t.second \in T PROVE t \in T
    <2> SUFFICES ASSUME NEW axis \in BOOLEAN, NEW step \in {-1, 1}, NEW i \in Nat
                 PROVE  Leaves[Resize[t][axis][step][i]] = Leaves[t]
      BY <1>2
    <2>1. Leaves[t] = Leaves[t.first] + Leaves[t.second]
      BY <1>2, LeavesOfSplit
    <2>2. Resize[t][axis][step][i] \in Nodes
      BY ResizeNode
    <2>3. Leaves[Resize[t.first][axis][step][i]] = Leaves[t.first]
      BY <1>2
    <2>4. ~InFirst(t, i) => Leaves[Resize[t.second][axis][step][InSecond(t, i)]] = Leaves[t.second]
      <3>1. ~InFirst(t, i) => InSecond(t, i) \in Nat
        BY <1>2, ChildIndex
      <3> QED BY <1>2, <3>1
    <2>5. ASSUME NEW ratio, NEW f, NEW s, Resize[t][axis][step][i] = Split(t.vertical, ratio, f, s)
          PROVE  Leaves[Resize[t][axis][step][i]] = Leaves[f] + Leaves[s]
      BY <2>2, <2>5, SplitNode
    <2> HIDE DEF T
    <2>6. CASE axis \notin Axes[t][i]
      BY <2>6, ResizeAre
    <2>7. CASE axis \in Axes[t][i] /\ InFirst(t, i) /\ axis \in Axes[t.first][i]
      <3>1. Resize[t][axis][step][i] =
                Split(t.vertical, t.ratio, Resize[t.first][axis][step][i], t.second)
        BY <2>7, ResizeAre
      <3>2. Leaves[Resize[t][axis][step][i]] =
                Leaves[Resize[t.first][axis][step][i]] + Leaves[t.second]
        BY <2>5, <3>1
      <3> QED BY <2>1, <2>3, <3>2
    <2>8. CASE axis \in Axes[t][i] /\ ~InFirst(t, i) /\ axis \in Axes[t.second][InSecond(t, i)]
      <3>1. Resize[t][axis][step][i] =
                Split(t.vertical, t.ratio, t.first, Resize[t.second][axis][step][InSecond(t, i)])
        BY <2>8, ResizeAre
      <3>2. Leaves[Resize[t][axis][step][i]] =
                Leaves[t.first] + Leaves[Resize[t.second][axis][step][InSecond(t, i)]]
        BY <2>5, <3>1
      <3> QED BY <2>1, <2>4, <2>8, <3>2
    <2>9. CASE /\ axis \in Axes[t][i]
               /\ ~(InFirst(t, i) /\ axis \in Axes[t.first][i])
               /\ ~(~InFirst(t, i) /\ axis \in Axes[t.second][InSecond(t, i)])
      <3>1. Resize[t][axis][step][i] = Split(t.vertical, Clamp(t.ratio + step), t.first, t.second)
        BY <2>9, ResizeOwn
      <3> QED BY <2>1, <2>5, <3>1
    <2> QED BY <2>6, <2>7, <2>8, <2>9
  <1>3. Nodes \subseteq T
    <2> HIDE DEF T
    <2> QED BY <1>1, <1>2, TreeInduction
  <1> QED BY <1>3
-----------------------------------------------------------------------------
(* The tree of a workspace.                                                *)
SplitTrees == {None} \cup {t \in Nodes : Leaves[t] <= MaxLeaves}

LEMMA TreeCount ==
    ASSUME NEW t \in SplitTrees
    PROVE  /\ tree_leaf_count(t) \in 0 .. MaxLeaves
           /\ tree_leaf_count(t) = 0 <=> t = None
           /\ t # None => t \in Nodes /\ tree_leaf_count(t) = Leaves[t]
  BY NodeFacts, LeavesType, Parameters DEF SplitTrees, tree_leaf_count

(* What room for one more leaf gives an insertion, up to and including the *)
(* fullest tree.                                                           *)
LEMMA InsertIsNode ==
    ASSUME NEW t \in Nodes, Leaves[t] <= MaxLeaves, NEW i \in Nat
    PROVE  InsertInto[t][TRUE][i] \in Nodes
  <1>1. MaxLeaves - 1 \in Nat /\ (MaxLeaves - 1) + 1 = MaxLeaves /\ MaxLeaves \in Nat
    BY Parameters
  <1>2. t \in Levels[MaxLeaves - 1]
    BY <1>1, FewLeavesAreNodes
  <1>3. InsertInto[t][TRUE][i] \in Splits(Levels[MaxLeaves - 1])
    BY <1>1, <1>2, InsertLevel
  <1> QED BY <1>1, <1>3, LevelsAre DEF Nodes

LEMMA InsertedTree ==
    ASSUME NEW t \in SplitTrees, NEW i \in 0 .. tree_leaf_count(t)
    PROVE  /\ tree_insert_at(t, i) \in Nodes
           /\ tree_leaf_count(tree_insert_at(t, i)) = tree_leaf_count(t) + 1
           /\ tree_leaf_count(t) < MaxLeaves => tree_insert_at(t, i) \in SplitTrees
           /\ tree_remove(tree_insert_at(t, i), i) = t
  <1>1. i \in Nat /\ i <= tree_leaf_count(t) /\ tree_leaf_count(t) \in Nat
    BY TreeCount
  <1>2. CASE t = None
    <2>1. tree_insert_at(t, i) = Leaf /\ i = 0 /\ tree_leaf_count(t) = 0
      BY <1>1, <1>2 DEF tree_insert_at, tree_leaf_count
    <2>2. Leaf \in Nodes /\ Leaf # None /\ Leaves[Leaf] = 1 /\ RemoveFrom[Leaf][0] = None
      BY NodeFacts, LeavesAre, RemoveAre
    <2> QED BY <1>2, <2>1, <2>2, Parameters DEF tree_leaf_count, tree_remove, SplitTrees
  <1>3. CASE t # None
    <2> DEFINE u == InsertInto[t][TRUE][i]
    <2>1. t \in Nodes /\ tree_leaf_count(t) = Leaves[t] /\ Leaves[t] \in Nat /\ Leaves[t] <= MaxLeaves
      BY <1>3, TreeCount, LeavesType
    <2>2. u \in Nodes
      BY <1>1, <2>1, InsertIsNode
    <2>3. Leaves[u] = Leaves[t] + 1
      BY <1>1, <2>1, <2>2, InsertLeaves
    <2>4. RemoveFrom[u][i] = t
      BY <1>1, <2>1, <2>2, RemoveAfterInsert
    <2>5. tree_insert_at(t, i) = u /\ u # None
      BY <1>3, <2>2, NodeFacts DEF tree_insert_at
    <2> HIDE DEF u
    <2>6. Leaves[t] < MaxLeaves => u \in SplitTrees
      BY <2>1, <2>2, <2>3, Parameters DEF SplitTrees
    <2> QED BY <2>1, <2>2, <2>3, <2>4, <2>5, <2>6 DEF tree_leaf_count, tree_remove
  <1> QED BY <1>2, <1>3

LEMMA RemovedTree ==
    ASSUME NEW t \in SplitTrees, NEW i \in 0 .. tree_leaf_count(t) - 1
    PROVE  /\ tree_remove(t, i) \in SplitTrees
           /\ tree_leaf_count(tree_remove(t, i)) = tree_leaf_count(t) - 1
  <1>1. t # None /\ t \in Nodes /\ tree_leaf_count(t) = Leaves[t] /\ Leaves[t] <= MaxLeaves
        /\ Leaves[t] \in Nat
    BY TreeCount, LeavesType
  <1>2. i \in Nat
    BY <1>1
  <1>3. tree_remove(t, i) = RemoveFrom[t][i]
    BY <1>1 DEF tree_remove
  <1>4. CASE t = Leaf
    <2>1. RemoveFrom[t][i] = None /\ Leaves[t] = 1
      BY <1>1, <1>2, <1>4, RemoveAre, LeavesAre
    <2> QED BY <1>1, <1>3, <2>1 DEF SplitTrees, tree_leaf_count
  <1>5. CASE t # Leaf
    <2>1. RemoveFrom[t][i] \in Nodes /\ Leaves[RemoveFrom[t][i]] = Leaves[t] - 1
      BY <1>1, <1>2, <1>5, RemoveNode, RemoveLeaves
    <2>2. RemoveFrom[t][i] # None
      BY <2>1, NodeFacts
    <2> QED BY <1>1, <1>3, <2>1, <2>2, Parameters DEF SplitTrees, tree_leaf_count
  <1> QED BY <1>4, <1>5

LEMMA ResizedTree ==
    ASSUME NEW t \in SplitTrees, NEW i \in 0 .. tree_leaf_count(t) - 1, NEW dir \in Directions
    PROVE  /\ tree_resize(t, i, dir) \in SplitTrees
           /\ tree_leaf_count(tree_resize(t, i, dir)) = tree_leaf_count(t)
  <1>1. t # None /\ t \in Nodes /\ tree_leaf_count(t) = Leaves[t] /\ Leaves[t] <= MaxLeaves
        /\ Leaves[t] \in Nat
    BY TreeCount, LeavesType
  <1>2. i \in Nat /\ IsVertical(dir) \in BOOLEAN /\ Step(dir) \in {-1, 1}
    BY <1>1 DEF IsVertical, Step
  <1>3. /\ tree_resize(t, i, dir) \in Nodes
        /\ Leaves[tree_resize(t, i, dir)] = Leaves[t]
    BY <1>1, <1>2, ResizeNode, ResizeLeaves DEF tree_resize
  <1> QED BY <1>1, <1>3, NodeFacts DEF SplitTrees, tree_leaf_count

(* The windows' module assumes of the tree what holds of the real one, for *)
(* any number of windows: its theorems are about 0xide's split tree.       *)
Real == INSTANCE TreeInterface WITH
    Toplevels <- 1 .. MaxLeaves, Trees <- SplitTrees, NoTree <- None,
    LeafCount <- tree_leaf_count, TreeInsertAt <- tree_insert_at,
    TreeRemove <- tree_remove, TreeResize <- tree_resize

THEOREM RealTreesObeyTheLaws == Real!TreeLaws
  <1>1. Real!Cardinality(1 .. MaxLeaves) = MaxLeaves
    <2>1. Cardinality(1 .. MaxLeaves) = MaxLeaves
      BY FS_Interval, Parameters
    <2>2. Real!Cardinality(1 .. MaxLeaves) = Cardinality(1 .. MaxLeaves)
      BY DEF Real!Cardinality, Cardinality
    <2> QED BY <2>1, <2>2
  <1>2. None \in SplitTrees
    BY DEF SplitTrees
  <1>3. \A t \in SplitTrees :
            /\ tree_leaf_count(t) \in Nat
            /\ tree_leaf_count(t) = 0 <=> t = None
    BY TreeCount
  <1>4. \A t \in SplitTrees :
            tree_leaf_count(t) < MaxLeaves => \A i \in 0 .. tree_leaf_count(t) :
                /\ tree_insert_at(t, i) \in SplitTrees
                /\ tree_leaf_count(tree_insert_at(t, i)) = tree_leaf_count(t) + 1
    BY InsertedTree
  <1>5. \A t \in SplitTrees : \A i \in 0 .. tree_leaf_count(t) - 1 :
            /\ tree_remove(t, i) \in SplitTrees
            /\ tree_leaf_count(tree_remove(t, i)) = tree_leaf_count(t) - 1
    BY RemovedTree
  <1>6. \A t \in SplitTrees : \A i \in 0 .. tree_leaf_count(t) - 1 : \A dir \in Directions :
            /\ tree_resize(t, i, dir) \in SplitTrees
            /\ tree_leaf_count(tree_resize(t, i, dir)) = tree_leaf_count(t)
    BY ResizedTree
  <1>7. Real!Directions = Directions
    BY DEF Real!Directions, Directions
  <1> QED BY <1>1, <1>2, <1>3, <1>4, <1>5, <1>6, <1>7 DEF Real!TreeLaws

(* A workspace's tree is always one of them.                               *)
TreeOK == tree \in SplitTrees

THEOREM TreeInvariance == Spec => []TreeOK
  <1>1. Init => TreeOK
    BY DEF Init, TreeOK, SplitTrees
  <1>2. TreeOK /\ [Next]_tree => TreeOK'
    <2> SUFFICES ASSUME TreeOK, [Next]_tree PROVE TreeOK'
      OBVIOUS
    <2>1. ASSUME NEW i \in 0 .. tree_leaf_count(tree), InsertLeaf(i) PROVE TreeOK'
      BY <2>1, InsertedTree DEF TreeOK, InsertLeaf
    <2>2. ASSUME NEW i \in Positions, RemoveLeaf(i) PROVE TreeOK'
      BY <2>2, RemovedTree DEF TreeOK, RemoveLeaf, Positions
    <2>3. ASSUME NEW i \in Positions, NEW dir \in Directions, ResizeLeaf(i, dir) PROVE TreeOK'
      BY <2>3, ResizedTree DEF TreeOK, ResizeLeaf, Positions
    <2>4. CASE UNCHANGED tree
      BY <2>4 DEF TreeOK
    <2> QED BY <2>1, <2>2, <2>3, <2>4 DEF Next
  <1> QED BY <1>1, <1>2, PTL DEF Spec

(* Every operation changes the number of leaves by exactly what its caller *)
(* counts on (src/layout.rs; refresh zips rects and windows).              *)
THEOREM EveryLeafIsCounted == Spec => []LeavesCounted
  <1>1. TreeOK => LeavesCounted
    <2> SUFFICES ASSUME TreeOK PROVE LeavesCounted
      OBVIOUS
    <2> USE DEF TreeOK
    <2>1. tree_leaf_count(tree) = 0 <=> tree = None
      BY TreeCount
    <2>2. \A i \in 0 .. tree_leaf_count(tree) :
            tree_leaf_count(tree_insert_at(tree, i)) = tree_leaf_count(tree) + 1
      BY InsertedTree
    <2>3. \A i \in 0 .. tree_leaf_count(tree) - 1 :
            tree_leaf_count(tree_remove(tree, i)) = tree_leaf_count(tree) - 1
      BY RemovedTree
    <2>4. \A i \in 0 .. tree_leaf_count(tree) - 1 : \A dir \in Directions :
            tree_leaf_count(tree_resize(tree, i, dir)) = tree_leaf_count(tree)
      BY ResizedTree
    <2> QED BY <2>1, <2>2, <2>3, <2>4 DEF LeavesCounted, Positions
  <1> QED BY <1>1, TreeInvariance, PTL

(* A leaf that is taken out right after it was put in leaves the tree as   *)
(* it was (src/handlers/toplevel.rs, handle_map into fullscreen).          *)
THEOREM RemovingUndoesInserting == Spec => []RemoveUndoesInsert
  <1>1. TreeOK => RemoveUndoesInsert
    BY InsertedTree DEF TreeOK, RemoveUndoesInsert
  <1> QED BY <1>1, TreeInvariance, PTL
-----------------------------------------------------------------------------
(* The dividers.                                                           *)
Divider(t) == [vertical |-> t.vertical, ratio |-> t.ratio]
AllDividers == [vertical : BOOLEAN, ratio : MinRatio .. MaxRatio]

LEMMA DividerType ==
    ASSUME NEW t \in Nodes, t # Leaf
    PROVE  Divider(t) \in AllDividers
  BY NodeFacts DEF Divider, AllDividers

LEMMA DividersAre ==
    \A t \in Nodes :
        DividersOf[t] =
            IF t = Leaf THEN <<>> ELSE Join(DividersOf[t.first], Divider(t), DividersOf[t.second])
  <1> DEFINE V == Seq(AllDividers)
             base == <<>>
             At(t, a, b) == IF t = Leaf THEN <<>> ELSE Join(a, Divider(t), b)
             node == [t \in Nodes |-> [a \in V |-> [b \in V |-> At(t, a, b)]]]
             Body(f) == [t \in Nodes |-> At(t, f[t.first], f[t.second])]
  <1>1. base \in V
    OBVIOUS
  <1>2. ASSUME NEW t \in Nodes, NEW a \in V, NEW b \in V PROVE At(t, a, b) \in V
    <2>1. CASE t = Leaf
      BY <2>1
    <2>2. CASE t # Leaf
      <3>1. IsJoin(Join(a, Divider(t), b), AllDividers, a, Divider(t), b)
        BY <2>2, DividerType, JoinFacts
      <3> QED BY <2>2, <3>1 DEF IsJoin
    <2> QED BY <2>1, <2>2
  <1>3. node \in NodeRules(V)
    <2> HIDE DEF At, V
    <2> QED BY <1>2 DEF NodeRules
  <1>4. PICK f : Follows(f, V, base, node)
    <2> HIDE DEF node, base, V
    <2> QED BY <1>1, <1>3, Recursion
  <1>5. f = Body(f)
    <2>1. f \in [Nodes -> V]
      BY <1>4 DEF Follows
    <2>2. ASSUME NEW t \in Nodes PROVE f[t] = At(t, f[t.first], f[t.second])
      <3>1. CASE t = Leaf
        <4>1. f[t] = base
          BY <1>4, <3>1 DEF Follows
        <4> QED BY <3>1, <4>1
      <3>2. CASE t # Leaf
        <4>1. f[t.first] \in V /\ f[t.second] \in V
          BY <2>1, <3>2, NodeFacts
        <4>2. f[t] = node[t][f[t.first]][f[t.second]]
          BY <1>4, <3>2 DEF Follows
        <4> HIDE DEF At, V
        <4> QED BY <4>1, <4>2
      <3> QED BY <3>1, <3>2
    <2> HIDE DEF At, V
    <2> QED BY <2>1, <2>2
  <1>6. DividersOf = CHOOSE g : g = Body(g)
    BY DEF DividersOf, Join, Divider
  <1>7. DividersOf = Body(DividersOf)
    <2> HIDE DEF Body
    <2> QED BY <1>5, <1>6
  <1>8. ASSUME NEW t \in Nodes PROVE DividersOf[t] = At(t, DividersOf[t.first], DividersOf[t.second])
    <2> HIDE DEF At
    <2> QED BY <1>7, Zenon
  <1> QED BY <1>8

(* One between each two neighbours.                                        *)
LEMMA DividersType ==
    \A t \in Nodes : DividersOf[t] \in Seq(AllDividers) /\ Len(DividersOf[t]) = Leaves[t] - 1
  <1> DEFINE T == {t \in Nodes : DividersOf[t] \in Seq(AllDividers)
                                 /\ Len(DividersOf[t]) = Leaves[t] - 1}
  <1>1. Leaf \in T
    <2>1. DividersOf[Leaf] = <<>> /\ Leaves[Leaf] = 1
      BY NodeFacts, DividersAre, LeavesAre
    <2>2. <<>> \in Seq(AllDividers) /\ Len(<<>>) = 1 - 1
      OBVIOUS
    <2>3. DividersOf[Leaf] \in Seq(AllDividers) /\ Len(DividersOf[Leaf]) = Leaves[Leaf] - 1
      BY <2>1, <2>2
    <2> QED BY <2>3, NodeFacts
  <1>2. ASSUME NEW t \in Nodes, t # Leaf, t.first \in T, t.second \in T PROVE t \in T
    <2> DEFINE x == DividersOf[t.first]
               y == DividersOf[t.second]
               j == Join(x, Divider(t), y)
    <2>1. x \in Seq(AllDividers) /\ y \in Seq(AllDividers) /\ Divider(t) \in AllDividers
          /\ Len(x) = Leaves[t.first] - 1 /\ Len(y) = Leaves[t.second] - 1
      BY <1>2, DividerType
    <2>2. DividersOf[t] = j
      BY <1>2, DividersAre
    <2> HIDE DEF x, y
    <2>3. IsJoin(j, AllDividers, x, Divider(t), y)
      BY <2>1, JoinFacts
    <2> HIDE DEF j
    <2>4. j \in Seq(AllDividers) /\ Len(j) = Len(x) + 1 + Len(y)
      BY <2>3 DEF IsJoin
    <2>5. Len(DividersOf[t]) = Leaves[t] - 1
      <3>1. /\ Leaves[t] = Leaves[t.first] + Leaves[t.second]
            /\ Leaves[t.first] \in Nat /\ Leaves[t.second] \in Nat
        BY <1>2, LeavesOfSplit
      <3>2. Len(j) = (Leaves[t.first] - 1) + 1 + (Leaves[t.second] - 1)
        BY <2>1, <2>4
      <3> QED BY <2>2, <3>1, <3>2
    <2>6. DividersOf[t] \in Seq(AllDividers) /\ Len(DividersOf[t]) = Leaves[t] - 1
      BY <2>2, <2>4, <2>5
    <2> QED BY <2>6
  <1>3. Nodes \subseteq T
    <2> HIDE DEF T
    <2> QED BY <1>1, <1>2, TreeInduction
  <1> QED BY <1>3

LEMMA DividersOfSplit ==
    ASSUME NEW t \in Nodes, t # Leaf
    PROVE  /\ DividersOf[t] = Join(DividersOf[t.first], Divider(t), DividersOf[t.second])
           /\ DividersOf[t.first] \in Seq(AllDividers)
           /\ DividersOf[t.second] \in Seq(AllDividers)
           /\ Divider(t) \in AllDividers
           /\ Len(DividersOf[t.first]) + 1 = Leaves[t.first]
  BY NodeFacts, DividersAre, DividersType, DividerType, LeavesOfSplit

(* whole is rest and one divider more, of D, on a side of window i.        *)
OneMore(whole, rest, i, D) ==
    \E k \in {i, i + 1} : k \in 1 .. Len(whole) /\ RemoveAt(whole, k) = rest /\ whole[k] \in D

LEMMA OneMoreInFirst ==
    ASSUME NEW whole \in Seq(AllDividers), NEW rest, NEW i \in Nat, NEW D,
           OneMore(whole, rest, i, D), NEW d \in AllDividers, NEW y \in Seq(AllDividers)
    PROVE  OneMore(Join(whole, d, y), Join(rest, d, y), i, D)
  <1>1. PICK k \in {i, i + 1} : k \in 1 .. Len(whole) /\ RemoveAt(whole, k) = rest /\ whole[k] \in D
    BY DEF OneMore
  <1>2. k \in 1 .. Len(Join(whole, d, y)) /\ RemoveAt(Join(whole, d, y), k) = Join(rest, d, y)
    BY <1>1, RemoveFromFirst
  <1>3. IsJoin(Join(whole, d, y), AllDividers, whole, d, y)
    BY JoinFacts
  <1>4. Join(whole, d, y)[k] = whole[k]
    BY <1>1, <1>3 DEF IsJoin
  <1> QED BY <1>1, <1>2, <1>4 DEF OneMore

LEMMA OneMoreInSecond ==
    ASSUME NEW whole \in Seq(AllDividers), NEW rest, NEW i \in Nat, NEW D,
           OneMore(whole, rest, i, D), NEW d \in AllDividers, NEW x \in Seq(AllDividers)
    PROVE  OneMore(Join(x, d, whole), Join(x, d, rest), Len(x) + 1 + i, D)
  <1>1. PICK k \in {i, i + 1} : k \in 1 .. Len(whole) /\ RemoveAt(whole, k) = rest /\ whole[k] \in D
    BY DEF OneMore
  <1> DEFINE n == Len(x) + 1 + k
  <1>2. n \in 1 .. Len(Join(x, d, whole)) /\ RemoveAt(Join(x, d, whole), n) = Join(x, d, rest)
    BY <1>1, RemoveFromSecond
  <1>3. IsJoin(Join(x, d, whole), AllDividers, x, d, whole)
    BY JoinFacts
  <1>4. Join(x, d, whole)[n] = whole[k]
    BY <1>1, <1>3 DEF IsJoin
  <1>5. Len(x) \in Nat
    OBVIOUS
  <1>6. n \in {Len(x) + 1 + i, (Len(x) + 1 + i) + 1}
    BY <1>1, <1>5
  <1> HIDE DEF n
  <1> QED BY <1>1, <1>2, <1>4, <1>6 DEF OneMore

(* The dividers of a new split.                                            *)
LEMMA DividersOfNode ==
    ASSUME NEW t \in Nodes, NEW vertical, NEW ratio, NEW first, NEW second,
           t = Split(vertical, ratio, first, second)
    PROVE  DividersOf[t] = Join(DividersOf[first], [vertical |-> vertical, ratio |-> ratio],
                                DividersOf[second])
  <1>1. t # Leaf /\ t.first = first /\ t.second = second /\ t.vertical = vertical /\ t.ratio = ratio
    BY SplitFields
  <1> QED BY <1>1, DividersOfSplit DEF Divider

NewDividers == [vertical : BOOLEAN, ratio : {DefaultRatio}]

LEMMA InsertDividers ==
    \A t \in Nodes : \A axis \in BOOLEAN, i \in Nat :
        i <= Leaves[t] /\ InsertInto[t][axis][i] \in Nodes =>
            OneMore(DividersOf[InsertInto[t][axis][i]], DividersOf[t], i, NewDividers)
  <1> DEFINE P(t) == \A axis \in BOOLEAN, i \in Nat :
                i <= Leaves[t] /\ InsertInto[t][axis][i] \in Nodes =>
                    OneMore(DividersOf[InsertInto[t][axis][i]], DividersOf[t], i, NewDividers)
             T == {t \in Nodes : P(t)}
  <1>1. Leaf \in T
    <2> SUFFICES ASSUME NEW axis \in BOOLEAN, NEW i \in Nat, i <= Leaves[Leaf],
                        InsertInto[Leaf][axis][i] \in Nodes
                 PROVE  OneMore(DividersOf[InsertInto[Leaf][axis][i]], DividersOf[Leaf], i, NewDividers)
      BY NodeFacts
    <2> DEFINE d == [vertical |-> axis, ratio |-> DefaultRatio]
               j == Join(<<>>, d, <<>>)
    <2>1. InsertInto[Leaf][axis][i] = Split(axis, DefaultRatio, Leaf, Leaf)
      BY InsertAre, NodeFacts
    <2>2. DividersOf[Leaf] = <<>>
      BY DividersAre, NodeFacts
    <2>3. DividersOf[InsertInto[Leaf][axis][i]] = j
      BY <2>1, <2>2, DividersOfNode
    <2>4. d \in AllDividers /\ d \in NewDividers
      BY Parameters DEF AllDividers, NewDividers
    <2>5. <<>> \in Seq(AllDividers) /\ Len(<<>>) = 0
      OBVIOUS
    <2> HIDE DEF d
    <2>6. IsJoin(j, AllDividers, <<>>, d, <<>>)
      BY <2>4, <2>5, JoinFacts
    <2>7. RemoveAt(j, 1) = <<>>
      BY <2>4, <2>5, RemoveBetween
    <2> HIDE DEF j
    <2>8. j[1] = d /\ 1 \in 1 .. Len(j)
      BY <2>5, <2>6 DEF IsJoin
    <2>9. 1 \in {i, i + 1}
      BY SMTT(30), NodeFacts, LeavesAre
    <2> QED BY <2>2, <2>3, <2>4, <2>7, <2>8, <2>9 DEF OneMore
  <1>2. ASSUME NEW t \in Nodes, t # Leaf, t.first \in T, t.second \in T PROVE t \in T
    <2> SUFFICES ASSUME NEW axis \in BOOLEAN, NEW i \in Nat, i <= Leaves[t],
                        InsertInto[t][axis][i] \in Nodes
                 PROVE  OneMore(DividersOf[InsertInto[t][axis][i]], DividersOf[t], i, NewDividers)
      BY <1>2
    <2> DEFINE x == DividersOf[t.first]
               y == DividersOf[t.second]
    <2>1. /\ DividersOf[t] = Join(x, Divider(t), y)
          /\ x \in Seq(AllDividers) /\ y \in Seq(AllDividers) /\ Divider(t) \in AllDividers
          /\ Len(x) + 1 = Leaves[t.first]
      BY <1>2, DividersOfSplit
    <2>2. P(t.first) /\ P(t.second) /\ (~t.vertical) \in BOOLEAN
      BY <1>2, NodeFacts
    <2>3. CASE InFirst(t, i)
      <3> DEFINE u == InsertInto[t.first][~t.vertical][i]
                 n == Split(t.vertical, t.ratio, u, t.second)
      <3>1. InsertInto[t][axis][i] = n
        BY <1>2, <2>3, InsertAre
      <3>2. n \in Nodes
        BY <3>1
      <3>3. u \in Nodes
        BY <3>2, SplitNode
      <3>4. OneMore(DividersOf[u], x, i, NewDividers)
        <4>1. i <= Leaves[t.first]
          BY <1>2, <2>3, ChildIndex, LeavesOfSplit
        <4> QED BY <2>2, <3>3, <4>1
      <3>5. DividersOf[n] = Join(DividersOf[u], Divider(t), y)
        BY <3>2, DividersOfNode DEF Divider
      <3>6. DividersOf[u] \in Seq(AllDividers)
        BY <3>3, DividersType
      <3> HIDE DEF T, P, x, y, u, n
      <3>7. OneMore(Join(DividersOf[u], Divider(t), y), Join(x, Divider(t), y), i, NewDividers)
        BY <2>1, <3>4, <3>6, OneMoreInFirst
      <3> QED BY <2>1, <3>1, <3>5, <3>7
    <2>4. CASE ~InFirst(t, i)
      <3> DEFINE m == InSecond(t, i)
                 u == InsertInto[t.second][~t.vertical][m]
                 n == Split(t.vertical, t.ratio, t.first, u)
      <3>1. InsertInto[t][axis][i] = n
        BY <1>2, <2>4, InsertAre
      <3>2. n \in Nodes
        BY <3>1
      <3>3. u \in Nodes
        BY <3>2, SplitNode
      <3>4. m \in Nat /\ m <= Leaves[t.second] /\ Len(x) + 1 + m = i
        BY <1>2, <2>1, <2>4, ChildIndex, LeavesOfSplit
      <3>5. OneMore(DividersOf[u], y, m, NewDividers)
        <4> HIDE DEF m
        <4> QED BY <2>2, <3>3, <3>4
      <3>6. DividersOf[n] = Join(x, Divider(t), DividersOf[u])
        BY <3>2, DividersOfNode DEF Divider
      <3>7. DividersOf[u] \in Seq(AllDividers)
        BY <3>3, DividersType
      <3> HIDE DEF T, P, x, y, u, n, m
      <3>8. OneMore(Join(x, Divider(t), DividersOf[u]), Join(x, Divider(t), y), Len(x) + 1 + m, NewDividers)
        BY <2>1, <3>4, <3>5, <3>7, OneMoreInSecond
      <3> QED BY <2>1, <3>1, <3>4, <3>6, <3>8
    <2> QED BY <2>3, <2>4
  <1>3. Nodes \subseteq T
    <2> HIDE DEF T
    <2> QED BY <1>1, <1>2, TreeInduction
  <1> QED BY <1>3
LEMMA RemoveDividers ==
    \A t \in Nodes : t # Leaf => \A i \in Nat :
        i < Leaves[t] => OneMore(DividersOf[t], DividersOf[RemoveFrom[t][i]], i, AllDividers)
  <1> DEFINE P(t) == t # Leaf => \A i \in Nat :
                i < Leaves[t] => OneMore(DividersOf[t], DividersOf[RemoveFrom[t][i]], i, AllDividers)
             T == {t \in Nodes : P(t)}
  <1>1. Leaf \in T
    BY NodeFacts
  <1>2. ASSUME NEW t \in Nodes, t # Leaf, t.first \in T, t.second \in T PROVE t \in T
    <2> SUFFICES ASSUME NEW i \in Nat, i < Leaves[t]
                 PROVE  OneMore(DividersOf[t], DividersOf[RemoveFrom[t][i]], i, AllDividers)
      BY <1>2
    <2> DEFINE x == DividersOf[t.first]
               y == DividersOf[t.second]
               d == Divider(t)
               j == Join(x, d, y)
    <2>1. /\ DividersOf[t] = j
          /\ x \in Seq(AllDividers) /\ y \in Seq(AllDividers) /\ d \in AllDividers
          /\ Len(x) + 1 = Leaves[t.first] /\ Len(x) \in Nat
      BY <1>2, DividersOfSplit, DividersType
    <2>2. P(t.first) /\ P(t.second)
      BY <1>2
    <2>3. IsJoin(j, AllDividers, x, d, y)
      <3> HIDE DEF x, y, d
      <3> QED BY <2>1, JoinFacts
    <2>4. t.first \in Nodes /\ t.second \in Nodes /\ RemoveFrom[t][i] \in Nodes
      BY <1>2, NodeFacts, RemoveNode
    <2>5. ASSUME i + 1 = Leaves[t.first] \/ i = Leaves[t.first],
                 RemoveAt(j, Len(x) + 1) = DividersOf[RemoveFrom[t][i]]
          PROVE  OneMore(DividersOf[t], DividersOf[RemoveFrom[t][i]], i, AllDividers)
      <3> HIDE DEF T, P, x, y, d, j
      <3>1. Len(x) + 1 \in 1 .. Len(j) /\ j[Len(x) + 1] \in AllDividers
        <4>1. Len(y) \in Nat
          BY <2>1
        <4> QED BY <2>1, <2>3, <4>1 DEF IsJoin
      <3>2. Len(x) + 1 \in {i, i + 1}
        BY <2>1, <2>5, <1>2, LeavesOfSplit
      <3> QED BY <2>1, <2>5, <3>1, <3>2 DEF OneMore
    <2>6. CASE InFirst(t, i) /\ t.first = Leaf
      <3>1. RemoveFrom[t][i] = t.second
        BY <1>2, <2>4, <2>6, RemoveAre, CollapsedAre
      <3>2. x = <<>> /\ Len(<<>>) = 0 /\ Leaves[t.first] = 1 /\ i = 0
        BY <1>2, <2>6, NodeFacts, DividersAre, LeavesAre, ChildIndex
      <3>3. RemoveAt(j, Len(x) + 1) = y
        <4>1. RemoveAt(Join(<<>>, d, y), 1) = y
          <5> HIDE DEF y, d
          <5> QED BY <2>1, RemoveBetween
        <4> HIDE DEF y, d
        <4> QED BY <3>2, <4>1
      <3>4. i + 1 = Leaves[t.first]
        BY <3>2
      <3> HIDE DEF T, P, x, j, d
      <3> QED BY <2>5, <3>1, <3>3, <3>4
    <2>7. CASE ~InFirst(t, i) /\ t.second = Leaf
      <3>1. RemoveFrom[t][i] = t.first
        BY <1>2, <2>4, <2>7, RemoveAre, CollapsedAre, ChildIndex
      <3>2. y = <<>> /\ Leaves[t.second] = 1 /\ i = Leaves[t.first]
        BY <1>2, <2>7, NodeFacts, DividersAre, LeavesAre, ChildIndex, LeavesOfSplit
      <3>3. RemoveAt(j, Len(x) + 1) = x
        <4>1. RemoveAt(Join(x, d, <<>>), Len(x) + 1) = x
          <5> HIDE DEF x, d
          <5> QED BY <2>1, RemoveBetween
        <4> HIDE DEF x, d
        <4> QED BY <3>2, <4>1
      <3> HIDE DEF T, P, y, j, d
      <3> QED BY <2>5, <3>1, <3>2, <3>3
    <2>8. CASE InFirst(t, i) /\ t.first # Leaf
      <3> DEFINE u == RemoveFrom[t.first][i]
      <3>1. u \in Nodes /\ u # None
        BY <2>4, <2>8, RemoveNode, NodeFacts
      <3>2. RemoveFrom[t][i] = Split(t.vertical, t.ratio, u, t.second)
        BY <1>2, <2>8, <3>1, RemoveAre, CollapsedAre
      <3>3. DividersOf[RemoveFrom[t][i]] = Join(DividersOf[u], d, y)
        BY <2>4, <3>2, DividersOfNode DEF Divider
      <3>4. OneMore(x, DividersOf[u], i, AllDividers)
        BY <1>2, <2>2, <2>8, ChildIndex
      <3> HIDE DEF T, P, x, y, d, u
      <3>5. OneMore(Join(x, d, y), Join(DividersOf[u], d, y), i, AllDividers)
        BY <2>1, <3>4, OneMoreInFirst
      <3> QED BY <2>1, <3>3, <3>5
    <2>9. CASE ~InFirst(t, i) /\ t.second # Leaf
      <3> DEFINE m == InSecond(t, i)
                 u == RemoveFrom[t.second][m]
      <3>1. m \in Nat /\ m < Leaves[t.second] /\ Len(x) + 1 + m = i
        BY <1>2, <2>1, <2>9, ChildIndex, LeavesOfSplit
      <3>2. u \in Nodes /\ u # None
        <4> HIDE DEF m
        <4> QED BY <2>4, <2>9, <3>1, RemoveNode, NodeFacts
      <3>3. RemoveFrom[t][i] = Split(t.vertical, t.ratio, t.first, u)
        BY <1>2, <2>9, <3>2, RemoveAre, CollapsedAre
      <3>4. DividersOf[RemoveFrom[t][i]] = Join(x, d, DividersOf[u])
        BY <2>4, <3>3, DividersOfNode DEF Divider
      <3>5. OneMore(y, DividersOf[u], m, AllDividers)
        <4> HIDE DEF m
        <4> QED BY <2>2, <2>9, <3>1
      <3> HIDE DEF T, P, x, y, d, u, m
      <3>6. OneMore(Join(x, d, y), Join(x, d, DividersOf[u]), Len(x) + 1 + m, AllDividers)
        BY <2>1, <3>1, <3>5, OneMoreInSecond
      <3> QED BY <2>1, <3>1, <3>4, <3>6
    <2> QED BY <2>6, <2>7, <2>8, <2>9
  <1>3. Nodes \subseteq T
    <2> HIDE DEF T
    <2> QED BY <1>1, <1>2, TreeInduction
  <1> QED BY <1>3

(* A window that opens, closes, floats or tiles leaves every other         *)
(* window's ratio alone (docs/design.md, "Layout").                        *)
THEOREM OtherDividersStay == Spec => []OtherDividersKept
  <1>1. TreeOK => OtherDividersKept
    <2> SUFFICES ASSUME TreeOK, tree # None PROVE OtherDividersKept
      BY DEF OtherDividersKept
    <2> DEFINE old == Dividers(tree)
    <2>1. /\ tree \in Nodes /\ tree_leaf_count(tree) = Leaves[tree] /\ Leaves[tree] \in Nat
          /\ Leaves[tree] <= MaxLeaves /\ old = DividersOf[tree]
      BY TreeCount, LeavesType DEF TreeOK, Dividers
    <2>2. ASSUME NEW i \in 0 .. tree_leaf_count(tree)
          PROVE  LET new == Dividers(tree_insert_at(tree, i))
                 IN  \E k \in {i, i + 1} \cap DOMAIN new :
                         RemoveAt(new, k) = old /\ new[k].ratio = DefaultRatio
      <3> DEFINE u == InsertInto[tree][TRUE][i]
                 new == DividersOf[u]
      <3>1. i \in Nat /\ i <= Leaves[tree]
        BY <2>1
      <3>2. u \in Nodes
        BY <2>1, <3>1, InsertIsNode
      <3>3. tree_insert_at(tree, i) = u /\ Dividers(u) = new
        BY <3>2, NodeFacts DEF tree_insert_at, Dividers
      <3>4. OneMore(new, old, i, NewDividers)
        BY <2>1, <3>1, <3>2, InsertDividers
      <3>5. DOMAIN new = 1 .. Len(new)
        <4>1. new \in Seq(AllDividers)
          BY <3>2, DividersType
        <4> HIDE DEF new
        <4> QED BY <4>1
      <3> HIDE DEF new, old
      <3>6. PICK k \in {i, i + 1} : k \in 1 .. Len(new) /\ RemoveAt(new, k) = old /\ new[k] \in NewDividers
        BY <3>4 DEF OneMore
      <3>7. new[k].ratio = DefaultRatio
        BY <3>6 DEF NewDividers
      <3> QED BY <3>3, <3>5, <3>6, <3>7
    <2>3. ASSUME old # <<>>, NEW i \in Positions
          PROVE  \E k \in {i, i + 1} \cap DOMAIN old :
                    RemoveAt(old, k) = Dividers(tree_remove(tree, i))
      <3> DEFINE u == RemoveFrom[tree][i]
      <3>1. i \in Nat /\ i < Leaves[tree]
        BY <2>1 DEF Positions
      <3>2. tree # Leaf
        BY <2>1, <2>3, DividersAre
      <3>3. u \in Nodes /\ Dividers(u) = DividersOf[u]
        BY <2>1, <3>1, <3>2, RemoveNode, NodeFacts DEF Dividers
      <3>4. tree_remove(tree, i) = u
        BY DEF tree_remove
      <3>5. OneMore(old, DividersOf[u], i, AllDividers)
        BY <2>1, <3>1, <3>2, RemoveDividers
      <3>6. DOMAIN old = 1 .. Len(old)
        BY <2>1, DividersType
      <3> HIDE DEF old, u
      <3> QED BY <3>3, <3>4, <3>5, <3>6 DEF OneMore
    <2> QED BY <2>2, <2>3 DEF OtherDividersKept
  <1> QED BY <1>1, TreeInvariance, PTL
-----------------------------------------------------------------------------
(* Rects.                                                                  *)

LEMMA DivIs ==
    ASSUME NEW a \in Int, NEW r \in Nat, r >= 1
    PROVE  /\ a \div r \in Int
           /\ r * (a \div r) <= a /\ a < r * (a \div r) + r
  OBVIOUS

LEMMA TimesMonotone ==
    ASSUME NEW a \in Int, NEW b \in Int, NEW n \in Nat, a <= b
    PROVE  n * a <= n * b
  OBVIOUS

(* A proper part of two pixels or more leaves one.                         *)
LEMMA PartOf ==
    ASSUME NEW m \in Int, m >= 1, NEW ratio \in MinRatio .. MaxRatio
    PROVE  (m * ratio) \div RatioUnits \in Int /\ (m * ratio) \div RatioUnits <= m - 1
  <1> DEFINE q == (m * ratio) \div RatioUnits
  <1>1. ratio \in Nat /\ ratio + 1 <= RatioUnits /\ RatioUnits \in Nat /\ RatioUnits >= 1
    BY Parameters
  <1>2. m * ratio \in Int
    BY <1>1
  <1>3. q \in Int /\ RatioUnits * q <= m * ratio
    BY <1>1, <1>2, DivIs
  <1> HIDE DEF q
  <1>4. SUFFICES ASSUME m <= q PROVE FALSE
    BY <1>3 DEF q
  <1>5. RatioUnits * m <= RatioUnits * q
    BY <1>1, <1>3, <1>4, TimesMonotone
  <1>6. m * (ratio + 1) <= m * RatioUnits
    BY <1>1, TimesMonotone
  <1>7. m * (ratio + 1) = m * ratio + m /\ m * RatioUnits = RatioUnits * m
    BY <1>1
  <1> QED BY <1>1, <1>2, <1>3, <1>5, <1>6, <1>7

LEMMA PartsType ==
    ASSUME NEW n \in Int, NEW ratio \in MinRatio .. MaxRatio, NEW gap \in Nat
    PROVE  /\ FirstPart(n, ratio, gap) \in Int /\ FirstPart(n, ratio, gap) >= 1
           /\ SecondPart(n, ratio, gap) \in Int /\ SecondPart(n, ratio, gap) >= 1
  <1>1. ((n - gap) * ratio) \div RatioUnits \in Int
    <2>1. (n - gap) * ratio \in Int
      BY Parameters
    <2> QED BY <2>1, DivIs, Parameters
  <1>2. FirstPart(n, ratio, gap) \in Int /\ FirstPart(n, ratio, gap) >= 1
    BY <1>1 DEF FirstPart, AtLeast1
  <1> QED BY <1>2 DEF SecondPart, AtLeast1

(* With two pixels to share both sides get what adds up.                   *)
LEMMA PartsAddUp ==
    ASSUME NEW n \in Int, NEW ratio \in MinRatio .. MaxRatio, NEW gap \in Nat, 2 <= n - gap
    PROVE  FirstPart(n, ratio, gap) + gap + SecondPart(n, ratio, gap) = n
  <1> DEFINE q == ((n - gap) * ratio) \div RatioUnits
             p == FirstPart(n, ratio, gap)
  <1>1. q \in Int /\ q <= (n - gap) - 1
    <2> DEFINE m == n - gap
    <2>1. m \in Int /\ m >= 1
      OBVIOUS
    <2>2. q = (m * ratio) \div RatioUnits
      OBVIOUS
    <2> HIDE DEF m, q
    <2>3. q \in Int /\ q <= m - 1
      BY <2>1, <2>2, PartOf
    <2> QED BY <2>3 DEF m
  <1>2. p = IF q < 1 THEN 1 ELSE q
    BY DEF FirstPart, AtLeast1
  <1>3. SecondPart(n, ratio, gap) = IF n - gap - p < 1 THEN 1 ELSE n - gap - p
    BY DEF SecondPart, AtLeast1
  <1> HIDE DEF q, p
  <1> QED BY <1>1, <1>2, <1>3 DEF p

(* A step moves the divider where a step is a pixel or more.               *)
LEMMA StepMoves ==
    ASSUME NEW n \in Int, NEW ratio \in MinRatio .. MaxRatio, ratio + 1 \in MinRatio .. MaxRatio,
           NEW gap \in Nat, RatioUnits <= n - gap
    PROVE  FirstPart(n, ratio, gap) < FirstPart(n, ratio + 1, gap)
  <1> DEFINE m == n - gap
             p == m * ratio
             q == p \div RatioUnits
             s == (m * (ratio + 1)) \div RatioUnits
  <1>1. /\ ratio \in Nat /\ 1 <= ratio /\ RatioUnits \in Nat /\ RatioUnits >= 1
        /\ m \in Nat /\ RatioUnits <= m
    BY Parameters
  <1>2. p \in Int /\ m * (ratio + 1) \in Int
    BY <1>1
  <1>3. q \in Int /\ RatioUnits * q <= p
    BY <1>1, <1>2, DivIs
  <1>4. s \in Int /\ m * (ratio + 1) < RatioUnits * s + RatioUnits
    BY <1>1, <1>2, DivIs
  <1>5. m * (ratio + 1) = p + m
    BY <1>1
  <1>6. RatioUnits * 1 <= p
    <2>1. m * 1 <= m * ratio
      BY <1>1, TimesMonotone
    <2> HIDE DEF m
    <2> QED BY <1>1, <1>2, <2>1
  <1> HIDE DEF m, p, q, s
  <1>7. RatioUnits * q \in Int /\ RatioUnits * s \in Int
    BY <1>1, <1>3, <1>4
  <1>8. RatioUnits * q < RatioUnits * s
    BY <1>1, <1>2, <1>3, <1>4, <1>5, <1>7
  <1>9. q < s
    <2>1. SUFFICES ASSUME s <= q PROVE FALSE
      BY <1>3, <1>4
    <2>2. RatioUnits * s <= RatioUnits * q
      BY <1>1, <1>3, <1>4, <2>1, TimesMonotone
    <2> QED BY <1>7, <1>8, <2>2
  <1>10. s >= 2 \/ q < 1
    BY <1>3, <1>4, <1>9
  <1>11. s >= 2
    <2>1. SUFFICES ASSUME s <= 1 PROVE FALSE
      BY <1>4
    <2>2. RatioUnits * s <= RatioUnits * 1
      BY <1>1, <1>4, <2>1, TimesMonotone
    <2>3. RatioUnits * 1 = RatioUnits
      BY <1>1
    <2> QED BY <1>1, <1>2, <1>4, <1>5, <1>6, <1>7, <2>2, <2>3
  <1>12. /\ FirstPart(n, ratio, gap) = IF q < 1 THEN 1 ELSE q
         /\ FirstPart(n, ratio + 1, gap) = IF s < 1 THEN 1 ELSE s
    BY DEF FirstPart, AtLeast1, m, p, q, s
  <1> QED BY <1>3, <1>4, <1>9, <1>11, <1>12

LEMMA RectFields ==
    ASSUME NEW x \in Int, NEW y \in Int, NEW w \in Int, NEW h \in Int
    PROVE  /\ Rect(x, y, w, h) \in Rects
           /\ Rect(x, y, w, h).x = x /\ Rect(x, y, w, h).y = y
           /\ Rect(x, y, w, h).w = w /\ Rect(x, y, w, h).h = h
  BY DEF Rect, Rects

(* The boxes of a split's children.                                        *)
LEMMA ChildBoxes ==
    ASSUME NEW t \in Nodes, t # Leaf, NEW b \in Rects, NEW gap \in Nat
    PROVE  /\ FirstBox(t, b, gap) \in Rects /\ SecondBox(t, b, gap) \in Rects
           /\ t.vertical =>
                /\ FirstBox(t, b, gap) = Rect(b.x, b.y, FirstPart(b.w, t.ratio, gap), b.h)
                /\ SecondBox(t, b, gap) =
                    Rect(b.x + FirstPart(b.w, t.ratio, gap) + gap, b.y,
                         SecondPart(b.w, t.ratio, gap), b.h)
           /\ ~t.vertical =>
                /\ FirstBox(t, b, gap) = Rect(b.x, b.y, b.w, FirstPart(b.h, t.ratio, gap))
                /\ SecondBox(t, b, gap) =
                    Rect(b.x, b.y + FirstPart(b.h, t.ratio, gap) + gap,
                         b.w, SecondPart(b.h, t.ratio, gap))
  <1>1. b.x \in Int /\ b.y \in Int /\ b.w \in Int /\ b.h \in Int
    BY DEF Rects
  <1>2. t.ratio \in MinRatio .. MaxRatio /\ t.vertical \in BOOLEAN
    BY NodeFacts
  <1>3. /\ FirstPart(b.w, t.ratio, gap) \in Int /\ SecondPart(b.w, t.ratio, gap) \in Int
        /\ FirstPart(b.h, t.ratio, gap) \in Int /\ SecondPart(b.h, t.ratio, gap) \in Int
    BY <1>1, <1>2, PartsType
  <1>4. /\ b.x + FirstPart(b.w, t.ratio, gap) + gap \in Int
        /\ b.y + FirstPart(b.h, t.ratio, gap) + gap \in Int
    BY <1>1, <1>3
  <1> QED BY ZenonT(60), <1>1, <1>2, <1>3, <1>4, RectFields DEF FirstBox, SecondBox

LEMMA RectsAre ==
    \A t \in Nodes : \A gap \in Nat, b \in Rects :
        RectsIn[t][gap][b] =
            IF t = Leaf THEN <<Rect(b.x, b.y, AtLeast1(b.w), AtLeast1(b.h))>>
            ELSE RectsIn[t.first][gap][FirstBox(t, b, gap)]
                 \o RectsIn[t.second][gap][SecondBox(t, b, gap)]
  <1> DEFINE V == [Nat -> [Rects -> Seq(Rects)]]
             Whole(b) == <<Rect(b.x, b.y, AtLeast1(b.w), AtLeast1(b.h))>>
             At(t, f, s) == [gap \in Nat |-> [b \in Rects |->
                IF t = Leaf THEN Whole(b)
                ELSE f[gap][FirstBox(t, b, gap)] \o s[gap][SecondBox(t, b, gap)]]]
             base == [gap \in Nat |-> [b \in Rects |-> Whole(b)]]
             node == [t \in Nodes |-> [f \in V |-> [s \in V |-> At(t, f, s)]]]
             Body(f) == [t \in Nodes |-> At(t, f[t.first], f[t.second])]
  <1>1. ASSUME NEW b \in Rects PROVE Whole(b) \in Seq(Rects)
    <2>1. b.x \in Int /\ b.y \in Int /\ AtLeast1(b.w) \in Int /\ AtLeast1(b.h) \in Int
      BY DEF Rects, AtLeast1
    <2>2. Rect(b.x, b.y, AtLeast1(b.w), AtLeast1(b.h)) \in Rects
      BY <2>1, RectFields
    <2> QED BY <2>2
  <1>2. base \in V
    <2> HIDE DEF Whole
    <2> QED BY <1>1
  <1>3. ASSUME NEW t \in Nodes, t # Leaf, NEW f \in V, NEW s \in V, NEW gap \in Nat, NEW b \in Rects
        PROVE  f[gap][FirstBox(t, b, gap)] \o s[gap][SecondBox(t, b, gap)] \in Seq(Rects)
    <2>1. FirstBox(t, b, gap) \in Rects /\ SecondBox(t, b, gap) \in Rects
      BY <1>3, ChildBoxes
    <2>2. f[gap][FirstBox(t, b, gap)] \in Seq(Rects) /\ s[gap][SecondBox(t, b, gap)] \in Seq(Rects)
      BY <2>1
    <2> QED BY <2>2, ConcatProperties
  <1>4. ASSUME NEW t \in Nodes, NEW f \in V, NEW s \in V PROVE At(t, f, s) \in V
    <2>1. CASE t = Leaf
      <3> HIDE DEF Whole
      <3> QED BY <1>1, <2>1
    <2>2. CASE t # Leaf
      BY <1>3, <2>2
    <2> QED BY <2>1, <2>2
  <1>5. node \in NodeRules(V)
    <2> HIDE DEF At, V
    <2> QED BY <1>4 DEF NodeRules
  <1>6. PICK f : Follows(f, V, base, node)
    <2> HIDE DEF node, base, V
    <2> QED BY <1>2, <1>5, Recursion
  <1>7. f = Body(f)
    <2>1. f \in [Nodes -> V]
      BY <1>6 DEF Follows
    <2>2. ASSUME NEW t \in Nodes PROVE f[t] = At(t, f[t.first], f[t.second])
      <3>1. CASE t = Leaf
        <4>1. f[t] = base
          BY <1>6, <3>1 DEF Follows
        <4> HIDE DEF Whole
        <4> QED BY <3>1, <4>1
      <3>2. CASE t # Leaf
        <4>1. f[t.first] \in V /\ f[t.second] \in V
          BY <2>1, <3>2, NodeFacts
        <4>2. f[t] = node[t][f[t.first]][f[t.second]]
          BY <1>6, <3>2 DEF Follows
        <4> HIDE DEF At, V
        <4> QED BY <4>1, <4>2
      <3> QED BY <3>1, <3>2
    <2> HIDE DEF At, V
    <2> QED BY <2>1, <2>2
  <1>8. RectsIn = CHOOSE g : g = Body(g)
    BY DEF RectsIn
  <1>9. RectsIn = Body(RectsIn)
    <2> HIDE DEF Body
    <2> QED BY <1>7, <1>8
  <1>10. ASSUME NEW t \in Nodes
         PROVE  RectsIn[t] = At(t, RectsIn[t.first], RectsIn[t.second])
    <2> HIDE DEF At
    <2> QED BY <1>9, Zenon
  <1>11. ASSUME NEW t \in Nodes, NEW gap \in Nat, NEW b \in Rects
         PROVE  RectsIn[t][gap][b] = At(t, RectsIn[t.first], RectsIn[t.second])[gap][b]
    <2> HIDE DEF At
    <2> QED BY <1>10
  <1>12. ASSUME NEW t \in Nodes, NEW gap \in Nat, NEW b \in Rects
         PROVE  At(t, RectsIn[t.first], RectsIn[t.second])[gap][b] =
                    IF t = Leaf THEN Whole(b)
                    ELSE RectsIn[t.first][gap][FirstBox(t, b, gap)]
                         \o RectsIn[t.second][gap][SecondBox(t, b, gap)]
    OBVIOUS
  <1> HIDE DEF At
  <1> QED BY <1>11, <1>12
Shared(t, b, gap) == (IF t.vertical THEN b.w ELSE b.h) - gap

LEMMA RoomAre ==
    \A t \in Nodes : \A least \in Nat, gap \in Nat, b \in Rects :
        RoomIn[t][least][gap][b] <=>
            \/ t = Leaf
            \/ /\ least <= Shared(t, b, gap)
               /\ RoomIn[t.first][least][gap][FirstBox(t, b, gap)]
               /\ RoomIn[t.second][least][gap][SecondBox(t, b, gap)]
  <1> DEFINE V == [Nat -> [Nat -> [Rects -> BOOLEAN]]]
             Value(t, f, s, least, gap, b) ==
                \/ t = Leaf
                \/ /\ least <= Shared(t, b, gap)
                   /\ f[least][gap][FirstBox(t, b, gap)]
                   /\ s[least][gap][SecondBox(t, b, gap)]
             At(t, f, s) == [least \in Nat |-> [gap \in Nat |-> [b \in Rects |->
                Value(t, f, s, least, gap, b)]]]
             base == [least \in Nat |-> [gap \in Nat |-> [b \in Rects |-> TRUE]]]
             node == [t \in Nodes |-> [f \in V |-> [s \in V |-> At(t, f, s)]]]
             Body(f) == [t \in Nodes |-> At(t, f[t.first], f[t.second])]
  <1>1. base \in V
    OBVIOUS
  <1>2. ASSUME NEW t, NEW f, NEW s, NEW least, NEW gap, NEW b
        PROVE  Value(t, f, s, least, gap, b) \in BOOLEAN
    BY Zenon
  <1>3. ASSUME NEW t, NEW f, NEW s PROVE At(t, f, s) \in V
    <2> HIDE DEF Value
    <2> QED BY <1>2
  <1>4. node \in NodeRules(V)
    <2> HIDE DEF At, V
    <2> QED BY <1>3 DEF NodeRules
  <1>5. PICK f : Follows(f, V, base, node)
    <2> HIDE DEF node, base, V
    <2> QED BY <1>1, <1>4, Recursion
  <1>6. ASSUME NEW p, NEW q PROVE At(Leaf, p, q) = base
    <2>1. ASSUME NEW least, NEW gap, NEW b PROVE Value(Leaf, p, q, least, gap, b) = TRUE
      OBVIOUS
    <2> HIDE DEF Value
    <2> QED BY <2>1
  <1>7. f = Body(f)
    <2>1. f \in [Nodes -> V]
      BY <1>5 DEF Follows
    <2>2. ASSUME NEW t \in Nodes PROVE f[t] = At(t, f[t.first], f[t.second])
      <3>1. CASE t = Leaf
        <4>1. f[t] = base
          BY <1>5, <3>1 DEF Follows
        <4> HIDE DEF At, base
        <4> QED BY <1>6, <3>1, <4>1
      <3>2. CASE t # Leaf
        <4>1. f[t.first] \in V /\ f[t.second] \in V
          BY <2>1, <3>2, NodeFacts
        <4>2. f[t] = node[t][f[t.first]][f[t.second]]
          BY <1>5, <3>2 DEF Follows
        <4> HIDE DEF At, V
        <4> QED BY <4>1, <4>2
      <3> QED BY <3>1, <3>2
    <2> HIDE DEF At, V
    <2> QED BY <2>1, <2>2
  <1>8. RoomIn = CHOOSE g : g = Body(g)
    BY DEF RoomIn, Shared
  <1>9. RoomIn = Body(RoomIn)
    <2> HIDE DEF Body
    <2> QED BY <1>7, <1>8
  <1>10. ASSUME NEW t \in Nodes
         PROVE  RoomIn[t] = At(t, RoomIn[t.first], RoomIn[t.second])
    <2> HIDE DEF At
    <2> QED BY <1>9, Zenon
  <1>11. ASSUME NEW t \in Nodes, NEW least \in Nat, NEW gap \in Nat, NEW b \in Rects
         PROVE  RoomIn[t][least][gap][b] =
                    Value(t, RoomIn[t.first], RoomIn[t.second], least, gap, b)
    <2>1. RoomIn[t][least][gap][b] = At(t, RoomIn[t.first], RoomIn[t.second])[least][gap][b]
      <3> HIDE DEF At
      <3> QED BY <1>10
    <2>2. At(t, RoomIn[t.first], RoomIn[t.second])[least][gap][b] =
                Value(t, RoomIn[t.first], RoomIn[t.second], least, gap, b)
      <3> HIDE DEF Value
      <3> QED OBVIOUS
    <2> HIDE DEF At, Value
    <2> QED BY <2>1, <2>2
  <1> QED BY <1>11, Zenon

(* One rect to a leaf, in order.                                           *)
LEMMA RectsType ==
    \A t \in Nodes : \A gap \in Nat, b \in Rects :
        RectsIn[t][gap][b] \in Seq(Rects) /\ Len(RectsIn[t][gap][b]) = Leaves[t]
  <1> DEFINE P(t) == \A gap \in Nat, b \in Rects :
                RectsIn[t][gap][b] \in Seq(Rects) /\ Len(RectsIn[t][gap][b]) = Leaves[t]
             T == {t \in Nodes : P(t)}
  <1>1. Leaf \in T
    <2> SUFFICES ASSUME NEW gap \in Nat, NEW b \in Rects
                 PROVE  RectsIn[Leaf][gap][b] \in Seq(Rects) /\ Len(RectsIn[Leaf][gap][b]) = Leaves[Leaf]
      BY NodeFacts
    <2> DEFINE r == Rect(b.x, b.y, AtLeast1(b.w), AtLeast1(b.h))
    <2>1. r \in Rects
      <3>1. b.x \in Int /\ b.y \in Int /\ AtLeast1(b.w) \in Int /\ AtLeast1(b.h) \in Int
        BY DEF Rects, AtLeast1
      <3> QED BY <3>1, RectFields
    <2>2. RectsIn[Leaf][gap][b] = <<r>> /\ Leaves[Leaf] = 1
      BY NodeFacts, RectsAre, LeavesAre
    <2> HIDE DEF r
    <2>3. <<r>> \in Seq(Rects) /\ Len(<<r>>) = 1
      BY <2>1
    <2> QED BY <2>2, <2>3
  <1>2. ASSUME NEW t \in Nodes, t # Leaf, t.first \in T, t.second \in T PROVE t \in T
    <2> SUFFICES ASSUME NEW gap \in Nat, NEW b \in Rects
                 PROVE  RectsIn[t][gap][b] \in Seq(Rects) /\ Len(RectsIn[t][gap][b]) = Leaves[t]
      BY <1>2
    <2> DEFINE x == RectsIn[t.first][gap][FirstBox(t, b, gap)]
               y == RectsIn[t.second][gap][SecondBox(t, b, gap)]
    <2>1. x \in Seq(Rects) /\ y \in Seq(Rects)
          /\ Len(x) = Leaves[t.first] /\ Len(y) = Leaves[t.second]
      BY <1>2, ChildBoxes
    <2>2. RectsIn[t][gap][b] = x \o y
      BY <1>2, RectsAre
    <2> HIDE DEF x, y, T
    <2>3. x \o y \in Seq(Rects) /\ Len(x \o y) = Len(x) + Len(y)
      BY <2>1, ConcatProperties
    <2> QED BY <1>2, <2>1, <2>2, <2>3, LeavesOfSplit
  <1>3. Nodes \subseteq T
    <2> HIDE DEF T
    <2> QED BY <1>1, <1>2, TreeInduction
  <1> QED BY <1>3

(* The rect of leaf i, from 0.                                             *)
RectOf(t, gap, b, i) == RectsIn[t][gap][b][i + 1]

LEMMA RectOfLeaf ==
    ASSUME NEW gap \in Nat, NEW b \in Rects
    PROVE  RectOf(Leaf, gap, b, 0) = Rect(b.x, b.y, AtLeast1(b.w), AtLeast1(b.h))
  <1> DEFINE r == Rect(b.x, b.y, AtLeast1(b.w), AtLeast1(b.h))
  <1>1. RectsIn[Leaf][gap][b] = <<r>>
    BY NodeFacts, RectsAre
  <1>2. <<r>>[1] = r /\ 0 + 1 = 1
    OBVIOUS
  <1> HIDE DEF r
  <1>3. RectOf(Leaf, gap, b, 0) = r
    BY <1>1, <1>2 DEF RectOf
  <1> QED BY <1>3 DEF r

LEMMA RectOfSplit ==
    ASSUME NEW t \in Nodes, t # Leaf, NEW gap \in Nat, NEW b \in Rects,
           NEW i \in Nat, i < Leaves[t]
    PROVE  /\ InFirst(t, i) => RectOf(t, gap, b, i) = RectOf(t.first, gap, FirstBox(t, b, gap), i)
           /\ ~InFirst(t, i) =>
                /\ InSecond(t, i) \in Nat /\ InSecond(t, i) < Leaves[t.second]
                /\ RectOf(t, gap, b, i) = RectOf(t.second, gap, SecondBox(t, b, gap), InSecond(t, i))
  <1> DEFINE x == RectsIn[t.first][gap][FirstBox(t, b, gap)]
             y == RectsIn[t.second][gap][SecondBox(t, b, gap)]
             j == InSecond(t, i)
  <1>1. x \in Seq(Rects) /\ y \in Seq(Rects)
        /\ Len(x) = Leaves[t.first] /\ Len(y) = Leaves[t.second]
    <2>1. t.first \in Nodes /\ t.second \in Nodes
      BY NodeFacts
    <2>2. FirstBox(t, b, gap) \in Rects /\ SecondBox(t, b, gap) \in Rects
      BY ChildBoxes
    <2> QED BY <2>1, <2>2, RectsType
  <1>2. RectsIn[t][gap][b] = x \o y
    BY RectsAre
  <1>3. /\ Leaves[t.first] \in Nat /\ Leaves[t.second] \in Nat
        /\ Leaves[t] = Leaves[t.first] + Leaves[t.second]
        /\ InFirst(t, i) <=> i < Leaves[t.first]
        /\ ~InFirst(t, i) => j \in Nat /\ i = Leaves[t.first] + j
    BY LeavesOfSplit, ChildIndex
  <1> HIDE DEF x, y, j
  <1>4. \A k \in 1 .. Len(x) + Len(y) :
            (x \o y)[k] = IF k <= Len(x) THEN x[k] ELSE y[k - Len(x)]
    BY <1>1, ConcatProperties
  <1>5. i + 1 \in 1 .. Len(x) + Len(y)
    BY <1>1, <1>3
  <1>6. ASSUME InFirst(t, i) PROVE (x \o y)[i + 1] = x[i + 1]
    BY <1>1, <1>3, <1>4, <1>5, <1>6
  <1>7. ASSUME ~InFirst(t, i) PROVE j < Leaves[t.second] /\ (x \o y)[i + 1] = y[j + 1]
    <2>1. j < Leaves[t.second] /\ ~(i + 1 <= Len(x)) /\ (i + 1) - Len(x) = j + 1
      BY <1>1, <1>3, <1>7
    <2> QED BY <1>4, <1>5, <2>1
  <1> QED BY <1>2, <1>3, <1>6, <1>7 DEF RectOf, x, y, j

-----------------------------------------------------------------------------
(* The rects are apart.                                                    *)
Sized(b) == b.w >= 1 /\ b.h >= 1

LEMMA ChildBoxesApart ==
    ASSUME NEW t \in Nodes, t # Leaf, NEW gap \in Nat, NEW b \in Rects, Sized(b),
           2 <= Shared(t, b, gap)
    PROVE  /\ Sized(FirstBox(t, b, gap)) /\ Sized(SecondBox(t, b, gap))
           /\ Inside(FirstBox(t, b, gap), b) /\ Inside(SecondBox(t, b, gap), b)
           /\ Apart(FirstBox(t, b, gap), SecondBox(t, b, gap), gap)
  <1> DEFINE f == FirstBox(t, b, gap)
             s == SecondBox(t, b, gap)
             n == IF t.vertical THEN b.w ELSE b.h
             p == FirstPart(n, t.ratio, gap)
             q == SecondPart(n, t.ratio, gap)
  <1>1. b.x \in Int /\ b.y \in Int /\ b.w \in Int /\ b.h \in Int /\ b.w >= 1 /\ b.h >= 1
    BY DEF Rects, Sized
  <1>2. t.ratio \in MinRatio .. MaxRatio /\ n \in Int /\ 2 <= n - gap /\ t.vertical \in BOOLEAN
    BY <1>1, NodeFacts DEF Shared
  <1>3. p \in Int /\ p >= 1 /\ q \in Int /\ q >= 1 /\ p + gap + q = n
    <2> HIDE DEF n
    <2> QED BY <1>2, PartsType, PartsAddUp
  <1>4. CASE t.vertical
    <2>1. f = Rect(b.x, b.y, p, b.h) /\ s = Rect(b.x + p + gap, b.y, q, b.h) /\ n = b.w
      BY <1>4, ChildBoxes
    <2> HIDE DEF f, s, n, p, q
    <2>2. /\ f.x = b.x /\ f.y = b.y /\ f.w = p /\ f.h = b.h
          /\ s.x = b.x + p + gap /\ s.y = b.y /\ s.w = q /\ s.h = b.h
      BY <2>1 DEF Rect
    <2>3. Sized(f) /\ Sized(s) /\ Inside(f, b) /\ Inside(s, b) /\ Apart(f, s, gap)
      BY <1>1, <1>3, <2>1, <2>2 DEF Sized, Inside, Apart
    <2> QED BY <2>3 DEF f, s
  <1>5. CASE ~t.vertical
    <2>1. f = Rect(b.x, b.y, b.w, p) /\ s = Rect(b.x, b.y + p + gap, b.w, q) /\ n = b.h
      BY <1>5, ChildBoxes
    <2> HIDE DEF f, s, n, p, q
    <2>2. /\ f.x = b.x /\ f.y = b.y /\ f.w = b.w /\ f.h = p
          /\ s.x = b.x /\ s.y = b.y + p + gap /\ s.w = b.w /\ s.h = q
      BY <2>1 DEF Rect
    <2>3. Sized(f) /\ Sized(s) /\ Inside(f, b) /\ Inside(s, b) /\ Apart(f, s, gap)
      BY <1>1, <1>3, <2>1, <2>2 DEF Sized, Inside, Apart
    <2> QED BY <2>3 DEF f, s
  <1> QED BY <1>4, <1>5

(* Side by side they fill the box.                                         *)
LEMMA ChildBoxesMeet ==
    ASSUME NEW t \in Nodes, t # Leaf, NEW gap \in Nat, NEW b \in Rects, Sized(b),
           2 <= Shared(t, b, gap)
    PROVE  LET f == FirstBox(t, b, gap)
               s == SecondBox(t, b, gap)
           IN  /\ f.x = b.x /\ f.y = b.y /\ s.x + s.w = b.x + b.w /\ s.y + s.h = b.y + b.h
               /\ t.vertical => f.x + f.w + gap = s.x /\ f.y = s.y /\ f.h = s.h
               /\ ~t.vertical => f.y + f.h + gap = s.y /\ f.x = s.x /\ f.w = s.w
  <1> DEFINE f == FirstBox(t, b, gap)
             s == SecondBox(t, b, gap)
             n == IF t.vertical THEN b.w ELSE b.h
             p == FirstPart(n, t.ratio, gap)
             q == SecondPart(n, t.ratio, gap)
  <1>1. b.x \in Int /\ b.y \in Int /\ b.w \in Int /\ b.h \in Int
    BY DEF Rects
  <1>2. t.ratio \in MinRatio .. MaxRatio /\ n \in Int /\ 2 <= n - gap
    BY <1>1, NodeFacts DEF Shared
  <1>3. p \in Int /\ q \in Int /\ p + gap + q = n
    <2> HIDE DEF n
    <2> QED BY <1>2, PartsType, PartsAddUp
  <1>4. CASE t.vertical
    <2>1. f = Rect(b.x, b.y, p, b.h) /\ s = Rect(b.x + p + gap, b.y, q, b.h) /\ n = b.w
      BY <1>4, ChildBoxes
    <2> HIDE DEF f, s, n, p, q
    <2>2. /\ f.x = b.x /\ f.y = b.y /\ f.w = p /\ f.h = b.h
          /\ s.x = b.x + p + gap /\ s.y = b.y /\ s.w = q /\ s.h = b.h
      BY <2>1 DEF Rect
    <2>3. s.x + s.w = b.x + b.w /\ s.y + s.h = b.y + b.h
      BY <1>1, <1>3, <2>1, <2>2
    <2> QED BY <1>4, <2>2, <2>3 DEF f, s
  <1>5. CASE ~t.vertical
    <2>1. f = Rect(b.x, b.y, b.w, p) /\ s = Rect(b.x, b.y + p + gap, b.w, q) /\ n = b.h
      BY <1>5, ChildBoxes
    <2> HIDE DEF f, s, n, p, q
    <2>2. /\ f.x = b.x /\ f.y = b.y /\ f.w = b.w /\ f.h = p
          /\ s.x = b.x /\ s.y = b.y + p + gap /\ s.w = b.w /\ s.h = q
      BY <2>1 DEF Rect
    <2>3. s.x + s.w = b.x + b.w /\ s.y + s.h = b.y + b.h
      BY <1>1, <1>3, <2>1, <2>2
    <2> QED BY <1>5, <2>2, <2>3 DEF f, s
  <1> QED BY <1>4, <1>5

LEMMA InsideInside ==
    ASSUME NEW r \in Rects, NEW c \in Rects, NEW b \in Rects, Inside(r, c), Inside(c, b)
    PROVE  Inside(r, b)
  BY DEF Inside, Rects

LEMMA ApartInside ==
    ASSUME NEW r \in Rects, NEW s \in Rects, NEW c \in Rects, NEW d \in Rects, NEW gap \in Nat,
           Inside(r, c), Inside(s, d), Apart(c, d, gap)
    PROVE  Apart(r, s, gap) /\ Apart(s, r, gap)
  BY DEF Inside, Apart, Rects

LEMMA RectsApart ==
    \A t \in Nodes : \A gap \in Nat, b \in Rects :
        Sized(b) /\ RoomIn[t][2][gap][b] =>
            \A i \in 0 .. Leaves[t] - 1 :
                /\ RectOf(t, gap, b, i) \in Rects
                /\ Sized(RectOf(t, gap, b, i))
                /\ Inside(RectOf(t, gap, b, i), b)
                /\ \A j \in 0 .. Leaves[t] - 1 :
                    i # j => Apart(RectOf(t, gap, b, i), RectOf(t, gap, b, j), gap)
  <1> DEFINE Good(t, gap, b, i, j) ==
                /\ RectOf(t, gap, b, i) \in Rects
                /\ Sized(RectOf(t, gap, b, i))
                /\ Inside(RectOf(t, gap, b, i), b)
                /\ i # j => Apart(RectOf(t, gap, b, i), RectOf(t, gap, b, j), gap)
             P(t) == \A gap \in Nat, b \in Rects :
                Sized(b) /\ RoomIn[t][2][gap][b] =>
                    \A i, j \in 0 .. Leaves[t] - 1 : Good(t, gap, b, i, j)
             T == {t \in Nodes : P(t)}
  <1>1. Leaf \in T
    <2> SUFFICES ASSUME NEW gap \in Nat, NEW b \in Rects, Sized(b),
                        NEW i \in 0 .. Leaves[Leaf] - 1, NEW j \in 0 .. Leaves[Leaf] - 1
                 PROVE  Good(Leaf, gap, b, i, j)
      BY NodeFacts
    <2>1. i = 0 /\ j = 0
      BY NodeFacts, LeavesAre
    <2>2. b.x \in Int /\ b.y \in Int /\ b.w \in Int /\ b.h \in Int /\ b.w >= 1 /\ b.h >= 1
      BY DEF Rects, Sized
    <2>3. RectOf(Leaf, gap, b, 0) = Rect(b.x, b.y, b.w, b.h)
      BY <2>2, RectOfLeaf DEF AtLeast1
    <2> DEFINE r == Rect(b.x, b.y, b.w, b.h)
    <2>4. r \in Rects /\ r.x = b.x /\ r.y = b.y /\ r.w = b.w /\ r.h = b.h
      BY <2>2 DEF Rect, Rects
    <2> HIDE DEF r
    <2>5. Sized(r) /\ Inside(r, b)
      BY <2>2, <2>4 DEF Sized, Inside
    <2> QED BY <2>1, <2>3, <2>4, <2>5 DEF r
  <1>2. ASSUME NEW t \in Nodes, t # Leaf, t.first \in T, t.second \in T PROVE t \in T
    <2> SUFFICES ASSUME NEW gap \in Nat, NEW b \in Rects, Sized(b), RoomIn[t][2][gap][b],
                        NEW i \in 0 .. Leaves[t] - 1, NEW j \in 0 .. Leaves[t] - 1
                 PROVE  Good(t, gap, b, i, j)
      BY <1>2
    <2> DEFINE f == FirstBox(t, b, gap)
               s == SecondBox(t, b, gap)
    <2>1. /\ 2 <= Shared(t, b, gap) /\ 2 \in Nat
          /\ RoomIn[t.first][2][gap][f] /\ RoomIn[t.second][2][gap][s]
      BY <1>2, RoomAre
    <2>2. /\ f \in Rects /\ s \in Rects /\ Sized(f) /\ Sized(s)
          /\ Inside(f, b) /\ Inside(s, b) /\ Apart(f, s, gap)
      BY <1>2, <2>1, ChildBoxes, ChildBoxesApart
    <2>3. P(t.first) /\ P(t.second)
      BY <1>2
    <2> HIDE DEF f, s
    <2>4. /\ \A m, n \in 0 .. Leaves[t.first] - 1 : Good(t.first, gap, f, m, n)
          /\ \A m, n \in 0 .. Leaves[t.second] - 1 : Good(t.second, gap, s, m, n)
      BY <2>1, <2>2, <2>3
    <2>5. /\ Leaves[t.first] \in Nat /\ Leaves[t.second] \in Nat /\ Leaves[t] \in Nat
          /\ i \in Nat /\ j \in Nat /\ i < Leaves[t] /\ j < Leaves[t]
      BY <1>2, LeavesOfSplit
    (* Each leaf's rect is one of a child's.                               *)
    <2>6. ASSUME NEW k \in Nat, k < Leaves[t]
          PROVE  /\ InFirst(t, k) =>
                    /\ k \in 0 .. Leaves[t.first] - 1
                    /\ RectOf(t, gap, b, k) = RectOf(t.first, gap, f, k)
                 /\ ~InFirst(t, k) =>
                    /\ InSecond(t, k) \in 0 .. Leaves[t.second] - 1
                    /\ k = Leaves[t.first] + InSecond(t, k)
                    /\ RectOf(t, gap, b, k) = RectOf(t.second, gap, s, InSecond(t, k))
      BY <1>2, <2>5, <2>6, RectOfSplit, ChildIndex DEF f, s
    <2> DEFINE m == IF InFirst(t, i) THEN i ELSE InSecond(t, i)
               n == IF InFirst(t, j) THEN j ELSE InSecond(t, j)
               r == RectOf(t, gap, b, i)
               q == RectOf(t, gap, b, j)
    <2>7. CASE InFirst(t, i) /\ InFirst(t, j)
      <3>1. Good(t.first, gap, f, i, j) /\ r = RectOf(t.first, gap, f, i) /\ q = RectOf(t.first, gap, f, j)
        BY <2>4, <2>5, <2>6, <2>7
      <3>2. r \in Rects /\ Sized(r) /\ Inside(r, f) /\ (i # j => Apart(r, q, gap))
        BY <3>1
      <3>3. Inside(r, b)
        BY <2>2, <3>2, InsideInside
      <3> QED BY <3>2, <3>3
    <2>8. CASE ~InFirst(t, i) /\ ~InFirst(t, j)
      <3>1. /\ InSecond(t, i) \in 0 .. Leaves[t.second] - 1
            /\ InSecond(t, j) \in 0 .. Leaves[t.second] - 1
            /\ r = RectOf(t.second, gap, s, InSecond(t, i))
            /\ q = RectOf(t.second, gap, s, InSecond(t, j))
            /\ i # j => InSecond(t, i) # InSecond(t, j)
        BY <2>5, <2>6, <2>8
      <3>2. Good(t.second, gap, s, InSecond(t, i), InSecond(t, j))
        BY <2>4, <3>1
      <3>3. r \in Rects /\ Sized(r) /\ Inside(r, s) /\ (i # j => Apart(r, q, gap))
        <4> HIDE DEF r, q
        <4> QED BY <3>1, <3>2
      <3>4. Inside(r, b)
        BY <2>2, <3>3, InsideInside
      <3> QED BY <3>3, <3>4
    <2>9. CASE InFirst(t, i) /\ ~InFirst(t, j)
      <3>1. r \in Rects /\ Sized(r) /\ Inside(r, f)
        <4>1. Good(t.first, gap, f, i, i) /\ r = RectOf(t.first, gap, f, i)
          BY <2>4, <2>5, <2>6, <2>9
        <4> QED BY <4>1
      <3>2. q \in Rects /\ Inside(q, s)
        <4>1. /\ Good(t.second, gap, s, InSecond(t, j), InSecond(t, j))
              /\ q = RectOf(t.second, gap, s, InSecond(t, j))
          BY <2>4, <2>5, <2>6, <2>9
        <4> QED BY <4>1
      <3>3. Inside(r, b) /\ Apart(r, q, gap)
        <4> HIDE DEF r, q
        <4> QED BY <2>2, <3>1, <3>2, InsideInside, ApartInside
      <3> QED BY <3>1, <3>3
    <2>10. CASE ~InFirst(t, i) /\ InFirst(t, j)
      <3>1. q \in Rects /\ Inside(q, f)
        <4>1. Good(t.first, gap, f, j, j) /\ q = RectOf(t.first, gap, f, j)
          BY <2>4, <2>5, <2>6, <2>10
        <4> QED BY <4>1
      <3>2. r \in Rects /\ Sized(r) /\ Inside(r, s)
        <4>1. /\ Good(t.second, gap, s, InSecond(t, i), InSecond(t, i))
              /\ r = RectOf(t.second, gap, s, InSecond(t, i))
          BY <2>4, <2>5, <2>6, <2>10
        <4> QED BY <4>1
      <3>3. Inside(r, b) /\ Apart(r, q, gap)
        <4> HIDE DEF r, q
        <4> QED BY <2>2, <3>1, <3>2, InsideInside, ApartInside
      <3> QED BY <3>2, <3>3
    <2> QED BY <2>7, <2>8, <2>9, <2>10
  <1>3. Nodes \subseteq T
    <2> HIDE DEF T
    <2> QED BY <1>1, <1>2, TreeInduction
  <1> QED BY <1>3
(* The outer margin leaves a pixel.                                        *)
LEMMA PaddedType ==
    ASSUME NEW b \in Rects, NEW gap \in Nat
    PROVE  Padded(b, gap) \in Rects /\ Sized(Padded(b, gap))
  BY DEF Padded, Rects, Rect, AtLeast1, Sized

(* The rects of a workspace's windows.                                     *)
LEMMA TreeRects ==
    ASSUME NEW t \in Nodes, NEW box \in Rects, NEW gap \in Nat
    PROVE  /\ tree_rects(t, box, gap) = RectsIn[t][gap][Padded(box, gap)]
           /\ DOMAIN tree_rects(t, box, gap) = 1 .. Leaves[t]
           /\ \A i \in 1 .. Leaves[t] :
                /\ i - 1 \in 0 .. Leaves[t] - 1
                /\ tree_rects(t, box, gap)[i] = RectOf(t, gap, Padded(box, gap), i - 1)
  <1> DEFINE r == RectsIn[t][gap][Padded(box, gap)]
  <1>1. r \in Seq(Rects) /\ Len(r) = Leaves[t] /\ Leaves[t] \in Nat
    BY PaddedType, RectsType, LeavesType
  <1>2. tree_rects(t, box, gap) = r
    BY NodeFacts DEF tree_rects
  <1>3. ASSUME NEW i \in 1 .. Leaves[t]
        PROVE  i - 1 \in 0 .. Leaves[t] - 1 /\ r[i] = RectOf(t, gap, Padded(box, gap), i - 1)
    <2>1. (i - 1) + 1 = i
      OBVIOUS
    <2> QED BY <1>1, <2>1 DEF RectOf
  <1> HIDE DEF r
  <1>4. DOMAIN r = 1 .. Leaves[t]
    BY <1>1
  <1> QED BY <1>2, <1>3, <1>4 DEF r

(* Rects of windows in a box b: apart from each other, and all of them in. *)
Standing(rects, b, gap) ==
    /\ \E n \in Nat : DOMAIN rects = 1 .. n
    /\ \A i \in DOMAIN rects :
        /\ rects[i] \in Rects /\ Sized(rects[i]) /\ Inside(rects[i], b)
        /\ \A j \in DOMAIN rects : i # j => Apart(rects[i], rects[j], gap)

LEMMA RectsStand ==
    ASSUME TreeOK, NEW box \in Boxes, NEW gap \in Gaps, HasRoom(box, gap, 2)
    PROVE  Standing(tree_rects(tree, box, gap), Padded(box, gap), gap)
  <1> DEFINE b == Padded(box, gap)
             rects == tree_rects(tree, box, gap)
  <1>1. box \in Rects /\ gap \in Nat /\ b \in Rects /\ Sized(b)
    BY SplitTreeAssumption, PaddedType
  <1>2. CASE tree = None
    <2>1. rects = <<>>
      BY <1>2 DEF tree_rects
    <2> HIDE DEF rects
    <2>2. DOMAIN rects = 1 .. 0
      BY <2>1
    <2> QED BY <2>2 DEF Standing, rects
  <1>3. CASE tree # None
    <2>1. tree \in Nodes /\ RoomIn[tree][2][gap][b]
      BY <1>3, TreeCount DEF TreeOK, HasRoom
    <2>2. \A i \in 0 .. Leaves[tree] - 1 :
              /\ RectOf(tree, gap, b, i) \in Rects
              /\ Sized(RectOf(tree, gap, b, i))
              /\ Inside(RectOf(tree, gap, b, i), b)
              /\ \A j \in 0 .. Leaves[tree] - 1 :
                  i # j => Apart(RectOf(tree, gap, b, i), RectOf(tree, gap, b, j), gap)
      BY <1>1, <2>1, RectsApart
    <2>3. /\ DOMAIN rects = 1 .. Leaves[tree]
          /\ \A i \in 1 .. Leaves[tree] :
              i - 1 \in 0 .. Leaves[tree] - 1 /\ rects[i] = RectOf(tree, gap, b, i - 1)
      BY <1>1, <2>1, TreeRects
    <2> HIDE DEF rects, b
    <2>4. ASSUME NEW i \in DOMAIN rects, NEW j \in DOMAIN rects, i # j
          PROVE  Apart(rects[i], rects[j], gap)
      <3>1. i - 1 # j - 1
        BY <2>3, <2>4
      <3> QED BY <2>2, <2>3, <3>1
    <2>5. ASSUME NEW i \in DOMAIN rects
          PROVE  rects[i] \in Rects /\ Sized(rects[i]) /\ Inside(rects[i], b)
      BY <2>2, <2>3
    <2>6. Leaves[tree] \in Nat
      BY <2>1, LeavesType
    <2> QED BY <2>3, <2>4, <2>5, <2>6 DEF Standing, rects, b
  <1> QED BY <1>2, <1>3

(* The rects never overlap, keep the gap and stay within the margin, where *)
(* no split is down to less than a pixel for each side (src/layout.rs).    *)
THEOREM WindowsStayApart == Spec => []WindowsNeverOverlap
  <1>1. TreeOK => WindowsNeverOverlap
    <2> SUFFICES ASSUME TreeOK, NEW box \in Boxes, NEW gap \in Gaps, HasRoom(box, gap, 2)
                 PROVE  Tiled(box, gap)
      BY DEF WindowsNeverOverlap
    <2>1. Standing(tree_rects(tree, box, gap), Padded(box, gap), gap)
      BY RectsStand
    <2> QED BY <2>1 DEF Standing, Tiled
  <1> QED BY <1>1, TreeInvariance, PTL

-----------------------------------------------------------------------------
(* What a resize moves.                                                    *)
LEMMA ClampStep ==
    ASSUME NEW ratio \in MinRatio .. MaxRatio, NEW step \in {-1, 1}, Clamp(ratio + step) # ratio
    PROVE  /\ Clamp(ratio + step) = ratio + step
           /\ ratio + step \in MinRatio .. MaxRatio
  BY Parameters DEF Clamp

(* The axis a split has is its own if no child does.                       *)
LEMMA OwnAxis ==
    ASSUME NEW t \in Nodes, t # Leaf, NEW i \in Nat, NEW axis \in Axes[t][i],
           ~(InFirst(t, i) /\ axis \in Axes[t.first][i]),
           ~(~InFirst(t, i) /\ axis \in Axes[t.second][InSecond(t, i)])
    PROVE  t.vertical = axis
  <1> DEFINE below == IF InFirst(t, i) THEN Axes[t.first][i] ELSE Axes[t.second][InSecond(t, i)]
  <1>1. Axes[t][i] = {t.vertical} \cup below
    BY AxesAre
  <1>2. axis \notin below
    BY ChildIndex
  <1> HIDE DEF below
  <1> QED BY <1>1, <1>2

(* One divider of old moved, on the axis and by the step.                  *)
MovedOne(old, new, axis, step) ==
    \E k \in 1 .. Len(old), e \in AllDividers :
        /\ old[k].vertical = axis
        /\ e = [vertical |-> axis, ratio |-> old[k].ratio + step]
        /\ new = Replaced(old, k, e)

LEMMA MovedInFirst ==
    ASSUME NEW old \in Seq(AllDividers), NEW new, NEW axis, NEW step, MovedOne(old, new, axis, step),
           NEW d \in AllDividers, NEW y \in Seq(AllDividers)
    PROVE  MovedOne(Join(old, d, y), Join(new, d, y), axis, step)
  <1> DEFINE j == Join(old, d, y)
  <1>1. PICK k \in 1 .. Len(old), e \in AllDividers :
            /\ old[k].vertical = axis
            /\ e = [vertical |-> axis, ratio |-> old[k].ratio + step]
            /\ new = Replaced(old, k, e)
    BY DEF MovedOne
  <1>2. IsJoin(j, AllDividers, old, d, y)
    BY JoinFacts
  <1>3. Replaced(j, k, e) = Join(Replaced(old, k, e), d, y)
    BY ReplaceInJoin
  <1> HIDE DEF j
  <1>4. j[k] = old[k] /\ k \in 1 .. Len(j)
    <2>1. Len(old) \in Nat /\ Len(y) \in Nat
      OBVIOUS
    <2> QED BY <1>2, <2>1 DEF IsJoin
  <1>5. MovedOne(j, Join(new, d, y), axis, step)
    BY <1>1, <1>3, <1>4 DEF MovedOne
  <1> QED BY <1>5 DEF j

LEMMA MovedInSecond ==
    ASSUME NEW old \in Seq(AllDividers), NEW new, NEW axis, NEW step, MovedOne(old, new, axis, step),
           NEW d \in AllDividers, NEW x \in Seq(AllDividers)
    PROVE  MovedOne(Join(x, d, old), Join(x, d, new), axis, step)
  <1> DEFINE j == Join(x, d, old)
  <1>1. PICK k \in 1 .. Len(old), e \in AllDividers :
            /\ old[k].vertical = axis
            /\ e = [vertical |-> axis, ratio |-> old[k].ratio + step]
            /\ new = Replaced(old, k, e)
    BY DEF MovedOne
  <1> DEFINE n == Len(x) + 1 + k
  <1>2. IsJoin(j, AllDividers, x, d, old)
    BY JoinFacts
  <1>3. Replaced(j, n, e) = Join(x, d, Replaced(old, k, e))
    BY ReplaceInJoin
  <1> HIDE DEF j
  <1>4. j[n] = old[k] /\ n \in 1 .. Len(j)
    <2>1. Len(old) \in Nat /\ Len(x) \in Nat
      OBVIOUS
    <2> QED BY <1>2, <2>1 DEF IsJoin
  <1> HIDE DEF n
  <1>5. MovedOne(j, Join(x, d, new), axis, step)
    BY <1>1, <1>3, <1>4 DEF MovedOne
  <1> QED BY <1>5 DEF j

LEMMA ResizeDividers ==
    \A t \in Nodes : \A axis \in BOOLEAN, step \in {-1, 1}, i \in Nat :
        Resize[t][axis][step][i] # t =>
            MovedOne(DividersOf[t], DividersOf[Resize[t][axis][step][i]], axis, step)
  <1> DEFINE P(t) == \A axis \in BOOLEAN, step \in {-1, 1}, i \in Nat :
                Resize[t][axis][step][i] # t =>
                    MovedOne(DividersOf[t], DividersOf[Resize[t][axis][step][i]], axis, step)
             T == {t \in Nodes : P(t)}
  <1>1. Leaf \in T
    <2>1. \A i \in Nat : Axes[Leaf][i] = {}
      BY AxesAre, NodeFacts
    <2> QED BY <2>1, NodeFacts, ResizeAre
  <1>2. ASSUME NEW t \in Nodes, t # Leaf, t.first \in T, t.second \in T PROVE t \in T
    <2> SUFFICES ASSUME NEW axis \in BOOLEAN, NEW step \in {-1, 1}, NEW i \in Nat,
                        Resize[t][axis][step][i] # t
                 PROVE  MovedOne(DividersOf[t], DividersOf[Resize[t][axis][step][i]], axis, step)
      BY <1>2
    <2> DEFINE x == DividersOf[t.first]
               y == DividersOf[t.second]
               d == Divider(t)
               u == Resize[t][axis][step][i]
    <2>1. /\ DividersOf[t] = Join(x, d, y)
          /\ x \in Seq(AllDividers) /\ y \in Seq(AllDividers) /\ d \in AllDividers
      BY <1>2, DividersOfSplit
    <2>2. P(t.first) /\ P(t.second)
      BY <1>2
    <2>3. /\ t.first \in Nodes /\ t.second \in Nodes /\ u \in Nodes
          /\ t = Split(t.vertical, t.ratio, t.first, t.second)
          /\ t.ratio \in MinRatio .. MaxRatio /\ t.vertical \in BOOLEAN
      BY <1>2, NodeFacts, ResizeNode
    <2>4. axis \in Axes[t][i]
      BY <1>2, ResizeAre
    <2>5. CASE InFirst(t, i) /\ axis \in Axes[t.first][i]
      <3> DEFINE v == Resize[t.first][axis][step][i]
      <3>1. u = Split(t.vertical, t.ratio, v, t.second)
        BY <1>2, <2>4, <2>5, ResizeAre
      <3>2. v # t.first
        BY <2>3, <3>1
      <3>3. MovedOne(x, DividersOf[v], axis, step)
        BY <2>2, <3>2
      <3>4. DividersOf[u] = Join(DividersOf[v], d, y)
        BY <2>3, <3>1, DividersOfNode DEF Divider
      <3> HIDE DEF T, P, x, y, d, u, v
      <3>5. MovedOne(Join(x, d, y), Join(DividersOf[v], d, y), axis, step)
        BY <2>1, <3>3, MovedInFirst
      <3> QED BY <2>1, <3>4, <3>5 DEF u
    <2>6. CASE ~InFirst(t, i) /\ axis \in Axes[t.second][InSecond(t, i)]
      <3> DEFINE m == InSecond(t, i)
                 v == Resize[t.second][axis][step][m]
      <3>1. u = Split(t.vertical, t.ratio, t.first, v)
        BY SMTT(30), <1>2, <2>4, <2>6, ResizeAre
      <3>2. v # t.second /\ m \in Nat
        BY <1>2, <2>3, <2>6, <3>1, ChildIndex
      <3>3. MovedOne(y, DividersOf[v], axis, step)
        <4> HIDE DEF m
        <4> QED BY <2>2, <3>2
      <3>4. DividersOf[u] = Join(x, d, DividersOf[v])
        BY <2>3, <3>1, DividersOfNode DEF Divider
      <3> HIDE DEF T, P, x, y, d, u, v
      <3>5. MovedOne(Join(x, d, y), Join(x, d, DividersOf[v]), axis, step)
        BY <2>1, <3>3, MovedInSecond
      <3> QED BY <2>1, <3>4, <3>5 DEF u
    <2>7. CASE /\ ~(InFirst(t, i) /\ axis \in Axes[t.first][i])
               /\ ~(~InFirst(t, i) /\ axis \in Axes[t.second][InSecond(t, i)])
      <3> DEFINE e == [vertical |-> axis, ratio |-> t.ratio + step]
                 k == Len(x) + 1
                 j == Join(x, d, y)
      <3>1. u = Split(t.vertical, Clamp(t.ratio + step), t.first, t.second)
        BY <1>2, <2>4, <2>7, ResizeOwn
      <3>2. t.vertical = axis
        BY <1>2, <2>4, <2>7, OwnAxis
      <3>3. Clamp(t.ratio + step) # t.ratio
        BY <2>3, <3>1
      <3>4. Clamp(t.ratio + step) = t.ratio + step /\ t.ratio + step \in MinRatio .. MaxRatio
        BY <2>3, <3>3, ClampStep
      <3>5. DividersOf[u] = Join(x, e, y)
        BY <2>3, <3>1, <3>2, <3>4, DividersOfNode
      <3>6. e \in AllDividers
        BY <3>4 DEF AllDividers
      <3>7. d.vertical = axis /\ d.ratio = t.ratio
        BY <3>2 DEF Divider
      <3> HIDE DEF T, P, x, y, d, u, e
      <3>8. Replaced(j, k, e) = Join(x, e, y)
        BY <2>1, <3>6, ReplaceInJoin
      <3>9. IsJoin(j, AllDividers, x, d, y)
        BY <2>1, JoinFacts
      <3>10. Len(x) \in Nat /\ Len(y) \in Nat
        BY <2>1
      <3> HIDE DEF j
      <3>11. j[k] = d /\ k \in 1 .. Len(j)
        BY <3>9, <3>10 DEF IsJoin
      <3>12. e = [vertical |-> axis, ratio |-> d.ratio + step]
        BY <3>7 DEF e
      <3> HIDE DEF k
      <3>13. MovedOne(j, Join(x, e, y), axis, step)
        BY <3>6, <3>7, <3>8, <3>11, <3>12 DEF MovedOne
      <3> QED BY <2>1, <3>5, <3>13 DEF u, j
    <2> QED BY <2>5, <2>6, <2>7
  <1>3. Nodes \subseteq T
    <2> HIDE DEF T
    <2> QED BY <1>1, <1>2, TreeInduction
  <1> QED BY <1>3
(* A window with no split on the axis above it has all of its box's length.*)
Shares(r, b, axis) ==
    /\ axis => r.x = b.x /\ r.w = b.w
    /\ ~axis => r.y = b.y /\ r.h = b.h

LEMMA FullLength ==
    \A t \in Nodes : \A gap \in Nat, b \in Rects, axis \in BOOLEAN, i \in Nat :
        i < Leaves[t] /\ axis \notin Axes[t][i] =>
            /\ axis => /\ RectOf(t, gap, b, i).x = b.x
                       /\ RectOf(t, gap, b, i).w = AtLeast1(b.w)
            /\ ~axis => /\ RectOf(t, gap, b, i).y = b.y
                        /\ RectOf(t, gap, b, i).h = AtLeast1(b.h)
  <1> DEFINE Good(r, b, axis) ==
                /\ axis => r.x = b.x /\ r.w = AtLeast1(b.w)
                /\ ~axis => r.y = b.y /\ r.h = AtLeast1(b.h)
             P(t) == \A gap \in Nat, b \in Rects, axis \in BOOLEAN, i \in Nat :
                i < Leaves[t] /\ axis \notin Axes[t][i] => Good(RectOf(t, gap, b, i), b, axis)
             T == {t \in Nodes : P(t)}
  <1>1. Leaf \in T
    <2> SUFFICES ASSUME NEW gap \in Nat, NEW b \in Rects, NEW axis \in BOOLEAN, NEW i \in Nat,
                        i < Leaves[Leaf]
                 PROVE  Good(RectOf(Leaf, gap, b, i), b, axis)
      BY NodeFacts
    <2>1. i = 0
      BY NodeFacts, LeavesAre
    <2> QED BY <2>1, RectOfLeaf DEF Rect
  <1>2. ASSUME NEW t \in Nodes, t # Leaf, t.first \in T, t.second \in T PROVE t \in T
    <2> SUFFICES ASSUME NEW gap \in Nat, NEW b \in Rects, NEW axis \in BOOLEAN, NEW i \in Nat,
                        i < Leaves[t], axis \notin Axes[t][i]
                 PROVE  Good(RectOf(t, gap, b, i), b, axis)
      BY <1>2
    <2> DEFINE f == FirstBox(t, b, gap)
               s == SecondBox(t, b, gap)
    <2>1. P(t.first) /\ P(t.second)
      BY <1>2
    <2>2. axis # t.vertical /\ t.vertical \in BOOLEAN
      <3>1. Axes[t][i] = {t.vertical} \cup
                IF InFirst(t, i) THEN Axes[t.first][i] ELSE Axes[t.second][InSecond(t, i)]
        BY <1>2, AxesAre
      <3> HIDE DEF T
      <3> QED BY <1>2, <3>1, NodeFacts
    <2>3. f \in Rects /\ s \in Rects
      BY <1>2, ChildBoxes
    <2>4. Shares(f, b, axis) /\ Shares(s, b, axis)
      <3> HIDE DEF T
      <3>1. CASE axis
        <4>1. ~t.vertical
          BY <2>2, <3>1
        <4>2. f = Rect(b.x, b.y, b.w, FirstPart(b.h, t.ratio, gap))
              /\ s = Rect(b.x, b.y + FirstPart(b.h, t.ratio, gap) + gap, b.w, SecondPart(b.h, t.ratio, gap))
          BY <1>2, <4>1, ChildBoxes
        <4> HIDE DEF f, s, P
        <4> QED BY <3>1, <4>2 DEF Rect, Shares
      <3>2. CASE ~axis
        <4>1. t.vertical
          BY <2>2, <3>2
        <4>2. f = Rect(b.x, b.y, FirstPart(b.w, t.ratio, gap), b.h)
              /\ s = Rect(b.x + FirstPart(b.w, t.ratio, gap) + gap, b.y, SecondPart(b.w, t.ratio, gap), b.h)
          BY <1>2, <4>1, ChildBoxes
        <4> HIDE DEF f, s, P
        <4> QED BY <3>2, <4>2 DEF Rect, Shares
      <3> QED BY <3>1, <3>2
    <2> HIDE DEF f, s
    <2>5. CASE InFirst(t, i)
      <3>1. i < Leaves[t.first] /\ axis \notin Axes[t.first][i]
        BY <1>2, <2>5, AxesAre, ChildIndex
      <3>2. Good(RectOf(t.first, gap, f, i), f, axis)
        BY <2>1, <2>3, <3>1
      <3>3. RectOf(t, gap, b, i) = RectOf(t.first, gap, f, i)
        BY <1>2, <2>5, RectOfSplit DEF f
      <3> QED BY <2>4, <3>2, <3>3 DEF Shares
    <2>6. CASE ~InFirst(t, i)
      <3> DEFINE m == InSecond(t, i)
      <3>1. m \in Nat /\ m < Leaves[t.second] /\ axis \notin Axes[t.second][m]
        <4>1. m \in Nat /\ m < Leaves[t.second]
          BY <1>2, <2>6, RectOfSplit
        <4>2. Axes[t][i] = {t.vertical} \cup
                  IF InFirst(t, i) THEN Axes[t.first][i] ELSE Axes[t.second][InSecond(t, i)]
          BY <1>2, AxesAre
        <4> HIDE DEF T, P
        <4>3. axis \notin Axes[t.second][InSecond(t, i)]
          BY <2>6, <4>2
        <4> QED BY <4>1, <4>3
      <3> HIDE DEF m
      <3>2. Good(RectOf(t.second, gap, s, m), s, axis)
        BY <2>1, <2>3, <3>1
      <3>3. RectOf(t, gap, b, i) = RectOf(t.second, gap, s, m)
        BY <1>2, <2>6, RectOfSplit DEF s, m
      <3> QED BY <2>4, <3>2, <3>3 DEF Shares
    <2> QED BY <2>5, <2>6
  <1>3. Nodes \subseteq T
    <2> HIDE DEF T
    <2> QED BY <1>1, <1>2, TreeInduction
  <1> QED BY <1>3

(* The boxes a split hands down depend on its axis and ratio alone.        *)
LEMMA SameBoxes ==
    ASSUME NEW t, NEW u, t.vertical = u.vertical, t.ratio = u.ratio, NEW b, NEW gap
    PROVE  FirstBox(t, b, gap) = FirstBox(u, b, gap) /\ SecondBox(t, b, gap) = SecondBox(u, b, gap)
  BY DEF FirstBox, SecondBox

(* A divider moved: where one side ends and the other starts is not where  *)
(* it was.                                                                 *)
LEMMA DividerMoves ==
    ASSUME NEW n \in Int, NEW gap \in Nat, RatioUnits <= n - gap,
           NEW ratio \in MinRatio .. MaxRatio, NEW step \in {-1, 1},
           ratio + step \in MinRatio .. MaxRatio
    PROVE  FirstPart(n, ratio, gap) # FirstPart(n, ratio + step, gap)
  <1>1. CASE step = 1
    <2>1. FirstPart(n, ratio, gap) < FirstPart(n, ratio + 1, gap)
      BY <1>1, StepMoves
    <2> QED BY <1>1, <2>1, PartsType
  <1>2. CASE step = -1
    <2> DEFINE r == ratio + step
    <2>1. r \in MinRatio .. MaxRatio /\ r + 1 = ratio
      BY <1>2, Parameters
    <2> HIDE DEF r
    <2>2. FirstPart(n, r, gap) < FirstPart(n, r + 1, gap)
      BY <2>1, StepMoves
    <2>3. FirstPart(n, r, gap) \in Int /\ FirstPart(n, ratio, gap) \in Int
      BY <2>1, PartsType
    <2> QED BY <2>1, <2>2, <2>3 DEF r
  <1> QED BY <1>1, <1>2

LEMMA ResizedRect ==
    \A t \in Nodes : \A axis \in BOOLEAN, step \in {-1, 1}, i \in Nat, gap \in Nat, b \in Rects :
        /\ i < Leaves[t]
        /\ RoomIn[t][RatioUnits][gap][b]
        /\ Resize[t][axis][step][i] # t
        => RectOf(t, gap, b, i) # RectOf(Resize[t][axis][step][i], gap, b, i)
  <1> DEFINE P(t) ==
        \A axis \in BOOLEAN, step \in {-1, 1}, i \in Nat, gap \in Nat, b \in Rects :
            /\ i < Leaves[t]
            /\ RoomIn[t][RatioUnits][gap][b]
            /\ Resize[t][axis][step][i] # t
            => RectOf(t, gap, b, i) # RectOf(Resize[t][axis][step][i], gap, b, i)
             T == {t \in Nodes : P(t)}
  <1>1. Leaf \in T
    <2>1. \A i \in Nat : Axes[Leaf][i] = {}
      BY AxesAre, NodeFacts
    <2> QED BY <2>1, NodeFacts, ResizeAre
  <1>2. ASSUME NEW t \in Nodes, t # Leaf, t.first \in T, t.second \in T PROVE t \in T
    <2> SUFFICES ASSUME NEW axis \in BOOLEAN, NEW step \in {-1, 1}, NEW i \in Nat,
                        NEW gap \in Nat, NEW b \in Rects,
                        i < Leaves[t], RoomIn[t][RatioUnits][gap][b],
                        Resize[t][axis][step][i] # t
                 PROVE  RectOf(t, gap, b, i) # RectOf(Resize[t][axis][step][i], gap, b, i)
      BY <1>2
    <2> DEFINE f == FirstBox(t, b, gap)
               s == SecondBox(t, b, gap)
               u == Resize[t][axis][step][i]
    <2>1. P(t.first) /\ P(t.second)
      BY <1>2
    <2>2. /\ RatioUnits <= Shared(t, b, gap) /\ RatioUnits \in Nat
          /\ RoomIn[t.first][RatioUnits][gap][f] /\ RoomIn[t.second][RatioUnits][gap][s]
      BY <1>2, RoomAre, Parameters
    <2>3. f \in Rects /\ s \in Rects
      BY <1>2, ChildBoxes
    <2>4. /\ t.first \in Nodes /\ t.second \in Nodes /\ u \in Nodes
          /\ t = Split(t.vertical, t.ratio, t.first, t.second)
          /\ t.ratio \in MinRatio .. MaxRatio /\ t.vertical \in BOOLEAN
          /\ Leaves[u] = Leaves[t]
      BY <1>2, NodeFacts, ResizeNode, ResizeLeaves
    <2>5. axis \in Axes[t][i]
      BY <1>2, ResizeAre
    <2>6. CASE InFirst(t, i) /\ axis \in Axes[t.first][i]
      <3> DEFINE v == Resize[t.first][axis][step][i]
      <3>1. u = Split(t.vertical, t.ratio, v, t.second)
        BY <1>2, <2>5, <2>6, ResizeAre
      <3>2. v # t.first /\ i < Leaves[t.first]
        BY <1>2, <2>4, <2>6, <3>1, ChildIndex
      <3>3. RectOf(t.first, gap, f, i) # RectOf(v, gap, f, i)
        BY <2>1, <2>2, <2>3, <3>2
      <3>4. u # Leaf /\ u.first = v /\ u.vertical = t.vertical /\ u.ratio = t.ratio
        BY <3>1, SplitFields
      <3>5. FirstBox(u, b, gap) = f
        BY <3>4, SameBoxes
      <3>6. Leaves[v] = Leaves[t.first]
        BY <2>4, ResizeLeaves
      <3>7. InFirst(u, i)
        BY <3>2, <3>4, <3>6 DEF InFirst
      <3> HIDE DEF f, u, v
      <3>8. RectOf(u, gap, b, i) = RectOf(v, gap, f, i)
        BY <2>4, <3>4, <3>5, <3>7, RectOfSplit
      <3>9. RectOf(t, gap, b, i) = RectOf(t.first, gap, f, i)
        BY <1>2, <2>6, RectOfSplit DEF f
      <3> QED BY <3>3, <3>8, <3>9 DEF u
    <2>7. CASE ~InFirst(t, i) /\ axis \in Axes[t.second][InSecond(t, i)]
      <3> DEFINE m == InSecond(t, i)
                 v == Resize[t.second][axis][step][m]
      <3>1. u = Split(t.vertical, t.ratio, t.first, v)
        BY <1>2, <2>5, <2>7, ResizeAre
      <3>2. v # t.second /\ m \in Nat /\ m < Leaves[t.second]
        BY <1>2, <2>4, <2>7, <3>1, RectOfSplit
      <3>3. RectOf(t.second, gap, s, m) # RectOf(v, gap, s, m)
        <4> HIDE DEF m, s
        <4> QED BY <2>1, <2>2, <2>3, <3>2
      <3>4. u # Leaf /\ u.first = t.first /\ u.second = v /\ u.vertical = t.vertical /\ u.ratio = t.ratio
        BY <3>1, SplitFields
      <3>5. SecondBox(u, b, gap) = s
        BY <3>4, SameBoxes
      <3>6. InSecond(u, i) = m /\ ~InFirst(u, i)
        BY <2>7, <3>4 DEF InFirst, InSecond
      <3> HIDE DEF s, u, v, m
      <3>7. RectOf(u, gap, b, i) = RectOf(v, gap, s, m)
        BY <2>4, <3>4, <3>5, <3>6, RectOfSplit
      <3>8. RectOf(t, gap, b, i) = RectOf(t.second, gap, s, m)
        BY <1>2, <2>7, RectOfSplit DEF s, m
      <3> QED BY <3>3, <3>7, <3>8 DEF u
    <2>8. CASE /\ ~(InFirst(t, i) /\ axis \in Axes[t.first][i])
               /\ ~(~InFirst(t, i) /\ axis \in Axes[t.second][InSecond(t, i)])
      <3> DEFINE n == IF t.vertical THEN b.w ELSE b.h
                 p == FirstPart(n, t.ratio, gap)
                 q == FirstPart(n, t.ratio + step, gap)
                 F == FirstBox(u, b, gap)
                 S == SecondBox(u, b, gap)
                 m == InSecond(t, i)
      <3>1. u = Split(t.vertical, Clamp(t.ratio + step), t.first, t.second)
        BY SMTT(30), <1>2, <2>5, <2>8, ResizeOwn
      <3>2. t.vertical = axis
        BY <1>2, <2>5, <2>8, OwnAxis
      <3>3. Clamp(t.ratio + step) # t.ratio
        BY <2>4, <3>1
      <3>4. Clamp(t.ratio + step) = t.ratio + step /\ t.ratio + step \in MinRatio .. MaxRatio
        BY <2>4, <3>3, ClampStep
      <3>5. /\ u # Leaf /\ u.first = t.first /\ u.second = t.second
            /\ u.vertical = axis /\ u.ratio = t.ratio + step
        BY <3>1, <3>2, <3>4, SplitFields
      <3>6. b.x \in Int /\ b.y \in Int /\ b.w \in Int /\ b.h \in Int /\ n \in Int
        BY DEF Rects
      <3>7. /\ p # q /\ p \in Int /\ q \in Int /\ p >= 1 /\ q >= 1
        <4>1. RatioUnits <= n - gap
          BY <2>2 DEF Shared
        <4> HIDE DEF n
        <4> QED BY <2>4, <3>4, <3>6, <4>1, DividerMoves, PartsType
      <3>8. /\ axis => f.w = p /\ F.w = q /\ s.x = b.x + p + gap /\ S.x = b.x + q + gap
            /\ ~axis => f.h = p /\ F.h = q /\ s.y = b.y + p + gap /\ S.y = b.y + q + gap
        <4>1. /\ axis => /\ f = Rect(b.x, b.y, FirstPart(b.w, t.ratio, gap), b.h)
                         /\ s = Rect(b.x + FirstPart(b.w, t.ratio, gap) + gap, b.y,
                                     SecondPart(b.w, t.ratio, gap), b.h)
                         /\ n = b.w
              /\ ~axis => /\ f = Rect(b.x, b.y, b.w, FirstPart(b.h, t.ratio, gap))
                          /\ s = Rect(b.x, b.y + FirstPart(b.h, t.ratio, gap) + gap, b.w,
                                      SecondPart(b.h, t.ratio, gap))
                          /\ n = b.h
          BY <3>2 DEF FirstBox, SecondBox
        <4>2. /\ axis => /\ F = Rect(b.x, b.y, FirstPart(b.w, t.ratio + step, gap), b.h)
                         /\ S = Rect(b.x + FirstPart(b.w, t.ratio + step, gap) + gap, b.y,
                                     SecondPart(b.w, t.ratio + step, gap), b.h)
              /\ ~axis => /\ F = Rect(b.x, b.y, b.w, FirstPart(b.h, t.ratio + step, gap))
                          /\ S = Rect(b.x, b.y + FirstPart(b.h, t.ratio + step, gap) + gap, b.w,
                                      SecondPart(b.h, t.ratio + step, gap))
          BY <3>5 DEF FirstBox, SecondBox
        <4> HIDE DEF f, s, F, S, n, u
        <4> QED BY <4>1, <4>2 DEF Rect
      <3>9. F \in Rects /\ S \in Rects
        BY <2>4, <3>5, ChildBoxes
      <3> HIDE DEF T, P, f, s, F, S, n, p, q
      <3>10. CASE InFirst(t, i)
        <4>1. i < Leaves[t.first] /\ axis \notin Axes[t.first][i] /\ InFirst(u, i)
          BY <1>2, <2>8, <3>5, <3>10, ChildIndex DEF InFirst
        <4>2. /\ RectOf(t, gap, b, i) = RectOf(t.first, gap, f, i)
              /\ RectOf(u, gap, b, i) = RectOf(t.first, gap, F, i)
          <5> HIDE DEF u
          <5> QED BY <1>2, <2>4, <3>5, <3>10, <4>1, RectOfSplit DEF f, F
        <4>3. /\ axis => /\ RectOf(t.first, gap, f, i).w = AtLeast1(f.w)
                         /\ RectOf(t.first, gap, F, i).w = AtLeast1(F.w)
              /\ ~axis => /\ RectOf(t.first, gap, f, i).h = AtLeast1(f.h)
                          /\ RectOf(t.first, gap, F, i).h = AtLeast1(F.h)
          BY <2>3, <2>4, <3>9, <4>1, FullLength
        <4>4. AtLeast1(p) = p /\ AtLeast1(q) = q
          BY <3>7 DEF AtLeast1
        <4> QED BY <3>7, <3>8, <4>2, <4>3, <4>4
      <3>11. CASE ~InFirst(t, i)
        <4>1. m \in Nat /\ m < Leaves[t.second] /\ axis \notin Axes[t.second][m]
          BY <1>2, <2>8, <3>11, RectOfSplit
        <4>2. ~InFirst(u, i) /\ InSecond(u, i) = m
          BY <3>5, <3>11 DEF InFirst, InSecond
        <4> HIDE DEF m
        <4>3. /\ RectOf(t, gap, b, i) = RectOf(t.second, gap, s, m)
              /\ RectOf(u, gap, b, i) = RectOf(t.second, gap, S, m)
          <5>1. RectOf(t, gap, b, i) = RectOf(t.second, gap, s, m)
            BY <1>2, <3>11, RectOfSplit DEF s, m
          <5>2. RectOf(u, gap, b, i) = RectOf(t.second, gap, S, m)
            <6> HIDE DEF u
            <6> QED BY <2>4, <3>5, <4>2, RectOfSplit DEF S
          <5> QED BY <5>1, <5>2
        <4>4. /\ axis => /\ RectOf(t.second, gap, s, m).x = s.x
                         /\ RectOf(t.second, gap, S, m).x = S.x
              /\ ~axis => /\ RectOf(t.second, gap, s, m).y = s.y
                          /\ RectOf(t.second, gap, S, m).y = S.y
          BY <2>3, <2>4, <3>9, <4>1, FullLength
        <4>5. b.x + p + gap # b.x + q + gap /\ b.y + p + gap # b.y + q + gap
          BY <3>6, <3>7
        <4> QED BY <3>8, <4>3, <4>4, <4>5
      <3> QED BY <3>10, <3>11
    <2> QED BY <2>6, <2>7, <2>8
  <1>3. Nodes \subseteq T
    <2> HIDE DEF T
    <2> QED BY <1>1, <1>2, TreeInduction
  <1> QED BY <1>3

(* A resize moves one divider at most, on its own axis and by one step,    *)
(* and the window it was asked for is one that changes size, where a step  *)
(* is no less than a pixel (src/layout.rs, tree_resize).                   *)
THEOREM ResizesMoveOneDivider == Spec => []ResizeMovesOneDivider
  <1>1. TreeOK => ResizeMovesOneDivider
    <2> SUFFICES ASSUME TreeOK, NEW i \in Positions, NEW dir \in Directions,
                        tree_resize(tree, i, dir) # tree
                 PROVE  LET resized == tree_resize(tree, i, dir)
                            old == Dividers(tree)
                            delta == IF dir \in {"right", "down"} THEN 1 ELSE -1
                        IN  /\ \E k \in DOMAIN old :
                                /\ old[k].vertical = (dir \in {"left", "right"})
                                /\ Dividers(resized) = [old EXCEPT ![k].ratio = @ + delta]
                            /\ \A box \in Boxes, gap \in Gaps :
                                HasRoom(box, gap, RatioUnits) =>
                                    tree_rects(tree, box, gap)[i + 1] # tree_rects(resized, box, gap)[i + 1]
      BY DEF ResizeMovesOneDivider
    <2> DEFINE axis == dir \in {"left", "right"}
               step == IF dir \in {"right", "down"} THEN 1 ELSE -1
               u == tree_resize(tree, i, dir)
               old == Dividers(tree)
    <2>1. /\ tree # None /\ tree \in Nodes /\ i \in Nat /\ i < Leaves[tree]
          /\ axis \in BOOLEAN /\ step \in {-1, 1}
      BY TreeCount, LeavesType DEF TreeOK, Positions
    <2>2. /\ u = Resize[tree][axis][step][i] /\ u \in Nodes /\ Leaves[u] = Leaves[tree] /\ u # tree
          /\ old = DividersOf[tree] /\ Dividers(u) = DividersOf[u]
      <3>1. u = Resize[tree][axis][step][i]
        BY DEF tree_resize, IsVertical, Step
      <3> HIDE DEF u, axis, step
      <3>2. u \in Nodes /\ Leaves[u] = Leaves[tree] /\ u # None
        BY <2>1, <3>1, ResizeNode, ResizeLeaves, NodeFacts
      <3> QED BY <2>1, <3>1, <3>2 DEF Dividers, u
    <2>3. \E k \in DOMAIN old :
                /\ old[k].vertical = axis
                /\ Dividers(u) = [old EXCEPT ![k].ratio = @ + step]
      <3> HIDE DEF old, u, axis, step
      <3>1. MovedOne(old, Dividers(u), axis, step)
        BY <2>1, <2>2, ResizeDividers
      <3>2. old \in Seq(AllDividers)
        BY <2>1, <2>2, DividersType
      <3>3. PICK k \in 1 .. Len(old), e \in AllDividers :
                /\ old[k].vertical = axis
                /\ e = [vertical |-> axis, ratio |-> old[k].ratio + step]
                /\ Dividers(u) = Replaced(old, k, e)
        BY <3>1 DEF MovedOne
      <3>4. old[k] \in AllDividers /\ DOMAIN old = 1 .. Len(old)
        BY <3>2
      <3>5. [old[k] EXCEPT !.ratio = @ + step] = e
        BY <3>3, <3>4 DEF AllDividers
      <3>6. [old EXCEPT ![k].ratio = @ + step] = [old EXCEPT ![k] = [old[k] EXCEPT !.ratio = @ + step]]
        OBVIOUS
      <3> QED BY <3>3, <3>4, <3>5, <3>6 DEF Replaced
    <2>4. ASSUME NEW box \in Boxes, NEW gap \in Gaps, HasRoom(box, gap, RatioUnits)
          PROVE  tree_rects(tree, box, gap)[i + 1] # tree_rects(u, box, gap)[i + 1]
      <3> DEFINE b == Padded(box, gap)
      <3>1. box \in Rects /\ gap \in Nat /\ b \in Rects
        BY SplitTreeAssumption, PaddedType
      <3>2. RoomIn[tree][RatioUnits][gap][b]
        BY <2>1, <2>4 DEF HasRoom
      <3> HIDE DEF b, u, axis, step
      <3>3. RectOf(tree, gap, b, i) # RectOf(u, gap, b, i)
        BY <2>1, <2>2, <3>1, <3>2, ResizedRect
      <3>4. tree_rects(tree, box, gap)[i + 1] = RectOf(tree, gap, b, i)
        BY <2>1, <3>1, TreeRects DEF RectOf, b
      <3>5. tree_rects(u, box, gap)[i + 1] = RectOf(u, gap, b, i)
        BY <2>2, <3>1, TreeRects DEF RectOf, b
      <3> QED BY <3>3, <3>4, <3>5
    <2> QED BY <2>2, <2>3, <2>4, Zenon
  <1> QED BY <1>1, TreeInvariance, PTL
-----------------------------------------------------------------------------
(* The spiral.                                                             *)

LEMMA DwindleAre ==
    \A v \in BOOLEAN :
        /\ DwindleFrom[1][v] = Leaf
        /\ \A n \in 1 .. MaxLeaves - 1 :
            DwindleFrom[n + 1][v] = Split(v, DefaultRatio, Leaf, DwindleFrom[n][~v])
  <1> DEFINE V == [BOOLEAN -> AllNodes]
             At(n, a) == [v \in BOOLEAN |->
                IF n <= 1 THEN Leaf ELSE Split(v, DefaultRatio, Leaf, a[~v])]
             Body(f) == [n \in 0 .. MaxLeaves |-> At(n, f[n - 1])]
             base == [v \in BOOLEAN |-> Leaf]
             step == [n \in 1 .. MaxLeaves |-> [a \in V |-> At(n, a)]]
  <1>1. base \in V
    BY AllNodesClosed
  <1>2. ASSUME NEW n \in Nat, NEW a \in V PROVE At(n, a) \in V
    <2>1. DefaultRatio \in MinRatio .. MaxRatio
      BY Parameters
    <2>2. ASSUME NEW v \in BOOLEAN PROVE Split(v, DefaultRatio, Leaf, a[~v]) \in AllNodes
      BY <2>1, AllNodesClosed, SplitIn
    <2> QED BY <2>2, AllNodesClosed
  <1>3. step \in UpwardRules(MaxLeaves, V)
    <2> HIDE DEF At, V
    <2> QED BY <1>2 DEF UpwardRules
  <1>4. PICK f : Climbs(f, MaxLeaves, V, base, step)
    <2> HIDE DEF base, step, V
    <2> QED BY <1>1, <1>3, Parameters, UpwardRecursion
  <1>5. f = Body(f)
    <2>1. ASSUME NEW n \in 0 .. MaxLeaves PROVE f[n] = At(n, f[n - 1])
      <3>1. CASE n = 0
        <4>1. f[n] = base
          BY <1>4, <3>1 DEF Climbs
        <4> QED BY <3>1, <4>1
      <3>2. CASE n # 0
        <4>1. n \in 1 .. MaxLeaves /\ n - 1 \in 0 .. MaxLeaves
          BY <3>2, Parameters
        <4> HIDE DEF At, V, base
        <4>2. f[n] = step[n][f[n - 1]] /\ f[n - 1] \in V
          BY <1>4, <4>1 DEF Climbs
        <4> QED BY <4>1, <4>2
      <3> QED BY <3>1, <3>2
    <2>2. f \in [0 .. MaxLeaves -> V]
      BY <1>4 DEF Climbs
    <2> HIDE DEF At, V
    <2> QED BY <2>1, <2>2
  <1>6. DwindleFrom = CHOOSE g : g = Body(g)
    BY DEF DwindleFrom
  <1>7. DwindleFrom = Body(DwindleFrom)
    <2> HIDE DEF Body
    <2> QED BY <1>5, <1>6
  <1>8. ASSUME NEW n \in 0 .. MaxLeaves PROVE DwindleFrom[n] = At(n, DwindleFrom[n - 1])
    <2> HIDE DEF At
    <2> QED BY <1>7, Zenon
  <1>9. ASSUME NEW v \in BOOLEAN PROVE DwindleFrom[1][v] = Leaf
    <2>1. DwindleFrom[1] = At(1, DwindleFrom[1 - 1])
      <3> HIDE DEF At
      <3> QED BY <1>8, Parameters
    <2> QED BY <2>1
  <1>10. ASSUME NEW v \in BOOLEAN, NEW n \in 1 .. MaxLeaves - 1
         PROVE  DwindleFrom[n + 1][v] = Split(v, DefaultRatio, Leaf, DwindleFrom[n][~v])
    <2>1. n + 1 \in 0 .. MaxLeaves /\ (n + 1) - 1 = n /\ ~(n + 1 <= 1)
      BY Parameters
    <2>2. DwindleFrom[n + 1] = At(n + 1, DwindleFrom[n])
      <3> HIDE DEF At
      <3> QED BY <1>8, <2>1
    <2> QED BY <2>1, <2>2
  <1> QED BY <1>9, <1>10

(* Where a window of the spiral goes, and what it leaves to the next ones. *)
Near(v, b, gap) ==
    IF v THEN Rect(b.x, b.y, HalfOf(b.w, gap), b.h) ELSE Rect(b.x, b.y, b.w, HalfOf(b.h, gap))
Rest(v, b, gap) ==
    IF v THEN Rect(b.x + HalfOf(b.w, gap) + gap, b.y, AtLeast1(b.w - HalfOf(b.w, gap) - gap), b.h)
         ELSE Rect(b.x, b.y + HalfOf(b.h, gap) + gap, b.w, AtLeast1(b.h - HalfOf(b.h, gap) - gap))

LEMMA SpiralBoxes ==
    ASSUME NEW v \in BOOLEAN, NEW b \in Rects, NEW gap \in Nat
    PROVE  /\ Near(v, b, gap) \in Rects /\ Rest(v, b, gap) \in Rects
           /\ Sized(b) => Sized(Near(v, b, gap)) /\ Sized(Rest(v, b, gap))
  <1>1. b.x \in Int /\ b.y \in Int /\ b.w \in Int /\ b.h \in Int
    BY DEF Rects
  <1> DEFINE p == HalfOf(b.w, gap)
             q == HalfOf(b.h, gap)
  <1>2. p \in Int /\ p >= 1 /\ q \in Int /\ q >= 1
    BY <1>1 DEF HalfOf, AtLeast1
  <1> HIDE DEF p, q
  <1>3. /\ AtLeast1(b.w - p - gap) \in Int /\ AtLeast1(b.w - p - gap) >= 1
        /\ AtLeast1(b.h - q - gap) \in Int /\ AtLeast1(b.h - q - gap) >= 1
    BY <1>1, <1>2 DEF AtLeast1
  <1>4. CASE v
    BY <1>1, <1>2, <1>3, <1>4 DEF Near, Rest, Rect, Rects, Sized, p
  <1>5. CASE ~v
    BY <1>1, <1>2, <1>3, <1>5 DEF Near, Rest, Rect, Rects, Sized, q
  <1> QED BY <1>4, <1>5

SpiralStep(n, a, v, gap, b) ==
    IF n = 0 THEN <<>> ELSE IF n = 1 THEN <<b>>
    ELSE <<Near(v, b, gap)>> \o a[~v][gap][Rest(v, b, gap)]

LEMMA SpiralAre ==
    \A v \in BOOLEAN, gap \in Nat, b \in Rects :
        /\ SpiralFrom[0][v][gap][b] = <<>>
        /\ SpiralFrom[1][v][gap][b] = <<b>>
        /\ \A n \in 1 .. MaxLeaves :
            SpiralFrom[n + 1][v][gap][b] = <<Near(v, b, gap)>> \o SpiralFrom[n][~v][gap][Rest(v, b, gap)]
  <1> DEFINE V == [BOOLEAN -> [Nat -> [Rects -> Seq(Rects)]]]
             At(n, a) == [v \in BOOLEAN |-> [gap \in Nat |-> [b \in Rects |->
                IF n = 0 THEN <<>>
                ELSE IF n = 1 THEN <<b>>
                ELSE IF v
                THEN LET half == HalfOf(b.w, gap)
                     IN  <<Rect(b.x, b.y, half, b.h)>> \o a[FALSE][gap]
                            [Rect(b.x + half + gap, b.y, AtLeast1(b.w - half - gap), b.h)]
                ELSE LET half == HalfOf(b.h, gap)
                     IN  <<Rect(b.x, b.y, b.w, half)>> \o a[TRUE][gap]
                            [Rect(b.x, b.y + half + gap, b.w, AtLeast1(b.h - half - gap))]]]]
             Body(f) == [n \in 0 .. MaxLeaves + 1 |-> At(n, f[n - 1])]
             base == [v \in BOOLEAN |-> [gap \in Nat |-> [b \in Rects |-> <<>>]]]
             step == [n \in 1 .. MaxLeaves + 1 |-> [a \in V |-> At(n, a)]]
  <1>1. base \in V
    OBVIOUS
  <1>2. ASSUME NEW n \in Nat, NEW a, NEW v \in BOOLEAN, NEW gap \in Nat, NEW b \in Rects
        PROVE  At(n, a)[v][gap][b] = SpiralStep(n, a, v, gap, b)
    <2>1. CASE v = TRUE
      BY <2>1 DEF Near, Rest, SpiralStep
    <2>2. CASE v = FALSE
      BY <2>2 DEF Near, Rest, SpiralStep
    <2> QED BY <2>1, <2>2
  <1>3. ASSUME NEW n \in Nat, NEW a \in V PROVE At(n, a) \in V
    <2>1. ASSUME NEW v \in BOOLEAN, NEW gap \in Nat, NEW b \in Rects
          PROVE  At(n, a)[v][gap][b] \in Seq(Rects)
      <3>1. Near(v, b, gap) \in Rects /\ Rest(v, b, gap) \in Rects
        BY SpiralBoxes
      <3>2. a[~v][gap][Rest(v, b, gap)] \in Seq(Rects)
        BY ZenonT(60), <3>1
      <3> DEFINE x == <<Near(v, b, gap)>>
                 y == a[~v][gap][Rest(v, b, gap)]
      <3>3. x \in Seq(Rects) /\ <<b>> \in Seq(Rects) /\ <<>> \in Seq(Rects)
        BY <3>1
      <3> HIDE DEF x, y
      <3>4. x \o y \in Seq(Rects)
        BY <3>2, <3>3, ConcatProperties DEF y
      <3>5. SpiralStep(n, a, v, gap, b) = IF n = 0 THEN <<>> ELSE IF n = 1 THEN <<b>> ELSE x \o y
        BY DEF SpiralStep, x, y
      <3> HIDE DEF At, V
      <3>6. SpiralStep(n, a, v, gap, b) \in Seq(Rects)
        <4>1. CASE n = 0
          BY <3>3, <3>5, <4>1
        <4>2. CASE n = 1
          BY <3>3, <3>5, <4>2
        <4>3. CASE n # 0 /\ n # 1
          BY <3>4, <3>5, <4>3
        <4> QED BY <4>1, <4>2, <4>3
      <3>7. At(n, a)[v][gap][b] = SpiralStep(n, a, v, gap, b)
        BY <1>2
      <3> QED BY <3>6, <3>7
    <2> QED BY ZenonT(60), <2>1
  <1>4. step \in UpwardRules(MaxLeaves + 1, V)
    <2> HIDE DEF At, V
    <2> QED BY <1>3 DEF UpwardRules
  <1>5. PICK f : Climbs(f, MaxLeaves + 1, V, base, step)
    <2>1. MaxLeaves + 1 \in Nat
      BY Parameters
    <2> HIDE DEF base, step, V
    <2> QED BY <1>1, <1>4, <2>1, UpwardRecursion
  <1>6. f = Body(f)
    <2>1. ASSUME NEW n \in 0 .. MaxLeaves + 1 PROVE f[n] = At(n, f[n - 1])
      <3>1. CASE n = 0
        <4>1. f[n] = base
          BY <1>5, <3>1 DEF Climbs
        <4> QED BY <3>1, <4>1
      <3>2. CASE n # 0
        <4>1. n \in 1 .. MaxLeaves + 1 /\ n - 1 \in 0 .. MaxLeaves + 1
          BY <3>2, Parameters
        <4> HIDE DEF At, V, base
        <4>2. f[n] = step[n][f[n - 1]] /\ f[n - 1] \in V
          BY <1>5, <4>1 DEF Climbs
        <4> QED BY <4>1, <4>2
      <3> QED BY <3>1, <3>2
    <2>2. f \in [0 .. MaxLeaves + 1 -> V]
      BY <1>5 DEF Climbs
    <2> HIDE DEF At, V
    <2> QED BY <2>1, <2>2
  <1>7. SpiralFrom = CHOOSE g : g = Body(g)
    BY DEF SpiralFrom
  <1>8. SpiralFrom = Body(SpiralFrom)
    <2> HIDE DEF Body
    <2> QED BY <1>6, <1>7
  <1>9. ASSUME NEW n \in 0 .. MaxLeaves + 1 PROVE SpiralFrom[n] = At(n, SpiralFrom[n - 1])
    <2> HIDE DEF At
    <2> QED BY <1>8, Zenon
  <1>10. ASSUME NEW n \in 0 .. MaxLeaves + 1, NEW v \in BOOLEAN, NEW gap \in Nat, NEW b \in Rects
         PROVE  SpiralFrom[n][v][gap][b] = SpiralStep(n, SpiralFrom[n - 1], v, gap, b)
    <2> HIDE DEF At
    <2> QED BY <1>2, <1>9, Parameters
  <1> HIDE DEF At, Body, V, base, step
  <1>11. ASSUME NEW v \in BOOLEAN, NEW gap \in Nat, NEW b \in Rects, NEW n \in 1 .. MaxLeaves
         PROVE  SpiralFrom[n + 1][v][gap][b] = <<Near(v, b, gap)>> \o SpiralFrom[n][~v][gap][Rest(v, b, gap)]
    <2>1. n + 1 \in 0 .. MaxLeaves + 1 /\ (n + 1) - 1 = n /\ n + 1 # 0 /\ n + 1 # 1
      BY Parameters
    <2>2. SpiralFrom[n + 1][v][gap][b] = SpiralStep(n + 1, SpiralFrom[n], v, gap, b)
      BY <1>10, <2>1
    <2> QED BY <2>1, <2>2 DEF SpiralStep
  <1>12. 0 \in 0 .. MaxLeaves + 1 /\ 1 \in 0 .. MaxLeaves + 1
    BY Parameters
  <1>13. ASSUME NEW v \in BOOLEAN, NEW gap \in Nat, NEW b \in Rects
         PROVE  SpiralFrom[0][v][gap][b] = <<>> /\ SpiralFrom[1][v][gap][b] = <<b>>
    <2>1. /\ SpiralFrom[0][v][gap][b] = SpiralStep(0, SpiralFrom[0 - 1], v, gap, b)
          /\ SpiralFrom[1][v][gap][b] = SpiralStep(1, SpiralFrom[1 - 1], v, gap, b)
      BY <1>10, <1>12
    <2> QED BY <2>1 DEF SpiralStep
  <1> QED BY <1>11, <1>13
(* Half of what is left is the default ratio's part of it.                 *)
LEMMA HalfIsDefault ==
    ASSUME NEW n \in Int, NEW gap \in Nat
    PROVE  FirstPart(n, DefaultRatio, gap) = HalfOf(n, gap)
  <1> DEFINE m == n - gap
             d == DefaultRatio
             q == m \div 2
             p == (m * d) \div (2 * d)
  <1>1. m \in Int /\ d \in Nat /\ d >= 1 /\ RatioUnits = 2 * d
    BY Parameters
  <1> HIDE DEF m, d
  <1>2. q \in Int /\ 2 * q <= m /\ m <= 2 * q + 1
    BY <1>1
  <1>3. m * d \in Int /\ 2 * d \in Nat /\ 2 * d >= 1
    BY <1>1
  <1>4. p \in Int /\ (2 * d) * p <= m * d /\ m * d < (2 * d) * p + 2 * d
    BY <1>3, DivIs
  <1> HIDE DEF p, q
  <1>5. (2 * d) * p = d * (2 * p) /\ m * d = d * m /\ (2 * d) * p + 2 * d = d * (2 * p + 2)
    BY <1>1, <1>4
  <1>6. 2 * p <= m
    <2>1. SUFFICES ASSUME m + 1 <= 2 * p PROVE FALSE
      BY <1>1, <1>4
    <2>2. d * (m + 1) <= d * (2 * p)
      <3> DEFINE k == 2 * p
                 j == m + 1
      <3>1. k \in Int /\ j \in Int /\ j <= k
        BY <1>1, <1>4, <2>1
      <3> HIDE DEF k, j
      <3>2. d * j <= d * k
        BY <1>1, <3>1, TimesMonotone
      <3> QED BY <3>2 DEF k, j
    <2>3. d * (m + 1) = d * m + d
      BY <1>1
    <2>4. d * m \in Int /\ d * (2 * p) \in Int
      BY <1>1, <1>4
    <2> QED BY <1>1, <1>4, <1>5, <2>2, <2>3, <2>4
  <1>7. m < 2 * p + 2
    <2>1. SUFFICES ASSUME 2 * p + 2 <= m PROVE FALSE
      BY <1>1, <1>4
    <2>2. d * (2 * p + 2) <= d * m
      <3> DEFINE k == 2 * p + 2
      <3>1. k \in Int /\ k <= m
        BY <1>1, <1>4, <2>1
      <3> HIDE DEF k
      <3>2. d * k <= d * m
        BY <1>1, <3>1, TimesMonotone
      <3> QED BY <3>2 DEF k
    <2>4. d * m \in Int /\ d * (2 * p + 2) \in Int
      BY <1>1, <1>4
    <2> QED BY <1>1, <1>4, <1>5, <2>2, <2>4
  <1>8. p = q
    BY <1>1, <1>2, <1>4, <1>6, <1>7
  <1>9. ((n - gap) * DefaultRatio) \div RatioUnits = p
    BY <1>1 DEF p, m, d
  <1>10. (n - gap) \div 2 = q
    BY DEF q, m
  <1> QED BY <1>8, <1>9, <1>10 DEF FirstPart, HalfOf

LEMMA SpiralHalves ==
    ASSUME NEW t, NEW v \in BOOLEAN, t.vertical = v, t.ratio = DefaultRatio,
           NEW b \in Rects, NEW gap \in Nat
    PROVE  FirstBox(t, b, gap) = Near(v, b, gap) /\ SecondBox(t, b, gap) = Rest(v, b, gap)
  <1>1. b.w \in Int /\ b.h \in Int
    BY DEF Rects
  <1>2. ASSUME NEW n \in Int
        PROVE  /\ FirstPart(n, DefaultRatio, gap) = HalfOf(n, gap)
               /\ SecondPart(n, DefaultRatio, gap) = AtLeast1(n - HalfOf(n, gap) - gap)
    <2> DEFINE p == HalfOf(n, gap)
    <2>1. FirstPart(n, DefaultRatio, gap) = p
      BY HalfIsDefault
    <2>2. p \in Int
      BY DEF HalfOf, AtLeast1
    <2> HIDE DEF p
    <2>3. n - gap - p = n - p - gap
      BY <2>2
    <2>4. SecondPart(n, DefaultRatio, gap) = AtLeast1(n - p - gap)
      BY <2>1, <2>3 DEF SecondPart
    <2> QED BY <2>1, <2>4 DEF p
  <1>3. CASE v
    BY <1>1, <1>2, <1>3 DEF FirstBox, SecondBox, Near, Rest
  <1>4. CASE ~v
    BY <1>1, <1>2, <1>4 DEF FirstBox, SecondBox, Near, Rest
  <1> QED BY <1>3, <1>4

(* t renders as the spiral of n windows, the first of its splits on v.     *)
Spirals(t, n, v) ==
    /\ t \in Nodes
    /\ \A gap \in Nat, b \in Rects : Sized(b) => RectsIn[t][gap][b] = SpiralFrom[n][v][gap][b]

LEMMA LeafSpirals ==
    ASSUME NEW v \in BOOLEAN
    PROVE  Spirals(Leaf, 1, v)
  <1>1. ASSUME NEW gap \in Nat, NEW b \in Rects, Sized(b)
        PROVE  RectsIn[Leaf][gap][b] = SpiralFrom[1][v][gap][b]
    <2>1. Rect(b.x, b.y, AtLeast1(b.w), AtLeast1(b.h)) = b
      BY <1>1 DEF Rect, Rects, Sized, AtLeast1
    <2>2. RectsIn[Leaf][gap][b] = <<b>>
      BY <2>1, NodeFacts, RectsAre
    <2> QED BY <2>2, SpiralAre
  <1> QED BY <1>1, NodeFacts DEF Spirals

LEMMA SplitSpirals ==
    ASSUME NEW v \in BOOLEAN, NEW n \in 1 .. MaxLeaves, NEW s, Spirals(s, n, ~v),
           Split(v, DefaultRatio, Leaf, s) \in Nodes
    PROVE  Spirals(Split(v, DefaultRatio, Leaf, s), n + 1, v)
  <1> DEFINE t == Split(v, DefaultRatio, Leaf, s)
  <1>1. /\ t # Leaf /\ t.vertical = v /\ t.ratio = DefaultRatio
        /\ t.first = Leaf /\ t.second = s /\ t \in Nodes
    BY SplitFields
  <1> HIDE DEF t
  <1>2. ASSUME NEW gap \in Nat, NEW b \in Rects, Sized(b)
        PROVE  RectsIn[t][gap][b] = SpiralFrom[n + 1][v][gap][b]
    <2> DEFINE x == Near(v, b, gap)
               y == Rest(v, b, gap)
    <2>1. x \in Rects /\ y \in Rects /\ Sized(x) /\ Sized(y)
      BY <1>2, SpiralBoxes
    <2>2. FirstBox(t, b, gap) = x /\ SecondBox(t, b, gap) = y
      BY <1>1, SpiralHalves
    <2>3. RectsIn[t][gap][b] = RectsIn[Leaf][gap][x] \o RectsIn[s][gap][y]
      <3>1. RectsIn[t][gap][b] = RectsIn[t.first][gap][FirstBox(t, b, gap)]
                                 \o RectsIn[t.second][gap][SecondBox(t, b, gap)]
        BY <1>1, RectsAre
      <3> HIDE DEF x, y
      <3> QED BY <1>1, <2>2, <3>1
    <2>4. SpiralFrom[n + 1][v][gap][b] = <<x>> \o SpiralFrom[n][~v][gap][y]
      BY SpiralAre
    <2> HIDE DEF x, y
    <2>5. RectsIn[Leaf][gap][x] = <<x>>
      <3>1. Spirals(Leaf, 1, v)
        BY LeafSpirals
      <3>2. RectsIn[Leaf][gap][x] = SpiralFrom[1][v][gap][x]
        BY <2>1, <3>1 DEF Spirals
      <3> QED BY <2>1, <3>2, SpiralAre
    <2>6. RectsIn[s][gap][y] = SpiralFrom[n][~v][gap][y]
      BY <2>1 DEF Spirals
    <2> QED BY <2>3, <2>4, <2>5, <2>6
  <1>3. Spirals(t, n + 1, v)
    BY <1>1, <1>2 DEF Spirals
  <1> QED BY <1>3 DEF t
LEMMA SpiralOfSpiral ==
    ASSUME NEW k \in 1 .. MaxLeaves, NEW m \in 1 .. MaxLeaves, NEW v \in BOOLEAN,
           NEW s \in Levels[k - 1], Spirals(s, m, ~v)
    PROVE  /\ Spirals(Split(v, DefaultRatio, Leaf, s), m + 1, v)
           /\ Split(v, DefaultRatio, Leaf, s) \in Levels[k]
  <1> DEFINE t == Split(v, DefaultRatio, Leaf, s)
  <1>1. /\ k - 1 \in Nat /\ (k - 1) + 1 = k /\ k \in Nat /\ k <= MaxLeaves
        /\ MaxLeaves \in Nat /\ DefaultRatio \in MinRatio .. MaxRatio
    BY Parameters
  <1>2. Leaf \in Levels[k - 1]
    BY <1>1, LeafInLevels
  <1>3. t \in Splits(Levels[k - 1])
    BY <1>1, <1>2, SplitIn
  <1> HIDE DEF t
  <1>4. t \in Levels[k]
    BY <1>1, <1>3, LevelsAre
  <1>5. t \in Nodes
    BY <1>1, <1>4, LevelsGrow DEF Nodes
  <1>6. Spirals(t, m + 1, v)
    BY <1>5, SplitSpirals DEF t
  <1> QED BY <1>4, <1>6 DEF t

(* A spiral of n windows, and what one more window makes of it.            *)
Appended(n, v) == InsertInto[DwindleFrom[n][v]][v][n]

Dwindles(n, v) ==
    /\ Spirals(DwindleFrom[n][v], n, v) /\ DwindleFrom[n][v] \in Levels[n - 1]
    /\ Spirals(Appended(n, v), n + 1, v) /\ Appended(n, v) \in Levels[n]

LEMMA FirstDwindles ==
    ASSUME NEW v \in BOOLEAN
    PROVE  Dwindles(1, v)
  <1>1. DwindleFrom[1][v] = Leaf /\ Spirals(Leaf, 1, v) /\ Spirals(Leaf, 1, ~v)
    BY DwindleAre, LeafSpirals
  <1>2. 1 \in 1 .. MaxLeaves /\ 1 - 1 = 0 /\ Leaf \in Levels[0]
    BY LevelsAre, Parameters
  <1>3. Appended(1, v) = Split(v, DefaultRatio, Leaf, Leaf)
    BY <1>1, InsertAre, NodeFacts DEF Appended
  <1>4. /\ Spirals(Split(v, DefaultRatio, Leaf, Leaf), 1 + 1, v)
        /\ Split(v, DefaultRatio, Leaf, Leaf) \in Levels[1]
    <2>1. Leaf \in Levels[1 - 1]
      BY <1>2
    <2> QED BY <1>1, <1>2, <2>1, SpiralOfSpiral
  <1> QED BY <1>1, <1>2, <1>3, <1>4 DEF Dwindles

LEMMA NextDwindles ==
    ASSUME NEW j \in 1 .. MaxLeaves - 1, NEW v \in BOOLEAN, Dwindles(j, ~v)
    PROVE  Dwindles(j + 1, v)
  <1> DEFINE k == j + 1
             s == DwindleFrom[j][~v]
             r == Appended(j, ~v)
             t == DwindleFrom[k][v]
  <1>1. /\ j \in 1 .. MaxLeaves /\ k \in 1 .. MaxLeaves /\ k - 1 = j
        /\ j \in Nat /\ j - 1 \in Nat /\ j - 1 <= j /\ k \in Nat /\ k >= 2
    BY Parameters
  <1>2. Spirals(s, j, ~v) /\ s \in Levels[j - 1] /\ Spirals(r, k, ~v) /\ r \in Levels[j]
    BY DEF Dwindles
  <1>3. t = Split(v, DefaultRatio, Leaf, s)
    BY DwindleAre
  <1>4. r = InsertInto[s][~v][j]
    BY DEF Appended
  <1> HIDE DEF k, s, r, t
  <1>5. Spirals(t, k, v) /\ t \in Levels[j]
    BY <1>1, <1>2, <1>3, SpiralOfSpiral DEF k
  <1>6. Spirals(Split(v, DefaultRatio, Leaf, r), k + 1, v)
        /\ Split(v, DefaultRatio, Leaf, r) \in Levels[k]
    BY <1>1, <1>2, SpiralOfSpiral
  <1>7. Appended(k, v) = Split(v, DefaultRatio, Leaf, r)
    <2>1. t \in Nodes /\ t # Leaf /\ t.vertical = v /\ t.ratio = DefaultRatio
          /\ t.first = Leaf /\ t.second = s
      BY <1>3, <1>5, SplitFields DEF Spirals
    <2>2. ~InFirst(t, k) /\ InSecond(t, k) = j
      BY <1>1, <2>1, LeavesAre, NodeFacts DEF InFirst, InSecond
    <2>3. InsertInto[t][v][k] = Split(v, DefaultRatio, Leaf, InsertInto[s][~v][j])
      BY <1>1, <2>1, <2>2, InsertAre
    <2> QED BY <1>4, <2>3 DEF Appended, t
  <1>8. Dwindles(k, v)
    BY <1>1, <1>5, <1>6, <1>7 DEF Dwindles, t
  <1> QED BY <1>8 DEF k

LEMMA AllDwindle ==
    ASSUME NEW n \in 1 .. MaxLeaves, NEW v \in BOOLEAN
    PROVE  Dwindles(n, v)
  <1> DEFINE B == {k \in 1 .. MaxLeaves : \E w \in BOOLEAN : ~ Dwindles(k, w)}
  <1>1. SUFFICES ASSUME B # {} PROVE FALSE
    OBVIOUS
  <1>2. PICK k \in B : \A j \in B : k <= j
    <2>1. B \subseteq Nat
      OBVIOUS
    <2> HIDE DEF B
    <2> QED BY <1>1, <2>1, LeastNatural
  <1>3. PICK w \in BOOLEAN : k \in 1 .. MaxLeaves /\ ~ Dwindles(k, w)
    OBVIOUS
  <1>4. k # 1
    BY <1>3, FirstDwindles
  <1> DEFINE j == k - 1
  <1>5. j \in 1 .. MaxLeaves - 1 /\ j \in 1 .. MaxLeaves /\ j + 1 = k /\ (~w) \in BOOLEAN
    <2> HIDE DEF B
    <2> QED BY <1>3, <1>4, Parameters
  <1>6. j \notin B
    <2> HIDE DEF B
    <2> QED BY <1>2, <1>3, Parameters
  <1>7. Dwindles(j, ~w)
    BY <1>5, <1>6
  <1> HIDE DEF j, B
  <1>8. Dwindles(j + 1, w)
    BY <1>5, <1>7, NextDwindles
  <1> QED BY <1>3, <1>5, <1>8

(* Opening windows one after the other gives the dwindle spiral, whatever  *)
(* size the box has: build_dwindle's tree renders to what spiral_rects     *)
(* computes, and a new window's predicted place is the spiral's last       *)
(* (src/layout.rs, tree_rects; src/tiling.rs, predict_tile_rect).          *)
THEOREM AppendsGiveTheSpiral == Spec => []AppendsAreTheSpiral
  <1>1. TreeOK => AppendsAreTheSpiral
    <2> DEFINE n == tree_leaf_count(tree)
    <2> SUFFICES ASSUME TreeOK, NEW box \in Boxes \cup TinyBoxes, NEW gap \in Gaps,
                        tree = build_dwindle(n)
                 PROVE  /\ tree_rects(tree, box, gap) = spiral_rects(n, box, gap)
                        /\ predict_tile_rect(tree, box, gap) = spiral_rects(n + 1, box, gap)[n + 1]
      BY DEF AppendsAreTheSpiral
    <2> DEFINE b == Padded(box, gap)
               u == tree_insert_at(tree, n)
    <2>1. box \in Rects /\ gap \in Nat /\ b \in Rects /\ Sized(b)
      BY SplitTreeAssumption, PaddedType
    <2>2. n \in 0 .. MaxLeaves /\ (n = 0 <=> tree = None)
      BY TreeCount DEF TreeOK
    <2>3. u \in Nodes /\ Leaves[u] = n + 1
      <3>1. n \in 0 .. n
        BY <2>2
      <3>2. tree_leaf_count(u) = n + 1 /\ u \in Nodes
        BY <3>1, InsertedTree DEF TreeOK
      <3>3. u # None
        BY <3>2, NodeFacts
      <3> HIDE DEF u, n
      <3> QED BY <3>2, <3>3 DEF tree_leaf_count
    <2>4. predict_tile_rect(tree, box, gap) = tree_rects(u, box, gap)[n + 1]
      <3> HIDE DEF u, n
      <3>1. tree_rects(u, box, gap) = RectsIn[u][gap][b]
        BY <2>1, <2>3, TreeRects
      <3>2. Len(RectsIn[u][gap][b]) = n + 1
        BY <2>1, <2>3, RectsType
      <3> QED BY <3>1, <3>2 DEF predict_tile_rect, u, n
    <2>5. tree_rects(u, box, gap) = RectsIn[u][gap][b]
      BY <2>1, <2>3, TreeRects
    <2>6. /\ tree_rects(tree, box, gap) = IF tree = None THEN <<>> ELSE RectsIn[tree][gap][b]
          /\ spiral_rects(n, box, gap) = SpiralFrom[n][TRUE][gap][b]
          /\ spiral_rects(n + 1, box, gap) = SpiralFrom[n + 1][TRUE][gap][b]
      BY DEF tree_rects, spiral_rects
    <2>7. CASE n = 0
      <3>1. u = Leaf
        BY <2>2, <2>7 DEF tree_insert_at
      <3> HIDE DEF u, n, b
      <3>2. Spirals(Leaf, 1, TRUE)
        BY LeafSpirals
      <3>6. n + 1 = 1
        BY <2>7
      <3>3. RectsIn[u][gap][b] = SpiralFrom[n + 1][TRUE][gap][b]
        BY <2>1, <3>1, <3>2, <3>6 DEF Spirals
      <3>4. SpiralFrom[n][TRUE][gap][b] = <<>>
        BY <2>1, <2>7, SpiralAre
      <3>5. tree = None
        BY <2>2, <2>7
      <3> QED BY <2>4, <2>5, <2>6, <3>3, <3>4, <3>5
    <2>8. CASE n # 0
      <3>1. tree = DwindleFrom[n][TRUE] /\ tree # None
        BY <2>2, <2>8 DEF build_dwindle
      <3>2. u = InsertInto[tree][TRUE][n]
        BY <3>1 DEF tree_insert_at
      <3> HIDE DEF u, n, b
      <3>3. Dwindles(n, TRUE)
        <4>1. n \in 1 .. MaxLeaves
          BY <2>2, <2>8
        <4> QED BY <4>1, AllDwindle
      <3>4. Spirals(tree, n, TRUE) /\ Spirals(u, n + 1, TRUE)
        BY <3>1, <3>2, <3>3 DEF Dwindles, Appended
      <3>5. /\ RectsIn[tree][gap][b] = SpiralFrom[n][TRUE][gap][b]
            /\ RectsIn[u][gap][b] = SpiralFrom[n + 1][TRUE][gap][b]
        BY <2>1, <3>4 DEF Spirals
      <3> QED BY <2>4, <2>5, <2>6, <3>1, <3>5
    <2> HIDE DEF n
    <2> QED BY <2>7, <2>8
  <1> QED BY <1>1, TreeInvariance, PTL
-----------------------------------------------------------------------------
(* Spatial navigation.                                                     *)

(* Of windows side by side one is ahead of the other, towards the side.    *)
LEMMA BesideIsAhead ==
    ASSUME NEW r \in Rects, NEW s \in Rects, Sized(r), Sized(s), NEW gap \in Nat,
           NEW dir \in Directions, Beside(r, s, dir, gap)
    PROVE  Distance(r, s, dir) > 0 /\ Distance(r, s, dir) \in Int
  <1>1. /\ r.x \in Int /\ r.y \in Int /\ r.w \in Int /\ r.h \in Int
        /\ s.x \in Int /\ s.y \in Int /\ s.w \in Int /\ s.h \in Int
        /\ r.w >= 1 /\ r.h >= 1 /\ s.w >= 1 /\ s.h >= 1
    BY DEF Rects, Sized
  <1>2. CASE dir = "left"
    BY <1>1, <1>2 DEF Beside, Distance, CenterX
  <1>3. CASE dir = "right"
    BY <1>1, <1>3 DEF Beside, Distance, CenterX
  <1>4. CASE dir = "up"
    BY <1>1, <1>4 DEF Beside, Distance, CenterY
  <1>5. CASE dir = "down"
    BY <1>1, <1>5 DEF Beside, Distance, CenterY
  <1> QED BY <1>2, <1>3, <1>4, <1>5 DEF Directions

LEMMA MeasuresType ==
    ASSUME NEW r \in Rects, NEW s \in Rects, NEW dir \in Directions
    PROVE  Distance(r, s, dir) \in Int /\ Overlap(r, s, dir) \in Nat
  <1>1. /\ r.x \in Int /\ r.y \in Int /\ r.w \in Int /\ r.h \in Int
        /\ s.x \in Int /\ s.y \in Int /\ s.w \in Int /\ s.h \in Int
    BY DEF Rects
  <1>2. Overlap(r, s, dir) \in Nat
    BY <1>1 DEF Overlap, Common
  <1>3. Distance(r, s, dir) \in Int
    BY <1>1 DEF Distance, CenterX, CenterY, Directions
  <1> QED BY <1>2, <1>3
(* What the neighbour is chosen by.                                        *)
Far(rects, i, j, dir) == Distance(rects[i], rects[j], dir)
Border(rects, i, j, dir) == Overlap(rects[i], rects[j], dir)

AsGoodAs(rects, from, dir, i, j) ==
    \/ Border(rects, from, i, dir) > Border(rects, from, j, dir)
    \/ /\ Border(rects, from, i, dir) = Border(rects, from, j, dir)
       /\ Far(rects, from, i, dir) <= Far(rects, from, j, dir)

Best(rects, from, dir) ==
    {i \in Candidates(rects, from, dir) :
        \A j \in Candidates(rects, from, dir) : AsGoodAs(rects, from, dir, i, j)}

LEMMA ChosenByBorder ==
    ASSUME NEW rects, NEW from, NEW dir,
           NEW k \in Candidates(rects, from, dir), Border(rects, from, k, dir) > 0
    PROVE  spatial_neighbor(rects, from, dir) = Max(Best(rects, from, dir))
  <1> DEFINE found == Candidates(rects, from, dir)
             far == [i \in found |-> Distance(rects[from], rects[i], dir)]
             border == [i \in found |-> Overlap(rects[from], rects[i], dir)]
             AsGood(i, j) ==
                border[i] > border[j] \/ (border[i] = border[j] /\ far[i] <= far[j])
             best == {i \in found : \A j \in found : AsGood(i, j)}
  <1>1. \A i \in found, j \in found : AsGood(i, j) <=> AsGoodAs(rects, from, dir, i, j)
    BY DEF AsGoodAs, Border, Far
  <1>2. best = Best(rects, from, dir)
    <2> HIDE DEF AsGood
    <2> QED BY <1>1 DEF Best
  <1>3. found # {} /\ \E i \in found : border[i] > 0
    BY DEF Border
  <1>4. spatial_neighbor(rects, from, dir) =
            CASE found = {} -> 0
              [] \E i \in found : border[i] > 0 -> Max(best)
              [] OTHER -> Min({i \in found : \A j \in found : far[i] <= far[j]})
    BY DEF spatial_neighbor
  <1> HIDE DEF best, border, far
  <1>5. spatial_neighbor(rects, from, dir) = Max(best)
    <2> HIDE DEF found
    <2> QED BY <1>3, <1>4
  <1> QED BY <1>2, <1>5

LEMMA CandidatesAre ==
    ASSUME NEW rects, NEW b, NEW gap, Standing(rects, b, gap),
           NEW i \in DOMAIN rects, NEW dir \in Directions
    PROVE  /\ \E n \in Nat : Candidates(rects, i, dir) \in SUBSET (1 .. n)
           /\ \A j \in Candidates(rects, i, dir) :
                /\ j \in DOMAIN rects /\ j # 0 /\ i # j
                /\ Far(rects, i, j, dir) \in Int /\ Far(rects, i, j, dir) > 0
                /\ Border(rects, i, j, dir) \in Nat
  <1>1. PICK n \in Nat : DOMAIN rects = 1 .. n
    BY DEF Standing
  <1>2. Candidates(rects, i, dir) \in SUBSET (1 .. n)
    BY <1>1 DEF Candidates
  <1>3. ASSUME NEW j \in Candidates(rects, i, dir)
        PROVE  /\ j \in DOMAIN rects /\ j # 0 /\ i # j
               /\ Far(rects, i, j, dir) \in Int /\ Far(rects, i, j, dir) > 0
               /\ Border(rects, i, j, dir) \in Nat
    <2>1. j \in DOMAIN rects /\ i # j /\ Far(rects, i, j, dir) > 0
      BY DEF Candidates, Far
    <2>2. rects[i] \in Rects /\ rects[j] \in Rects
      BY <2>1 DEF Standing
    <2>3. Far(rects, i, j, dir) \in Int /\ Border(rects, i, j, dir) \in Nat
      BY <2>2, MeasuresType DEF Far, Border
    <2> QED BY <1>1, <2>1, <2>3
  <1> QED BY <1>2, <1>3

(* Among candidates there is always a best.                                *)
LEMMA BestExists ==
    ASSUME NEW rects, NEW b, NEW gap, Standing(rects, b, gap),
           NEW i \in DOMAIN rects, NEW dir \in Directions,
           Candidates(rects, i, dir) # {}
    PROVE  /\ Max(Best(rects, i, dir)) \in Best(rects, i, dir)
  <1> DEFINE found == Candidates(rects, i, dir)
             border == [j \in found |-> Border(rects, i, j, dir)]
  <1>1. PICK n \in Nat : found \in SUBSET (1 .. n)
    BY CandidatesAre
  <1>2. border \in [found -> Int]
    BY CandidatesAre
  <1>3. PICK k \in found : \A j \in found : border[j] <= border[k]
    <2> HIDE DEF found, border
    <2> QED BY <1>1, <1>2, GreatestOfFew DEF found
  <1> DEFINE most == {j \in found : Border(rects, i, j, dir) = Border(rects, i, k, dir)}
             far == [j \in most |-> Far(rects, i, j, dir)]
  <1>4. most \in SUBSET (1 .. n) /\ k \in most /\ far \in [most -> Int]
    BY <1>1, CandidatesAre
  <1>5. PICK m \in most : \A j \in most : far[m] <= far[j]
    <2> HIDE DEF most, far
    <2> QED BY <1>4, LeastOfFew
  <1>6. ASSUME NEW j \in found PROVE AsGoodAs(rects, i, dir, m, j)
    <2>1. /\ Border(rects, i, j, dir) <= Border(rects, i, m, dir)
          /\ Border(rects, i, j, dir) \in Nat /\ Border(rects, i, m, dir) \in Nat
      BY <1>3, CandidatesAre
    <2>2. CASE Border(rects, i, j, dir) = Border(rects, i, m, dir)
      <3>1. Far(rects, i, m, dir) <= Far(rects, i, j, dir)
        BY <1>5, <2>2
      <3> QED BY <2>2, <3>1 DEF AsGoodAs
    <2>3. CASE Border(rects, i, j, dir) # Border(rects, i, m, dir)
      BY <2>1, <2>3 DEF AsGoodAs
    <2> QED BY <2>2, <2>3
  <1>7. m \in Best(rects, i, dir)
    BY <1>6 DEF Best
  <1>8. Best(rects, i, dir) \in SUBSET (1 .. n)
    BY <1>1 DEF Best
  <1> QED BY <1>7, <1>8, MaxIsIn

LEMMA BesideIsCandidate ==
    ASSUME NEW rects, NEW b, NEW gap \in Nat, Standing(rects, b, gap),
           NEW i \in DOMAIN rects, NEW k \in DOMAIN rects, NEW dir \in Directions,
           Beside(rects[i], rects[k], dir, gap)
    PROVE  k \in Candidates(rects, i, dir) /\ i # k
  <1> DEFINE r == rects[i]
             s == rects[k]
  <1>1. r \in Rects /\ Sized(r) /\ s \in Rects /\ Sized(s)
    BY DEF Standing
  <1> HIDE DEF r, s
  <1>2. Distance(r, s, dir) > 0 /\ Beside(r, s, dir, gap)
    BY <1>1, BesideIsAhead DEF r, s
  <1>3. r # s
    <2>1. ~ Beside(r, r, dir, gap)
      <3>1. /\ r.x \in Int /\ r.y \in Int /\ r.w \in Int /\ r.h \in Int
            /\ r.w >= 1 /\ r.h >= 1
        BY <1>1 DEF Rects, Sized
      <3>2. r.x + r.w + gap # r.x /\ r.y + r.h + gap # r.y
        BY <3>1
      <3>3. CASE dir = "left"
        BY <3>2, <3>3 DEF Beside
      <3>4. CASE dir = "right"
        BY <3>2, <3>4 DEF Beside
      <3>5. CASE dir = "up"
        BY <3>2, <3>5 DEF Beside
      <3>6. CASE dir = "down"
        BY <3>2, <3>6 DEF Beside
      <3> QED BY <3>3, <3>4, <3>5, <3>6 DEF Directions
    <2> QED BY <1>2, <2>1
  <1> QED BY <1>2, <1>3 DEF Candidates, r, s

(* A window with a piece of border on the side the key asks for is not     *)
(* left for one that only meets it at a corner (src/tiling.rs,             *)
(* spatial_neighbor).                                                      *)
THEOREM BordersDecide == Spec => []BordersComeFirst
  <1>1. ASSUME NEW rects, NEW b, NEW gap \in Nat, Standing(rects, b, gap),
               NEW i \in DOMAIN rects, NEW k \in DOMAIN rects, NEW dir \in Directions,
               Beside(rects[i], rects[k], dir, gap), Overlap(rects[i], rects[k], dir) > 0
        PROVE  LET j == spatial_neighbor(rects, i, dir)
               IN  j # 0 /\ Overlap(rects[i], rects[j], dir) > 0
    <2> DEFINE j == spatial_neighbor(rects, i, dir)
    <2>1. k \in Candidates(rects, i, dir) /\ Border(rects, i, k, dir) > 0
      BY <1>1, BesideIsCandidate DEF Border
    <2>2. j = Max(Best(rects, i, dir))
      BY <2>1, ChosenByBorder
    <2>3. Max(Best(rects, i, dir)) \in Best(rects, i, dir)
      BY <1>1, <2>1, BestExists
    <2> HIDE DEF j
    <2>4. j \in Candidates(rects, i, dir) /\ AsGoodAs(rects, i, dir, j, k)
      BY <2>1, <2>2, <2>3 DEF Best
    <2>5. j # 0 /\ Border(rects, i, j, dir) \in Nat /\ Border(rects, i, k, dir) \in Nat
      BY <1>1, <2>1, <2>4, CandidatesAre
    <2>6. Border(rects, i, j, dir) > 0
      BY <2>1, <2>4, <2>5 DEF AsGoodAs
    <2> QED BY <2>5, <2>6 DEF Border, j
  <1>2. TreeOK => BordersComeFirst
    <2> SUFFICES ASSUME TreeOK, NEW box \in Boxes, NEW gap \in Gaps, HasRoom(box, gap, 2),
                        NEW i \in DOMAIN tree_rects(tree, box, gap),
                        NEW k \in DOMAIN tree_rects(tree, box, gap), NEW dir \in Directions,
                        Beside(tree_rects(tree, box, gap)[i], tree_rects(tree, box, gap)[k], dir, gap),
                        Overlap(tree_rects(tree, box, gap)[i], tree_rects(tree, box, gap)[k], dir) > 0
                 PROVE  LET j == spatial_neighbor(tree_rects(tree, box, gap), i, dir)
                        IN  j # 0 /\ Overlap(tree_rects(tree, box, gap)[i],
                                             tree_rects(tree, box, gap)[j], dir) > 0
      BY DEF BordersComeFirst, Everywhere
    <2> DEFINE rects == tree_rects(tree, box, gap)
    <2>1. Standing(rects, Padded(box, gap), gap) /\ gap \in Nat
      BY RectsStand, SplitTreeAssumption
    <2> HIDE DEF rects
    <2>2. LET j == spatial_neighbor(rects, i, dir)
          IN  j # 0 /\ Overlap(rects[i], rects[j], dir) > 0
      BY <1>1, <2>1 DEF rects
    <2> QED BY <2>2 DEF rects
  <1> QED BY <1>2, TreeInvariance, PTL
(* s is there along all of r's border.                                     *)
Covers(r, s, dir) ==
    IF dir \in Horizontal THEN s.y <= r.y /\ r.y + r.h <= s.y + s.h
                          ELSE s.x <= r.x /\ r.x + r.w <= s.x + s.w

(* Nothing stands in for a window right beside along the whole border:     *)
(* what shares as much border is further away.                             *)
LEMMA NothingBetween ==
    ASSUME NEW r \in Rects, NEW s \in Rects, NEW l \in Rects, Sized(r), Sized(s), Sized(l),
           NEW gap \in Nat, NEW dir \in Directions,
           Beside(r, s, dir, gap), Covers(r, s, dir),
           Apart(r, l, gap), Apart(s, l, gap), Distance(r, l, dir) > 0
    PROVE  /\ Overlap(r, l, dir) <= Overlap(r, s, dir)
           /\ Overlap(r, l, dir) = Overlap(r, s, dir) => Distance(r, s, dir) < Distance(r, l, dir)
           /\ Overlap(r, s, dir) > 0
  <1>1. /\ r.x \in Int /\ r.y \in Int /\ r.w \in Int /\ r.h \in Int
        /\ s.x \in Int /\ s.y \in Int /\ s.w \in Int /\ s.h \in Int
        /\ l.x \in Int /\ l.y \in Int /\ l.w \in Int /\ l.h \in Int
        /\ r.w >= 1 /\ r.h >= 1 /\ s.w >= 1 /\ s.h >= 1 /\ l.w >= 1 /\ l.h >= 1
    BY DEF Rects, Sized
  <1>2. CASE dir \in Horizontal
    <2>1. s.y <= r.y /\ r.y + r.h <= s.y + s.h
      BY <1>2 DEF Covers
    <2>2. Overlap(r, s, dir) = r.h
      BY <1>1, <1>2, <2>1 DEF Overlap, Common
    <2>3. Overlap(r, l, dir) <= r.h
      BY <1>1, <1>2 DEF Overlap, Common
    <2>4. ASSUME Overlap(r, l, dir) = r.h PROVE l.y <= r.y /\ r.y + r.h <= l.y + l.h
      BY <1>1, <1>2, <2>4 DEF Overlap, Common
    <2>5. ASSUME Overlap(r, l, dir) = r.h PROVE Distance(r, s, dir) < Distance(r, l, dir)
      <3>1. /\ r.x + r.w + gap <= l.x \/ l.x + l.w + gap <= r.x
            /\ s.x + s.w + gap <= l.x \/ l.x + l.w + gap <= s.x
        BY <1>1, <2>1, <2>4, <2>5 DEF Apart
      <3>2. CASE dir = "left"
        BY <1>1, <3>1, <3>2 DEF Beside, Distance, CenterX
      <3>3. CASE dir = "right"
        BY <1>1, <3>1, <3>3 DEF Beside, Distance, CenterX
      <3> QED BY <1>2, <3>2, <3>3 DEF Horizontal
    <2> QED BY <1>1, <2>2, <2>3, <2>5
  <1>3. CASE dir \notin Horizontal
    <2>1. s.x <= r.x /\ r.x + r.w <= s.x + s.w
      BY <1>3 DEF Covers
    <2>2. Overlap(r, s, dir) = r.w
      BY <1>1, <1>3, <2>1 DEF Overlap, Common
    <2>3. Overlap(r, l, dir) <= r.w
      BY <1>1, <1>3 DEF Overlap, Common
    <2>4. ASSUME Overlap(r, l, dir) = r.w PROVE l.x <= r.x /\ r.x + r.w <= l.x + l.w
      BY <1>1, <1>3, <2>4 DEF Overlap, Common
    <2>5. ASSUME Overlap(r, l, dir) = r.w PROVE Distance(r, s, dir) < Distance(r, l, dir)
      <3>1. /\ r.y + r.h + gap <= l.y \/ l.y + l.h + gap <= r.y
            /\ s.y + s.h + gap <= l.y \/ l.y + l.h + gap <= s.y
        BY <1>1, <2>1, <2>4, <2>5 DEF Apart
      <3>2. CASE dir = "up"
        BY <1>1, <3>1, <3>2 DEF Beside, Distance, CenterY
      <3>3. CASE dir = "down"
        BY <1>1, <3>1, <3>3 DEF Beside, Distance, CenterY
      <3> QED BY <1>3, <3>2, <3>3 DEF Horizontal, Directions
    <2> QED BY <1>1, <2>2, <2>3, <2>5
  <1> QED BY <1>2, <1>3

(* Side by side with a whole border in common.                             *)
Partners(rects, i, j, dir, gap) ==
    Beside(rects[i], rects[j], dir, gap) /\ Along(rects[i], dir) = Along(rects[j], dir)

LEMMA PartnersMutual ==
    ASSUME NEW rects, NEW i, NEW j, NEW dir \in Directions, NEW gap, Partners(rects, i, j, dir, gap)
    PROVE  Opposite(dir) \in Directions /\ Partners(rects, j, i, Opposite(dir), gap)
  <1>1. CASE dir = "left"
    BY <1>1 DEF Partners, Opposite, Directions, Beside, Along, Horizontal
  <1>2. CASE dir = "right"
    BY <1>2 DEF Partners, Opposite, Directions, Beside, Along, Horizontal
  <1>3. CASE dir = "up"
    BY <1>3 DEF Partners, Opposite, Directions, Beside, Along, Horizontal
  <1>4. CASE dir = "down"
    BY <1>4 DEF Partners, Opposite, Directions, Beside, Along, Horizontal
  <1> QED BY <1>1, <1>2, <1>3, <1>4 DEF Directions

(* Right beside, along the whole border.                                   *)
Faces(rects, i, j, dir, gap) ==
    Beside(rects[i], rects[j], dir, gap) /\ Covers(rects[i], rects[j], dir)

LEMMA FacedIsNeighbour ==
    ASSUME NEW rects, NEW b, NEW gap \in Nat, Standing(rects, b, gap),
           NEW i \in DOMAIN rects, NEW j \in DOMAIN rects, NEW dir \in Directions,
           Faces(rects, i, j, dir, gap)
    PROVE  spatial_neighbor(rects, i, dir) = j
  <1> DEFINE found == Candidates(rects, i, dir)
  <1>1. j \in found /\ i # j
    BY BesideIsCandidate DEF Faces
  <1>2. ASSUME NEW l \in found, l # j
        PROVE  /\ Border(rects, i, l, dir) <= Border(rects, i, j, dir)
               /\ Border(rects, i, l, dir) = Border(rects, i, j, dir) =>
                    Far(rects, i, j, dir) < Far(rects, i, l, dir)
               /\ Border(rects, i, j, dir) > 0
    <2> DEFINE r == rects[i]
               s == rects[j]
               p == rects[l]
    <2>1. l \in DOMAIN rects /\ l # i /\ Far(rects, i, l, dir) > 0
      BY CandidatesAre
    <2>2. /\ r \in Rects /\ s \in Rects /\ p \in Rects /\ Sized(r) /\ Sized(s) /\ Sized(p)
          /\ Apart(r, p, gap) /\ Apart(s, p, gap)
      BY <1>2, <2>1 DEF Standing
    <2>3. Beside(r, s, dir, gap) /\ Covers(r, s, dir) /\ Distance(r, p, dir) > 0
      BY <2>1 DEF Faces, Far
    <2> HIDE DEF r, s, p
    <2>4. /\ Overlap(r, p, dir) <= Overlap(r, s, dir)
          /\ Overlap(r, p, dir) = Overlap(r, s, dir) => Distance(r, s, dir) < Distance(r, p, dir)
          /\ Overlap(r, s, dir) > 0
      BY <2>2, <2>3, NothingBetween
    <2> QED BY <2>4 DEF Border, Far, r, s, p
  <1>3. Border(rects, i, j, dir) > 0
    <2>1. /\ rects[i] \in Rects /\ rects[j] \in Rects /\ Sized(rects[i]) /\ Sized(rects[j])
      BY DEF Standing
    <2>2. Covers(rects[i], rects[j], dir)
      BY DEF Faces
    <2> DEFINE r == rects[i]
               s == rects[j]
    <2> HIDE DEF r, s
    <2>3. /\ r.x \in Int /\ r.y \in Int /\ r.w \in Int /\ r.h \in Int /\ r.w >= 1 /\ r.h >= 1
          /\ s.x \in Int /\ s.y \in Int /\ s.w \in Int /\ s.h \in Int
          /\ Covers(r, s, dir)
      BY <2>1, <2>2 DEF Rects, Sized, r, s
    <2>4. Overlap(r, s, dir) > 0
      <3>1. CASE dir \in Horizontal
        BY <2>3, <3>1 DEF Covers, Overlap, Common
      <3>2. CASE dir \notin Horizontal
        BY <2>3, <3>2 DEF Covers, Overlap, Common
      <3> QED BY <3>1, <3>2
    <2> QED BY <2>4 DEF Border, r, s
  <1>4. \A l \in found : /\ Border(rects, i, l, dir) \in Nat /\ Far(rects, i, l, dir) \in Int
    BY CandidatesAre
  <1>5. ASSUME NEW l \in found PROVE AsGoodAs(rects, i, dir, j, l)
    BY <1>1, <1>2, <1>4 DEF AsGoodAs
  <1>6. ASSUME NEW l \in found, l # j PROVE ~ AsGoodAs(rects, i, dir, l, j)
    BY <1>1, <1>2, <1>4, <1>6 DEF AsGoodAs
  <1>7. Best(rects, i, dir) = {j}
    BY <1>1, <1>5, <1>6 DEF Best
  <1>8. Max(Best(rects, i, dir)) \in Best(rects, i, dir)
    BY <1>1, BestExists
  <1>9. spatial_neighbor(rects, i, dir) = Max(Best(rects, i, dir))
    BY <1>1, <1>3, ChosenByBorder
  <1> QED BY <1>7, <1>8, <1>9

LEMMA PartnerIsNeighbour ==
    ASSUME NEW rects, NEW b, NEW gap \in Nat, Standing(rects, b, gap),
           NEW i \in DOMAIN rects, NEW j \in DOMAIN rects, NEW dir \in Directions,
           Partners(rects, i, j, dir, gap)
    PROVE  spatial_neighbor(rects, i, dir) = j
  <1> DEFINE r == rects[i]
             s == rects[j]
  <1>1. r \in Rects /\ s \in Rects
    BY DEF Standing
  <1>2. Beside(r, s, dir, gap) /\ Along(r, dir) = Along(s, dir)
    BY DEF Partners
  <1> HIDE DEF r, s
  <1>3. Covers(r, s, dir)
    <2>1. /\ r.x \in Int /\ r.y \in Int /\ r.w \in Int /\ r.h \in Int
          /\ s.x \in Int /\ s.y \in Int /\ s.w \in Int /\ s.h \in Int
      BY <1>1 DEF Rects
    <2>2. CASE dir \in Horizontal
      BY <1>2, <2>1, <2>2 DEF Covers, Along
    <2>3. CASE dir \notin Horizontal
      BY <1>2, <2>1, <2>3 DEF Covers, Along
    <2> QED BY <2>2, <2>3
  <1>4. Faces(rects, i, j, dir, gap)
    BY <1>2, <1>3 DEF Faces, r, s
  <1> QED BY <1>4, FacedIsNeighbour

(* Two windows that stand side by side with a whole border in common are   *)
(* each other's neighbours: there and back again (src/tiling.rs,           *)
(* spatial_neighbor).                                                      *)
THEOREM KeysGoThereAndBack == Spec => []ThereAndBack
  <1>1. TreeOK => ThereAndBack
    <2> SUFFICES ASSUME TreeOK, NEW box \in Boxes, NEW gap \in Gaps, HasRoom(box, gap, 2),
                        NEW i \in DOMAIN tree_rects(tree, box, gap),
                        NEW j \in DOMAIN tree_rects(tree, box, gap), NEW dir \in Directions,
                        Partners(tree_rects(tree, box, gap), i, j, dir, gap)
                 PROVE  /\ spatial_neighbor(tree_rects(tree, box, gap), i, dir) = j
                        /\ spatial_neighbor(tree_rects(tree, box, gap), j, Opposite(dir)) = i
      BY DEF ThereAndBack, Everywhere, Partners
    <2> DEFINE rects == tree_rects(tree, box, gap)
    <2>1. Standing(rects, Padded(box, gap), gap) /\ gap \in Nat
      BY RectsStand, SplitTreeAssumption
    <2>2. Opposite(dir) \in Directions /\ Partners(rects, j, i, Opposite(dir), gap)
      BY PartnersMutual
    <2> HIDE DEF rects
    <2>3. i \in DOMAIN rects /\ j \in DOMAIN rects /\ Partners(rects, i, j, dir, gap)
      BY DEF rects
    <2>4. spatial_neighbor(rects, i, dir) = j /\ spatial_neighbor(rects, j, Opposite(dir)) = i
      BY <2>1, <2>2, <2>3, PartnerIsNeighbour
    <2> QED BY <2>4 DEF rects
  <1> QED BY <1>1, TreeInvariance, PTL

-----------------------------------------------------------------------------
(* A tree's first leaf is in its box's first corner, the last in the last. *)
LEMMA Corners ==
    \A t \in Nodes : \A gap \in Nat, b \in Rects :
        Sized(b) /\ RoomIn[t][2][gap][b] =>
            LET first == RectOf(t, gap, b, 0)
                last == RectOf(t, gap, b, Leaves[t] - 1)
            IN  /\ first.x = b.x /\ first.y = b.y
                /\ last.x + last.w = b.x + b.w /\ last.y + last.h = b.y + b.h
  <1> DEFINE P(t) == \A gap \in Nat, b \in Rects :
                Sized(b) /\ RoomIn[t][2][gap][b] =>
                    /\ RectOf(t, gap, b, 0).x = b.x /\ RectOf(t, gap, b, 0).y = b.y
                    /\ RectOf(t, gap, b, Leaves[t] - 1).x + RectOf(t, gap, b, Leaves[t] - 1).w = b.x + b.w
                    /\ RectOf(t, gap, b, Leaves[t] - 1).y + RectOf(t, gap, b, Leaves[t] - 1).h = b.y + b.h
             T == {t \in Nodes : P(t)}
  <1>1. Leaf \in T
    <2> SUFFICES ASSUME NEW gap \in Nat, NEW b \in Rects, Sized(b)
                 PROVE  /\ RectOf(Leaf, gap, b, 0).x = b.x /\ RectOf(Leaf, gap, b, 0).y = b.y
                        /\ RectOf(Leaf, gap, b, Leaves[Leaf] - 1).x + RectOf(Leaf, gap, b, Leaves[Leaf] - 1).w = b.x + b.w
                        /\ RectOf(Leaf, gap, b, Leaves[Leaf] - 1).y + RectOf(Leaf, gap, b, Leaves[Leaf] - 1).h = b.y + b.h
      BY NodeFacts
    <2>1. Leaves[Leaf] = 1 /\ Leaves[Leaf] - 1 = 0
      BY NodeFacts, LeavesAre
    <2>2. b.x \in Int /\ b.y \in Int /\ b.w \in Int /\ b.h \in Int /\ b.w >= 1 /\ b.h >= 1
      BY DEF Rects, Sized
    <2>3. RectOf(Leaf, gap, b, 0) = Rect(b.x, b.y, b.w, b.h)
      BY <2>2, RectOfLeaf DEF AtLeast1
    <2>4. /\ Rect(b.x, b.y, b.w, b.h).x = b.x /\ Rect(b.x, b.y, b.w, b.h).y = b.y
          /\ Rect(b.x, b.y, b.w, b.h).w = b.w /\ Rect(b.x, b.y, b.w, b.h).h = b.h
      BY DEF Rect
    <2> QED BY <2>1, <2>3, <2>4
  <1>2. ASSUME NEW t \in Nodes, t # Leaf, t.first \in T, t.second \in T PROVE t \in T
    <2> SUFFICES ASSUME NEW gap \in Nat, NEW b \in Rects, Sized(b), RoomIn[t][2][gap][b]
                 PROVE  /\ RectOf(t, gap, b, 0).x = b.x /\ RectOf(t, gap, b, 0).y = b.y
                        /\ RectOf(t, gap, b, Leaves[t] - 1).x + RectOf(t, gap, b, Leaves[t] - 1).w = b.x + b.w
                        /\ RectOf(t, gap, b, Leaves[t] - 1).y + RectOf(t, gap, b, Leaves[t] - 1).h = b.y + b.h
      BY <1>2
    <2> DEFINE f == FirstBox(t, b, gap)
               s == SecondBox(t, b, gap)
    <2>1. /\ 2 <= Shared(t, b, gap) /\ 2 \in Nat
          /\ RoomIn[t.first][2][gap][f] /\ RoomIn[t.second][2][gap][s]
      BY <1>2, RoomAre
    <2>2. f \in Rects /\ s \in Rects /\ Sized(f) /\ Sized(s)
      BY <1>2, <2>1, ChildBoxes, ChildBoxesApart
    <2>3. f.x = b.x /\ f.y = b.y /\ s.x + s.w = b.x + b.w /\ s.y + s.h = b.y + b.h
      BY <1>2, <2>1, ChildBoxesMeet
    <2>4. P(t.first) /\ P(t.second)
      BY <1>2
    <2>5. /\ Leaves[t.first] \in Nat /\ Leaves[t.second] \in Nat /\ Leaves[t] \in Nat
          /\ Leaves[t.first] >= 1 /\ Leaves[t.second] >= 1
          /\ Leaves[t] = Leaves[t.first] + Leaves[t.second]
      BY <1>2, LeavesOfSplit
    <2>6. RectOf(t, gap, b, 0) = RectOf(t.first, gap, f, 0)
      BY <1>2, <2>5, RectOfSplit DEF InFirst
    <2>7. RectOf(t, gap, b, Leaves[t] - 1) = RectOf(t.second, gap, s, Leaves[t.second] - 1)
      <3> DEFINE l == Leaves[t] - 1
      <3>1. l \in Nat /\ l < Leaves[t] /\ ~InFirst(t, l) /\ InSecond(t, l) = Leaves[t.second] - 1
        BY <2>5 DEF InFirst, InSecond
      <3> HIDE DEF l
      <3>2. RectOf(t, gap, b, l) = RectOf(t.second, gap, s, InSecond(t, l))
        BY <1>2, <3>1, RectOfSplit
      <3> QED BY <3>1, <3>2 DEF l
    <2> HIDE DEF f, s
    <2>8. /\ RectOf(t.first, gap, f, 0).x = f.x /\ RectOf(t.first, gap, f, 0).y = f.y
      BY <2>1, <2>2, <2>4
    <2> DEFINE r == RectOf(t.second, gap, s, Leaves[t.second] - 1)
    <2>9. r.x + r.w = s.x + s.w /\ r.y + r.h = s.y + s.h
      BY <2>1, <2>2, <2>4
    <2> HIDE DEF r
    <2> QED BY <2>3, <2>6, <2>7, <2>8, <2>9 DEF r
  <1>3. Nodes \subseteq T
    <2> HIDE DEF T
    <2> QED BY <1>1, <1>2, TreeInduction
  <1> QED BY <1>3

(* Every leaf of a split has another right beside it, whose whole border   *)
(* it covers: its sibling, or the corner leaf of its sibling.              *)
FacedBy(t, gap, b, j) ==
    \E i \in 0 .. Leaves[t] - 1, dir \in Directions :
        /\ Beside(RectOf(t, gap, b, i), RectOf(t, gap, b, j), dir, gap)
        /\ Covers(RectOf(t, gap, b, i), RectOf(t, gap, b, j), dir)

LEMMA EachIsFaced ==
    \A t \in Nodes : \A gap \in Nat, b \in Rects :
        t # Leaf /\ Sized(b) /\ RoomIn[t][2][gap][b] =>
            \A j \in 0 .. Leaves[t] - 1 : FacedBy(t, gap, b, j)
  <1> DEFINE P(t) == \A gap \in Nat, b \in Rects :
                t # Leaf /\ Sized(b) /\ RoomIn[t][2][gap][b] =>
                    \A j \in 0 .. Leaves[t] - 1 : FacedBy(t, gap, b, j)
             T == {t \in Nodes : P(t)}
  <1>1. Leaf \in T
    BY NodeFacts
  <1>2. ASSUME NEW t \in Nodes, t # Leaf, t.first \in T, t.second \in T PROVE t \in T
    <2> SUFFICES ASSUME NEW gap \in Nat, NEW b \in Rects, Sized(b), RoomIn[t][2][gap][b],
                        NEW j \in 0 .. Leaves[t] - 1
                 PROVE  FacedBy(t, gap, b, j)
      BY <1>2
    <2> DEFINE f == FirstBox(t, b, gap)
               s == SecondBox(t, b, gap)
               l == Leaves[t.first]
    <2>1. /\ 2 <= Shared(t, b, gap) /\ 2 \in Nat
          /\ RoomIn[t.first][2][gap][f] /\ RoomIn[t.second][2][gap][s]
      BY <1>2, RoomAre
    <2>2. f \in Rects /\ s \in Rects /\ Sized(f) /\ Sized(s)
      BY <1>2, <2>1, ChildBoxes, ChildBoxesApart
    <2>3. /\ t.vertical => f.x + f.w + gap = s.x /\ f.y = s.y /\ f.h = s.h
          /\ ~t.vertical => f.y + f.h + gap = s.y /\ f.x = s.x /\ f.w = s.w
      BY <1>2, <2>1, ChildBoxesMeet
    <2>4. P(t.first) /\ P(t.second)
      BY <1>2
    <2>5. /\ l \in Nat /\ Leaves[t.second] \in Nat /\ Leaves[t] \in Nat
          /\ l >= 1 /\ Leaves[t.second] >= 1 /\ Leaves[t] = l + Leaves[t.second]
          /\ j \in Nat /\ j < Leaves[t]
      BY <1>2, LeavesOfSplit
    <2>6. t.first \in Nodes /\ t.second \in Nodes /\ t.vertical \in BOOLEAN
      BY <1>2, NodeFacts
    (* Which leaf of the whole is leaf k of a child.                       *)
    <2>7. ASSUME NEW k \in 0 .. l - 1
          PROVE  k \in 0 .. Leaves[t] - 1 /\ RectOf(t, gap, b, k) = RectOf(t.first, gap, f, k)
      <3>1. k \in Nat /\ k < Leaves[t] /\ InFirst(t, k)
        BY <2>5 DEF InFirst
      <3> QED BY <1>2, <2>5, <3>1, RectOfSplit
    <2>8. ASSUME NEW k \in 0 .. Leaves[t.second] - 1
          PROVE  l + k \in 0 .. Leaves[t] - 1 /\ RectOf(t, gap, b, l + k) = RectOf(t.second, gap, s, k)
      <3> DEFINE m == l + k
      <3>1. m \in Nat /\ m < Leaves[t] /\ ~InFirst(t, m) /\ InSecond(t, m) = k
        BY <2>5 DEF InFirst, InSecond
      <3> HIDE DEF m, l
      <3>2. RectOf(t, gap, b, m) = RectOf(t.second, gap, s, k)
        BY <1>2, <3>1, RectOfSplit
      <3>3. m \in 0 .. Leaves[t] - 1
        BY <2>5, <3>1
      <3> QED BY <3>2, <3>3 DEF m
    <2>9. CASE j < l
      <3>1. j \in 0 .. l - 1
        BY <2>5, <2>9
      <3>2. CASE t.first # Leaf
        <4>1. FacedBy(t.first, gap, f, j)
          BY <2>1, <2>2, <2>4, <3>1, <3>2
        <4>2. PICK i \in 0 .. l - 1, dir \in Directions :
                  /\ Beside(RectOf(t.first, gap, f, i), RectOf(t.first, gap, f, j), dir, gap)
                  /\ Covers(RectOf(t.first, gap, f, i), RectOf(t.first, gap, f, j), dir)
          BY <4>1 DEF FacedBy
        <4> QED BY <2>7, <3>1, <4>2 DEF FacedBy
      <3>3. CASE t.first = Leaf
        <4> DEFINE r == RectOf(t, gap, b, j)
                   q == RectOf(t, gap, b, l)
        <4>1. l = 1 /\ j = 0
          BY <2>5, <2>9, <3>3, LeavesAre, NodeFacts
        <4>2. r = Rect(f.x, f.y, f.w, f.h)
          <5>1. f.w >= 1 /\ f.h >= 1 /\ f.w \in Int /\ f.h \in Int
            BY <2>2 DEF Sized, Rects
          <5> QED BY <2>2, <2>7, <3>1, <3>3, <4>1, <5>1, RectOfLeaf DEF AtLeast1
        <4>3. l \in 0 .. Leaves[t] - 1 /\ q = RectOf(t.second, gap, s, 0)
          BY <2>5, <2>8
        <4>4. q \in Rects /\ Inside(q, s) /\ q.x = s.x /\ q.y = s.y
          BY <2>1, <2>2, <2>5, <2>6, <4>3, RectsApart, Corners
        <4>5. f.x \in Int /\ f.y \in Int /\ f.w \in Int /\ f.h \in Int
          BY <2>2 DEF Rects
        <4> HIDE DEF r, q, l, f, s
        <4>6. r.x = f.x /\ r.y = f.y /\ r.w = f.w /\ r.h = f.h
          BY <4>2 DEF Rect
        <4>7. CASE t.vertical
          <5>1. Beside(q, r, "left", gap) /\ Covers(q, r, "left")
            BY <2>3, <4>4, <4>6, <4>7 DEF Beside, Covers, Horizontal, Inside
          <5> QED BY <4>3, <5>1 DEF FacedBy, Directions, r, q
        <4>8. CASE ~t.vertical
          <5>1. Beside(q, r, "up", gap) /\ Covers(q, r, "up")
            BY <2>3, <4>4, <4>6, <4>8 DEF Beside, Covers, Horizontal, Inside
          <5> QED BY <4>3, <5>1 DEF FacedBy, Directions, r, q
        <4> QED BY <4>7, <4>8
      <3> QED BY <3>2, <3>3
    <2>10. CASE ~(j < l)
      <3> DEFINE k == j - l
      <3>1. k \in 0 .. Leaves[t.second] - 1 /\ l + k = j
        BY <2>5, <2>10
      <3>2. RectOf(t, gap, b, j) = RectOf(t.second, gap, s, k)
        BY <2>8, <3>1
      <3> HIDE DEF k
      <3>3. CASE t.second # Leaf
        <4>1. FacedBy(t.second, gap, s, k)
          BY <2>1, <2>2, <2>4, <3>1, <3>3
        <4>2. PICK i \in 0 .. Leaves[t.second] - 1, dir \in Directions :
                  /\ Beside(RectOf(t.second, gap, s, i), RectOf(t.second, gap, s, k), dir, gap)
                  /\ Covers(RectOf(t.second, gap, s, i), RectOf(t.second, gap, s, k), dir)
          BY <4>1 DEF FacedBy
        <4>3. l + i \in 0 .. Leaves[t] - 1 /\ RectOf(t, gap, b, l + i) = RectOf(t.second, gap, s, i)
          BY <2>8
        <4> HIDE DEF l
        <4> QED BY <3>2, <4>2, <4>3 DEF FacedBy
      <3>4. CASE t.second = Leaf
        <4> DEFINE r == RectOf(t, gap, b, j)
                   n == l - 1
                   q == RectOf(t, gap, b, n)
        <4>1. k = 0
          BY <2>5, <3>1, <3>4, LeavesAre, NodeFacts
        <4>2. r = Rect(s.x, s.y, s.w, s.h)
          <5>1. s.w >= 1 /\ s.h >= 1 /\ s.w \in Int /\ s.h \in Int
            BY <2>2 DEF Sized, Rects
          <5> QED BY <2>2, <3>2, <3>4, <4>1, <5>1, RectOfLeaf DEF AtLeast1
        <4>3. n \in 0 .. l - 1 /\ n \in 0 .. Leaves[t] - 1 /\ q = RectOf(t.first, gap, f, n)
          BY <2>5, <2>7
        <4>4. q \in Rects /\ Inside(q, f) /\ q.x + q.w = f.x + f.w /\ q.y + q.h = f.y + f.h
          BY <2>1, <2>2, <2>5, <2>6, <4>3, RectsApart, Corners
        <4>5. s.x \in Int /\ s.y \in Int /\ s.w \in Int /\ s.h \in Int
          BY <2>2 DEF Rects
        <4> HIDE DEF r, q, n, l, f, s
        <4>6. r.x = s.x /\ r.y = s.y /\ r.w = s.w /\ r.h = s.h
          BY <4>2 DEF Rect
        <4>7. CASE t.vertical
          <5>1. Beside(q, r, "right", gap) /\ Covers(q, r, "right")
            BY <2>3, <4>4, <4>6, <4>7 DEF Beside, Covers, Horizontal, Inside
          <5> QED BY <4>3, <5>1 DEF FacedBy, Directions, r, q
        <4>8. CASE ~t.vertical
          <5>1. Beside(q, r, "down", gap) /\ Covers(q, r, "down")
            BY <2>3, <4>4, <4>6, <4>8 DEF Beside, Covers, Horizontal, Inside
          <5> QED BY <4>3, <5>1 DEF FacedBy, Directions, r, q
        <4> QED BY <4>7, <4>8
      <3> QED BY <3>3, <3>4
    <2> QED BY <2>9, <2>10
  <1>3. Nodes \subseteq T
    <2> HIDE DEF T
    <2> QED BY <1>1, <1>2, TreeInduction
  <1> QED BY <1>3

(* No window is cut off: from a window right beside it a direction key     *)
(* leads into it (src/tiling.rs, spatial_neighbor).                        *)
THEOREM EveryWindowIsEntered == Spec => []NoWindowCutOff
  <1>1. TreeOK => NoWindowCutOff
    <2> SUFFICES ASSUME TreeOK, NEW box \in Boxes, NEW gap \in Gaps, HasRoom(box, gap, 2),
                        NEW j \in DOMAIN tree_rects(tree, box, gap),
                        DOMAIN tree_rects(tree, box, gap) # {j}
                 PROVE  \E i \in DOMAIN tree_rects(tree, box, gap), dir \in Directions :
                            /\ Beside(tree_rects(tree, box, gap)[i],
                                      tree_rects(tree, box, gap)[j], dir, gap)
                            /\ spatial_neighbor(tree_rects(tree, box, gap), i, dir) = j
      BY ZenonT(60) DEF NoWindowCutOff, Everywhere
    <2> DEFINE rects == tree_rects(tree, box, gap)
               b == Padded(box, gap)
    <2>1. Standing(rects, b, gap) /\ gap \in Nat /\ box \in Rects /\ b \in Rects /\ Sized(b)
      BY RectsStand, PaddedType, SplitTreeAssumption
    <2>2. tree # None
      <3>1. SUFFICES ASSUME tree = None PROVE FALSE
        OBVIOUS
      <3>2. rects = <<>>
        BY <3>1 DEF tree_rects
      <3> QED BY <3>2
    <2>3. tree \in Nodes /\ RoomIn[tree][2][gap][b]
      BY <2>2, TreeCount DEF TreeOK, HasRoom
    <2>4. /\ DOMAIN rects = 1 .. Leaves[tree]
          /\ \A i \in 1 .. Leaves[tree] :
              i - 1 \in 0 .. Leaves[tree] - 1 /\ rects[i] = RectOf(tree, gap, b, i - 1)
      BY <2>1, <2>3, TreeRects
    <2> HIDE DEF rects, b
    <2>5. j \in DOMAIN rects /\ DOMAIN rects # {j} /\ Leaves[tree] \in Nat
      BY <2>3, LeavesType DEF rects
    <2>6. tree # Leaf
      <3>1. SUFFICES ASSUME tree = Leaf PROVE FALSE
        OBVIOUS
      <3>2. Leaves[tree] = 1
        BY <3>1, LeavesAre, NodeFacts
      <3>3. 1 .. 1 = {1}
        OBVIOUS
      <3> QED BY <2>4, <2>5, <3>2, <3>3
    <2>7. FacedBy(tree, gap, b, j - 1)
      BY <2>1, <2>3, <2>4, <2>5, <2>6, EachIsFaced
    <2>8. PICK n \in 0 .. Leaves[tree] - 1, dir \in Directions :
              /\ Beside(RectOf(tree, gap, b, n), RectOf(tree, gap, b, j - 1), dir, gap)
              /\ Covers(RectOf(tree, gap, b, n), RectOf(tree, gap, b, j - 1), dir)
      BY <2>7 DEF FacedBy
    <2> DEFINE i == n + 1
    <2>9. i \in 1 .. Leaves[tree] /\ i - 1 = n
      BY <2>5
    <2> HIDE DEF i
    <2>10. i \in DOMAIN rects /\ rects[i] = RectOf(tree, gap, b, n) /\ rects[j] = RectOf(tree, gap, b, j - 1)
      BY <2>4, <2>5, <2>9
    <2>11. Faces(rects, i, j, dir, gap)
      BY <2>8, <2>10 DEF Faces
    <2>12. spatial_neighbor(rects, i, dir) = j
      BY <2>1, <2>5, <2>10, <2>11, FacedIsNeighbour
    <2> QED BY <2>10, <2>11, <2>12 DEF Faces, rects
  <1> QED BY <1>1, TreeInvariance, PTL
=============================================================================
