---------------------------- MODULE ScreensProofs ----------------------------
(***************************************************************************)
(* Screens, for any outputs, layer surfaces, layers and exclusive zones,   *)
(* those that change while a surface is mapped included, and any number of *)
(* forced repaints, whichever of them fail.                                *)
(***************************************************************************)
EXTENDS Screens, ListLemmas

(* The types the steps rely on; a surface that exists is listed once.      *)
Lists ==
    /\ outputs \in Seq(OutputIds) /\ Once(outputs)
    /\ layers \in Seq(Surfaces) /\ Once(layers)
    /\ target \in [Surfaces -> OutputIds \cup {NoOutput}]
    /\ life \in [Surfaces -> {"absent", "created", "initialized", "mapped"}]
    /\ layer \in [Surfaces -> 0 .. 3] /\ zone \in [Surfaces -> Nat]
    /\ \A s \in Surfaces : life[s] # "absent" <=> s \in Range(layers)

Areas == reserved = [id \in OutputIds |-> reserved[id]]

(* With an output connected, no surface waits for one.                     *)
NoneWaits == outputs # <<>> => \A s \in Range(layers) : target[s] # NoOutput

(* What UsableIsCurrent and BarsStandApart say of one output: its usable   *)
(* area is what its mapped surfaces leave, and they stand apart.           *)
Bars(id) == Mapped(Attached(id))

Apart(id) ==
    \A s, t \in Bars(id) :
        /\ place[s] + zone[s] <= reserved[id]
        /\ s # t => place[s] + zone[s] <= place[t] \/ place[t] + zone[t] <= place[s]

Neat(id) == reserved[id] = Reserve(Attached(id)) /\ Apart(id)

AllNeat == \A id \in Connected : Neat(id)

(* The inductive invariant of the layer surfaces.                          *)
LayerInv == Lists /\ Areas /\ NoneWaits /\ CommitsAnswered /\ AllNeat

-----------------------------------------------------------------------------
(* What surfaces reserve: the sum of their zones.                          *)
LEMMA TotalIs == \A S : Total(S) = SumOf(zone, S)
  BY DEF Total, MapThenSumSet, MapThenFoldSet, ZoneOf, SumOf, Adding, AddsUp, Chosen

LEMMA ReserveIs == \A id : Reserve(Attached(id)) = SumOf(zone, Bars(id))
  BY TotalIs DEF Reserve, Bars

LEMMA ReserveIsNext == (\A id : Reserve(Attached(id)) = SumOf(zone, Bars(id)))'
  BY ReserveIs, PTL

LEMMA BarsFacts ==
    ASSUME Lists, NEW id
    PROVE  /\ Bars(id) \subseteq Range(layers) /\ Range(layers) \subseteq Surfaces
           /\ IsFiniteSet(Bars(id))
  <1>1. Bars(id) \subseteq Range(layers) /\ Range(layers) \subseteq Surfaces
    BY SeqFacts DEF Lists, Bars, Mapped, Attached
  <1>2. Bars(id) \subseteq Surfaces
    BY <1>1
  <1> QED BY <1>1, <1>2, LayerAssumption, FS_Subset

LEMMA SumFacts ==
    ASSUME NEW Z \in [Surfaces -> Nat], NEW S \in SUBSET Surfaces
    PROVE  /\ SumOf(Z, S) \in Nat
           /\ \A T \in SUBSET S : SumOf(Z, T) <= SumOf(Z, S)
           /\ \A s \in Surfaces \ S : SumOf(Z, S \cup {s}) = SumOf(Z, S) + Z[s]
  <1>1. IsFiniteSet(S)
    BY LayerAssumption, FS_Subset
  <1>2. \A s \in Surfaces : Z[s] \in Nat
    OBVIOUS
  <1>3. SumOf(Z, S) \in Nat
    BY <1>1, <1>2, SumOfNat
  <1>4. \A T \in SUBSET S : SumOf(Z, T) <= SumOf(Z, S)
    BY <1>1, <1>2, SumOfFewer
  <1>5. ASSUME NEW s \in Surfaces \ S PROVE SumOf(Z, S \cup {s}) = SumOf(Z, S) + Z[s]
    <2>1. s \notin S /\ \A x \in S \cup {s} : Z[x] \in Int
      BY <1>2
    <2> QED BY <1>1, <2>1, SumOfMore
  <1> QED BY <1>3, <1>4, <1>5

-----------------------------------------------------------------------------
(* arrange_layers puts each mapped surface behind what those before it     *)
(* reserve.                                                                *)
Before(id, s) == {t \in Bars(id) : Precedes(t, s)}

Arranged(id) ==
    /\ reserved[id] = SumOf(zone, Bars(id))
    /\ \A s \in Bars(id) : place[s] = SumOf(zone, Before(id, s))

(* So they stand side by side, in the strip that is left out of the usable *)
(* area.                                                                   *)
ArrangedIsNeat == \A id \in OutputIds : Arranged(id) => Neat(id)

LEMMA ArrangingSetsApart == Lists => ArrangedIsNeat
  <1> SUFFICES ASSUME Lists, NEW id \in OutputIds, Arranged(id) PROVE Neat(id)
    BY DEF ArrangedIsNeat
  <1>1. /\ layers \in Seq(Surfaces) /\ Once(layers)
        /\ Bars(id) \subseteq Range(layers) /\ Range(layers) \subseteq Surfaces
    BY BarsFacts DEF Lists
  <1>2. \A t \in Range(layers) : IndexOf(t) \in 1 .. Len(layers) /\ layers[IndexOf(t)] = t
    <2>1. \A t \in Range(layers) :
            PositionOf(layers, t) \in 1 .. Len(layers) /\ layers[PositionOf(layers, t)] = t
      BY <1>1, PositionFacts
    <2> QED BY <2>1 DEF IndexOf, PositionOf
  <1>3. zone \in [Surfaces -> Nat] /\ \A t \in Surfaces : layer[t] \in Nat /\ zone[t] \in Nat
    <2>1. zone \in [Surfaces -> Nat] /\ layer \in [Surfaces -> 0 .. 3]
      BY DEF Lists
    <2>2. \A n \in 0 .. 3 : n \in Nat
      OBVIOUS
    <2> QED BY <2>1, <2>2
  <1>4. ASSUME NEW t \in Bars(id)
        PROVE  /\ place[t] = SumOf(zone, Before(id, t)) /\ place[t] \in Nat
               /\ Before(id, t) \cup {t} \in SUBSET Bars(id)
               /\ SumOf(zone, Before(id, t) \cup {t}) = place[t] + zone[t]
    <2>1. place[t] = SumOf(zone, Before(id, t))
      BY DEF Arranged
    <2>2. ~Precedes(t, t)
      BY <1>1, <1>2, <1>3 DEF Precedes
    <2>3. /\ Before(id, t) \in SUBSET Surfaces /\ t \in Surfaces \ Before(id, t)
          /\ Before(id, t) \cup {t} \in SUBSET Bars(id)
      BY <1>1, <2>2 DEF Before
    <2> QED BY <1>3, <2>1, <2>3, SumFacts
  <1>5. ASSUME NEW t \in Bars(id) PROVE place[t] + zone[t] <= reserved[id]
    <2>1. Bars(id) \in SUBSET Surfaces
      BY <1>1
    <2>2. SumOf(zone, Before(id, t) \cup {t}) <= SumOf(zone, Bars(id))
      BY <1>3, <1>4, <2>1, SumFacts
    <2>3. reserved[id] = SumOf(zone, Bars(id))
      BY DEF Arranged
    <2>4. SumOf(zone, Before(id, t) \cup {t}) = place[t] + zone[t]
      BY <1>4
    <2> QED BY <2>2, <2>3, <2>4
  <1>6. ASSUME NEW t \in Bars(id), NEW u \in Bars(id), Precedes(t, u)
        PROVE  place[t] + zone[t] <= place[u]
    <2>1. ASSUME NEW v \in Range(layers), Precedes(v, t) PROVE Precedes(v, u)
      <3>1. \A w \in {v, t, u} : layer[w] \in Int /\ IndexOf(w) \in Int
        BY <1>1, <1>2, <1>3, <1>6, <2>1
      <3> QED BY <1>6, <2>1, <3>1 DEF Precedes
    <2>2. Before(id, t) \cup {t} \in SUBSET Before(id, u)
      BY <1>1, <1>6, <2>1 DEF Before
    <2>3. Before(id, u) \in SUBSET Surfaces
      BY <1>1 DEF Before
    <2>4. SumOf(zone, Before(id, t) \cup {t}) <= SumOf(zone, Before(id, u))
      BY <1>3, <2>2, <2>3, SumFacts
    <2> QED BY <1>4, <2>4
  <1>7. ASSUME NEW t \in Bars(id), NEW u \in Bars(id), t # u PROVE Precedes(t, u) \/ Precedes(u, t)
    BY <1>1, <1>2, <1>3, <1>7 DEF Precedes
  <1>8. Apart(id)
    BY <1>5, <1>6, <1>7 DEF Apart
  <1> QED BY <1>8, ReserveIs DEF Arranged, Neat

(* arrange_layers moves no surface of another output, and sends every one  *)
(* on its own a configure.                                                 *)
LEMMA ArrangeFacts ==
    ASSUME Lists', Areas, NEW id \in OutputIds, NEW sent, ArrangeLayers(id, sent)
    PROVE  /\ Areas' /\ Neat(id)'
           /\ \A i \in OutputIds \ {id} : reserved'[i] = reserved[i]
           /\ \A s \in Surfaces \ Attached(id)' : place'[s] = place[s]
           /\ configured' = sent \cup Attached(id)'
  <1>1. Areas' /\ reserved'[id] = Reserve(Attached(id))'
        /\ \A i \in OutputIds \ {id} : reserved'[i] = reserved[i]
    BY DEF ArrangeLayers, Areas
  <1>2. /\ \A s \in Surfaces \ Attached(id)' : place'[s] = place[s]
        /\ configured' = sent \cup Attached(id)'
        /\ \A s \in Surfaces \cap Attached(id)' :
              place'[s] = Reserve({t \in Attached(id) : Precedes(t, s)})'
    BY DEF ArrangeLayers
  <1>3. (\A S : Total(S) = SumOf(zone, S))'
    BY TotalIs, PTL
  <1>4. ASSUME NEW s
        PROVE  Reserve({t \in Attached(id) : Precedes(t, s)})' = SumOf(zone', Before(id, s)')
    <2>1. Mapped({t \in Attached(id) : Precedes(t, s)})' = Before(id, s)'
      BY DEF Mapped, Before, Bars
    <2>2. Reserve({t \in Attached(id) : Precedes(t, s)})' = Total(Before(id, s))'
      BY <2>1 DEF Reserve
    <2> QED BY <1>3, <2>2
  <1>5. Bars(id)' \subseteq Attached(id)' /\ Bars(id)' \subseteq Surfaces
    BY SeqFacts DEF Lists, Bars, Mapped, Attached
  <1>6. Arranged(id)'
    BY <1>1, <1>2, <1>4, <1>5, ReserveIsNext DEF Arranged
  <1>7. ArrangedIsNeat'
    BY ArrangingSetsApart, PTL
  <1>8. Neat(id)'
    BY <1>6, <1>7 DEF ArrangedIsNeat
  <1> QED BY <1>1, <1>2, <1>8

(* An output whose mapped surfaces stay what and where they are.           *)
LEMMA UnmovedIsNeat ==
    ASSUME Lists, NEW id, Neat(id), Bars(id)' = Bars(id), reserved'[id] = reserved[id],
           \A s \in Bars(id) : place'[s] = place[s] /\ zone'[s] = zone[s]
    PROVE  Neat(id)'
  <1>1. Apart(id)'
    BY DEF Neat, Apart
  <1>2. SumOf(zone', Bars(id)) = SumOf(zone, Bars(id))
    <2>1. IsFiniteSet(Bars(id)) /\ \A s \in Bars(id) : zone[s] \in Int /\ zone[s] = zone'[s]
      BY BarsFacts DEF Lists
    <2> QED BY <2>1, SumOfSame
  <1>3. reserved'[id] = Reserve(Attached(id))'
    BY <1>2, ReserveIs, ReserveIsNext DEF Neat
  <1> QED BY <1>1, <1>3 DEF Neat

(* A handler that ends in rearrange_layer_output of where, and leaves the  *)
(* mapped surfaces of all other outputs alone.                             *)
LEMMA RearrangeFacts ==
    ASSUME LayerInv, Lists', UNCHANGED outputs, NEW where, NEW sent, Rearrange(where, sent),
           \A id \in Connected \ {where} :
              Bars(id)' = Bars(id) /\ \A s \in Bars(id) : zone'[s] = zone[s]
    PROVE  /\ Areas' /\ AllNeat' /\ sent \subseteq configured'
           /\ where \in Connected => Attached(where)' \subseteq configured'
  <1>1. Connected' = Connected /\ Connected \subseteq OutputIds
    BY SeqFacts DEF Connected, LayerInv, Lists
  <1>2. Lists /\ Areas /\ \A id \in Connected : Neat(id)
    BY DEF LayerInv, AllNeat
  <1>3. CASE where \notin Connected
    <2>1. configured' = sent /\ UNCHANGED <<place, reserved>>
      BY <1>3 DEF Rearrange
    <2>2. ASSUME NEW id \in Connected PROVE Neat(id)'
      BY <1>2, <1>3, <2>1, UnmovedIsNeat
    <2> QED BY <1>1, <1>2, <1>3, <2>1, <2>2 DEF Areas, AllNeat
  <1>4. CASE where \in Connected
    <2>1. ArrangeLayers(where, sent) /\ where \in OutputIds
      BY <1>1, <1>4 DEF Rearrange
    <2>2. /\ Areas' /\ Neat(where)'
          /\ \A i \in OutputIds \ {where} : reserved'[i] = reserved[i]
          /\ \A s \in Surfaces \ Attached(where)' : place'[s] = place[s]
          /\ configured' = sent \cup Attached(where)'
      BY <1>2, <2>1, ArrangeFacts
    <2>3. ASSUME NEW id \in Connected, id # where PROVE Neat(id)'
      <3>1. Bars(id)' = Bars(id) /\ \A s \in Bars(id) : zone'[s] = zone[s]
        BY <2>3
      <3>2. \A s \in Bars(id)' : s \notin Attached(where)'
        BY <2>3 DEF Bars, Mapped, Attached
      <3>3. Bars(id) \subseteq Surfaces
        BY <1>2, BarsFacts
      <3>4. \A s \in Bars(id) : place'[s] = place[s]
        BY <2>2, <3>1, <3>2, <3>3
      <3>5. reserved'[id] = reserved[id]
        BY <1>1, <2>2, <2>3
      <3> QED BY <1>2, <3>1, <3>4, <3>5, UnmovedIsNeat
    <2> QED BY <1>1, <2>2, <2>3 DEF AllNeat
  <1> QED BY <1>3, <1>4

-----------------------------------------------------------------------------
(* A surface's commit, map and unmap: it goes from one living state to     *)
(* another, with a zone that may be new, and forgets its configure only    *)
(* when it is unmapped.                                                    *)
LEMMA LiveStep ==
    ASSUME LayerInv, NEW s \in Surfaces, life[s] # "absent",
           NEW to \in {"created", "initialized", "mapped"}, life' = [life EXCEPT ![s] = to],
           NEW z \in Nat, zone' = [zone EXCEPT ![s] = z],
           UNCHANGED <<outputs, layers, target, layer>>,
           NEW sent, Rearrange(target[s], sent),
           sent = configured \/ (sent = configured \ {s} /\ to # "initialized")
    PROVE  LayerInv'
  <1>1. /\ s \in Range(layers)
        /\ \A t \in Surfaces : life'[t] = IF t = s THEN to ELSE life[t]
        /\ \A t \in Surfaces \ {s} : zone'[t] = zone[t]
    BY DEF LayerInv, Lists
  <1>2. Lists'
    BY <1>1 DEF LayerInv, Lists
  <1>3. ASSUME NEW id \in Connected \ {target[s]}
        PROVE  Bars(id)' = Bars(id) /\ \A t \in Bars(id) : zone'[t] = zone[t]
    <2>1. Bars(id) \subseteq Surfaces /\ Range(layers) \subseteq Surfaces
      BY BarsFacts DEF LayerInv
    <2>2. Attached(id)' = Attached(id) /\ s \notin Attached(id)
      BY <1>3 DEF Attached
    <2>3. Bars(id)' = Bars(id) /\ s \notin Bars(id)
      BY <1>1, <2>1, <2>2 DEF Bars, Mapped, Attached
    <2> QED BY <1>1, <2>1, <2>3
  <1>4. /\ Areas' /\ AllNeat' /\ sent \subseteq configured'
        /\ target[s] \in Connected => Attached(target[s])' \subseteq configured'
    BY <1>2, <1>3, RearrangeFacts
  <1>5. NoneWaits'
    BY DEF LayerInv, NoneWaits
  <1>6. CommitsAnswered'
    <2> SUFFICES ASSUME NEW t \in Surfaces, life'[t] = "initialized",
                        target[t] \in Connected \/ (target[t] = NoOutput /\ outputs # <<>>)
                 PROVE  t \in configured'
      BY DEF CommitsAnswered, Connected
    <2>1. t \in Range(layers)
      BY <1>1 DEF LayerInv, Lists
    <2>2. target[t] \in Connected
      BY <2>1 DEF LayerInv, NoneWaits
    <2>3. CASE t = s
      BY <1>4, <2>1, <2>2, <2>3 DEF Attached
    <2>4. CASE t # s
      BY <1>1, <1>4, <2>2, <2>4 DEF LayerInv, CommitsAnswered
    <2> QED
      BY <2>3, <2>4
  <1> QED
    BY <1>2, <1>4, <1>5, <1>6 DEF LayerInv

LEMMA CommitStep ==
    ASSUME LayerInv, NEW s \in Surfaces, NEW z \in Nat, LayerCommit(s, z)
    PROVE  LayerInv'
  <1> DEFINE to == IF life[s] = "created" THEN "initialized" ELSE life[s]
  <1>1. life[s] \in {"created", "initialized", "mapped"}
    BY DEF LayerCommit, LayerInv, Lists
  <1>2. to \in {"created", "initialized", "mapped"} /\ life' = [life EXCEPT ![s] = to]
    BY <1>1 DEF LayerCommit
  <1> HIDE DEF to
  <1> QED BY <1>1, <1>2, LiveStep DEF LayerCommit

LEMMA MapStep ==
    ASSUME LayerInv, NEW s \in Surfaces, NEW z \in Nat, LayerMap(s, z)
    PROVE  LayerInv'
  BY LiveStep DEF LayerMap

LEMMA UnmapStep ==
    ASSUME LayerInv, NEW s \in Surfaces, LayerUnmap(s)
    PROVE  LayerInv'
  <1>1. zone[s] \in Nat /\ zone' = [zone EXCEPT ![s] = zone[s]]
    BY DEF LayerUnmap, LayerInv, Lists
  <1> QED BY <1>1, LiveStep DEF LayerUnmap

(* A client's set_layer: nothing is arranged, and nothing is out of place. *)
LEMMA SetLayerStep ==
    ASSUME LayerInv, NEW s \in Surfaces, NEW l \in 0 .. 3, SetLayer(s, l)
    PROVE  LayerInv'
  <1>1. /\ UNCHANGED <<outputs, layers, target, life, zone, configured, place, reserved>>
        /\ layer' \in [Surfaces -> 0 .. 3]
    BY DEF SetLayer, LayerInv, Lists
  <1>2. Lists' /\ Areas' /\ NoneWaits' /\ CommitsAnswered'
    BY <1>1 DEF LayerInv, Lists, Areas, NoneWaits, CommitsAnswered, Connected
  <1>3. ASSUME NEW id \in Connected PROVE Neat(id)'
    <2>1. Bars(id)' = Bars(id)
      BY <1>1 DEF Bars, Mapped, Attached
    <2> QED BY <1>1, <2>1, UnmovedIsNeat DEF LayerInv, AllNeat
  <1> QED BY <1>1, <1>2, <1>3 DEF LayerInv, AllNeat, Connected

(* handle_new_layer_surface.                                               *)
LEMMA NewSurfaceStep ==
    ASSUME LayerInv, NEW s \in Surfaces, NEW wanted, NEW l \in 0 .. 3, NewLayerSurface(s, wanted, l)
    PROVE  LayerInv'
  <1>1. /\ s \notin Range(layers)
        /\ \A t \in Surfaces : life'[t] = IF t = s THEN "created" ELSE life[t]
        /\ \A t \in Surfaces : target'[t] = IF t = s THEN wanted ELSE target[t]
        /\ UNCHANGED <<outputs, zone, configured, place, reserved>>
    BY DEF NewLayerSurface, LayerInv, Lists
  <1>2. layers' \in Seq(Surfaces) /\ Once(layers') /\ Range(layers') = Range(layers) \cup {s}
    BY <1>1, AppendFacts, AppendOnce DEF NewLayerSurface, LayerInv, Lists
  <1>3. wanted \in OutputIds \cup {NoOutput} /\ (outputs # <<>> => wanted # NoOutput)
    BY SeqFacts, LayerAssumption DEF NewLayerSurface, Connected, LayerInv, Lists
  <1>4. Range(layers) \subseteq Surfaces
    BY SeqFacts DEF LayerInv, Lists
  <1>5. Lists'
    BY <1>1, <1>2, <1>3 DEF NewLayerSurface, LayerInv, Lists
  <1>6. NoneWaits'
    BY <1>1, <1>2, <1>3, <1>4 DEF NewLayerSurface, LayerInv, NoneWaits
  <1>7. CommitsAnswered'
    BY <1>1 DEF NewLayerSurface, LayerInv, CommitsAnswered, Connected
  <1>8. ASSUME NEW id \in Connected PROVE Neat(id)'
    <2>1. Bars(id)' = Bars(id)
      BY <1>1, <1>2, <1>4 DEF Bars, Mapped, Attached
    <2> QED BY <1>1, <2>1, UnmovedIsNeat DEF LayerInv, AllNeat
  <1> QED
    BY <1>1, <1>5, <1>6, <1>7, <1>8 DEF LayerInv, Areas, AllNeat, Connected

(* handle_layer_destroy.                                                   *)
LEMMA DestroyStep ==
    ASSUME LayerInv, NEW s \in Surfaces, LayerDestroy(s)
    PROVE  LayerInv'
  <1>1. s \in Range(layers) /\ IndexOf(s) \in 1 .. Len(layers) /\ layers[IndexOf(s)] = s
    <2>1. s \in Range(layers)
      BY DEF LayerDestroy, LayerInv, Lists
    <2>2. DOMAIN layers = 1 .. Len(layers)
      BY SeqFacts DEF LayerInv, Lists
    <2> QED
      BY <2>1, <2>2 DEF Range, IndexOf
  <1>2. layers' \in Seq(Surfaces) /\ Once(layers') /\ Range(layers') = Range(layers) \ {s}
    <2>1. layers \in Seq(Surfaces) /\ Once(layers) /\ layers' = RemoveAt(layers, IndexOf(s))
      BY DEF LayerDestroy, LayerInv, Lists
    <2> QED
      BY <1>1, <2>1, RemoveAtFacts, RemoveAtOnce
  <1>3. /\ \A t \in Surfaces : life'[t] = IF t = s THEN "absent" ELSE life[t]
        /\ \A t \in Surfaces : target'[t] = IF t = s THEN NoOutput ELSE target[t]
        /\ \A t \in Surfaces \ {s} : zone'[t] = zone[t]
        /\ Rearrange(target[s], configured \ {s}) /\ UNCHANGED outputs
    BY DEF LayerDestroy, LayerInv, Lists
  <1>4. Range(layers) \subseteq Surfaces
    BY SeqFacts DEF LayerInv, Lists
  <1>5. Lists'
    BY <1>2, <1>3 DEF LayerDestroy, LayerInv, Lists
  <1>6. ASSUME NEW id \in Connected \ {target[s]}
        PROVE  Bars(id)' = Bars(id) /\ \A t \in Bars(id) : zone'[t] = zone[t]
    <2>1. id # NoOutput
      BY SeqFacts, LayerAssumption DEF Connected, LayerInv, Lists
    <2>2. Attached(id)' = Attached(id) /\ Attached(id) \subseteq Surfaces \ {s}
      BY <1>2, <1>3, <1>4, <1>6, <2>1 DEF Attached
    <2>3. Bars(id)' = Bars(id) /\ Bars(id) \subseteq Surfaces \ {s}
      BY <1>3, <2>2 DEF Bars, Mapped
    <2> QED BY <1>3, <2>3
  <1>7. Areas' /\ AllNeat' /\ configured \ {s} \subseteq configured'
    BY <1>3, <1>5, <1>6, RearrangeFacts
  <1>8. NoneWaits'
    BY <1>2, <1>3, <1>4 DEF LayerInv, NoneWaits
  <1>9. CommitsAnswered'
    BY <1>3, <1>7 DEF LayerInv, CommitsAnswered, Connected
  <1> QED
    BY <1>5, <1>7, <1>8, <1>9 DEF LayerInv

-----------------------------------------------------------------------------
(* Monitors that come and go.                                              *)

(* handle_new_output: the surfaces that wait find their output.            *)
LEMMA AttachStep ==
    ASSUME LayerInv, NEW id \in OutputIds, AttachPending(id)
    PROVE  LayerInv'
  <1>1. /\ outputs' \in Seq(OutputIds) /\ Once(outputs') /\ outputs' # <<>>
        /\ Connected' = Connected \cup {id} /\ id \notin Connected
    <2>1. outputs \in Seq(OutputIds) /\ Once(outputs) /\ id \notin Range(outputs)
      BY DEF AttachPending, Connected, LayerInv, Lists
    <2> QED
      BY <2>1, AppendFacts, AppendOnce, SeqFacts DEF AttachPending, Connected
  <1>2. /\ \A t \in Surfaces : target'[t] = IF t \in Range(layers) /\ target[t] = NoOutput
                                            THEN id ELSE target[t]
        /\ target' \in [Surfaces -> OutputIds \cup {NoOutput}]
        /\ UNCHANGED <<layers, life, layer, zone>> /\ ArrangeLayers(id, configured)
    BY DEF AttachPending, LayerInv, Lists
  <1>3. Range(layers) \subseteq Surfaces /\ Connected \subseteq OutputIds /\ NoOutput \notin OutputIds
    BY SeqFacts, LayerAssumption DEF Connected, LayerInv, Lists
  <1>4. Lists'
    BY <1>1, <1>2 DEF LayerInv, Lists
  <1>5. /\ Areas' /\ Neat(id)'
        /\ \A i \in OutputIds \ {id} : reserved'[i] = reserved[i]
        /\ \A s \in Surfaces \ Attached(id)' : place'[s] = place[s]
        /\ configured' = configured \cup Attached(id)'
    BY <1>2, <1>4, ArrangeFacts DEF LayerInv
  <1>6. NoneWaits'
    BY <1>2, <1>3 DEF NoneWaits
  <1>7. CommitsAnswered'
    <2> SUFFICES ASSUME NEW t \in Surfaces, life[t] = "initialized",
                        target'[t] \in Connected' \/ target'[t] = NoOutput
                 PROVE  t \in configured'
      BY <1>2 DEF CommitsAnswered
    <2>1. t \in Range(layers)
      BY DEF LayerInv, Lists
    <2>2. CASE target'[t] = id
      BY <1>2, <1>5, <2>1, <2>2 DEF Attached
    <2>3. CASE target'[t] # id
      <3>1. target'[t] = target[t] /\ target[t] # NoOutput /\ target[t] \in Connected
        BY <1>1, <1>2, <2>1, <2>3
      <3> QED
        BY <1>5, <3>1 DEF LayerInv, CommitsAnswered
    <2> QED
      BY <2>2, <2>3
  <1>8. ASSUME NEW i \in Connected PROVE Neat(i)'
    <2>1. i # id /\ i # NoOutput /\ reserved'[i] = reserved[i]
      BY <1>1, <1>3, <1>5
    <2>2. Attached(i)' = Attached(i) /\ Attached(i) \subseteq Surfaces \ Attached(id)'
      BY <1>2, <1>3, <2>1 DEF Attached
    <2>3. Bars(i)' = Bars(i) /\ Bars(i) \subseteq Attached(i)
      BY <1>2, <2>2 DEF Bars, Mapped
    <2>4. \A s \in Bars(i) : place'[s] = place[s] /\ zone'[s] = zone[s]
      BY <1>2, <1>5, <2>2, <2>3
    <2> QED BY <2>1, <2>3, <2>4, UnmovedIsNeat DEF LayerInv, AllNeat
  <1> QED
    BY <1>1, <1>4, <1>5, <1>6, <1>7, <1>8 DEF LayerInv, AllNeat

(* handle_output_destroy: the outputs that stay keep what they have.       *)
LEMMA UnplugStep ==
    ASSUME LayerInv, NEW id \in OutputIds, OutputDestroy(id)
    PROVE  LayerInv' /\ Connected' = Connected \ {id}
  <1>1. PICK k \in DOMAIN outputs : outputs[k] = id /\ outputs' = RemoveAt(outputs, k)
    BY DEF OutputDestroy
  <1>2. outputs' \in Seq(OutputIds) /\ Once(outputs') /\ Connected' = Connected \ {id}
    <2>1. outputs \in Seq(OutputIds) /\ Once(outputs) /\ k \in 1 .. Len(outputs)
      BY SeqFacts DEF LayerInv, Lists
    <2> QED
      BY <1>1, <2>1, RemoveAtFacts, RemoveAtOnce DEF Connected
  <1>3. outputs # <<>>
    BY <1>1 DEF LayerInv, Lists
  <1>4. /\ UNCHANGED <<layers, target, life, layer, zone, configured, place>>
        /\ reserved' = [reserved EXCEPT ![id] = 0]
    BY DEF OutputDestroy
  <1>5. Lists' /\ Areas'
    BY <1>2, <1>4 DEF LayerInv, Lists, Areas
  <1>6. NoneWaits'
    BY <1>3, <1>4 DEF LayerInv, NoneWaits
  <1>7. CommitsAnswered'
    BY <1>2, <1>3, <1>4 DEF LayerInv, CommitsAnswered
  <1>8. ASSUME NEW i \in Connected' PROVE Neat(i)'
    <2>1. i \in Connected /\ i # id /\ i \in OutputIds
      BY <1>2, SeqFacts DEF Connected, LayerInv, Lists
    <2>2. reserved'[i] = reserved[i]
      BY <1>4, <2>1 DEF LayerInv, Areas
    <2>3. Bars(i)' = Bars(i)
      BY <1>4 DEF Bars, Mapped, Attached
    <2> QED BY <1>4, <2>1, <2>2, <2>3, UnmovedIsNeat DEF LayerInv, AllNeat
  <1> QED
    BY <1>2, <1>5, <1>6, <1>7, <1>8 DEF LayerInv, AllNeat

(* A step that touches neither outputs nor layer surfaces.                 *)
LEMMA IdleStep ==
    ASSUME LayerInv, UNCHANGED <<outputs, layerVars>>
    PROVE  LayerInv'
  <1>1. UNCHANGED <<outputs, layers, target, life, layer, zone, configured, place, reserved>>
    BY DEF layerVars
  <1>2. Lists' /\ Areas' /\ NoneWaits' /\ CommitsAnswered'
    BY <1>1 DEF LayerInv, Lists, Areas, NoneWaits, CommitsAnswered, Connected
  <1>3. ASSUME NEW id \in Connected PROVE Neat(id)'
    <2>1. Bars(id)' = Bars(id)
      BY <1>1 DEF Bars, Mapped, Attached
    <2> QED BY <1>1, <2>1, UnmovedIsNeat DEF LayerInv, AllNeat
  <1> QED
    BY <1>1, <1>2, <1>3 DEF LayerInv, AllNeat, Connected

-----------------------------------------------------------------------------
(* Every layer surface's step is one of the above; none changes outputs.   *)
LEMMA LayerStep ==
    ASSUME LayerInv, LayerNext
    PROVE  LayerInv' /\ UNCHANGED outputs
  <1>1. PICK s \in Surfaces :
            \/ \E id \in OutputIds \cup {NoOutput}, l \in Layers[s] : NewLayerSurface(s, id, l)
            \/ \E l \in Layers[s] : SetLayer(s, l)
            \/ \E z \in Zones[s] : LayerCommit(s, z) \/ LayerMap(s, z)
            \/ LayerUnmap(s) \/ LayerDestroy(s)
    BY DEF LayerNext
  <1>2. Layers[s] \subseteq 0 .. 3 /\ Zones[s] \subseteq Nat
    BY LayerAssumption
  <1>3. ASSUME NEW id, NEW l \in Layers[s], NewLayerSurface(s, id, l) PROVE LayerInv' /\ UNCHANGED outputs
    BY <1>2, <1>3, NewSurfaceStep DEF NewLayerSurface
  <1>4. ASSUME NEW l \in Layers[s], SetLayer(s, l) PROVE LayerInv' /\ UNCHANGED outputs
    BY <1>2, <1>4, SetLayerStep DEF SetLayer
  <1>5. ASSUME NEW z \in Zones[s], LayerCommit(s, z) PROVE LayerInv' /\ UNCHANGED outputs
    BY <1>2, <1>5, CommitStep DEF LayerCommit
  <1>6. ASSUME NEW z \in Zones[s], LayerMap(s, z) PROVE LayerInv' /\ UNCHANGED outputs
    BY <1>2, <1>6, MapStep DEF LayerMap
  <1>7. CASE LayerUnmap(s)
    BY <1>7, UnmapStep DEF LayerUnmap
  <1>8. CASE LayerDestroy(s)
    BY <1>8, DestroyStep DEF LayerDestroy
  <1> QED
    BY <1>1, <1>3, <1>4, <1>5, <1>6, <1>7, <1>8

(* The invariant holds of every reachable state.                           *)
LEMMA LayerInvariance == Spec => []LayerInv
  <1>1. Init => LayerInv
    <2> SUFFICES ASSUME Init PROVE LayerInv
      OBVIOUS
    <2>1. /\ outputs = <<>> /\ layers = <<>>
          /\ target = [s \in Surfaces |-> NoOutput] /\ life = [s \in Surfaces |-> "absent"]
          /\ layer = [s \in Surfaces |-> 0] /\ zone = [s \in Surfaces |-> 0]
          /\ reserved = [id \in OutputIds |-> 0]
      BY DEF Init, LayerInit
    <2>2. Range(<<>>) = {} /\ Once(<<>>) /\ <<>> \in Seq(OutputIds) /\ <<>> \in Seq(Surfaces)
      BY DEF Range, Once
    <2>3. Lists
      BY <2>1, <2>2 DEF Lists
    <2>4. Areas /\ NoneWaits /\ CommitsAnswered /\ AllNeat
      BY <2>1, <2>2 DEF Areas, NoneWaits, CommitsAnswered, AllNeat, Connected
    <2> QED
      BY <2>3, <2>4 DEF LayerInv
  <1>2. LayerInv /\ [Next]_vars => LayerInv'
    <2> SUFFICES ASSUME LayerInv, [Next]_vars PROVE LayerInv'
      OBVIOUS
    <2>1. ASSUME NEW id \in OutputIds, NewOutput(id) PROVE LayerInv'
      BY <2>1, AttachStep DEF NewOutput
    <2>2. ASSUME NEW id \in OutputIds, OutputDestroy(id) PROVE LayerInv'
      BY <2>2, UnplugStep
    <2>3. ASSUME NEW id \in OutputIds, Frame(id) \/ Damage(id) PROVE LayerInv'
      BY <2>3, IdleStep DEF Frame, Damage
    <2>4. ASSUME SessionInactive \/ SessionActive PROVE LayerInv'
      BY <2>4, IdleStep DEF SessionInactive, SessionActive
    <2>5. ASSUME UNCHANGED vars PROVE LayerInv'
      BY <2>5, IdleStep DEF vars
    <2> QED
      BY <2>1, <2>2, <2>3, <2>4, <2>5, LayerStep DEF Next
  <1> QED
    BY <1>1, <1>2, PTL DEF Spec

(* Every initial commit that an output can answer has been answered        *)
(* (src/layer_shell.rs, src/output.rs: no client hangs).                   *)
THEOREM NoClientHangs == Spec => []CommitsAnswered
  BY LayerInvariance, PTL DEF LayerInv

(* The usable area of every output is its box less what the mapped         *)
(* surfaces on it reserve, after every commit, also of a mapped surface    *)
(* (src/layer_shell.rs, rearrange_layer_output).                           *)
THEOREM UsableAreaIsCurrent == Spec => []UsableIsCurrent
  <1>1. LayerInv => UsableIsCurrent
    BY DEF LayerInv, AllNeat, Neat, UsableIsCurrent
  <1> QED BY <1>1, LayerInvariance, PTL

(* Mapped bars of an output stand side by side, in what is reserved,       *)
(* whatever layers and zones they change to (src/tiling.rs,                *)
(* arrange_layers).                                                        *)
THEOREM BarsStandSideBySide == Spec => []BarsStandApart
  <1>1. LayerInv => BarsStandApart
    BY DEF LayerInv, AllNeat, Neat, Apart, Bars, BarsStandApart
  <1> QED BY <1>1, LayerInvariance, PTL

-----------------------------------------------------------------------------
(* An output that owes repaints has a frame scheduled while the VT is ours:*)
(* handle_frame schedules the next one itself, and whatever sets the       *)
(* counter schedules the first.                                            *)
THEOREM RepaintsGoOn == Spec => []OwingIsScheduled
  <1> DEFINE Counts == repaint_frames = [id \in OutputIds |-> repaint_frames[id]]
             Inv == Counts /\ OwingIsScheduled
  <1>1. Init => Inv
    <2> SUFFICES ASSUME Init PROVE Inv
      OBVIOUS
    <2>1. repaint_frames = [id \in OutputIds |-> 0] /\ Connected = {}
      BY DEF Init, LayerInit, Connected, Range
    <2> QED
      BY <2>1 DEF OwingIsScheduled
  <1>2. LayerInv /\ Inv /\ [Next]_vars => Inv'
    <2> SUFFICES ASSUME LayerInv, Inv, [Next]_vars PROVE Inv'
      OBVIOUS
    <2> USE DEF OwingIsScheduled
    <2>1. ASSUME UNCHANGED <<outputs, active, repaint_frames, scheduled>> PROVE Inv'
      BY <2>1 DEF Connected
    <2>2. CASE LayerNext /\ UNCHANGED frameVars
      <3>1. UNCHANGED outputs
        BY <2>2, LayerStep
      <3> QED
        BY <2>1, <2>2, <3>1 DEF frameVars
    <2>3. ASSUME NEW id \in OutputIds, NewOutput(id) PROVE Inv'
      <3>1. Connected' = Connected \cup {id}
        BY <2>3, AppendFacts DEF NewOutput, AttachPending, Connected, LayerInv, Lists
      <3> QED
        BY <2>3, <3>1, SeqFacts DEF NewOutput, Arm, Connected, LayerInv, Lists
    <2>4. ASSUME NEW id \in OutputIds, OutputDestroy(id) PROVE Inv'
      <3>1. Connected' = Connected \ {id} /\ Connected \subseteq OutputIds
        BY <2>4, UnplugStep, SeqFacts DEF Connected, LayerInv, Lists
      <3> QED
        BY <2>4, <3>1 DEF OutputDestroy
    <2>5. ASSUME NEW id \in OutputIds, Frame(id) PROVE Inv'
      <3>1. /\ Counts'
            /\ \A i \in OutputIds : i # id => repaint_frames'[i] = repaint_frames[i]
        BY <2>5 DEF Frame
      <3>2. repaint_frames'[id] > 0 => id \in scheduled'
        BY <2>5 DEF Frame
      <3>3. \A i \in OutputIds : i # id /\ i \in scheduled => i \in scheduled'
        BY <2>5 DEF Frame
      <3>4. UNCHANGED <<outputs, active>> /\ Connected \subseteq OutputIds
        BY <2>5, SeqFacts DEF Frame, Connected, LayerInv, Lists
      <3> QED
        BY <3>1, <3>2, <3>3, <3>4 DEF Connected
    <2>6. ASSUME NEW id \in OutputIds, Damage(id) PROVE Inv'
      BY <2>6 DEF Damage, Connected
    <2>7. CASE SessionInactive
      BY <2>7 DEF SessionInactive
    <2>8. CASE SessionActive
      BY <2>8 DEF SessionActive, Arm, Connected
    <2>9. CASE UNCHANGED vars
      BY <2>1, <2>9 DEF vars, frameVars
    <2> QED
      BY <2>2, <2>3, <2>4, <2>5, <2>6, <2>7, <2>8, <2>9 DEF Next
  <1> QED
    BY <1>1, <1>2, LayerInvariance, PTL DEF Spec

-----------------------------------------------------------------------------
(* The types.                                                              *)
AreaTypes == configured \in SUBSET Surfaces /\ place \in [Surfaces -> Nat] /\ reserved \in [OutputIds -> Nat]

FrameTypes ==
    /\ active \in BOOLEAN
    /\ repaint_frames \in [OutputIds -> 0 .. REPAINT_FRAMES]
    /\ scheduled \in SUBSET OutputIds /\ stale \in SUBSET OutputIds
    /\ failures \in [OutputIds -> 0 .. REPAINT_FRAMES]
    /\ \A id \in OutputIds : repaint_frames[id] + failures[id] <= REPAINT_FRAMES

LEMMA ArrangedTypes ==
    ASSUME Lists', AreaTypes, NEW id \in OutputIds, NEW sent \in SUBSET Surfaces,
           ArrangeLayers(id, sent)
    PROVE  AreaTypes'
  <1>1. Attached(id)' \subseteq Surfaces
    BY SeqFacts DEF Attached, Lists
  <1>2. configured' \in SUBSET Surfaces
    BY <1>1 DEF ArrangeLayers
  <1>3. (\A S : Total(S) = SumOf(zone, S))' /\ zone' \in [Surfaces -> Nat]
    <2>1. (\A S : Total(S) = SumOf(zone, S))'
      BY TotalIs, PTL
    <2>2. zone' \in [Surfaces -> Nat]
      BY DEF Lists
    <2> QED BY <2>1, <2>2
  <1>4. \A T \in SUBSET Surfaces : SumOf(zone', T) \in Nat
    BY <1>3, SumFacts
  <1>5. Reserve(Attached(id))' \in Nat
    <2>1. (Mapped(Attached(id)))' \in SUBSET Surfaces
      BY <1>1 DEF Mapped
    <2> QED BY <1>3, <1>4, <2>1 DEF Reserve
  <1>6. ASSUME NEW s PROVE Reserve({t \in Attached(id) : Precedes(t, s)})' \in Nat
    <2>1. (Mapped({t \in Attached(id) : Precedes(t, s)}))' \in SUBSET Surfaces
      BY <1>1 DEF Mapped
    <2> QED BY <1>3, <1>4, <2>1 DEF Reserve
  <1>7. place' \in [Surfaces -> Nat]
    BY <1>6 DEF ArrangeLayers, AreaTypes
  <1>8. reserved' \in [OutputIds -> Nat]
    BY <1>5 DEF ArrangeLayers, AreaTypes
  <1> QED BY <1>2, <1>7, <1>8 DEF AreaTypes

LEMMA RearrangedTypes ==
    ASSUME LayerInv, LayerInv', AreaTypes, NEW where, NEW sent \in SUBSET Surfaces,
           Rearrange(where, sent)
    PROVE  AreaTypes'
  <1>1. CASE where \in Connected
    <2>1. where \in OutputIds
      BY <1>1, SeqFacts DEF Connected, LayerInv, Lists
    <2>2. ArrangeLayers(where, sent)
      BY <1>1 DEF Rearrange
    <2> QED BY <2>1, <2>2, ArrangedTypes DEF LayerInv
  <1>2. CASE where \notin Connected
    BY <1>2 DEF Rearrange, AreaTypes
  <1> QED BY <1>1, <1>2

LEMMA AreaStep ==
    ASSUME LayerInv, LayerInv', AreaTypes, [Next]_vars
    PROVE  AreaTypes'
  <1>1. ASSUME NEW s, NEW l, (\E id : NewLayerSurface(s, id, l)) \/ SetLayer(s, l) PROVE AreaTypes'
    BY <1>1 DEF NewLayerSurface, SetLayer, AreaTypes
  <1>2. configured \in SUBSET Surfaces /\ \A s : configured \ {s} \in SUBSET Surfaces
    BY DEF AreaTypes
  <1>3. ASSUME NEW s, NEW z, LayerCommit(s, z) \/ LayerMap(s, z) PROVE AreaTypes'
    BY <1>2, <1>3, RearrangedTypes DEF LayerCommit, LayerMap
  <1>4. ASSUME NEW s, LayerUnmap(s) \/ LayerDestroy(s) PROVE AreaTypes'
    BY <1>2, <1>4, RearrangedTypes DEF LayerUnmap, LayerDestroy
  <1>5. CASE LayerNext
    BY <1>1, <1>3, <1>4, <1>5 DEF LayerNext
  <1>6. ASSUME NEW id \in OutputIds, NewOutput(id) PROVE AreaTypes'
    BY <1>2, <1>6, ArrangedTypes DEF NewOutput, AttachPending, LayerInv
  <1>7. ASSUME NEW id \in OutputIds, OutputDestroy(id) PROVE AreaTypes'
    BY <1>7 DEF OutputDestroy, AreaTypes
  <1>8. ASSUME NEW id \in OutputIds, Frame(id) \/ Damage(id) PROVE AreaTypes'
    BY <1>8 DEF Frame, Damage, layerVars, AreaTypes
  <1>9. ASSUME SessionInactive \/ SessionActive \/ UNCHANGED vars PROVE AreaTypes'
    BY <1>9 DEF SessionInactive, SessionActive, vars, layerVars, AreaTypes
  <1> QED BY <1>5, <1>6, <1>7, <1>8, <1>9 DEF Next

LEMMA FrameStep ==
    ASSUME LayerInv, FrameTypes, [Next]_vars
    PROVE  FrameTypes'
  <1>1. Connected \subseteq OutputIds
    BY SeqFacts DEF Connected, LayerInv, Lists
  <1>2. REPAINT_FRAMES \in Nat
    BY FrameAssumption
  <1>3. ASSUME UNCHANGED frameVars PROVE FrameTypes'
    BY <1>3 DEF frameVars, FrameTypes
  <1>a. DEFINE Armed == /\ repaint_frames' \in [OutputIds -> 0 .. REPAINT_FRAMES]
                        /\ failures' \in [OutputIds -> 0 .. REPAINT_FRAMES]
                        /\ \A id \in OutputIds : repaint_frames'[id] + failures'[id] <= REPAINT_FRAMES
                        /\ scheduled' \in SUBSET OutputIds
  <1>4. ASSUME NEW ids \in SUBSET OutputIds, Arm(ids) PROVE Armed
    <2>1. /\ repaint_frames' \in [OutputIds -> 0 .. REPAINT_FRAMES]
          /\ failures' \in [OutputIds -> 0 .. REPAINT_FRAMES]
          /\ scheduled' \in SUBSET OutputIds
      BY <1>2, <1>4 DEF Arm, FrameTypes
    <2>2. ASSUME NEW id \in OutputIds PROVE repaint_frames'[id] + failures'[id] <= REPAINT_FRAMES
      <3>1. \/ repaint_frames'[id] = REPAINT_FRAMES /\ failures'[id] = 0
            \/ repaint_frames'[id] = repaint_frames[id] /\ failures'[id] = failures[id]
        BY <1>4 DEF Arm
      <3> QED BY <1>2, <3>1 DEF FrameTypes
    <2> QED BY <2>1, <2>2
  <1>5. ASSUME NEW id \in OutputIds, NewOutput(id) PROVE FrameTypes'
    <2>1. Arm({id}) /\ {id} \in SUBSET OutputIds /\ stale' = stale \cup {id} /\ UNCHANGED active
      BY <1>5 DEF NewOutput
    <2>2. Armed
      BY <1>4, <2>1
    <2> QED BY <2>1, <2>2 DEF FrameTypes
  <1>6. ASSUME NEW id \in OutputIds, OutputDestroy(id) PROVE FrameTypes'
    BY <1>2, <1>6 DEF OutputDestroy, FrameTypes
  <1>7. ASSUME NEW id \in OutputIds, Frame(id) PROVE FrameTypes'
    <2>1. \A i \in OutputIds : repaint_frames[i] \in Nat /\ failures[i] \in Nat
      BY <1>2 DEF FrameTypes
    <2>2. repaint_frames' \in [OutputIds -> 0 .. REPAINT_FRAMES]
      BY <1>2, <1>7 DEF Frame, FrameTypes
    <2>3. /\ DOMAIN failures' = OutputIds /\ failures' = [i \in OutputIds |-> failures'[i]]
          /\ \A i \in OutputIds : i # id => /\ repaint_frames'[i] = repaint_frames[i]
                                          /\ failures'[i] = failures[i]
      BY <1>7 DEF Frame, FrameTypes
    <2>4. \/ repaint_frames'[id] = repaint_frames[id] /\ failures'[id] = failures[id]
          \/ /\ repaint_frames[id] > 0 /\ repaint_frames'[id] = repaint_frames[id] - 1
             /\ failures'[id] = failures[id] \/ failures'[id] = failures[id] + 1
      BY <1>7 DEF Frame, FrameTypes
    <2>5. ASSUME NEW i \in OutputIds
          PROVE  failures'[i] \in 0 .. REPAINT_FRAMES /\ repaint_frames'[i] + failures'[i] <= REPAINT_FRAMES
      <3>1. repaint_frames[i] + failures[i] <= REPAINT_FRAMES
        BY DEF FrameTypes
      <3>2. CASE i = id
        BY <1>2, <2>1, <2>4, <3>1, <3>2
      <3>3. CASE i # id
        BY <1>2, <2>1, <2>3, <3>1, <3>3
      <3> QED BY <3>2, <3>3
    <2>6. failures' \in [OutputIds -> 0 .. REPAINT_FRAMES]
      BY <2>3, <2>5
    <2>7. scheduled' \in SUBSET OutputIds /\ stale' \in SUBSET OutputIds /\ active' \in BOOLEAN
      BY <1>7 DEF Frame, FrameTypes
    <2> QED BY <2>2, <2>5, <2>6, <2>7 DEF FrameTypes
  <1>8. ASSUME NEW id \in OutputIds, Damage(id) PROVE FrameTypes'
    BY <1>8 DEF Damage, FrameTypes
  <1>9. CASE SessionInactive
    BY <1>1, <1>9 DEF SessionInactive, FrameTypes
  <1>10. CASE SessionActive
    <2>1. Arm(Connected) /\ active' = TRUE /\ UNCHANGED stale
      BY <1>10 DEF SessionActive
    <2>2. Armed
      BY <1>1, <1>4, <2>1
    <2> QED BY <2>1, <2>2 DEF FrameTypes
  <1>11. CASE UNCHANGED vars
    BY <1>3, <1>11 DEF vars
  <1> QED BY <1>3, <1>5, <1>6, <1>7, <1>8, <1>9, <1>10, <1>11 DEF Next

(* Every variable has its type: no counter runs below zero or past what it *)
(* was armed with, and what is reserved is never negative.                 *)
THEOREM ScreensTypes == Spec => []TypeOK
  <1>1. Init => AreaTypes /\ FrameTypes
    BY FrameAssumption DEF Init, LayerInit, AreaTypes, FrameTypes
  <1>2. LayerInv /\ LayerInv' /\ AreaTypes /\ FrameTypes /\ [Next]_vars => AreaTypes' /\ FrameTypes'
    BY AreaStep, FrameStep
  <1>3. LayerInv /\ AreaTypes /\ FrameTypes => TypeOK
    BY DEF LayerInv, Lists, AreaTypes, FrameTypes, TypeOK
  <1> QED BY <1>1, <1>2, <1>3, LayerInvariance, PTL DEF Spec

-----------------------------------------------------------------------------
(* What an armed output has left of its repaints: all of them but those    *)
(* whose commits failed, as long as none has gone through.                 *)
LeftOver ==
    /\ stale \subseteq Connected
    /\ active => \A id \in stale : repaint_frames[id] + failures[id] = REPAINT_FRAMES

LEMMA LeftOverStep ==
    ASSUME LayerInv, FrameTypes, LeftOver, [Next]_vars
    PROVE  LeftOver'
  <1>1. Connected \subseteq OutputIds
    BY SeqFacts DEF Connected, LayerInv, Lists
  <1>2. ASSUME UNCHANGED <<outputs, active, repaint_frames, stale, failures>> PROVE LeftOver'
    BY <1>2 DEF LeftOver, Connected
  <1>3. CASE LayerNext /\ UNCHANGED frameVars
    <2>1. UNCHANGED outputs
      BY <1>3, LayerStep
    <2> QED BY <1>2, <1>3, <2>1 DEF frameVars
  <1>4. ASSUME NEW id \in OutputIds, NewOutput(id) PROVE LeftOver'
    <2>1. Connected' = Connected \cup {id}
      BY <1>4, AppendFacts DEF NewOutput, AttachPending, Connected, LayerInv, Lists
    <2>2. /\ stale' = stale \cup {id} /\ UNCHANGED active
          /\ repaint_frames' = [i \in OutputIds |-> IF i \in {id} THEN REPAINT_FRAMES ELSE repaint_frames[i]]
          /\ failures' = [i \in OutputIds |-> IF i \in {id} THEN 0 ELSE failures[i]]
      BY <1>4 DEF NewOutput, Arm
    <2>3. \A i \in OutputIds :
            /\ i = id => repaint_frames'[i] = REPAINT_FRAMES /\ failures'[i] = 0
            /\ i # id => repaint_frames'[i] = repaint_frames[i] /\ failures'[i] = failures[i]
      BY <2>2
    <2> QED BY <1>1, <2>1, <2>2, <2>3, FrameAssumption DEF LeftOver
  <1>5. ASSUME NEW id \in OutputIds, OutputDestroy(id) PROVE LeftOver'
    <2>1. Connected' = Connected \ {id}
      BY <1>5, UnplugStep
    <2>2. /\ stale' = stale \ {id} /\ UNCHANGED active
          /\ \A i \in OutputIds : i # id => repaint_frames'[i] = repaint_frames[i] /\ failures'[i] = failures[i]
      BY <1>5 DEF OutputDestroy, FrameTypes
    <2> QED BY <1>1, <2>1, <2>2 DEF LeftOver
  <1>6. ASSUME NEW id \in OutputIds, Frame(id) PROVE LeftOver'
    <2>1. UNCHANGED <<outputs, active>> /\ stale' \subseteq stale
      BY <1>6 DEF Frame
    <2>2. \A i \in OutputIds : i # id => repaint_frames'[i] = repaint_frames[i] /\ failures'[i] = failures[i]
      BY <1>6 DEF Frame, FrameTypes
    <2>3. id \in stale' => repaint_frames'[id] + failures'[id] = repaint_frames[id] + failures[id]
      <3>1. repaint_frames[id] \in Int /\ failures[id] \in Int
        BY FrameAssumption DEF FrameTypes
      <3> QED BY <1>6, <3>1 DEF Frame, FrameTypes
    <2> QED BY <1>1, <2>1, <2>2, <2>3 DEF LeftOver, Connected
  <1>7. ASSUME NEW id \in OutputIds, Damage(id) PROVE LeftOver'
    BY <1>2, <1>7 DEF Damage
  <1>8. CASE SessionInactive
    BY <1>8 DEF SessionInactive, LeftOver, Connected
  <1>9. CASE SessionActive
    <2>1. /\ UNCHANGED <<outputs, stale>>
          /\ \A i \in Connected : repaint_frames'[i] = REPAINT_FRAMES /\ failures'[i] = 0
      BY <1>1, <1>9 DEF SessionActive, Arm
    <2> QED BY <2>1, FrameAssumption DEF LeftOver, Connected
  <1>10. CASE UNCHANGED vars
    BY <1>2, <1>10 DEF vars, frameVars
  <1> QED BY <1>3, <1>4, <1>5, <1>6, <1>7, <1>8, <1>9, <1>10 DEF Next

(* A picture is lost to failures alone: while the VT is ours an output     *)
(* that does not show the scene still owes a forced repaint, unless the    *)
(* commit of every one of them has failed (src/output.rs, handle_frame).   *)
THEOREM RepaintsOutlastFailures == Spec => []StaleStillOwes
  <1>1. Init => AreaTypes /\ FrameTypes /\ LeftOver
    BY FrameAssumption DEF Init, LayerInit, AreaTypes, FrameTypes, LeftOver
  <1>2. LayerInv /\ LayerInv' /\ AreaTypes /\ FrameTypes /\ LeftOver /\ [Next]_vars
          => AreaTypes' /\ FrameTypes' /\ LeftOver'
    BY AreaStep, FrameStep, LeftOverStep
  <1>3. LayerInv /\ FrameTypes /\ LeftOver => StaleStillOwes
    <2> SUFFICES ASSUME LayerInv, FrameTypes, LeftOver, active, NEW id \in stale
                 PROVE  repaint_frames[id] > 0 \/ GivenUp(id)
      BY DEF StaleStillOwes
    <2>1. id \in OutputIds
      BY SeqFacts DEF Connected, LayerInv, Lists, LeftOver
    <2>2. /\ repaint_frames[id] \in Nat /\ failures[id] \in Nat
          /\ repaint_frames[id] + failures[id] = REPAINT_FRAMES
      BY <2>1, FrameAssumption DEF FrameTypes, LeftOver
    <2> QED BY <2>2, FrameAssumption DEF GivenUp
  <1> QED BY <1>1, <1>2, <1>3, LayerInvariance, PTL DEF Spec

(* An output that does not show the scene has a repaint to do, and a frame *)
(* to do it in: after a VT switch nothing stays black for want of either,  *)
(* while the hardware has taken one of the repaints or may yet take one    *)
(* (src/output.rs, handle_frame and handle_session_active).                *)
THEOREM PicturesCome == Spec => []PictureIsComing
  BY RepaintsGoOn, RepaintsOutlastFailures, PTL DEF PictureIsComing
=============================================================================
