------------------------------ MODULE LayerShell ------------------------------
(***************************************************************************)
(* src/layer_shell.rs: bars, panels and wallpapers, the outputs they are   *)
(* on, and what arrange_layers (src/tiling.rs) makes of them.              *)
(*                                                                         *)
(* An output id is the address of its wlr_output: a monitor plugged in     *)
(* later may have the address of one that is gone.  Surfaces stand on one  *)
(* edge of an output: all that matters of a place there is how much was    *)
(* reserved before.  A client asks for another layer at any time, and for  *)
(* another exclusive zone with a commit.                                   *)
(***************************************************************************)
EXTENDS Integers, FiniteSetsExt, SequencesExt

CONSTANTS
    Surfaces,   \* the layer surfaces clients create
    OutputIds,
    NoOutput,   \* the null output pointer
    Layers,     \* surface -> the layers it asks for: 0 background, 1 bottom, 2 top, 3 overlay
    Zones       \* surface -> the exclusive zones it commits

VARIABLES
    outputs,    \* the connected outputs, in order
    layers,     \* Server.layers
    target,     \* surface -> LayerSurface.wlr_output
    life,       \* surface -> where it is in its life, as in ServerState
    layer,      \* surface -> the layer it asked for last (wlr_layer_surface_v1.pending)
    zone,       \* surface -> the exclusive zone it committed last
    configured, \* the surfaces sent a configure since they were created or unmapped
    place,      \* surface -> what was reserved before it where it was put
    reserved    \* output -> what its usable area lacks of its box

layerVars == <<layers, target, life, layer, zone, configured, place, reserved>>

Connected == Range(outputs)

ASSUME LayerAssumption ==
    /\ IsFiniteSet(Surfaces)
    /\ Layers \in [Surfaces -> SUBSET (0 .. 3)]
    /\ Zones \in [Surfaces -> SUBSET Nat]
    /\ NoOutput \notin OutputIds

-----------------------------------------------------------------------------
Attached(id) == {s \in Range(layers) : target[s] = id}

IndexOf(s) == CHOOSE i \in DOMAIN layers : layers[i] = s

(* Broken: all surfaces of a layer start at the same place.                *)
PrecedesByLayer(s, t) == layer[s] < layer[t]

(* The order arrange_layers goes through the surfaces in.                  *)
Precedes(s, t) ==
    \/ layer[s] < layer[t]
    \/ layer[s] = layer[t] /\ IndexOf(s) < IndexOf(t)

(* What mapped surfaces of S reserve: wlroots leaves the others' zones out.*)
ZoneOf(s) == zone[s]
Total(S) == MapThenSumSet(ZoneOf, S)
Mapped(S) == {s \in S : life[s] = "mapped"}
Reserve(S) == Total(Mapped(S))

(* arrange_layers, at the end of a handler: every surface on the output is *)
(* placed and sent a configure, and the usable area is what is left.  sent *)
(* is who has had one before.                                              *)
ArrangeLayers(id, sent) ==
    LET on == Attached(id)'
    IN  /\ configured' = sent \cup on
        /\ place' = [s \in Surfaces |->
                        IF s \in on THEN Reserve({t \in Attached(id) : Precedes(t, s)})' ELSE place[s]]
        /\ reserved' = [reserved EXCEPT ![id] = Reserve(Attached(id))']

(* rearrange_layer_output, for a surface on output where before the step:  *)
(* nothing, when the output is not there.                                  *)
Rearrange(where, sent) ==
    \/ \E id \in Connected \cap {where} : ArrangeLayers(id, sent)
    \/ where \notin Connected /\ configured' = sent /\ UNCHANGED <<place, reserved>>

-----------------------------------------------------------------------------
LayerInit ==
    /\ outputs = <<>> /\ layers = <<>>
    /\ target = [s \in Surfaces |-> NoOutput]
    /\ life = [s \in Surfaces |-> "absent"]
    /\ layer = [s \in Surfaces |-> 0] /\ zone = [s \in Surfaces |-> 0]
    /\ configured = {}
    /\ place = [s \in Surfaces |-> 0]
    /\ reserved = [id \in OutputIds |-> 0]

(* handle_new_layer_surface: wanted is the output the client named, one    *)
(* that is there.  Without a name it is the active output, whichever the   *)
(* cursor is on; without an output, it waits for one.                      *)
NewLayerSurface(s, wanted, l) ==
    /\ life[s] = "absent"
    /\ wanted \in IF outputs = <<>> THEN {NoOutput} ELSE Connected
    /\ layers' = Append(layers, s)
    /\ target' = [target EXCEPT ![s] = wanted]
    /\ life' = [life EXCEPT ![s] = "created"]
    /\ layer' = [layer EXCEPT ![s] = l]
    /\ UNCHANGED <<outputs, zone, configured, place, reserved>>

(* A client's set_layer: arrange_layers reads it from here on, but nothing *)
(* calls it yet.                                                           *)
SetLayer(s, l) ==
    /\ life[s] # "absent"
    /\ layer' = [layer EXCEPT ![s] = l]
    /\ UNCHANGED <<outputs, layers, target, life, zone, configured, place, reserved>>

(* Broken: the output is arranged for the initial commit only.             *)
CommitArrangesOnce(s, z) ==
    /\ life[s] # "absent"
    /\ life' = [life EXCEPT ![s] = IF @ = "created" THEN "initialized" ELSE @]
    /\ zone' = [zone EXCEPT ![s] = z]
    /\ UNCHANGED <<outputs, layers, target, layer>>
    /\ IF life[s] = "created" THEN Rearrange(target[s], configured)
       ELSE UNCHANGED <<configured, place, reserved>>

(* handle_layer_commit, of any commit; the first is the initial one.       *)
LayerCommit(s, z) ==
    /\ life[s] # "absent"
    /\ life' = [life EXCEPT ![s] = IF @ = "created" THEN "initialized" ELSE @]
    /\ zone' = [zone EXCEPT ![s] = z]
    /\ UNCHANGED <<outputs, layers, target, layer>>
    /\ Rearrange(target[s], configured)

(* handle_layer_map: a client may map once it has had a configure.         *)
LayerMap(s, z) ==
    /\ life[s] = "initialized" /\ s \in configured
    /\ life' = [life EXCEPT ![s] = "mapped"]
    /\ zone' = [zone EXCEPT ![s] = z]
    /\ UNCHANGED <<outputs, layers, target, layer>>
    /\ Rearrange(target[s], configured)

(* The commit that takes the content away: handle_layer_unmap, and         *)
(* handle_layer_commit once wlroots has put the surface back to where it   *)
(* was before its initial commit.                                          *)
LayerUnmap(s) ==
    /\ life[s] = "mapped"
    /\ life' = [life EXCEPT ![s] = "created"]
    /\ UNCHANGED <<outputs, layers, target, layer, zone>>
    /\ Rearrange(target[s], configured \ {s})

(* handle_layer_destroy, of a mapped surface after its unmap.              *)
LayerDestroy(s) ==
    /\ life[s] # "absent"
    /\ life' = [life EXCEPT ![s] = "absent"]
    /\ layers' = RemoveAt(layers, IndexOf(s))
    /\ target' = [target EXCEPT ![s] = NoOutput]
    /\ layer' = [layer EXCEPT ![s] = 0] /\ zone' = [zone EXCEPT ![s] = 0]
    /\ UNCHANGED outputs
    /\ Rearrange(target[s], configured \ {s})

(* Broken: the surfaces that wait are left alone.                          *)
AttachNone(id) ==
    /\ id \notin Connected
    /\ outputs' = Append(outputs, id)
    /\ UNCHANGED <<layers, target, life, layer, zone>>
    /\ ArrangeLayers(id, configured)

(* handle_new_output's part: the surfaces that wait are put on it.         *)
AttachPending(id) ==
    /\ id \notin Connected
    /\ outputs' = Append(outputs, id)
    /\ target' = [s \in Surfaces |->
                    IF s \in Range(layers) /\ target[s] = NoOutput THEN id ELSE target[s]]
    /\ UNCHANGED <<layers, life, layer, zone>>
    /\ ArrangeLayers(id, configured)

LayerNext ==
    \E s \in Surfaces :
        \/ \E id \in OutputIds \cup {NoOutput}, l \in Layers[s] : NewLayerSurface(s, id, l)
        \/ \E l \in Layers[s] : SetLayer(s, l)
        \/ \E z \in Zones[s] : LayerCommit(s, z) \/ LayerMap(s, z)
        \/ LayerUnmap(s) \/ LayerDestroy(s)

-----------------------------------------------------------------------------
(* A surface whose initial commit is made has been answered as soon as     *)
(* there is an output for it, the one it asked for or, if it has none, any,*)
(* whichever came first: it does not hang (src/layer_shell.rs).            *)
CommitsAnswered ==
    \A s \in Surfaces :
        /\ life[s] = "initialized"
        /\ target[s] \in Connected \/ (target[s] = NoOutput /\ outputs # <<>>)
        => s \in configured

(* The usable area of an output is its box less what its mapped surfaces   *)
(* reserve: no handler forgets to arrange, not for a bar that changes its  *)
(* exclusive zone while it is mapped either, and what a bar that is gone   *)
(* reserved is given back.                                                 *)
UsableIsCurrent == \A id \in Connected : reserved[id] = Reserve(Attached(id))

(* Mapped bars of an output stand side by side, in what is reserved,       *)
(* whatever layers and zones they change to.                               *)
BarsStandApart ==
    \A id \in Connected : \A s, t \in Mapped(Attached(id)) :
        /\ place[s] + zone[s] <= reserved[id]
        /\ s # t => place[s] + zone[s] <= place[t] \/ place[t] + zone[t] <= place[s]
=============================================================================
