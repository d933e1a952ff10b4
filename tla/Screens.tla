------------------------------- MODULE Screens -------------------------------
(***************************************************************************)
(* src/output.rs as far as bars and pixels go, with LayerShell: monitors   *)
(* come and go, the VT is switched away and back, and each output repaints *)
(* itself a few times after either.  A monitor shows the old picture until *)
(* a forced repaint succeeds, since idle clients never redraw; wlroots     *)
(* delivers a frame only to an output that has one scheduled, while the VT *)
(* is ours.                                                                *)
(***************************************************************************)
EXTENDS LayerShell

CONSTANT REPAINT_FRAMES

VARIABLES
    active,         \* the session has the VT
    repaint_frames, \* output -> forced repaints it still owes
    scheduled,      \* the outputs with a frame scheduled
    stale,          \* the outputs that do not show the scene
    failures        \* output -> forced repaints that failed since it was armed

frameVars == <<active, repaint_frames, scheduled, stale, failures>>
vars == <<outputs, layerVars, frameVars>>

ASSUME FrameAssumption == REPAINT_FRAMES \in Nat \ {0}

Init ==
    /\ LayerInit
    /\ active = TRUE
    /\ repaint_frames = [id \in OutputIds |-> 0]
    /\ scheduled = {} /\ stale = {}
    /\ failures = [id \in OutputIds |-> 0]

-----------------------------------------------------------------------------
(* Broken: the first frame is left to whoever damages the output.          *)
ArmOnly(ids) ==
    /\ repaint_frames' = [id \in OutputIds |-> IF id \in ids THEN REPAINT_FRAMES ELSE repaint_frames[id]]
    /\ failures' = [id \in OutputIds |-> IF id \in ids THEN 0 ELSE failures[id]]
    /\ UNCHANGED scheduled

(* The forced repaints the outputs ids owe, and the frame that starts them.*)
Arm(ids) ==
    /\ repaint_frames' = [id \in OutputIds |-> IF id \in ids THEN REPAINT_FRAMES ELSE repaint_frames[id]]
    /\ failures' = [id \in OutputIds |-> IF id \in ids THEN 0 ELSE failures[id]]
    /\ scheduled' = scheduled \cup ids

(* handle_new_output.                                                      *)
NewOutput(id) ==
    /\ AttachPending(id)
    /\ Arm({id})
    /\ stale' = stale \cup {id}
    /\ UNCHANGED active

(* handle_output_destroy: no layer surface hears of it.                    *)
OutputDestroy(id) ==
    /\ \E k \in DOMAIN outputs : outputs[k] = id /\ outputs' = RemoveAt(outputs, k)
    /\ repaint_frames' = [repaint_frames EXCEPT ![id] = 0]
    /\ failures' = [failures EXCEPT ![id] = 0]
    /\ scheduled' = scheduled \ {id} /\ stale' = stale \ {id}
    /\ reserved' = [reserved EXCEPT ![id] = 0]
    /\ UNCHANGED <<layers, target, life, layer, zone, configured, place, active>>

(* handle_session_active on the way out does nothing; the outputs turn     *)
(* black, and frames that were scheduled may be lost.                      *)
SessionInactive ==
    /\ active /\ active' = FALSE
    /\ stale' = Connected
    /\ scheduled' \in SUBSET scheduled
    /\ UNCHANGED <<outputs, layerVars, repaint_frames, failures>>

(* handle_session_active on the way back.                                  *)
SessionActive ==
    /\ ~active /\ active' = TRUE
    /\ Arm(Connected)
    /\ UNCHANGED <<outputs, layerVars, stale>>

(* Broken: the repaints owed are not looked at.                            *)
FrameUncounted(id) ==
    /\ active /\ id \in scheduled
    /\ repaint_frames' = [repaint_frames EXCEPT ![id] = @ - 1]
    /\ stale' = stale \ {id} /\ scheduled' = scheduled
    /\ UNCHANGED <<outputs, layerVars, active, failures>>

(* Broken: a forced repaint damages nothing, so the old picture stays.     *)
FrameUndamaged(id) ==
    /\ active /\ id \in scheduled
    /\ repaint_frames' = [repaint_frames EXCEPT ![id] = IF @ > 0 THEN @ - 1 ELSE 0]
    /\ scheduled' = IF repaint_frames'[id] > 0 THEN scheduled ELSE scheduled \ {id}
    /\ UNCHANGED <<outputs, layerVars, active, stale, failures>>

(* handle_frame.  A forced repaint damages the whole output; whether the   *)
(* commit succeeds nobody looks, and it costs one of the repaints.  An     *)
(* unforced one paints only what has changed.                              *)
Frame(id) ==
    /\ active /\ id \in scheduled
    /\ IF repaint_frames[id] > 0
       THEN /\ repaint_frames' = [repaint_frames EXCEPT ![id] = @ - 1]
            /\ \/ stale' = stale \ {id} /\ UNCHANGED failures
               \/ failures' = [failures EXCEPT ![id] = @ + 1] /\ UNCHANGED stale
       ELSE UNCHANGED <<repaint_frames, stale, failures>>
    /\ scheduled' = IF repaint_frames'[id] > 0 THEN scheduled ELSE scheduled \ {id}
    /\ UNCHANGED <<outputs, layerVars, active>>

(* wlroots schedules a frame of its own accord: a client has drawn.        *)
Damage(id) ==
    /\ id \in Connected
    /\ scheduled' = scheduled \cup {id}
    /\ UNCHANGED <<outputs, layerVars, active, repaint_frames, stale, failures>>

Next ==
    \/ LayerNext /\ UNCHANGED frameVars
    \/ \E id \in OutputIds : NewOutput(id) \/ OutputDestroy(id) \/ Frame(id) \/ Damage(id)
    \/ SessionInactive \/ SessionActive

(* wlroots delivers the frame of an output that has one scheduled and      *)
(* keeps it: the only thing the repaints wait for.                         *)
Fairness == \A id \in OutputIds : WF_vars(Frame(id))

Spec == Init /\ [][Next]_vars /\ Fairness

-----------------------------------------------------------------------------
(* Every variable has its type.                                            *)
TypeOK ==
    /\ outputs \in Seq(OutputIds) /\ layers \in Seq(Surfaces)
    /\ target \in [Surfaces -> OutputIds \cup {NoOutput}]
    /\ life \in [Surfaces -> {"absent", "created", "initialized", "mapped"}]
    /\ configured \in SUBSET Surfaces
    /\ layer \in [Surfaces -> 0 .. 3] /\ zone \in [Surfaces -> Nat]
    /\ place \in [Surfaces -> Nat] /\ reserved \in [OutputIds -> Nat]
    /\ active \in BOOLEAN
    /\ repaint_frames \in [OutputIds -> 0 .. REPAINT_FRAMES]
    /\ scheduled \in SUBSET OutputIds /\ stale \in SUBSET OutputIds
    /\ failures \in [OutputIds -> 0 .. REPAINT_FRAMES]

(* An output that owes repaints has a frame scheduled while the VT is ours *)
(* (src/output.rs, handle_frame: keep the loop alive).                     *)
OwingIsScheduled ==
    active => \A id \in Connected : repaint_frames[id] > 0 => id \in scheduled

(* A picture is lost to failures alone: an output that does not show the   *)
(* scene while the VT is ours still owes a forced repaint, whatever came   *)
(* and went since it was armed, unless the commit of every one of them has *)
(* failed (src/output.rs, handle_frame counts a repaint whose commit fails *)
(* and looks at none).                                                     *)
GivenUp(id) == failures[id] = REPAINT_FRAMES
StaleStillOwes == active => \A id \in stale : repaint_frames[id] > 0 \/ GivenUp(id)

(* So an output that does not show the scene has a repaint to do and a     *)
(* frame to do it in: what ComesBack needs besides fairness.               *)
PictureIsComing == OwingIsScheduled /\ StaleStillOwes

(* Nothing comes back black: an output that does not show the scene does   *)
(* so in the end, unless it is unplugged, the VT is switched away or the   *)
(* hardware has turned down every one of its forced repaints               *)
(* (docs/phases/stage-6-real-display.md).                                  *)
ComesBack ==
    \A id \in OutputIds :
        (active /\ id \in stale) ~> (~active \/ id \notin stale \/ GivenUp(id))
=============================================================================
