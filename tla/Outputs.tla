------------------------------- MODULE Outputs -------------------------------
(***************************************************************************)
(* src/output.rs: monitors come and go, and the VT comes back.  Where an   *)
(* output sits is the wlroots output layout's business, which moves the    *)
(* others when it comes or goes: the cursor, which stays where it is, may  *)
(* find itself on any output, or on none.                                  *)
(***************************************************************************)
EXTENDS ServerState

CursorAnywhere == cursor' \in {outputs'[o].id : o \in DOMAIN outputs'} \cup {NoOutput}

(* Broken: the highest.                                                    *)
LastFreeWorkspace ==
    LET free == Workspaces \ Shown
    IN  IF free = {} THEN 0 ELSE CHOOSE w \in free : \A v \in free : v <= w

(* The lowest workspace no output shows; 0 when every one is shown.        *)
FreeWorkspace ==
    LET free == Workspaces \ Shown
    IN  IF free = {} THEN 0 ELSE CHOOSE w \in free : \A v \in free : w <= v

(* handle_new_output.                                                      *)
NewOutput(id) ==
    /\ \A o \in DOMAIN outputs : outputs[o].id # id
    /\ outputs' = Append(outputs, [id |-> id, workspace |-> FreeWorkspace])
    /\ CursorAnywhere
    /\ UNCHANGED <<windows, focused, tree, toplevelVars, grabVars, seat>>
    /\ Refresh

(* handle_output_destroy.                                                  *)
OutputDestroy(id) ==
    /\ \E o \in DOMAIN outputs :
        /\ outputs[o].id = id
        /\ outputs' = RemoveAt(outputs, o)
    /\ CursorAnywhere
    /\ UNCHANGED <<windows, focused, tree, toplevelVars, grabVars, seat>>
    /\ Refresh

(* handle_session_active, on the way back: every tracked window gets a     *)
(* fresh scene node, in the layer its flags say.                           *)
SessionActive ==
    /\ layer' = [tl \in Toplevels |->
                    IF tl \notin Tracked THEN layer[tl]
                    ELSE IF tl \in fullscreen THEN "fullscreen"
                    ELSE IF tl \in floating THEN "floating" ELSE "normal"]
    /\ UNCHANGED <<windows, focused, tree, outputVars, life, fullscreen, floating,
                   requested, tiledStates, grabVars, seat>>
    /\ Refresh

OutputNext ==
    \/ \E id \in OutputIds : NewOutput(id) \/ OutputDestroy(id)
    \/ SessionActive
=============================================================================
