----------------------------- MODULE MCFloatTrip -----------------------------
(***************************************************************************)
(* MCPlacement that remembers where a floating window was before it was    *)
(* made fullscreen.                                                        *)
(***************************************************************************)
EXTENDS MCPlacement

VARIABLE before

TripInit == Init /\ before = NoRect
TripNext ==
    /\ Next
    /\ before' = IF Floats' THEN rect' ELSE IF home' = NoWorkspace THEN NoRect ELSE before

TripSpec == TripInit /\ [][TripNext]_<<vars, before>>

(* A floating window that leaves fullscreen has the size it had before, so *)
(* far as it fits: set_fullscreen restores its remembered floating rect    *)
(* (src/toplevel.rs).                                                      *)
FloatRectRestored ==
    [][/\ fullscreen /\ ~fullscreen' /\ floating
       /\ before # NoRect /\ outputs # <<>>
       => rect'.w = Smaller(before.w, Active.usable.w)]_<<vars, before>>
=============================================================================
