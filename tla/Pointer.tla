------------------------------- MODULE Pointer -------------------------------
(***************************************************************************)
(* src/input.rs with the button handler of shim/input.c that calls it:     *)
(* click-to-focus and the pointer grab.  A button press is one event: the  *)
(* shim moves the seat's keyboard focus to the surface hit, tells Rust,    *)
(* and offers Rust the press as a grab.  What the drag does to the window  *)
(* is geometry.  A keyboard is attached (else the seat stays put).         *)
(***************************************************************************)
EXTENDS ServerState

(* Broken: the shim does not tell Rust.                                    *)
ClickIgnored(tl) == UNCHANGED focused

(* handle_click_focus.                                                     *)
ClickFocus(tl) ==
    focused' = [w \in Workspaces |->
                    IF w \in Holders(tl)
                    THEN (CHOOSE k \in DOMAIN windows[w] : windows[w][k] = tl) - 1
                    ELSE focused[w]]

(* handle_grab_button, pressed.  chord is what the modifiers and the       *)
(* button ask for: "none" unless exactly the primary modifier is held.     *)
GrabPress(tl, chord) ==
    IF chord # "none" /\ tl \in (Tracked \cap floating) \ fullscreen
    THEN grab' = chord /\ grabTl' = tl
    ELSE UNCHANGED grabVars

(* handle_cursor_button on a window: any mapped one whose node is enabled, *)
(* wherever the cursor is (windows may hang over their output's edge).     *)
Press(tl, chord) ==
    /\ life[tl] = "mapped" /\ tl \in enabled
    /\ seat' = tl
    /\ ClickFocus(tl)
    /\ GrabPress(tl, chord)
    /\ UNCHANGED <<windows, tree, outputVars, toplevelVars, enabled>>

(* handle_cursor_button on a bar, a panel, a wallpaper: the layer surface  *)
(* gets the keyboard, and no toplevel matches.                             *)
PressLayerSurface ==
    /\ seat' = NoToplevel
    /\ UNCHANGED <<windows, focused, tree, outputVars, toplevelVars, enabled, grabVars>>

(* handle_grab_button, released: any button's release ends the grab.       *)
Release ==
    /\ grab # "none"
    /\ grab' = "none" /\ grabTl' = NoToplevel
    /\ UNCHANGED <<windows, focused, tree, outputVars, toplevelVars, enabled, seat>>

(* process_motion: all it changes here is the output under the cursor.     *)
Motion ==
    /\ cursor' \in {outputs[o].id : o \in DOMAIN outputs}
    /\ UNCHANGED <<windows, focused, tree, outputs, toplevelVars, enabled, grabVars, seat>>

PointerNext ==
    \/ \E tl \in Toplevels, chord \in GrabModes : Press(tl, chord)
    \/ PressLayerSurface \/ Release \/ Motion
=============================================================================
