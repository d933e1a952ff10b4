------------------------------ MODULE Placement ------------------------------
(***************************************************************************)
(* Where a floating window is: the geometry module ServerState leaves out. *)
(* place_floating and clamp_floating (src/toplevel.rs), nudges             *)
(* (src/keybindings.rs), drags (src/input.rs), the round trips through     *)
(* fullscreen and tiling, over monitors (src/output.rs) that come, go,     *)
(* change their usable area and move.                                      *)
(*                                                                         *)
(* Floating windows do not disturb each other, so there is one window, the *)
(* focused one of its workspace.  The code treats x and y alike and apart  *)
(* from each other, so there is one axis, the one monitors stand along: a  *)
(* rect is where it begins and how long it is, in units of 50 pixels.  The *)
(* client takes the size a floating window is given.                       *)
(***************************************************************************)
EXTENDS Integers, FiniteSetsExt, SequencesExt

CONSTANTS
    OutputIds,
    WorkspaceCount,
    NoWorkspace,    \* the window is on no workspace: unmapped
    Size,           \* monitor -> its length
    Configured,     \* the monitors with a `monitor =` line
    Position,       \* configured monitor -> where that puts it
    Bars,           \* monitor -> the widths of the bar it may have in front
    Points,         \* where the pointer may be
    NaturalSizes,   \* the sizes clients map dialogs at
    FloatPercent,   \* float_size, 60 by default
    NUDGE_STEP, MIN_FLOAT_SIZE,
    MaxSize,        \* bound: no drag makes the window longer
    MaxDrift        \* bound: no drag takes a hidden window further out

(* Sizes are positive, and a bar leaves of its monitor so much that the    *)
(* default size of a floating window there is at least one.                *)
ASSUME PlacementAssumption ==
    /\ WorkspaceCount \in Nat \ {0} /\ NoWorkspace \notin 0 .. WorkspaceCount - 1
    /\ Configured \subseteq OutputIds /\ \A id \in Configured : Position[id] \in Int
    /\ FloatPercent \in 1 .. 100 /\ NUDGE_STEP \in Int /\ MIN_FLOAT_SIZE \in Nat \ {0}
    /\ \A id \in OutputIds :
          /\ Size[id] \in Nat \ {0}
          /\ \A width \in Bars[id] :
                width \in Nat /\ width < Size[id] /\ (Size[id] - width) * FloatPercent >= 100
    /\ Points \subseteq Int /\ NaturalSizes \subseteq Nat \ {0}

VARIABLES
    outputs,    \* Server.outputs, in order: [id, box, usable, workspace]
    pointer,    \* where the cursor is
    home,       \* the workspace that lists the window
    floating, fullscreen,
    rect,       \* Toplevel.{x, w}
    node,       \* the position of the window's scene node
    grab,       \* Server.grab
    offset,     \* what a drag adds to the pointer: grab_x - grab_cx etc.
    held        \* the pointer's buttons that are down

grabVars == <<grab, offset, held>>
windowVars == <<home, floating, fullscreen, rect, node>>
vars == <<outputs, pointer, windowVars, grabVars>>

Workspaces == 0 .. WorkspaceCount - 1
Directions == {"left", "right", "up", "down"}
Modes == [left |-> "move", right |-> "resize"]
Buttons == DOMAIN Modes

Smaller(a, b) == IF a <= b THEN a ELSE b
Larger(a, b) == IF a >= b THEN a ELSE b

Rects == [x : Int, w : Int]
Rect(x, w) == [x |-> x, w |-> w]
NoRect == Rect(0, 0)
Covers(r, p) == r.x <= p /\ p < r.x + r.w

-----------------------------------------------------------------------------
(* The wlroots output layout: a configured monitor stands where its line   *)
(* says, the others to the right of all those, side by side in the order   *)
(* they came.  It is laid out anew whenever a monitor comes or goes.       *)
LayoutBox(outs, k) ==
    LET length == [o \in DOMAIN outs |-> Size[outs[o].id]]
        fixed == {o \in DOMAIN outs : outs[o].id \in Configured}
        ends == {Position[outs[o].id] + length[o] : o \in fixed}
        before == {o \in DOMAIN outs \ fixed : o < k}
    IN  Rect(IF k \in fixed THEN Position[outs[k].id]
             ELSE (IF ends = {} THEN 0 ELSE Max(ends)) + MapThenSumSet(LAMBDA o : length[o], before),
             length[k])

(* The output under the cursor, else the first (active_output).            *)
ActiveOutput ==
    LET under == {o \in DOMAIN outputs : Covers(LayoutBox(outputs, o), pointer)}
    IN  IF under = {} THEN 1 ELSE Min(under)

Active == outputs[ActiveOutput]

(* The outputs that show the window's workspace.                           *)
Showing == {o \in DOMAIN outputs : outputs[o].workspace = home}

(* With more monitors than workspaces there may be several: clamp_floating *)
(* looks for the first; refresh lays the window out on one after the other,*)
(* and it stays on the last.                                               *)
ClampedOn == outputs[Min(Showing)]
LaidOutOn == outputs[Max(Showing)]

Bar(box, width) == Rect(box.x + width, box.w - width)

-----------------------------------------------------------------------------
(* Placing and clamping.                                                   *)

(* Broken: the size is not capped to the area.                             *)
CenteredUncapped(area, size) == Rect(area.x + (area.w - size) \div 2, size)

(* place_floating: capped to the area, centered in it.                     *)
Centered(area, size) ==
    LET w == Smaller(size, area.w)
    IN  Rect(Larger(area.x + (area.w - w) \div 2, area.x), w)

(* float_default_size.                                                     *)
DefaultSize(area) == (area.w * FloatPercent) \div 100

Clamp(v, low, high) == IF v < low THEN low ELSE IF v > high THEN high ELSE v

Within(area, p) == Clamp(p, area.x, Larger(area.x + area.w - rect.w, area.x))

(* clamp_floating: a window no output shows may go anywhere.               *)
Clamped(p) == IF Showing = {} THEN p ELSE Within(ClampedOn.usable, p)

(* Broken: every window on screen, floating ones too.                      *)
RefreshAll(r, n) ==
    IF Showing' # {}
    THEN rect' = (IF fullscreen' THEN LaidOutOn'.box ELSE LaidOutOn'.usable) /\ node' = rect'.x
    ELSE rect' = r /\ node' = n

(* refresh, at the end of a handler that has the window at r, its node at  *)
(* n: a fullscreen window covers its output, a lone tile the usable area   *)
(* (the gap is 0), a floating one stays.                                   *)
Refresh(r, n) ==
    IF Showing' # {} /\ (fullscreen' \/ ~floating')
    THEN rect' = (IF fullscreen' THEN LaidOutOn'.box ELSE LaidOutOn'.usable) /\ node' = rect'.x
    ELSE rect' = r /\ node' = n

MoveTo(p) == rect' = Rect(p, rect.w) /\ node' = p

-----------------------------------------------------------------------------
Init ==
    /\ outputs = <<>>
    /\ pointer \in Points
    /\ home = NoWorkspace /\ floating = FALSE /\ fullscreen = FALSE
    /\ rect = NoRect /\ node = NoRect.x
    /\ grab = "none" /\ offset = 0 /\ held = {}

-----------------------------------------------------------------------------
(* The window's client.                                                    *)

(* handle_map, on the active output: the end of set_fullscreen(true) when  *)
(* the client asked for it.  Without a monitor nothing lists the window.   *)
Map(natural, dialog, asks) ==
    /\ home = NoWorkspace /\ outputs # <<>>
    /\ home' = Active.workspace
    /\ floating' = (floating \/ dialog)
    /\ fullscreen' = (fullscreen \/ asks)
    /\ UNCHANGED <<outputs, pointer, grabVars>>
    /\ LET r == IF floating' THEN Centered(Active.usable, natural) ELSE rect
       IN  Refresh(r, IF floating' THEN r.x ELSE node)

(* handle_unmap.  The flags stay; so does the rect, which Map overwrites.  *)
Unmap ==
    /\ home # NoWorkspace
    /\ home' = NoWorkspace
    /\ rect' = NoRect /\ node' = NoRect.x
    /\ grab' = "none" /\ offset' = 0
    /\ UNCHANGED <<outputs, pointer, floating, fullscreen, held>>

(* handle_destroy of the unmapped window, and handle_new_toplevel.         *)
Recreate ==
    /\ home = NoWorkspace
    /\ floating' = FALSE /\ fullscreen' = FALSE
    /\ UNCHANGED <<outputs, pointer, home, rect, node, grabVars>>

(* set_fullscreen.  (It places an unmapped window too, of no consequence.) *)
SetFullscreen(on) ==
    /\ fullscreen # on
    /\ fullscreen' = on
    /\ UNCHANGED <<outputs, pointer, home, floating, grabVars>>
    /\ IF ~on /\ floating /\ home # NoWorkspace /\ outputs # <<>>
       THEN rect' = Centered(Active.usable, rect.w) /\ node' = rect'.x
       ELSE Refresh(rect, node)

(* handle_request_fullscreen, whenever the client likes.                   *)
RequestFullscreen == \E on \in BOOLEAN : SetFullscreen(on)

-----------------------------------------------------------------------------
(* Keys: they act on the focused window of the active workspace.           *)

Focused == outputs # <<>> /\ home # NoWorkspace /\ Active.workspace = home

FullscreenKey == Focused /\ SetFullscreen(~fullscreen)

(* Broken: the tile's rect is left to the next refresh.                    *)
RetileLater ==
    /\ Focused
    /\ floating' = ~floating
    /\ UNCHANGED <<outputs, pointer, home, fullscreen, grabVars>>
    /\ IF floating THEN UNCHANGED <<rect, node>>
       ELSE LET r == Centered(Active.usable, DefaultSize(Active.usable))
            IN  Refresh(r, r.x)

(* set_floating.                                                           *)
ToggleFloating ==
    /\ Focused
    /\ floating' = ~floating
    /\ UNCHANGED <<outputs, pointer, home, fullscreen, grabVars>>
    /\ LET r == IF floating THEN rect
                ELSE Centered(Active.usable, DefaultSize(Active.usable))
       IN  Refresh(r, IF floating THEN node ELSE r.x)

(* nudge_floating: movewindow on a floating window.                        *)
Nudge(dir) ==
    /\ Focused /\ floating /\ ~fullscreen
    /\ LET dx == CASE dir = "left" -> -NUDGE_STEP [] dir = "right" -> NUDGE_STEP [] OTHER -> 0
       IN  MoveTo(Clamped(rect.x + dx))
    /\ UNCHANGED <<outputs, pointer, home, floating, fullscreen, grabVars>>

(* switch_workspace: the first output that shows the target swaps.         *)
Swapping(target) ==
    {o \in DOMAIN outputs :
        outputs[o].workspace = target /\ \A i \in 1 .. o - 1 : outputs[i].workspace # target}

SwitchWorkspace(target) ==
    /\ outputs # <<>> /\ target # Active.workspace
    /\ outputs' = [o \in DOMAIN outputs |->
                    [outputs[o] EXCEPT !.workspace =
                        IF o = ActiveOutput THEN target
                        ELSE IF o \in Swapping(target) THEN Active.workspace
                        ELSE @]]
    /\ UNCHANGED <<pointer, home, floating, fullscreen, grabVars>>
    /\ Refresh(rect, node)

(* move_to_workspace.                                                      *)
MoveToWorkspace(target) ==
    /\ Focused /\ target # home
    /\ home' = target
    /\ UNCHANGED <<outputs, pointer, floating, fullscreen, grabVars>>
    /\ Refresh(rect, node)

-----------------------------------------------------------------------------
(* The pointer.                                                            *)

OverWindow == Showing # {} /\ Covers(Rect(node, rect.w), pointer)

(* handle_grab_button, pressed.  chord: exactly the primary modifier is    *)
(* held.  The window may be covered by another: hit.                       *)
Press(button, chord, hit) ==
    /\ button \notin held
    /\ held' = held \cup {button}
    /\ hit => OverWindow
    /\ IF chord /\ hit /\ floating /\ ~fullscreen
       THEN /\ grab' = Modes[button]
            /\ offset' = (IF grab' = "move" THEN rect.x ELSE rect.w) - pointer
       ELSE UNCHANGED <<grab, offset>>
    /\ UNCHANGED <<outputs, pointer, windowVars>>

(* Broken: only the button a move began with ends it.                      *)
ReleaseEndsMoves(button) ==
    /\ button \in held
    /\ held' = held \ {button}
    /\ IF button = "left" THEN grab' = "none" /\ offset' = 0
       ELSE UNCHANGED <<grab, offset>>
    /\ UNCHANGED <<outputs, pointer, windowVars>>

(* handle_grab_button, released: any button ends a grab.                   *)
Release(button) ==
    /\ button \in held
    /\ held' = held \ {button}
    /\ grab' = "none" /\ offset' = 0
    /\ UNCHANGED <<outputs, pointer, windowVars>>

(* handle_grab_motion.  The cursor stays on the monitors, while there are  *)
(* any.                                                                    *)
Motion(p) ==
    /\ outputs = <<>> \/ \E o \in DOMAIN outputs : Covers(LayoutBox(outputs, o), p)
    /\ p # pointer
    /\ pointer' = p
    /\ LET w == Larger(offset + p, MIN_FLOAT_SIZE)
       IN  CASE grab = "none" -> UNCHANGED <<rect, node>>
             [] grab = "move" ->
                    /\ Showing = {} => offset + p \in -MaxDrift .. MaxDrift
                    /\ MoveTo(Clamped(offset + p))
             [] grab = "resize" ->
                    /\ w <= MaxSize
                    /\ rect' = Rect(rect.x, w) /\ UNCHANGED node
    /\ UNCHANGED <<outputs, home, floating, fullscreen, grabVars>>

-----------------------------------------------------------------------------
(* Monitors.                                                               *)

(* Broken: from 1.                                                         *)
CountedWorkspace == Len(outputs) + 1

(* The first free workspace, else 0.                                       *)
FreeWorkspace ==
    LET free == Workspaces \ {outputs[o].workspace : o \in DOMAIN outputs}
    IN  IF free = {} THEN 0 ELSE Min(free)

(* handle_new_output: the box is read once, here; arrange_layers finds the *)
(* bars that wait for the monitor.                                         *)
NewOutput(id, width) ==
    /\ \A o \in DOMAIN outputs : outputs[o].id # id
    /\ LET box == LayoutBox(Append(outputs, [id |-> id]), Len(outputs) + 1)
       IN  outputs' = Append(outputs, [id |-> id, workspace |-> FreeWorkspace,
                                       box |-> box, usable |-> Bar(box, width)])
    /\ UNCHANGED <<pointer, home, floating, fullscreen, grabVars>>
    /\ Refresh(rect, node)

(* arrange_layers and refresh: a bar comes or goes.                        *)
ArrangeLayers(o, width) ==
    /\ outputs[o].usable # Bar(outputs[o].box, width)
    /\ outputs' = [outputs EXCEPT ![o].usable = Bar(outputs[o].box, width)]
    /\ UNCHANGED <<pointer, home, floating, fullscreen, grabVars>>
    /\ Refresh(rect, node)

(* handle_output_destroy.                                                  *)
OutputDestroy(o) ==
    /\ outputs' = RemoveAt(outputs, o)
    /\ UNCHANGED <<pointer, home, floating, fullscreen, grabVars>>
    /\ Refresh(rect, node)

(* Broken: the fresh node is left at (0, 0) until something moves it.      *)
NodesStayFresh ==
    /\ home # NoWorkspace
    /\ UNCHANGED <<outputs, pointer, home, floating, fullscreen, grabVars>>
    /\ Refresh(rect, 0)

(* handle_session_active: a fresh node starts at (0, 0).                   *)
SessionActive ==
    /\ home # NoWorkspace
    /\ UNCHANGED <<outputs, pointer, home, floating, fullscreen, grabVars>>
    /\ Refresh(rect, IF floating /\ ~fullscreen THEN rect.x ELSE 0)

Next ==
    \/ \E natural \in NaturalSizes, dialog, asks \in BOOLEAN : Map(natural, dialog, asks)
    \/ Unmap \/ Recreate \/ RequestFullscreen \/ FullscreenKey \/ ToggleFloating
    \/ \E dir \in Directions : Nudge(dir)
    \/ \E target \in Workspaces : SwitchWorkspace(target) \/ MoveToWorkspace(target)
    \/ \E button \in Buttons, chord, hit \in BOOLEAN : Press(button, chord, hit)
    \/ \E button \in Buttons : Release(button)
    \/ \E p \in Points : Motion(p)
    \/ \E id \in OutputIds : \E width \in Bars[id] : NewOutput(id, width)
    \/ \E o \in DOMAIN outputs : OutputDestroy(o)
    \/ \E o \in DOMAIN outputs : \E width \in Bars[outputs[o].id] : ArrangeLayers(o, width)
    \/ SessionActive

Spec == Init /\ [][Next]_vars

-----------------------------------------------------------------------------
(* Every variable has its type.                                            *)
TypeOK ==
    /\ outputs \in Seq([id : OutputIds, workspace : Workspaces, box : Rects, usable : Rects])
    /\ {pointer, offset, node} \subseteq Int
    /\ rect \in Rects
    /\ home \in Workspaces \cup {NoWorkspace}
    /\ floating \in BOOLEAN /\ fullscreen \in BOOLEAN
    /\ grab \in {"none", "move", "resize"} /\ held \in SUBSET Buttons

Floats == home # NoWorkspace /\ floating /\ ~fullscreen

(* A floating window is drawn where its rect says, so that keys, drags and *)
(* VT switches start from what the user sees.  (Not when fullscreen ends   *)
(* without a monitor: place_floating then leaves the node alone, which a   *)
(* VT switch may have put at the origin.)                                  *)
DrawnAtRect ==
    [][/\ Floats => node = rect.x
       /\ Floats' /\ (Floats \/ outputs' # <<>>)
       => node' = rect'.x]_vars

(* In reach: it begins in the area, and ends there if it fits.             *)
InReach(r, area) == Covers(area, r.x) /\ (r.w <= area.w => r.x + r.w <= area.x + area.w)

(* Whatever moves a floating window that is on screen leaves it in reach   *)
(* on an output that shows it, and whatever makes a window float leaves it *)
(* in reach on the active one, however far the drag and however stale its  *)
(* position: nothing pushes it under a bar or off the screen               *)
(* (src/toplevel.rs, clamp_floating and place_floating).                   *)
MovedIntoReach ==
    [][/\ Floats' /\ Showing' # {}
       /\ Floats => rect'.x # rect.x
       => \E o \in IF Floats THEN Showing' ELSE {ActiveOutput'} :
            InReach(rect', outputs'[o].usable)]_vars

(* Monitors, bars and workspace switches leave a floating window where it  *)
(* is (src/tiling.rs, refresh).                                            *)
FloatsKeepTheirRect ==
    [][Floats /\ Floats' /\ <<outputs, home>>' # <<outputs, home>> => UNCHANGED <<rect, node>>]_vars

(* A window that starts to tile or to be fullscreen, or whose workspace or *)
(* output changes, fills its area at once, wherever it was dragged before. *)
FillsItsArea ==
    [][/\ <<outputs, home, floating, fullscreen>>' # <<outputs, home, floating, fullscreen>>
       /\ home' # NoWorkspace /\ Showing' # {}
       => /\ fullscreen' => rect' = LaidOutOn'.box /\ node' = LaidOutOn'.box.x
          /\ ~fullscreen' /\ ~floating' =>
                rect' = LaidOutOn'.usable /\ node' = LaidOutOn'.usable.x]_vars

(* No drag goes on with no button down: the pointer is never captured for  *)
(* good.                                                                   *)
GrabNeedsButton == held = {} => grab = "none"
=============================================================================
