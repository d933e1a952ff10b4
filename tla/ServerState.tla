----------------------------- MODULE ServerState -----------------------------
(***************************************************************************)
(* The compositor state every handler of 0xide works on (src/state.rs),    *)
(* with the helpers the handlers share (src/tiling.rs, and focus_index of  *)
(* src/keybindings.rs).                                                    *)
(*                                                                         *)
(* 0xide is single threaded: the wlroots event loop runs one handler at a  *)
(* time to its end, so each handler is one action (modules                 *)
(* ToplevelHandlers, Keybindings, Outputs, Pointer; module Compositor is   *)
(* their composition).  What is adversarial is the order of the events.    *)
(*                                                                         *)
(* A handler is written in the order of its calls.  The operators below    *)
(* that mention primed variables (Refresh, FocusIndex) stand for calls at  *)
(* the end of a handler: they read windows', outputs', cursor', which the  *)
(* handler has settled by then.                                            *)
(*                                                                         *)
(* Geometry (positions, sizes, gaps) is abstracted away here: module       *)
(* Layout has the split tree's.                                            *)
(***************************************************************************)
EXTENDS TreeInterface, SequencesExt

CONSTANTS
    OutputIds,      \* the monitors that come and go
    WorkspaceCount, \* WORKSPACE_COUNT, 9 in the code
    Dialogs,        \* windows that may get a parent or a fixed size
    FloatRules,     \* windows a `float = <app_id>` rule matches
    NoToplevel,     \* the null toplevel pointer
    NoOutput        \* the cursor is on no output

VARIABLES
    windows,     \* workspace -> its windows, oldest first
    focused,     \* workspace -> index (from 0) of its focused window
    tree,        \* workspace -> its split tree
    outputs,     \* the connected outputs, in order: [id, workspace]
    cursor,      \* the output under the cursor
    life,        \* window -> where it is in its xdg-shell life
    fullscreen,  \* the windows whose `fullscreen` flag is set
    floating,    \* the windows whose `floating` flag is set
    requested,   \* the windows whose client last asked for fullscreen
    layer,       \* window -> the scene layer its node hangs under
    tiledStates, \* the windows last told they are tiled on all sides
    enabled,     \* the windows whose scene node is enabled
    grab,        \* what the pointer grab does
    grabTl,      \* the grabbed window
    seat         \* the window with the seat's keyboard focus

toplevelVars == <<life, fullscreen, floating, requested, layer, tiledStates>>
grabVars == <<grab, grabTl>>
outputVars == <<outputs, cursor>>
vars == <<windows, focused, tree, outputVars, toplevelVars, enabled, grabVars, seat>>

Workspaces == 0 .. WorkspaceCount - 1
GrabModes == {"none", "move", "resize"}
Layers == {"normal", "floating", "fullscreen"}

(* absent: no such object.  created: no buffer, initial commit pending.    *)
(* initialized: the first configure is out.  mapped: it has content.       *)
Lives == {"absent", "created", "initialized", "mapped"}

Output == [id : OutputIds, workspace : Workspaces]

ASSUME ServerAssumption ==
    /\ IsFiniteSet(Toplevels)
    /\ WorkspaceCount \in Nat \ {0}
    /\ Dialogs \subseteq Toplevels
    /\ FloatRules \subseteq Toplevels
    /\ NoToplevel \notin Toplevels
    /\ NoOutput \notin OutputIds

ASSUME TreeAssumption == TreeLaws

-----------------------------------------------------------------------------
(* Outputs and workspaces.                                                 *)

Shown == {outputs[o].workspace : o \in DOMAIN outputs}

(* active_output: the cursor's output; the first one when the cursor is    *)
(* off all of them.  Only called with an output connected.                 *)
ActiveOutput ==
    IF \E o \in DOMAIN outputs : outputs[o].id = cursor
    THEN CHOOSE o \in DOMAIN outputs : outputs[o].id = cursor
    ELSE 1

ActiveWorkspace == outputs[ActiveOutput].workspace

(* Broken: looks among the displayed workspaces only.                      *)
HoldersShown(tl) == {w \in Shown : tl \in Range(windows[w])}

(* The workspaces that hold tl (workspace_of takes the first).             *)
Holders(tl) == {w \in Workspaces : tl \in Range(windows[w])}

Tracked == UNION {Range(windows[w]) : w \in Workspaces}

(* The active workspace when it has a window: what the keybindings that    *)
(* act on the focused window require (n > 0), as a set of at most one.     *)
BusyWorkspace ==
    IF outputs = <<>> THEN {} ELSE {ActiveWorkspace} \ {w \in Workspaces : windows[w] = <<>>}

-----------------------------------------------------------------------------
(* The split tree's bookkeeping.                                           *)

TiledSet(w) == Range(windows[w]) \ (fullscreen \cup floating)

(* tiled_position: how many tiled windows come before tl.                  *)
TiledPosition(w, tl) ==
    LET before == 1 .. (CHOOSE i \in DOMAIN windows[w] : windows[w][i] = tl) - 1
    IN  Cardinality({windows[w][i] : i \in before} \cap TiledSet(w))

(* tree_untrack: before the flag flips.                                    *)
Untrack(t, w, tl) ==
    IF tl \in TiledSet(w) THEN [t EXCEPT ![w] = TreeRemove(@, TiledPosition(w, tl))] ELSE t

(* Broken: called before the flag flips.                                   *)
TrackTooEarly(t, w, tl) ==
    IF tl \in TiledSet(w) THEN [t EXCEPT ![w] = TreeInsertAt(@, TiledPosition(w, tl))] ELSE t

(* tree_track: after the flag has flipped, hence the primes.               *)
Track(t, w, tl) ==
    IF tl \in TiledSet(w)' THEN [t EXCEPT ![w] = TreeInsertAt(@, TiledPosition(w, tl)')] ELSE t

-----------------------------------------------------------------------------
(* Focus.                                                                  *)

(* Broken: off by one; and without the test for an emptied workspace.      *)
ClampedTooFar(f, len) == IF f > len /\ len > 0 THEN len - 1 ELSE f
ClampedBelowZero(f, len) == IF f >= len THEN len - 1 ELSE f

(* `if focused >= len && len > 0 { focused = len - 1 }`                    *)
Clamped(f, len) == IF f >= len /\ len > 0 THEN len - 1 ELSE f

(* focus_index(idx), called with the focus indices foc and the seat on s.  *)
FocusIndex(foc, idx, s) ==
    IF BusyWorkspace' = {}
    THEN focused' = foc /\ seat' = s
    ELSE \E a \in BusyWorkspace' :
            LET i == idx % Len(windows'[a])
            IN  /\ focused' = [foc EXCEPT ![a] = i]
                /\ seat' = windows'[a][i + 1]

(* Broken: no focus_index at all.                                          *)
RefocusNothing(foc, s) == focused' = foc /\ seat' = s

(* focus_index on the active workspace's own focused index.                *)
Refocus(foc, s) == FocusIndex(foc, foc[ActiveWorkspace'], s)

(* Broken: shows windows and never hides one.                              *)
RefreshNeverHides ==
    enabled' = enabled \cup {tl \in Tracked' : \E w \in Holders(tl)' : w \in Shown'}

(* refresh: a tracked window is visible iff its workspace is shown.  It    *)
(* leaves the nodes of untracked windows alone.                            *)
Refresh ==
    enabled' = {tl \in Toplevels :
                    IF tl \in Tracked' THEN \E w \in Holders(tl)' : w \in Shown'
                                       ELSE tl \in enabled}

-----------------------------------------------------------------------------
Init ==
    /\ windows = [w \in Workspaces |-> <<>>]
    /\ focused = [w \in Workspaces |-> 0]
    /\ tree = [w \in Workspaces |-> NoTree]
    /\ outputs = <<>>
    /\ cursor = NoOutput
    /\ life = [tl \in Toplevels |-> "absent"]
    /\ fullscreen = {} /\ floating = {} /\ requested = {} /\ tiledStates = {}
    /\ layer = [tl \in Toplevels |-> "normal"]
    /\ enabled = {}
    /\ grab = "none" /\ grabTl = NoToplevel
    /\ seat = NoToplevel
=============================================================================
