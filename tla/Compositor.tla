----------------------------- MODULE Compositor -----------------------------
(***************************************************************************)
(* 0xide as a whole: clients, keys, pointer and outputs interleaved in any *)
(* order over the shared state of ServerState, what must hold of it, and   *)
(* the refinement of Desktop.                                              *)
(***************************************************************************)
EXTENDS Keybindings, Outputs, Pointer

Next == ToplevelNext \/ KeyNext \/ OutputNext \/ PointerNext

Spec == Init /\ [][Next]_vars

-----------------------------------------------------------------------------
(* Every variable has its type: the windows of a workspace are windows, an *)
(* output shows a workspace that exists.                                   *)
TypeOK ==
    /\ windows \in [Workspaces -> Seq(Toplevels)]
    /\ focused \in [Workspaces -> Nat]
    /\ tree \in [Workspaces -> Trees]
    /\ outputs \in Seq(Output)
    /\ cursor \in OutputIds \cup {NoOutput}
    /\ life \in [Toplevels -> Lives]
    /\ fullscreen \in SUBSET Toplevels
    /\ floating \in SUBSET Toplevels
    /\ requested \in SUBSET Toplevels
    /\ layer \in [Toplevels -> Layers]
    /\ tiledStates \in SUBSET Toplevels
    /\ enabled \in SUBSET Toplevels
    /\ grab \in GrabModes
    /\ grabTl \in Toplevels \cup {NoToplevel}
    /\ seat \in Toplevels \cup {NoToplevel}

-----------------------------------------------------------------------------
(* Safety.                                                                 *)

(* The focused index names a window, or is 0 on an empty workspace, so     *)
(* that `windows[focused]` in move_to_workspace and in movewindow never    *)
(* panics, whatever closed or moved before.                                *)
FocusInRange ==
    \A w \in Workspaces :
        IF windows[w] = <<>> THEN focused[w] = 0 ELSE focused[w] < Len(windows[w])

(* No window is listed twice, in one workspace or in two: remove_window    *)
(* stops at the first, and would leave a dangling pointer behind.          *)
EachWindowOnce ==
    \A v, w \in Workspaces : \A i \in DOMAIN windows[v], j \in DOMAIN windows[w] :
        windows[v][i] = windows[w][j] => v = w /\ i = j

(* Every window a workspace lists is mapped: a window's memory is freed    *)
(* (handle_destroy) only once no list holds it.                            *)
TrackedIsMapped == \A tl \in Tracked : life[tl] = "mapped"

(* A grab has a target and the target is a listed window, hence alive:     *)
(* handle_grab_motion dereferences it with no check.                       *)
GrabTargetTracked ==
    /\ grab = "none" <=> grabTl = NoToplevel
    /\ grabTl # NoToplevel => grabTl \in Tracked

(* Workspace.tree has one leaf per tiled window (src/state.rs, Workspace), *)
(* however fullscreen, floating, moves and removals interleave: with a     *)
(* leaf missing refresh's zip leaves the last window unplaced, with a leaf *)
(* too many it leaves a hole.                                              *)
TreeMatchesTiled == \A w \in Workspaces : LeafCount(tree[w]) = Cardinality(TiledSet(w))

(* A tracked window can be seen iff its workspace is on some output: no    *)
(* handler forgets to refresh.                                             *)
VisibleIffShown ==
    \A w \in Workspaces : \A tl \in Range(windows[w]) : tl \in enabled <=> w \in Shown

(* Two outputs never show the same workspace, as long as there are no more *)
(* outputs than workspaces.                                                *)
ShownOnce ==
    \A o, p \in DOMAIN outputs : outputs[o].workspace = outputs[p].workspace => o = p

(* A window that is not fullscreen paints in the layer its floating flag   *)
(* names: a re-tiled window never stays above the tiles, a floating one    *)
(* never sinks below them.                                                 *)
LayerFollowsFloating ==
    \A tl \in Tracked \ fullscreen : layer[tl] = IF tl \in floating THEN "floating" ELSE "normal"

(* A window that does not float has been told that it is tiled, without    *)
(* which the sizes refresh sends do not bind it.                           *)
TiledIsBinding == Tracked \ floating \subseteq tiledStates

-----------------------------------------------------------------------------
(* What a step may never do.                                               *)

(* A window leaves the workspaces only when its client unmaps it: moving   *)
(* it, switching, unplugging outputs and the VT switch lose no window.     *)
NeverLosesWindows ==
    [][\A tl \in Tracked \ Tracked' : life[tl] = "mapped" /\ life'[tl] # "mapped"]_vars

(* When the keyboard moves to a window, the window is the focused one of   *)
(* its workspace: keys typed and keybindings act on the same window.       *)
FocusMovesInStep ==
    [][seat' # seat => \A w \in Holders(seat)' : seat' = FocusedWindow(w)']_vars

(* When a window closes and the active workspace has others, one of those  *)
(* gets the keyboard: it does not stay on a window that is gone.           *)
ClosingHandsFocusOn ==
    [][(\E tl \in Toplevels : life[tl] = "mapped" /\ life'[tl] # "mapped") =>
        \A a \in BusyWorkspace' : seat' \in Range(windows'[a])]_vars

-----------------------------------------------------------------------------
(* What the repository says of the program and the code does not hold.     *)

(* A fullscreen window's node is under tree_fullscreen, above the bars     *)
(* (src/state.rs, Toplevel.fullscreen).                                    *)
FullscreenOnTop == \A tl \in Tracked \cap fullscreen : layer[tl] = "fullscreen"

(* With a monitor connected, every mapped window is on a workspace.        *)
MappedIsTracked ==
    outputs # <<>> => \A tl \in Toplevels : life[tl] = "mapped" => tl \in Tracked

(* No configure is scheduled for a surface before its initial commit, on   *)
(* which wlroots asserts (shim/decoration.c): set_fullscreen schedules one.*)
NoEarlyConfigure ==
    [][\A tl \in Toplevels : life[tl] = "created" /\ life'[tl] = "created" =>
            (tl \in fullscreen <=> tl \in fullscreen')]_vars

-----------------------------------------------------------------------------
(* The abstract desktop.                                                   *)

PlaceOf ==
    [tl \in Toplevels |->
        IF tl \in Tracked THEN CHOOSE w \in Workspaces : w \in Holders(tl) ELSE NoOutput]

ShowsOf ==
    [id \in OutputIds |->
        IF \E o \in DOMAIN outputs : outputs[o].id = id
        THEN (CHOOSE r \in Range(outputs) : r.id = id).workspace
        ELSE NoOutput]

Abstract == INSTANCE Desktop WITH Nowhere <- NoOutput, place <- PlaceOf, shows <- ShowsOf

(* The compositor does nothing to windows and monitors but what Desktop    *)
(* allows: it opens windows on screen, carries only windows on screen, and *)
(* swaps workspaces instead of showing one twice.                          *)
ImplementsDesktop == Abstract!DesktopSpec
=============================================================================
