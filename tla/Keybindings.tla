----------------------------- MODULE Keybindings -----------------------------
(***************************************************************************)
(* src/keybindings.rs: the config's bind table, an action per bind that    *)
(* changes the server (spawn, close, quit and the VT switch do not: the    *)
(* client unmaps its window later, the session comes back in module        *)
(* Outputs).  All but the workspace binds act on the focused window of the *)
(* active workspace and need one: BusyWorkspace.                           *)
(***************************************************************************)
EXTENDS ToplevelHandlers

FocusedWindow(w) == windows[w][focused[w] + 1]

Swap(s, i, j) == [s EXCEPT ![i] = s[j], ![j] = s[i]]

(* focusnext and focusprev: a step forward or back, with wraparound.       *)
FocusStep ==
    /\ UNCHANGED <<windows, tree, outputVars, toplevelVars, enabled, grabVars>>
    /\ \E a \in BusyWorkspace : \E step \in {1, Len(windows[a]) - 1} :
        FocusIndex(focused, focused[a] + step, seat)

(* movefocus: spatial_neighbor picks, by geometry, one of the others.      *)
MoveFocus ==
    /\ UNCHANGED <<windows, tree, outputVars, toplevelVars, enabled, grabVars>>
    /\ \E a \in BusyWorkspace : \E i \in (0 .. Len(windows[a]) - 1) \ {focused[a]} :
        FocusIndex(focused, i, seat)

(* movewindow: the focused window changes places with a neighbour, and the *)
(* focus goes with it.  A floating window is nudged instead: geometry.     *)
MoveWindow ==
    \E a \in BusyWorkspace : \E i \in (0 .. Len(windows[a]) - 1) \ {focused[a]} :
        /\ FocusedWindow(a) \notin floating \ fullscreen
        /\ windows' = [windows EXCEPT ![a] = Swap(@, focused[a] + 1, i + 1)]
        /\ focused' = [focused EXCEPT ![a] = i]
        /\ UNCHANGED <<tree, outputVars, toplevelVars, grabVars, seat>>
        /\ Refresh

(* resizewindow.                                                           *)
ResizeWindow ==
    \E a \in BusyWorkspace : \E tl \in {FocusedWindow(a)} \cap TiledSet(a), dir \in Directions :
        /\ tree' = [tree EXCEPT ![a] = TreeResize(@, TiledPosition(a, tl), dir)]
        /\ UNCHANGED <<windows, focused, outputVars, toplevelVars, grabVars, seat>>
        /\ Refresh

ToggleFullscreen ==
    \E a \in BusyWorkspace : \E tl \in {FocusedWindow(a)} :
        /\ SetFullscreen(tl, tl \notin fullscreen)
        /\ UNCHANGED requested

ToggleFloating ==
    \E a \in BusyWorkspace : \E tl \in {FocusedWindow(a)} : SetFloating(tl, tl \notin floating)

(* Broken: the other output keeps the workspace.                           *)
SwitchedNoSwap(fo, target) == [outputs EXCEPT ![fo].workspace = target]

(* The outputs once fo shows target: an output that shows it already (the  *)
(* first such) takes fo's workspace in exchange.                           *)
Switched(fo, target) ==
    LET others == {o \in DOMAIN outputs : outputs[o].workspace = target}
    IN  [o \in DOMAIN outputs |->
            [outputs[o] EXCEPT !.workspace =
                CASE o = fo -> target
                  [] o # fo /\ o \in others /\ \A p \in others : o <= p -> outputs[fo].workspace
                  [] OTHER -> @]]

SwitchWorkspace(target) ==
    /\ outputs # <<>>
    /\ target # ActiveWorkspace
    /\ outputs' = Switched(ActiveOutput, target)
    /\ UNCHANGED <<windows, tree, cursor, toplevelVars, grabVars>>
    /\ Refresh
    /\ Refocus(focused, seat)

(* Broken: the window is lost on the way; it stays in the source too.      *)
CarriedAway(a, target) == [windows EXCEPT ![a] = RemoveAt(@, focused[a] + 1)]
CarriedTwice(a, target) == [windows EXCEPT ![target] = Append(@, FocusedWindow(a))]

(* The lists once a's focused window is at the end of target's.            *)
Carried(a, target) ==
    [windows EXCEPT ![a] = RemoveAt(@, focused[a] + 1),
                    ![target] = Append(@, FocusedWindow(a))]

MoveToWorkspace(target) ==
    \E a \in BusyWorkspace \ {target} : \E tl \in {FocusedWindow(a)} :
        /\ windows' = Carried(a, target)
        /\ UNCHANGED <<outputVars, toplevelVars, grabVars>>
        /\ tree' = IF tl \in TiledSet(a)
                   THEN Track(Untrack(tree, a, tl), target, tl) ELSE tree
        /\ Refresh
        /\ Refocus([focused EXCEPT ![a] = Clamped(@, Len(windows[a]) - 1)], seat)

KeyNext ==
    \/ FocusStep \/ MoveFocus \/ MoveWindow \/ ResizeWindow
    \/ ToggleFullscreen \/ ToggleFloating
    \/ \E target \in Workspaces : SwitchWorkspace(target) \/ MoveToWorkspace(target)
=============================================================================
