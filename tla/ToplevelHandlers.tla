-------------------------- MODULE ToplevelHandlers --------------------------
(***************************************************************************)
(* src/toplevel.rs: the life of an application window, driven by its       *)
(* client through xdg-shell, and the two flag flips (set_fullscreen,       *)
(* set_floating) that the keybindings use too.                             *)
(*                                                                         *)
(* A window may change state in any order xdg-shell allows: ask for        *)
(* fullscreen before it maps, unmap and map again, be destroyed before it  *)
(* ever maps.                                                              *)
(***************************************************************************)
EXTENDS ServerState

(* Broken: forgets that a window may float.                                *)
LayerWithoutFloating(tl, full, float) == IF tl \in full THEN "fullscreen" ELSE "normal"

(* The scene tree the two flags call for.                                  *)
LayerOf(tl, full, float) ==
    IF tl \in full THEN "fullscreen" ELSE IF tl \in float THEN "floating" ELSE "normal"

-----------------------------------------------------------------------------
(* set_fullscreen and set_floating on tl, for a flag that changes (one     *)
(* that does not change leaves the server alone).  They end in refresh,    *)
(* and leave the focus, the seat and a pointer grab as they are.           *)

SetFullscreen(tl, on) ==
    /\ fullscreen' = IF on THEN fullscreen \cup {tl} ELSE fullscreen \ {tl}
    /\ layer' = [layer EXCEPT ![tl] = LayerOf(tl, fullscreen', floating)]
    /\ UNCHANGED <<windows, outputVars, life, floating, tiledStates, focused, grabVars, seat>>
    /\ \/ /\ Holders(tl) = {} \/ tl \in floating
          /\ UNCHANGED tree
       \/ \E w \in Holders(tl) :
            /\ tl \notin floating
            /\ tree' = IF on THEN Untrack(tree, w, tl) ELSE Track(tree, w, tl)
    /\ Refresh

(* Broken: re-tiling restores no tiled states.                             *)
PostureOnlyFloats(tl, on) == IF on THEN tiledStates \ {tl} ELSE tiledStates

(* set_tiled_none, set_tiled_all.                                          *)
Posture(tl, on) == IF on THEN tiledStates \ {tl} ELSE tiledStates \cup {tl}

SetFloating(tl, on) ==
    /\ floating' = IF on THEN floating \cup {tl} ELSE floating \ {tl}
    /\ layer' = [layer EXCEPT ![tl] = IF tl \in fullscreen THEN @ ELSE LayerOf(tl, {}, floating')]
    /\ tiledStates' = Posture(tl, on)
    /\ UNCHANGED <<windows, outputVars, life, fullscreen, requested, focused, grabVars, seat>>
    /\ \/ /\ Holders(tl) = {} \/ tl \in fullscreen
          /\ UNCHANGED tree
       \/ \E w \in Holders(tl) :
            /\ tl \notin fullscreen
            /\ tree' = IF on THEN Untrack(tree, w, tl) ELSE Track(tree, w, tl)
    /\ Refresh

-----------------------------------------------------------------------------
(* Broken: the grab outlives its window.                                   *)
KeepGrab(tl) == UNCHANGED grabVars

DropGrab(tl) ==
    IF grabTl = tl THEN grab' = "none" /\ grabTl' = NoToplevel ELSE UNCHANGED grabVars

(* remove_window: out of the workspace that holds tl, out of its tree, and *)
(* the grab dies with it; then the active workspace's focused window gets  *)
(* the keyboard.  A window no workspace holds changes nothing of that, but *)
(* the focus moves all the same.  s is where the seat stays otherwise.     *)
RemoveWindow(tl, s) ==
    /\ UNCHANGED outputVars
    /\ DropGrab(tl)
    /\ \/ /\ Holders(tl) = {}
          /\ UNCHANGED <<windows, tree>>
          /\ Refocus(focused, s)
       \/ \E w \in Holders(tl) : \E k \in DOMAIN windows[w] :
          /\ windows[w][k] = tl
          /\ windows' = [windows EXCEPT ![w] = RemoveAt(@, k)]
          /\ tree' = Untrack(tree, w, tl)
          /\ Refocus([focused EXCEPT ![w] = Clamped(@, Len(windows[w]) - 1)], s)

-----------------------------------------------------------------------------
(* The handlers.                                                           *)

(* handle_new_toplevel: a fresh scene node in the normal layer.            *)
NewToplevel(tl) ==
    /\ life[tl] = "absent"
    /\ life' = [life EXCEPT ![tl] = "created"]
    /\ layer' = [layer EXCEPT ![tl] = "normal"]
    /\ enabled' = enabled \cup {tl}
    /\ fullscreen' = fullscreen \ {tl}
    /\ floating' = floating \ {tl}
    /\ UNCHANGED <<windows, focused, tree, outputVars, requested, tiledStates, grabVars, seat>>

(* handle_commit on the initial commit.  The client may set its parent or  *)
(* its fixed size before this commit or only later: `natural`.  Rust asks  *)
(* the client to tile only here and in set_floating.                       *)
InitialCommit(tl) ==
    /\ life[tl] = "created"
    /\ life' = [life EXCEPT ![tl] = "initialized"]
    /\ \E natural \in SUBSET (Dialogs \cap {tl}) :
        IF tl \in natural \cup FloatRules
        THEN floating' = floating \cup {tl} /\ UNCHANGED tiledStates
        ELSE tiledStates' = tiledStates \cup {tl} /\ UNCHANGED floating
    /\ UNCHANGED <<windows, focused, tree, outputVars, fullscreen, requested, layer,
                   enabled, grabVars, seat>>

(* handle_map without an output: an early return.                          *)
MapWithoutOutput(tl) ==
    /\ life[tl] = "initialized" /\ outputs = <<>>
    /\ life' = [life EXCEPT ![tl] = "mapped"]
    /\ UNCHANGED <<windows, focused, tree, outputVars, fullscreen, floating, requested,
                   layer, tiledStates, enabled, grabVars, seat>>

(* handle_map: onto the end of the active workspace, focused, and then     *)
(* into fullscreen if the client has asked for it: set_fullscreen takes    *)
(* out again the leaf that tree_track has just put in.                     *)
Map(tl) ==
    /\ life[tl] = "initialized" /\ outputs # <<>>
    /\ life' = [life EXCEPT ![tl] = "mapped"]
    /\ UNCHANGED <<outputVars, requested, tiledStates, grabVars>>
    /\ \E natural \in SUBSET (Dialogs \cap {tl}) : floating' = floating \cup natural
    /\ fullscreen' = fullscreen \cup (requested \cap {tl})
    /\ layer' = [layer EXCEPT ![tl] =
                    IF tl \in fullscreen' \ fullscreen THEN "fullscreen"
                    ELSE IF tl \in floating' THEN "floating" ELSE @]
    /\ \E a \in {ActiveWorkspace} :
        LET last == Cardinality(TiledSet(a))
            grown == IF tl \in floating' \cup fullscreen
                     THEN tree[a] ELSE TreeInsertAt(tree[a], last)
        IN  /\ windows' = [windows EXCEPT ![a] = Append(@, tl)]
            /\ tree' = [tree EXCEPT ![a] =
                            IF tl \in fullscreen' \ (fullscreen \cup floating')
                            THEN TreeRemove(grown, last) ELSE grown]
            /\ FocusIndex(focused, Len(windows[a]), seat)
    /\ Refresh

(* handle_unmap.  wlroots takes the surface back to before its initial     *)
(* commit; whether that forgets the client's fullscreen request and the    *)
(* tiled states is wlroots' business: both ways.  Rust's own flags stay.   *)
Unmap(tl) ==
    /\ life[tl] = "mapped"
    /\ life' = [life EXCEPT ![tl] = "created"]
    /\ requested' \in {requested, requested \ {tl}}
    /\ tiledStates' \in {tiledStates, tiledStates \ {tl}}
    /\ UNCHANGED <<fullscreen, floating, layer>>
    /\ RemoveWindow(tl, seat)
    /\ Refresh

(* handle_destroy, after the unmap if it was mapped.  Its memory is freed; *)
(* the keyboard leaves a surface that is gone.                             *)
Destroy(tl) ==
    /\ life[tl] \in {"created", "initialized"}
    /\ life' = [life EXCEPT ![tl] = "absent"]
    /\ requested' = requested \ {tl}
    /\ tiledStates' = tiledStates \ {tl}
    /\ fullscreen' = fullscreen \ {tl}
    /\ floating' = floating \ {tl}
    /\ UNCHANGED layer
    /\ RemoveWindow(tl, IF seat = tl THEN NoToplevel ELSE seat)
    /\ Refresh

(* handle_request_fullscreen, at any time in the window's life.            *)
RequestFullscreen(tl, on) ==
    /\ life[tl] # "absent"
    /\ requested' = IF on THEN requested \cup {tl} ELSE requested \ {tl}
    /\ IF (tl \in fullscreen) = on
       THEN UNCHANGED <<windows, focused, tree, outputVars, life, fullscreen, floating,
                        layer, tiledStates, enabled, grabVars, seat>>
       ELSE SetFullscreen(tl, on)

ToplevelNext ==
    \E tl \in Toplevels :
        \/ NewToplevel(tl) \/ InitialCommit(tl)
        \/ MapWithoutOutput(tl) \/ Map(tl) \/ Unmap(tl) \/ Destroy(tl)
        \/ \E on \in BOOLEAN : RequestFullscreen(tl, on)
=============================================================================
