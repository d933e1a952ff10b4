---------------------------- MODULE WindowProofs ----------------------------
(***************************************************************************)
(* What a step may never do to the windows and to the keyboard focus, and  *)
(* that layers and tiled states follow the flags: on top of the invariant  *)
(* IInv of CompositorProofs.                                               *)
(***************************************************************************)
EXTENDS CompositorProofs

(* Which windows the workspaces list after a step: only a map adds one,    *)
(* only an unmap or a destroy takes one away.                              *)
Lists(tl) ==
    \/ Map(tl) /\ Tracked' = Tracked \cup {tl}
    \/ (Unmap(tl) \/ Destroy(tl)) /\ Tracked' = Tracked \ {tl}

(* movewindow reorders a list.                                             *)
LEMMA MoveWindowLists ==
    ASSUME IInv, MoveWindow
    PROVE  \A v \in Workspaces : Range(windows'[v]) = Range(windows[v])
  <1>1. /\ windows \in [Workspaces -> Seq(Toplevels)] /\ focused \in [Workspaces -> Nat]
        /\ outputs \in Seq(Output) /\ ListedOnce(windows) /\ InRange(focused, windows)
    BY DEF IInv, TypeOK
  <1>2. PICK a \in BusyWorkspace : \E i \in 0 .. Len(windows[a]) - 1 :
            windows' = [windows EXCEPT ![a] = Swap(windows[a], focused[a] + 1, i + 1)]
    BY DEF MoveWindow
  <1>3. PICK i \in 0 .. Len(windows[a]) - 1 :
            windows' = [windows EXCEPT ![a] = Swap(windows[a], focused[a] + 1, i + 1)]
    BY <1>2
  <1>4. a \in Workspaces /\ windows[a] # <<>> /\ windows[a] \in Seq(Toplevels) /\ Once(windows[a])
    BY <1>1, ActiveFacts DEF ListedOnce
  <1>5. focused[a] + 1 \in 1 .. Len(windows[a]) /\ i + 1 \in 1 .. Len(windows[a])
    BY <1>1, <1>4, SeqFacts DEF InRange
  <1>6. Range(Swap(windows[a], focused[a] + 1, i + 1)) = Range(windows[a])
    BY <1>4, <1>5, SwapFacts DEF Swap
  <1> QED
    BY <1>1, <1>3, <1>4, <1>6

(* move_to_workspace carries a window from one list to another.            *)
LEMMA MoveToWorkspaceLists ==
    ASSUME IInv, NEW target \in Workspaces, MoveToWorkspace(target)
    PROVE  \E a \in BusyWorkspace \ {target}, tl \in Toplevels :
            /\ tl \in Range(windows[a])
            /\ Range(windows'[target]) = Range(windows[target]) \cup {tl}
            /\ \A v \in Workspaces \ {target} : Range(windows'[v]) = Range(windows[v]) \ {tl}
  <1>1. /\ windows \in [Workspaces -> Seq(Toplevels)] /\ focused \in [Workspaces -> Nat]
        /\ outputs \in Seq(Output) /\ ListedOnce(windows) /\ InRange(focused, windows)
    BY DEF IInv, TypeOK
  <1>2. PICK a \in BusyWorkspace \ {target} : windows' = Carried(a, target)
    BY DEF MoveToWorkspace
  <1>3. PICK tl \in Toplevels : tl = FocusedWindow(a)
    BY <1>2, FocusedWindowFacts
  <1>4. PICK k \in DOMAIN windows[a] : k = focused[a] + 1
    BY <1>2, FocusedWindowFacts
  <1>5. a \in Workspaces /\ windows[a][k] = tl
    BY <1>2, <1>3, <1>4, FocusedWindowFacts DEF FocusedWindow
  <1>6. tl \in Range(windows[a])
    BY <1>4, <1>5 DEF Range
  <1> DEFINE left == Without(a, k)
  <1>7. /\ left \in [Workspaces -> Seq(Toplevels)] /\ ListedOnce(left)
        /\ \A v \in Workspaces : Range(left[v]) = Range(windows[v]) \ {tl}
    <2>1. /\ left \in [Workspaces -> Seq(Toplevels)] /\ ListedOnce(left)
          /\ \A v \in Workspaces : Range(left[v]) = Range(windows[v]) \ {windows[a][k]}
      BY <1>1, <1>4, <1>5, RemoveFromList
    <2> QED
      BY <1>5, <2>1
  <1>8. windows' = With(left, target, tl)
    BY <1>1, <1>2, <1>3, <1>4, <1>5 DEF Carried, Without, With
  <1> HIDE DEF left
  <1>9. /\ Range(With(left, target, tl)[target]) = Range(left[target]) \cup {tl}
        /\ \A v \in Workspaces \ {target} : With(left, target, tl)[v] = left[v]
    <2>1. \A v \in Workspaces : tl \notin Range(left[v])
      BY <1>7
    <2> QED
      BY ZenonT(60), <1>7, <2>1, PushFacts
  <1>10. /\ Range(windows'[target]) = Range(windows[target]) \cup {tl}
         /\ \A v \in Workspaces \ {target} : Range(windows'[v]) = Range(windows[v]) \ {tl}
    BY <1>7, <1>8, <1>9
  <1> QED
    BY <1>6, <1>10

(* So the same windows are listed.                                         *)
LEMMA MoveToWorkspaceTracked ==
    ASSUME IInv, NEW target \in Workspaces, MoveToWorkspace(target)
    PROVE  Tracked' = Tracked
  <1>1. PICK a \in BusyWorkspace, tl \in Toplevels :
            /\ tl \in Range(windows[a])
            /\ Range(windows'[target]) = Range(windows[target]) \cup {tl}
            /\ \A v \in Workspaces \ {target} : Range(windows'[v]) = Range(windows[v]) \ {tl}
    BY MoveToWorkspaceLists
  <1>2. a \in Workspaces
    BY ActiveFacts DEF IInv, TypeOK
  <1>3. ASSUME NEW x, NEW v \in Workspaces, x \in Range(windows[v])
        PROVE  \E u \in Workspaces : x \in Range(windows'[u])
    <2>1. CASE x = tl
      BY <1>1, <2>1
    <2>2. CASE x # tl
      BY <1>1, <1>3, <2>2
    <2> QED
      BY <2>1, <2>2
  <1>4. ASSUME NEW x, NEW v \in Workspaces, x \in Range(windows'[v])
        PROVE  \E u \in Workspaces : x \in Range(windows[u])
    BY <1>1, <1>2, <1>4
  <1> QED
    BY <1>3, <1>4 DEF Tracked

(* handle_map appends the window.                                          *)
LEMMA MapLists ==
    ASSUME IInv, NEW tl \in Toplevels, Map(tl)
    PROVE  /\ ActiveWorkspace \in Workspaces /\ outputs # <<>>
           /\ tl \notin Tracked
           /\ Range(windows'[ActiveWorkspace]) = Range(windows[ActiveWorkspace]) \cup {tl}
           /\ \A v \in Workspaces \ {ActiveWorkspace} : windows'[v] = windows[v]
  <1>1. /\ windows \in [Workspaces -> Seq(Toplevels)] /\ outputs \in Seq(Output)
        /\ ListedOnce(windows)
    BY DEF IInv, TypeOK
  <1>2. PICK a \in Workspaces : a = ActiveWorkspace /\ outputs # <<>> /\ windows' = With(windows, a, tl)
    BY <1>1, ActiveFacts DEF Map, With
  <1>3. tl \notin Tracked /\ \A v \in Workspaces : tl \notin Range(windows[v])
    BY DEF IInv, Map, TrackedIsMapped, Tracked
  <1>4. /\ Range(With(windows, a, tl)[a]) = Range(windows[a]) \cup {tl}
        /\ \A v \in Workspaces \ {a} : With(windows, a, tl)[v] = windows[v]
    BY <1>1, <1>3, PushFacts, Zenon
  <1> QED
    BY <1>2, <1>3, <1>4

(* So it is listed, besides those that were.                               *)
LEMMA MapTracked ==
    ASSUME IInv, NEW tl \in Toplevels, Map(tl)
    PROVE  Tracked' = Tracked \cup {tl}
  <1>1. PICK a \in Workspaces : \A v \in Workspaces :
            Range(windows'[v]) = IF v = a THEN Range(windows[a]) \cup {tl} ELSE Range(windows[v])
    BY MapLists
  <1> QED
    BY <1>1 DEF Tracked

(* handle_unmap and handle_destroy end in remove_window.                   *)
LEMMA LeaveTracked ==
    ASSUME IInv, NEW tl \in Toplevels, Unmap(tl) \/ Destroy(tl)
    PROVE  /\ Tracked' = Tracked \ {tl}
           /\ \A v \in Workspaces : Range(windows'[v]) = Range(windows[v]) \ {tl}
  <1>1. seat \in Toplevels \cup {NoToplevel}
    BY DEF IInv, TypeOK
  <1>2. Flagged' \ {tl} = Flagged \ {tl}
    BY DEF Unmap, Destroy, Flagged
  <1>3. PICK s \in Toplevels \cup {NoToplevel} : RemoveWindow(tl, s)
    BY <1>1 DEF Unmap, Destroy
  <1> QED
    BY <1>2, <1>3, RemoveWindowFacts

(* All steps.                                                              *)
LEMMA TrackedSteps ==
    ASSUME IInv, [Next]_vars
    PROVE  Tracked' = Tracked \/ \E tl \in Toplevels : Lists(tl)
  <1>1. ASSUME UNCHANGED windows PROVE Tracked' = Tracked
    BY <1>1 DEF Tracked
  <1>2. CASE ToplevelNext
    <2>1. PICK tl \in Toplevels :
            \/ NewToplevel(tl) \/ InitialCommit(tl) \/ MapWithoutOutput(tl)
            \/ \E on \in BOOLEAN : RequestFullscreen(tl, on)
            \/ Map(tl) \/ Unmap(tl) \/ Destroy(tl)
      BY <1>2 DEF ToplevelNext
    <2>2. CASE \/ NewToplevel(tl) \/ InitialCommit(tl) \/ MapWithoutOutput(tl)
               \/ \E on \in BOOLEAN : RequestFullscreen(tl, on)
      BY <1>1, <2>2 DEF NewToplevel, InitialCommit, MapWithoutOutput, RequestFullscreen, SetFullscreen
    <2> QED
      BY <2>1, <2>2, MapTracked, LeaveTracked DEF Lists
  <1>3. CASE KeyNext
    <2>1. ASSUME \/ FocusStep \/ MoveFocus \/ ResizeWindow \/ ToggleFullscreen \/ ToggleFloating
                 \/ \E target \in Workspaces : SwitchWorkspace(target)
          PROVE  UNCHANGED windows
      BY <2>1 DEF FocusStep, MoveFocus, ResizeWindow, ToggleFullscreen, ToggleFloating,
                  SetFullscreen, SetFloating, SwitchWorkspace
    <2>2. ASSUME MoveWindow PROVE Tracked' = Tracked
      BY <2>2, MoveWindowLists DEF Tracked
    <2> QED
      BY <1>1, <1>3, <2>1, <2>2, MoveToWorkspaceTracked DEF KeyNext
  <1>4. CASE OutputNext
    BY <1>1, <1>4 DEF OutputNext, NewOutput, OutputDestroy, SessionActive
  <1>5. CASE PointerNext
    BY <1>1, <1>5 DEF PointerNext, Press, PressLayerSurface, Release, Motion
  <1>6. CASE UNCHANGED vars
    BY <1>1, <1>6 DEF vars
  <1> QED
    BY <1>2, <1>3, <1>4, <1>5, <1>6 DEF Next

(* A window leaves the workspaces only when its client unmaps it: no key,  *)
(* monitor or VT switch loses one (src/keybindings.rs, src/output.rs).     *)
THEOREM NoWindowIsLost == Spec => NeverLosesWindows
  <1> DEFINE Keeps == \A tl \in Tracked \ Tracked' : life[tl] = "mapped" /\ life'[tl] # "mapped"
  <1>1. IInv /\ [Next]_vars => Keeps
    <2> SUFFICES ASSUME IInv, [Next]_vars, NEW tl \in Tracked \ Tracked'
                 PROVE  life[tl] = "mapped" /\ life'[tl] # "mapped"
      OBVIOUS
    <2>1. life[tl] = "mapped" /\ tl \in Toplevels /\ life \in [Toplevels -> Lives]
      <3>1. Tracked \subseteq Toplevels
        BY SeqFacts DEF IInv, TypeOK, Tracked
      <3> QED
        BY <3>1 DEF IInv, TrackedIsMapped, TypeOK
    <2>2. PICK x \in Toplevels : Lists(x)
      BY TrackedSteps
    <2>3. x = tl
      BY <2>2 DEF Lists
    <2> QED
      BY <2>1, <2>2, <2>3 DEF Lists, Map, Unmap, Destroy
  <1> QED
    BY <1>1, Invariance, PTL DEF Spec, NeverLosesWindows

-----------------------------------------------------------------------------
(* What a handler may do to a window's flags, layer and tiled states, and  *)
(* to its life.                                                            *)
FlagStep(tl) ==
    \/ NewToplevel(tl) \/ InitialCommit(tl) \/ MapWithoutOutput(tl)
    \/ Map(tl) \/ Unmap(tl) \/ Destroy(tl)
    \/ \E on \in BOOLEAN : SetFullscreen(tl, on) \/ SetFloating(tl, on)

(* Every step that touches any of them is one of those, or the VT's return.*)
LEMMA FlagSteps ==
    ASSUME IInv, [Next]_vars
    PROVE  \/ \E tl \in Toplevels : FlagStep(tl)
           \/ SessionActive
           \/ UNCHANGED <<life, fullscreen, floating, layer, tiledStates>>
  <1>1. CASE ToplevelNext
    BY <1>1 DEF ToplevelNext, FlagStep, RequestFullscreen
  <1>2. CASE KeyNext
    <2>1. ASSUME ToggleFullscreen \/ ToggleFloating
          PROVE  \E tl \in Toplevels : FlagStep(tl)
      <3>1. PICK a \in BusyWorkspace : \/ SetFullscreen(FocusedWindow(a), FocusedWindow(a) \notin fullscreen)
                                       \/ SetFloating(FocusedWindow(a), FocusedWindow(a) \notin floating)
        BY <2>1 DEF ToggleFullscreen, ToggleFloating
      <3>2. PICK tl \in Toplevels : tl = FocusedWindow(a)
        BY FocusedWindowFacts
      <3>3. (tl \notin fullscreen) \in BOOLEAN /\ (tl \notin floating) \in BOOLEAN
        OBVIOUS
      <3> QED
        BY <3>1, <3>2, <3>3 DEF FlagStep
    <2>2. ASSUME \/ FocusStep \/ MoveFocus \/ MoveWindow \/ ResizeWindow
                 \/ \E target \in Workspaces : SwitchWorkspace(target) \/ MoveToWorkspace(target)
          PROVE  UNCHANGED toplevelVars
      BY <2>2 DEF FocusStep, MoveFocus, MoveWindow, ResizeWindow, SwitchWorkspace, MoveToWorkspace
    <2> QED
      BY <1>2, <2>1, <2>2 DEF KeyNext, toplevelVars
  <1>3. CASE OutputNext
    BY <1>3 DEF OutputNext, NewOutput, OutputDestroy, toplevelVars
  <1>4. CASE PointerNext
    BY <1>4 DEF PointerNext, Press, PressLayerSurface, Release, Motion, toplevelVars
  <1>5. CASE UNCHANGED vars
    BY <1>5 DEF vars, toplevelVars
  <1> QED
    BY <1>1, <1>2, <1>3, <1>4, <1>5 DEF Next

(* TiledIsBinding alone is not inductive: a window is listed only later    *)
(* than it is told to tile.  From its initial commit until it is unmapped, *)
(* a window that does not float has its tiled states.                      *)
TiledInv ==
    \A tl \in Toplevels : life[tl] \in {"initialized", "mapped"} => tl \in floating \cup tiledStates

(* The initial commit and set_floating keep it.                            *)
LEMMA TiledStep ==
    ASSUME IInv, TiledInv, [Next]_vars
    PROVE  TiledInv'
  <1>1. life \in [Toplevels -> Lives]
    BY DEF IInv, TypeOK
  <1>2. ASSUME NEW tl \in Toplevels, FlagStep(tl) PROVE TiledInv'
    <2>1. CASE NewToplevel(tl)
      BY <1>1, <2>1 DEF NewToplevel, TiledInv
    <2>2. CASE InitialCommit(tl)
      BY <1>1, <2>2 DEF InitialCommit, TiledInv
    <2>3. CASE MapWithoutOutput(tl)
      BY <1>1, <2>3 DEF MapWithoutOutput, TiledInv
    <2>4. CASE Map(tl)
      BY <1>1, <2>4 DEF Map, TiledInv
    <2>5. CASE Unmap(tl)
      BY <1>1, <2>5 DEF Unmap, TiledInv
    <2>6. CASE Destroy(tl)
      BY <1>1, <2>6 DEF Destroy, TiledInv
    <2>7. ASSUME NEW on \in BOOLEAN, SetFullscreen(tl, on) PROVE TiledInv'
      BY <2>7 DEF SetFullscreen, TiledInv
    <2>8. ASSUME NEW on \in BOOLEAN, SetFloating(tl, on) PROVE TiledInv'
      BY <2>8 DEF SetFloating, Posture, TiledInv
    <2> QED
      BY <1>2, <2>1, <2>2, <2>3, <2>4, <2>5, <2>6, <2>7, <2>8 DEF FlagStep
  <1>3. CASE SessionActive
    BY <1>3 DEF SessionActive, TiledInv
  <1>4. CASE UNCHANGED <<life, fullscreen, floating, layer, tiledStates>>
    BY <1>4 DEF TiledInv
  <1> QED
    BY <1>2, <1>3, <1>4, FlagSteps

(* A listed window that does not float has been told that it is tiled      *)
(* (src/toplevel.rs, handle_commit, set_floating).                         *)
THEOREM TiledStatesBind == Spec => []TiledIsBinding
  <1>1. Init => TiledInv
    BY DEF Init, TiledInv
  <1>2. IInv /\ TiledInv => TiledIsBinding
    <2>1. IInv => Tracked \subseteq Toplevels
      BY SeqFacts DEF IInv, TypeOK, Tracked
    <2> QED
      BY <2>1 DEF IInv, TrackedIsMapped, TiledInv, TiledIsBinding
  <1> QED
    BY <1>1, <1>2, TiledStep, Invariance, PTL DEF Spec

(* LayerFollowsFloating alone is not inductive either: a window that maps  *)
(* keeps its layer when it does not float, so any window, listed or not,   *)
(* without a flag is in the normal layer.                                  *)
LayerInv ==
    /\ LayerFollowsFloating
    /\ \A tl \in Toplevels :
        life[tl] # "absent" /\ tl \notin fullscreen \cup floating => layer[tl] = "normal"

(* The handlers that flip a flag, or give a window its node, keep it.      *)
LEMMA LayerStep ==
    ASSUME IInv, LayerInv, [Next]_vars
    PROVE  LayerInv'
  <1>1. life \in [Toplevels -> Lives] /\ layer \in [Toplevels -> Layers] /\ Tracked \subseteq Toplevels
    BY SeqFacts DEF IInv, TypeOK, Tracked
  <1>2. ASSUME NEW tl \in Toplevels, Tracked' \subseteq Tracked \cup {tl}, FlagStep(tl)
        PROVE  LayerInv'
    <2>1. CASE NewToplevel(tl)
      <3>1. tl \notin Tracked
        BY <2>1 DEF NewToplevel, IInv, TrackedIsMapped
      <3> QED
        BY <1>1, <1>2, <2>1, <3>1 DEF NewToplevel, LayerInv, LayerFollowsFloating
    <2>2. CASE InitialCommit(tl)
      <3>1. tl \notin Tracked /\ Tracked' = Tracked
        BY <2>2 DEF InitialCommit, IInv, TrackedIsMapped, Tracked
      <3> QED
        BY <1>1, <2>2, <3>1 DEF InitialCommit, LayerInv, LayerFollowsFloating
    <2>3. CASE MapWithoutOutput(tl)
      <3>1. Tracked' = Tracked
        BY <2>3 DEF MapWithoutOutput, Tracked
      <3> QED
        BY <1>1, <2>3, <3>1 DEF MapWithoutOutput, LayerInv, LayerFollowsFloating
    <2>4. CASE Map(tl)
      <3>1. /\ floating \subseteq floating' /\ floating' \subseteq floating \cup {tl}
            /\ fullscreen \subseteq fullscreen' /\ fullscreen' \subseteq fullscreen \cup {tl}
            /\ \A t \in Toplevels \ {tl} : layer'[t] = layer[t] /\ life'[t] = life[t]
            /\ tl \notin fullscreen' =>
                    layer'[tl] = IF tl \in floating' THEN "floating" ELSE layer[tl]
            /\ life[tl] # "absent"
        BY <1>1, <2>4 DEF Map
      <3> QED
        BY <1>1, <1>2, <3>1 DEF LayerInv, LayerFollowsFloating
    <2>5. CASE Unmap(tl)
      <3>1. UNCHANGED <<fullscreen, floating, layer>> /\ life' = [life EXCEPT ![tl] = "created"]
            /\ life[tl] = "mapped" /\ Tracked' = Tracked \ {tl}
        BY <2>5, LeaveTracked DEF Unmap
      <3> QED
        BY <1>1, <3>1 DEF LayerInv, LayerFollowsFloating
    <2>6. CASE Destroy(tl)
      <3>1. /\ fullscreen' = fullscreen \ {tl} /\ floating' = floating \ {tl} /\ layer' = layer
            /\ life' = [life EXCEPT ![tl] = "absent"] /\ Tracked' = Tracked \ {tl}
        BY <2>6, LeaveTracked DEF Destroy
      <3> QED
        BY <1>1, <3>1 DEF LayerInv, LayerFollowsFloating
    <2>7. ASSUME NEW on \in BOOLEAN, SetFullscreen(tl, on) PROVE LayerInv'
      <3>1. /\ fullscreen' \ {tl} = fullscreen \ {tl} /\ UNCHANGED <<life, floating>>
            /\ \A t \in Toplevels : layer'[t] = IF t = tl THEN LayerOf(tl, fullscreen', floating) ELSE layer[t]
        BY <1>1, <2>7 DEF SetFullscreen
      <3>2. Tracked' = Tracked
        BY <2>7 DEF SetFullscreen, Tracked
      <3> QED
        BY <1>1, <3>1, <3>2 DEF LayerOf, LayerInv, LayerFollowsFloating
    <2>8. ASSUME NEW on \in BOOLEAN, SetFloating(tl, on) PROVE LayerInv'
      <3>1. /\ floating' \ {tl} = floating \ {tl} /\ UNCHANGED <<life, fullscreen>>
            /\ \A t \in Toplevels \ {tl} : layer'[t] = layer[t]
            /\ tl \notin fullscreen => layer'[tl] = IF tl \in floating' THEN "floating" ELSE "normal"
        BY <1>1, <2>8 DEF SetFloating, LayerOf
      <3>2. Tracked' = Tracked
        BY <2>8 DEF SetFloating, Tracked
      <3> QED
        BY <1>1, <3>1, <3>2 DEF LayerInv, LayerFollowsFloating
    <2> QED
      BY <1>2, <2>1, <2>2, <2>3, <2>4, <2>5, <2>6, <2>7, <2>8 DEF FlagStep
  <1>3. CASE SessionActive
    <2>1. Tracked' = Tracked /\ UNCHANGED <<life, fullscreen, floating>>
      BY <1>3 DEF SessionActive, Tracked
    <2> QED
      BY <1>1, <1>3, <2>1 DEF SessionActive, LayerInv, LayerFollowsFloating
  <1>4. ASSUME UNCHANGED <<life, fullscreen, floating, layer, tiledStates>>, Tracked' \subseteq Tracked
        PROVE  LayerInv'
    BY <1>4 DEF LayerInv, LayerFollowsFloating
  <1>5. CASE Tracked' = Tracked
    BY <1>2, <1>3, <1>4, <1>5, FlagSteps
  <1>6. ASSUME NEW tl \in Toplevels, Lists(tl) PROVE LayerInv'
    BY <1>2, <1>6 DEF Lists, FlagStep
  <1> QED
    BY <1>5, <1>6, TrackedSteps

(* A listed window that is not fullscreen is in the layer its floating     *)
(* flag calls for (src/toplevel.rs, set_fullscreen, set_floating).         *)
THEOREM LayersFollow == Spec => []LayerFollowsFloating
  <1>1. Init => LayerInv
    <2>1. Init => Tracked = {}
      BY DEF Init, Tracked, Range
    <2> QED
      BY <2>1 DEF Init, LayerInv, LayerFollowsFloating
  <1>2. LayerInv => LayerFollowsFloating
    BY DEF LayerInv
  <1> QED
    BY <1>1, <1>2, LayerStep, Invariance, PTL DEF Spec

-----------------------------------------------------------------------------
(* Where the keyboard goes.                                                *)

(* focus_index gives the keyboard to the focused window of the active      *)
(* workspace; when that is empty, it leaves the seat at s.                 *)
LEMMA FocusIndexSteers ==
    ASSUME IInv', NEW foc, foc = [v \in Workspaces |-> foc[v]], NEW idx, NEW s,
           FocusIndex(foc, idx, s)
    PROVE  /\ BusyWorkspace' = {} => seat' = s
           /\ BusyWorkspace' # {} =>
                /\ \A a \in BusyWorkspace' : seat' \in Range(windows'[a])
                /\ \A w \in Holders(seat)' : seat' = FocusedWindow(w)'
  <1>1. CASE BusyWorkspace' = {}
    BY <1>1 DEF FocusIndex
  <1>2. CASE BusyWorkspace' # {}
    <2>1. outputs' \in Seq(Output) /\ ListedOnce(windows') /\ InRange(focused', windows')
          /\ windows' \in [Workspaces -> Seq(Toplevels)] /\ focused' \in [Workspaces -> Nat]
      BY DEF IInv, TypeOK
    <2>2. PICK a \in BusyWorkspace' :
            \E i : focused' = [foc EXCEPT ![a] = i] /\ seat' = windows'[a][i + 1]
      BY <1>2 DEF FocusIndex
    <2>3. a \in Workspaces /\ a = ActiveWorkspace' /\ windows'[a] # <<>>
      BY <2>1, <2>2, ActiveFactsNext
    <2>4. seat' = windows'[a][focused'[a] + 1]
      BY <2>2, <2>3
    <2>5. focused'[a] + 1 \in DOMAIN windows'[a]
      <3>1. focused'[a] \in Nat /\ focused'[a] < Len(windows'[a]) /\ windows'[a] \in Seq(Toplevels)
        BY <2>1, <2>3 DEF InRange
      <3> QED
        BY <3>1, SeqFacts
    <2>6. seat' \in Range(windows'[a])
      BY <2>4, <2>5 DEF Range
    <2>7. \A b \in BusyWorkspace' : b = a
      BY <2>1, <2>3, ActiveFactsNext
    <2>8. ASSUME NEW w \in Holders(seat)' PROVE w = a
      <3>1. w \in Workspaces /\ seat' \in Range(windows'[w])
        BY DEF Holders
      <3> QED
        BY <2>1, <2>3, <2>6, <3>1 DEF ListedOnce
    <2> QED
      BY <1>2, <2>4, <2>6, <2>7, <2>8 DEF FocusedWindow
  <1> QED
    BY <1>1, <1>2

(* remove_window ends in focus_index.                                      *)
LEMMA RemoveWindowSteers ==
    ASSUME IInv, IInv', NEW tl, NEW s, RemoveWindow(tl, s)
    PROVE  /\ BusyWorkspace' = {} => seat' = s
           /\ BusyWorkspace' # {} =>
                /\ \A a \in BusyWorkspace' : seat' \in Range(windows'[a])
                /\ \A w \in Holders(seat)' : seat' = FocusedWindow(w)'
  <1>1. focused \in [Workspaces -> Nat]
    BY DEF IInv, TypeOK
  <1>2. CASE Refocus(focused, s)
    <2>1. focused = [v \in Workspaces |-> focused[v]]
      BY <1>1
    <2> QED
      BY <1>2, <2>1, FocusIndexSteers DEF Refocus
  <1>3. ASSUME NEW w, Refocus([focused EXCEPT ![w] = Clamped(focused[w], Len(windows[w]) - 1)], s)
        PROVE  /\ BusyWorkspace' = {} => seat' = s
               /\ BusyWorkspace' # {} =>
                    /\ \A a \in BusyWorkspace' : seat' \in Range(windows'[a])
                    /\ \A v \in Holders(seat)' : seat' = FocusedWindow(v)'
    <2> DEFINE foc == [focused EXCEPT ![w] = Clamped(focused[w], Len(windows[w]) - 1)]
    <2>1. foc = [v \in Workspaces |-> foc[v]]
      BY <1>1
    <2>2. Refocus(foc, s)
      BY <1>3
    <2> HIDE DEF foc
    <2> QED
      BY <2>1, <2>2, FocusIndexSteers DEF Refocus
  <1>4. Refocus(focused, s) \/ \E w \in Holders(tl) :
            Refocus([focused EXCEPT ![w] = Clamped(focused[w], Len(windows[w]) - 1)], s)
    BY DEF RemoveWindow
  <1> QED
    BY <1>2, <1>3, <1>4

(* A step that moves the keyboard moves it to no window, or to the focused *)
(* one of the workspace it is on.                                          *)
LEMMA FocusSteps ==
    ASSUME IInv, IInv', [Next]_vars, seat' # seat
    PROVE  \A w \in Holders(seat)' : seat' = FocusedWindow(w)'
  <1>1. focused = [v \in Workspaces |-> focused[v]] /\ focused \in [Workspaces -> Nat]
    BY DEF IInv, TypeOK
  <1>2. ASSUME NEW idx, FocusIndex(focused, idx, seat)
        PROVE  \A w \in Holders(seat)' : seat' = FocusedWindow(w)'
    BY <1>1, <1>2, FocusIndexSteers
  <1>3. ASSUME seat' = NoToplevel
        PROVE  \A w \in Holders(seat)' : seat' = FocusedWindow(w)'
    <2>1. \A w \in Workspaces : Range(windows'[w]) \subseteq Toplevels
      BY SeqFacts DEF IInv, TypeOK
    <2> QED
      BY <1>3, <2>1, ServerAssumption DEF Holders
  <1>4. CASE ToplevelNext
    <2>1. PICK tl \in Toplevels :
            \/ NewToplevel(tl) \/ InitialCommit(tl) \/ MapWithoutOutput(tl)
            \/ \E on \in BOOLEAN : RequestFullscreen(tl, on)
            \/ Map(tl) \/ Unmap(tl) \/ Destroy(tl)
      BY <1>4 DEF ToplevelNext
    <2>2. ~(NewToplevel(tl) \/ InitialCommit(tl) \/ MapWithoutOutput(tl)
            \/ \E on \in BOOLEAN : RequestFullscreen(tl, on))
      BY DEF NewToplevel, InitialCommit, MapWithoutOutput, RequestFullscreen, SetFullscreen
    <2>3. CASE Map(tl)
      BY <1>2, <2>3 DEF Map
    <2>4. CASE Unmap(tl)
      BY <2>4, RemoveWindowSteers DEF Unmap
    <2>5. CASE Destroy(tl)
      <3>1. RemoveWindow(tl, IF seat = tl THEN NoToplevel ELSE seat)
        BY <2>5 DEF Destroy
      <3> QED
        BY <1>3, <3>1, RemoveWindowSteers
    <2> QED
      BY <2>1, <2>2, <2>3, <2>4, <2>5
  <1>5. CASE KeyNext
    <2>1. CASE FocusStep \/ MoveFocus
      BY <1>2, <2>1 DEF FocusStep, MoveFocus
    <2>2. ~(MoveWindow \/ ResizeWindow \/ ToggleFullscreen \/ ToggleFloating)
      BY DEF MoveWindow, ResizeWindow, ToggleFullscreen, ToggleFloating, SetFullscreen, SetFloating
    <2>3. ASSUME NEW target \in Workspaces, SwitchWorkspace(target)
          PROVE  \A w \in Holders(seat)' : seat' = FocusedWindow(w)'
      BY <1>2, <2>3 DEF SwitchWorkspace, Refocus
    <2>4. ASSUME NEW target \in Workspaces, MoveToWorkspace(target)
          PROVE  \A w \in Holders(seat)' : seat' = FocusedWindow(w)'
      <3>1. PICK a : Refocus([focused EXCEPT ![a] = Clamped(focused[a], Len(windows[a]) - 1)], seat)
        BY <2>4 DEF MoveToWorkspace
      <3> DEFINE foc == [focused EXCEPT ![a] = Clamped(focused[a], Len(windows[a]) - 1)]
      <3>2. foc = [v \in Workspaces |-> foc[v]] /\ Refocus(foc, seat)
        BY <1>1, <3>1
      <3> HIDE DEF foc
      <3> QED
        BY <3>2, FocusIndexSteers DEF Refocus
    <2> QED
      BY <1>5, <2>1, <2>2, <2>3, <2>4 DEF KeyNext
  <1>6. ~OutputNext
    BY DEF OutputNext, NewOutput, OutputDestroy, SessionActive
  <1>7. CASE PointerNext
    <2>1. ASSUME NEW tl \in Toplevels, NEW chord, Press(tl, chord)
          PROVE  \A w \in Holders(seat)' : seat' = FocusedWindow(w)'
      <3>1. seat' = tl /\ windows' = windows /\ ClickFocus(tl)
        BY <2>1 DEF Press
      <3>2. ASSUME NEW w \in Workspaces, tl \in Range(windows[w])
            PROVE  windows[w][focused'[w] + 1] = tl
        <4>1. \E k \in DOMAIN windows[w] : windows[w][k] = tl
          BY <3>2 DEF Range
        <4>2. PICK k \in DOMAIN windows[w] : windows[w][k] = tl /\ focused'[w] = k - 1
          BY <3>1, <3>2, <4>1 DEF ClickFocus, Holders
        <4>3. k \in Nat
          BY SeqFacts DEF IInv, TypeOK
        <4> QED
          BY <4>2, <4>3
      <3> QED
        BY <3>1, <3>2 DEF Holders, FocusedWindow
    <2>2. CASE PressLayerSurface
      BY <1>3, <2>2 DEF PressLayerSurface
    <2>3. ~(Release \/ Motion)
      BY DEF Release, Motion
    <2> QED
      BY <1>7, <2>1, <2>2, <2>3 DEF PointerNext
  <1> QED
    BY <1>4, <1>5, <1>6, <1>7 DEF Next, vars

(* When the keyboard moves to a window, that window is the focused one of  *)
(* its workspace (src/keybindings.rs, focus_index; src/input.rs,           *)
(* handle_click_focus).                                                    *)
THEOREM KeyboardAndIndexAgree == Spec => FocusMovesInStep
  <1> DEFINE InStep == seat' # seat => \A w \in Holders(seat)' : seat' = FocusedWindow(w)'
  <1>1. IInv /\ IInv' /\ [Next]_vars => InStep
    BY FocusSteps
  <1> QED
    BY <1>1, Invariance, PTL DEF Spec, FocusMovesInStep

(* When a window closes and the active workspace has others, one of those  *)
(* gets the keyboard (src/toplevel.rs, remove_window).                     *)
THEOREM FocusIsHandedOn == Spec => ClosingHandsFocusOn
  <1> DEFINE HandsOn == (\E tl \in Toplevels : life[tl] = "mapped" /\ life'[tl] # "mapped") =>
                            \A a \in BusyWorkspace' : seat' \in Range(windows'[a])
  <1>1. IInv /\ IInv' /\ [Next]_vars => HandsOn
    <2> SUFFICES ASSUME IInv, IInv', [Next]_vars, NEW tl \in Toplevels,
                        life[tl] = "mapped", life'[tl] # "mapped"
                 PROVE  \A a \in BusyWorkspace' : seat' \in Range(windows'[a])
      OBVIOUS
    <2>1. life \in [Toplevels -> Lives]
      BY DEF IInv, TypeOK
    <2>2. PICK x \in Toplevels : Unmap(x)
      <3>1. ASSUME NEW x \in Toplevels, FlagStep(x) PROVE Unmap(x)
        BY <2>1, <3>1 DEF FlagStep, NewToplevel, InitialCommit, MapWithoutOutput, Map, Destroy,
                          SetFullscreen, SetFloating
      <3> QED
        BY <3>1, FlagSteps DEF SessionActive
    <2> QED
      BY <2>2, RemoveWindowSteers DEF Unmap
  <1> QED
    BY <1>1, Invariance, PTL DEF Spec, ClosingHandsFocusOn
=============================================================================
