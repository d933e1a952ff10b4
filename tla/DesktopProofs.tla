---------------------------- MODULE DesktopProofs ----------------------------
(***************************************************************************)
(* No workspace is on two monitors, and the compositor implements Desktop: *)
(* both as long as there are no more monitors than workspaces.             *)
(***************************************************************************)
EXTENDS WindowProofs

(* The tenth monitor over nine workspaces shows workspace 0 once more; and *)
(* the Nowhere of Desktop is no workspace.                                 *)
EnoughWorkspaces ==
    /\ IsFiniteSet(OutputIds)
    /\ Cardinality(OutputIds) <= WorkspaceCount
    /\ NoOutput \notin Workspaces

(* No monitor is connected twice.                                          *)
IdsOnce(list) == \A o, p \in DOMAIN list : list[o].id = list[p].id => o = p

(* ShownOnce, of any list of outputs.                                      *)
WorkspacesOnce(list) ==
    \A o, p \in DOMAIN list : list[o].workspace = list[p].workspace => o = p

(* What OutputNext and SwitchWorkspace keep.                               *)
Screens == IdsOnce(outputs) /\ WorkspacesOnce(outputs)

-----------------------------------------------------------------------------
(* The outputs.                                                            *)

(* While some monitor is not connected, some workspace is not shown.       *)
LEMMA SomeWorkspaceIsFree ==
    ASSUME outputs \in Seq(Output), IdsOnce(outputs), EnoughWorkspaces,
           NEW id \in OutputIds, \A o \in DOMAIN outputs : outputs[o].id # id
    PROVE  Workspaces \ Shown # {}
  <1> DEFINE used == {outputs[o].id : o \in DOMAIN outputs}
             at(i) == CHOOSE o \in DOMAIN outputs : outputs[o].id = i
             f == [i \in used |-> outputs[at(i)].workspace]
  <1>1. /\ \A o \in DOMAIN outputs : outputs[o] \in Output
        /\ \A o \in DOMAIN outputs : outputs[o].id \in OutputIds /\ outputs[o].workspace \in Workspaces
    <2>1. \A o \in DOMAIN outputs : outputs[o] \in Output
      OBVIOUS
    <2> QED
      BY <2>1 DEF Output
  <1>2. used \subseteq OutputIds \ {id}
    BY <1>1
  <1>3. /\ IsFiniteSet(OutputIds \ {id}) /\ Cardinality(OutputIds \ {id}) = Cardinality(OutputIds) - 1
        /\ Cardinality(OutputIds) \in Nat
    BY FS_RemoveElement, FS_CardinalityType DEF EnoughWorkspaces
  <1>4. IsFiniteSet(used) /\ Cardinality(used) <= Cardinality(OutputIds) - 1 /\ Cardinality(used) \in Nat
    BY <1>2, <1>3, FS_Subset, FS_CardinalityType
  <1>5. f \in Surjection(used, Shown)
    <2>1. ASSUME NEW o \in DOMAIN outputs PROVE at(outputs[o].id) = o
      BY DEF IdsOnce
    <2>2. ASSUME NEW o \in DOMAIN outputs PROVE f[outputs[o].id] = outputs[o].workspace
      BY <2>1
    <2>3. f \in [used -> Shown]
      <3>1. ASSUME NEW i \in used PROVE f[i] \in Shown
        BY <2>2 DEF Shown
      <3> QED
        BY <3>1
    <2>4. ASSUME NEW w \in Shown PROVE \E i \in used : f[i] = w
      <3>1. PICK o \in DOMAIN outputs : outputs[o].workspace = w
        BY DEF Shown
      <3>2. outputs[o].id \in used
        OBVIOUS
      <3> QED
        BY <2>2, <3>1, <3>2
    <2> QED
      BY <2>3, <2>4 DEF Surjection
  <1> HIDE DEF f
  <1>6. Cardinality(Shown) <= Cardinality(used)
    BY <1>4, <1>5, FS_Surjection
  <1>7. Cardinality(Workspaces) = WorkspaceCount
    BY FS_Interval, ServerAssumption DEF Workspaces
  <1>8. Shown # Workspaces
    <2>1. WorkspaceCount \in Nat /\ Cardinality(OutputIds) <= WorkspaceCount
      BY ServerAssumption DEF EnoughWorkspaces
    <2> QED
      BY <1>3, <1>4, <1>6, <1>7, <2>1
  <1>9. Shown \subseteq Workspaces
    BY <1>1 DEF Shown
  <1> QED
    BY <1>8, <1>9

(* The workspace a new monitor gets is the lowest that no other shows.     *)
LEMMA FreeWorkspaceFacts ==
    ASSUME Workspaces \ Shown # {}
    PROVE  /\ FreeWorkspace \in Workspaces \ Shown
           /\ \A v \in Workspaces \ Shown : FreeWorkspace <= v
  <1> DEFINE free == Workspaces \ Shown
  <1>1. free \subseteq Nat
    BY DEF Workspaces
  <1>2. \E n \in free : \A v \in free : n <= v
    BY <1>1, LeastNatural
  <1>3. FreeWorkspace = CHOOSE n \in free : \A v \in free : n <= v
    BY DEF FreeWorkspace
  <1> QED
    BY <1>2, <1>3

(* Every handler but the outputs' and switch_workspace leaves them alone.  *)
LEMMA OutputsKept ==
    ASSUME ToplevelNext \/ KeyNext \/ PointerNext \/ UNCHANGED vars
    PROVE  UNCHANGED outputs \/ \E target \in Workspaces : SwitchWorkspace(target)
  <1>1. CASE ToplevelNext
    BY <1>1 DEF ToplevelNext, NewToplevel, InitialCommit, MapWithoutOutput, Map, Unmap, Destroy,
                RequestFullscreen, SetFullscreen, RemoveWindow, outputVars
  <1>2. CASE KeyNext
    BY <1>2 DEF KeyNext, FocusStep, MoveFocus, MoveWindow, ResizeWindow, ToggleFullscreen,
                ToggleFloating, SetFullscreen, SetFloating, MoveToWorkspace, outputVars
  <1>3. CASE PointerNext
    BY <1>3 DEF PointerNext, Press, PressLayerSurface, Release, Motion, outputVars
  <1>4. CASE UNCHANGED vars
    BY <1>4 DEF vars, outputVars
  <1> QED
    BY <1>1, <1>2, <1>3, <1>4

(* A monitor that is given another's workspace swaps with it.              *)
LEMMA SwitchedFacts ==
    ASSUME outputs \in Seq(Output), WorkspacesOnce(outputs),
           NEW fo \in DOMAIN outputs, NEW target
    PROVE  /\ DOMAIN Switched(fo, target) = DOMAIN outputs
           /\ \A o \in DOMAIN outputs :
                /\ Switched(fo, target)[o].id = outputs[o].id
                /\ Switched(fo, target)[o].workspace =
                        IF o = fo THEN target
                        ELSE IF outputs[o].workspace = target THEN outputs[fo].workspace
                        ELSE outputs[o].workspace
  <1> DEFINE others == {o \in DOMAIN outputs : outputs[o].workspace = target}
             now(o) == CASE o = fo -> target
                         [] o # fo /\ o \in others /\ \A p \in others : o <= p -> outputs[fo].workspace
                         [] OTHER -> outputs[o].workspace
  <1>1. Switched(fo, target) = [o \in DOMAIN outputs |-> [outputs[o] EXCEPT !.workspace = now(o)]]
    BY DEF Switched
  <1>2. ASSUME NEW o \in DOMAIN outputs
        PROVE  now(o) = IF o = fo THEN target
                        ELSE IF outputs[o].workspace = target THEN outputs[fo].workspace
                        ELSE outputs[o].workspace
    <2>1. CASE o = fo
      BY <2>1
    <2>2. CASE o # fo /\ o \in others
      <3>1. \A p \in others : p = o
        BY <2>2 DEF WorkspacesOnce
      <3>2. o <= o
        OBVIOUS
      <3> QED
        BY <2>2, <3>1, <3>2
    <2>3. CASE o # fo /\ o \notin others
      BY <2>3
    <2> QED
      BY <2>1, <2>2, <2>3
  <1>3. \A o \in DOMAIN outputs : outputs[o] \in [id : OutputIds, workspace : Workspaces]
    <2>1. \A o \in DOMAIN outputs : outputs[o] \in Output
      OBVIOUS
    <2> QED
      BY <2>1 DEF Output
  <1> HIDE DEF now
  <1> QED
    BY <1>1, <1>2, <1>3

(* The monitors and the one workspace each shows, after every step.        *)
LEMMA ScreensStep ==
    ASSUME IInv, EnoughWorkspaces, Screens, [Next]_vars
    PROVE  Screens'
  <1>1. outputs \in Seq(Output) /\ Len(outputs) \in Nat /\ DOMAIN outputs = 1 .. Len(outputs)
    BY SeqFacts DEF IInv, TypeOK
  <1>2. ASSUME UNCHANGED outputs PROVE Screens'
    BY <1>2 DEF Screens
  <1>3. ASSUME NEW id \in OutputIds, NewOutput(id) PROVE Screens'
    <2> DEFINE new == [id |-> id, workspace |-> FreeWorkspace]
    <2>1. outputs' = Append(outputs, new) /\ \A o \in DOMAIN outputs : outputs[o].id # id
      BY <1>3 DEF NewOutput
    <2>2. FreeWorkspace \in Workspaces \ Shown
      BY <1>1, <2>1, SomeWorkspaceIsFree, FreeWorkspaceFacts DEF Screens
    <2>3. new \in Output /\ \A o \in DOMAIN outputs : outputs[o].workspace # new.workspace /\ outputs[o].id # new.id
      BY <2>1, <2>2 DEF Output, Shown
    <2> HIDE DEF new
    <2>4. /\ DOMAIN outputs' = 1 .. Len(outputs) + 1
          /\ \A o \in 1 .. Len(outputs) : outputs'[o] = outputs[o]
          /\ outputs'[Len(outputs) + 1] = new
      BY <1>1, <2>1, <2>3
    <2>5. \A o \in 1 .. Len(outputs) + 1 : o \in 1 .. Len(outputs) \/ o = Len(outputs) + 1
      BY <1>1
    <2> QED
      BY <1>1, <2>3, <2>4, <2>5 DEF Screens, IdsOnce, WorkspacesOnce
  <1>4. ASSUME NEW id \in OutputIds, OutputDestroy(id) PROVE Screens'
    <2>1. PICK k \in 1 .. Len(outputs) : outputs' = RemoveAt(outputs, k)
      BY <1>1, <1>4 DEF OutputDestroy
    <2>2. /\ outputs' \in Seq(Output) /\ Len(outputs') = Len(outputs) - 1
          /\ \A i \in 1 .. Len(outputs) - 1 :
                outputs'[i] = IF i < k THEN outputs[i] ELSE outputs[i + 1]
      BY <1>1, <2>1, RemoveAtFacts
    <2>3. DOMAIN outputs' = 1 .. Len(outputs) - 1
      BY <2>2, SeqFacts
    <2> DEFINE from(i) == IF i < k THEN i ELSE i + 1
    <2>4. /\ \A i \in 1 .. Len(outputs) - 1 : from(i) \in DOMAIN outputs /\ outputs'[i] = outputs[from(i)]
          /\ \A i, j \in 1 .. Len(outputs) - 1 : from(i) = from(j) => i = j
      BY <1>1, <2>2
    <2> HIDE DEF from
    <2> QED
      BY SMTT(60), <2>3, <2>4 DEF Screens, IdsOnce, WorkspacesOnce
  <1>5. ASSUME NEW target \in Workspaces, SwitchWorkspace(target) PROVE Screens'
    <2>1. outputs # <<>> /\ target # ActiveWorkspace /\ outputs' = Switched(ActiveOutput, target)
      BY <1>5 DEF SwitchWorkspace
    <2>2. PICK fo \in DOMAIN outputs : fo = ActiveOutput /\ outputs[fo].workspace # target
      BY <1>1, <2>1, ActiveFacts DEF ActiveWorkspace
    <2>3. DOMAIN outputs' = DOMAIN outputs /\ \A o \in DOMAIN outputs :
            /\ outputs'[o].id = outputs[o].id
            /\ outputs'[o].workspace = IF o = fo THEN target
                                       ELSE IF outputs[o].workspace = target THEN outputs[fo].workspace
                                       ELSE outputs[o].workspace
      BY <1>1, <2>1, <2>2, SwitchedFacts DEF Screens
    <2> QED
      BY <2>2, <2>3 DEF Screens, IdsOnce, WorkspacesOnce
  <1>6. CASE OutputNext
    BY <1>2, <1>3, <1>4, <1>6 DEF OutputNext, SessionActive, outputVars
  <1>7. CASE ToplevelNext \/ KeyNext \/ PointerNext \/ UNCHANGED vars
    <2>1. UNCHANGED outputs \/ \E target \in Workspaces : SwitchWorkspace(target)
      BY <1>7, OutputsKept
    <2> QED
      BY <1>2, <1>5, <2>1
  <1> QED
    BY <1>6, <1>7 DEF Next

(* No workspace is on two monitors, as long as there is one for each       *)
(* (src/output.rs, handle_new_output; src/keybindings.rs,                  *)
(* switch_workspace).                                                      *)
THEOREM NoWorkspaceTwice == ASSUME EnoughWorkspaces PROVE Spec => []ShownOnce
  <1>1. Init => Screens
    BY DEF Init, Screens, IdsOnce, WorkspacesOnce
  <1>2. IInv /\ Screens /\ [Next]_vars => Screens'
    BY ScreensStep
  <1>3. Screens => ShownOnce
    BY DEF Screens, WorkspacesOnce, ShownOnce
  <1> QED
    BY <1>1, <1>2, <1>3, Invariance, PTL DEF Spec

-----------------------------------------------------------------------------
(* The refinement mapping, of any lists and outputs.                       *)

HoldersIn(lists, tl) == {w \in Workspaces : tl \in Range(lists[w])}

PlaceIn(lists) ==
    [tl \in Toplevels |->
        IF tl \in UNION {Range(lists[w]) : w \in Workspaces}
        THEN CHOOSE w \in Workspaces : w \in HoldersIn(lists, tl) ELSE NoOutput]

ShowsIn(list) ==
    [id \in OutputIds |->
        IF \E o \in DOMAIN list : list[o].id = id
        THEN (CHOOSE r \in Range(list) : r.id = id).workspace
        ELSE NoOutput]

(* Both map windows, and monitors, to something.                           *)
LEMMA AreFunctions ==
    ASSUME NEW lists, NEW list
    PROVE  /\ PlaceIn(lists) = [tl \in Toplevels |-> PlaceIn(lists)[tl]]
           /\ ShowsIn(list) = [id \in OutputIds |-> ShowsIn(list)[id]]
  BY DEF PlaceIn, ShowsIn

(* A window's place is the workspace that lists it.                        *)
LEMMA PlaceFacts ==
    ASSUME NEW lists, ListedOnce(lists), NEW tl \in Toplevels
    PROVE  /\ \A w \in Workspaces : tl \in Range(lists[w]) => PlaceIn(lists)[tl] = w
           /\ (\A w \in Workspaces : tl \notin Range(lists[w])) => PlaceIn(lists)[tl] = NoOutput
  <1>1. ASSUME NEW w \in Workspaces, tl \in Range(lists[w])
        PROVE  PlaceIn(lists)[tl] = w
    <2>1. \A v \in Workspaces : v \in HoldersIn(lists, tl) <=> v = w
      BY <1>1 DEF ListedOnce, HoldersIn
    <2>2. PlaceIn(lists)[tl] = CHOOSE v \in Workspaces : v \in HoldersIn(lists, tl)
      BY <1>1 DEF PlaceIn
    <2> QED
      BY <2>1, <2>2
  <1> QED
    BY <1>1 DEF PlaceIn

(* A connected monitor shows its workspace, the others nothing.            *)
LEMMA ShowsFacts ==
    ASSUME NEW list \in Seq(Output), IdsOnce(list)
    PROVE  /\ \A o \in DOMAIN list : ShowsIn(list)[list[o].id] = list[o].workspace
           /\ \A id \in OutputIds :
                (\A o \in DOMAIN list : list[o].id # id) => ShowsIn(list)[id] = NoOutput
  <1>1. ASSUME NEW o \in DOMAIN list
        PROVE  ShowsIn(list)[list[o].id] = list[o].workspace
    <2>1. list[o] \in Range(list) /\ \A r \in Range(list) : r.id = list[o].id => r = list[o]
      BY DEF IdsOnce, Range
    <2>2. (CHOOSE r \in Range(list) : r.id = list[o].id) = list[o]
      BY <2>1
    <2>3. list[o].id \in OutputIds
      <3>1. list[o] \in Output
        OBVIOUS
      <3> QED
        BY <3>1 DEF Output
    <2> QED
      BY <2>2, <2>3 DEF ShowsIn
  <1> QED
    BY <1>1 DEF ShowsIn

(* What is on screen in Desktop's terms is what the outputs show.          *)
LEMMA OnScreenIsShown ==
    ASSUME outputs \in Seq(Output), IdsOnce(outputs), EnoughWorkspaces
    PROVE  Abstract!OnScreen = Shown
  <1>1. ShowsOf = ShowsIn(outputs)
    BY DEF ShowsOf, ShowsIn
  <1>2. \A o \in DOMAIN outputs : outputs[o].id \in OutputIds /\ outputs[o].workspace \in Workspaces
    <2>1. \A o \in DOMAIN outputs : outputs[o] \in Output
      OBVIOUS
    <2> QED
      BY <2>1 DEF Output
  <1>3. ASSUME NEW o \in DOMAIN outputs
        PROVE  outputs[o].workspace \in Abstract!OnScreen
    BY <1>1, <1>2, ShowsFacts DEF Abstract!OnScreen, EnoughWorkspaces
  <1>4. ASSUME NEW w \in Abstract!OnScreen
        PROVE  w \in Shown
    <2>1. PICK id \in OutputIds : w = ShowsIn(outputs)[id] /\ w # NoOutput
      BY <1>1 DEF Abstract!OnScreen
    <2>2. PICK o \in DOMAIN outputs : outputs[o].id = id
      BY <2>1, ShowsFacts
    <2> QED
      BY <2>1, <2>2, ShowsFacts DEF Shown
  <1> QED
    BY <1>3, <1>4 DEF Shown

-----------------------------------------------------------------------------
(* Steps of windows.                                                       *)

(* As long as no list changes its windows, no place changes.               *)
LEMMA PlacesKept ==
    ASSUME IInv, IInv', \A v \in Workspaces : Range(windows'[v]) = Range(windows[v])
    PROVE  PlaceOf' = PlaceOf
  <1>1. PlaceOf = PlaceIn(windows) /\ PlaceOf' = PlaceIn(windows')
    BY DEF PlaceOf, PlaceIn, Tracked, Holders, HoldersIn
  <1>2. ListedOnce(windows) /\ ListedOnce(windows')
    BY DEF IInv
  <1>3. ASSUME NEW tl \in Toplevels
        PROVE  PlaceIn(windows')[tl] = PlaceIn(windows)[tl]
    BY <1>2, PlaceFacts
  <1> QED
    BY <1>1, <1>3 DEF PlaceIn

(* handle_map opens a window, on a workspace the user sees.                *)
LEMMA MapOpens ==
    ASSUME IInv, IInv', Screens, EnoughWorkspaces, NEW tl \in Toplevels, Map(tl)
    PROVE  Abstract!Open(tl)
  <1>1. PlaceOf = PlaceIn(windows) /\ PlaceOf' = PlaceIn(windows')
    BY DEF PlaceOf, PlaceIn, Tracked, Holders, HoldersIn
  <1>2. ListedOnce(windows) /\ ListedOnce(windows') /\ outputs \in Seq(Output)
    BY DEF IInv, TypeOK
  <1>3. PICK a \in Workspaces :
            /\ a = ActiveWorkspace /\ outputs # <<>> /\ tl \notin Tracked
            /\ Range(windows'[a]) = Range(windows[a]) \cup {tl}
            /\ \A v \in Workspaces \ {a} : windows'[v] = windows[v]
    BY MapLists
  <1>4. PlaceOf[tl] = NoOutput
    BY <1>1, <1>2, <1>3, PlaceFacts DEF Tracked
  <1>5. a \in Abstract!OnScreen
    <2>1. a \in Shown
      <3>1. ActiveOutput \in DOMAIN outputs
        BY <1>2, <1>3, ActiveFacts
      <3> QED
        BY <1>3, <3>1 DEF Shown, ActiveWorkspace
    <2> QED
      BY <1>2, <2>1, OnScreenIsShown DEF Screens
  <1>6. PlaceOf' = [PlaceOf EXCEPT ![tl] = a]
    <2>1. PlaceIn(windows')[tl] = a
      BY <1>2, <1>3, PlaceFacts
    <2>2. ASSUME NEW x \in Toplevels \ {tl}
          PROVE  PlaceIn(windows')[x] = PlaceIn(windows)[x]
      <3>1. \A v \in Workspaces : x \in Range(windows'[v]) <=> x \in Range(windows[v])
        BY <1>3
      <3> QED
        BY <1>2, <3>1, PlaceFacts
    <2>3. /\ PlaceIn(windows) = [x \in Toplevels |-> PlaceIn(windows)[x]]
          /\ PlaceIn(windows') = [x \in Toplevels |-> PlaceIn(windows')[x]]
      BY AreFunctions
    <2> QED
      BY <1>1, <2>1, <2>2, <2>3
  <1>7. ShowsOf' = ShowsOf
    BY DEF Map, outputVars, ShowsOf
  <1> QED
    BY <1>4, <1>5, <1>6, <1>7 DEF Abstract!Open

(* handle_unmap and handle_destroy close a window that has a place.        *)
LEMMA LeaveCloses ==
    ASSUME IInv, IInv', NEW tl \in Toplevels, Unmap(tl) \/ Destroy(tl), EnoughWorkspaces
    PROVE  Abstract!Close(tl) \/ UNCHANGED <<PlaceOf, ShowsOf>>
  <1>1. PlaceOf = PlaceIn(windows) /\ PlaceOf' = PlaceIn(windows')
    BY DEF PlaceOf, PlaceIn, Tracked, Holders, HoldersIn
  <1>2. ListedOnce(windows) /\ ListedOnce(windows')
    BY DEF IInv
  <1>3. \A v \in Workspaces : Range(windows'[v]) = Range(windows[v]) \ {tl}
    BY LeaveTracked
  <1>4. ShowsOf' = ShowsOf
    <2>1. UNCHANGED outputs
      BY DEF Unmap, Destroy, RemoveWindow, outputVars
    <2> QED
      BY <2>1 DEF ShowsOf
  <1>5. CASE tl \notin Tracked
    <2>1. \A v \in Workspaces : Range(windows'[v]) = Range(windows[v])
      BY <1>3, <1>5 DEF Tracked
    <2> QED
      BY <1>4, <2>1, PlacesKept
  <1>6. CASE tl \in Tracked
    <2>1. PlaceOf[tl] # NoOutput
      <3>1. PICK w \in Workspaces : tl \in Range(windows[w])
        BY <1>6 DEF Tracked
      <3> QED
        BY <1>1, <1>2, <3>1, PlaceFacts DEF EnoughWorkspaces
    <2>2. PlaceOf' = [PlaceOf EXCEPT ![tl] = NoOutput]
      <3>1. PlaceIn(windows')[tl] = NoOutput
        BY <1>2, <1>3, PlaceFacts
      <3>2. ASSUME NEW x \in Toplevels \ {tl}
            PROVE  PlaceIn(windows')[x] = PlaceIn(windows)[x]
        <4>1. \A v \in Workspaces : x \in Range(windows'[v]) <=> x \in Range(windows[v])
          BY <1>3
        <4> QED
          BY <1>2, <4>1, PlaceFacts
      <3>3. /\ PlaceIn(windows) = [x \in Toplevels |-> PlaceIn(windows)[x]]
            /\ PlaceIn(windows') = [x \in Toplevels |-> PlaceIn(windows')[x]]
        BY AreFunctions
      <3> QED
        BY <1>1, <3>1, <3>2, <3>3
    <2> QED
      BY <1>4, <2>1, <2>2 DEF Abstract!Close
  <1> QED
    BY <1>5, <1>6

(* move_to_workspace carries a window the user sees.                       *)
LEMMA MoveToWorkspaceCarries ==
    ASSUME IInv, IInv', Screens, EnoughWorkspaces,
           NEW target \in Workspaces, MoveToWorkspace(target)
    PROVE  \E tl \in Toplevels : Abstract!Carry(tl, target)
  <1>1. PlaceOf = PlaceIn(windows) /\ PlaceOf' = PlaceIn(windows')
    BY DEF PlaceOf, PlaceIn, Tracked, Holders, HoldersIn
  <1>2. ListedOnce(windows) /\ ListedOnce(windows') /\ outputs \in Seq(Output)
    BY DEF IInv, TypeOK
  <1>3. PICK a \in BusyWorkspace, tl \in Toplevels :
            /\ tl \in Range(windows[a])
            /\ Range(windows'[target]) = Range(windows[target]) \cup {tl}
            /\ \A v \in Workspaces \ {target} : Range(windows'[v]) = Range(windows[v]) \ {tl}
    BY MoveToWorkspaceLists
  <1>4. a \in Workspaces /\ a = ActiveWorkspace /\ outputs # <<>>
    BY <1>2, ActiveFacts
  <1>5. PlaceOf[tl] \in Abstract!OnScreen
    <2>1. PlaceOf[tl] = a
      BY <1>1, <1>2, <1>3, <1>4, PlaceFacts
    <2>2. a \in Shown
      <3>1. ActiveOutput \in DOMAIN outputs
        BY <1>2, <1>4, ActiveFacts
      <3> QED
        BY <1>4, <3>1 DEF Shown, ActiveWorkspace
    <2> QED
      BY <1>2, <2>1, <2>2, OnScreenIsShown DEF Screens
  <1>6. PlaceOf' = [PlaceOf EXCEPT ![tl] = target]
    <2>1. PlaceIn(windows')[tl] = target
      BY <1>2, <1>3, PlaceFacts
    <2>2. ASSUME NEW x \in Toplevels \ {tl}
          PROVE  PlaceIn(windows')[x] = PlaceIn(windows)[x]
      <3>1. \A v \in Workspaces : x \in Range(windows'[v]) <=> x \in Range(windows[v])
        BY <1>3
      <3> QED
        BY <1>2, <3>1, PlaceFacts
    <2>3. /\ PlaceIn(windows) = [x \in Toplevels |-> PlaceIn(windows)[x]]
          /\ PlaceIn(windows') = [x \in Toplevels |-> PlaceIn(windows')[x]]
      BY AreFunctions
    <2> QED
      BY <1>1, <2>1, <2>2, <2>3
  <1>7. ShowsOf' = ShowsOf
    BY DEF MoveToWorkspace, outputVars, ShowsOf
  <1> QED
    BY <1>5, <1>6, <1>7 DEF Abstract!Carry

-----------------------------------------------------------------------------
(* Steps of monitors.                                                      *)

(* handle_new_output plugs one in.                                         *)
LEMMA NewOutputPlugs ==
    ASSUME IInv, IInv', Screens, Screens', EnoughWorkspaces,
           NEW id \in OutputIds, NewOutput(id)
    PROVE  Abstract!Plug(id)
  <1>1. ShowsOf = ShowsIn(outputs) /\ ShowsOf' = ShowsIn(outputs')
    BY DEF ShowsOf, ShowsIn
  <1>2. outputs \in Seq(Output) /\ outputs' \in Seq(Output) /\ IdsOnce(outputs) /\ IdsOnce(outputs')
    BY DEF IInv, TypeOK, Screens
  <1> DEFINE new == [id |-> id, workspace |-> FreeWorkspace]
             n == Len(outputs)
  <1>3. outputs' = Append(outputs, new) /\ \A o \in DOMAIN outputs : outputs[o].id # id
    BY DEF NewOutput
  <1>4. /\ FreeWorkspace \in Workspaces \ Abstract!OnScreen
        /\ \A v \in Workspaces \ Abstract!OnScreen : FreeWorkspace <= v
    BY <1>2, <1>3, SomeWorkspaceIsFree, FreeWorkspaceFacts, OnScreenIsShown
  <1>5. new.id = id /\ new.workspace = FreeWorkspace /\ new \in Output
    BY <1>4 DEF Output
  <1> HIDE DEF new
  <1>6. /\ n \in Nat /\ DOMAIN outputs = 1 .. n /\ DOMAIN outputs' = 1 .. n + 1
        /\ \A o \in 1 .. n : outputs'[o] = outputs[o]
        /\ outputs'[n + 1] = new
    BY <1>2, <1>3, <1>5
  <1>7. ShowsIn(outputs)[id] = NoOutput
    BY <1>2, <1>3, ShowsFacts
  <1>8. ShowsIn(outputs') = [ShowsIn(outputs) EXCEPT ![id] = FreeWorkspace]
    <2>1. ShowsIn(outputs')[id] = FreeWorkspace
      <3>1. n + 1 \in DOMAIN outputs'
        BY <1>6
      <3> QED
        BY <1>2, <1>5, <1>6, <3>1, ShowsFacts
    <2>2. ASSUME NEW p \in OutputIds \ {id}
          PROVE  ShowsIn(outputs')[p] = ShowsIn(outputs)[p]
      <3>1. CASE \E o \in DOMAIN outputs : outputs[o].id = p
        <4>1. PICK o \in 1 .. n : outputs[o].id = p
          BY <1>6, <3>1
        <4>2. o \in DOMAIN outputs /\ o \in DOMAIN outputs' /\ outputs'[o] = outputs[o]
          BY <1>6
        <4> QED
          BY <1>2, <4>1, <4>2, ShowsFacts
      <3>2. CASE \A o \in DOMAIN outputs : outputs[o].id # p
        <4>1. \A o \in 1 .. n + 1 : o \in 1 .. n \/ o = n + 1
          BY <1>6
        <4>2. \A o \in DOMAIN outputs' : outputs'[o].id # p
          BY <1>5, <1>6, <3>2, <4>1
        <4> QED
          BY <1>2, <3>2, <4>2, ShowsFacts
      <3> QED
        BY <3>1, <3>2
    <2>3. /\ ShowsIn(outputs) = [p \in OutputIds |-> ShowsIn(outputs)[p]]
          /\ ShowsIn(outputs') = [p \in OutputIds |-> ShowsIn(outputs')[p]]
      BY AreFunctions
    <2> QED
      BY <2>1, <2>2, <2>3
  <1>9. PlaceOf' = PlaceOf
    BY PlacesKept DEF NewOutput
  <1> QED
    BY <1>1, <1>4, <1>7, <1>8, <1>9 DEF Abstract!Plug

(* handle_output_destroy unplugs it.                                       *)
LEMMA OutputDestroyUnplugs ==
    ASSUME IInv, IInv', Screens, Screens', EnoughWorkspaces,
           NEW id \in OutputIds, OutputDestroy(id)
    PROVE  Abstract!Unplug(id)
  <1>1. ShowsOf = ShowsIn(outputs) /\ ShowsOf' = ShowsIn(outputs')
    BY DEF ShowsOf, ShowsIn
  <1>2. /\ outputs \in Seq(Output) /\ outputs' \in Seq(Output)
        /\ IdsOnce(outputs) /\ IdsOnce(outputs')
        /\ Len(outputs) \in Nat /\ DOMAIN outputs = 1 .. Len(outputs)
    BY SeqFacts DEF IInv, TypeOK, Screens
  <1>3. PICK k \in 1 .. Len(outputs) : outputs[k].id = id /\ outputs' = RemoveAt(outputs, k)
    BY <1>2 DEF OutputDestroy
  <1>4. /\ Len(outputs') = Len(outputs) - 1 /\ DOMAIN outputs' = 1 .. Len(outputs) - 1
        /\ \A i \in 1 .. Len(outputs) - 1 :
                outputs'[i] = IF i < k THEN outputs[i] ELSE outputs[i + 1]
    <2>1. /\ Len(outputs') = Len(outputs) - 1
          /\ \A i \in 1 .. Len(outputs) - 1 :
                outputs'[i] = IF i < k THEN outputs[i] ELSE outputs[i + 1]
      BY <1>2, <1>3, RemoveAtFacts
    <2> QED
      BY <1>2, <2>1, SeqFacts
  <1>5. ASSUME NEW i \in DOMAIN outputs'
        PROVE  \E o \in DOMAIN outputs \ {k} : outputs'[i] = outputs[o]
    <2>1. CASE i < k
      BY <1>2, <1>4, <2>1
    <2>2. CASE ~(i < k)
      <3>1. i + 1 \in DOMAIN outputs \ {k}
        BY <1>2, <1>4, <2>2
      <3> QED
        BY <1>4, <2>2, <3>1
    <2> QED
      BY <2>1, <2>2
  <1>6. ASSUME NEW o \in DOMAIN outputs \ {k}
        PROVE  \E i \in DOMAIN outputs' : outputs'[i] = outputs[o]
    <2>1. CASE o < k
      <3>1. o \in DOMAIN outputs'
        BY <1>2, <1>4, <2>1
      <3> QED
        BY <1>4, <2>1, <3>1
    <2>2. CASE ~(o < k)
      <3>1. o - 1 \in DOMAIN outputs' /\ ~(o - 1 < k) /\ (o - 1) + 1 = o
        BY <1>2, <1>4, <2>2
      <3> QED
        BY <1>4, <3>1
    <2> QED
      BY <2>1, <2>2
  <1>7. ShowsIn(outputs)[id] # NoOutput
    <2>1. outputs[k] \in Output
      BY <1>2
    <2> QED
      BY <1>2, <1>3, <2>1, ShowsFacts DEF EnoughWorkspaces, Output
  <1>8. ShowsIn(outputs') = [ShowsIn(outputs) EXCEPT ![id] = NoOutput]
    <2>1. ShowsIn(outputs')[id] = NoOutput
      <3>1. \A o \in DOMAIN outputs \ {k} : outputs[o].id # id
        BY <1>2, <1>3 DEF IdsOnce
      <3>2. \A i \in DOMAIN outputs' : outputs'[i].id # id
        BY <1>5, <3>1
      <3> QED
        BY <1>2, <3>2, ShowsFacts
    <2>2. ASSUME NEW p \in OutputIds \ {id}
          PROVE  ShowsIn(outputs')[p] = ShowsIn(outputs)[p]
      <3>1. CASE \E o \in DOMAIN outputs : outputs[o].id = p
        <4>1. PICK o \in DOMAIN outputs \ {k} : outputs[o].id = p
          BY <1>3, <3>1
        <4>2. PICK i \in DOMAIN outputs' : outputs'[i] = outputs[o]
          BY <1>6
        <4> QED
          BY <1>2, <4>1, <4>2, ShowsFacts
      <3>2. CASE \A o \in DOMAIN outputs : outputs[o].id # p
        <4>1. \A i \in DOMAIN outputs' : outputs'[i].id # p
          BY <1>5, <3>2
        <4> QED
          BY <1>2, <3>2, <4>1, ShowsFacts
      <3> QED
        BY <3>1, <3>2
    <2>3. /\ ShowsIn(outputs) = [p \in OutputIds |-> ShowsIn(outputs)[p]]
          /\ ShowsIn(outputs') = [p \in OutputIds |-> ShowsIn(outputs')[p]]
      BY AreFunctions
    <2> QED
      BY <2>1, <2>2, <2>3
  <1>9. PlaceOf' = PlaceOf
    BY PlacesKept DEF OutputDestroy
  <1> QED
    BY <1>1, <1>7, <1>8, <1>9 DEF Abstract!Unplug

(* switch_workspace shows another workspace, and swaps where it must.      *)
LEMMA SwitchShows ==
    ASSUME IInv, IInv', Screens, Screens', EnoughWorkspaces,
           NEW target \in Workspaces, SwitchWorkspace(target)
    PROVE  \E id \in OutputIds : Abstract!Show(id, target)
  <1>1. ShowsOf = ShowsIn(outputs) /\ ShowsOf' = ShowsIn(outputs')
    BY DEF ShowsOf, ShowsIn
  <1>2. /\ outputs \in Seq(Output) /\ outputs' \in Seq(Output)
        /\ IdsOnce(outputs) /\ IdsOnce(outputs') /\ WorkspacesOnce(outputs)
    BY DEF IInv, TypeOK, Screens
  <1>3. outputs # <<>> /\ outputs' = Switched(ActiveOutput, target)
    BY DEF SwitchWorkspace
  <1>4. PICK fo \in DOMAIN outputs : fo = ActiveOutput
    BY <1>2, <1>3, ActiveFacts
  <1>5. DOMAIN outputs' = DOMAIN outputs /\ \A o \in DOMAIN outputs :
            /\ outputs'[o].id = outputs[o].id
            /\ outputs'[o].workspace = IF o = fo THEN target
                                       ELSE IF outputs[o].workspace = target THEN outputs[fo].workspace
                                       ELSE outputs[o].workspace
    BY <1>2, <1>3, <1>4, SwitchedFacts
  <1>6. PICK id \in OutputIds : id = outputs[fo].id /\ outputs[fo].workspace \in Workspaces
    <2>1. outputs[fo] \in Output
      BY <1>2
    <2> QED
      BY <2>1 DEF Output
  <1>7. ShowsIn(outputs)[id] # NoOutput /\ ShowsIn(outputs)[id] = outputs[fo].workspace
    BY <1>2, <1>6, ShowsFacts DEF EnoughWorkspaces
  <1>8. ASSUME NEW p \in OutputIds
        PROVE  ShowsIn(outputs')[p] = IF p = id THEN target
                                      ELSE IF ShowsIn(outputs)[p] = target THEN ShowsIn(outputs)[id]
                                      ELSE ShowsIn(outputs)[p]
    <2>1. CASE \E o \in DOMAIN outputs : outputs[o].id = p
      <3>1. PICK o \in DOMAIN outputs : outputs[o].id = p
        BY <2>1
      <3>2. ShowsIn(outputs)[p] = outputs[o].workspace /\ ShowsIn(outputs')[p] = outputs'[o].workspace
        BY <1>2, <1>5, <3>1, ShowsFacts
      <3>3. o = fo <=> p = id
        BY <1>2, <1>6, <3>1 DEF IdsOnce
      <3> QED
        BY <1>5, <1>7, <3>2, <3>3
    <2>2. CASE \A o \in DOMAIN outputs : outputs[o].id # p
      <3>1. ShowsIn(outputs)[p] = NoOutput /\ ShowsIn(outputs')[p] = NoOutput
        BY <1>2, <1>5, <2>2, ShowsFacts
      <3>2. p # id /\ target # NoOutput
        BY <1>6, <2>2 DEF EnoughWorkspaces
      <3> QED
        BY <3>1, <3>2
    <2> QED
      BY <2>1, <2>2
  <1>9. ShowsIn(outputs') = [p \in OutputIds |-> IF p = id THEN target
                                ELSE IF ShowsIn(outputs)[p] = target THEN ShowsIn(outputs)[id]
                                ELSE ShowsIn(outputs)[p]]
    BY <1>8 DEF ShowsIn
  <1>10. PlaceOf' = PlaceOf
    BY PlacesKept DEF SwitchWorkspace
  <1> QED
    BY <1>1, <1>7, <1>9, <1>10 DEF Abstract!Show

-----------------------------------------------------------------------------
(* All steps: each is one of Desktop's, or changes nothing it speaks of.   *)
LEMMA NextRefines ==
    ASSUME IInv, IInv', Screens, Screens', EnoughWorkspaces, [Next]_vars
    PROVE  Abstract!DesktopNext \/ UNCHANGED <<PlaceOf, ShowsOf>>
  <1>1. ASSUME UNCHANGED outputs, \A v \in Workspaces : Range(windows'[v]) = Range(windows[v])
        PROVE  UNCHANGED <<PlaceOf, ShowsOf>>
    BY <1>1, PlacesKept DEF ShowsOf
  <1>2. CASE ToplevelNext
    <2>1. PICK tl \in Toplevels :
            \/ NewToplevel(tl) \/ InitialCommit(tl) \/ MapWithoutOutput(tl)
            \/ \E on \in BOOLEAN : RequestFullscreen(tl, on)
            \/ Map(tl) \/ Unmap(tl) \/ Destroy(tl)
      BY <1>2 DEF ToplevelNext
    <2>2. CASE \/ NewToplevel(tl) \/ InitialCommit(tl) \/ MapWithoutOutput(tl)
               \/ \E on \in BOOLEAN : RequestFullscreen(tl, on)
      BY <1>1, <2>2 DEF NewToplevel, InitialCommit, MapWithoutOutput, RequestFullscreen,
                        SetFullscreen, outputVars
    <2> QED
      BY <2>1, <2>2, MapOpens, LeaveCloses DEF Abstract!DesktopNext
  <1>3. CASE KeyNext
    <2>1. CASE \/ FocusStep \/ MoveFocus \/ ResizeWindow \/ ToggleFullscreen \/ ToggleFloating
      <3>1. UNCHANGED <<windows, outputs>>
        BY <2>1 DEF FocusStep, MoveFocus, ResizeWindow, ToggleFullscreen, ToggleFloating,
                    SetFullscreen, SetFloating, outputVars
      <3> QED
        BY <1>1, <3>1
    <2>2. CASE MoveWindow
      BY <1>1, <2>2, MoveWindowLists DEF MoveWindow, outputVars
    <2>3. ASSUME NEW target \in Workspaces, SwitchWorkspace(target) \/ MoveToWorkspace(target)
          PROVE  Abstract!DesktopNext
      BY <2>3, SwitchShows, MoveToWorkspaceCarries DEF Abstract!DesktopNext
    <2> QED
      BY <1>3, <2>1, <2>2, <2>3 DEF KeyNext
  <1>4. CASE OutputNext
    <2>1. CASE SessionActive
      BY <1>1, <2>1 DEF SessionActive, outputVars
    <2> QED
      BY <1>4, <2>1, NewOutputPlugs, OutputDestroyUnplugs DEF OutputNext, Abstract!DesktopNext
  <1>5. CASE PointerNext \/ UNCHANGED vars
    <2>1. UNCHANGED <<windows, outputs>>
      BY <1>5 DEF PointerNext, Press, PressLayerSurface, Release, Motion, vars, outputVars
    <2> QED
      BY <1>1, <2>1
  <1> QED
    BY <1>2, <1>3, <1>4, <1>5 DEF Next

(* Whatever the clients, keys, pointer and monitors do, in any order, the  *)
(* user sees a Desktop: windows open on screen and only their clients      *)
(* close them, a monitor shows one workspace and swaps for one that is     *)
(* shown (src/keybindings.rs, src/output.rs, src/toplevel.rs).             *)
THEOREM CompositorIsADesktop == ASSUME EnoughWorkspaces PROVE Spec => ImplementsDesktop
  <1>1. Init => Screens /\ Abstract!DesktopInit
    <2> SUFFICES ASSUME Init PROVE Screens /\ Abstract!DesktopInit
      OBVIOUS
    <2>1. Screens
      BY DEF Init, Screens, IdsOnce, WorkspacesOnce
    <2>2. Tracked = {} /\ outputs = <<>>
      BY DEF Init, Tracked, Range
    <2>3. PlaceOf = [tl \in Toplevels |-> NoOutput] /\ ShowsOf = [id \in OutputIds |-> NoOutput]
      BY <2>2 DEF PlaceOf, ShowsOf
    <2> QED
      BY <2>1, <2>3 DEF Abstract!DesktopInit
  <1>2. IInv /\ Screens /\ [Next]_vars => Screens'
    BY ScreensStep
  <1>3. IInv /\ IInv' /\ Screens /\ Screens' /\ [Next]_vars
            => [Abstract!DesktopNext]_<<PlaceOf, ShowsOf>>
    BY NextRefines
  <1> QED
    BY <1>1, <1>2, <1>3, Invariance, PTL DEF Spec, ImplementsDesktop, Abstract!DesktopSpec
=============================================================================
