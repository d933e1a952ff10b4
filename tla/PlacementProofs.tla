---------------------------- MODULE PlacementProofs ----------------------------
(***************************************************************************)
(* What Placement's steps may never do, for any monitors, bars, positions, *)
(* sizes and workspaces, and with no bound on how far a drag goes.         *)
(***************************************************************************)
EXTENDS Placement, ListLemmas

(* A grab begins with a button that goes down, and ends with any that      *)
(* comes up (src/input.rs, handle_grab_button).                            *)
THEOREM GrabsEnd == Spec => []GrabNeedsButton
  <1>1. Init => GrabNeedsButton
    BY DEF Init, GrabNeedsButton
  <1>2. GrabNeedsButton /\ [Next]_vars => GrabNeedsButton'
    <2> SUFFICES ASSUME GrabNeedsButton, [Next]_vars
                 PROVE  GrabNeedsButton'
      OBVIOUS
    <2> USE DEF GrabNeedsButton
    <2>1. ASSUME NEW b \in Buttons, NEW chord \in BOOLEAN, NEW hit \in BOOLEAN, Press(b, chord, hit)
          PROVE  GrabNeedsButton'
      BY <2>1 DEF Press
    <2>2. ASSUME NEW b \in Buttons, Release(b) PROVE GrabNeedsButton'
      BY <2>2 DEF Release
    <2>3. CASE Unmap
      BY <2>3 DEF Unmap
    <2>4. \/ UNCHANGED grabVars \/ Unmap
          \/ \E b \in Buttons : Release(b)
          \/ \E b \in Buttons, chord, hit \in BOOLEAN : Press(b, chord, hit)
      BY DEF Next, vars, Map, Recreate, RequestFullscreen, FullscreenKey, SetFullscreen,
             ToggleFloating, Nudge, SwitchWorkspace, MoveToWorkspace, Motion, NewOutput,
             OutputDestroy, ArrangeLayers, SessionActive
    <2> QED
      BY <2>1, <2>2, <2>3, <2>4 DEF grabVars
  <1> QED
    BY <1>1, <1>2, PTL DEF Spec

-----------------------------------------------------------------------------
(* The steps that concern the window, one by one: the case analysis the    *)
(* theorems below share.                                                   *)
LEMMA Steps ==
    ASSUME [Next]_vars
    PROVE  \/ \E natural \in NaturalSizes, dialog, asks \in BOOLEAN : Map(natural, dialog, asks)
           \/ Unmap \/ Recreate
           \/ \E on \in BOOLEAN : SetFullscreen(on)
           \/ ToggleFloating
           \/ \E dir \in Directions : Nudge(dir)
           \/ \E target \in Workspaces : SwitchWorkspace(target) \/ MoveToWorkspace(target)
           \/ \E p \in Points : Motion(p)
           \/ \E id \in OutputIds : \E width \in Bars[id] : NewOutput(id, width)
           \/ \E o \in DOMAIN outputs : OutputDestroy(o) \/ \E width \in Bars[outputs[o].id] : ArrangeLayers(o, width)
           \/ SessionActive
           \/ UNCHANGED <<outputs, windowVars>>
  <1>1. ASSUME NEW b \in Buttons, NEW chord \in BOOLEAN, NEW hit \in BOOLEAN, Press(b, chord, hit)
        PROVE  UNCHANGED <<outputs, windowVars>>
    BY <1>1 DEF Press
  <1>2. ASSUME NEW b \in Buttons, Release(b)
        PROVE  UNCHANGED <<outputs, windowVars>>
    BY <1>2 DEF Release
  <1>3. ASSUME RequestFullscreen \/ FullscreenKey
        PROVE  \E on \in BOOLEAN : SetFullscreen(on)
    <2>1. CASE RequestFullscreen
      BY <2>1 DEF RequestFullscreen
    <2>2. CASE FullscreenKey
      <3>1. (~fullscreen) \in BOOLEAN
        BY Zenon
      <3> QED
        BY <2>2, <3>1 DEF FullscreenKey
    <2> QED
      BY <1>3, <2>1, <2>2
  <1> QED
    BY <1>1, <1>2, <1>3 DEF Next, vars

-----------------------------------------------------------------------------
(* The types the steps rely on: two flags and a mode.                      *)
Flags == floating \in BOOLEAN /\ fullscreen \in BOOLEAN /\ grab \in {"none", "move", "resize"}

(* They hold of every reachable state.                                     *)
LEMMA FlagsInvariance == Spec => []Flags
  <1>1. Init => Flags
    BY DEF Init, Flags
  <1>2. Flags /\ [Next]_vars => Flags'
    <2> SUFFICES ASSUME Flags, [Next]_vars
                 PROVE  Flags'
      OBVIOUS
    <2>1. floating' \in BOOLEAN /\ fullscreen' \in BOOLEAN
      <3>1. ASSUME NEW natural, NEW dialog \in BOOLEAN, NEW asks \in BOOLEAN, Map(natural, dialog, asks)
            PROVE  floating' \in BOOLEAN /\ fullscreen' \in BOOLEAN
        BY <3>1 DEF Map
      <3>2. ASSUME NEW on \in BOOLEAN, SetFullscreen(on)
            PROVE  floating' \in BOOLEAN /\ fullscreen' \in BOOLEAN
        BY <3>2 DEF SetFullscreen, Flags
      <3>3. CASE ToggleFloating
        <4>1. (~floating) \in BOOLEAN
          BY Zenon
        <4> QED
          BY <3>3, <4>1 DEF ToggleFloating, Flags
      <3>4. CASE Recreate
        BY <3>4 DEF Recreate
      <3>5. ASSUME UNCHANGED <<floating, fullscreen>>
            PROVE  floating' \in BOOLEAN /\ fullscreen' \in BOOLEAN
        BY <3>5 DEF Flags
      <3> QED
        BY Steps, <3>1, <3>2, <3>3, <3>4, <3>5
           DEF Unmap, Nudge, SwitchWorkspace, MoveToWorkspace, Motion, NewOutput, OutputDestroy,
               ArrangeLayers, SessionActive, windowVars
    <2>2. grab' \in {"none", "move", "resize"}
      <3>1. ASSUME NEW b \in Buttons, NEW chord, NEW hit, Press(b, chord, hit)
            PROVE  grab' \in {"none", "move", "resize"}
        BY <3>1 DEF Press, Flags, Buttons, Modes
      <3>2. ASSUME NEW b, Release(b) PROVE grab' \in {"none", "move", "resize"}
        BY <3>2 DEF Release
      <3>3. ASSUME UNCHANGED grab PROVE grab' \in {"none", "move", "resize"}
        BY <3>3 DEF Flags
      <3>4. CASE Unmap
        BY <3>4 DEF Unmap
      <3>5. \/ UNCHANGED grab \/ Unmap
            \/ \E b \in Buttons : Release(b)
            \/ \E b \in Buttons, chord, hit \in BOOLEAN : Press(b, chord, hit)
        BY DEF Next, vars, grabVars, Map, Recreate, RequestFullscreen, FullscreenKey, SetFullscreen,
               ToggleFloating, Nudge, SwitchWorkspace, MoveToWorkspace, Motion, NewOutput,
               OutputDestroy, ArrangeLayers, SessionActive
      <3> QED
        BY <3>1, <3>2, <3>3, <3>4, <3>5
    <2> QED
      BY <2>1, <2>2 DEF Flags
  <1> QED
    BY <1>1, <1>2, PTL DEF Spec

-----------------------------------------------------------------------------
(* Monitors, bars and workspace switches leave a floating window where it  *)
(* is (src/tiling.rs, refresh).                                            *)
THEOREM FloatsStay == Spec => FloatsKeepTheirRect
  <1> DEFINE Keeps ==
        Floats /\ Floats' /\ <<outputs, home>>' # <<outputs, home>> => UNCHANGED <<rect, node>>
  <1>1. ASSUME [Next]_vars PROVE Keeps
    <2> SUFFICES ASSUME Floats, Floats', <<outputs, home>>' # <<outputs, home>>
                 PROVE  UNCHANGED <<rect, node>>
      OBVIOUS
    <2>1. CASE UNCHANGED <<outputs, home>>
      BY <2>1
    <2>2. ASSUME Refresh(rect, node) PROVE UNCHANGED <<rect, node>>
      BY <2>2 DEF Refresh, Floats
    <2>3. ASSUME NEW target, SwitchWorkspace(target) \/ MoveToWorkspace(target)
          PROVE  UNCHANGED <<rect, node>>
      BY <2>3, <2>2 DEF SwitchWorkspace, MoveToWorkspace
    <2>4. ASSUME NEW id, NEW width, NewOutput(id, width) PROVE UNCHANGED <<rect, node>>
      BY <2>4, <2>2 DEF NewOutput
    <2>5. ASSUME NEW o, OutputDestroy(o) PROVE UNCHANGED <<rect, node>>
      BY <2>5, <2>2 DEF OutputDestroy
    <2>6. ASSUME NEW o, NEW width, ArrangeLayers(o, width) PROVE UNCHANGED <<rect, node>>
      BY <2>6, <2>2 DEF ArrangeLayers
    <2>7. ASSUME NEW natural, NEW dialog, NEW asks, Map(natural, dialog, asks) PROVE FALSE
      BY <2>7 DEF Map, Floats
    <2>8. ~Unmap
      BY DEF Unmap, Floats
    <2> QED
      BY <1>1, Steps, <2>1, <2>3, <2>4, <2>5, <2>6, <2>7, <2>8
         DEF Recreate, SetFullscreen, ToggleFloating, Nudge, Motion, SessionActive, windowVars
  <1> QED
    BY <1>1, PTL DEF Spec, FloatsKeepTheirRect

-----------------------------------------------------------------------------
(* Where a handler that ends in refresh leaves the window: a floating one  *)
(* where the handler put it, any other, when it is on screen, in its area. *)
LEMMA RefreshFacts ==
    ASSUME NEW r, NEW n, Refresh(r, n)
    PROVE  /\ Floats' => rect' = r /\ node' = n
           /\ Showing' # {} =>
                /\ fullscreen' => rect' = LaidOutOn'.box /\ node' = LaidOutOn'.box.x
                /\ ~fullscreen' /\ ~floating' =>
                      rect' = LaidOutOn'.usable /\ node' = LaidOutOn'.usable.x
  BY DEF Refresh, Floats

(* A floating window is drawn where its rect says after every step that    *)
(* finds it so, or makes it float while a monitor is there.                *)
THEOREM DrawnWhereItIs == Spec => DrawnAtRect
  <1> DEFINE Drawn ==
        (Floats => node = rect.x) /\ Floats' /\ (Floats \/ outputs' # <<>>) => node' = rect'.x
  <1>1. ASSUME Flags, [Next]_vars PROVE Drawn
    <2> SUFFICES ASSUME Floats => node = rect.x, Floats', Floats \/ outputs' # <<>>
                 PROVE  node' = rect'.x
      OBVIOUS
    <2>1. ASSUME NEW natural, NEW dialog, NEW asks, Map(natural, dialog, asks) PROVE node' = rect'.x
      <3> DEFINE r == IF floating' THEN Centered(Active.usable, natural) ELSE rect
                 n == IF floating' THEN r.x ELSE node
      <3>1. Refresh(r, n) /\ floating'
        BY <2>1 DEF Map, Floats
      <3> QED
        BY <3>1, RefreshFacts
    <2>2. ~Unmap /\ ~Recreate
      BY DEF Unmap, Recreate, Floats
    <2>3. ASSUME NEW on \in BOOLEAN, SetFullscreen(on) PROVE node' = rect'.x
      <3>1. ~fullscreen' /\ fullscreen /\ ~on /\ floating /\ home # NoWorkspace /\ outputs # <<>>
        BY <1>1, <2>3 DEF SetFullscreen, Floats, Flags
      <3> QED
        BY <2>3, <3>1 DEF SetFullscreen
    <2>4. CASE ToggleFloating
      <3>1. ~floating
        BY <2>4 DEF ToggleFloating, Floats
      <3>2. Refresh(Centered(Active.usable, DefaultSize(Active.usable)),
                    Centered(Active.usable, DefaultSize(Active.usable)).x)
        BY <2>4, <3>1 DEF ToggleFloating
      <3> QED
        BY <3>2, RefreshFacts
    <2>5. ASSUME NEW p, MoveTo(p) PROVE node' = rect'.x
      BY <2>5 DEF MoveTo, Rect
    <2>6. ASSUME NEW dir, Nudge(dir) PROVE node' = rect'.x
      BY <2>6, <2>5 DEF Nudge
    <2>7. ASSUME Refresh(rect, node), Floats PROVE node' = rect'.x
      BY <2>7, RefreshFacts
    <2>8. ASSUME NEW p, Motion(p) PROVE node' = rect'.x
      <3>1. Floats
        BY <2>8 DEF Motion, Floats
      <3>2. CASE grab = "none"
        BY <2>8, <3>1, <3>2 DEF Motion
      <3>3. CASE grab = "move"
        BY <2>8, <3>3, <2>5 DEF Motion
      <3>4. CASE grab = "resize"
        BY <2>8, <3>1, <3>4 DEF Motion, Rect
      <3> QED
        BY <1>1, <3>2, <3>3, <3>4 DEF Flags
    <2>9. ASSUME NEW target, SwitchWorkspace(target) \/ MoveToWorkspace(target)
          PROVE  node' = rect'.x
      <3>1. home # NoWorkspace /\ UNCHANGED <<floating, fullscreen>> /\ Refresh(rect, node)
        <4>1. CASE SwitchWorkspace(target)
          BY <4>1 DEF SwitchWorkspace, Floats
        <4>2. CASE MoveToWorkspace(target)
          BY <4>2 DEF MoveToWorkspace, Focused
        <4> QED
          BY <2>9, <4>1, <4>2
      <3> QED
        BY <2>7, <3>1 DEF Floats
    <2>10. ASSUME NEW id, NEW width, NewOutput(id, width) PROVE node' = rect'.x
      BY <2>10, <2>7 DEF NewOutput, Floats
    <2>11. ASSUME NEW o, OutputDestroy(o) PROVE node' = rect'.x
      BY <2>11, <2>7 DEF OutputDestroy, Floats
    <2>12. ASSUME NEW o, NEW width, ArrangeLayers(o, width) PROVE node' = rect'.x
      BY <2>12, <2>7 DEF ArrangeLayers, Floats
    <2>13. CASE SessionActive
      <3>1. Floats /\ Refresh(rect, rect.x)
        BY <2>13 DEF SessionActive, Floats
      <3> QED
        BY <3>1, RefreshFacts
    <2>14. ASSUME UNCHANGED <<outputs, windowVars>> PROVE node' = rect'.x
      BY <2>14 DEF windowVars, Floats
    <2> QED
      BY <1>1, Steps, <2>1, <2>2, <2>3, <2>4, <2>6, <2>8, <2>9, <2>10, <2>11, <2>12, <2>13, <2>14
  <1> QED
    BY <1>1, FlagsInvariance, PTL DEF Spec, DrawnAtRect

-----------------------------------------------------------------------------
(* A window that starts to tile or to be fullscreen, or whose workspace or *)
(* output changes, fills its area at once (src/tiling.rs, refresh).        *)
THEOREM AreasAreFilled == Spec => FillsItsArea
  <1> DEFINE Fills ==
        /\ <<outputs, home, floating, fullscreen>>' # <<outputs, home, floating, fullscreen>>
        /\ home' # NoWorkspace /\ Showing' # {}
        => /\ fullscreen' => rect' = LaidOutOn'.box /\ node' = LaidOutOn'.box.x
           /\ ~fullscreen' /\ ~floating' =>
                 rect' = LaidOutOn'.usable /\ node' = LaidOutOn'.usable.x
  <1>1. ASSUME Flags, [Next]_vars PROVE Fills
    <2>1. ASSUME NEW r, NEW n, Refresh(r, n) PROVE Fills
      BY <2>1, RefreshFacts
    <2>2. ASSUME UNCHANGED <<outputs, home, floating, fullscreen>> PROVE Fills
      BY <2>2
    <2>3. ASSUME NEW natural, NEW dialog, NEW asks, Map(natural, dialog, asks) PROVE Fills
      BY <2>3, <2>1 DEF Map
    <2>4. ASSUME NEW on \in BOOLEAN, SetFullscreen(on) PROVE Fills
      <3>1. CASE ~on /\ floating /\ home # NoWorkspace /\ outputs # <<>>
        <4>1. floating' = floating /\ fullscreen' = on
          BY <2>4 DEF SetFullscreen
        <4> QED
          BY <3>1, <4>1
      <3>2. CASE ~(~on /\ floating /\ home # NoWorkspace /\ outputs # <<>>)
        BY <2>4, <3>2, <2>1 DEF SetFullscreen
      <3> QED
        BY <3>1, <3>2
    <2>5. CASE ToggleFloating
      BY <2>5, <2>1 DEF ToggleFloating
    <2>6. ASSUME NEW target, SwitchWorkspace(target) \/ MoveToWorkspace(target) PROVE Fills
      <3>1. Refresh(rect, node)
        BY <2>6 DEF SwitchWorkspace, MoveToWorkspace
      <3> QED
        BY <3>1, <2>1
    <2>7. ASSUME NEW id, NEW width, NewOutput(id, width) PROVE Fills
      BY <2>7, <2>1 DEF NewOutput
    <2>8. ASSUME NEW o, OutputDestroy(o) PROVE Fills
      BY <2>8, <2>1 DEF OutputDestroy
    <2>9. ASSUME NEW o, NEW width, ArrangeLayers(o, width) PROVE Fills
      BY <2>9, <2>1 DEF ArrangeLayers
    <2>10. ASSUME Unmap \/ Recreate PROVE Fills
      BY <2>10 DEF Unmap, Recreate
    <2> QED
      BY <1>1, Steps, <2>2, <2>3, <2>4, <2>5, <2>6, <2>7, <2>8, <2>9, <2>10
         DEF Nudge, Motion, SessionActive, windowVars
  <1> QED
    BY <1>1, FlagsInvariance, PTL DEF Spec, FillsItsArea

-----------------------------------------------------------------------------
(* The areas: every monitor's box has the monitor's length, and its usable *)
(* area is what one of its bars leaves of that.                            *)
OutputRecords == [id : OutputIds, workspace : Workspaces, box : Rects, usable : Rects]

Roomy(out) ==
    /\ out.box.w = Size[out.id]
    /\ \E width \in Bars[out.id] : out.usable.w = Size[out.id] - width

OutputsOK == outputs \in Seq(OutputRecords) /\ \A o \in DOMAIN outputs : Roomy(outputs[o])

(* A window on a workspace has a size.                                     *)
WindowOK ==
    /\ rect \in Rects /\ node \in Int
    /\ home \in Workspaces \cup {NoWorkspace}
    /\ home # NoWorkspace => rect.w > 0

PointerOK == pointer \in Int /\ offset \in Int /\ held \in SUBSET Buttons

LEMMA RectFacts ==
    ASSUME NEW x \in Int, NEW w \in Int
    PROVE  Rect(x, w) \in Rects /\ Rect(x, w).x = x /\ Rect(x, w).w = w
  BY DEF Rect, Rects

(* A monitor's box is as long as the monitor, wherever it stands.          *)
LEMMA BoxType ==
    ASSUME NEW outs, NEW n \in Nat, DOMAIN outs = 1 .. n, NEW k \in 1 .. n,
           \A o \in 1 .. n : outs[o].id \in OutputIds
    PROVE  LayoutBox(outs, k) \in Rects /\ LayoutBox(outs, k).w = Size[outs[k].id]
  <1> DEFINE length == [o \in DOMAIN outs |-> Size[outs[o].id]]
             fixed == {o \in DOMAIN outs : outs[o].id \in Configured}
             ends == {Position[outs[o].id] + length[o] : o \in fixed}
             before == {o \in DOMAIN outs \ fixed : o < k}
             start == IF ends = {} THEN 0 ELSE Max(ends)
             x == IF k \in fixed THEN Position[outs[k].id]
                  ELSE start + MapThenSumSet(LAMBDA o : length[o], before)
  <1>1. LayoutBox(outs, k) = Rect(x, length[k])
    BY DEF LayoutBox
  <1>2. \A o \in 1 .. n : length[o] \in Nat /\ length[o] = Size[outs[o].id]
    BY PlacementAssumption
  <1>3. \A o \in fixed : Position[outs[o].id] \in Int
    BY PlacementAssumption
  <1>4. MapThenSumSet(LAMBDA o : length[o], before) \in Int
    <2>1. before \subseteq 1 .. n /\ IsFiniteSet(1 .. n)
      BY FS_Interval
    <2>2. IsFiniteSet(before)
      BY <2>1, FS_Subset
    <2>3. \A o \in before : length[o] \in Int
      BY <1>2
    <2> HIDE DEF before, length
    <2>4. MapThenSumSet(LAMBDA o : length[o], before) = SumOf(length, before)
      BY DEF MapThenSumSet, MapThenFoldSet, SumOf, Adding, AddsUp, Chosen
    <2> QED BY <2>2, <2>3, <2>4, SumOfType
  <1>5. start \in Int
    <2>1. CASE ends = {}
      BY <2>1
    <2>2. CASE ends # {}
      <3> DEFINE f == [o \in fixed |-> Position[outs[o].id] + length[o]]
      <3>1. f \in [fixed -> Int] /\ fixed \in SUBSET (1 .. n) /\ fixed # {}
        <4>1. fixed \in SUBSET (1 .. n) /\ fixed # {}
          BY <2>2
        <4>2. \A o \in fixed : Position[outs[o].id] + length[o] \in Int
          <5> HIDE DEF fixed, length
          <5> QED BY <1>2, <1>3, <4>1
        <4> QED BY <4>1, <4>2
      <3>2. ends = {f[o] : o \in fixed}
        OBVIOUS
      <3> HIDE DEF f, fixed, ends, length
      <3>3. PICK m \in fixed : \A o \in fixed : f[o] <= f[m]
        BY <3>1, GreatestOfFew
      <3>4. \E e \in ends : \A d \in ends : e >= d
        <4>1. f[m] \in ends /\ \A o \in fixed : f[o] \in Int
          BY <3>1, <3>2
        <4>2. \A d \in ends : f[m] >= d
          BY <3>1, <3>2, <3>3
        <4> QED BY <4>1, <4>2
      <3>5. Max(ends) \in ends
        BY <3>4 DEF Max
      <3>6. ends \subseteq Int
        BY <3>1, <3>2
      <3> QED BY <2>2, <3>5, <3>6
    <2> QED BY <2>1, <2>2
  <1>6. x \in Int
    <2>1. CASE k \in fixed
      BY <1>3, <2>1
    <2>2. CASE k \notin fixed
      <3> HIDE DEF start, before, length, fixed
      <3> QED BY <1>4, <1>5, <2>2
    <2> QED BY <2>1, <2>2
  <1> HIDE DEF x, length
  <1> QED BY <1>1, <1>2, <1>6, RectFacts

LEMMA BarType ==
    ASSUME NEW box \in Rects, NEW width \in Nat
    PROVE  Bar(box, width) \in Rects /\ Bar(box, width).w = box.w - width
  BY DEF Bar, Rect, Rects

(* What a handler may rely on of the areas it reads.                       *)
LEMMA AreaFacts ==
    ASSUME OutputsOK, NEW o \in DOMAIN outputs
    PROVE  /\ outputs[o] \in OutputRecords
           /\ outputs[o].box \in Rects /\ outputs[o].box.w > 0
           /\ outputs[o].usable \in Rects /\ outputs[o].usable.w > 0
           /\ outputs[o].usable.w * FloatPercent >= 100
           /\ outputs[o].workspace \in Workspaces
  <1> DEFINE out == outputs[o]
  <1>1. out \in OutputRecords /\ Roomy(out)
    BY DEF OutputsOK
  <1> HIDE DEF out
  <1>2. PICK width \in Bars[out.id] : out.usable.w = Size[out.id] - width
    BY <1>1 DEF Roomy
  <1>3. out.id \in OutputIds /\ out.box \in Rects /\ out.usable \in Rects /\ out.workspace \in Workspaces
    BY <1>1 DEF OutputRecords
  <1>4. /\ Size[out.id] \in Nat /\ Size[out.id] > 0
        /\ width \in Nat /\ width < Size[out.id] /\ (Size[out.id] - width) * FloatPercent >= 100
    BY <1>2, <1>3, PlacementAssumption
  <1>5. out.box.w > 0
    BY <1>1, <1>4 DEF Roomy
  <1>6. out.usable.w > 0 /\ out.usable.w * FloatPercent >= 100
    BY <1>2, <1>4
  <1> QED BY <1>1, <1>3, <1>5, <1>6 DEF out

LEMMA ActiveFacts ==
    ASSUME OutputsOK, outputs # <<>>
    PROVE  ActiveOutput \in DOMAIN outputs
  <1> DEFINE under == {o \in DOMAIN outputs : Covers(LayoutBox(outputs, o), pointer)}
  <1>1. Len(outputs) \in Nat /\ DOMAIN outputs = 1 .. Len(outputs) /\ Len(outputs) # 0
    BY SeqFacts DEF OutputsOK
  <1>2. under \in SUBSET (1 .. Len(outputs))
    BY <1>1
  <1>3. ActiveOutput = IF under = {} THEN 1 ELSE Min(under)
    BY DEF ActiveOutput
  <1> HIDE DEF under
  <1>4. under # {} => Min(under) \in under
    BY <1>1, <1>2, MinIsIn
  <1> QED BY <1>1, <1>2, <1>3, <1>4

LEMMA ShownFacts ==
    ASSUME OutputsOK, Showing # {}
    PROVE  \A o \in {Min(Showing), Max(Showing)} : o \in Showing /\ o \in DOMAIN outputs
  <1>1. Len(outputs) \in Nat /\ Showing \in SUBSET (1 .. Len(outputs)) /\ DOMAIN outputs = 1 .. Len(outputs)
    BY SeqFacts DEF OutputsOK, Showing
  <1>2. Min(Showing) \in Showing /\ Max(Showing) \in Showing
    BY <1>1, MinIsIn, MaxIsIn
  <1> QED BY <1>1, <1>2

-----------------------------------------------------------------------------
(* Placing and clamping.                                                   *)

(* place_floating leaves the window in reach.                              *)
LEMMA CenteredFacts ==
    ASSUME NEW area \in Rects, area.w > 0, NEW size \in Int, size > 0
    PROVE  /\ Centered(area, size) \in Rects /\ Centered(area, size).w > 0
           /\ InReach(Centered(area, size), area)
  <1> DEFINE w == Smaller(size, area.w)
             x == Larger(area.x + (area.w - w) \div 2, area.x)
  <1>1. area.x \in Int /\ area.w \in Int
    BY DEF Rects
  <1>2. w \in Int /\ w > 0 /\ w <= area.w
    BY <1>1 DEF Smaller
  <1>3. x \in Int /\ area.x <= x /\ x + w <= area.x + area.w
    <2> HIDE DEF w
    <2>1. (area.w - w) \div 2 \in Int /\ (area.w - w) \div 2 <= area.w - w
      BY <1>1, <1>2
    <2> QED BY <1>1, <1>2, <2>1 DEF Larger
  <1>4. Centered(area, size) = Rect(x, w)
    BY DEF Centered
  <1> HIDE DEF x, w
  <1>5. Rect(x, w) \in Rects /\ Rect(x, w).x = x /\ Rect(x, w).w = w
    BY <1>2, <1>3, RectFacts
  <1>6. InReach(Rect(x, w), area)
    BY <1>1, <1>2, <1>3, <1>5 DEF InReach, Covers
  <1> QED BY <1>2, <1>4, <1>5, <1>6

(* clamp_floating too.                                                     *)
LEMMA WithinFacts ==
    ASSUME NEW area \in Rects, area.w > 0, rect \in Rects, rect.w > 0, NEW p \in Int
    PROVE  Within(area, p) \in Int /\ InReach(Rect(Within(area, p), rect.w), area)
  <1> DEFINE q == Within(area, p)
             high == Larger(area.x + area.w - rect.w, area.x)
  <1>1. area.x \in Int /\ area.w \in Int /\ rect.w \in Int
    BY DEF Rects
  <1>2. /\ high \in Int /\ area.x <= high /\ high < area.x + area.w
        /\ rect.w <= area.w => high + rect.w <= area.x + area.w
    BY <1>1 DEF Larger
  <1>3. q = Clamp(p, area.x, high)
    BY DEF Within
  <1> HIDE DEF high, q
  <1>4. q \in Int /\ area.x <= q /\ q <= high
    BY <1>1, <1>2, <1>3 DEF Clamp
  <1>5. Rect(q, rect.w).x = q /\ Rect(q, rect.w).w = rect.w
    BY <1>1, <1>4, RectFacts
  <1>6. InReach(Rect(q, rect.w), area)
    BY <1>1, <1>2, <1>4, <1>5 DEF InReach, Covers
  <1> QED BY <1>4, <1>6 DEF q

LEMMA ClampedType ==
    ASSUME OutputsOK, rect \in Rects, rect.w > 0, NEW p \in Int
    PROVE  /\ Clamped(p) \in Int
           /\ Showing # {} => InReach(Rect(Clamped(p), rect.w), ClampedOn.usable)
  <1>1. CASE Showing = {}
    BY <1>1 DEF Clamped
  <1>2. CASE Showing # {}
    <2>1. ClampedOn.usable \in Rects /\ ClampedOn.usable.w > 0
      BY <1>2, ShownFacts, AreaFacts DEF ClampedOn
    <2>2. Clamped(p) = Within(ClampedOn.usable, p)
      BY <1>2 DEF Clamped
    <2> QED BY <2>1, <2>2, WithinFacts
  <1> QED BY <1>1, <1>2

(* float_default_size is a size.                                           *)
LEMMA DefaultFacts ==
    ASSUME OutputsOK, outputs # <<>>
    PROVE  DefaultSize(Active.usable) \in Int /\ DefaultSize(Active.usable) > 0
  <1> DEFINE w == Active.usable.w
             n == w * FloatPercent
  <1>1. w \in Int /\ n >= 100
    BY ActiveFacts, AreaFacts DEF Active, Rects
  <1>2. DefaultSize(Active.usable) = n \div 100
    BY Zenon DEF DefaultSize
  <1>3. FloatPercent \in Int
    BY PlacementAssumption
  <1>4. n \in Int
    <2> HIDE DEF w
    <2> QED BY <1>1, <1>3
  <1> HIDE DEF n
  <1> QED BY <1>1, <1>2, <1>4

(* Said as a state predicate, to be had of the next state too.             *)
ShownSound ==
    OutputsOK /\ Showing # {} =>
        /\ Min(Showing) \in Showing
        /\ LaidOutOn.box \in Rects /\ LaidOutOn.box.w > 0
        /\ LaidOutOn.usable \in Rects /\ LaidOutOn.usable.w > 0

LEMMA ShownAreas == ShownSound
  BY ShownFacts, AreaFacts DEF LaidOutOn, ShownSound

LEMMA ActiveArea ==
    OutputsOK /\ outputs # <<>> =>
        /\ ActiveOutput \in DOMAIN outputs
        /\ Active.usable \in Rects /\ Active.usable.w > 0
        /\ Active.workspace \in Workspaces
  BY ActiveFacts, AreaFacts DEF Active

(* refresh keeps the window sound.                                         *)
LEMMA RefreshType ==
    ASSUME OutputsOK', NEW r \in Rects, NEW n \in Int, Refresh(r, n)
    PROVE  /\ rect' \in Rects /\ node' \in Int
           /\ r.w > 0 => rect'.w > 0
           /\ Showing' # {} /\ (fullscreen' \/ ~floating') => rect'.w > 0
  <1>1. CASE Showing' # {} /\ (fullscreen' \/ ~floating')
    <2>1. /\ LaidOutOn'.box \in Rects /\ LaidOutOn'.box.w > 0
          /\ LaidOutOn'.usable \in Rects /\ LaidOutOn'.usable.w > 0
      <3>1. ShownSound'
        BY ShownAreas, PTL
      <3> QED BY <1>1, <3>1 DEF ShownSound
    <2>2. rect' \in {LaidOutOn'.box, LaidOutOn'.usable} /\ node' = rect'.x
      BY <1>1 DEF Refresh
    <2>3. rect' \in Rects /\ rect'.w > 0
      BY <2>1, <2>2
    <2> QED BY <1>1, <2>2, <2>3 DEF Rects
  <1>2. CASE ~(Showing' # {} /\ (fullscreen' \/ ~floating'))
    BY <1>2 DEF Refresh
  <1> QED BY <1>1, <1>2

-----------------------------------------------------------------------------
(* The monitors' steps.                                                    *)
LEMMA FreeWorkspaceType == FreeWorkspace \in Workspaces
  <1> DEFINE free == Workspaces \ {outputs[o].workspace : o \in DOMAIN outputs}
  <1>1. 0 \in Workspaces /\ free \subseteq Nat /\ free \subseteq Workspaces
    BY PlacementAssumption DEF Workspaces
  <1>2. FreeWorkspace = IF free = {} THEN 0 ELSE Min(free)
    BY DEF FreeWorkspace
  <1> HIDE DEF free
  <1>3. free # {} => \E m \in free : \A y \in free : m <= y
    BY <1>1, LeastNatural
  <1>4. free # {} => Min(free) \in free
    BY <1>3 DEF Min
  <1> QED BY <1>1, <1>2, <1>4

LEMMA NewOutputOK ==
    ASSUME OutputsOK, NEW id \in OutputIds, NEW width \in Bars[id], NewOutput(id, width)
    PROVE  OutputsOK'
  <1> DEFINE n == Len(outputs) + 1
             outs == Append(outputs, [id |-> id])
             box == LayoutBox(outs, n)
             new == [id |-> id, workspace |-> FreeWorkspace, box |-> box, usable |-> Bar(box, width)]
  <1>1. Len(outputs) \in Nat /\ DOMAIN outputs = 1 .. Len(outputs) /\ outputs \in Seq(OutputRecords)
    BY SeqFacts DEF OutputsOK
  <1>2. box \in Rects /\ box.w = Size[id]
    <2>1. /\ n \in Nat /\ n \in 1 .. n
          /\ DOMAIN outs = 1 .. n
          /\ \A o \in 1 .. Len(outputs) : outs[o] = outputs[o]
          /\ outs[n] = [id |-> id]
      BY <1>1
    <2>2. outs[n].id = id
      BY <2>1
    <2>3. ASSUME NEW o \in 1 .. n PROVE outs[o].id \in OutputIds
      <3>1. CASE o = n
        BY <2>2, <3>1
      <3>2. CASE o # n
        <4>1. o \in 1 .. Len(outputs)
          BY <1>1, <3>2
        <4>2. outs[o] = outputs[o] /\ outputs[o] \in OutputRecords
          BY <1>1, <2>1, <4>1
        <4> QED BY <4>2 DEF OutputRecords
      <3> QED BY <3>1, <3>2
    <2> HIDE DEF n, outs
    <2> QED BY <2>1, <2>2, <2>3, BoxType
  <1>3. width \in Nat
    BY PlacementAssumption
  <1>4. outputs' = Append(outputs, new)
    BY DEF NewOutput
  <1> HIDE DEF box
  <1>5. new \in OutputRecords
    BY <1>2, <1>3, BarType, FreeWorkspaceType DEF OutputRecords
  <1>6. Roomy(new)
    BY <1>2, <1>3, BarType DEF Roomy
  <1> HIDE DEF new
  <1>7. /\ outputs' \in Seq(OutputRecords) /\ DOMAIN outputs' = 1 .. n
        /\ \A o \in 1 .. Len(outputs) : outputs'[o] = outputs[o]
        /\ outputs'[n] = new
    BY <1>1, <1>4, <1>5
  <1>8. ASSUME NEW o \in 1 .. n PROVE Roomy(outputs'[o])
    <2>1. o = n \/ o \in 1 .. Len(outputs)
      BY <1>1
    <2> QED BY <1>1, <1>6, <1>7, <2>1 DEF OutputsOK
  <1>9. \A o \in 1 .. n : outputs'[o].box.w = Size[outputs'[o].id]
                            /\ \E width1 \in Bars[outputs'[o].id] :
                                  outputs'[o].usable.w = Size[outputs'[o].id] - width1
    BY <1>8 DEF Roomy
  <1> HIDE DEF n
  <1> QED BY <1>7, <1>9 DEF OutputsOK, Roomy

LEMMA OutputDestroyOK ==
    ASSUME OutputsOK, NEW o \in DOMAIN outputs, OutputDestroy(o)
    PROVE  OutputsOK'
  <1>1. Len(outputs) \in Nat /\ DOMAIN outputs = 1 .. Len(outputs) /\ outputs \in Seq(OutputRecords)
    BY SeqFacts DEF OutputsOK
  <1>2. /\ outputs' \in Seq(OutputRecords) /\ Len(outputs') = Len(outputs) - 1
        /\ \A k \in 1 .. Len(outputs) - 1 :
              outputs'[k] = IF k < o THEN outputs[k] ELSE outputs[k + 1]
    BY <1>1, RemoveAtFacts DEF OutputDestroy
  <1>3. DOMAIN outputs' = 1 .. Len(outputs) - 1
    BY <1>2
  <1>4. ASSUME NEW k \in DOMAIN outputs' PROVE Roomy(outputs'[k])
    <2>1. k \in DOMAIN outputs /\ k + 1 \in DOMAIN outputs
      BY <1>1, <1>3
    <2> QED BY <1>2, <1>3, <2>1 DEF OutputsOK
  <1> QED BY <1>2, <1>4 DEF OutputsOK, Roomy

LEMMA ArrangeLayersOK ==
    ASSUME OutputsOK, NEW o \in DOMAIN outputs, NEW width \in Bars[outputs[o].id],
           ArrangeLayers(o, width)
    PROVE  OutputsOK'
  <1> DEFINE bar == Bar(outputs[o].box, width)
             new == [outputs[o] EXCEPT !.usable = bar]
  <1>1. outputs[o] \in OutputRecords /\ Roomy(outputs[o]) /\ outputs \in Seq(OutputRecords)
    BY AreaFacts DEF OutputsOK
  <1>2. outputs[o].id \in OutputIds /\ outputs[o].box \in Rects
    BY <1>1 DEF OutputRecords
  <1>3. width \in Nat /\ bar \in Rects /\ bar.w = Size[outputs[o].id] - width
    BY <1>1, <1>2, PlacementAssumption, BarType DEF Roomy
  <1>4. outputs' = [outputs EXCEPT ![o] = new]
    BY DEF ArrangeLayers
  <1> HIDE DEF bar
  <1>5. new \in OutputRecords /\ new.id = outputs[o].id /\ new.box = outputs[o].box /\ new.usable = bar
    BY <1>1, <1>3 DEF OutputRecords
  <1> HIDE DEF new
  <1>6. Roomy(new)
    BY <1>1, <1>3, <1>5 DEF Roomy
  <1>7. outputs' \in Seq(OutputRecords) /\ DOMAIN outputs' = DOMAIN outputs
    BY <1>1, <1>4, <1>5
  <1>8. ASSUME NEW k \in DOMAIN outputs' PROVE Roomy(outputs'[k])
    <2>1. k \in DOMAIN outputs /\ outputs'[k] = IF k = o THEN new ELSE outputs[k]
      BY <1>4, <1>7
    <2> QED BY <1>6, <2>1 DEF OutputsOK
  <1> QED BY <1>7, <1>8 DEF OutputsOK, Roomy

LEMMA SwitchOutputsOK ==
    ASSUME OutputsOK, NEW target \in Workspaces, SwitchWorkspace(target)
    PROVE  OutputsOK'
  <1>1. Len(outputs) \in Nat /\ DOMAIN outputs = 1 .. Len(outputs) /\ outputs \in Seq(OutputRecords)
    BY SeqFacts DEF OutputsOK
  <1>2. Active.workspace \in Workspaces
    BY ActiveArea DEF SwitchWorkspace
  <1> DEFINE New(o) == IF o = ActiveOutput THEN target
                       ELSE IF o \in Swapping(target) THEN Active.workspace
                       ELSE outputs[o].workspace
             Moved(o) == [outputs[o] EXCEPT !.workspace = New(o)]
  <1>3. outputs' = [o \in DOMAIN outputs |-> Moved(o)]
    BY DEF SwitchWorkspace
  <1>4. ASSUME NEW o \in DOMAIN outputs
        PROVE  /\ Moved(o) \in OutputRecords
               /\ Moved(o).id = outputs[o].id /\ Moved(o).box = outputs[o].box
               /\ Moved(o).usable = outputs[o].usable
    <2>1. outputs[o] \in OutputRecords /\ New(o) \in Workspaces
      BY <1>2, AreaFacts
    <2> HIDE DEF New
    <2> QED BY <2>1 DEF OutputRecords
  <1>5. ASSUME NEW o \in DOMAIN outputs PROVE Roomy(Moved(o))
    <2>1. Roomy(outputs[o])
      BY DEF OutputsOK
    <2> HIDE DEF Moved
    <2> QED BY <1>4, <2>1 DEF Roomy
  <1> HIDE DEF Moved
  <1>6. outputs' \in Seq(OutputRecords)
    BY <1>1, <1>3, <1>4
  <1>7. ASSUME NEW o \in DOMAIN outputs' PROVE Roomy(outputs'[o])
    BY <1>3, <1>5
  <1> QED BY <1>6, <1>7 DEF OutputsOK, Roomy

LEMMA OutputsStep ==
    ASSUME OutputsOK, [Next]_vars
    PROVE  OutputsOK'
  <1>1. ASSUME UNCHANGED outputs PROVE OutputsOK'
    BY <1>1 DEF OutputsOK, Roomy
  <1> QED
    BY Steps, <1>1, NewOutputOK, OutputDestroyOK, ArrangeLayersOK, SwitchOutputsOK
       DEF Map, Unmap, Recreate, SetFullscreen, ToggleFloating, Nudge, MoveToWorkspace, Motion,
           SessionActive

-----------------------------------------------------------------------------
(* The window's steps.                                                     *)

(* Mapping shows the window: it takes the active output's workspace.       *)
LEMMA MapShows ==
    ASSUME OutputsOK, NEW natural, NEW dialog, NEW asks, Map(natural, dialog, asks)
    PROVE  Showing' # {} /\ home' \in Workspaces
  <1>1. /\ outputs # <<>> /\ outputs' = outputs
        /\ home' = outputs[ActiveOutput].workspace
    BY DEF Map, Active
  <1>2. ActiveOutput \in DOMAIN outputs /\ home' \in Workspaces
    BY <1>1, ActiveArea DEF Active
  <1>3. ActiveOutput \in Showing'
    BY <1>1, <1>2 DEF Showing
  <1> QED BY <1>2, <1>3

LEMMA MapOK ==
    ASSUME OutputsOK, WindowOK, OutputsOK', NEW natural \in NaturalSizes,
           NEW dialog \in BOOLEAN, NEW asks \in BOOLEAN, Map(natural, dialog, asks)
    PROVE  WindowOK'
  <1> DEFINE r == IF floating' THEN Centered(Active.usable, natural) ELSE rect
             n == IF floating' THEN r.x ELSE node
  <1>1. Refresh(r, n) /\ outputs # <<>> /\ floating' \in BOOLEAN
    BY DEF Map
  <1>2. natural \in Int /\ natural > 0
    BY PlacementAssumption
  <1>3. Centered(Active.usable, natural) \in Rects /\ Centered(Active.usable, natural).w > 0
    BY <1>1, <1>2, ActiveArea, CenteredFacts
  <1>4. r \in Rects /\ n \in Int /\ (floating' => r.w > 0)
    BY <1>3 DEF Rects, WindowOK
  <1> HIDE DEF r, n
  <1>5. /\ rect' \in Rects /\ node' \in Int
        /\ r.w > 0 => rect'.w > 0
        /\ Showing' # {} /\ (fullscreen' \/ ~floating') => rect'.w > 0
    BY <1>1, <1>4, RefreshType
  <1> QED BY <1>4, <1>5, MapShows DEF WindowOK

LEMMA SetFullscreenOK ==
    ASSUME OutputsOK, WindowOK, OutputsOK', NEW on, SetFullscreen(on)
    PROVE  WindowOK'
  <1>1. UNCHANGED <<home, floating, outputs>>
    BY DEF SetFullscreen
  <1>2. CASE ~on /\ floating /\ home # NoWorkspace /\ outputs # <<>>
    <2>1. rect' = Centered(Active.usable, rect.w) /\ node' = rect'.x
      BY <1>2 DEF SetFullscreen
    <2>2. rect.w \in Int /\ rect.w > 0
      BY <1>2 DEF WindowOK, Rects
    <2>3. rect' \in Rects /\ rect'.w > 0
      BY <1>2, <2>1, <2>2, ActiveArea, CenteredFacts
    <2> QED BY <1>1, <2>1, <2>3 DEF WindowOK, Rects
  <1>3. CASE ~(~on /\ floating /\ home # NoWorkspace /\ outputs # <<>>)
    <2>1. Refresh(rect, node)
      BY <1>3 DEF SetFullscreen
    <2> QED BY <1>1, <2>1, RefreshType DEF WindowOK
  <1> QED BY <1>2, <1>3

LEMMA ToggleFloatingOK ==
    ASSUME OutputsOK, WindowOK, OutputsOK', ToggleFloating
    PROVE  WindowOK'
  <1> DEFINE c == Centered(Active.usable, DefaultSize(Active.usable))
             r == IF floating THEN rect ELSE c
             n == IF floating THEN node ELSE r.x
  <1>1. outputs # <<>> /\ home # NoWorkspace /\ UNCHANGED home /\ Refresh(r, n)
    BY DEF ToggleFloating, Focused
  <1>2. c \in Rects /\ c.w > 0
    BY <1>1, ActiveArea, DefaultFacts, CenteredFacts
  <1> HIDE DEF c
  <1>3. r \in Rects /\ n \in Int /\ r.w > 0
    BY <1>1, <1>2 DEF Rects, WindowOK
  <1> HIDE DEF r, n
  <1>4. rect' \in Rects /\ node' \in Int /\ rect'.w > 0
    BY <1>1, <1>3, RefreshType
  <1> QED BY <1>1, <1>4 DEF WindowOK

LEMMA MoveToType ==
    ASSUME WindowOK, NEW p \in Int, MoveTo(p)
    PROVE  rect' \in Rects /\ node' \in Int /\ rect'.x = p /\ rect'.w = rect.w
  <1>1. rect.w \in Int
    BY DEF WindowOK, Rects
  <1> QED BY <1>1, RectFacts DEF MoveTo

LEMMA NudgeOK ==
    ASSUME OutputsOK, WindowOK, NEW dir, Nudge(dir)
    PROVE  /\ WindowOK'
           /\ Showing # {} => InReach(rect', ClampedOn.usable)
  <1> DEFINE dx == CASE dir = "left" -> -NUDGE_STEP [] dir = "right" -> NUDGE_STEP [] OTHER -> 0
             p == rect.x + dx
  <1>1. dx \in Int
    BY PlacementAssumption
  <1>2. rect.x \in Int /\ home # NoWorkspace /\ rect \in Rects /\ rect.w > 0
    BY DEF WindowOK, Rects, Nudge, Focused
  <1>3. p \in Int
    <2> HIDE DEF dx
    <2> QED BY <1>1, <1>2
  <1>4. MoveTo(Clamped(p)) /\ UNCHANGED home
    BY DEF Nudge
  <1> HIDE DEF p
  <1>5. Clamped(p) \in Int /\ (Showing # {} => InReach(Rect(Clamped(p), rect.w), ClampedOn.usable))
    BY <1>2, <1>3, ClampedType
  <1>6. rect' \in Rects /\ node' \in Int /\ rect'.w = rect.w /\ rect' = Rect(Clamped(p), rect.w)
    BY <1>4, <1>5, MoveToType DEF MoveTo
  <1> QED BY <1>2, <1>4, <1>5, <1>6 DEF WindowOK

(* A drag: clamped when it moves the window, at least MIN_FLOAT_SIZE when  *)
(* it resizes it.  An unmapped window is not dragged, and has no size.     *)
LEMMA MotionOK ==
    ASSUME OutputsOK, WindowOK, PointerOK, Flags, NEW p \in Points, Motion(p)
    PROVE  /\ WindowOK'
           /\ grab = "move" /\ home # NoWorkspace /\ Showing # {} => InReach(rect', ClampedOn.usable)
           /\ grab # "move" => rect'.x = rect.x
  <1> DEFINE w == Larger(offset + p, MIN_FLOAT_SIZE)
  <1>1. p \in Int /\ offset + p \in Int /\ UNCHANGED home
    BY PlacementAssumption DEF PointerOK, Motion
  <1>2. w \in Int /\ w > 0
    <2>1. MIN_FLOAT_SIZE \in Int /\ MIN_FLOAT_SIZE > 0
      BY PlacementAssumption
    <2> QED BY <1>1, <2>1 DEF Larger
  <1>3. CASE grab = "none"
    BY <1>1, <1>3 DEF Motion, WindowOK
  <1>4. CASE grab = "move"
    <2>1. MoveTo(Clamped(offset + p))
      BY <1>4 DEF Motion
    <2> DEFINE q == offset + p
    <2>2. q \in Int
      BY <1>1
    <2> HIDE DEF q
    <2>3. CASE home # NoWorkspace
      <3>1. rect \in Rects /\ rect.w > 0
        BY <2>3 DEF WindowOK
      <3>2. Clamped(q) \in Int /\ (Showing # {} => InReach(Rect(Clamped(q), rect.w), ClampedOn.usable))
        BY <2>2, <3>1, ClampedType
      <3>3. /\ rect' \in Rects /\ node' \in Int /\ rect'.w = rect.w
            /\ rect' = Rect(Clamped(q), rect.w)
        BY <2>1, <3>2, MoveToType DEF MoveTo, q
      <3> QED BY <1>1, <1>4, <3>1, <3>2, <3>3 DEF WindowOK
    <2>4. CASE home = NoWorkspace
      <3>1. Showing = {}
        <4>1. \A o \in DOMAIN outputs : outputs[o].workspace \in Workspaces
          BY AreaFacts
        <4> QED BY <2>4, <4>1, PlacementAssumption DEF Showing, Workspaces
      <3>2. MoveTo(q)
        BY <2>1, <3>1 DEF Clamped, q
      <3>3. rect' \in Rects /\ node' \in Int
        BY <2>2, <3>2, MoveToType
      <3> QED BY <1>1, <1>4, <2>4, <3>3 DEF WindowOK
    <2> QED BY <2>3, <2>4
  <1>5. CASE grab = "resize"
    <2>1. rect' = Rect(rect.x, w) /\ UNCHANGED node
      BY <1>5 DEF Motion
    <2>2. rect.x \in Int
      BY DEF WindowOK, Rects
    <2> HIDE DEF w
    <2>3. rect' \in Rects /\ rect'.x = rect.x /\ rect'.w = w
      BY <1>2, <2>1, <2>2, RectFacts
    <2> QED BY <1>1, <1>2, <1>5, <2>1, <2>3 DEF WindowOK
  <1> QED BY <1>3, <1>4, <1>5 DEF Flags

LEMMA WindowStep ==
    ASSUME OutputsOK, WindowOK, PointerOK, Flags, OutputsOK', [Next]_vars
    PROVE  WindowOK'
  <1>1. ASSUME NEW n \in Int, Refresh(rect, n),
               home' = home \/ (home' \in Workspaces /\ home # NoWorkspace)
        PROVE  WindowOK'
    <2>1. rect \in Rects
      BY DEF WindowOK
    <2>2. rect' \in Rects /\ node' \in Int /\ (rect.w > 0 => rect'.w > 0)
      BY <1>1, <2>1, RefreshType
    <2> QED BY <1>1, <2>2 DEF WindowOK
  <1>2. node \in Int /\ (\A a \in {rect.x, 0} : a \in Int)
    BY DEF WindowOK, Rects
  <1>3. ASSUME Unmap PROVE WindowOK'
    <2>1. rect' = NoRect /\ node' = NoRect.x /\ home' = NoWorkspace
      BY <1>3 DEF Unmap
    <2>2. NoRect \in Rects /\ NoRect.x = 0
      BY RectFacts DEF NoRect
    <2> QED BY <2>1, <2>2 DEF WindowOK
  <1>4. ASSUME UNCHANGED <<home, rect, node>> PROVE WindowOK'
    BY <1>4 DEF WindowOK
  <1>5. ASSUME NEW target \in Workspaces, SwitchWorkspace(target) \/ MoveToWorkspace(target)
        PROVE  WindowOK'
    BY <1>1, <1>2, <1>5 DEF SwitchWorkspace, MoveToWorkspace, Focused
  <1>6. ASSUME NEW id, NEW width, NewOutput(id, width) PROVE WindowOK'
    BY <1>1, <1>2, <1>6 DEF NewOutput
  <1>7. ASSUME NEW o, OutputDestroy(o) PROVE WindowOK'
    BY <1>1, <1>2, <1>7 DEF OutputDestroy
  <1>8. ASSUME NEW o, NEW width, ArrangeLayers(o, width) PROVE WindowOK'
    BY <1>1, <1>2, <1>8 DEF ArrangeLayers
  <1>9. ASSUME SessionActive PROVE WindowOK'
    <2> DEFINE n == IF floating /\ ~fullscreen THEN rect.x ELSE 0
    <2>1. n \in Int
      BY <1>2
    <2>2. Refresh(rect, n) /\ UNCHANGED home
      BY <1>9 DEF SessionActive
    <2> HIDE DEF n
    <2> QED BY <1>1, <2>1, <2>2
  <1> QED
    BY Steps, MapOK, SetFullscreenOK, ToggleFloatingOK, NudgeOK, MotionOK,
       <1>3, <1>4, <1>5, <1>6, <1>7, <1>8, <1>9 DEF Recreate, windowVars

-----------------------------------------------------------------------------
LEMMA PointerStep ==
    ASSUME WindowOK, PointerOK, [Next]_vars
    PROVE  PointerOK'
  <1>1. ASSUME NEW b \in Buttons, NEW chord, NEW hit, Press(b, chord, hit)
        PROVE  PointerOK'
    <2>1. /\ pointer' = pointer /\ held' = held \cup {b}
          /\ offset' \in {offset, rect.x - pointer, rect.w - pointer}
      BY <1>1 DEF Press
    <2>2. {rect.x, rect.w, pointer, offset} \subseteq Int
      BY DEF WindowOK, PointerOK, Rects
    <2> QED BY <2>1, <2>2 DEF PointerOK
  <1>2. ASSUME NEW b, Release(b) PROVE PointerOK'
    BY <1>2 DEF Release, PointerOK
  <1>3. CASE Unmap
    BY <1>3 DEF Unmap, PointerOK
  <1>4. ASSUME NEW p \in Points, Motion(p) PROVE PointerOK'
    BY <1>4, PlacementAssumption DEF Motion, PointerOK, grabVars
  <1>5. ASSUME UNCHANGED <<pointer, grabVars>> PROVE PointerOK'
    BY <1>5 DEF PointerOK, grabVars
  <1>6. \/ UNCHANGED <<pointer, grabVars>> \/ Unmap
        \/ \E b \in Buttons : Release(b)
        \/ \E b \in Buttons, chord, hit \in BOOLEAN : Press(b, chord, hit)
        \/ \E p \in Points : Motion(p)
    BY DEF Next, vars, Map, Recreate, RequestFullscreen, FullscreenKey, SetFullscreen,
           ToggleFloating, Nudge, SwitchWorkspace, MoveToWorkspace, NewOutput,
           OutputDestroy, ArrangeLayers, SessionActive
  <1> QED
    BY <1>1, <1>2, <1>3, <1>4, <1>5, <1>6

(* The inductive invariant.                                                *)
Sound == OutputsOK /\ WindowOK /\ PointerOK /\ Flags

LEMMA SoundInvariance == Spec => []Sound
  <1>1. Init => OutputsOK /\ WindowOK /\ PointerOK
    <2> SUFFICES ASSUME Init PROVE OutputsOK /\ WindowOK /\ PointerOK
      OBVIOUS
    <2>1. OutputsOK
      BY DEF Init, OutputsOK
    <2>2. WindowOK
      BY RectFacts DEF Init, WindowOK, NoRect
    <2>3. PointerOK
      BY PlacementAssumption DEF Init, PointerOK
    <2> QED BY <2>1, <2>2, <2>3
  <1>2. OutputsOK /\ WindowOK /\ PointerOK /\ Flags /\ [Next]_vars
          => (OutputsOK /\ WindowOK /\ PointerOK)'
    <2> SUFFICES ASSUME OutputsOK, WindowOK, PointerOK, Flags, [Next]_vars
                 PROVE  OutputsOK' /\ WindowOK' /\ PointerOK'
      OBVIOUS
    <2>1. OutputsOK'
      BY OutputsStep
    <2> QED BY <2>1, WindowStep, PointerStep
  <1> QED
    BY <1>1, <1>2, FlagsInvariance, PTL DEF Spec, Sound

(* Every variable has its type.                                            *)
THEOREM PlacementTypes == Spec => []TypeOK
  <1>1. Sound => TypeOK
    BY DEF Sound, OutputsOK, OutputRecords, WindowOK, PointerOK, Flags, TypeOK
  <1> QED
    BY <1>1, SoundInvariance, PTL

-----------------------------------------------------------------------------
(* Whatever moves a floating window that is on screen leaves it in reach   *)
(* on an output that shows it, and whatever makes a window float leaves it *)
(* in reach on the active one (src/toplevel.rs, clamp_floating and         *)
(* place_floating).                                                        *)
THEOREM FloatsStayInReach == Spec => MovedIntoReach
  <1> DEFINE Moved ==
        /\ Floats' /\ Showing' # {}
        /\ Floats => rect'.x # rect.x
        => \E o \in IF Floats THEN Showing' ELSE {ActiveOutput'} :
             InReach(rect', outputs'[o].usable)
  <1>1. ASSUME Sound, [Next]_vars PROVE Moved
    <2> SUFFICES ASSUME Floats', Showing' # {}, Floats => rect'.x # rect.x
                 PROVE  \E o \in IF Floats THEN Showing' ELSE {ActiveOutput'} :
                           InReach(rect', outputs'[o].usable)
      OBVIOUS
    <2>1. OutputsOK /\ WindowOK /\ PointerOK /\ Flags
      BY <1>1 DEF Sound
    <2> DEFINE Goal == \E o \in IF Floats THEN Showing' ELSE {ActiveOutput'} :
                           InReach(rect', outputs'[o].usable)
    <2>2. ASSUME ~Floats, UNCHANGED <<outputs, pointer>>, InReach(rect', Active.usable) PROVE Goal
      <3>1. ActiveOutput' = ActiveOutput
        BY <2>2 DEF ActiveOutput
      <3> QED BY <2>2, <3>1 DEF Active
    <2>3. ASSUME Floats, UNCHANGED <<outputs, home>>, InReach(rect', ClampedOn.usable) PROVE Goal
      <3>1. Showing' = Showing
        BY <2>3 DEF Showing
      <3>2. Min(Showing) \in Showing
        BY <2>1, <3>1, ShownAreas DEF ShownSound
      <3> QED BY <2>3, <3>1, <3>2 DEF ClampedOn
    <2>4. ASSUME Refresh(rect, node), Floats PROVE FALSE
      BY <2>4, RefreshFacts
    <2>5. ASSUME NEW natural \in NaturalSizes, NEW dialog \in BOOLEAN, NEW asks \in BOOLEAN,
                 Map(natural, dialog, asks)
          PROVE  Goal
      <3> DEFINE c == Centered(Active.usable, natural)
      <3>1. /\ ~Floats /\ outputs # <<>> /\ UNCHANGED <<outputs, pointer>>
            /\ Refresh(c, c.x)
        BY <2>5 DEF Map, Floats
      <3>2. rect' = c
        BY <3>1, RefreshFacts
      <3>3. natural \in Int /\ natural > 0
        BY PlacementAssumption
      <3>4. InReach(c, Active.usable)
        BY <2>1, <3>1, <3>3, ActiveArea, CenteredFacts
      <3> QED BY <2>2, <3>1, <3>2, <3>4
    <2>6. ~Unmap /\ ~Recreate
      BY DEF Unmap, Recreate, Floats
    <2>7. ASSUME NEW on \in BOOLEAN, SetFullscreen(on) PROVE Goal
      <3>1. ~on /\ fullscreen /\ floating /\ home # NoWorkspace /\ UNCHANGED <<outputs, pointer, home>>
        BY <2>1, <2>7 DEF SetFullscreen, Floats, Flags
      <3>2. outputs # <<>>
        BY <3>1 DEF Showing
      <3>3. rect' = Centered(Active.usable, rect.w)
        BY <2>7, <3>1, <3>2 DEF SetFullscreen
      <3>4. rect.w \in Int /\ rect.w > 0
        BY <2>1, <3>1 DEF WindowOK, Rects
      <3>5. InReach(rect', Active.usable)
        BY <2>1, <3>2, <3>3, <3>4, ActiveArea, CenteredFacts
      <3>6. ~Floats
        BY <3>1 DEF Floats
      <3> QED BY <2>2, <3>1, <3>5, <3>6
    <2>8. ASSUME ToggleFloating PROVE Goal
      <3> DEFINE c == Centered(Active.usable, DefaultSize(Active.usable))
      <3>1. ~floating /\ outputs # <<>> /\ UNCHANGED <<outputs, pointer>>
        BY <2>8 DEF ToggleFloating, Focused, Floats
      <3>2. Refresh(c, c.x)
        BY <2>8, <3>1 DEF ToggleFloating
      <3>3. rect' = c
        BY <3>2, RefreshFacts
      <3>4. InReach(c, Active.usable)
        BY <2>1, <3>1, ActiveArea, DefaultFacts, CenteredFacts
      <3> QED BY <2>2, <3>1, <3>3, <3>4 DEF Floats
    <2>9. ASSUME NEW dir, Nudge(dir) PROVE Goal
      <3>1. Floats /\ UNCHANGED <<outputs, home>>
        BY <2>9 DEF Nudge, Focused, Floats
      <3>2. Showing # {}
        BY <3>1 DEF Showing
      <3>3. InReach(rect', ClampedOn.usable)
        BY <2>1, <2>9, <3>2, NudgeOK
      <3> QED BY <2>3, <3>1, <3>3
    <2>10. ASSUME NEW p \in Points, Motion(p) PROVE Goal
      <3>1. Floats /\ UNCHANGED <<outputs, home>>
        BY <2>10 DEF Motion, Floats
      <3>2. Showing # {} /\ home # NoWorkspace
        BY <3>1 DEF Showing, Floats
      <3>3. grab = "move" /\ InReach(rect', ClampedOn.usable)
        BY <2>1, <2>10, <3>1, <3>2, MotionOK
      <3> QED BY <2>3, <3>1, <3>3
    <2>11. ASSUME NEW target, SwitchWorkspace(target) \/ MoveToWorkspace(target) PROVE FALSE
      <3>1. Floats /\ Refresh(rect, node)
        <4>1. CASE SwitchWorkspace(target)
          BY <4>1 DEF SwitchWorkspace, Floats
        <4>2. CASE MoveToWorkspace(target)
          BY <4>2 DEF MoveToWorkspace, Focused, Floats
        <4> QED BY <2>11, <4>1, <4>2
      <3> QED BY <2>4, <3>1
    <2>12. ASSUME NEW id, NEW width, NewOutput(id, width) PROVE FALSE
      BY <2>4, <2>12 DEF NewOutput, Floats
    <2>13. ASSUME NEW o, OutputDestroy(o) PROVE FALSE
      BY <2>4, <2>13 DEF OutputDestroy, Floats
    <2>14. ASSUME NEW o, NEW width, ArrangeLayers(o, width) PROVE FALSE
      BY <2>4, <2>14 DEF ArrangeLayers, Floats
    <2>15. ~SessionActive
      <3> SUFFICES ASSUME SessionActive PROVE FALSE
        OBVIOUS
      <3>1. Floats /\ Refresh(rect, rect.x)
        BY DEF SessionActive, Floats
      <3> QED BY <3>1, RefreshFacts
    <2>16. ASSUME UNCHANGED <<outputs, windowVars>> PROVE FALSE
      <3>1. UNCHANGED <<home, floating, fullscreen, rect>>
        BY <2>16 DEF windowVars
      <3> QED BY <3>1 DEF Floats
    <2> HIDE DEF Goal
    <2>17. Goal
      <3>1. [Next]_vars
        BY <1>1
      <3>2. CASE \E target \in Workspaces : SwitchWorkspace(target) \/ MoveToWorkspace(target)
        BY <2>11, <3>2
      <3>3. CASE \E o \in DOMAIN outputs :
                    OutputDestroy(o) \/ \E width \in Bars[outputs[o].id] : ArrangeLayers(o, width)
        BY <2>13, <2>14, <3>3
      <3>4. CASE \E id \in OutputIds : \E width \in Bars[id] : NewOutput(id, width)
        BY <2>12, <3>4
      <3> QED BY Steps, <2>5, <2>6, <2>7, <2>8, <2>9, <2>10, <2>15, <2>16, <3>1, <3>2, <3>3, <3>4
    <2> QED BY <2>17 DEF Goal
  <1> QED
    BY <1>1, SoundInvariance, PTL DEF Spec, MovedIntoReach
=============================================================================
