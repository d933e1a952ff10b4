------------------------------- MODULE Desktop -------------------------------
(***************************************************************************)
(* What a user of 0xide counts on, with nothing of how it is done: every   *)
(* open window is on one workspace, every connected monitor shows one, and *)
(* no workspace is on two monitors (docs/design.md, "Workspaces and        *)
(* outputs").  There are at least as many workspaces as monitors.          *)
(***************************************************************************)
EXTENDS Integers

CONSTANTS Toplevels, OutputIds, Workspaces, Nowhere

VARIABLES
    place,  \* window -> its workspace, or Nowhere
    shows   \* monitor -> the workspace it shows, or Nowhere when unplugged

Places == Workspaces \cup {Nowhere}
OnScreen == {shows[o] : o \in OutputIds} \ {Nowhere}

DesktopInit ==
    /\ place = [tl \in Toplevels |-> Nowhere]
    /\ shows = [o \in OutputIds |-> Nowhere]

(* A new window opens where the user can see it.                           *)
Open(tl) ==
    /\ place[tl] = Nowhere
    /\ \E w \in OnScreen : place' = [place EXCEPT ![tl] = w]
    /\ UNCHANGED shows

Close(tl) ==
    /\ place[tl] # Nowhere
    /\ place' = [place EXCEPT ![tl] = Nowhere]
    /\ UNCHANGED shows

(* A window the user can see is carried to another workspace.              *)
Carry(tl, w) ==
    /\ place[tl] \in OnScreen
    /\ place' = [place EXCEPT ![tl] = w]
    /\ UNCHANGED shows

(* A monitor shows another workspace; a monitor that showed it swaps.      *)
Show(o, w) ==
    /\ shows[o] # Nowhere
    /\ shows' = [p \in OutputIds |-> IF p = o THEN w
                                     ELSE IF shows[p] = w THEN shows[o] ELSE shows[p]]
    /\ UNCHANGED place

(* A new monitor shows the lowest workspace not on screen.                 *)
Plug(o) ==
    /\ shows[o] = Nowhere
    /\ \E w \in Workspaces \ OnScreen :
        /\ \A v \in Workspaces \ OnScreen : w <= v
        /\ shows' = [shows EXCEPT ![o] = w]
    /\ UNCHANGED place

Unplug(o) ==
    /\ shows[o] # Nowhere
    /\ shows' = [shows EXCEPT ![o] = Nowhere]
    /\ UNCHANGED place

DesktopNext ==
    \/ \E tl \in Toplevels : Open(tl) \/ Close(tl) \/ \E w \in Workspaces : Carry(tl, w)
    \/ \E o \in OutputIds : Plug(o) \/ Unplug(o) \/ \E w \in Workspaces : Show(o, w)

DesktopSpec == DesktopInit /\ [][DesktopNext]_<<place, shows>>
=============================================================================
