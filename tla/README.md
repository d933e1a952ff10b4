# A TLA+ model of 0xide

0xide is a tiling Wayland compositor: Rust policy (`src/`) over wlroots, with a
thin C shim (`shim/`) in between. This directory holds a TLA+ specification of
it, the TLC runs that check it on small instances, and TLAPS proofs that hold
for every size. Paths below are relative to the repository's root.

## The system

0xide is single threaded. `main` registers callbacks and blocks in
`wl_display_run`; from then on the wlroots event loop calls one handler at a
time, to its end. Nothing is concurrent inside a handler. What makes the code
hard is the order of the events: clients open, change, unmap and close windows
when they like, the user presses keys and buttons, monitors come and go, and all
of it edits the same lists, indices, trees and flags, several of which say the
same thing twice and must agree.

| Component | State | Operations | Correct when |
|---|---|---|---|
| Server state, tiling (`state.rs`, `tiling.rs`) | workspaces (window list, focused index, split tree), outputs | `refresh`, `tree_track`, `tree_untrack`, `workspace_of` | each window on one list; tree and tiled windows agree; visible iff on a shown workspace |
| Toplevels (`toplevel.rs`, `shim/xdg_shell.c`) | fullscreen and floating flags, scene layer, tiled states | new, commit, map, unmap, destroy, request fullscreen | no dangling pointer; layer and tiled states follow the flags |
| Keybindings (`keybindings.rs`) | none of its own | focus, move, resize, fullscreen, float, workspace binds | index never out of bounds; keyboard and index in step; no window lost |
| Outputs (`output.rs`, `shim/output.c`) | outputs, each with a workspace, a box, a repaint counter | new output, output destroyed, session active, frame | no workspace on two outputs; all repainted after a VT switch |
| Pointer (`input.rs`, `shim/input.c`) | the grab and its window | click to focus, grab begin and end, drag | grab's window is alive; clients see paired buttons |
| Split tree (`layout.rs`) | a tree of splits with ratios | insert, remove, resize, render | tiles never overlap; other windows' ratios survive |
| Floating placement (`toplevel.rs`, `input.rs`) | a rect per window and its node's position | place, clamp, nudge, drag | what is moved ends up in reach; drawn where its rect is |
| Layer shell (`layer_shell.rs`, `shim/layer_shell.c`) | layer surfaces, their outputs, usable areas | new, commit, map, unmap, destroy, arrange | each surface configured once an output exists; usable areas are what the bars leave |
| Spatial navigation (`tiling.rs`) | none | `spatial_neighbor` | no window cut off from those beside it; borders before corners |
| Configuration (`config.rs`) | bind table, rules | two-pass parse | user binds override exactly their chord |
| Decorations (`decoration.rs`, `shim/decoration.c`) | pending decorations | new decoration, first commit, destroy | mode set once, never too early |
| Key and button forwarding (`shim/input.c`, `keybindings.rs`) | keys and buttons down | key, button, modifiers | no key or button sticks for a client |
| Glue (`main.rs`, `ffi.rs`, `shim/core.c`, `build.rs`) | listeners | registration | |

Handlers call each other directly (`handle_map` calls `refresh`, `focus_index`
and `set_fullscreen`) and share `Server`; the shim calls Rust through the
registered callbacks, and on a click changes the seat's focus *before* it tells
Rust. `PROJECT.json` lists, under `hazards`, what can go wrong here that a test
would hardly reach, each at its line, with the properties that would catch it.

## Modules

| Module | What it is |
|---|---|
| `TreeInterface` | the split tree as its users see it: constants, and the laws the users rely on |
| `ServerState` | the shared state (`Server`, `Workspace`, `Output`, `Toplevel`) and the helpers of `tiling.rs` and `focus_index` |
| `ToplevelHandlers` | `toplevel.rs`, one action per handler, `SetFullscreen` and `SetFloating` as the operators the keybindings share |
| `Keybindings` | one action per bind that changes the server |
| `Outputs` | monitors plugged and unplugged, the VT coming back |
| `Pointer` | click-to-focus, the grab's begin and end, the cursor's output |
| `Compositor` | the five composed: `Next`, `Spec`, the properties, and the refinement of `Desktop` |
| `Desktop` | the abstract specification: where windows are and what monitors show |
| `Placement` | the geometry of a floating window against monitors that come, go and change their areas |
| `LayerShell` | bars and wallpapers: the surfaces, the outputs they wait for or point to, the areas they reserve |
| `Screens` | `LayerShell` under outputs that come and go, with the frame loop and the VT switch; the liveness |
| `Layout` | `layout.rs`: the split tree's pure operations, with the source's names, as recursive functions on trees |
| `SplitTree` | a tree under any sequence of these operations, and what holds of it |
| `Navigation` | `spatial_neighbor` over the rects of any such tree |
| `Config` | the two passes over the configuration file, the default binds, the override by chord |
| `InputEvents` | a file written, read and used: which keys and buttons the clients see |
| `ListLemmas`, `CompositorProofs`, `WindowProofs`, `DesktopProofs` | proofs about `Compositor` |
| `LayoutProofs` | proofs about `Layout`, `SplitTree` and `Navigation`, and that the real tree obeys `TreeLaws` |
| `PlacementProofs`, `ScreensProofs`, `InputProofs` | proofs about `Placement`, about `Screens` and `LayerShell`, about `InputEvents` and `Config` |
| `MCCompositor`, `MCRealTrees`, `MCSplitTree`, `MCPlacement`, `MCFloatTrip`, `MCScreens`, `MCInputEvents` | instances for TLC |

`Compositor` has who is where; `Placement`, `Screens` and `InputEvents` each have
what it leaves out and speaks of only one or two objects at a time: a floating
window's rect, an output's pixels and bars, a client's keys. They overlap where
the code does: `Outputs`, `Placement` and `Screens` each have an `OutputDestroy`,
their part of the same handler.

### How state and actions correspond to the code

A handler is one action, with every call it makes: `Map` is `handle_map` with
its `push`, `tree_track`, `refresh`, `focus_index` and the `set_fullscreen` at
the end. Early returns are guards (or, where the handler changes something
first, actions of their own: `MapWithoutOutput`).

| Variable | Code |
|---|---|
| `windows`, `focused`, `tree` | `Workspace`, per workspace; `focused` counts from 0 as in the code |
| `outputs`, `cursor` | `Server.outputs` in order; `oxide_output_at_cursor` |
| `life` | wlroots' and Rust's view of a toplevel: absent, created (initial commit pending), initialized (configured), mapped |
| `fullscreen`, `floating` | the flags of `Toplevel`, as sets |
| `requested` | wlroots' `toplevel->requested.fullscreen` |
| `layer`, `enabled` | the parent tree of the window's scene node, and whether the node is on |
| `tiledStates` | the windows told "tiled on all edges" last |
| `grab`, `grabTl` | `Server.grab`, `Server.grab_tl` |
| `seat` | the toplevel with the seat's keyboard focus |
| `rect`, `node` (`Placement`) | `Toplevel.{x, w}`; the position of the scene node |
| `outputs[o].box`, `.usable` (`Placement`) | the same fields of `Output`: read when the output comes; what the bars leave |
| `offset`, `held` (`Placement`) | the grab's origin minus the pointer's; the buttons down |
| `layers`, `target`, `place`, `reserved` (`Screens`) | `Server.layers`; a surface's `output` pointer; its position in the scene; an output's box less its usable area |
| `layer`, `zone` (`Screens`) | a surface's layer as the shim reads it (`pending.layer`); its committed exclusive zone |
| `repaint_frames`, `scheduled`, `stale`, `failures` (`Screens`) | the counter; wlroots' frame flag; outputs that do not show the scene; the forced repaints whose commits failed |
| `keys`, `buttons` (`InputEvents`) | what the focused client takes to be down, by the events it was sent |
| `text`, `config` (`InputEvents`) | the file's lines; `Server.config` |

What is abstracted, and how:

- *Rects in `Compositor`.* `ServerState` has no geometry. `MoveFocus` and
  `MoveWindow` may pick any other window of the workspace where `spatial_neighbor`
  picks one by its rect, and a click may hit any mapped window whose node is
  enabled. Both allow more than the code does, so an invariant that holds here
  holds there. Which one it picks is the subject of `Navigation`.
- *Rects in `Placement`.* One axis: every line of the code treats x and y alike
  and apart. One window: floating windows do not look at each other. A tiled
  window is alone on its workspace and has all the usable area (the gap is 0;
  `Layout` has the tiles). The output layout is wlroots': configured monitors where
  their line says, the others to their right.
- *The tree.* `ServerState` knows it through the constants of `TreeInterface`, which
  obey `TreeLaws` (a leaf more, a leaf less). `MCCompositor` gives a leaf counter,
  `MCRealTrees` the real operators of `Layout`, and `LayoutProofs` proves that those
  obey the laws.
- *Recursion.* What `layout.rs` writes as recursive functions are functions on
  `Nodes` here, the trees of at most `MaxLeaves` levels, which has every tree of at
  most `MaxLeaves` leaves.
- *The cursor* in `Compositor`. Where it ends up when the output layout changes is
  wlroots' business: on any output, or none.
- *Ratios* are integers out of `RatioUnits`, and a resize moves one by 1: with 20 of
  them that is the code's `RESIZE_STEP`, with bounds 2 and 18. The run has 8, with
  bounds 1 and 7 and the default in the middle, as 0.5 is. The code's `f32` may
  round a divider to the next pixel.
- *Bars* reserve a strip along one edge. Anchors and margins are computed by
  wlroots' scene helper; what the code decides is which surface is on which
  output, when it is configured, and in which order they are placed.
- *A line of the file* is its key and its parts; a part that does not parse is
  `Invalid`. Three settings stand for those with one value.
- *Clients* in `InputEvents` are told by wlroots which keys are down when they get
  the focus, and take a key to be up when they lose it. The focus moves whenever
  it likes.
- *Unmapping.* Whether wlroots forgets the fullscreen request and the tiled
  states of an unmapped surface is left open: both ways.
- *Early configures.* After a configure too early, which wlroots asserts against,
  the model goes on as a build without assertions does.
- A keyboard is attached in `Compositor`. (Without one a click moves no seat
  focus.) In `InputEvents` it comes and goes.
- Spawning, closing, quitting and switching VTs change no server state when the
  key is pressed; what follows them (a new window, an unmap, the session coming
  back) are actions anyway.

## What is checked

`Compositor`, `Placement`, `SplitTree` and `InputEvents` are specified by `Init /\
[][Next]_vars`: their handlers are driven by clients and users who owe nothing,
and what they promise is safety. `Screens` has fairness, `WF_vars(Frame(id))` for
each output: wlroots delivers a frame to an output that has one scheduled while
the VT is ours and no commit in between has taken the frame away. That is all the
code waits for; that a frame *is* scheduled, again and again until the repaints
are done, and that they are not done too early, is the code's own doing and an
invariant here (`PictureIsComing`).
Nothing is assumed of monitors, clients or the user, nor that commits succeed:
any forced repaint may fail. When all of them fail that an output was owed since
it was armed, nothing in the code tries again before the next resume; `ComesBack`
and `StaleStillOwes` name that case (`GivenUp`) and say that nothing else leaves a
screen black.

| Run | Instance | Question | Distinct states |
|---|---|---|---|
| `windows` | 2 windows (either a dialog or not), 1 monitor, 2 workspaces | do lists, trees, grab, layers and tiled states agree under every order of flags, requests, unmaps and destroys? | 419k |
| `monitors` | 2 windows, 2 monitors, 3 workspaces, no fullscreen | is what is on screen right, no workspace twice, no window lost? does it implement `Desktop`? | 80k |
| `focus` | 3 windows, 1 monitor, 2 workspaces, no fullscreen, real trees | index in bounds, no duplicates, keyboard in step; does the real tree obey `TreeLaws` and stay in step? | 201k |
| `split_tree` | 4 leaves, seven ratios, two roomy boxes and a tight one, two gaps; boxes from one pixel for the spiral | does each operation change exactly what it should? do tiles keep apart and inside? does the tree render to the spiral? does a direction key lead into every window, back again, and to borders before corners? | 8k |
| `placement` | 1 window, 3 monitors, two of them mirrored, 2 workspaces, a bar that comes and goes | where is a floating window after drags, nudges, monitors, VT switches and both round trips? | 573k |
| `screens` | 2 layer surfaces on layers 1 and 2, one that changes its layer, one its zone; 2 monitors; 2 repaints, any of which may fail | is every bar configured and every area current? does every output come back? | 549k |
| `keys` | 16 lines, files of up to 3; 5 keys, 3 buttons | is a chord what the file says? does any key or button stick? | 333k |

Why these bounds are enough for their questions:

- Two windows show every conflict between a window and another (position in the
  tree, who gets the focus); three are needed for a focused index in the middle
  of a list and for a neighbour on each side, so `focus` has three. A single
  monitor that comes and goes shows everything about having none; two are needed
  to swap.
- Three workspaces for two monitors leave one hidden in every state, as nine do.
- `monitors` and `focus` stay out of fullscreen (`NoFullscreen`), which neither
  moves windows nor the focus; `windows` has it.
- Windows are symmetric because all may be dialogs, or none; so are the two mirrored
  monitors of `placement`, which have the same size and position. The only properties
  checked under symmetry are invariants and `[][A]_v` formulas.
- Four leaves have a divider with another on the same axis two levels up and one
  across it in between, what `tree_resize`, `tree_insert_at` and `tree_remove`
  have to tell apart, on either side; and a window between two others on either
  axis, what `spatial_neighbor` has to. Two of the boxes have
  room for four windows at any ratio, the third for some trees and not for others:
  `HasRoom` says which.
- `focus` has real trees of every shape, at the default ratio: what it asks of a
  tree is its leaf count.
- `placement` counts in units of 50 pixels, the nudge. Its monitors are 4, 2 and 2
  long, so that a window may fit in one and not in the others, and the short ones have
  a `monitor =` line, so that the long one moves when they come or go. With one
  monitor more than there are workspaces some workspace is on two: `clamp_floating`
  then goes by the first of them, `refresh` leaves the window on the last, and
  `switch_workspace` swaps with the first. `MaxSize` and
  `MaxDrift` stop drags that would otherwise go on for ever, past the edge of all
  monitors. The pointer has two places: with an offset for each place it was
  pressed at, that is a drag there and one back.
- `screens` has two surfaces for the order of placing, on one layer and across two,
  and two outputs for the wrong one; a third of neither meets a case of its own.
  Each bar has what the other has not, a layer or a zone to change to. Monitors come
  back at the address another had. `REPAINT_FRAMES` is 2 there, the least that has a
  first repaint and a last (the code's 3 makes a million states more and takes TLC
  too long; the proofs are for any number).
- `keys` has files in which chords meet in every way: by name and through `MOD`,
  before and after the modifier's line, on a default and not, and lines that do
  not parse. Keys are pressed with files of at most `MaxTyped` lines: what binds
  there are no longer depends on how they came about. Three keys down make the
  VT chord; two buttons begin drags, of the third the drag knows nothing.

The properties, by what they guard:

- *No dangling pointers, no panics:* `TrackedIsMapped`, `EachWindowOnce`,
  `GrabTargetTracked`, `FocusInRange`.
- *Bookkeeping in step:* `TreeMatchesTiled`, `VisibleIffShown`,
  `LayerFollowsFloating`, `TiledIsBinding`, `ShownOnce`.
- *Steps:* `NeverLosesWindows` (only a client's unmap takes a window off the
  workspaces), `FocusMovesInStep` (the keyboard only moves to the focused window
  of a workspace), `ClosingHandsFocusOn`.
- *Refinement:* `ImplementsDesktop`. `PlaceOf` and `ShowsOf` map the lists and
  outputs to where a window is and what a monitor shows; each handler is then a
  step of `Desktop` or changes nothing a user sees.
- *The tree:* `LeavesCounted`, `RemoveUndoesInsert`, `OtherDividersKept`,
  `ResizeMovesOneDivider`, `WindowsNeverOverlap`, `AppendsAreTheSpiral`.
- *The direction keys:* `NoWindowCutOff` (into every window a key leads, from one
  right beside it), `ThereAndBack`, `BordersComeFirst`.
- *Floating windows:* `DrawnAtRect` (the scene node is where the rect says, so
  keys and drags start from what the user sees), `MovedIntoReach` (whatever moves
  a window on screen leaves it in an area that shows it), `FloatsKeepTheirRect`
  (monitors, bars and workspace switches move none), `FillsItsArea` (a window that
  stops floating does not stay where it was dragged), `GrabNeedsButton`.
- *Bars:* `CommitsAnswered` (no client waits for a configure that an output could
  give), `UsableIsCurrent`, `BarsStandApart`.
- *Pixels:* `PictureIsComing` (who owes a repaint has a frame scheduled, and who
  does not show the scene owes one, unless every one has failed) and the liveness property
  `ComesBack`, which rests on it.
- *Input:* `NoStuckKey`; `NoStuckButton` (no button sticks but one the client knew to
  be down during a drag, which the history variable `midDrag` records);
  `ChordsMeanTheFile` and
  `SettingsMeanTheFile` say what a file means without going through it line by
  line: its last line that parses wins, else the default.

Operators whose comment begins with "Broken" are not part of the model. Each is
a plausible bug in the definition it precedes; with it in that definition's
place TLC finds the property named in `PROJECT.json` violated, so the property
does say something about that code.

### What the code does not hold

Five runs look for a violation of what a comment or a document says, and find it:

| Run | The repository says | The code |
|---|---|---|
| `fullscreen_on_top` | a fullscreen window is under `tree_fullscreen` (`state.rs:136`) | a floating one that was fullscreen before it mapped is under `tree_floating`, below the bars |
| `mapped_is_tracked` | no window is lost (`README.md:25`) | one that maps while no monitor is there never gets a workspace |
| `no_early_configure` | no configure before the initial commit (`shim/decoration.c:16`) | a fullscreen request is answered at once |
| `float_rect_restored` | the remembered rect of a floating window is restored when fullscreen ends (`toplevel.rs:80`) | `refresh` overwrites it while it is fullscreen (`tiling.rs:50`): the window comes back as large as the area |
| `neighbour_is_beside` | the direction keys go to the adjacent window (`tiling.rs:110`, `config.rs:51`) | a taller window further away wins over those in between |

More disagreements need no run to see, and the properties above leave them out:

- A window closing before the focused one in a list shifts `Workspace.focused`
  to another window (`toplevel.rs:341`). Where no refocus follows, index and seat
  differ; on the active workspace the keyboard follows the shifted index, so that a
  window closing in the background moves the focus. `FocusMovesInStep` speaks of
  steps that move the keyboard.
- A window whose parent is set only after its initial commit floats and keeps its
  tiled states (`toplevel.rs:88`, `:275`). `TiledIsBinding` is the other way round.
- The tenth monitor shows workspace 1 again (`output.rs:43`; `docs/design.md:44`
  says that no workspace is on two). `ShownOnce` is about nine.
- A resize stopped by a ratio bound is not undone by the opposite one
  (`config.rs:57` says always).
- A window tiled or made fullscreen in mid-drag stays grabbed, though the grab is
  for floating windows (`state.rs:64`), and follows the pointer out of its tile.
- A drag that begins while another button is down in a client swallows that button's
  release when it comes first (`input.rs:77`), and the button sticks in the client
  until it is pressed and released again; `input.rs:56` says "any release ends an
  active grab — and is swallowed with it, since the client never saw the press".
  `NoStuckButton` allows the buttons a client knew to be down during a drag.
- An output all of whose forced repaints fail stays black until the next resume or
  replug: a repaint is counted whether its commit succeeds or not (`output.rs:201`).
- A layer surface that changes its layer is placed in the new layer's turn by
  `arrange_layers`, but its scene node stays in the tree of the layer it was created
  on (`layer_shell.rs:36`).
- An output's box is read once, when it comes (`output.rs:40`); the layout may move
  the output later. `FillsItsArea` speaks of the box the code has.
- A layer surface whose output has gone keeps its pointer and is attached to no new
  one (`output.rs:92`), unless one comes at the same address.
- `arrange_layers` configures every surface on the output, also before its initial
  commit and just after its unmap (`tiling.rs:190`).
- A window whose fullscreen ends while no monitor is there, after a VT switch, has
  its node at the origin (`toplevel.rs:136`).
- The doc of `split_kv` says that it returns a lowercased key (`config.rs:289`); it
  returns it as written. A line here has its key in lower case.
- In areas without room for their windows, where a split's box is narrower than
  the gap, the minimum of one pixel pushes tiles out of it and over their
  neighbours, as soon as there are five windows with a gap of 50 on 640x400 and one
  split at its bound. `WindowsNeverOverlap` is about trees whose splits have two
  pixels each to share out, one for each side; a resize shows in the rects, as
  `ResizeMovesOneDivider` says, where a step is a pixel or more.
- Up to five windows the direction keys reach every window from every other. From
  six on they need not: where a column of windows is cut in rows, two windows in the
  middle row may lead to each other and be left, and be the neighbour of no third.
  On 1000x1000 without a gap the windows `(0, 0, 500, 250)`, `(500, 0, 500, 250)`,
  `(0, 250, 1000, 125)`, `(0, 375, 500, 125)`, `(500, 375, 500, 125)` and `(0, 500,
  1000, 500)` are such a tree, all ratios 0.5: the full rows above and below the
  two halves share more border with each other than with either half, and that
  counts before distance. No document says otherwise; `NoWindowCutOff` says what
  holds for any number.

## What is proved

Every theorem holds for any value of the constants: any finite set of windows, any
number of monitors, workspaces, bars, keys, lines and repaints, any tree, any sizes.

| Theorem | Property | Module |
|---|---|---|
| `TypeCorrect` | `TypeOK` | `CompositorProofs` |
| `FocusAlwaysInRange` | `FocusInRange` | |
| `WindowsListedOnce` | `EachWindowOnce` | |
| `ListedAreMapped` | `TrackedIsMapped` | |
| `GrabIsAlive` | `GrabTargetTracked` | |
| `TreeInStep` | `TreeMatchesTiled` | |
| `ShownAreVisible` | `VisibleIffShown` | |
| `NoWindowIsLost` | `NeverLosesWindows` | `WindowProofs` |
| `TiledStatesBind` | `TiledIsBinding` | |
| `LayersFollow` | `LayerFollowsFloating` | |
| `KeyboardAndIndexAgree` | `FocusMovesInStep` | |
| `FocusIsHandedOn` | `ClosingHandsFocusOn` | |
| `NoWorkspaceTwice` | `ShownOnce` | `DesktopProofs` |
| `CompositorIsADesktop` | `ImplementsDesktop` | |
| `DrawnWhereItIs` | `DrawnAtRect` | `PlacementProofs` |
| `FloatsStay` | `FloatsKeepTheirRect` | |
| `AreasAreFilled` | `FillsItsArea` | |
| `GrabsEnd` | `GrabNeedsButton` | |
| `PlacementTypes` | `TypeOK` | |
| `FloatsStayInReach` | `MovedIntoReach` | |
| `NoClientHangs` | `CommitsAnswered` | `ScreensProofs` |
| `UsableAreaIsCurrent` | `UsableIsCurrent` | |
| `BarsStandSideBySide` | `BarsStandApart` | |
| `PicturesCome` | `PictureIsComing` | |
| `ScreensTypes` | `TypeOK` | |
| `NoKeySticks` | `NoStuckKey` | `InputProofs` |
| `NoButtonSticks` | `NoStuckButton` | |
| `SettingsFollowTheFile` | `SettingsMeanTheFile` | |
| `ChordsFollowTheFile` | `ChordsMeanTheFile` | |
| `RealTreesObeyTheLaws` | (`TreeLaws` for the real tree) | `LayoutProofs` |
| `TreeInvariance` | (the tree's type) | |
| `EveryLeafIsCounted` | `LeavesCounted` | |
| `RemovingUndoesInserting` | `RemoveUndoesInsert` | |
| `OtherDividersStay` | `OtherDividersKept` | |
| `ResizesMoveOneDivider` | `ResizeMovesOneDivider` | |
| `WindowsStayApart` | `WindowsNeverOverlap` | |
| `AppendsGiveTheSpiral` | `AppendsAreTheSpiral` | |
| `EveryWindowIsEntered` | `NoWindowCutOff` | |
| `KeysGoThereAndBack` | `ThereAndBack` | |
| `BordersDecide` | `BordersComeFirst` | |

*The compositor's invariant.* None of its state invariants but the types is
inductive alone. That the tree has a leaf per tiled window after a removal needs
the window to be listed once (or a second copy would still be tiled); that a window
is listed once after `handle_map` needs it not to be listed before, which holds
because listed windows are mapped and this one is not; that the index stays in
bounds needs the list to lose one window and no more; that `focus_index` is called
with a workspace that exists needs the types; and `TreeInsertAt` and `TreeRemove`
promise something only at positions of the tree, which the leaf counts give. So
`IInv` is the conjunction

    TypeOK /\ InRange(focused, windows) /\ ListedOnce(windows)
    /\ TrackedIsMapped /\ GrabTargetTracked /\ TreeMatchesTiled

and there is a lemma per handler that it preserves it (`InitInv`, `MapInv`, ...),
put together by `NextInv` and `Invariance`. Below these are lemmas about the
helpers (`FlipFacts`: untracking before a flag flips and tracking after keeps the
leaf count right; `RemoveWindowFacts`; `FocusIndexFacts`; `TrackFacts`,
`UntrackFacts`), and below those the list lemmas of `ListLemmas` (`push`,
`remove` and `swap` keep windows and their occurring once). `VisibleIffShown` is
proved on top of `IInv`: every handler that moves windows or outputs ends in
`refresh`, and the others move nothing (`RefreshShows`, `NextShows`).

*Steps of windows.* `WindowProofs` says handler by handler which windows are listed
afterwards (`TrackedSteps`) and which handlers touch the flags (`FlagSteps`).
`TiledIsBinding` needs to be strengthened to windows not listed yet: from its initial
commit on, a window that does not float has its tiled states (`TiledInv`).
`LayerFollowsFloating` needs the same of layers, for a window that is mapped later
than it was put in one (`LayerInv`). The two about the keyboard rest on what
`focus_index` and `remove_window` do with the seat (`FocusIndexSteers`,
`RemoveWindowSteers`).

*The refinement.* `DesktopProofs` shows each handler to be a step of `Desktop` under
the mapping, or to change nothing it speaks of (`MapOpens`, `LeaveCloses`,
`MoveToWorkspaceCarries`, `NewOutputPlugs`, `OutputDestroyUnplugs`, `SwitchShows`,
`NextRefines`). That a swap is a swap, and that what is on screen is what the
outputs show, needs each monitor connected once and each workspace shown once
(`Screens`). The latter holds only while there are as many workspaces as monitors:
`EnoughWorkspaces` is the hypothesis of both theorems, with the counting
argument in `SomeWorkspaceIsFree`. It also says that the value that stands for "no
place" is not a workspace. The instances of the runs satisfy it.

*Placement.* `GrabNeedsButton` is inductive. The other action properties are about
pairs of states: they follow from a case analysis of the steps (`Steps`) and from
what `refresh` does at the end of each (`RefreshFacts`). `MovedIntoReach` needs
`Sound`, which is the types and two things more: every usable area is its monitor less
a bar, so that it has a pixel, and a window on a workspace has a size. With these
`Centered` and `Clamped` do end in reach (`CenteredFacts`, `WithinFacts`). That a
monitor's position is a number is a fact about a sum over the monitors before it and
a maximum over those with a line (`BoxType`).

*Screens.* `LayerInv` has four parts: the lists name each surface and output once,
no surface waits for an output that is there, commits are answered, every
output's bars are as `arrange_layers` leaves them (`Neat`). The second is what makes a new output's arrival find all that wait; the
first is what makes the sum over the surfaces lose exactly one when one goes.
`Neat` says of one output what `UsableIsCurrent` and `BarsStandApart` say of all, and
`arrange_layers` makes it so from whatever it finds (`ArrangedIsNeat`: a bar stands where
the bars before it end, in the order they are gone through). Nothing needs to be known
of the places before, so a bar may change its layer or zone at any time: it changes
them with a commit, and the commit arranges. A layer asked for and not yet committed
leaves the places as they are, which `BarsStandApart` allows since it does not say in
which order bars stand. That a sum over a set does not depend
on the order it is taken in, grows by what is added, and is nowhere more than the
whole, are lemmas of `ListLemmas` (`SumExists`, `SumSame`, `SumGrows`, `SumOfMore`,
`SumOfFewer`). `StaleStillOwes` rests on `LeftOver`: of an output that does not show
the scene the repaints still owed and the commits that failed add up to
`REPAINT_FRAMES`, so that none is owed only when all have failed.

*Input.* That a client's keys are down needs nothing else: every way to move the
focus tells it the truth. For the buttons the
proof carries one fact more (`ButtonInv`): while a drag lasts, `midDrag` has every button
the client takes to be down. A release that is swallowed is then of a button in
`midDrag`, or of one the client does not know; any other reaches the client.

*Configuration.* The code goes through the file line by line, a fold in the model;
the properties name the last line that counts. A fold is taken apart into its
steps (`ScalarSteps`, `BindSteps`), and of a value that some lines set and the others
leave alone the last of those lines decides (`LastWins`). That gives the settings with
one value (`SettingOfLines`, `ModifierOfLines`) and a chord's action (`PutBind`: a bind
changes its own chord and no other; `BindsOfLines`). The lists of monitors and rules
need an invariant of their own along the file: one entry for each name so far, with
what the last line said of it (`Listed`), and no app twice (`RulesOfLines`).

*The real tree.* `Layout`'s functions are recursive over trees. That such a function
exists, and so obeys its equation, is proved from a recursion over the levels of trees
(`Recursion`, which rests on `UpwardRecursion`); what holds of all trees is proved by
the set of those it holds of, which has the leaf and every split of two members
(`TreeInduction`). On these rest

- the counts (`InsertLeaves`, `RemoveLeaves`, `ResizeLeaves`) and that an operation
  on a workspace's tree makes another (`InsertedTree`, `RemovedTree`): `TreeLaws`;
- the dividers. A split's are its first child's, its own, its second's, so an
  operation in a child is one in a part of a joined list (`IsJoin`, `OneMore`, `MovedOne`);
- the rects. A split's rects are those of its children in two boxes that keep the gap,
  lie in its own and add up to it (`ChildBoxes`, `RectsApart`), as long as both have a
  pixel, which `RoomIn` says at every level;
- the spiral. That a tree renders to the spiral (`Spirals`) and still does with one more
  window at its end (`Dwindles`) goes from n windows to n + 1, since tree and spiral
  hand the same box down;
- the direction keys. `Standing` is what they need of the rects: apart from each other
  and inside their box. Nothing fits between two windows side by side (`NothingBetween`), and what
  shares as much border is further away, so a neighbour along a whole border is
  preferred (`PartnerIsNeighbour`); there always is a best candidate (`Best`). Every
  window has one whose whole border it covers or is covered by: its sibling in the tree,
  or the window in the corner of its sibling (`Corners`, `EachIsFaced`).

The assumptions on constants, each named in the module that declares them:

- `ServerAssumption`: finitely many windows, at least one workspace, null values that
  are no windows or outputs;
- `TreeAssumption`: the tree operations obey `TreeLaws`. `RealTreesObeyTheLaws` proves
  that `Layout`'s do, so what is proved about the compositor is proved about it with
  0xide's own tree;
- `LayoutAssumption`: the default ratio is half, as 0.5 is, the bounds are on its two
  sides and leave both children a share; `SplitTreeAssumption`: boxes are rects, gaps
  natural numbers;
- `LayerAssumption`: finitely many surfaces, which ask for any of four layers and for
  zones that are not negative; `FrameAssumption`: at least one forced repaint;
- `PlacementAssumption`: sizes are positive, and a bar leaves of its monitor what gives
  a floating window a pixel at `float_size` percent;
- `ConfigAssumption`: a set of modifiers is not what stands for "does not parse";
  `InputAssumption`: modifiers are no plain keys.

TLC evaluates them on every run of their module, `TreeLaws` for the real tree in
`focus` (every tree of up to three leaves).

Only model-checked:

- `ComesBack`: liveness under fairness is for TLC alone. What the code has to do for it
  is `PictureIsComing`, which is proved;
- the five violations.

## Not modelled

- *Decorations* (`decoration.rs`, `shim/decoration.c`): the mode is set at once, or
  once on the initial commit. Nothing else reads or changes what is kept for it,
  and which of a decoration and its toplevel dies first is wlroots' code.
- *The glue* (`main.rs`, `ffi.rs`, `shim/core.c`, `build.rs`): listeners, bindings,
  start-up, build. No state beyond the objects above.
- *The text of values* in `config.rs`: colors, sizes, key names, commands. A value
  parses or does not; what matters of it is what a later line does to it.
- Scroll events, modifiers and the cursor's image, which are passed on and keep no
  state; anchors and margins of layer surfaces,
  negative exclusive zones (-1 asks to be laid out over the others' and reserves nothing,
  as 0 does) and their scene trees; the second axis of a floating
  window; floating windows among the candidates of `spatial_neighbor`.

## What could come next

Every invariant and every action property the runs check is a theorem. Popups and
subsurfaces have no policy in this code, so there is little left to model of it. Two
things would still say more: the second axis of `Placement` with the real tiles of
`Layout` in one model, and how far the direction keys reach from six windows on, which
`NoWindowCutOff` only bounds from below.
