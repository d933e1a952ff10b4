----------------------------- MODULE InputEvents -----------------------------
(***************************************************************************)
(* The keyboard and the pointer's buttons on their way to the client       *)
(* (shim/input.c, with handle_keybinding and handle_grab_button): a press  *)
(* the compositor acts on is kept from the client, every key's release is  *)
(* passed on, the release that ends a drag is not.  The file is written    *)
(* first, line by line, and is read when the compositor starts.            *)
(***************************************************************************)
EXTENDS Config

CONSTANTS
    Lines,          \* the lines tried in a file
    PlainKeys,      \* the keys of the keyboard besides the modifiers
    FunctionKeys,   \* F1 to F12 among them
    Held,           \* the modifier keys of the keyboard
    Buttons,        \* the buttons of the pointer
    MaxLines,       \* bound: lines in a file
    MaxTyped,       \* bound: lines in the files tried at the keyboard
    MaxDown         \* bound: keys held down at a time

VARIABLES
    text,           \* the configuration file
    oxideMod,       \* OXIDE_MOD=alt is in the environment
    running,
    config,         \* Server.config
    focus,          \* some client has the keyboard focus
    down,           \* the keys that are down
    keys,           \* those the focused client takes to be down
    pressed,        \* the buttons that are down
    buttons,        \* those the client under the cursor takes to be down
    grab,           \* Server.grab is not None
    midDrag         \* history: those it has taken to be down while a window was dragged

fileVars == <<text, oxideMod, running, config>>
keyVars == <<focus, down, keys>>
buttonVars == <<pressed, buttons, grab, midDrag>>
vars == <<fileVars, keyVars, buttonVars>>

ASSUME InputAssumption ==
    /\ Held \subseteq Modifiers
    /\ FunctionKeys \subseteq PlainKeys
    /\ PlainKeys \cap Modifiers = {}

Init ==
    /\ text = <<>> /\ oxideMod \in BOOLEAN
    /\ running = FALSE /\ config = Default
    /\ focus = FALSE /\ down = {} /\ keys = {}
    /\ pressed = {} /\ buttons = {} /\ grab = FALSE /\ midDrag = {}

-----------------------------------------------------------------------------
Write(line) ==
    /\ ~running /\ Len(text) < MaxLines
    /\ text' = Append(text, line)
    /\ UNCHANGED <<oxideMod, running, config, keyVars, buttonVars>>

(* main: the file is read once.                                            *)
Start ==
    /\ ~running /\ running' = TRUE
    /\ config' = Load(text, oxideMod)
    /\ UNCHANGED <<text, oxideMod, keyVars, buttonVars>>

(* Action::Quit, or the end of the session.                                *)
Stop ==
    /\ running /\ running' = FALSE
    /\ config' = Default
    /\ focus' = FALSE /\ down' = {} /\ keys' = {}
    /\ pressed' = {} /\ buttons' = {} /\ grab' = FALSE /\ midDrag' = {}
    /\ UNCHANGED <<text, oxideMod>>

Typing == running /\ Len(text) <= MaxTyped

-----------------------------------------------------------------------------
(* What the focused client is told when the focus goes to another one: its *)
(* enter lists the keys that are down, consumed or not; or to none.        *)
FocusMoves ==
    \/ focus' = TRUE /\ keys' = down'
    \/ focus' = FALSE /\ keys' = {}

FocusStays == UNCHANGED <<focus, keys>>

(* The focus also moves without a key: a window maps, closes, is clicked.  *)
FocusMoved ==
    /\ Typing
    /\ UNCHANGED <<down, fileVars, buttonVars>>
    /\ FocusMoves

Mods == down \cap Modifiers

(* handle_keybinding's answer: the VT chord first, then the bind table.    *)
VtChord(key) == Mods = {"CTRL", "ALT"} /\ key \in FunctionKeys
Bound(key) == ActionOf(config.binds, [mods |-> Mods, sym |-> key]) # Invalid

(* handle_key, of a press; the action a chord is bound to may move the     *)
(* focus, the VT switch does not.                                          *)
KeyPress(key) ==
    /\ Typing /\ key \notin down /\ Cardinality(down) < MaxDown
    /\ down' = down \cup {key}
    /\ UNCHANGED <<fileVars, buttonVars>>
    /\ \/ VtChord(key) /\ FocusStays
       \/ ~VtChord(key) /\ Bound(key) /\ (FocusStays \/ FocusMoves)
       \/ /\ ~VtChord(key) /\ ~Bound(key)
          /\ keys' = (IF focus THEN keys \cup {key} ELSE keys) /\ UNCHANGED focus

(* Broken: the release of a chord's key is consumed as its press was.      *)
ReleaseOfChordHidden(key) ==
    /\ key \in down
    /\ down' = down \ {key}
    /\ keys' = IF Bound(key) THEN keys ELSE keys \ {key}
    /\ UNCHANGED <<focus, fileVars, buttonVars>>

(* handle_key, of a release: Rust is not asked.                            *)
KeyRelease(key) ==
    /\ key \in down
    /\ down' = down \ {key}
    /\ keys' = keys \ {key}
    /\ UNCHANGED <<focus, fileVars, buttonVars>>

(* handle_keyboard_destroy, on a VT switch or when it is unplugged: wlroots*)
(* has released the keys before.                                           *)
KeyboardDestroy ==
    /\ down # {}
    /\ down' = {} /\ keys' = {}
    /\ UNCHANGED <<focus, fileVars, buttonVars>>

-----------------------------------------------------------------------------
(* handle_cursor_button, of a press, somewhere with a window or without:   *)
(* the focus follows, and a floating window is grabbed by exactly the      *)
(* primary modifier, in the middle of another grab too.                    *)
ButtonPress(b) ==
    /\ Typing /\ b \notin pressed
    /\ pressed' = pressed \cup {b}
    /\ \/ Mods = config.modifier /\ b \in {"LEFT", "RIGHT"} /\ grab' = TRUE /\ UNCHANGED buttons
       \/ buttons' = buttons \cup {b} /\ UNCHANGED grab
    /\ midDrag' = IF grab' THEN midDrag \cup buttons' ELSE midDrag
    /\ UNCHANGED <<down, fileVars>>
    /\ FocusStays \/ (focus' = TRUE /\ keys' = down)

(* Broken: a release with the modifier held is consumed.                   *)
ReleaseByModifier(b) ==
    /\ b \in pressed
    /\ pressed' = pressed \ {b}
    /\ grab' = FALSE
    /\ buttons' = IF Mods = config.modifier THEN buttons ELSE buttons \ {b}
    /\ midDrag' = IF grab THEN midDrag ELSE midDrag \ {b}
    /\ UNCHANGED <<fileVars, keyVars>>

(* handle_cursor_button, of a release: whichever button it is, a grab ends *)
(* by it and the client does not see it.                                   *)
ButtonRelease(b) ==
    /\ b \in pressed
    /\ pressed' = pressed \ {b}
    /\ grab' = FALSE
    /\ buttons' = IF grab THEN buttons ELSE buttons \ {b}
    /\ midDrag' = IF grab THEN midDrag ELSE midDrag \ {b}
    /\ UNCHANGED <<fileVars, keyVars>>

(* remove_window, of the grabbed one.                                      *)
GrabDropped ==
    /\ grab /\ grab' = FALSE
    /\ UNCHANGED <<pressed, buttons, midDrag, fileVars, keyVars>>

Next ==
    \/ \E line \in Lines : Write(line)
    \/ Start \/ Stop
    \/ \E key \in Held \cup PlainKeys : KeyPress(key) \/ KeyRelease(key)
    \/ KeyboardDestroy \/ FocusMoved
    \/ \E b \in Buttons : ButtonPress(b) \/ ButtonRelease(b)
    \/ GrabDropped

Spec == Init /\ [][Next]_vars

-----------------------------------------------------------------------------
(* The lines of the file for which P holds, and the last of them.          *)
Where(P(_)) == {i \in DOMAIN text : P(text[i])}
LastOf(lines) == text[Max(lines)]

Binds(line) == line.key = "bind" /\ parse_bind(line, config.modifier) # Invalid
Named(line) == Chord(parse_bind(line, config.modifier))

(* A chord does what the last line that names it says, whatever MOD stands *)
(* for in the end, else what it does by default, else nothing: every other *)
(* default stays (docs/design.md, Configuration; src/config.rs).           *)
ChordMeansTheFile(chord, defaults) ==
    LET lines == Where(LAMBDA line : Binds(line) /\ Named(line) = chord)
    IN  ActionOf(config.binds, chord) =
            IF lines # {} THEN LastOf(lines).action
            ELSE ActionOf(defaults, chord)

ChordsMeanTheFile ==
    [][Start => \A defaults \in {default_binds(config'.modifier)} :
                \A chord \in {Chord(b) : b \in Range(defaults \o config'.binds)}
                            \cup {Named(text[i])' : i \in Where(Binds)'} :
                    ChordMeansTheFile(chord, defaults)']_vars

(* Every setting is what its last line that parses says, each monitor has  *)
(* one entry, each app one rule; lines that do not parse change nothing    *)
(* (docs/design.md, Configuration; src/config.rs, parse_scalars).          *)
SettingMeansTheFile(key) ==
    LET lines == Where(LAMBDA line : line.key = key /\ line.value # Invalid)
    IN  config[key] = IF lines = {} THEN Unset ELSE LastOf(lines).value

ModifierMeansTheFile ==
    LET lines == Where(LAMBDA line :
                    line.key = "modifier" /\ line.mods \subseteq Modifiers \cup {"MOD"})
    IN  config.modifier = IF oxideMod THEN {"ALT"}
                          ELSE IF lines = {} THEN {"LOGO"}
                          ELSE parse_mods(LastOf(lines).mods, {"LOGO"})

MonitorsMeanTheFile ==
    LET Parses(line) == line.key = "monitor" /\ line.value # Invalid
        named == {text[i].name : i \in Where(Parses)}
    IN  /\ Len(config.monitors) = Cardinality(named)
        /\ Range(config.monitors) =
                {[name |-> n, value |-> LastOf(Where(LAMBDA l : Parses(l) /\ l.name = n)).value] : n \in named}

RulesMeanTheFile ==
    /\ IsInjective(config.float_rules)
    /\ Range(config.float_rules) =
            {text[i].app : i \in Where(LAMBDA l : l.key = "float" /\ l.app # Invalid)}

SettingsMeanTheFile ==
    [][Start => /\ \A key \in Scalars : SettingMeansTheFile(key)'
                /\ ModifierMeansTheFile' /\ MonitorsMeanTheFile' /\ RulesMeanTheFile']_vars

(* No client takes a key to be down that is not, though the press of a     *)
(* chord is kept from one client and its release goes to another           *)
(* (shim/input.c, handle_key).                                             *)
NoStuckKey == keys \subseteq down

(* No client takes a button to be down that is not, whatever buttons are   *)
(* pressed, crossed and released, and drags begun, ended and dropped in    *)
(* between; but for one it knew to be down while a window was dragged,     *)
(* until the next time that is pressed and released (shim/input.c,         *)
(* handle_cursor_button).                                                  *)
NoStuckButton == buttons \ pressed \subseteq midDrag
=============================================================================
