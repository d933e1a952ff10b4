-------------------------------- MODULE Config --------------------------------
(***************************************************************************)
(* src/config.rs: what a configuration file, a sequence of lines, makes of *)
(* the settings and of the bind table.  A line is a record of its key and  *)
(* of the parts of its value; a part that does not parse is Invalid.       *)
(* A chord's modifiers are the set of their bits.                          *)
(***************************************************************************)
EXTENDS Integers, FiniteSetsExt, SequencesExt

CONSTANTS
    WorkspaceCount,
    Invalid,        \* a name or value the parser turns down (None)
    Unset           \* the built-in value of a setting

Modifiers == {"LOGO", "SHIFT", "CTRL", "ALT"}

(* None is no set of modifiers.                                            *)
ASSUME ConfigAssumption ==
    WorkspaceCount \in Nat /\ \A mods \in SUBSET Modifiers : mods # Invalid

\* The settings with one value, besides the modifier.
Scalars == {"gap", "background", "float_size"}

-----------------------------------------------------------------------------
(* parse_mods: MOD is the primary modifier, one bad token spoils the lot.  *)
parse_mods(tokens, primary) ==
    IF tokens \subseteq Modifiers \cup {"MOD"}
    THEN (tokens \ {"MOD"}) \cup (IF "MOD" \in tokens THEN primary ELSE {})
    ELSE Invalid

(* iter_mut().find: the first entry with e's key is replaced, or e comes   *)
(* last.                                                                   *)
Put(entries, e, Key(_)) ==
    LET at == {i \in DOMAIN entries : Key(entries[i]) = Key(e)}
    IN  IF at = {} THEN Append(entries, e) ELSE [entries EXCEPT ![Min(at)] = e]

Name(monitor) == monitor.name
Chord(bind) == [mods |-> bind.mods, sym |-> bind.sym]

(* Broken: a monitor that is named again is listed again.                  *)
ListAgain(monitors, line) == Append(monitors, [name |-> line.name, value |-> line.value])

(* A monitor line.                                                         *)
Placed(monitors, line) == Put(monitors, [name |-> line.name, value |-> line.value], Name)

(* One line of parse_scalars; what does not parse changes nothing.         *)
ScalarLine(cfg, line) ==
    CASE line.key = "modifier" /\ parse_mods(line.mods, {"LOGO"}) # Invalid ->
            [cfg EXCEPT !.modifier = parse_mods(line.mods, {"LOGO"})]
      [] line.key \in Scalars /\ line.value # Invalid ->
            [cfg EXCEPT ![line.key] = line.value]
      [] line.key = "monitor" /\ line.value # Invalid ->
            [cfg EXCEPT !.monitors = Placed(@, line)]
      [] line.key = "float" /\ line.app # Invalid /\ ~Contains(cfg.float_rules, line.app) ->
            [cfg EXCEPT !.float_rules = Append(@, line.app)]
      [] OTHER -> cfg

parse_scalars(cfg, text) == FoldLeft(ScalarLine, cfg, text)

(* parse_bind                                                              *)
parse_bind(line, modifier) ==
    LET mods == parse_mods(line.mods, modifier)
    IN  IF mods = Invalid \/ line.sym = Invalid \/ line.action = Invalid THEN Invalid
        ELSE [mods |-> mods, sym |-> line.sym, action |-> line.action]

(* One line of apply_binds.                                                *)
BindLine(modifier, binds, line) ==
    IF line.key # "bind" \/ parse_bind(line, modifier) = Invalid THEN binds
    ELSE Put(binds, parse_bind(line, modifier), Chord)

apply_binds(cfg, text) ==
    [cfg EXCEPT !.binds =
        FoldLeft(LAMBDA binds, line : BindLine(cfg.modifier, binds, line), @, text)]

-----------------------------------------------------------------------------
Hjkl == <<"H", "J", "K", "L">>
Toward == <<"Left", "Down", "Up", "Right">>
Digits == <<"1", "2", "3", "4", "5", "6", "7", "8", "9">>

(* default_binds, for the primary modifier.                                *)
default_binds(modifier) ==
    LET Bind(more, sym, action) == [mods |-> modifier \cup more, sym |-> sym, action |-> action]
        Toward4(more, what) == [i \in 1 .. 4 |-> Bind(more, Hjkl[i], <<what, Toward[i]>>)]
        Space(i) == IF i % 2 = 1 THEN Bind({}, Digits[(i + 1) \div 2], <<"Workspace", (i + 1) \div 2>>)
                    ELSE Bind({"SHIFT"}, Digits[i \div 2], <<"MoveToWorkspace", i \div 2>>)
    IN  <<Bind({}, "Return", <<"Spawn">>), Bind({}, "Q", <<"Close">>), Bind({"SHIFT"}, "Q", <<"Quit">>)>>
        \o Toward4({}, "MoveFocus") \o Toward4({"SHIFT"}, "MoveWindow")
        \o Toward4({"CTRL"}, "ResizeWindow")
        \o <<Bind({}, "F", <<"Fullscreen">>), Bind({}, "V", <<"ToggleFloating">>)>>
        \o [i \in 1 .. 2 * WorkspaceCount |-> Space(i)]

(* Config::default.                                                        *)
Default ==
    [modifier |-> {"LOGO"}, gap |-> Unset, background |-> Unset, float_size |-> Unset,
     monitors |-> <<>>, float_rules |-> <<>>, binds |-> <<>>]

(* Broken: the binds are read before the modifier is final.                *)
LoadInOnePass(text, oxideMod) ==
    LET cfg == apply_binds([Default EXCEPT !.binds = default_binds({"LOGO"})], text)
    IN  [parse_scalars(cfg, text) EXCEPT !.modifier = IF oxideMod THEN {"ALT"} ELSE @]

(* Config::load, of the file's text (empty without a file); oxideMod is    *)
(* OXIDE_MOD=alt.  The modifier is final before any bind is looked at.     *)
Load(text, oxideMod) ==
    LET scalars == parse_scalars(Default, text)
        cfg == [scalars EXCEPT !.modifier = IF oxideMod THEN {"ALT"} ELSE @]
    IN  apply_binds([cfg EXCEPT !.binds = default_binds(cfg.modifier)], text)

(* What a chord does: the first bind that matches, as in handle_keybinding.*)
ActionOf(binds, chord) ==
    LET at == {i \in DOMAIN binds : Chord(binds[i]) = chord}
    IN  IF at = {} THEN Invalid ELSE binds[Min(at)].action
=============================================================================
