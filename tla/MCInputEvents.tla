----------------------------- MODULE MCInputEvents -----------------------------
(***************************************************************************)
(* InputEvents for TLC: lines that meet each other in every way - chords   *)
(* named twice, through MOD and by name, modifiers that change MOD or make *)
(* default chords meet, settings given twice, lines that do not parse.     *)
(***************************************************************************)
EXTENDS InputEvents

Bind(mods, sym, action) == [key |-> "bind", mods |-> mods, sym |-> sym, action |-> action]
Modifier(mods) == [key |-> "modifier", mods |-> mods]

SomeLines ==
    {Modifier({"ALT"}), Modifier({"MOD", "SHIFT"}), Modifier({"SHIFT"}), Modifier({"HYPER"}),
     Bind({"MOD"}, "Q", <<"Spawn">>), Bind({"LOGO"}, "Q", <<"FocusNext">>),
     Bind({"MOD", "SHIFT"}, "Q", <<"Close">>), Bind({}, "Print", <<"Spawn">>),
     Bind({"MOD"}, "H", Invalid), Bind({"HYPER"}, "H", <<"Close">>),
     [key |-> "monitor", name |-> "eDP-1", value |-> "0x0"],
     [key |-> "monitor", name |-> "eDP-1", value |-> "0x9"],
     [key |-> "monitor", name |-> "DP-1", value |-> "0x0"],
     [key |-> "gap", value |-> 7], [key |-> "gap", value |-> Invalid],
     [key |-> "float", app |-> "zenity"]}
=============================================================================
