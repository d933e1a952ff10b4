------------------------------ MODULE InputProofs ------------------------------
(***************************************************************************)
(* What InputEvents promises a client about keys and buttons, for any file,*)
(* any keyboard and pointer, and any number of keys held at a time.        *)
(***************************************************************************)
EXTENDS InputEvents, ListLemmas

(* A key is told to the focused client only while it is down, and every    *)
(* way it can come up takes it back (shim/input.c, handle_key).            *)
THEOREM NoKeySticks == Spec => []NoStuckKey
  <1>1. Init => NoStuckKey
    BY DEF Init, NoStuckKey
  <1>2. NoStuckKey /\ [Next]_vars => NoStuckKey'
    <2> SUFFICES ASSUME NoStuckKey, [Next]_vars
                 PROVE  NoStuckKey'
      OBVIOUS
    <2> USE DEF NoStuckKey
    <2>1. ASSUME NEW line \in Lines, Write(line) PROVE NoStuckKey'
      BY <2>1 DEF Write, keyVars
    <2>2. CASE Start
      BY <2>2 DEF Start, keyVars
    <2>3. CASE Stop
      BY <2>3 DEF Stop
    <2>4. ASSUME NEW key \in Held \cup PlainKeys, KeyPress(key) PROVE NoStuckKey'
      BY <2>4 DEF KeyPress, FocusStays, FocusMoves
    <2>5. ASSUME NEW key \in Held \cup PlainKeys, KeyRelease(key) PROVE NoStuckKey'
      BY <2>5 DEF KeyRelease
    <2>6. CASE KeyboardDestroy
      BY <2>6 DEF KeyboardDestroy
    <2>7. CASE FocusMoved
      BY <2>7 DEF FocusMoved, FocusMoves
    <2>8. ASSUME NEW b \in Buttons, ButtonPress(b) PROVE NoStuckKey'
      BY <2>8 DEF ButtonPress, FocusStays
    <2>9. ASSUME NEW b \in Buttons, ButtonRelease(b) PROVE NoStuckKey'
      BY <2>9 DEF ButtonRelease, keyVars
    <2>10. CASE GrabDropped
      BY <2>10 DEF GrabDropped, keyVars
    <2>11. CASE UNCHANGED vars
      BY <2>11 DEF vars, keyVars
    <2> QED
      BY <2>1, <2>2, <2>3, <2>4, <2>5, <2>6, <2>7, <2>8, <2>9, <2>10, <2>11 DEF Next
  <1> QED
    BY <1>1, <1>2, PTL DEF Spec

-----------------------------------------------------------------------------
(* NoStuckButton is not inductive: with a grab and a button the client     *)
(* knows, the release would be swallowed.  What it rests on is that during *)
(* a drag every button the client knows has been put down as such.         *)
ButtonInv ==
    /\ buttons \ pressed \subseteq midDrag
    /\ grab => buttons \subseteq midDrag

(* The strengthened invariant holds initially and under every handler.     *)
LEMMA ButtonInvariance == Spec => []ButtonInv
  <1>1. Init => ButtonInv
    BY DEF Init, ButtonInv
  <1>2. ButtonInv /\ [Next]_vars => ButtonInv'
    <2> SUFFICES ASSUME ButtonInv, [Next]_vars
                 PROVE  ButtonInv'
      OBVIOUS
    <2> USE DEF ButtonInv
    <2>1. CASE UNCHANGED buttonVars
      BY <2>1 DEF buttonVars
    <2>2. CASE Stop
      BY <2>2 DEF Stop
    <2>3. ASSUME NEW b \in Buttons, ButtonPress(b) PROVE ButtonInv'
      BY <2>3 DEF ButtonPress
    <2>4. ASSUME NEW b \in Buttons, ButtonRelease(b) PROVE ButtonInv'
      BY <2>4 DEF ButtonRelease
    <2>5. CASE GrabDropped
      BY <2>5 DEF GrabDropped
    <2>6. \/ UNCHANGED buttonVars \/ Stop \/ GrabDropped
          \/ \E b \in Buttons : ButtonPress(b) \/ ButtonRelease(b)
      BY DEF Next, vars, Write, Start, KeyPress, KeyRelease, KeyboardDestroy, FocusMoved
    <2> QED
      BY <2>1, <2>2, <2>3, <2>4, <2>5, <2>6
  <1> QED
    BY <1>1, <1>2, PTL DEF Spec

(* For any buttons, in any order: a client is left with one it takes to be *)
(* down only if it knew that to be down during a drag (shim/input.c,       *)
(* handle_cursor_button).                                                  *)
THEOREM NoButtonSticks == Spec => []NoStuckButton
  <1>1. ButtonInv => NoStuckButton
    BY DEF ButtonInv, NoStuckButton
  <1> QED
    BY <1>1, ButtonInvariance, PTL

-----------------------------------------------------------------------------
(* What a file makes of the configuration.  The types of what is read.     *)
Values == {line.value : line \in Lines} \cup {Unset}
Monitors == [name : {line.name : line \in Lines}, value : {line.value : line \in Lines}]
Apps == {line.app : line \in Lines}
Configs == [modifier : SUBSET Modifiers, gap : Values, background : Values, float_size : Values,
            monitors : Seq(Monitors), float_rules : Seq(Apps), binds : {<<>>}]

LEMMA ParseModsType ==
    ASSUME NEW tokens, NEW primary \in SUBSET Modifiers
    PROVE  IF tokens \subseteq Modifiers \cup {"MOD"}
           THEN parse_mods(tokens, primary) \in SUBSET Modifiers /\ parse_mods(tokens, primary) # Invalid
           ELSE parse_mods(tokens, primary) = Invalid
  <1>1. CASE tokens \subseteq Modifiers \cup {"MOD"}
    <2>1. parse_mods(tokens, primary) = (tokens \ {"MOD"}) \cup (IF "MOD" \in tokens THEN primary ELSE {})
      BY <1>1 DEF parse_mods
    <2>2. parse_mods(tokens, primary) \in SUBSET Modifiers
      BY <1>1, <2>1
    <2> QED BY <1>1, <2>2, ConfigAssumption
  <1>2. CASE ~(tokens \subseteq Modifiers \cup {"MOD"})
    BY <1>2 DEF parse_mods
  <1> QED BY <1>1, <1>2

(* The first entry with a key, or a new last one.                          *)
LEMMA PlacedFacts ==
    ASSUME NEW s \in Seq(Monitors), NEW line \in Lines
    PROVE  /\ Placed(s, line) \in Seq(Monitors)
           /\ LET e == [name |-> line.name, value |-> line.value]
              IN  \/ /\ \A i \in 1 .. Len(s) : s[i].name # line.name
                     /\ Placed(s, line) = Append(s, e)
                  \/ \E k \in 1 .. Len(s) : s[k].name = line.name /\ Placed(s, line) = [s EXCEPT ![k] = e]
  <1> DEFINE e == [name |-> line.name, value |-> line.value]
             at == {i \in DOMAIN s : s[i].name = line.name}
  <1>1. e \in Monitors /\ e.name = line.name
    BY DEF Monitors
  <1>2. Len(s) \in Nat /\ DOMAIN s = 1 .. Len(s)
    BY SeqFacts
  <1>3. Placed(s, line) = IF at = {} THEN Append(s, e) ELSE [s EXCEPT ![Min(at)] = e]
    BY <1>1 DEF Placed, Put, Name
  <1>4. CASE at = {}
    <2>1. \A i \in 1 .. Len(s) : s[i].name # line.name
      BY <1>2, <1>4
    <2>2. Placed(s, line) = Append(s, e)
      BY <1>3, <1>4
    <2> HIDE DEF e
    <2>3. Append(s, e) \in Seq(Monitors)
      BY <1>1
    <2> QED BY <2>1, <2>2, <2>3 DEF e
  <1>5. CASE at # {}
    <2>1. at \in SUBSET (1 .. Len(s))
      BY <1>2
    <2>2. Min(at) \in at
      <3> HIDE DEF at
      <3> QED BY <1>2, <1>5, <2>1, MinIsIn
    <2>3. Min(at) \in 1 .. Len(s) /\ s[Min(at)].name = line.name
      BY <1>2, <2>2
    <2> DEFINE k == Min(at)
    <2>4. Placed(s, line) = [s EXCEPT ![k] = e]
      BY <1>3, <1>5
    <2> HIDE DEF k, e
    <2>5. Placed(s, line) \in Seq(Monitors)
      BY <1>1, <2>3, <2>4 DEF k
    <2>6. k \in 1 .. Len(s) /\ s[k].name = line.name
      BY <2>3 DEF k
    <2> QED BY <2>4, <2>5, <2>6 DEF e
  <1> QED BY <1>4, <1>5

(* What one line does, setting by setting.                                 *)
LEMMA ScalarLineFacts ==
    ASSUME NEW cfg \in Configs, NEW line \in Lines
    PROVE  LET next == ScalarLine(cfg, line) IN
           /\ next \in Configs
           /\ \A key \in Scalars :
                 next[key] = IF line.key = key /\ line.value # Invalid THEN line.value ELSE cfg[key]
           /\ next.modifier =
                 IF line.key = "modifier" /\ line.mods \subseteq Modifiers \cup {"MOD"}
                 THEN parse_mods(line.mods, {"LOGO"}) ELSE cfg.modifier
           /\ next.monitors =
                 IF line.key = "monitor" /\ line.value # Invalid
                 THEN Placed(cfg.monitors, line) ELSE cfg.monitors
           /\ next.float_rules =
                 IF line.key = "float" /\ line.app # Invalid /\ ~Contains(cfg.float_rules, line.app)
                 THEN Append(cfg.float_rules, line.app) ELSE cfg.float_rules
  <1> DEFINE next == ScalarLine(cfg, line)
             mods == parse_mods(line.mods, {"LOGO"})
  <1>1. CASE line.key = "modifier"
    <2>1. {"LOGO"} \in SUBSET Modifiers
      BY DEF Modifiers
    <2>2. CASE line.mods \subseteq Modifiers \cup {"MOD"}
      <3>1. mods \in SUBSET Modifiers /\ mods # Invalid
        BY <2>1, <2>2, ParseModsType
      <3> HIDE DEF mods
      <3>2. next = [cfg EXCEPT !.modifier = mods]
        BY <1>1, <3>1 DEF ScalarLine, mods, Scalars
      <3> QED BY <1>1, <2>2, <3>1, <3>2 DEF Configs, Scalars, mods
    <2>3. CASE ~(line.mods \subseteq Modifiers \cup {"MOD"})
      <3>1. mods = Invalid
        BY <2>1, <2>3, ParseModsType
      <3>2. next = cfg
        BY <1>1, <3>1 DEF ScalarLine, Scalars
      <3> QED BY <1>1, <2>3, <3>2 DEF Scalars
    <2> QED BY <2>2, <2>3
  <1>2. CASE line.key \in Scalars /\ line.value # Invalid
    <2>1. next = [cfg EXCEPT ![line.key] = line.value]
      BY <1>2 DEF ScalarLine, Scalars
    <2>2. line.value \in Values
      BY DEF Values
    <2> QED BY <1>2, <2>1, <2>2 DEF Configs, Scalars
  <1>3. CASE line.key = "monitor" /\ line.value # Invalid
    <2>1. next = [cfg EXCEPT !.monitors = Placed(cfg.monitors, line)]
      BY <1>3 DEF ScalarLine, Scalars
    <2>2. Placed(cfg.monitors, line) \in Seq(Monitors)
      BY PlacedFacts DEF Configs
    <2> QED BY <1>3, <2>1, <2>2 DEF Configs, Scalars
  <1>4. CASE line.key = "float" /\ line.app # Invalid /\ ~Contains(cfg.float_rules, line.app)
    <2>1. next = [cfg EXCEPT !.float_rules = Append(cfg.float_rules, line.app)]
      BY <1>4 DEF ScalarLine, Scalars
    <2>2. Append(cfg.float_rules, line.app) \in Seq(Apps)
      BY DEF Configs, Apps
    <2> QED BY <1>4, <2>1, <2>2 DEF Configs, Scalars
  <1>5. CASE /\ line.key # "modifier"
             /\ ~(line.key \in Scalars /\ line.value # Invalid)
             /\ ~(line.key = "monitor" /\ line.value # Invalid)
             /\ ~(line.key = "float" /\ line.app # Invalid /\ ~Contains(cfg.float_rules, line.app))
    <2>1. next = cfg
      BY <1>5 DEF ScalarLine
    <2> QED BY <1>5, <2>1
  <1> QED BY <1>1, <1>2, <1>3, <1>4, <1>5

(* What a line does to each part of the settings, a fact at a time.         *)
LEMMA ScalarLineType ==
    ASSUME NEW cfg \in Configs, NEW line \in Lines
    PROVE  ScalarLine(cfg, line) \in Configs
  BY ScalarLineFacts

LEMMA ModifierOfLine ==
    ASSUME NEW cfg \in Configs, NEW line \in Lines
    PROVE  ScalarLine(cfg, line).modifier =
              IF line.key = "modifier" /\ line.mods \subseteq Modifiers \cup {"MOD"}
              THEN parse_mods(line.mods, {"LOGO"}) ELSE cfg.modifier
  BY ScalarLineFacts

LEMMA MonitorsOfLine ==
    ASSUME NEW cfg \in Configs, NEW line \in Lines
    PROVE  ScalarLine(cfg, line).monitors =
              IF line.key = "monitor" /\ line.value # Invalid
              THEN Placed(cfg.monitors, line) ELSE cfg.monitors
  BY ScalarLineFacts

LEMMA RulesOfLine ==
    ASSUME NEW cfg \in Configs, NEW line \in Lines
    PROVE  ScalarLine(cfg, line).float_rules =
              IF line.key = "float" /\ line.app # Invalid /\ ~Contains(cfg.float_rules, line.app)
              THEN Append(cfg.float_rules, line.app) ELSE cfg.float_rules
  BY ScalarLineFacts

LEMMA DefaultType == Default \in Configs
  BY DEF Default, Configs, Values, Modifiers

(* The first pass, line by line.                                           *)
ScalarTable(g, base, lines) ==
    g = [s \in SUBSET (DOMAIN lines) |->
            IF s = {} THEN base ELSE ScalarLine(g[s \ {Max(s)}], lines[Max(s)])]

LEMMA ScalarSteps ==
    ASSUME NEW lines \in Seq(Lines), NEW base \in Configs
    PROVE  \E p \in [0 .. Len(lines) -> Configs] :
                /\ p[0] = base /\ p[Len(lines)] = parse_scalars(base, lines)
                /\ \A k \in 1 .. Len(lines) : p[k] = ScalarLine(p[k - 1], lines[k])
  <1> DEFINE n == Len(lines)
             T == CHOOSE g : ScalarTable(g, base, lines)
             step == [k \in 1 .. n |-> [cfg \in Configs |-> ScalarLine(cfg, lines[k])]]
             p == [k \in 0 .. n |-> T[1 .. k]]
  <1>1. n \in Nat /\ DOMAIN lines = 1 .. n /\ \A k \in 1 .. n : lines[k] \in Lines
    BY SeqFacts
  <1>2. parse_scalars(base, lines) = T[DOMAIN lines]
    BY DEF parse_scalars, FoldLeft, MapThenFoldSet, ScalarTable
  <1>3. \E g : ScalarTable(g, base, lines)
    <2>1. step \in [1 .. n -> [Configs -> Configs]]
      <3>1. ASSUME NEW k \in 1 .. n, NEW cfg \in Configs PROVE ScalarLine(cfg, lines[k]) \in Configs
        BY <1>1, ScalarLineType
      <3> HIDE DEF n
      <3> QED BY <3>1
    <2>2. PICK g \in [SUBSET (1 .. n) -> Configs] : FoldsLeft(g, base, step, n)
      <3> HIDE DEF n, step
      <3> QED BY <1>1, <2>1, LeftFoldExists
    <2>3. ASSUME NEW s \in SUBSET (1 .. n)
          PROVE  g[s] = IF s = {} THEN base ELSE ScalarLine(g[s \ {Max(s)}], lines[Max(s)])
      <3>1. CASE s # {}
        <4>1. Max(s) \in 1 .. n
          <5> HIDE DEF n
          <5> QED BY <1>1, <3>1, MaxIsIn
        <4>2. g[s \ {Max(s)}] \in Configs
          OBVIOUS
        <4> QED BY <2>2, <3>1, <4>1, <4>2 DEF FoldsLeft
      <3> QED BY <2>2, <3>1 DEF FoldsLeft
    <2>4. g = [s \in SUBSET (1 .. n) |->
                  IF s = {} THEN base ELSE ScalarLine(g[s \ {Max(s)}], lines[Max(s)])]
      <3> HIDE DEF n
      <3> QED BY <2>3
    <2>5. ScalarTable(g, base, lines)
      <3> HIDE DEF n
      <3> QED BY <1>1, <2>4 DEF ScalarTable
    <2> QED BY <2>5
  <1>4. ScalarTable(T, base, lines)
    BY <1>3
  <1> HIDE DEF T
  <1>5. \A s \in SUBSET (1 .. n) :
            T[s] = IF s = {} THEN base ELSE ScalarLine(T[s \ {Max(s)}], lines[Max(s)])
    <2> HIDE DEF n
    <2>1. T = [s \in SUBSET (1 .. n) |->
                  IF s = {} THEN base ELSE ScalarLine(T[s \ {Max(s)}], lines[Max(s)])]
      BY <1>1, <1>4 DEF ScalarTable
    <2> QED BY <2>1
  <1>6. T[1 .. 0] = base
    <2>1. 1 .. 0 = {} /\ {} \in SUBSET (1 .. n)
      OBVIOUS
    <2> QED BY <1>5, <2>1
  <1>7. ASSUME NEW k \in 1 .. n PROVE T[1 .. k] = ScalarLine(T[1 .. (k - 1)], lines[k])
    <2> HIDE DEF n
    <2> QED BY <1>1, <1>5, FirstOnes
  <1> DEFINE S == {k \in 0 .. n : T[1 .. k] \in Configs}
  <1>8. ASSUME NEW k \in 1 .. n, k - 1 \in S PROVE k \in S
    <2>1. T[1 .. (k - 1)] \in Configs
      BY <1>8
    <2>2. T[1 .. k] \in Configs
      BY <1>1, <1>7, <2>1, ScalarLineType
    <2> QED BY <2>2
  <1>9. \A k \in 0 .. n : k \in S
    <2>1. 0 \in S
      BY <1>1, <1>6
    <2> HIDE DEF n, S
    <2> QED BY <1>1, <1>8, <2>1, UpTo
  <1>10. p \in [0 .. n -> Configs]
    BY <1>9
  <1>11. p[0] = base /\ p[n] = T[DOMAIN lines]
    BY <1>1, <1>6
  <1>12. ASSUME NEW k \in 1 .. n PROVE p[k] = ScalarLine(p[k - 1], lines[k])
    <2>1. k \in 0 .. n /\ k - 1 \in 0 .. n
      BY <1>1
    <2>2. p[k] = T[1 .. k] /\ p[k - 1] = T[1 .. (k - 1)]
      <3> HIDE DEF n
      <3> QED BY <2>1
    <2> QED BY <1>7, <2>2
  <1> HIDE DEF p, n
  <1> QED BY <1>2, <1>10, <1>11, <1>12 DEF n

(* A setting with one value keeps what the last line that parses gives it. *)
Setting(lines, key) == {i \in DOMAIN lines : lines[i].key = key /\ lines[i].value # Invalid}

LEMMA SettingOfLines ==
    ASSUME NEW lines \in Seq(Lines), NEW key \in Scalars
    PROVE  parse_scalars(Default, lines)[key] =
              IF Setting(lines, key) = {} THEN Unset ELSE lines[Max(Setting(lines, key))].value
  <1> DEFINE n == Len(lines)
             M == Setting(lines, key)
  <1>1. n \in Nat /\ DOMAIN lines = 1 .. n /\ \A k \in 1 .. n : lines[k] \in Lines
    BY SeqFacts
  <1>2. Default \in Configs
    BY DefaultType
  <1>3. PICK p \in [0 .. n -> Configs] :
            /\ p[0] = Default /\ p[n] = parse_scalars(Default, lines)
            /\ \A k \in 1 .. n : p[k] = ScalarLine(p[k - 1], lines[k])
    BY <1>2, ScalarSteps
  <1> DEFINE v == [k \in 0 .. n |-> p[k][key]]
             f == [k \in 1 .. n |-> lines[k].value]
  <1>4. ASSUME NEW k \in 1 .. n PROVE v[k] = IF k \in M THEN f[k] ELSE v[k - 1]
    <2>1. k \in 0 .. n /\ k - 1 \in 0 .. n /\ lines[k] \in Lines
      BY <1>1
    <2>2. p[k - 1] \in Configs /\ p[k] = ScalarLine(p[k - 1], lines[k])
      BY <1>3, <2>1
    <2>3. p[k][key] = IF lines[k].key = key /\ lines[k].value # Invalid
                      THEN lines[k].value ELSE p[k - 1][key]
      <3>1. \A s \in Scalars :
               ScalarLine(p[k - 1], lines[k])[s] =
                  IF lines[k].key = s /\ lines[k].value # Invalid THEN lines[k].value ELSE p[k - 1][s]
        BY <2>1, <2>2, ScalarLineFacts
      <3> QED BY <2>2, <3>1
    <2>4. k \in M <=> lines[k].key = key /\ lines[k].value # Invalid
      BY <1>1 DEF Setting
    <2> HIDE DEF n, M
    <2> QED BY <2>1, <2>3, <2>4
  <1>5. M \in SUBSET (1 .. n)
    BY <1>1 DEF Setting
  <1>6. v[n] = p[n][key] /\ v[0] = Default[key] /\ Default[key] = Unset
    BY <1>1, <1>3 DEF Default, Scalars
  <1>7. M # {} => f[Max(M)] = lines[Max(M)].value
    <2> SUFFICES ASSUME M # {} PROVE f[Max(M)] = lines[Max(M)].value
      OBVIOUS
    <2> HIDE DEF M, n
    <2>1. Max(M) \in 1 .. n
      BY <1>1, <1>5, MaxIsIn
    <2> QED BY <2>1
  <1> HIDE DEF v, f, M, n
  <1>8. Latest(v, f, M, n)
    BY <1>1, <1>4, <1>5, LastWins
  <1> QED BY <1>3, <1>6, <1>7, <1>8 DEF M, Latest

Modifying(lines) ==
    {i \in DOMAIN lines : lines[i].key = "modifier" /\ lines[i].mods \subseteq Modifiers \cup {"MOD"}}

LEMMA ModifierOfLines ==
    ASSUME NEW lines \in Seq(Lines)
    PROVE  parse_scalars(Default, lines).modifier =
              IF Modifying(lines) = {} THEN {"LOGO"}
              ELSE parse_mods(lines[Max(Modifying(lines))].mods, {"LOGO"})
  <1> DEFINE n == Len(lines)
             M == Modifying(lines)
  <1>1. n \in Nat /\ DOMAIN lines = 1 .. n /\ \A k \in 1 .. n : lines[k] \in Lines
    BY SeqFacts
  <1>2. Default \in Configs
    BY DefaultType
  <1>3. PICK p \in [0 .. n -> Configs] :
            /\ p[0] = Default /\ p[n] = parse_scalars(Default, lines)
            /\ \A k \in 1 .. n : p[k] = ScalarLine(p[k - 1], lines[k])
    BY <1>2, ScalarSteps
  <1> DEFINE v == [k \in 0 .. n |-> p[k].modifier]
             f == [k \in 1 .. n |-> parse_mods(lines[k].mods, {"LOGO"})]
  <1>4. ASSUME NEW k \in 1 .. n PROVE v[k] = IF k \in M THEN f[k] ELSE v[k - 1]
    <2>1. k \in 0 .. n /\ k - 1 \in 0 .. n /\ lines[k] \in Lines
      BY <1>1
    <2>2. p[k - 1] \in Configs /\ p[k] = ScalarLine(p[k - 1], lines[k])
      BY <1>3, <2>1
    <2>3. p[k].modifier = IF lines[k].key = "modifier" /\ lines[k].mods \subseteq Modifiers \cup {"MOD"}
                          THEN parse_mods(lines[k].mods, {"LOGO"}) ELSE p[k - 1].modifier
      BY <2>1, <2>2, ModifierOfLine
    <2>4. k \in M <=> lines[k].key = "modifier" /\ lines[k].mods \subseteq Modifiers \cup {"MOD"}
      BY <1>1 DEF Modifying
    <2> HIDE DEF n, M
    <2> QED BY <2>1, <2>3, <2>4
  <1>5. M \in SUBSET (1 .. n)
    BY <1>1 DEF Modifying
  <1>6. v[n] = p[n].modifier /\ v[0] = Default.modifier /\ Default.modifier = {"LOGO"}
    BY <1>1, <1>3 DEF Default
  <1>7. M # {} => f[Max(M)] = parse_mods(lines[Max(M)].mods, {"LOGO"})
    <2> SUFFICES ASSUME M # {} PROVE f[Max(M)] = parse_mods(lines[Max(M)].mods, {"LOGO"})
      OBVIOUS
    <2> HIDE DEF M, n
    <2>1. Max(M) \in 1 .. n
      BY <1>1, <1>5, MaxIsIn
    <2> QED BY <2>1
  <1> HIDE DEF v, f, M, n
  <1>8. Latest(v, f, M, n)
    BY <1>1, <1>4, <1>5, LastWins
  <1> QED BY <1>3, <1>6, <1>7, <1>8 DEF M, Latest
(* The monitor lines among the first k that name x; after them the list s  *)
(* has one entry for each name, with what the last of them says.           *)
Parses(line) == line.key = "monitor" /\ line.value # Invalid
Naming(lines, k, x) == {j \in 1 .. k : Parses(lines[j]) /\ lines[j].name = x}

Listed(s, lines, k) ==
    /\ s \in Seq(Monitors)
    /\ \A i, j \in 1 .. Len(s) : s[i].name = s[j].name => i = j
    /\ \A i \in 1 .. Len(s) :
          /\ Naming(lines, k, s[i].name) # {}
          /\ s[i].value = lines[Max(Naming(lines, k, s[i].name))].value
    /\ \A j \in 1 .. k : Parses(lines[j]) => \E i \in 1 .. Len(s) : s[i].name = lines[j].name

(* A line that is no monitor line, or does not parse, leaves the list.     *)
LEMMA ListedStays ==
    ASSUME NEW lines \in Seq(Lines), NEW k \in 1 .. Len(lines), ~Parses(lines[k]),
           NEW s, Listed(s, lines, k - 1)
    PROVE  Listed(s, lines, k)
  <1>1. \A x : Naming(lines, k, x) = Naming(lines, k - 1, x)
    BY DEF Naming
  <1>2. ASSUME NEW j \in 1 .. k, Parses(lines[j]) PROVE \E i \in 1 .. Len(s) : s[i].name = lines[j].name
    <2>1. j \in 1 .. k - 1
      BY <1>2
    <2> QED BY <1>2, <2>1 DEF Listed
  <1> QED BY <1>1, <1>2 DEF Listed

(* A monitor line sets the entry of its name, the first time as a new one. *)
LEMMA ListedMore ==
    ASSUME NEW lines \in Seq(Lines), NEW k \in 1 .. Len(lines), Parses(lines[k]),
           NEW s, Listed(s, lines, k - 1)
    PROVE  Listed(Placed(s, lines[k]), lines, k)
  <1> DEFINE line == lines[k]
             e == [name |-> line.name, value |-> line.value]
             t == Placed(s, line)
  <1>1. /\ line \in Lines /\ s \in Seq(Monitors) /\ Len(s) \in Nat /\ k \in Nat
        /\ e \in Monitors /\ e.name = line.name /\ e.value = line.value
    BY DEF Listed, Monitors
  <1>2. ASSUME NEW x, x # line.name PROVE Naming(lines, k, x) = Naming(lines, k - 1, x)
    BY <1>1, <1>2 DEF Naming
  <1>3. Naming(lines, k, line.name) # {} /\ Max(Naming(lines, k, line.name)) = k
    <2>1. k \in Naming(lines, k, line.name) /\ Naming(lines, k, line.name) \in SUBSET (1 .. k)
      BY <1>1 DEF Naming
    <2> QED BY <1>1, <2>1, MaxOfFirst
  <1>4. /\ t \in Seq(Monitors)
        /\ \/ /\ \A i \in 1 .. Len(s) : s[i].name # line.name
              /\ t = Append(s, e)
           \/ \E i \in 1 .. Len(s) : s[i].name = line.name /\ t = [s EXCEPT ![i] = e]
    BY <1>1, PlacedFacts
  <1> HIDE DEF t, e
  <1>5. ASSUME \A i \in 1 .. Len(s) : s[i].name # line.name, t = Append(s, e)
        PROVE  Listed(t, lines, k)
    <2>1. /\ Len(t) = Len(s) + 1 /\ t[Len(s) + 1] = e
          /\ \A i \in 1 .. Len(s) : t[i] = s[i]
      BY <1>1, <1>5, AppendFacts
    <2>2. ASSUME NEW i \in 1 .. Len(t), NEW j \in 1 .. Len(t), t[i].name = t[j].name PROVE i = j
      BY <1>1, <1>5, <2>1, <2>2 DEF Listed
    <2>3. ASSUME NEW i \in 1 .. Len(t)
          PROVE  /\ Naming(lines, k, t[i].name) # {}
                 /\ t[i].value = lines[Max(Naming(lines, k, t[i].name))].value
      <3>1. CASE i = Len(s) + 1
        BY <1>1, <1>3, <2>1, <3>1
      <3>2. CASE i # Len(s) + 1
        <4>1. i \in 1 .. Len(s) /\ t[i] = s[i] /\ s[i].name # line.name
          BY <1>1, <1>5, <2>1, <3>2
        <4>2. Naming(lines, k, t[i].name) = Naming(lines, k - 1, s[i].name)
          BY <1>2, <4>1
        <4> QED BY <4>1, <4>2 DEF Listed
      <3> QED BY <3>1, <3>2
    <2>4. ASSUME NEW j \in 1 .. k, Parses(lines[j]) PROVE \E i \in 1 .. Len(t) : t[i].name = lines[j].name
      <3>1. CASE j = k
        <4>1. Len(s) + 1 \in 1 .. Len(t) /\ t[Len(s) + 1].name = lines[j].name
          BY <1>1, <2>1, <3>1
        <4> QED BY <4>1
      <3>2. CASE j # k
        <4>1. j \in 1 .. k - 1
          BY <1>1, <3>2
        <4>2. PICK i \in 1 .. Len(s) : s[i].name = lines[j].name
          BY <2>4, <4>1 DEF Listed
        <4>3. i \in 1 .. Len(t) /\ t[i].name = lines[j].name
          BY <1>1, <2>1, <4>2
        <4> QED BY <4>3
      <3> QED BY <3>1, <3>2
    <2> QED BY <1>4, <2>2, <2>3, <2>4 DEF Listed
  <1>6. ASSUME NEW m \in 1 .. Len(s), s[m].name = line.name, t = [s EXCEPT ![m] = e]
        PROVE  Listed(t, lines, k)
    <2>1. /\ Len(t) = Len(s) /\ t[m] = e
          /\ \A i \in 1 .. Len(s) : i # m => t[i] = s[i]
      BY <1>1, <1>6
    <2>2. \A i \in 1 .. Len(s) : t[i].name = s[i].name
      BY <1>1, <1>6, <2>1
    <2>3. ASSUME NEW i \in 1 .. Len(t), NEW j \in 1 .. Len(t), t[i].name = t[j].name PROVE i = j
      BY <2>1, <2>2, <2>3 DEF Listed
    <2>4. ASSUME NEW i \in 1 .. Len(t)
          PROVE  /\ Naming(lines, k, t[i].name) # {}
                 /\ t[i].value = lines[Max(Naming(lines, k, t[i].name))].value
      <3>1. CASE i = m
        BY <1>1, <1>3, <2>1, <3>1
      <3>2. CASE i # m
        <4>1. i \in 1 .. Len(s) /\ t[i] = s[i] /\ s[i].name # line.name
          BY <1>6, <2>1, <3>2 DEF Listed
        <4>2. Naming(lines, k, t[i].name) = Naming(lines, k - 1, s[i].name)
          BY <1>2, <4>1
        <4> QED BY <4>1, <4>2 DEF Listed
      <3> QED BY <3>1, <3>2
    <2>5. ASSUME NEW j \in 1 .. k, Parses(lines[j]) PROVE \E i \in 1 .. Len(t) : t[i].name = lines[j].name
      <3>1. CASE j = k
        BY <1>6, <2>1, <2>2, <3>1
      <3>2. CASE j # k
        <4>1. j \in 1 .. k - 1
          BY <1>1, <3>2
        <4>2. PICK i \in 1 .. Len(s) : s[i].name = lines[j].name
          BY <2>5, <4>1 DEF Listed
        <4> QED BY <2>1, <2>2, <4>2
      <3> QED BY <3>1, <3>2
    <2> QED BY <1>4, <2>3, <2>4, <2>5 DEF Listed
  <1>7. Listed(t, lines, k)
    BY <1>4, <1>5, <1>6
  <1> QED BY <1>7 DEF t

LEMMA MonitorsOfLines ==
    ASSUME NEW lines \in Seq(Lines)
    PROVE  Listed(parse_scalars(Default, lines).monitors, lines, Len(lines))
  <1> DEFINE n == Len(lines)
  <1>1. n \in Nat /\ \A k \in 1 .. n : lines[k] \in Lines
    BY SeqFacts
  <1>2. Default \in Configs
    BY DefaultType
  <1>3. PICK p \in [0 .. n -> Configs] :
            /\ p[0] = Default /\ p[n] = parse_scalars(Default, lines)
            /\ \A k \in 1 .. n : p[k] = ScalarLine(p[k - 1], lines[k])
    BY <1>2, ScalarSteps
  <1> DEFINE S == {k \in 0 .. n : Listed(p[k].monitors, lines, k)}
  <1>4. 0 \in S
    <2>1. p[0].monitors = <<>> /\ <<>> \in Seq(Monitors) /\ Len(<<>>) = 0 /\ 1 .. 0 = {}
      BY <1>3 DEF Default
    <2>2. Listed(<<>>, lines, 0)
      BY <2>1 DEF Listed
    <2> QED BY <1>1, <2>1, <2>2
  <1>5. ASSUME NEW k \in 1 .. n, k - 1 \in S PROVE k \in S
    <2>1. /\ k \in 0 .. n /\ k - 1 \in 0 .. n /\ lines[k] \in Lines
          /\ Listed(p[k - 1].monitors, lines, k - 1)
      BY <1>1, <1>5
    <2>2. p[k - 1] \in Configs /\ p[k] = ScalarLine(p[k - 1], lines[k])
      BY <1>3, <2>1
    <2>3. p[k].monitors = IF Parses(lines[k]) THEN Placed(p[k - 1].monitors, lines[k]) ELSE p[k - 1].monitors
      BY <2>1, <2>2, MonitorsOfLine DEF Parses
    <2>4. Listed(p[k].monitors, lines, k)
      BY <2>1, <2>3, ListedStays, ListedMore
    <2> QED BY <2>1, <2>4
  <1>6. n \in S
    <2> HIDE DEF n, S
    <2>1. \A k \in 0 .. n : k \in S
      BY <1>1, <1>4, <1>5, UpTo
    <2>2. n \in 0 .. n
      BY <1>1
    <2> QED BY <2>1, <2>2
  <1> QED BY <1>3, <1>6

(* An app has one rule, however often the file names it.                   *)
Ruling(line) == line.key = "float" /\ line.app # Invalid

LEMMA RulesOfLines ==
    ASSUME NEW lines \in Seq(Lines)
    PROVE  LET rules == parse_scalars(Default, lines).float_rules
           IN  /\ IsInjective(rules)
               /\ Range(rules) = {lines[i].app : i \in {j \in DOMAIN lines : Ruling(lines[j])}}
  <1> DEFINE n == Len(lines)
             Ruled(k) == {lines[i].app : i \in {j \in 1 .. k : Ruling(lines[j])}}
  <1>1. n \in Nat /\ DOMAIN lines = 1 .. n /\ \A k \in 1 .. n : lines[k] \in Lines
    BY SeqFacts
  <1>2. Default \in Configs
    BY DefaultType
  <1>3. PICK p \in [0 .. n -> Configs] :
            /\ p[0] = Default /\ p[n] = parse_scalars(Default, lines)
            /\ \A k \in 1 .. n : p[k] = ScalarLine(p[k - 1], lines[k])
    BY <1>2, ScalarSteps
  <1> DEFINE S == {k \in 0 .. n : Once(p[k].float_rules) /\ Range(p[k].float_rules) = Ruled(k)}
  <1>4. 0 \in S
    <2>1. p[0].float_rules = <<>> /\ DOMAIN <<>> = {} /\ 1 .. 0 = {}
      BY <1>3 DEF Default
    <2>2. Once(<<>>) /\ Range(<<>>) = {} /\ Ruled(0) = {}
      BY <2>1 DEF Once, Range
    <2> HIDE DEF Ruled
    <2> QED BY <1>1, <2>1, <2>2
  <1>5. ASSUME NEW k \in 1 .. n, k - 1 \in S PROVE k \in S
    <2> DEFINE s == p[k - 1].float_rules
               t == p[k].float_rules
               a == lines[k].app
    <2>1. /\ k \in 0 .. n /\ k - 1 \in 0 .. n /\ lines[k] \in Lines
          /\ Once(s) /\ Range(s) = Ruled(k - 1)
      BY <1>1, <1>5
    <2>2. p[k - 1] \in Configs /\ p[k] = ScalarLine(p[k - 1], lines[k])
      BY <1>3, <2>1
    <2>3. t = IF Ruling(lines[k]) /\ ~Contains(s, a) THEN Append(s, a) ELSE s
      BY <2>1, <2>2, RulesOfLine DEF Ruling
    <2>4. s \in Seq(Apps) /\ a \in Apps
      <3>1. s \in Seq(Apps)
        BY <2>2 DEF Configs
      <3>2. a \in Apps
        BY <2>1 DEF Apps
      <3> QED BY <3>1, <3>2
    <2>5. Contains(s, a) <=> a \in Range(s)
      <3> HIDE DEF s, a
      <3>1. DOMAIN s = 1 .. Len(s)
        BY <2>4, SeqFacts
      <3> QED BY <3>1 DEF Contains, Range
    <2>6. Ruled(k) = IF Ruling(lines[k]) THEN Ruled(k - 1) \cup {a} ELSE Ruled(k - 1)
      <3>1. 1 .. k = (1 .. (k - 1)) \cup {k}
        BY <1>1
      <3>2. CASE Ruling(lines[k])
        <4>1. {j \in 1 .. k : Ruling(lines[j])} = {j \in 1 .. (k - 1) : Ruling(lines[j])} \cup {k}
          BY <3>1, <3>2
        <4> QED BY <3>2, <4>1
      <3>3. CASE ~Ruling(lines[k])
        <4>1. {j \in 1 .. k : Ruling(lines[j])} = {j \in 1 .. (k - 1) : Ruling(lines[j])}
          BY <3>1, <3>3
        <4> QED BY <3>3, <4>1
      <3> QED BY <3>2, <3>3
    <2> HIDE DEF s, t, a, Ruled
    <2>7. Once(t) /\ Range(t) = Ruled(k)
      <3>1. CASE Ruling(lines[k]) /\ ~Contains(s, a)
        BY <2>1, <2>3, <2>4, <2>5, <2>6, <3>1, AppendOnce, AppendFacts
      <3>2. CASE ~(Ruling(lines[k]) /\ ~Contains(s, a))
        BY <2>1, <2>3, <2>5, <2>6, <3>2
      <3> QED BY <3>1, <3>2
    <2> QED BY <2>1, <2>7 DEF t
  <1>6. n \in S
    <2> HIDE DEF n, S
    <2>1. \A k \in 0 .. n : k \in S
      BY <1>1, <1>4, <1>5, UpTo
    <2>2. n \in 0 .. n
      BY <1>1
    <2> QED BY <2>1, <2>2
  <1>7. Once(p[n].float_rules) /\ Range(p[n].float_rules) = Ruled(n)
    <2> HIDE DEF Ruled, n
    <2> QED BY <1>6
  <1> QED BY <1>1, <1>3, <1>7 DEF Once, IsInjective
-----------------------------------------------------------------------------
LEMMA Listing ==
    ASSUME NEW m \in Nat, NEW A, NEW t \in [1 .. m -> A]
    PROVE  t \in Seq(A)
  OBVIOUS

(* The second pass.  A bind takes the place of the one with its chord, or  *)
(* comes last: its chord does what it says, every other what it did.       *)
LEMMA PutBind ==
    ASSUME NEW X, NEW binds \in Seq(X), NEW e \in X
    PROVE  /\ Put(binds, e, Chord) \in Seq(X)
           /\ \A chord : ActionOf(Put(binds, e, Chord), chord) =
                            IF chord = Chord(e) THEN e.action ELSE ActionOf(binds, chord)
  <1> DEFINE At(s, chord) == {i \in DOMAIN s : Chord(s[i]) = chord}
             first == Min(At(binds, Chord(e)))
             t == Put(binds, e, Chord)
  <1>1. /\ Len(binds) \in Nat /\ DOMAIN binds = 1 .. Len(binds)
        /\ t = IF At(binds, Chord(e)) = {} THEN Append(binds, e) ELSE [binds EXCEPT ![first] = e]
    BY SeqFacts DEF Put
  <1>2. \A s, chord : ActionOf(s, chord) = IF At(s, chord) = {} THEN Invalid ELSE s[Min(At(s, chord))].action
    BY DEF ActionOf
  <1>3. ASSUME At(binds, Chord(e)) = {}
        PROVE  /\ t \in Seq(X)
               /\ \A chord : ActionOf(t, chord) = IF chord = Chord(e) THEN e.action ELSE ActionOf(binds, chord)
    <2>1. t = Append(binds, e)
      BY <1>1, <1>3
    <2> HIDE DEF t
    <2>2. /\ t \in Seq(X) /\ Len(t) = Len(binds) + 1 /\ DOMAIN t = 1 .. Len(binds) + 1
          /\ t[Len(binds) + 1] = e
          /\ \A i \in 1 .. Len(binds) : t[i] = binds[i]
      BY <2>1, AppendFacts, SeqFacts
    <2>3. ASSUME NEW chord, chord # Chord(e) PROVE ActionOf(t, chord) = ActionOf(binds, chord)
      <3>1. At(t, chord) = At(binds, chord)
        BY <1>1, <2>2, <2>3
      <3>2. CASE At(binds, chord) = {}
        BY <1>2, <3>1, <3>2
      <3>3. CASE At(binds, chord) # {}
        <4>1. At(binds, chord) \in SUBSET (1 .. Len(binds))
          BY <1>1
        <4> DEFINE A == At(binds, chord)
        <4>2. A \in SUBSET (1 .. Len(binds)) /\ A # {}
          BY <3>3, <4>1
        <4> HIDE DEF A
        <4>3. Min(A) \in 1 .. Len(binds)
          BY <1>1, <4>2, MinIsIn
        <4>4. t[Min(A)] = binds[Min(A)]
          BY <2>2, <4>3
        <4>5. At(t, chord) = A /\ At(binds, chord) = A
          BY <3>1 DEF A
        <4> HIDE DEF At
        <4> QED BY <1>2, <4>2, <4>4, <4>5
      <3> QED BY <3>2, <3>3
    <2>4. ActionOf(t, Chord(e)) = e.action
      <3>1. At(t, Chord(e)) = {Len(binds) + 1}
        BY <1>1, <1>3, <2>2
      <3>2. Min({Len(binds) + 1}) = Len(binds) + 1
        BY <1>1 DEF Min
      <3> HIDE DEF At
      <3> QED BY <1>2, <2>2, <3>1, <3>2
    <2> QED BY <2>2, <2>3, <2>4
  <1>4. ASSUME At(binds, Chord(e)) # {}
        PROVE  /\ t \in Seq(X)
               /\ \A chord : ActionOf(t, chord) = IF chord = Chord(e) THEN e.action ELSE ActionOf(binds, chord)
    <2>1. t = [binds EXCEPT ![first] = e]
      BY <1>1, <1>4
    <2>2. first \in At(binds, Chord(e))
      <3> DEFINE A == At(binds, Chord(e))
      <3>1. A \in SUBSET (1 .. Len(binds)) /\ A # {}
        BY <1>1, <1>4
      <3> HIDE DEF A
      <3>2. Min(A) \in A
        BY <1>1, <3>1, MinIsIn
      <3> QED BY <3>2 DEF A
    <2>3. first \in 1 .. Len(binds) /\ Chord(binds[first]) = Chord(e)
      BY <1>1, <2>2
    <2> DEFINE k == first
    <2>4. k \in 1 .. Len(binds) /\ Chord(binds[k]) = Chord(e) /\ t = [binds EXCEPT ![k] = e]
      BY <2>1, <2>3
    <2> HIDE DEF t
    <2>5. ActionOf(t, Chord(e)) = e.action
      <3> HIDE DEF k
      <3>1. At(t, Chord(e)) = At(binds, Chord(e)) /\ t[k] = e
        BY <1>1, <2>4
      <3>2. k = Min(At(binds, Chord(e)))
        BY DEF k
      <3> HIDE DEF At
      <3> QED BY <1>2, <1>4, <3>1, <3>2
    <2> HIDE DEF k
    <2>6. /\ t \in Seq(X) /\ DOMAIN t = 1 .. Len(binds)
          /\ \A i \in 1 .. Len(binds) : t[i] = IF i = k THEN e ELSE binds[i]
      <3>1. \A i \in 1 .. Len(binds) : binds[i] \in X
        BY SeqFacts
      <3>2. /\ DOMAIN t = 1 .. Len(binds)
            /\ \A i \in 1 .. Len(binds) : t[i] = IF i = k THEN e ELSE binds[i]
        BY <1>1, <2>4
      <3>3. t \in [1 .. Len(binds) -> X]
        BY <1>1, <2>4, <3>1
      <3>4. t \in Seq(X)
        BY <1>1, <3>3, Listing
      <3> QED BY <3>2, <3>4
    <2>7. ASSUME NEW chord, chord # Chord(e) PROVE ActionOf(t, chord) = ActionOf(binds, chord)
      <3>1. At(t, chord) = At(binds, chord)
        BY <1>1, <2>4, <2>6, <2>7
      <3>2. CASE At(binds, chord) = {}
        BY <1>2, <3>1, <3>2
      <3>3. CASE At(binds, chord) # {}
        <4> DEFINE A == At(binds, chord)
        <4>1. A \in SUBSET (1 .. Len(binds)) /\ A # {} /\ k \notin A
          BY <1>1, <2>4, <2>7, <3>3
        <4>2. At(t, chord) = A /\ At(binds, chord) = A
          BY <3>1
        <4> HIDE DEF A, At
        <4>3. Min(A) \in A
          BY <1>1, <4>1, MinIsIn
        <4>4. t[Min(A)] = binds[Min(A)]
          BY <2>6, <4>1, <4>3
        <4> QED BY <1>2, <4>1, <4>2, <4>4
      <3> QED BY <3>2, <3>3
    <2> QED BY <2>5, <2>6, <2>7
  <1> QED BY <1>3, <1>4

(* The second pass, line by line.                                          *)
BindTable(g, modifier, base, lines) ==
    g = [s \in SUBSET (DOMAIN lines) |->
            IF s = {} THEN base ELSE BindLine(modifier, g[s \ {Max(s)}], lines[Max(s)])]

Folded(modifier, base, lines) ==
    FoldLeft(LAMBDA binds, line : BindLine(modifier, binds, line), base, lines)

BindChain(lines, modifier, X, base) ==
    \E p \in [0 .. Len(lines) -> Seq(X)] :
        /\ p[0] = base /\ p[Len(lines)] = Folded(modifier, base, lines)
        /\ \A k \in 1 .. Len(lines) : p[k] = BindLine(modifier, p[k - 1], lines[k])

LEMMA BindSteps ==
    ASSUME NEW lines \in Seq(Lines), NEW modifier, NEW X, NEW base \in Seq(X),
           \A line \in Lines : parse_bind(line, modifier) \in X
    PROVE  BindChain(lines, modifier, X, base)
  <1> DEFINE n == Len(lines)
             T == CHOOSE g : BindTable(g, modifier, base, lines)
             V == Seq(X)
             step == [k \in 1 .. n |-> [binds \in V |-> BindLine(modifier, binds, lines[k])]]
             p == [k \in 0 .. n |-> T[1 .. k]]
  <1>1. n \in Nat /\ DOMAIN lines = 1 .. n /\ \A k \in 1 .. n : lines[k] \in Lines
    BY SeqFacts
  <1>2. Folded(modifier, base, lines) = T[DOMAIN lines]
    BY DEF Folded, FoldLeft, MapThenFoldSet, BindTable
  <1>3. base \in V /\ \A k \in 1 .. n : \A binds \in V : BindLine(modifier, binds, lines[k]) \in V
    BY <1>1, PutBind DEF BindLine
  <1> HIDE DEF V
  <1>4. \E g : BindTable(g, modifier, base, lines)
    <2>1. step \in [1 .. n -> [V -> V]]
      <3> HIDE DEF n
      <3> QED BY <1>3
    <2>2. PICK g \in [SUBSET (1 .. n) -> V] : FoldsLeft(g, base, step, n)
      <3> HIDE DEF n, step
      <3> QED BY <1>1, <1>3, <2>1, LeftFoldExists
    <2>3. ASSUME NEW s \in SUBSET (1 .. n)
          PROVE  g[s] = IF s = {} THEN base ELSE BindLine(modifier, g[s \ {Max(s)}], lines[Max(s)])
      <3>1. CASE s # {}
        <4>1. Max(s) \in 1 .. n
          <5> HIDE DEF n
          <5> QED BY <1>1, <3>1, MaxIsIn
        <4>2. g[s \ {Max(s)}] \in V
          OBVIOUS
        <4> QED BY <2>2, <3>1, <4>1, <4>2 DEF FoldsLeft
      <3> QED BY <2>2, <3>1 DEF FoldsLeft
    <2>4. g = [s \in SUBSET (1 .. n) |->
                  IF s = {} THEN base ELSE BindLine(modifier, g[s \ {Max(s)}], lines[Max(s)])]
      <3> HIDE DEF n
      <3> QED BY <2>3
    <2>5. BindTable(g, modifier, base, lines)
      <3> HIDE DEF n
      <3> QED BY <1>1, <2>4 DEF BindTable
    <2> QED BY <2>5
  <1>5. BindTable(T, modifier, base, lines)
    BY <1>4
  <1> HIDE DEF T
  <1>6. \A s \in SUBSET (1 .. n) :
            T[s] = IF s = {} THEN base ELSE BindLine(modifier, T[s \ {Max(s)}], lines[Max(s)])
    <2> HIDE DEF n
    <2>1. T = [s \in SUBSET (1 .. n) |->
                  IF s = {} THEN base ELSE BindLine(modifier, T[s \ {Max(s)}], lines[Max(s)])]
      BY <1>1, <1>5 DEF BindTable
    <2> QED BY <2>1
  <1>7. T[1 .. 0] = base
    <2>1. 1 .. 0 = {} /\ {} \in SUBSET (1 .. n)
      OBVIOUS
    <2> QED BY <1>6, <2>1
  <1>8. ASSUME NEW k \in 1 .. n PROVE T[1 .. k] = BindLine(modifier, T[1 .. (k - 1)], lines[k])
    <2> HIDE DEF n
    <2> QED BY <1>1, <1>6, FirstOnes
  <1> DEFINE S == {k \in 0 .. n : T[1 .. k] \in V}
  <1>9. ASSUME NEW k \in 1 .. n, k - 1 \in S PROVE k \in S
    <2>1. T[1 .. (k - 1)] \in V
      BY <1>9
    <2>2. T[1 .. k] \in V
      BY <1>3, <1>8, <2>1
    <2> QED BY <2>2
  <1>10. \A k \in 0 .. n : k \in S
    <2>1. 0 \in S
      BY <1>1, <1>3, <1>7
    <2> HIDE DEF n, S
    <2> QED BY <1>1, <1>9, <2>1, UpTo
  <1>11. p \in [0 .. n -> V]
    BY <1>10
  <1>12. p[0] = base /\ p[n] = T[DOMAIN lines]
    BY <1>1, <1>7
  <1>13. ASSUME NEW k \in 1 .. n PROVE p[k] = BindLine(modifier, p[k - 1], lines[k])
    <2>1. k \in 0 .. n /\ k - 1 \in 0 .. n
      BY <1>1
    <2>2. p[k] = T[1 .. k] /\ p[k - 1] = T[1 .. (k - 1)]
      <3> HIDE DEF n
      <3> QED BY <2>1
    <2> QED BY <1>8, <2>2
  <1> HIDE DEF p, n
  <1> QED BY <1>2, <1>11, <1>12, <1>13 DEF BindChain, n, V

(* The lines that bind a chord, and what it does after all of them.        *)
Binding(lines, modifier, chord) ==
    {i \in DOMAIN lines : /\ lines[i].key = "bind" /\ parse_bind(lines[i], modifier) # Invalid
                          /\ Chord(parse_bind(lines[i], modifier)) = chord}

LEMMA BindsOfLines ==
    ASSUME NEW lines \in Seq(Lines), NEW modifier, NEW D, NEW base \in Seq(D), NEW chord
    PROVE  ActionOf(Folded(modifier, base, lines), chord) =
              IF Binding(lines, modifier, chord) = {} THEN ActionOf(base, chord)
              ELSE lines[Max(Binding(lines, modifier, chord))].action
  <1> DEFINE n == Len(lines)
             M == Binding(lines, modifier, chord)
             X == D \cup {parse_bind(line, modifier) : line \in Lines}
  <1>1. n \in Nat /\ DOMAIN lines = 1 .. n /\ \A k \in 1 .. n : lines[k] \in Lines
    BY SeqFacts
  <1>2. base \in Seq(X) /\ \A line \in Lines : parse_bind(line, modifier) \in X
    <2>1. base \in [1 .. Len(base) -> D] /\ Len(base) \in Nat
      OBVIOUS
    <2>2. base \in [1 .. Len(base) -> X]
      BY <2>1
    <2> QED BY <2>1, <2>2
  <1> HIDE DEF X
  <1>3. PICK p \in [0 .. n -> Seq(X)] :
            /\ p[0] = base /\ p[n] = Folded(modifier, base, lines)
            /\ \A k \in 1 .. n : p[k] = BindLine(modifier, p[k - 1], lines[k])
    <2>1. BindChain(lines, modifier, X, base)
      BY <1>2, BindSteps
    <2> QED BY <2>1 DEF BindChain
  <1> DEFINE v == [k \in 0 .. n |-> ActionOf(p[k], chord)]
             f == [k \in 1 .. n |-> lines[k].action]
  <1>4. ASSUME NEW k \in 1 .. n PROVE v[k] = IF k \in M THEN f[k] ELSE v[k - 1]
    <2> DEFINE e == parse_bind(lines[k], modifier)
    <2>1. k \in 0 .. n /\ k - 1 \in 0 .. n /\ lines[k] \in Lines /\ e \in X
      BY <1>1, <1>2
    <2>2. p[k - 1] \in Seq(X) /\ p[k] = BindLine(modifier, p[k - 1], lines[k])
      BY <1>3, <2>1
    <2>3. k \in M <=> lines[k].key = "bind" /\ e # Invalid /\ Chord(e) = chord
      BY <1>1 DEF Binding
    <2>4. e # Invalid => e.action = lines[k].action
      BY DEF parse_bind
    <2> HIDE DEF e
    <2>5. ActionOf(p[k], chord) = IF k \in M THEN lines[k].action ELSE ActionOf(p[k - 1], chord)
      <3>1. CASE lines[k].key # "bind" \/ e = Invalid
        <4>1. p[k] = p[k - 1]
          BY <2>2, <3>1 DEF BindLine, e
        <4> HIDE DEF M
        <4> QED BY <2>3, <3>1, <4>1
      <3>2. CASE lines[k].key = "bind" /\ e # Invalid
        <4>1. p[k] = Put(p[k - 1], e, Chord)
          BY <2>2, <3>2 DEF BindLine, e
        <4>2. \A c : ActionOf(p[k], c) = IF c = Chord(e) THEN e.action ELSE ActionOf(p[k - 1], c)
          BY SMTT(30), <2>1, <2>2, <4>1, PutBind
        <4> HIDE DEF M
        <4> QED BY <2>3, <2>4, <3>2, <4>2
      <3> QED BY <3>1, <3>2
    <2> HIDE DEF n, M
    <2> QED BY <2>1, <2>5
  <1>5. M \in SUBSET (1 .. n)
    BY <1>1 DEF Binding
  <1>6. v[n] = ActionOf(p[n], chord) /\ v[0] = ActionOf(base, chord)
    BY <1>1, <1>3
  <1>7. M # {} => f[Max(M)] = lines[Max(M)].action
    <2> SUFFICES ASSUME M # {} PROVE f[Max(M)] = lines[Max(M)].action
      OBVIOUS
    <2> HIDE DEF M, n
    <2>1. Max(M) \in 1 .. n
      BY <1>1, <1>5, MaxIsIn
    <2> QED BY <2>1
  <1> HIDE DEF v, f, M, n
  <1>8. Latest(v, f, M, n)
    BY <1>1, <1>4, <1>5, LastWins
  <1> QED BY <1>3, <1>6, <1>7, <1>8 DEF M, Latest

(* The default binds are a list.                                           *)
LEMMA Appended ==
    ASSUME NEW p, NEW A, p \in Seq(A), NEW q, NEW B, q \in Seq(B)
    PROVE  p \o q \in Seq(A \cup B)
  <1>1. ASSUME NEW r, NEW C, r \in Seq(C), NEW E, C \subseteq E PROVE r \in Seq(E)
    <2>1. r \in [1 .. Len(r) -> C] /\ Len(r) \in Nat
      BY <1>1
    <2>2. r \in [1 .. Len(r) -> E]
      BY <1>1, <2>1
    <2> QED BY <2>1, <2>2
  <1>2. p \in Seq(A \cup B) /\ q \in Seq(A \cup B)
    BY <1>1
  <1> QED BY <1>2, ConcatProperties

LEMMA DefaultBindsType ==
    ASSUME NEW modifier
    PROVE  \E D : default_binds(modifier) \in Seq(D)
  <1> DEFINE Bind(more, sym, action) == [mods |-> modifier \cup more, sym |-> sym, action |-> action]
             Toward4(more, what) == [i \in 1 .. 4 |-> Bind(more, Hjkl[i], <<what, Toward[i]>>)]
             Space(i) == IF i % 2 = 1 THEN Bind({}, Digits[(i + 1) \div 2], <<"Workspace", (i + 1) \div 2>>)
                         ELSE Bind({"SHIFT"}, Digits[i \div 2], <<"MoveToWorkspace", i \div 2>>)
             b1 == Bind({}, "Return", <<"Spawn">>)
             b2 == Bind({}, "Q", <<"Close">>)
             b3 == Bind({"SHIFT"}, "Q", <<"Quit">>)
             b4 == Bind({}, "F", <<"Fullscreen">>)
             b5 == Bind({}, "V", <<"ToggleFloating">>)
             p1 == <<b1, b2, b3>>
             p2 == Toward4({}, "MoveFocus")
             p3 == Toward4({"SHIFT"}, "MoveWindow")
             p4 == Toward4({"CTRL"}, "ResizeWindow")
             p5 == <<b4, b5>>
             p6 == [i \in 1 .. 2 * WorkspaceCount |-> Space(i)]
  <1>1. default_binds(modifier) = p1 \o p2 \o p3 \o p4 \o p5 \o p6
    BY DEF default_binds
  <1> HIDE DEF b1, b2, b3, b4, b5
  <1>2. p1 \in Seq({b1, b2, b3}) /\ p5 \in Seq({b4, b5})
    OBVIOUS
  <1>3. ASSUME NEW more, NEW what PROVE Toward4(more, what) \in Seq(Range(Toward4(more, what)))
    <2> DEFINE t == Toward4(more, what)
    <2>1. DOMAIN t = 1 .. 4 /\ t = [i \in DOMAIN t |-> t[i]]
      OBVIOUS
    <2> HIDE DEF t
    <2>2. t \in [1 .. 4 -> Range(t)]
      BY <2>1 DEF Range
    <2>3. t \in Seq(Range(t))
      BY <2>2, Listing
    <2> QED BY <2>3 DEF t
  <1>4. p6 \in Seq(Range(p6))
    <2>1. DOMAIN p6 = 1 .. 2 * WorkspaceCount /\ p6 = [i \in DOMAIN p6 |-> p6[i]]
      OBVIOUS
    <2>2. 2 * WorkspaceCount \in Nat
      BY ConfigAssumption
    <2> HIDE DEF p6
    <2>3. p6 \in [1 .. 2 * WorkspaceCount -> Range(p6)]
      BY <2>1 DEF Range
    <2> QED BY <2>2, <2>3
  <1>5. /\ p2 \in Seq(Range(p2)) /\ p3 \in Seq(Range(p3)) /\ p4 \in Seq(Range(p4))
    <2> HIDE DEF Toward4
    <2> QED BY <1>3
  <1> HIDE DEF p1, p2, p3, p4, p5, p6
  <1>6. \E D : p1 \o p2 \in Seq(D)
    BY <1>2, <1>5, Appended
  <1>7. \E D : p1 \o p2 \o p3 \in Seq(D)
    BY <1>5, <1>6, Appended
  <1>8. \E D : p1 \o p2 \o p3 \o p4 \in Seq(D)
    BY <1>5, <1>7, Appended
  <1>9. \E D : p1 \o p2 \o p3 \o p4 \o p5 \in Seq(D)
    BY <1>2, <1>8, Appended
  <1>10. \E D : p1 \o p2 \o p3 \o p4 \o p5 \o p6 \in Seq(D)
    BY <1>4, <1>9, Appended
  <1> QED BY <1>1, <1>10

-----------------------------------------------------------------------------
(* Config::load puts the two passes together; the binds do not touch the   *)
(* settings, the settings are read before the binds.                       *)
LEMMA LoadFacts ==
    ASSUME NEW lines \in Seq(Lines), NEW alt
    PROVE  LET c == Load(lines, alt)
               scalars == parse_scalars(Default, lines)
           IN  /\ scalars \in Configs
               /\ \A key \in Scalars : c[key] = scalars[key]
               /\ c.monitors = scalars.monitors /\ c.float_rules = scalars.float_rules
               /\ c.modifier = IF alt THEN {"ALT"} ELSE scalars.modifier
               /\ c.binds = Folded(c.modifier, default_binds(c.modifier), lines)
  <1> DEFINE scalars == parse_scalars(Default, lines)
             c1 == [scalars EXCEPT !.modifier = IF alt THEN {"ALT"} ELSE @]
             c2 == [c1 EXCEPT !.binds = default_binds(c1.modifier)]
             c3 == [c2 EXCEPT !.binds = Folded(c2.modifier, c2.binds, lines)]
  <1>1. scalars \in Configs
    <2>1. Len(lines) \in Nat
      BY SeqFacts
    <2>2. PICK p \in [0 .. Len(lines) -> Configs] : p[Len(lines)] = scalars
      BY DefaultType, ScalarSteps
    <2> QED BY <2>1, <2>2
  <1>2. Load(lines, alt) = c3
    BY DEF Load, apply_binds, Folded
  <1> HIDE DEF scalars
  <1>3. DOMAIN scalars = {"modifier", "gap", "background", "float_size", "monitors", "float_rules", "binds"}
    BY <1>1 DEF Configs
  <1>4. /\ c1.modifier = IF alt THEN {"ALT"} ELSE scalars.modifier
        /\ \A f \in DOMAIN scalars : f # "modifier" => c1[f] = scalars[f]
        /\ DOMAIN c1 = DOMAIN scalars
    BY <1>3
  <1> HIDE DEF c1
  <1>5. /\ c2.binds = default_binds(c1.modifier)
        /\ \A f \in DOMAIN scalars : f # "binds" => c2[f] = c1[f]
        /\ DOMAIN c2 = DOMAIN scalars
    BY <1>3, <1>4
  <1> HIDE DEF c2
  <1>6. /\ c3.binds = Folded(c2.modifier, c2.binds, lines)
        /\ \A f \in DOMAIN scalars : f # "binds" => c3[f] = c2[f]
    BY <1>3, <1>5
  <1> HIDE DEF c3
  <1>7. \A key \in Scalars : c3[key] = scalars[key]
    BY <1>3, <1>4, <1>5, <1>6 DEF Scalars
  <1>8. /\ c3.monitors = scalars.monitors /\ c3.float_rules = scalars.float_rules
        /\ c3.modifier = IF alt THEN {"ALT"} ELSE scalars.modifier
        /\ c3.modifier = c2.modifier /\ c2.modifier = c1.modifier
    BY <1>3, <1>4, <1>5, <1>6
  <1>9. c3.binds = Folded(c3.modifier, default_binds(c3.modifier), lines)
    BY <1>5, <1>6, <1>8
  <1> QED BY <1>1, <1>2, <1>7, <1>8, <1>9 DEF scalars

(* The file is a list of lines.                                            *)
LEMMA TextType == Spec => [](text \in Seq(Lines))
  <1>1. Init => text \in Seq(Lines)
    BY DEF Init
  <1>2. text \in Seq(Lines) /\ [Next]_vars => (text \in Seq(Lines))'
    <2> SUFFICES ASSUME text \in Seq(Lines), [Next]_vars
                 PROVE  (text \in Seq(Lines))'
      OBVIOUS
    <2>1. ASSUME NEW line \in Lines, Write(line) PROVE (text \in Seq(Lines))'
      BY <2>1 DEF Write
    <2>2. \/ UNCHANGED text
          \/ \E line \in Lines : Write(line)
      BY DEF Next, vars, fileVars, Start, Stop, KeyPress, KeyRelease, KeyboardDestroy, FocusMoved,
             ButtonPress, ButtonRelease, GrabDropped
    <2> QED BY <2>1, <2>2
  <1> QED BY <1>1, <1>2, PTL DEF Spec

(* What Start leaves: the configuration the file loads as.                 *)
Loaded == text \in Seq(Lines) /\ config = Load(text, oxideMod)

SettingsMeant ==
    /\ \A key \in Scalars : SettingMeansTheFile(key)
    /\ ModifierMeansTheFile /\ MonitorsMeanTheFile /\ RulesMeanTheFile

LEMMA LoadedSettings == Loaded => SettingsMeant
  <1> SUFFICES ASSUME Loaded PROVE SettingsMeant
    OBVIOUS
  <1> DEFINE scalars == parse_scalars(Default, text)
  <1>1. text \in Seq(Lines) /\ Len(text) \in Nat /\ DOMAIN text = 1 .. Len(text)
    BY SeqFacts DEF Loaded
  <1>2. /\ scalars \in Configs
        /\ \A key \in Scalars : config[key] = scalars[key]
        /\ config.monitors = scalars.monitors /\ config.float_rules = scalars.float_rules
        /\ config.modifier = IF oxideMod THEN {"ALT"} ELSE scalars.modifier
    BY LoadFacts DEF Loaded
  <1>3. ASSUME NEW key \in Scalars PROVE SettingMeansTheFile(key)
    <2>1. scalars[key] = IF Setting(text, key) = {} THEN Unset ELSE text[Max(Setting(text, key))].value
      BY <1>1, SettingOfLines
    <2>2. config[key] = scalars[key]
      BY <1>2
    <2> HIDE DEF scalars
    <2> QED BY <2>1, <2>2 DEF SettingMeansTheFile, Where, LastOf, Setting
  <1>4. ModifierMeansTheFile
    <2>1. scalars.modifier = IF Modifying(text) = {} THEN {"LOGO"}
                             ELSE parse_mods(text[Max(Modifying(text))].mods, {"LOGO"})
      BY <1>1, ModifierOfLines
    <2> HIDE DEF scalars
    <2> QED BY <1>2, <2>1 DEF ModifierMeansTheFile, Where, LastOf, Modifying
  <1>5. MonitorsMeanTheFile
    <2> DEFINE s == config.monitors
               n == Len(text)
               named == {text[i].name : i \in {j \in DOMAIN text : Parses(text[j])}}
               Of(x) == {j \in DOMAIN text : Parses(text[j]) /\ text[j].name = x}
    <2>1. Listed(s, text, n)
      BY <1>1, <1>2, MonitorsOfLines
    <2>2. s \in Seq(Monitors) /\ Len(s) \in Nat /\ DOMAIN s = 1 .. Len(s)
      BY <2>1, SeqFacts DEF Listed
    <2>3. \A x : Naming(text, n, x) = Of(x)
      BY <1>1 DEF Naming
    <2>4. ASSUME NEW i \in 1 .. Len(s)
          PROVE  /\ s[i].name \in named
                 /\ s[i] = [name |-> s[i].name, value |-> text[Max(Of(s[i].name))].value]
      <3>1. s[i] \in Monitors
        BY <2>2, SeqFacts
      <3>2. Of(s[i].name) # {} /\ s[i].value = text[Max(Of(s[i].name))].value
        <4> HIDE DEF s, n, Of, named
        <4>1. /\ Naming(text, n, s[i].name) # {}
              /\ s[i].value = text[Max(Naming(text, n, s[i].name))].value
          BY <2>1 DEF Listed
        <4> QED BY <2>3, <4>1
      <3>3. s[i].name \in named
        BY <3>2
      <3> HIDE DEF s, Of, named
      <3> QED BY <3>1, <3>2, <3>3 DEF Monitors
    <2>5. ASSUME NEW x \in named PROVE \E i \in 1 .. Len(s) : s[i].name = x
      BY <1>1, <2>1 DEF Listed
    <2>6. Len(s) = Cardinality(named)
      <3> DEFINE f == [i \in 1 .. Len(s) |-> s[i].name]
      <3>1. f \in Bijection(1 .. Len(s), named)
        <4>1. \A i, j \in 1 .. Len(s) : s[i].name = s[j].name => i = j
          BY <2>1 DEF Listed
        <4> HIDE DEF s, named
        <4> QED BY <2>4, <2>5, <4>1 DEF Bijection, Injection, Surjection, IsInjective
      <3> HIDE DEF s, named, f
      <3> QED BY <2>2, <3>1, FS_CountingElements DEF ExistsBijection
    <2>7. Range(s) = {[name |-> x, value |-> text[Max(Of(x))].value] : x \in named}
      <3> HIDE DEF s, named, Of
      <3>1. ASSUME NEW x \in named
            PROVE  \E i \in DOMAIN s : s[i] = [name |-> x, value |-> text[Max(Of(x))].value]
        BY <2>2, <2>4, <2>5
      <3> QED BY <2>2, <2>4, <3>1 DEF Range
    <2> HIDE DEF s
    <2> QED BY <2>6, <2>7 DEF MonitorsMeanTheFile, Where, LastOf, Parses, s
  <1>6. RulesMeanTheFile
    <2>1. /\ IsInjective(scalars.float_rules)
          /\ Range(scalars.float_rules) = {text[i].app : i \in {j \in DOMAIN text : Ruling(text[j])}}
      BY <1>1, RulesOfLines
    <2> HIDE DEF scalars
    <2> QED BY <1>2, <2>1 DEF RulesMeanTheFile, Where, Ruling
  <1> QED BY <1>3, <1>4, <1>5, <1>6 DEF SettingsMeant

ChordsMeant ==
    \A defaults : defaults = default_binds(config.modifier)
                  => \A chord : ChordMeansTheFile(chord, defaults)

LEMMA LoadedChords == Loaded => ChordsMeant
  <1> SUFFICES ASSUME Loaded, NEW chord
               PROVE  ChordMeansTheFile(chord, default_binds(config.modifier))
    BY DEF ChordsMeant
  <1> DEFINE m == config.modifier
             base == default_binds(m)
             M == Binding(text, m, chord)
  <1>1. text \in Seq(Lines) /\ config.binds = Folded(m, base, text)
    BY LoadFacts DEF Loaded
  <1>2. PICK D : base \in Seq(D)
    BY DefaultBindsType
  <1>3. ActionOf(config.binds, chord) =
            IF M = {} THEN ActionOf(base, chord) ELSE text[Max(M)].action
    <2> HIDE DEF base
    <2> QED BY <1>1, <1>2, BindsOfLines
  <1>4. M = {i \in DOMAIN text : Binds(text[i]) /\ Named(text[i]) = chord}
    BY DEF Binding, Binds, Named
  <1> HIDE DEF M
  <1> QED BY <1>3, <1>4 DEF ChordMeansTheFile, Where, LastOf

(* For any file, of any length: each setting is what its last line that    *)
(* parses says, each monitor has one entry, each app one rule              *)
(* (src/config.rs, parse_scalars).                                         *)
THEOREM SettingsFollowTheFile == Spec => SettingsMeanTheFile
  <1>1. text \in Seq(Lines) /\ Start => Loaded'
    BY DEF Start, Loaded
  <1>2. Loaded' => SettingsMeant'
    BY LoadedSettings, PTL
  <1>3. text \in Seq(Lines) /\ [Next]_vars =>
            [Start => /\ \A key \in Scalars : SettingMeansTheFile(key)'
                      /\ ModifierMeansTheFile' /\ MonitorsMeanTheFile' /\ RulesMeanTheFile']_vars
    BY <1>1, <1>2 DEF SettingsMeant
  <1> QED BY <1>3, TextType, PTL DEF Spec, SettingsMeanTheFile

(* For any file, of any length: a chord does what the last line naming it  *)
(* says, with MOD read as the final modifier, else what it does by default *)
(* (src/config.rs, apply_binds).                                           *)
THEOREM ChordsFollowTheFile == Spec => ChordsMeanTheFile
  <1> DEFINE Meant ==
        \A defaults \in {default_binds(config'.modifier)} :
        \A chord \in {Chord(b) : b \in Range(defaults \o config'.binds)}
                    \cup {Named(text[i])' : i \in Where(Binds)'} :
            ChordMeansTheFile(chord, defaults)'
  <1>1. text \in Seq(Lines) /\ Start => Loaded'
    BY DEF Start, Loaded
  <1>2. Loaded' => ChordsMeant'
    BY LoadedChords, PTL
  <1>3. Loaded' => Meant
    BY <1>2 DEF ChordsMeant
  <1> HIDE DEF Meant
  <1>4. text \in Seq(Lines) /\ [Next]_vars => [Start => Meant]_vars
    BY <1>1, <1>3
  <1>5. ChordsMeanTheFile <=> [][Start => Meant]_vars
    BY DEF ChordsMeanTheFile, Meant
  <1> QED BY <1>4, <1>5, TextType, PTL DEF Spec
=============================================================================
