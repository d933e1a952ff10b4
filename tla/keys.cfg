SPECIFICATION Spec
CONSTANTS
    WorkspaceCount = 2
    Invalid = Invalid
    Unset = Unset
    Lines <- SomeLines
    PlainKeys = {"Q", "F1"}
    FunctionKeys = {"F1"}
    Held = {"LOGO", "CTRL", "ALT"}
    Buttons = {"LEFT", "RIGHT", "MIDDLE"}
    MaxLines = 3
    MaxTyped = 1
    MaxDown = 3
INVARIANTS NoStuckKey NoStuckButton
PROPERTIES ChordsMeanTheFile SettingsMeanTheFile
