SPECIFICATION Spec
CONSTANTS
    a = a
    b = b
    o1 = o1
    o2 = o2
    Toplevels = {a, b}
    OutputIds = {o1, o2}
    WorkspaceCount = 3
    Dialogs = {}
    FloatRules = {}
    NoToplevel = NoToplevel
    NoOutput = NoOutput
    Trees <- CountTrees
    NoTree <- CountNone
    LeafCount <- CountLeaves
    TreeInsertAt <- CountInsert
    TreeRemove <- CountRemove
    TreeResize <- CountResize
SYMMETRY SymmetryAll
CONSTRAINT NoFullscreen
INVARIANTS VisibleIffShown ShownOnce
PROPERTIES ImplementsDesktop NeverLosesWindows
