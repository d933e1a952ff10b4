SPECIFICATION Spec
CONSTANTS
    a = a
    b = b
    c = c
    o1 = o1
    Toplevels = {a, b, c}
    OutputIds = {o1}
    WorkspaceCount = 2
    Dialogs = {}
    FloatRules = {}
    NoToplevel = NoToplevel
    NoOutput = NoOutput
    Trees <- SplitTrees
    NoTree <- None
    LeafCount <- tree_leaf_count
    TreeInsertAt <- tree_insert_at
    TreeRemove <- tree_remove
    TreeResize <- tree_resize
    RatioUnits = 20
    MinRatio = 10
    MaxRatio = 10
    DefaultRatio = 10
    MaxLeaves = 3
SYMMETRY Symmetry
CONSTRAINT NoFullscreen
INVARIANTS FocusInRange EachWindowOnce TreeMatchesTiled
PROPERTIES FocusMovesInStep ClosingHandsFocusOn
