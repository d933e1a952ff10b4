SPECIFICATION Spec
CONSTANTS
    a = a
    b = b
    o1 = o1
    Toplevels = {a, b}
    OutputIds = {o1}
    WorkspaceCount = 2
    Dialogs = {a, b}
    FloatRules = {}
    NoToplevel = NoToplevel
    NoOutput = NoOutput
    Trees <- CountTrees
    NoTree <- CountNone
    LeafCount <- CountLeaves
    TreeInsertAt <- CountInsert
    TreeRemove <- CountRemove
    TreeResize <- CountResize
SYMMETRY SymmetryAll
INVARIANTS TypeOK TrackedIsMapped GrabTargetTracked TreeMatchesTiled LayerFollowsFloating TiledIsBinding
