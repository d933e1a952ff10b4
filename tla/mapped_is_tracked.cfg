SPECIFICATION Spec
CONSTANTS
    a = a
    o1 = o1
    Toplevels = {a}
    OutputIds = {o1}
    WorkspaceCount = 1
    Dialogs = {}
    FloatRules = {}
    NoToplevel = NoToplevel
    NoOutput = NoOutput
    Trees <- CountTrees
    NoTree <- CountNone
    LeafCount <- CountLeaves
    TreeInsertAt <- CountInsert
    TreeRemove <- CountRemove
    TreeResize <- CountResize
INVARIANT MappedIsTracked
