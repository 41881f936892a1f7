SPECIFICATION Spec
CONSTANTS
    parents = parents
    children = children
    NoTable = NoTable
    Clients = {c1, c2}
    Tables <- TwoTables
    Parent <- ChildOfParent
    Vals = {v1}
    CallbackTables = {children}
    GivenIds = {1}
    Refs = {1}
    CanDrop = FALSE
    Prompt = FALSE
    MaxId = 2
    MaxOpen = 2
SYMMETRY Symmetry
INVARIANTS
    KnownIds
    EveryEntityLoads
