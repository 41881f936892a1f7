SPECIFICATION Spec
CONSTANTS
    parents = parents
    children = children
    NoTable = NoTable
    Clients = {c1}
    Tables <- TwoTables
    Parent <- ChildOfParent
    Vals = {v1}
    CallbackTables = {}
    GivenIds = {1}
    Refs = {1}
    CanDrop = TRUE
    Prompt = TRUE
    MaxId = 2
    MaxOpen = 1
INVARIANT EveryEntityLoads
