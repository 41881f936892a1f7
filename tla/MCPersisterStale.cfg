SPECIFICATION Spec
CONSTANTS
    parents = parents
    children = children
    NoTable = NoTable
    Clients = {c1, c2}
    Tables <- TwoTables
    Parent <- ChildOfParent
    Vals = {v1}
    CallbackTables = {parents, children}
    GivenIds = {1}
    Refs = {1}
    CanDrop = FALSE
    Prompt = TRUE
    MaxId = 2
    MaxOpen = 2
PROPERTY ReadsChangeNothing
