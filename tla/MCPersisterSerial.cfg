SPECIFICATION Spec
CONSTANTS
    parents = parents
    children = children
    NoTable = NoTable
    Clients = {c1}
    Tables <- TwoTables
    Parent <- ChildOfParent
    Vals = {v1, v2}
    CallbackTables = {children}
    GivenIds = {2}
    Refs = {0, 1}
    CanDrop = TRUE
    Prompt = FALSE
    MaxId = 2
    MaxOpen = 1
SYMMETRY Symmetry
INVARIANTS
    TypeOK
    
PROPERTY
    ActsAsStore
