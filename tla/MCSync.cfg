SPECIFICATION FairSpec
CONSTANTS
    Callers = {c1, c2, c3, c4}
    CallbackKinds <- AllKinds
INVARIANTS
    TypeOK
    MutualExclusion
    NoLostWakeup
    WaitersSpin
PROPERTIES
    ServesInOrder
    ReturnsIfLoopTurns
    FirstHolderFinishes
