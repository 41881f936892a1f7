SPECIFICATION FairSpec
CONSTANTS
    Callers = {c1, c2}
    CallbackKinds <- AsyncKinds
PROPERTY EveryCallReturns
