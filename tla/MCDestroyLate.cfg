\* A listener that is registered by another one while destroy() calls it.
CONSTANTS
    a = a
    b = b
    c = c
    f = f
    Registrations <- ThreeRegistrations
    Callbacks <- NoCallbacks
    MaxListeners = 3
    MaxDepth = 2
SPECIFICATION Spec
INVARIANTS EveryListenerIsCalled
CHECK_DEADLOCK FALSE
