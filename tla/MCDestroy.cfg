\* Three registrations, one function given to on() any number of times.
CONSTANTS
    a = a
    b = b
    c = c
    f = f
    Registrations <- ThreeRegistrations
    Callbacks <- OneCallback
    MaxListeners = 4
    MaxDepth = 3
SPECIFICATION Spec
SYMMETRY AnyOrder
INVARIANTS CalledAtMostOnce CancelledIsNotCalled NobodyIsSkipped
CHECK_DEADLOCK FALSE
