\* Three requests with two retries each, two waiters and a listener of the user.
CONSTANTS
    Requests = {r1, r2, r3}
    Waiters = {w1, w2}
    UserListeners = {u}
    Limits = {1, 3}
    maxAttempts = 2
    MaxListeners = 3
SPECIFICATION FairSpec
INVARIANTS TypeOK CountIsExact NobodyWaitsForNothing
PROPERTIES LimitHolds WaitersAreReleased
