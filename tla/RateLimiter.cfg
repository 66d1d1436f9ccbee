SPECIFICATION Spec
CONSTANTS
    c1 = c1
    c2 = c2
    Clients <- MCClients
    Limit = 2
    WindowSeconds = 3
    TicksPerSecond = 2
    MaxTime = 10
SYMMETRY MCSymmetry
INVARIANTS
    WindowHoldsLimit
    RetryAfterIsEnough
    RefusedOnlyAtLimit
PROPERTIES
    ImplementsSlidingWindow
