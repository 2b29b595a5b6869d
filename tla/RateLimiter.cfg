SPECIFICATION Spec
CONSTANTS
    Limit = 2
    Window = 3
    Resolution = 2
    MaxTime = 16
    MaxRequests = 7
INVARIANTS
    SlidingWindow
PROPERTIES
    RefusedOnlyAtLimit
CHECK_DEADLOCK FALSE
