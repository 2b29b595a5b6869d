SPECIFICATION Spec
CONSTANTS
    NoCall = NoCall
    c1 = c1
    c2 = c2
    c3 = c3
    p1 = p1
    p2 = p2
    Procs = {p1, p2}
    CallIds = {c1, c2, c3}
    CacheSize = 2
    MaxTurns = 4
SYMMETRY Symmetry
INVARIANTS
    TypeOK
    OneStartPerProcess
    KnownCallsAreMarked
    CacheIsLeastRecentlyUsed
CHECK_DEADLOCK FALSE
