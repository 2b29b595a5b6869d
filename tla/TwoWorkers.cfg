SPECIFICATION Spec
SYMMETRY Symmetry
CONSTANTS
    c1 = c1
    t1 = t1
    w1 = w1
    w2 = w2
    p1 = p1
    p2 = p2
    admin = admin
    NoTenant = NoTenant
    NoItem = NoItem
    NoEvent = NoEvent
    Calls = {c1}
    Tenants = {t1}
    TenantOf <- OneTenant
    EventStatuses <- AnyStatus
    Events <- FinalEvent
    Workers = {w1, w2}
    Apis = {p1, p2}
    Erasers = {}
    LegalHolds = {}
    MaxMessages = 2
    MaxRequests = 2
    EarlyExpiry = TRUE
    MaxRetry = 2
    MaxReceive = 2
INVARIANTS
    
    LiveMessageHasRecording
    OneWorkerPerCall
    FailedUsedItsRetries
CHECK_DEADLOCK FALSE
