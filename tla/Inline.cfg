SPECIFICATION InlineSpec
CONSTANTS
    c1 = c1
    t1 = t1
    w1 = w1
    w2 = w2
    p1 = p1
    p2 = p2
    admin = admin
    NoTenant = NoTenant
    NoItem = NoItem
    NoEvent = NoEvent
    Calls = {c1}
    Tenants = {t1}
    TenantOf <- OneTenant
    EventStatuses <- AnyStatus
    Events <- OutboundEvents
    Workers = {w1, w2}
    Apis = {p1}
    Erasers = {admin}
    LegalHolds = {}
    MaxMessages = 2
    MaxRequests = 3
    EarlyExpiry = FALSE
    MaxRetry = 2
    MaxReceive = 2
INVARIANTS
    SettledCallsAreAnalysed
    OwnerLossNeedsErasure
    CompletedIsPublished
PROPERTIES
    TasksLeadToAnalysis
CHECK_DEADLOCK FALSE
