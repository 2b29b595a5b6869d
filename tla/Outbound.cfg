SPECIFICATION Spec
CONSTANTS
    c1 = c1
    t1 = t1
    w1 = w1
    w2 = w2
    p1 = p1
    p2 = p2
    admin = admin
    NoTenant = NoTenant
    NoItem = NoItem
    NoEvent = NoEvent
    Calls = {c1}
    Tenants = {t1}
    TenantOf <- OneTenant
    EventStatuses <- AnyStatus
    Events <- OutboundEvents
    Workers = {w1}
    Apis = {p1, p2}
    Erasers = {}
    LegalHolds = {}
    MaxMessages = 2
    MaxRequests = 3
    EarlyExpiry = TRUE
    MaxRetry = 2
    MaxReceive = 2
INVARIANTS
    TypeOK
    MailedStaysReachable
    QueuedIsBacked
    OwnEventsAdmitted
    CompletedIsPublished
PROPERTIES
    KeepsContract
CHECK_DEADLOCK FALSE
