SPECIFICATION TenancySpec
CONSTANTS
    t1 = t1
    t2 = t2
    w1 = w1
    w2 = w2
    a1 = a1
    a2 = a2
    fields = fields
    NoFields = NoFields
    NoTenant = NoTenant
    TenantIds = {t1, t2}
    Assistants = {a1, a2}
    CallIds = {"c1"}
    FieldSets = {fields}
    Entries <- SomeEntries
    MaxEntries = 2
    Clients = {t1}
    NoOrganization = NoOrganization
    Writers = {w1, w2}
    MaxWrites = 2
SYMMETRY Symmetry
INVARIANTS
    ServedTenantsWereApproved
    FieldsWereInForce
    LostFieldsHadACause
    SavedFieldsStay
    GuidanceIsTheTenantsOwn
PROPERTIES
    GuidanceOnlyGrows
CHECK_DEADLOCK FALSE
