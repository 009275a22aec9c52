SPECIFICATION Spec
CONSTANTS
    t1 = t1
    u1 = u1
    u2 = u2
    s1 = s1
    s2 = s2
    Tenants = {t1}
    Users = {u1, u2}
    Slots = {s1, s2}
    TenantPerHour = 3
    UserPerHour = 2
    TokensPerDay = 3
    Hour = 2
    Day = 4
    Costs = {0, 2}
    MaxTime = 5
    MaxLog = 4
CONSTRAINT Bound
SYMMETRY Symmetric
INVARIANTS TypeOK TenantQuota UserQuota DequesAgree TokenOvershootBounded
PROPERTIES ImplementsQuota
