SPECIFICATION Spec
CONSTANTS
    r1 = r1
    r2 = r2
    t1 = t1
    t2 = t2
    c1 = c1
    c2 = c2
    x1 = x1
    NoTenant = NoTenant
    NoConv = NoConv
    Requests = {r1, r2}
    Tenants = {t1, t2}
    Conversations = {c1, c2}
    CallerIds = {x1}
    Turns = 1
    MaxInFlight = 2
    MaxFaults = 2
SYMMETRY Symmetric
INVARIANTS TypeOK SequencesGapless ReplyFollowsQuestion TenantIsolation AuditMatchesStore ChargedTurnsAreWhole
