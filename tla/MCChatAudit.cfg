SPECIFICATION Spec
CONSTANTS
    r1 = r1
    r2 = r2
    t1 = t1
    c1 = c1
    c2 = c2
    NoTenant = NoTenant
    NoConv = NoConv
    Requests = {r1, r2}
    Tenants = {t1}
    Conversations = {c1, c2}
    CallerIds = {}
    Turns = 1
    MaxInFlight = 2
    MaxFaults = 1
SYMMETRY Symmetric
INVARIANTS EveryEndAudited
