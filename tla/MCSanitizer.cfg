SPECIFICATION Spec
CONSTANTS
    r1 = r1
    r2 = r2
    c1 = c1
    c2 = c2
    sku1 = sku1
    store1 = store1
    k1 = k1
    k2 = k2
    k3 = k3
    Missing = Missing
    Requests = {r1, r2}
    Conversations = {c1, c2}
    Entities = {sku1, store1}
    Named = {sku1}
    Loose = {store1}
    Tokens = {k1, k2, k3}
    MaxPayloads = 2
    MaxInFlight = 2
    MaxFaults = 1
SYMMETRY Symmetric
INVARIANTS TypeOK RawIdsHaveASource StableTokens RoundTrip
