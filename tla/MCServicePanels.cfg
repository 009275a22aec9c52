SPECIFICATION Spec
CONSTANTS
    Calls = {c1, c2}
    Tenants = {t1, t2}
    Roles = {tienda, sku}
    MetricsTTL = 2
    SuggestionsTTL = 2
    MonthLength = 2
    MaxClock = 4
    MaxRows = 1
    MaxMisses = 2
    Queries = 2
SYMMETRY Symmetric
INVARIANTS TypeOK MetricsAreFresh MetricsAgree SuggestionsAreFresh
