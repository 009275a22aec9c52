SPECIFICATION Spec
CONSTANTS
    None = None
    Tenants = {1, 2}
    Stores = {1, 2}
    Brands = {1, 2}
    Skus = {1, 2, 3, 4}
    Today = 3
    Callers = {1}
    AskedWeeks = {2, 3}
    DimSku <- MCDimSku
    DimStore <- MCDimStore
    Planned <- MCPlanned
    MonthOf <- MCMonthOf
    Price <- MCPrice
    Rule <- MCRule
    Limits <- MCLimits
    Issuable <- MCIssuable
    Initially <- MCInitially
    Tools = {"compare_periods"}
    MaxCommits = 0
    MaxFaults = 0
CHECK_DEADLOCK FALSE
INVARIANTS MonthlyBrandsAreTrue
