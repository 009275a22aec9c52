SPECIFICATION Spec
CONSTANTS
    None = None
    Tenants = {1, 2}
    Stores = {1, 2}
    Brands = {1, 2}
    Skus = {1, 2, 3, 4}
    Today = 3
    Callers = {1}
    AskedWeeks = {2, 3}
    DimSku <- MCDimSku
    DimStore <- MCDimStore
    Planned <- MCPlanned
    MonthOf <- MCMonthOf
    Price <- MCPrice
    Rule <- MCRule
    Limits <- MCLimits
    Issuable <- MCIssuable
    Initially <- MCInitially
    Tools = {"get_executive_weekly_briefing", "get_store_daily_briefing", "get_brand_weekly_review",
        "get_executive_summary", "get_monthly_summary", "get_monthly_executive_briefing",
        "get_sku_detail", "get_store_dashboard", "get_brand_performance", "get_active_alerts",
        "get_action_recommendations", "get_sku_coverage_status", "get_velocity_segmentation",
        "compare_periods"}
    MaxCommits = 2
    MaxFaults = 1
CONSTRAINT FewFilters
CHECK_DEADLOCK FALSE
INVARIANTS TypeOK FiguresWereTrue ReportedPeriodHadSales NothingWasThere PanelsAddUp PeriodsAddUp
