------------------------------- MODULE Queries -------------------------------
(***************************************************************************)
(* The queries of api/app/db/queries.py that the tools make, as operators  *)
(* over a database g and the tenant t who asks.  A result is a set of      *)
(* rows, or one row or None where the code returns rows[0] or None.        *)
(* fetch_audit_trail is a look-up by key and left out; the metrics of      *)
(* /metrics are modelled in ServicePanels.                                 *)
(***************************************************************************)
EXTENDS GoldViews

ActiveAlerts(g, t, level, severity, limit) ==
    First(limit, {a \in Own(AlertsView(g), t) : Is(level, "SKU") /\ Is(severity, a.severity)},
          Impacts)

ActionRecommendations(g, t, level, severity, limit) ==
    First(limit, {a \in Own(PriorityView(g), t) : Is(level, "SKU") /\ Is(severity, a.severity)},
          Impacts)

StoreDashboard(g, t, store, week) ==
    {r \in Own(StoreView(g), t) : Is(store, r.id) /\ Is(week, r.week)}

BrandPerformance(g, t, brand, week) ==
    {r \in Own(BrandView(g), t) : Is(brand, r.id) /\ Is(week, r.week)}

\* The worst colour first, then the most valuable; by the store where the code
\* leaves the order open.
Colour(status) == CASE status = "RED" -> 1 [] status = "YELLOW" -> 2
                    [] status = "GREY" -> 3 [] status = "GREEN" -> 4
StockValue(r) == r.left * Price[r.sku]
Worse(a, b) ==
    \/ Colour(StatusColor(a)) < Colour(StatusColor(b))
    \/ /\ Colour(StatusColor(a)) = Colour(StatusColor(b))
       /\ \/ StockValue(a) > StockValue(b)
          \/ StockValue(a) = StockValue(b) /\ (a.sku < b.sku \/ (a.sku = b.sku /\ a.store < b.store))

CoverageStatus(g, t, brand, store, status, sku, limit) ==
    First(limit, {r \in Own(CoverageView(g), t) : /\ Is(brand, r.brand) /\ Is(store, r.store)
                                                  /\ Is(status, StatusColor(r)) /\ Is(sku, r.sku)},
          Worse)

VelocitySegmentation(g, t, segment, brand, limit) ==
    First(limit, {r \in Own(VelocityView(g), t) : Is(segment, r.segment) /\ Is(brand, r.brand)},
          Sells)

-----------------------------------------------------------------------------
(* Weeks.                                                                  *)

\* fetch_latest_week, and the first statement of fetch_tenant_weekly_totals.
LatestWeek(g, t, store) == Latest({r.week : r \in {r \in Own(g.sales, t) : Is(store, r.store)}})

\* Wrong on purpose: the totals of a week without rows.
WeeklyTotalsOfNothing(g, t, week) ==
    [week |-> week, n |-> Amount({r \in Own(g.sales, t) : r.week = week})]

\* The second statement: an aggregate always has a row, rows_in_week tells.
WeeklyTotals(g, t, week) ==
    LET rows == {r \in Own(g.sales, t) : r.week = week}
    IN  IF rows = {} THEN None ELSE [week |-> week, n |-> Amount(rows)]

\* SUM is NULL of no rows.
PlanTotals(t, week) ==
    LET rows == {p \in Own(Planned, t) : p.week = week}
    IN  IF rows = {} THEN None ELSE Amount(rows)

DistinctTickets(g, t, week) == Tickets({d \in Own(g.docs, t) : d.week = week})

-----------------------------------------------------------------------------
(* One product.                                                            *)

SkuMaster(t, sku) ==
    LET rows == {d \in Own(DimSku, t) : d.sku = sku /\ d.active}
    IN  IF rows = {} THEN None ELSE CHOOSE d \in rows : TRUE

\* The last eight weeks in which it sold.
SkuSales(g, t, sku, store) ==
    LET rows  == {r \in Own(g.sales, t) : r.sku = sku /\ Is(store, r.store)}
        weeks == {r.week : r \in rows}
        last8 == {w \in weeks : Cardinality({v \in weeks : v > w}) < 8}
    IN  {[week |-> w, n |-> Amount({r \in rows : r.week = w})] : w \in last8}

SkuStock(g, t, sku, store) ==
    {r \in Own(g.stock, t) : r.week = LatestStock(g, t) /\ r.sku = sku /\ Is(store, r.store)}

-----------------------------------------------------------------------------
(* Months.                                                                 *)

LatestMonth(g, t) == Latest(Months(g, t))

\* GROUP BY month: no row when nothing was sold.
MonthlyTotals(g, t, month, brand, store) ==
    LET rows == {r \in Own(SalesMonthly(g), t) :
                    r.month = month /\ Is(brand, r.brand) /\ Is(store, r.store)}
    IN  IF rows = {} THEN None ELSE [month |-> month, n |-> Amount(rows)]

MonthlyBrandPerformance(g, t, brand, month) ==
    {r \in Own(BrandMonthlyView(g), t) : Is(brand, r.id) /\ Is(month, r.month)}

MonthlyStoreDashboard(g, t, store, month) ==
    {r \in Own(StoreMonthlyView(g), t) : Is(store, r.id) /\ Is(month, r.month)}

-----------------------------------------------------------------------------
(* Two periods, one row per bucket: SUM(CASE WHEN period = ? THEN ...).     *)

Bucket(id, A, B) == [id |-> id, a |-> Amount(A), b |-> Amount(B)]

\* Wrong on purpose: the buckets of the first period only.
ComparePeriodsOfFirst(g, t, a, b, scope) ==
    LET F      == {r \in Own(g.sales, t) : r.week = a}
        G      == {r \in Own(g.sales, t) : r.week = b}
    IN  CASE scope = "tenant" -> {Bucket(None, F, G)}
          [] scope = "brand"  -> {Bucket(k, {r \in F : BrandOf(t, r.sku) = k},
                                            {r \in G : BrandOf(t, r.sku) = k}) :
                                     k \in {BrandOf(t, r.sku) : r \in F}}
          [] scope = "store"  -> {Bucket(s, {r \in F : r.store = s}, {r \in G : r.store = s}) :
                                     s \in {r.store : r \in F}}

\* The brand is the one the product has now, and its product is in the dimension.
ComparePeriods(g, t, a, b, scope) ==
    LET Sold(w)   == {r \in Own(g.sales, t) : r.week = w}
        Joined(w) == {r \in Sold(w) : \E d \in Own(DimSku, t) : d.sku = r.sku}
    IN  CASE scope = "tenant" -> {Bucket(None, Sold(a), Sold(b))}
          [] scope = "brand"  -> {Bucket(k, {r \in Joined(a) : BrandOf(t, r.sku) = k},
                                            {r \in Joined(b) : BrandOf(t, r.sku) = k}) :
                                     k \in {BrandOf(t, r.sku) : r \in Joined(a) \cup Joined(b)}}
          [] scope = "store"  -> {Bucket(s, {r \in Sold(a) : r.store = s},
                                            {r \in Sold(b) : r.store = s}) :
                                     s \in {r.store : r \in Sold(a) \cup Sold(b)}}

\* A LEFT JOIN on the brand: a row comes once per active product of its brand,
\* and once if the brand has none.
Copies(t, brand) ==
    LET active == {d \in Own(DimSku, t) : d.brand = brand /\ d.active}
    IN  IF active = {} THEN 1 ELSE Cardinality(active)

ComparePeriodsMonthly(g, t, a, b, scope) ==
    LET Sold(m) == {r \in Own(SalesMonthly(g), t) : r.month = m}
        Joined(m) == {[r EXCEPT !.n = @ * Copies(t, r.brand)] : r \in Sold(m)}
    IN  CASE scope = "tenant" -> {Bucket(None, Sold(a), Sold(b))}
          [] scope = "brand"  -> {Bucket(k, {r \in Joined(a) : r.brand = k},
                                            {r \in Joined(b) : r.brand = k}) :
                                     k \in {r.brand : r \in Sold(a) \cup Sold(b)}}
          [] scope = "store"  -> {Bucket(s, {r \in Sold(a) : r.store = s},
                                            {r \in Sold(b) : r.store = s}) :
                                     s \in {r.store : r \in Sold(a) \cup Sold(b)}}
=============================================================================
