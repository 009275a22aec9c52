------------------------------ MODULE GoldViews ------------------------------
(***************************************************************************)
(* The views of sql/gold/07 and 11 that the tools select from, as          *)
(* operators over a database g: g.docs are the live invoices of            *)
(* dbo.documento, g.sales and g.stock the rows of the two weekly facts.  A *)
(* view spans all tenants; the query that reads it picks one.  The         *)
(* dimensions and the plan are parameters.                                 *)
(*                                                                         *)
(* One measure stands for units, revenue, cost, margin and discount: the   *)
(* number of invoices a row adds up.  Ids and names are numbers, a month   *)
(* is month_id_iso (202601), NULL is None.  A price stands for the list    *)
(* price, the unit cost and the value of a unit in stock.  Days of         *)
(* coverage are exact, without the rounding of their DECIMALs; the stock   *)
(* columns of the panels are left out.                                     *)
(***************************************************************************)
EXTENDS Integers, FiniteSetsExt

CONSTANTS
    DimSku,      \* gold.dim_sku: [tenant, sku, brand, name, active, service];
                 \* name is the brand_name that is stored with each product
    DimStore,    \* gold.dim_store: [tenant, store, active]
    Planned,     \* gold.fact_sales_plan: [tenant, week, brand, n]
    MonthOf,     \* gold.dim_date: the month of the Thursday of a week
    Today,       \* the week of SYSUTCDATETIME()
    Price,       \* per product
    Rule,        \* per product: its rule of gold.dim_business_rules, or the
                 \* defaults: [min, max] days of coverage, idle weeks
    None         \* NULL

Own(rows, t) == {r \in rows : r.tenant = t}

\* (? IS NULL OR col = ?)
Is(filter, value) == filter \in {None, value}

Amount(rows) == SumFunction([r \in rows |-> r.n])

\* MAX, NULL of no rows.
Latest(periods) == IF periods = {} THEN None ELSE Max(periods)

\* SELECT TOP (n) ... ORDER BY
First(n, rows, Ahead(_, _)) ==
    {r \in rows : Cardinality({s \in rows : Ahead(s, r)}) < n}

Sells(a, b) ==
    \/ a.n > b.n
    \/ a.n = b.n /\ a.id < b.id

\* A brand may have several rows (ActiveBrands).
SellsAs(a, b) == Sells(a, b) \/ (a.n = b.n /\ a.id = b.id /\ a.name < b.name)

\* alert_id begins with the type, by the alphabet.
TypeOrder == [OBSOLETE |-> 1, OVERSTOCK |-> 2, STOCK_ZERO |-> 3, UNDERSTOCK |-> 4]
Impacts(a, b) ==
    \/ a.impact > b.impact
    \/ /\ a.impact = b.impact
       /\ \/ TypeOrder[a.type] < TypeOrder[b.type]
          \/ a.type = b.type /\ (a.store < b.store \/ (a.store = b.store /\ a.sku < b.sku))

-----------------------------------------------------------------------------
(* The views.                                                              *)

BrandOf(t, k) ==
    LET rows == {d \in Own(DimSku, t) : d.sku = k}
    IN  IF rows = {} THEN 0 ELSE (CHOOSE d \in rows : TRUE).brand

LatestSales(g, t) == Latest({r.week : r \in Own(g.sales, t)})
LatestStock(g, t) == Latest({r.week : r \in Own(g.stock, t)})

\* velocity_4w: what sold in the weeks that ended at most 28 days ago.
SoldIn4w(g, s) ==
    Amount({r \in Own(g.sales, s.tenant) : r.store = s.store /\ r.sku = s.sku /\ r.week + 4 >= Today})

\* days_coverage, left * 28 / sold, beyond the days of the rule or short of them.
Above(x, days) == x.sold > 0 /\ 28 * x.left > days * x.sold
Below(x, days) == x.sold > 0 /\ 28 * x.left < days * x.sold

\* The column status_color of a row x of the view.
StatusColor(x) ==
    IF x.left = 0 \/ x.obsolete       THEN "RED"
    ELSE IF x.sold = 0                THEN "GREY"
    ELSE IF Above(x, Rule[x.sku].max) THEN "RED"
    ELSE IF Below(x, Rule[x.sku].min) THEN "YELLOW" ELSE "GREEN"

\* vw_sku_coverage_status: the latest week of the stock of each tenant.
CoverageView(g) ==
    {[tenant |-> s.tenant, week |-> s.week, store |-> s.store, sku |-> s.sku,
      brand |-> BrandOf(s.tenant, s.sku), left |-> s.left, obsolete |-> s.obsolete,
      sold |-> SoldIn4w(g, s)] :
        s \in {s \in g.stock : s.week = LatestStock(g, s.tenant)}}

\* The four branches of vw_active_alerts: a row that is obsolete may be short, too.
Raises(x, type) ==
    CASE type = "STOCK_ZERO" -> x.left = 0
      [] type = "OBSOLETE"   -> x.left # 0 /\ x.obsolete
      [] type = "OVERSTOCK"  -> x.left # 0 /\ ~x.obsolete /\ Above(x, Rule[x.sku].max)
      [] type = "UNDERSTOCK" -> x.left # 0 /\ Below(x, Rule[x.sku].min)

\* left * Price is stock_value.
SeverityOf(x, type) ==
    CASE type = "STOCK_ZERO" -> IF x.sold > 0 THEN "HIGH" ELSE "MEDIUM"
      [] type = "OBSOLETE"   -> IF x.left * Price[x.sku] > 0 THEN "MEDIUM" ELSE "LOW"
      [] type = "OVERSTOCK"  -> IF Above(x, 2 * Rule[x.sku].max) THEN "HIGH" ELSE "MEDIUM"
      [] type = "UNDERSTOCK" -> IF 2 * 28 * x.left < Rule[x.sku].min * x.sold THEN "HIGH" ELSE "MEDIUM"

\* estimated_impact_usd, in 56ths: a week's sales, the stock, what there is too
\* much of it, and half of what is missing.
ImpactOf(x, type) ==
    CASE type = "STOCK_ZERO" -> 14 * x.sold * Price[x.sku]
      [] type = "OBSOLETE"   -> 56 * x.left * Price[x.sku]
      [] type = "OVERSTOCK"  -> 2 * (28 * x.left - Rule[x.sku].max * x.sold) * Price[x.sku]
      [] type = "UNDERSTOCK" -> (Rule[x.sku].min * x.sold - 28 * x.left) * Price[x.sku]

AlertOf(x, type) ==
    [tenant |-> x.tenant, type |-> type, store |-> x.store, sku |-> x.sku, brand |-> x.brand,
     severity |-> SeverityOf(x, type), impact |-> ImpactOf(x, type)]

\* All are of the level SKU.
AlertsView(g) ==
    UNION {{AlertOf(x, type) : x \in {x \in CoverageView(g) : Raises(x, type)}} :
              type \in DOMAIN TypeOrder}

\* vw_action_recommendation_priority: impact by severity_weight.
Weight(severity) == CASE severity = "HIGH" -> 3 [] severity = "MEDIUM" -> 2 [] OTHER -> 1

PriorityView(g) == {[a EXCEPT !.impact = @ * Weight(a.severity)] : a \in AlertsView(g)}

\* NTILE(4): of N rows the one of rank r; the first N % 4 groups have one more.
Ntile(r, N) ==
    LET q == N \div 4
        m == N % 4
    IN  IF r <= m * (q + 1) THEN (r + q) \div (q + 1) ELSE m + (r - m * (q + 1) + q - 1) \div q

\* vw_sku_velocity_segmented: the active products that are not services, sold or
\* not, by what they sold in the weeks that ended at most 56 days ago.
VelocityView(g) ==
    LET active  == {d \in DimSku : d.active /\ ~d.service}
        units(d) == Amount({r \in Own(g.sales, d.tenant) : r.sku = d.sku /\ r.week + 8 >= Today})
        rank(d) == 1 + Cardinality({o \in Own(active, d.tenant) :
                          units(o) > units(d) \/ (units(o) = units(d) /\ o.sku < d.sku)})
    IN  {[tenant |-> d.tenant, id |-> d.sku, brand |-> d.brand, n |-> units(d),
          segment |-> Ntile(rank(d), Cardinality(Own(active, d.tenant)))] : d \in active}

\* Invoices, counted at the source: COUNT(DISTINCT d.id).
Tickets(docs) == Cardinality({d.id : d \in docs})

\* vw_store_dashboard: the active stores in the latest week of their tenant.
StoreView(g) ==
    {[tenant |-> s.tenant, id |-> s.store, week |-> LatestSales(g, s.tenant),
      n |-> Amount({r \in Own(g.sales, s.tenant) :
                       r.store = s.store /\ r.week = LatestSales(g, s.tenant)}),
      tickets |-> Tickets({d \in Own(g.docs, s.tenant) :
                       d.store = s.store /\ d.week = LatestSales(g, s.tenant)})] :
        s \in {s \in DimStore : s.active /\ LatestSales(g, s.tenant) # None}}

\* SELECT DISTINCT: a brand whose active products name it differently comes twice.
ActiveBrands ==
    {[tenant |-> d.tenant, brand |-> d.brand, name |-> d.name] : d \in {d \in DimSku : d.active}}

\* Wrong on purpose: the sales of all weeks.
BrandViewAllWeeks(g) ==
    {[tenant |-> b.tenant, id |-> b.brand, name |-> b.name, week |-> LatestSales(g, b.tenant),
      n |-> Amount({r \in Own(g.sales, b.tenant) : r.brand = b.brand}),
      plan |-> Amount({p \in Own(Planned, b.tenant) : p.brand = b.brand})] :
        b \in {b \in ActiveBrands : LatestSales(g, b.tenant) # None}}

\* vw_brand_performance: the brands of active products, the same way, and the plan.
BrandView(g) ==
    {[tenant |-> b.tenant, id |-> b.brand, name |-> b.name, week |-> LatestSales(g, b.tenant),
      n |-> Amount({r \in Own(g.sales, b.tenant) :
                       r.brand = b.brand /\ r.week = LatestSales(g, b.tenant)}),
      plan |-> Amount({p \in Own(Planned, b.tenant) :
                       p.brand = b.brand /\ p.week = LatestSales(g, b.tenant)})] :
        b \in {b \in ActiveBrands : LatestSales(g, b.tenant) # None}}

\* vw_sales_monthly: the fact with its weeks added up.
SalesMonthly(g) ==
    {[tenant |-> r.tenant, month |-> MonthOf[r.week], store |-> r.store, sku |-> r.sku,
      brand |-> r.brand,
      n |-> Amount({s \in g.sales : /\ s.tenant = r.tenant /\ MonthOf[s.week] = MonthOf[r.week]
                                    /\ s.store = r.store /\ s.sku = r.sku /\ s.brand = r.brand})] :
        r \in g.sales}

Months(g, t) == {r.month : r \in Own(SalesMonthly(g), t)}

\* vw_brand_performance_monthly, vw_store_dashboard_monthly: every active brand
\* and store in every month of its tenant.
BrandMonthlyView(g) ==
    UNION {{[tenant |-> b.tenant, id |-> b.brand, name |-> b.name, month |-> m,
             n |-> Amount({r \in Own(SalesMonthly(g), b.tenant) : r.brand = b.brand /\ r.month = m}),
             plan |-> Amount({p \in Own(Planned, b.tenant) :
                                 p.brand = b.brand /\ MonthOf[p.week] = m})] :
               m \in Months(g, b.tenant)} : b \in ActiveBrands}

StoreMonthlyView(g) ==
    UNION {{[tenant |-> s.tenant, id |-> s.store, month |-> m,
             n |-> Amount({r \in Own(SalesMonthly(g), s.tenant) : r.store = s.store /\ r.month = m}),
             tickets |-> Tickets({d \in Own(g.docs, s.tenant) :
                                     d.store = s.store /\ MonthOf[d.week] = m})] :
               m \in Months(g, s.tenant)} : s \in {s \in DimStore : s.active}}
=============================================================================
