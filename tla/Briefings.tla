----------------------------- MODULE Briefings -----------------------------
(***************************************************************************)
(* The read-only tools of api/app/tools: the three briefings that gather   *)
(* queries in parallel, each with its own time-out, and isolate the ones   *)
(* that fail (briefings.py); the summaries and monthly reports that await  *)
(* them one by one (executive.py, monthly.py, composite.py, sku.py); and   *)
(* the tools of a single query.  A query reads the database at a moment of *)
(* its own, while the nightly refresh deletes and inserts the facts a      *)
(* statement at a time and the ERP issues and voids documents: a report is *)
(* put together from several states of the database.                       *)
(*                                                                         *)
(* A tool is its Program: the stages of queries it awaits, and what must   *)
(* not be empty for it to go on.  The world is followed until the call is  *)
(* over.  The dimensions and the plan do not change.                       *)
(***************************************************************************)
EXTENDS Queries, Sequences, Functions

CONSTANTS
    Tenants, Stores, Brands, Skus,
    Tools,               \* the tools that may be called
    Callers, AskedWeeks, \* the tenants that call, the weeks they may name
    Limits,              \* the TOP (n) and slices of the tools
    Issuable,            \* invoices: [id, tenant, week, store, sku, left]
    Initially,           \* the sets of live documents to begin with
    MaxCommits, MaxFaults    \* bounds of the environment

Weeks    == DOMAIN MonthOf
Calendar == {MonthOf[w] : w \in Weeks}

ToolNames ==
    {"get_executive_weekly_briefing", "get_store_daily_briefing", "get_brand_weekly_review",
     "get_executive_summary", "get_monthly_summary", "get_monthly_executive_briefing",
     "get_sku_detail", "get_store_dashboard", "get_brand_performance", "get_active_alerts",
     "get_action_recommendations", "get_sku_coverage_status", "get_velocity_segmentation",
     "compare_periods"}

\* With the saldo that its kardex row leaves, which may be negative.
Document == [id : Nat, tenant : Tenants, week : Weeks, store : Stores, sku : Skus, left : Int]

LimitNames == {"top", "brands", "listed", "critical", "covered", "moving", "counted", "page"}

\* A week is a small number, a month one of six digits, and NULL neither.
ASSUME CalendarAssumption ==
    /\ Today \in Nat \ {0} /\ Today < 100000
    /\ MonthOf \in [1..Today -> Nat]
    /\ \A w \in 1..Today : MonthOf[w] > 100100 /\ MonthOf[w] % 100 \in 1..12
    /\ None \notin Nat

\* gold.dim_sku and gold.dim_store have one row per product and store of a tenant.
ASSUME DimensionsAssumption ==
    /\ DimSku \subseteq [tenant : Tenants, sku : Nat, brand : Nat, name : Nat,
                        active : BOOLEAN, service : BOOLEAN]
    /\ \A d, e \in DimSku : d.tenant = e.tenant /\ d.sku = e.sku => d = e
    /\ DimStore \subseteq [tenant : Tenants, store : Nat, active : BOOLEAN]
    /\ \A d, e \in DimStore : d.tenant = e.tenant /\ d.store = e.store => d = e
    /\ Planned \subseteq [tenant : Tenants, week : Weeks, brand : Nat, n : Nat]
    /\ IsFiniteSet(DimSku) /\ IsFiniteSet(DimStore) /\ IsFiniteSet(Planned)

\* A rule's most days of coverage are no fewer than its least (ck_rules_coverage).
ASSUME RulesAssumption ==
    /\ Price \in [Skus -> Nat]
    /\ Rule \in [Skus -> [min : Nat, max : Nat, idle : Nat]]
    /\ \A k \in Skus : Rule[k].min <= Rule[k].max

ASSUME BriefingsAssumption ==
    /\ IsFiniteSet(Tenants) /\ IsFiniteSet(Stores) /\ IsFiniteSet(Skus) /\ IsFiniteSet(Issuable)
    /\ Stores \cup Brands \cup Skus \subseteq Nat
    /\ Tools \subseteq ToolNames
    /\ Issuable \subseteq Document
    /\ Initially \subseteq SUBSET Issuable
    /\ \A d, e \in Issuable : d.id = e.id => d = e
    /\ Limits \in [LimitNames -> Nat]
    /\ Callers \subseteq Tenants /\ AskedWeeks \subseteq Weeks
    /\ {MaxCommits, MaxFaults} \subseteq Nat

VARIABLES
    db,        \* the live documents and the two weekly facts
    cleared,   \* per tenant: the fact its refresh has deleted and not inserted yet
    call,      \* the call of a tool
    seen,      \* history: the states of the database during the call
    commits,   \* changes of the database so far
    faults     \* queries that failed so far

vars == <<db, cleared, call, seen, commits, faults>>

-----------------------------------------------------------------------------
(* The world: the ERP and the statements of sp_refresh_all.                 *)

\* Lines of a week, store and product with the brand they were loaded with.
SalesRows(docs, t, W) ==
    {[tenant |-> t, week |-> d.week, store |-> d.store, sku |-> d.sku,
      brand |-> BrandOf(t, d.sku),
      n |-> Cardinality({e \in Own(docs, t) :
                            e.week = d.week /\ e.store = d.store /\ e.sku = d.sku})] :
        d \in {d \in Own(docs, t) : d.week \in W}}

\* Obsolete when its last sale, that document, is longer ago than its rule has it.
StockRow(t, w, s, k, d) ==
    [tenant |-> t, week |-> w, store |-> s, sku |-> k, left |-> d.left,
     obsolete |-> w > d.week + Rule[k].idle]

\* Wrong on purpose: every document of a product leaves a row behind.
StockRowsOfAll(docs, t, W) ==
    LET Upto(w, s, k) == {d \in Own(docs, t) : d.week <= w /\ d.store = s /\ d.sku = k}
    IN  UNION {{StockRow(t, x[1], x[2], x[3], d) :
                   d \in Upto(x[1], x[2], x[3])} : x \in W \X Stores \X Skus}

\* Forward filled, with what the last document of a product left behind.
StockRows(docs, t, W) ==
    LET Upto(w, s, k) == {d \in Own(docs, t) : d.week <= w /\ d.store = s /\ d.sku = k}
        Last(D) == CHOOSE d \in D : \A e \in D : d.week > e.week \/ (d.week = e.week /\ d.id >= e.id)
    IN  {StockRow(t, x[1], x[2], x[3], Last(Upto(x[1], x[2], x[3]))) :
            x \in {x \in W \X Stores \X Skus : Upto(x[1], x[2], x[3]) # {}}}

Rows(docs, t, W, table) ==
    IF table = "sales" THEN SalesRows(docs, t, W) ELSE StockRows(docs, t, W)

\* From the earliest live document to this week.
Window(docs, t) ==
    LET weeks == {d.week : d \in Own(docs, t)}
    IN  (IF weeks = {} THEN 1 ELSE Min(weeks))..Today

Loaded(docs) ==
    [docs |-> docs, sales |-> UNION {SalesRows(docs, t, Weeks) : t \in Tenants},
     stock |-> UNION {StockRows(docs, t, Weeks) : t \in Tenants}]

\* A statement commits; a call under way may see it.
Commit(new) ==
    /\ call.at \in {"idle", "running"} /\ commits < MaxCommits
    /\ db' = new
    /\ commits' = commits + 1
    /\ seen' = IF call.at = "running" THEN seen \cup {new} ELSE seen
    /\ UNCHANGED <<call, faults>>

EditDocument(d) ==
    /\ Commit([db EXCEPT !.docs = IF d \in @ THEN @ \ {d} ELSE @ \cup {d}])
    /\ UNCHANGED cleared

\* The DELETE of a fact, and its INSERT, which may never come.
Delete(t, table) ==
    LET W == Window(db.docs, t)
    IN  /\ Commit([db EXCEPT ![table] = {r \in @ : r.tenant # t \/ r.week \notin W}])
        /\ cleared' = [cleared EXCEPT ![t] = [table |-> table, weeks |-> W]]

Insert(t) ==
    LET c == cleared[t]
    IN  /\ c # None
        /\ Commit([db EXCEPT ![c.table] = @ \cup Rows(db.docs, t, c.weeks, c.table)])
        /\ cleared' = [cleared EXCEPT ![t] = None]

-----------------------------------------------------------------------------
(* The requests: the Input class of each tool.                              *)

Blank == [tool |-> None, tenant |-> None, period |-> None, to |-> None, store |-> None,
          brand |-> None, sku |-> None, status |-> None, severity |-> None, segment |-> None,
          scope |-> None]

Optional(S) == S \cup {None}

Weekly == {[Blank EXCEPT !.period = w] : w \in Optional(AskedWeeks)}

\* scope is 'brand:N' or 'store:N'.
Monthly ==
    UNION {{[Blank EXCEPT !.period = m, !.brand = b] : b \in Optional(Brands)}
           \cup {[Blank EXCEPT !.period = m, !.store = s] : s \in Stores} : m \in Optional(Calendar)}

Compared ==
    UNION {{[Blank EXCEPT !.period = p[1], !.to = p[2], !.scope = c] :
               p \in (AskedWeeks \X AskedWeeks) \cup (Calendar \X Calendar)} : c \in {"tenant", "brand", "store"}}

Inputs(tool) ==
    CASE tool \in {"get_executive_weekly_briefing", "get_executive_summary"} -> Weekly
      [] tool = "get_store_daily_briefing" ->
            {[x[1] EXCEPT !.store = x[2]] : x \in Weekly \X Stores}
      [] tool = "get_store_dashboard" ->
            {[x[1] EXCEPT !.store = x[2]] : x \in Weekly \X Optional(Stores)}
      [] tool = "get_brand_weekly_review" ->
            {[x[1] EXCEPT !.brand = x[2]] : x \in Weekly \X Brands}
      [] tool = "get_brand_performance" ->
            {[x[1] EXCEPT !.brand = x[2]] : x \in Weekly \X Optional(Brands)}
      [] tool = "get_monthly_summary" -> Monthly
      [] tool = "get_monthly_executive_briefing" ->
            {[Blank EXCEPT !.period = m] : m \in Optional(Calendar)}
      [] tool = "get_sku_detail" ->
            {[Blank EXCEPT !.sku = x[1], !.store = x[2]] : x \in Skus \X Optional(Stores)}
      [] tool \in {"get_active_alerts", "get_action_recommendations"} ->
            {[Blank EXCEPT !.severity = v] : v \in Optional({"HIGH", "MEDIUM", "LOW"})}
      [] tool = "get_sku_coverage_status" ->
            {[Blank EXCEPT !.status = x[1], !.store = x[2], !.brand = x[3], !.sku = x[4]] :
                x \in Optional({"RED", "YELLOW", "GREY", "GREEN"}) \X Optional(Stores)
                      \X Optional(Brands) \X Optional(Skus)}
      [] tool = "get_velocity_segmentation" ->
            {[Blank EXCEPT !.brand = x[1], !.segment = x[2]] : x \in Optional(Brands) \X Optional(1..4)}
      [] tool = "compare_periods" -> Compared

Requests ==
    UNION {{[x[1] EXCEPT !.tool = tool, !.tenant = x[2]] : x \in Inputs(tool) \X Callers} :
               tool \in Tools}

-----------------------------------------------------------------------------
(* The programs.  needs is the query without whose rows the tool returns    *)
(* None (or "").                                                            *)

Await(part, needs)   == [parts |-> <<part>>, gathered |-> FALSE, needs |-> needs]
Gather(parts, needs) == [parts |-> parts, gathered |-> TRUE, needs |-> needs]

\* week_id or await ..., year_month or await ...
Resolve(r, part) == IF r.period = None THEN <<Await(part, part)>> ELSE <<>>

ExecutiveWeekly(r) ==
    Resolve(r, "latest_week") \o
    <<Await("weekly_totals", "weekly_totals"),
      Gather(<<"plan_totals", "distinct_tickets", "active_alerts", "brand_performance",
               "action_recommendations">>, "")>>

StoreDaily(r) ==
    Resolve(r, "latest_week") \o
    <<Gather(<<"store_dashboard", "active_alerts", "sku_coverage">>, "store_dashboard")>>

BrandWeekly(r) ==
    <<Gather(<<"brand_performance", "active_alerts", "velocity_segmentation">>,
             "brand_performance")>>

ExecutiveSummary(r) ==
    Resolve(r, "latest_week") \o
    <<Await("weekly_totals", "weekly_totals"), Await("plan_totals", ""),
      Await("distinct_tickets", ""), Await("active_alerts", "")>>

\* Wrong on purpose: a month after one without sales is not reported.
MonthlySummaryOfBoth(r) ==
    Resolve(r, "latest_month") \o
    <<Await("month", ""), Await("previous", "previous")>> \o
    (IF r.brand = None THEN <<Await("monthly_brands", "")>> ELSE <<>>) \o
    (IF r.store = None THEN <<Await("monthly_stores", "")>> ELSE <<>>) \o
    <<Await("active_alerts", "")>>

MonthlySummary(r) ==
    Resolve(r, "latest_month") \o
    <<Await("month", ""), Await("previous", "month")>> \o
    (IF r.brand = None THEN <<Await("monthly_brands", "")>> ELSE <<>>) \o
    (IF r.store = None THEN <<Await("monthly_stores", "")>> ELSE <<>>) \o
    <<Await("active_alerts", "")>>

MonthlyExecutive(r) ==
    Resolve(r, "latest_month") \o
    <<Await("month", ""), Await("previous", ""), Await("active_alerts", ""),
      Await("monthly_brands", "month")>>

SkuDetail(r) ==
    <<Await("sku_master", "sku_master"), Await("sku_sales", ""), Await("sku_stock", ""),
      Await("active_alerts", "")>>

Program(r) ==
    CASE r.tool = "get_executive_weekly_briefing"  -> ExecutiveWeekly(r)
      [] r.tool = "get_store_daily_briefing"       -> StoreDaily(r)
      [] r.tool = "get_brand_weekly_review"        -> BrandWeekly(r)
      [] r.tool = "get_executive_summary"          -> ExecutiveSummary(r)
      [] r.tool = "get_monthly_summary"            -> MonthlySummary(r)
      [] r.tool = "get_monthly_executive_briefing" -> MonthlyExecutive(r)
      [] r.tool = "get_sku_detail"                 -> SkuDetail(r)
      [] r.tool = "get_store_dashboard"            -> <<Await("store_dashboard", "")>>
      [] r.tool = "get_brand_performance"          -> <<Await("brand_performance", "")>>
      [] r.tool = "get_active_alerts"              -> <<Await("active_alerts", "")>>
      [] r.tool = "get_action_recommendations"     -> <<Await("action_recommendations", "")>>
      [] r.tool = "get_sku_coverage_status"        -> <<Await("sku_coverage", "")>>
      [] r.tool = "get_velocity_segmentation"      -> <<Await("velocity_segmentation", "")>>
      [] r.tool = "compare_periods"                -> <<Await("buckets", "")>>

-----------------------------------------------------------------------------
(* The call.                                                                *)

\* '2026-01' -> '2025-12'
PrevMonth(ym) == IF ym % 100 = 1 THEN (ym \div 100 - 1) * 100 + 12 ELSE ym - 1

AlertsAsked(tool) ==
    CASE tool \in {"get_executive_weekly_briefing", "get_executive_summary",
                   "get_monthly_executive_briefing"} -> Limits.top
      [] tool \in {"get_store_daily_briefing", "get_brand_weekly_review", "get_sku_detail"} ->
            Limits.listed
      [] tool = "get_monthly_summary" -> Limits.counted
      [] tool = "get_active_alerts"   -> Limits.page

ActionsAsked(tool) ==
    IF tool = "get_executive_weekly_briefing" THEN Limits.top ELSE Limits.page

\* What a query answers when the database is g.
Fetch(g, r, period, part) ==
    LET t == r.tenant
    IN  CASE part = "latest_week"      -> LatestWeek(g, t, r.store)
          [] part = "weekly_totals"    -> WeeklyTotals(g, t, period)
          [] part = "plan_totals"      -> PlanTotals(t, period)
          [] part = "distinct_tickets" -> DistinctTickets(g, t, period)
          [] part = "active_alerts"    ->
                ActiveAlerts(g, t, None, r.severity, AlertsAsked(r.tool))
          [] part = "action_recommendations" ->
                ActionRecommendations(g, t, None, r.severity, ActionsAsked(r.tool))
          [] part = "brand_performance" -> BrandPerformance(g, t, r.brand, period)
          [] part = "store_dashboard"   -> StoreDashboard(g, t, r.store, period)
          [] part = "sku_coverage"      ->
                CoverageStatus(g, t, r.brand, r.store, r.status, r.sku,
                    IF r.tool = "get_store_daily_briefing" THEN Limits.covered ELSE Limits.page)
          [] part = "velocity_segmentation" ->
                VelocitySegmentation(g, t, r.segment, r.brand,
                    IF r.tool = "get_brand_weekly_review" THEN Limits.moving ELSE Limits.page)
          [] part = "latest_month"   -> LatestMonth(g, t)
          [] part = "month"          -> MonthlyTotals(g, t, period, r.brand, r.store)
          [] part = "previous"       -> MonthlyTotals(g, t, PrevMonth(period), r.brand, r.store)
          [] part = "monthly_brands" -> MonthlyBrandPerformance(g, t, None, period)
          [] part = "monthly_stores" -> MonthlyStoreDashboard(g, t, None, period)
          [] part = "sku_master"     -> SkuMaster(t, r.sku)
          [] part = "sku_sales"      -> SkuSales(g, t, r.sku, r.store)
          [] part = "sku_stock"      -> SkuStock(g, t, r.sku, r.store)
          [] part = "buckets"        ->
                IF period \in Calendar THEN ComparePeriodsMonthly(g, t, period, r.to, r.scope)
                                       ELSE ComparePeriods(g, t, period, r.to, r.scope)

Pending  == [state |-> "pending", value |-> None]
Failed   == [state |-> "failed", value |-> None]
Value(v) == [state |-> "read", value |-> v]

AllPending(stage) == [i \in DOMAIN stage.parts |-> Pending]

\* Wrong on purpose: a query that fails is not named.
GatherAll(names, raw) ==
    [results |-> [i \in DOMAIN names |-> raw[i].value], failures |-> {}]

\* Failed slots are None in the results and named in the failures.
GatherSafe(names, raw) ==
    [results  |-> [i \in DOMAIN names |-> IF raw[i].state = "failed" THEN None ELSE raw[i].value],
     failures |-> {names[i] : i \in {i \in DOMAIN names : raw[i].state = "failed"}}]

\* if not rows: return None
Nothing(got, part) ==
    /\ part # ""
    /\ \/ got[part] = None
       \/ part \in {"store_dashboard", "brand_performance"} /\ got[part] = {}

NoCall == [at |-> "idle"]

Start(r) ==
    /\ call.at = "idle"
    /\ call' = [at |-> "running", req |-> r, period |-> r.period, stage |-> 1,
                raw |-> AllPending(Program(r)[1]), got |-> <<>>, failures |-> {}]
    /\ seen' = {db}
    /\ UNCHANGED <<db, cleared, commits, faults>>

\* The tool goes on when the last query of the stage has ended.
Resume(c, raw) ==
    LET stage  == Program(c.req)[c.stage]
        safe   == GatherSafe(stage.parts, raw)
        got    == [p \in Range(stage.parts) \cup DOMAIN c.got |->
                      IF p \in Range(stage.parts)
                      THEN safe.results[CHOOSE i \in DOMAIN stage.parts : stage.parts[i] = p]
                      ELSE c.got[p]]
        period == IF stage.parts[1] \in {"latest_week", "latest_month"}
                  THEN got[stage.parts[1]] ELSE c.period
        next   == [c EXCEPT !.got = got, !.period = period, !.raw = <<>>, !.failures = safe.failures]
    IN  IF ~stage.gathered /\ raw[1].state = "failed" THEN [next EXCEPT !.at = "raised"]
        ELSE IF Nothing(got, stage.needs) THEN [next EXCEPT !.at = "nothing"]
        ELSE IF c.stage = Len(Program(c.req)) THEN [next EXCEPT !.at = "answered"]
        ELSE [next EXCEPT !.stage = @ + 1, !.raw = AllPending(Program(c.req)[c.stage + 1])]

End(i, outcome) ==
    LET raw == [call.raw EXCEPT ![i] = outcome]
    IN  call' = IF \E j \in DOMAIN raw : raw[j].state = "pending"
                THEN [call EXCEPT !.raw = raw] ELSE Resume(call, raw)

Running(i) == call.at = "running" /\ i \in DOMAIN call.raw /\ call.raw[i].state = "pending"

\* A query reads the database.
Read(i) ==
    /\ Running(i)
    /\ End(i, Value(Fetch(db, call.req, call.period, Program(call.req)[call.stage].parts[i])))
    /\ UNCHANGED <<db, cleared, seen, commits, faults>>

\* A query raises, or in a gather takes five seconds.
Fail(i) ==
    /\ Running(i) /\ faults < MaxFaults
    /\ End(i, Failed)
    /\ faults' = faults + 1
    /\ UNCHANGED <<db, cleared, seen, commits>>

Init ==
    /\ \E docs \in Initially : db = Loaded(docs)
    /\ cleared = [t \in Tenants |-> None]
    /\ call = NoCall /\ seen = {}
    /\ commits = 0 /\ faults = 0

Slots == 1..5    \* a gather has at most five queries

World ==
    \/ \E d \in Issuable : EditDocument(d)
    \/ \E t \in Tenants, table \in {"sales", "stock"} : Delete(t, table)
    \/ \E t \in Tenants : Insert(t)

Next ==
    \/ World
    \/ \E r \in Requests : Start(r)
    \/ \E i \in Slots : Read(i) \/ Fail(i)

Spec == Init /\ [][Next]_vars

-----------------------------------------------------------------------------
(* The answers.  Names, prices and the ratios of the figures shown are left *)
(* out.                                                                     *)

Row(rows)      == CHOOSE r \in rows : TRUE
List(c, part)  == IF c.got[part] = None THEN {} ELSE c.got[part]
Count(c, part) == IF c.got[part] = None THEN 0 ELSE c.got[part]

WeeklyBriefing(c) ==
    [period |-> c.period, n |-> c.got["weekly_totals"].n,
     tickets |-> Count(c, "distinct_tickets"),
     plan |-> IF "plan_totals" \in c.failures THEN None ELSE Count(c, "plan_totals"),
     alerts |-> List(c, "active_alerts"),
     brands |-> First(Limits.brands, List(c, "brand_performance"), SellsAs),
     actions |-> List(c, "action_recommendations"), failures |-> c.failures]

\* The 10 first of the coloured ones.
StoreBriefing(c) ==
    LET s == Row(c.got["store_dashboard"])
    IN  [period |-> c.period, n |-> s.n, tickets |-> s.tickets,
         alerts |-> {a \in List(c, "active_alerts") : a.store = c.req.store},
         critical |-> First(Limits.critical,
                            {r \in List(c, "sku_coverage") : StatusColor(r) \in {"RED", "YELLOW"}}, Worse),
         failures |-> c.failures]

\* The week is the one of the row.
BrandReview(c) ==
    LET b      == Row(c.got["brand_performance"])
        moving == List(c, "velocity_segmentation")
    IN  [period |-> b.week, n |-> b.n, plan |-> IF b.plan = 0 THEN None ELSE b.plan,
         alerts |-> {a \in List(c, "active_alerts") : a.brand = c.req.brand},
         segments |-> {[segment |-> x.segment,
                        skus |-> Cardinality({m \in moving : m.segment = x.segment}),
                        n |-> Amount({m \in moving : m.segment = x.segment})] : x \in moving},
         failures |-> c.failures]

Summary(c) ==
    [period |-> c.period, n |-> c.got["weekly_totals"].n, tickets |-> c.got["distinct_tickets"],
     plan |-> IF Count(c, "plan_totals") = 0 THEN None ELSE c.got["plan_totals"],
     alerts |-> c.got["active_alerts"]]

\* No ranking of what the scope names.
MonthAnswer(c) ==
    [period |-> c.period, n |-> c.got["month"].n,
     previous |-> IF c.got["previous"] = None THEN None ELSE c.got["previous"].n,
     brands |-> IF c.req.brand = None THEN First(Limits.top, c.got["monthly_brands"], SellsAs) ELSE {},
     stores |-> IF c.req.store = None THEN First(Limits.top, c.got["monthly_stores"], Sells) ELSE {},
     count |-> Cardinality(c.got["active_alerts"])]

MonthBriefing(c) ==
    [period |-> c.period, n |-> c.got["month"].n,
     previous |-> IF c.got["previous"] = None THEN None ELSE c.got["previous"].n,
     alerts |-> c.got["active_alerts"],
     brands |-> First(Limits.brands, c.got["monthly_brands"], SellsAs)]

\* The alerts of the product, in any store.
SkuAnswer(c) ==
    [period |-> None, sales |-> c.got["sku_sales"], stock |-> c.got["sku_stock"],
     alerts |-> {a \in c.got["active_alerts"] : a.sku = c.req.sku}]

\* model_validate(r) for each row.
RowsOf(c) ==
    CASE c.req.tool = "get_store_dashboard"   -> [period |-> c.period, stores |-> c.got["store_dashboard"]]
      [] c.req.tool = "get_brand_performance" -> [period |-> c.period, brands |-> c.got["brand_performance"]]
      [] c.req.tool = "get_active_alerts"     -> [period |-> None, alerts |-> c.got["active_alerts"]]
      [] c.req.tool = "get_action_recommendations" ->
            [period |-> None, actions |-> c.got["action_recommendations"]]
      [] c.req.tool = "get_sku_coverage_status" -> [period |-> None, coverage |-> c.got["sku_coverage"]]
      [] c.req.tool = "get_velocity_segmentation" ->
            [period |-> None, moving |-> c.got["velocity_segmentation"]]
      [] c.req.tool = "compare_periods" -> [period |-> c.period, buckets |-> c.got["buckets"]]

Answer(c) ==
    CASE c.req.tool = "get_executive_weekly_briefing"  -> WeeklyBriefing(c)
      [] c.req.tool = "get_store_daily_briefing"       -> StoreBriefing(c)
      [] c.req.tool = "get_brand_weekly_review"        -> BrandReview(c)
      [] c.req.tool = "get_executive_summary"          -> Summary(c)
      [] c.req.tool = "get_monthly_summary"            -> MonthAnswer(c)
      [] c.req.tool = "get_monthly_executive_briefing" -> MonthBriefing(c)
      [] c.req.tool = "get_sku_detail"                 -> SkuAnswer(c)
      [] OTHER                                         -> RowsOf(c)

-----------------------------------------------------------------------------
(* What an answer should say, from the facts alone.                         *)

Over(period, week) == period \in {None, week, MonthOf[week]}

Sold(g, t, period, brand, store) ==
    Amount({s \in Own(g.sales, t) : Over(period, s.week) /\ Is(brand, s.brand) /\ Is(store, s.store)})

Invoices(g, t, period, store) ==
    Cardinality({d \in Own(g.docs, t) : Over(period, d.week) /\ Is(store, d.store)})

PlanOf(t, period, brand) ==
    Amount({p \in Own(Planned, t) : Over(period, p.week) /\ Is(brand, p.brand)})

\* The largest month there is before one.
MonthBefore(m) == Max({n \in {y * 100 + k : y \in (m \div 100 - 1)..(m \div 100), k \in 1..12} : n < m})

Current(g, t) == {s \in Own(g.stock, t) : \A o \in Own(g.stock, t) : o.week <= s.week}

\* What sells and lasts too long, or not long enough, at the rate it sells.
Long(g, s)  == SoldIn4w(g, s) > 0 /\ 28 * s.left > Rule[s.sku].max * SoldIn4w(g, s)
Short(g, s) == SoldIn4w(g, s) > 0 /\ 28 * s.left < Rule[s.sku].min * SoldIn4w(g, s)

\* The stock that needs attention, and what of it does for two reasons.
Due(g, t)   == {s \in Current(g, t) : s.left = 0 \/ s.obsolete \/ Long(g, s) \/ Short(g, s)}
Twice(g, t) == {s \in Current(g, t) : s.left # 0 /\ s.obsolete /\ Short(g, s)}
Alerts(g, t) == Cardinality(Due(g, t)) + Cardinality(Twice(g, t))

\* What the tool shows of it, by its store and product.
Concerns(r, x) ==
    CASE r.tool = "get_store_daily_briefing" -> x.store = r.store
      [] r.tool = "get_brand_weekly_review"  -> BrandOf(r.tenant, x.sku) = r.brand
      [] r.tool = "get_sku_detail"           -> x.sku = r.sku
      [] OTHER                               -> TRUE

Keys(rows) == {[store |-> x.store, sku |-> x.sku] : x \in rows}

\* Each is of stock that is due, urgent only if it sells; and unless a severity was
\* asked for, none is missing that a full list does not explain.
AreDue(g, r, rows, limit) ==
    LET mine == {s \in Due(g, r.tenant) : Concerns(r, s)}
    IN  /\ Keys(rows) \subseteq Keys(mine)
        /\ \A a \in rows :
              /\ Is(r.severity, a.severity)
              /\ a.severity = "HIGH" => \E s \in mine : Keys({s}) = Keys({a}) /\ SoldIn4w(g, s) > 0
        /\ r.severity = None /\ Alerts(g, r.tenant) <= limit => Keys(mine) = Keys(rows)

\* Of all there are, none of a greater impact is left out.
AreGreatest(r, all, rows) ==
    \A b \in Own(all, r.tenant) \ rows, a \in rows :
        Concerns(r, b) /\ Is(r.severity, b.severity) => b.impact <= a.impact

RowPeriod(row) == IF "week" \in DOMAIN row THEN row.week ELSE row.month

\* The lines a comparison counts: by brand, those of products in the dimension.
Counted(g, t, period, scope) ==
    {s \in Own(g.sales, t) : /\ Over(period, s.week)
                             /\ scope = "brand" => \E d \in Own(DimSku, t) : d.sku = s.sku}

BucketOf(g, t, period, scope, id) ==
    Amount({s \in Counted(g, t, period, scope) : /\ scope = "brand" => s.brand = id
                                                 /\ scope = "store" => s.store = id})

\* These are not, see MonthlyBrandsAreTrue.
ByMonthAndBrand(r) == r.period \in Calendar /\ r.scope = "brand"

\* Field f of answer a to request r was true of g.
True(g, r, a, f) ==
    LET t == r.tenant
    IN  CASE f = "n"       -> a.n = Sold(g, t, a.period, r.brand, r.store)
          [] f = "tickets" -> a.tickets = Invoices(g, t, a.period, r.store)
          [] f = "plan"    -> \/ a.plan = PlanOf(t, a.period, r.brand)
                              \/ a.plan = None /\ PlanOf(t, a.period, r.brand) = 0
          [] f = "previous" ->
                LET n == Sold(g, t, MonthBefore(a.period), r.brand, r.store)
                IN  a.previous = n \/ (n = 0 /\ a.previous = None)
          [] f = "alerts"  -> /\ AreDue(g, r, a.alerts, AlertsAsked(r.tool))
                              /\ AreGreatest(r, AlertsView(g), a.alerts)
          [] f = "actions" -> /\ AreDue(g, r, a.actions, ActionsAsked(r.tool))
                              /\ AreGreatest(r, PriorityView(g), a.actions)
          [] f = "count"   -> a.count = IF Alerts(g, t) <= Limits.counted THEN Alerts(g, t)
                                                                          ELSE Limits.counted
          [] f = "brands"  -> \A x \in a.brands : /\ Is(a.period, RowPeriod(x))
                                                  /\ x.n = Sold(g, t, RowPeriod(x), x.id, None)
          [] f = "stores"  -> \A x \in a.stores : /\ Is(a.period, RowPeriod(x))
                                                  /\ x.n = Sold(g, t, RowPeriod(x), None, x.id)
          [] f = "critical" -> Keys(a.critical) \subseteq Keys({s \in Due(g, t) : Is(r.store, s.store)})
          [] f = "coverage" -> \A x \in a.coverage :
                                   /\ Is(r.status, StatusColor(x)) /\ Is(r.store, x.store)
                                   /\ Is(r.brand, BrandOf(t, x.sku)) /\ Is(r.sku, x.sku)
                                   /\ \E s \in Current(g, t) :
                                         /\ Keys({s}) = Keys({x}) /\ s.left = x.left
                                         /\ StatusColor(x) \in {"RED", "YELLOW"} <=> s \in Due(g, t)
          [] f = "segments" ->
                LET mine == {d \in Own(DimSku, t) : d.brand = r.brand /\ d.active /\ ~d.service}
                IN  Cardinality(mine) <= Limits.moving =>
                        Amount(a.segments) = Amount({s \in Own(g.sales, t) :
                            (\E d \in mine : d.sku = s.sku) /\ s.week + 8 >= Today})
          [] f = "moving"   -> \A x \in a.moving : x.n = Amount({s \in Own(g.sales, t) :
                                                                   s.sku = x.id /\ s.week + 8 >= Today})
          [] f = "sales"    -> \A x \in a.sales : x.n = Amount({s \in Own(g.sales, t) :
                                     s.week = x.week /\ s.sku = r.sku /\ Is(r.store, s.store)})
          [] f = "stock"    -> a.stock = {s \in Current(g, t) : s.sku = r.sku /\ Is(r.store, s.store)}
          [] f = "buckets"  -> ~ByMonthAndBrand(r) => \A x \in a.buckets :
                                   /\ x.a = BucketOf(g, t, r.period, r.scope, x.id)
                                   /\ x.b = BucketOf(g, t, r.to, r.scope, x.id)

\* The queries the fields come from, when the answer names those that failed.
Source == [tickets |-> "distinct_tickets", plan |-> "plan_totals", alerts |-> "active_alerts",
           actions |-> "action_recommendations", brands |-> "brand_performance",
           critical |-> "sku_coverage", segments |-> "velocity_segmentation"]

Named(a, f) == "failures" \in DOMAIN a /\ f \in DOMAIN Source /\ Source[f] \in a.failures

-----------------------------------------------------------------------------
(* Properties.                                                              *)

SalesKey(r) == <<r.tenant, r.week, r.store, r.sku, r.brand>>
StockKey(r) == <<r.tenant, r.week, r.store, r.sku>>

\* The database keeps its primary keys; a call is at a stage of its program and
\* knows what the stages before it read.
TypeOK ==
    /\ db.docs \subseteq Issuable
    /\ \A r, s \in db.sales : SalesKey(r) = SalesKey(s) => r = s
    /\ \A r, s \in db.stock : StockKey(r) = StockKey(s) => r = s
    /\ call.at \in {"idle", "running", "answered", "nothing", "raised"}
    /\ call.at # "idle" =>
          /\ call.req \in Requests
          /\ call.period \in Optional(Weeks \cup Calendar)
          /\ call.stage \in DOMAIN Program(call.req)
          /\ call.at = "running" => DOMAIN call.got =
                UNION {Range(Program(call.req)[i].parts) : i \in 1..(call.stage - 1)}
    /\ commits \in 0..MaxCommits /\ faults \in 0..MaxFaults

\* Every figure and alert an answer shows was true of the caller's
\* tenant and of the week or month the answer names at some moment of the call,
\* or the answer names the query that failed, though each query reads another
\* state of a warehouse that is deleted and inserted again meanwhile.
FiguresWereTrue ==
    call.at = "answered" =>
        LET a == Answer(call)
        IN  \A f \in DOMAIN a \ {"period", "failures"} :
                Named(a, f) \/ \E g \in seen : True(g, call.req, a, f)

\* No report shows the zeros of a week or month that has no row: the latest
\* week may be deleted between the query that finds it and those that use it.
ReportedPeriodHadSales ==
    call.at = "answered" =>
        LET a == Answer(call)
        IN  "n" \in DOMAIN a =>
                \E g \in seen : \E s \in Own(g.sales, call.req.tenant) : Over(a.period, s.week)

\* A tool says there is nothing to report only if a query of it failed, or at
\* some moment nothing was sold in that week or month, the product, brand or store
\* was not active, or the week of a store or brand was not the latest of the tenant,
\* the only one their views have.
NothingWasThere ==
    call.at = "nothing" =>
        LET r == call.req
            t == r.tenant
        IN  \/ call.failures # {}
            \/ \E g \in seen :
                 CASE r.tool = "get_sku_detail" ->
                         ~\E d \in Own(DimSku, t) : d.sku = r.sku /\ d.active
                   [] r.tool \in {"get_store_daily_briefing", "get_brand_weekly_review"} ->
                         \/ LatestSales(g, t) = None
                         \/ call.period # None /\ call.period # LatestSales(g, t)
                         \/ r.store # None /\ Sold(g, t, call.period, None, r.store) = 0
                         \/ r.store # None /\ ~\E s \in Own(DimStore, t) : s.store = r.store /\ s.active
                         \/ r.brand # None /\ ~\E d \in Own(DimSku, t) : d.brand = r.brand /\ d.active
                   [] OTHER -> Sold(g, t, call.period, r.brand, r.store) = 0

\* In every state a refresh goes through, the panels of a tenant agree: the brands
\* that have an active product, or the active stores, and what the others sold add
\* up to the totals of the latest week and of every month, and a month to its
\* weeks.  A brand counts once: it may have several rows, one per name, but they
\* all show the same.  (The calls change nothing, so it is enough to look while
\* there is none.)
PanelsAddUp ==
    call.at = "idle" => \A t \in Tenants :
        LET week   == LatestSales(db, t)
            Brandless(s) == ~\E b \in Own(ActiveBrands, t) : b.brand = s.brand
            Storeless(s) == ~\E d \in Own(DimStore, t) : d.store = s.store /\ d.active
            brandless(p) == Amount({s \in Own(db.sales, t) : Over(p, s.week) /\ Brandless(s)})
            storeless(p) == Amount({s \in Own(db.sales, t) : Over(p, s.week) /\ Storeless(s)})
            Once(rows) == {[id |-> row.id, n |-> row.n] : row \in rows}
            N(row)  == IF row = None THEN 0 ELSE row.n
            weekly(w) == N(WeeklyTotals(db, t, w))
            monthly(m) == N(MonthlyTotals(db, t, m, None, None))
        IN  /\ week # None =>
                 /\ Amount(Once(BrandPerformance(db, t, None, week))) + brandless(week) = weekly(week)
                 /\ Amount(StoreDashboard(db, t, None, week)) + storeless(week) = weekly(week)
            /\ \A m \in Calendar :
                 /\ SumFunction([w \in {w \in Weeks : MonthOf[w] = m} |-> weekly(w)]) = monthly(m)
                 /\ Amount(Once(MonthlyBrandPerformance(db, t, None, m))) + brandless(m) = monthly(m)
                 /\ Amount(MonthlyStoreDashboard(db, t, None, m)) + storeless(m) = monthly(m)

\* The buckets of two periods compared add up to what the tenant sold in them, by
\* brand what it sold of products in the dimension, also when a brand or a store
\* sold in one of them only.
PeriodsAddUp ==
    call.at = "answered" /\ call.req.tool = "compare_periods" /\ ~ByMonthAndBrand(call.req) =>
        LET b == Answer(call).buckets
            r == call.req
        IN  \E g \in seen :
                /\ SumFunction([x \in b |-> x.a]) = Amount(Counted(g, r.tenant, r.period, r.scope))
                /\ SumFunction([x \in b |-> x.b]) = Amount(Counted(g, r.tenant, r.to, r.scope))

\* Comparing months by brand shows what each brand sold in them.
MonthlyBrandsAreTrue ==
    call.at = "answered" /\ ByMonthAndBrand(call.req) =>
        \A x \in Answer(call).buckets :
            \E g \in seen : x.a = Sold(g, call.req.tenant, call.req.period, x.id, None)
=============================================================================
