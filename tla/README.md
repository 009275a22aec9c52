# Formal models of the retail AI platform

This directory holds TLA+ models of the platform's API (`api/app`), the TLC
configurations that check them on small instances, and proofs that TLAPS checks
for every instance.

## 1. The system

A question travels `POST /api/v1/chat` (JWT users) or
`POST /api/v1/internal/chat` (the ERP's proxy): rate limiter, conversation
store, memory, LLM loop with tools, two message inserts, audit row, token
charge, de-tokenised answer. Everything that survives a restart is in SQL
Server; the limiter, the caches and the connection pool live in the process.
The endpoints are coroutines of one event loop: code between two `await`s is
atomic, everything else interleaves. Queries run on threads.

| Component | State | Operations | Correct when | Model |
| --- | --- | --- | --- | --- |
| Rate limiter `security/rate_limiter.py` | three dicts of deques, in memory | check and record, budget check, charge, snapshot | no hour exceeds a quota, refusals are never spurious, overshoot of the budget is bounded | `RateLimiter`, `SlidingQuota` |
| Chat flow `api/v1/chat.py`, `internal.py`, `db/conversation.py`, `audit/persister.py` | conversations, messages, audit log | resolve, load memory, append twice, touch, audit, charge, answer | messages, audit and charges agree through races, failures and crashes; tenants are separate | `ChatTurn` |
| Sanitiser `security/sanitizer.py` | token map (SQL), request-local cache | tokenise a payload, de-tokenise a text | one token per entity and conversation, no raw id under the three keys to the LLM and none from nowhere, every token resolved | `Sanitizer` |
| Orchestrator, dispatcher `llm/` | the message list of a turn | call the model, run tools, return | well-formed calls, role gate, the loop ends, results read | `Orchestrator` |
| Connection pool `db/connection.py` | queue, lock, flag | initialise, acquire, close | no connection shared or lost, every call ends | `ConnectionPool` |
| Tools `tools/*.py`, `db/queries.py` | none | run queries one by one, or side by side with time-outs, and put their rows together | a figure was true during the call or is named as missing, no report of a period without sales | `Briefings`, `Queries` |
| Service caches and panels, `internal.py` | two dicts | suggestions, metrics | an answer is as fresh as its cache promises, and of one tenant, role and month | `ServicePanels` |
| Gold refresh `sql/gold/05`, `06_*`, `08` | dimensions, facts, batch log | rebuild per tenant, reload the movements | facts are what the joins make of their source after a refresh, no movement is lost, the log tells | `GoldRefresh` |
| Gold views `sql/gold/07`, `11` | none | coverage, alerts, dashboards, months | alerts are of stock that is due, the panels of a period add up to its totals | `GoldViews` |
| Authentication, health, feedback, prompts, evaluation | almost none | | | not modelled, see section 7 |

What is hard: requests of one conversation overlap at every `await`; a
question's seven database calls commit one by one and any of them may fail;
the audit swallows its own failures; callers retry; queries outlive the
coroutine that waits for them; the process may die anywhere. The warehouse is
rebuilt by stored procedures that open no transaction, while the ERP goes on, and
a report is put together from queries that each see another state of it.
`PROJECT.json` lists each hazard at its line with the properties that cover it.

## 2. Modules

* `SlidingQuota` - the abstract promise of the limiter: the whole history
  decides. `RateLimiter` - the deques of the code, refined to `SlidingQuota`.
  `MCRateLimiter` bounds it.
* `ChatTurn` - one action per `await` of the endpoints, so that everything
  another request can do in between is a behaviour. Both endpoints are one
  module: they differ in where the request id comes from, which `Arrive`
  chooses (the caller's or a fresh one).
* `Sanitizer` - the look-ups, mints and substitutions of a request; the two
  unique indexes of the table are the guards of `Mint` and `MintClash`. A text is
  the set of tokens and ids it mentions: `Reply` is what the model answers from what
  it has at hand (`AtHand`: its memory and the tool results), `Kept` what the
  conversation then remembers, `Begin` what a later request of any role reads. Only
  the ids under `sku_id`, `store_id` and `brand_id` are replaced; those elsewhere in a
  result are `aside` (`scope_id` of `tools/compare.py:97-133`, the ids inside the
  `alert_id` of `sql/gold/07:378-381`), of the entities in `Loose`.
* `Orchestrator` - the turns of a conversation; the LLM is the environment
  and may ask for anything. A turn is given any rows that its conversation may have
  left (`Memory`): the messages of a turn are stored in separate steps, which
  `ChatTurn` models, so two questions may follow each other, the window may begin
  with a reply, and a reply may be empty.
* `QueryCalls` - what a caller of `execute_query` is promised, without threads,
  lock or connections. `ConnectionPool` - threads, lock, queue and connections;
  `GiveUp` is `asyncio.wait_for`. Its `ImplementsCalls` is the refinement: what a
  caller was told (`Told`), which calls hold a connection, and whether the server
  stopped.
* `ServicePanels` - the two endpoints with a cache. A hit changes no state and is
  not an action; a miss is one action per `await`. Freshness is stated of what
  the cache would answer now and of what a miss is about to answer.
* `GoldRefresh` - the nightly procedure statement by statement, since each
  commits on its own. `run` holds the local variables of a run, `log` its rows of
  `etl_batch_log`; a document is at once its line and its kardex row, and a sum
  says of every document how many copies of its line it adds up (`lines`), so that
  counting one twice or never shows. A line has `copies` when the LEFT JOINs of
  `06_1:108-113` multiply it: its store has its product twice in
  `almacen_producto`, or its invoice has the product on several lines. A failure is
  three statements that commit apart: a step throws (`Raise`), its CATCH logs it
  (`CatchStep`) or fails itself, and the CATCH of the master logs the run
  (`CatchMaster`); a kill may come between any two, and then the master stays RUNNING
  for good. `Enter` is the row RUNNING a procedure begins with. The ERP is the
  environment (`Issue`, `Void`, `Repeat`, `DeleteProduct`, `MapBrand`, `NextWeek`).
* `GoldViews` - the views the tools read, as operators over the facts and the
  dimensions. `Queries` - the functions of `queries.py`, as operators over a
  database and a tenant. Both hold no state; one count per row stands for the
  measures, since what is wrong with one is wrong with all. `AlertsView` has the four
  branches of the view (`Raises`), each with its severity by velocity, stock value or
  coverage and its impact, which is negative where the stock is (`SeverityOf`,
  `ImpactOf`): a row that is flagged obsolete and sold in the last four weeks (a short
  rule, or sales loaded again before the stock) may raise a second alert, since the
  branch of UNDERSTOCK does not look at the flag.
  A brand has as many rows as its active products have names for it
  (`ActiveBrands`).
* `Briefings` - a call of any read-only tool. `Program` says which queries the tool
  awaits, one by one (`Await`) or together (`Gather`), and which of them must not
  be empty (`needs`); `Read` and `Fail` end a query, each at a moment of its own,
  and `Resume` is what the tool does when the last of a stage has ended. `Answer`
  is the answer's construction. `Commit` is the rest of the world: the ERP's edits
  and the DELETE and INSERT of the refresh, one statement at a time. `seen` keeps
  the states the database had during the call. The last part of the module says
  from the facts what an answer should contain (`True`); it uses no query, and of the
  views only the colour of a row and, where no alert of greater impact may be left out,
  those that list all of them. `MCBriefings` gives it two tenants with the same store and
  product numbers, weeks of December and January, a brand of two active products that
  name it differently, one whose only product is not active, a product that is in no
  dimension, a service, a store that is not active, and a product that is obsolete
  after a week without a sale.
* `MCM` bounds module `M` for TLC, and `MProofs` proves theorems about it: there is
  one for `RateLimiter`, `ChatTurn`, `Sanitizer`, `Orchestrator`, `ConnectionPool`,
  `ServicePanels`, `GoldRefresh` and `Briefings`.

Names follow the code (`tenantHits` is `_tenant_hits`, `pc` names the `await` a
coroutine is at). An operator whose comment starts with "Wrong on purpose" is a
plausible mistake in the definition after it: substituting it must break the
property that `PROJECT.json` pairs with it, which shows that the property can
fail. No specification uses one.

`RateLimiter` sees a whole request as three steps (accepted, charged, over);
`ChatTurn` starts where it accepts (`Arrive`) and its `Charge` is
`RecordTokens`. `Orchestrator` and `Sanitizer` open up the step `Converse`.
`ConnectionPool` is underneath every database call of the others; its
exceptions are their failing calls, and its abandoned calls are the time-outs of
`Briefings`. The tools that `Orchestrator` runs are the calls of `Briefings`, and
the facts those read are the ones `GoldRefresh` fills: `Briefings` takes of it
that a statement commits at a time, in windows that start at the earliest
document.

## 3. Runs

| Run | Shows | Bounds |
| --- | --- | --- |
| `rate_limiter` | `TypeOK`, hourly quotas, agreement of the two deques, bounded overshoot, refinement of `SlidingQuota` | 1 tenant, 2 users, 2 coroutines, an hour of 2 ticks and a day of 4, clock up to 5, 4 hits per tenant |
| `chat_turn` | gapless numbers, answers after their questions, tenant separation, audit and charges consistent with the store | 2 requests, 2 tenants, 2 conversations, 1 caller id, 2 faults |
| `sanitizer` | tokens under the three keys, every raw id the model has at hand accounted for, stable tokens, every token resolved | 2 requests of any role, 2 conversations, 2 entities (one without a name, which tools also put outside the keys), 3 tokens, 2 payloads each, 1 fault |
| `orchestrator` | well-formed calls, one role gate, results read, termination | any memory of 1 turn (2 rows), 2 iterations, 2 blocks per response, 3 spellings of roles |
| `pool` | connections exclusive and conserved, every call ends, refinement of `QueryCalls` | 3 calls, 2 connections, 3 threads, 1 refusal |
| `service_panels` | answers keep the age, tenant, role and month they promise, numbers of a panel agree | 2 coroutines and 2 misses, 2 tenants, 2 roles, entries live 2 ticks, a month of 2, clock up to 4, 1 audited turn, 2 queries per panel |
| `briefings` | figures true of the tenant and period at some moment of the call or named as failed, no report of a period without sales, "nothing" only when there was nothing or a query failed, panels and comparisons that add up | 14 tools with their filters, periods and scopes, 2 tenants (one calls), 3 weeks of 2 months, 2 stores, 4 products (one not in the dimension), 2 brands, 6 documents, 2 commits and 1 failing query |
| `gold_refresh` | an undisturbed run repairs what others left and counts a line as often as the joins copy it, no movement is skipped, the log tells the outcome | 2 runs, 2 documents out of 3 sorts with up to 2 copies of a line, 2 weeks, 1 product, 2 brands, 3 edits or faults |

The bounds are the smallest at which every case happens: an expiry of the day
window needs a clock of 5; a race needs two requests; the iteration limit needs
a round before and at the limit; contention on the pool needs more threads than
connections; a window that moves needs two weeks, two documents and an edit
after both; a miss that outlives an entry and crosses the end of a month needs two
ticks per month and five instants, and two queries per panel already disagree; a
fact that is empty in the middle of a call and full at its end needs two commits;
a list that cuts something off needs limits (`Limits`) below the number of
rows, so the TOP and the slices of the tools are scaled down from 3..500 to 1..4; a
second alert of a row needs a product that its rule calls obsolete while the sales of
the last four weeks have it, here after one week without a sale.
Constraints only cut behaviours off, and `MaxFaults`, `MaxInFlight`,
`MaxPayloads`, `MaxClock`, `MaxRows`, `MaxMisses`, `MaxBlocks`,
`MaxRefusals`, `MaxDocs`, `MaxCopies`, `LastWeek`, `MaxEvents` and `MaxCommits` are guards
of the environment, as is `Loose`, the entities that tool results name outside the three
keys. `gold_refresh` also leaves aside (`Pruned`) two documents in an order that is like
another, two runs among edits and faults while there is no document, and edits after
both runs. In it a reload starts only when nothing runs and nothing
starts during it (`ReloadsOverlap = FALSE`). In `briefings` the weeks a caller may
name (`AskedWeeks`) are the last two, since the first is like the second. The filters
on severity, status, store, brand, product and segment take all their values and
are left out, those of the coverage list at most two at a time (`FewFilters`), since
they are conjuncts that know nothing of each other; not varied are `level` (all alerts are of products) and the `limit` of a
list, which is `Limits.page`. The
world is followed until the one call is over, which is why that run checks no
deadlock.

The other runs each check one sentence of the documentation that the code does
not keep, and TLC answers with the behaviour that breaks it:

| Run | Sentence | What happens |
| --- | --- | --- |
| `chat_audit` | `docs/api-reference.md:268` "success or failure - writes a row" | a failing database call outside the LLM loop writes none |
| `pool_retry` | `db/connection.py:27-28` bounded and pre-created | after a refused connection the next `initialize` waits forever holding the lock |
| `gold_window` | `sql/gold/README.md:41`, `:73` "Whole pipeline is idempotent", 9.6.a "MUST be exact" | voiding the earliest document moves the window, and its week's sales stay |
| `compare_months` | `docs/data-contract.md:543` "`value_a` Metric value for `period_a`" | comparing months by brand, the sales of a brand with two active products are counted twice (`db/queries.py:571`) |

`pool_retry` needs a process that goes on after a failed `initialize`. The
server does not (its lifespan fails and it stops); the tool command line does,
where the first queries of a briefing initialise the pool from their threads.

Other sentences that the code was seen not to keep while it was modelled, and
that no run checks: `db/conversation.py:113-115` (`ChatTurn!HistoryIsTurns`: a
concurrent request reads half a turn),
`docs/discovery/02-gold-mapping.md:125` (`GoldRefresh!ReloadsLoseNothing`: with
`ReloadsOverlap = TRUE`, a reload that overlaps a refresh loses the movements below
its watermark for good), `docs/runbook.md:293` (the token budget is a rolling day, not
one that ends at midnight UTC), `docs/runbook.md:163` (of two internal requests
with one `X-Request-Id` the second is answered and its audit row dropped),
`security/sanitizer.py:6-8` (an entity without a display name is shown by id; and the
model does see ids: `scope_id` of a comparison, those inside an `alert_id`, and, whatever
the role that asks, those a `direccion` reply of the conversation had),
`sql/gold/11_monthly_views.sql:216` ("1 row per (tenant_id, year_month_iso, brand_id)": a
brand whose active products name it differently has several, each with all its
sales, and so does the weekly view),
`setup_audit_schema.sql:61-63` (only the two texts of a turn are stored, not the
tool blocks), `docs/api-reference.md:141` (`iterations` counts calls of the
model), `docs/runbook.md:314` (a briefing holds several connections),
`docs/discovery/02-gold-mapping.md:28` (drafts are in the facts) and
`README.md:31` of the repository (the two incremental facts are not rebuilt: a
movement voided after it was loaded stays until a full reload). Overlapping
refreshes are refused by the primary keys in most orders, but with three of
them and a brand that changes in between a sale can be counted under both
brands. `fact_sales_weekly` joins `almacen_producto`, which may hold a pair
twice (`06_2:87`, `:103` remove the duplicates, `06_1:108-113` does not): the line is then
counted twice, and the exact cross-check 9.6.a (`09:112-127`) fails.
`LoggedStepsAreLoaded` says that a line counts as often as it has copies; `gold_window`
allows none (`MaxCopies = 1`), so that what it shows is the window. A run whose step
failed may leave the master RUNNING in the batch log, when the second of the two
CATCHes never commits. When two misses of a panel
overlap, the one that asked first may store last: the panel then steps back to
older numbers, never to ones older than the cache allows.

Of the tools, where no sentence says otherwise or a reader may expect more:
a store's briefing without a week looks for the latest week of the store, but the
view only has the tenant's latest, so a store that did not sell in it has no
briefing (`tools/briefings.py:278-281`); the weekly briefing of an older week has
no brands, for the same reason, and does not say so; when the query a briefing
rests on fails it answers `None`, and the list of failures its header promises
(`tools/briefings.py:3-5`) is lost; the alerts of a store, brand or product are
those among the 50 most valuable of the tenant, and "total" counts stop at the
limit of the list they count, and count a row twice that raises two alerts; the
severity of an alert does not follow the colour of its row (a RED one may be LOW);
the alerts of a month are those of today; and of two
queries that one ratio divides, one may be older than the other. `FiguresWereTrue`
is stated so that these hold: a list must be complete only when it is not full,
the segments of a brand add up to its sales only when its active products fit into
the list they are counted from, and each figure has a moment of its own. What a
product, brand or store sold that has no row of its own (a product outside the
dimension, a brand without an active product, a store that is not active) is in the
totals of a tenant and in none of the rows: `PanelsAddUp` says so with the terms
`brandless` and `storeless`, and `Counted` leaves out of a comparison by brand what the
join on the product drops (`db/queries.py:407`).

## 4. Fairness

Safety runs assume none. `Orchestrator` assumes `WF_vars(Step)`: once a turn
started, its coroutine is resumed and the API client and the database answer or
give up; starting a turn is up to the user. `ConnectionPool` assumes that each
thread is scheduled (weak), and that the lock and the executor's queue are not
taken from under a waiter for ever (strong): the executor is a FIFO queue and
the lock is held only while connecting. Nothing obliges a caller to call, a
coroutine to give up, or the server to stop.

## 5. Proofs

Every invariant a passing run checks is also proved for all constants its module
allows. Each proof has one step per action; the
theorem a reader wants follows from an invariant that is inductive and says what
the code relies on between two steps.

`RateLimiterProofs` proves `TypeCorrect`, `TenantQuotaHolds`, `UserQuotaHolds` and
`LimiterImplementsQuota` under `LimitsAssumption`. Neither quota is inductive,
since it says nothing of what the deques hold. The invariant that is relates each
deque to the history: a deque is a suffix of its log, everything dropped is older
than an hour, the log is sorted and never ahead of the clock, and its last `limit`
entries span more than an hour whenever one more follows. From it the number of
live entries of the deque equals the number of recent entries of the log, which is
also what the refinement needs: each action of the limiter is an action of
`SlidingQuota` or leaves its variables alone. Two more theorems add up over data:

* `OvershootIsBounded`: the deque of charges is a suffix of the log of charges and
  what it dropped is a day old, so the budget check sees all that counts; the last
  day never exceeds the budget by as much as one greatest charge per coroutine,
  those in flight being what a check cannot see (`BudgetInv`). It assumes finitely
  many coroutines and a greatest cost.
* `DequesAgreeHolds`: from any moment on a tenant's log has as many hits as the logs
  of its users together (`LogsAgree`), which carries over to the deques whenever
  each was trimmed. There may be infinitely many users: that only finitely many
  have hits is part of the invariant.

The sums are recursive functions over a deque. What is needed of them is proved by
least counterexample, from the well-foundedness of the naturals (`LeastNat`), since no
prover here can apply an induction theorem.

`ChatTurnProofs` proves the type invariant and all five safety properties of
`chat_turn` for any number of requests, tenants, conversations, crashes and
failed calls: `NumbersHaveNoGap`, `RepliesFollow`, `TenantsAreSeparate`,
`AuditAgreesWithStore` and `OnlyWholeTurnsAreCharged`. It assumes that
`NoTenant` is no tenant and `NoConv` no conversation. The properties speak of the tables only, so
none is inductive; `IInv` adds what each request in flight relies on:

* `Placed`: past `_resolve_conversation` the conversation belongs to the
  request's tenant, whatever other requests create;
* `NumberFits`: the number a request has read is 1 or follows a number that is
  stored. That remains true however stale the number gets, because rows are only
  ever added, which is why two racing appends may repeat a number and never skip
  one;
* `Questioned`: before the reply is inserted its question is stored, and the
  number read for the reply is larger (it was read after the question was
  committed);
* `RowsOwned`: a request that has not inserted yet has no row anywhere, from
  which follows that one audited as ERROR left nothing behind;
* `Whole`, `AnswersCharged`, `AuditFollowsStore`: what the later steps have
  already done.

`SanitizerProofs` proves `TypeCorrect`, `RawIdsAreAccountedFor`, `TokensAreStable` and
`AnswersResolve`. The table is the one truth: rows only come, the two unique
indexes make it one-to-one within a conversation (`OneToOne`), and whatever a
request caches or has shown the LLM is a row (`SeenIsRows`), whichever of the ways
through look-up, mint and lost race it took. That the model is shown no raw id is
false of this code; what is proved is where one can come from (`GivenAway`): a value
outside the three keys, or a `direccion` request of the conversation, through the
replies that are stored and read again.

`OrchestratorProofs` proves `TypeCorrect`, `CallsStayWellFormed`, `OfferMeetsGate` and
`SuccessReadEverything`. What is sent is the memory, whatever it is, the question, and
rounds; the messages after the memory alternate by the parity of their position; the
ids of the last message that uses tools are those answered so far followed by those still to come; and every
tool that ran has its result recorded.

`ConnectionPoolProofs` proves `TypeCorrect`, `ConnectionsAreExclusive`,
`ConnectionsAreConserved` and `PoolImplementsCalls`, the refinement of `QueryCalls`,
for any set of calls and threads. Connections are numbered as they are opened; a
thread has the lock exactly while it connects; no thread takes from the queue
before the flag is set; the queue holds what was put and not taken; and whatever a
caller awaits was asked for. That finitely many calls hold a connection is part of
the invariant, so `Calls` may be infinite.

`ServicePanelsProofs` proves `TypeCorrect`, `PanelsAgree`, `CachedMetricsAreFresh` and
`CachedSuggestionsAreFresh`. All that is kept, in a cache or in the locals of a
miss, is dated with a moment that is past and knows every turn (or alert) that was
there then; the month and role of its key are those it was read for.

`GoldRefreshProofs` proves `TypeCorrect`, `NoMovementIsSkipped`, `LogIsTruthful` and
`LogKeepsItsWord` for any number of runs, products, documents and weeks, and for
any bound on edits and faults. `NoMovementIsSkipped` and `LogKeepsItsWord` assume
`ReloadsOverlap = FALSE`; without it the first is false, as section 3 says.
`OneRowPerMovement` speaks of what is loaded; its invariant
`LoadInv` adds what a run between its SELECT and its INSERT relies on:

* `MarksKept`: everything valid up to the watermark a run holds is loaded, and the
  watermark is no larger than the last id issued, so that a new document is
  always above it;
* `ReloadsAlone`: while a reload runs nothing else does, so that no watermark is
  held when the fact is emptied.

`LogTellsOutcome` compares the rows of one run; `LogInv` says how far the run is:
the procedures before its step have succeeded, the one it is in is running, the
later ones have no row, and a run that ended has some step for which that was so. A
run that threw is in its last phase until the master's CATCH, with its step FAILED or,
if that CATCH failed too, still RUNNING.
`LoggedStepsAreLoaded` speaks of the steps a run has logged; `LoadedInv` says what each
statement of a run that nothing disturbed leaves for the next: the dimension is
current before the sales read it, the window covers every document, its weeks are
empty between the DELETE and the INSERT and hold exactly the rows of the documents
after it, each with as many copies of a document as the joins make, a bucket only adds
up documents of its own week and product, and the
incremental facts reach the watermark.

`BriefingsProofs` proves `TypeCorrect`, `ReportsHaveSales`, `NothingMeansNothing`,
`PanelsAgree`, `BucketsAreWhole` and `AnswersWereTrue` for any tenants, stores, brands,
products, documents, limits and calendar, and any number of commits and faults during
a call. The assumptions on the constants are four: a week is a small number and a
month one of six digits (`CalendarAssumption`), the dimensions have one row per
product and store of a tenant (`DimensionsAssumption`), a product has a price and a
rule whose most days of coverage are no fewer than its least (`RulesAssumption`, the
constraint `ck_rules_coverage`), and tenants, stores,
products and documents are finitely many and numbered (`BriefingsAssumption`). What a call
is has two parts:

* The programs. `Orderly` says what every program has in common: only its first
  stage looks for the latest week or month, alone, and needs it; what a stage needs
  is read by it, or by an awaited query before it, and never again later. Each
  program is built up stage by stage (`Then`, `ThenAwait`, `ThenGather`), and
  `ProgramHas` collects them with what each tool needs. `InputsFit` says what the
  Input classes let through, as far as it matters: a week for the weekly tools, a
  month for the monthly ones, a store or a brand where one is required.
* The call. `IInv` says that each part read was the query's answer in one of the
  states in `seen` (`WasRead`), with the period the call has now, or is missing
  because it failed in a gather; that no earlier stage found nothing (`Found`); and
  that the period is the one asked for or the one that was looked up (`Resolved`).
  `Resume` preserves it because the period only changes in the first stage, before
  any query that uses it.

A report is then built on a row that a query found in one state (`ReportSold`), and
a tool that found nothing read an empty answer in one state, from which follows
that nothing was sold, or that the store, brand or product was not active or not in
the latest week (`NoWeek`, `NoMonth`, `NoStore`, `NoBrand`, `NoSku`). The database half
of `IInv` (`GoodDb`, `GoodCleared`) gives the primary keys: the INSERT of a refresh
meets no row of its weeks, since its DELETE emptied them and nothing else fills
them. `NothingMeansNothing`, `PanelsAgree` and `AnswersWereTrue` assume `NoneIsNull`: NULL has
no elements and is no row of a query and no product. TLC's model value is like that,
but nothing else in the module says so.

The three theorems about figures need more of the database than its keys. `FInv` adds
to `IInv` that the facts are finite, that their rows are of stores and products there
are, that a line of sales carries the brand of its product (`Typed`), in the database and
in every state in `seen`, and that a query that was not read is named among the
failures (`Told`): this is where a failure that `_gather_safe` forgot to name, or a
result put under the name of another, would break the proof. The rest is about one
state of the database at a time:

* Sums. `Amount` is a fold of the community modules over a set. `SummedOnce` gives it its
  recursion and `SumStep` one step of it, by least counterexample on the cardinality;
  `SumOfUnion`, `KeyedAddUp` and `AllKeysAddUp` then say that the sums of the lines by a key
  (a brand, a store, a month, a bucket) and of those without one add up to the whole.
* Panels. `BrandRows`, `StoreRows`, `BrandMonthRows` and `StoreMonthRows` say that a view has
  one row per key (per brand and name) and what its figures are sums of, `MonthRows` the same of
  `vw_sales_monthly`, through which the monthly ones pass; `PanelsAgree` follows from these
  and `KeyedAddUp`. `BucketsAreWhole` is the same with the keys of the two periods
  together, which is where an inner join would fail (`WeeksCompare`, `MonthsCompare`).
* Lists. A list is the first n by who is ahead of whom (`Ranks`, `FirstOf`): all rows
  when there are no more than n (`FirstAll`), never more than n (`FirstAreFew`), and who
  is ahead of one listed is listed (`FirstAhead`). So an alert left out has no greater
  impact than one shown, though a tool shows only those of its store, brand or
  product (`Showing`, `AlertsWereTrue`). A row is due for one reason, or for two when it
  is obsolete and short, and raises as many alerts; so the count of a month is that
  number, or the limit (`CountWasTrue`).
* Answers. A field of an answer comes from a query (`PartIs`: it was read, or it is
  named), what that query had in one state was true of it (`WeekTotalsAre`,
  `BrandsWereTrue`, `SegmentsWereTrue` and so on), and there is one lemma for each report
  (`WeeklyBriefingWasTrue` to `SkuAnswerWasTrue`) and two for the tools of a single query
  (`ListedWasTrue`, `ShownWasTrue`), which `AnswersWereTrue` collects.

Three conditions in these properties are there because the proofs need them, though an
instance without such data satisfies the properties without them: what a store that is
not active sold is in no row, a comparison by brand drops products outside the
dimension, and segments are those of the products that fit into the list.
`MCBriefings` has such a store and such a product.

Only model-checked: liveness, `TurnEnds` and `CallsEnd`, since fairness and ENABLED are
beyond the provers.

`HistoryIsTurns`, `ReloadsLoseNothing`, `EveryEndAudited` and `MonthlyBrandsAreTrue` do
not hold, as section 3 says.

## 6. Plan

1. Done: limiter, chat flow, sanitiser, orchestrator, pool and what it promises,
   panels, refresh, views, queries and tools; proofs of every safety
   invariant.
2. Left: liveness stays with TLC. The rest of the code is either stateless
   (authentication), data (ratios, prices, texts) or offline; see section 7.

## 7. Not modelled

Prompts, configuration, health probes and the feedback insert hold no state that
two steps could disagree on. Authentication is a stateless decision whose outcome
the modules take as input. The evaluation harness is offline. Costs, hashes,
durations, titles and texts are data no property depends on. The uuid of a fresh
request or conversation is taken to be fresh; a token of eight hex digits is not.

Of the tools: the look-up of an audit trail (one row by its key), the prices,
ratios and names in the answers, and the stock columns of the dashboards. One count
per row stands for units, revenue, cost and margin. A product has one price, for
the list price, the unit cost and the value of a unit in stock, and one rule: what makes
a rule apply (brand, category, season) is left out. Days of coverage are not rounded: in
the code the colour of a row is not either and its alerts are, so a row at 90.004 days of
90 is RED there without an alert. Every document is an invoice, so stock is obsolete
when its last document is old, and no product is in stock without ever having been
sold. The dimensions, the plan, rules and prices do not change during a call.
What users type is not modelled: an id in a question reaches the model as it was typed.
Of the warehouse: the tables of `02_dim_date.sql` (`MonthOf` is any assignment of weeks
to months), `vw_sales_pipeline`, `vw_stock_monthly_eom` and `09_validations.sql`, which
no tool reads, and the seeds.
