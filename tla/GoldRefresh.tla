----------------------------- MODULE GoldRefresh -----------------------------
(***************************************************************************)
(* The stored procedures that rebuild one tenant's warehouse from the ERP: *)
(* sp_refresh_all (sql/gold/08), which runs the dimension merges (05), the *)
(* two weekly facts, deleted and inserted again over a window of weeks     *)
(* (06_1, 06_2), and the two incremental facts, which only take ids above  *)
(* the largest one loaded (06_3, 06_4); and the full reload of the stock   *)
(* movements that the runbook prescribes.  No procedure opens a            *)
(* transaction: each statement commits on its own, runs overlap, fail and  *)
(* are killed between any two of them, and the ERP changes meanwhile.      *)
(*                                                                         *)
(* A document stands for its line and its kardex row, with one id for the  *)
(* three; a sum is what it adds up: of every document, how many copies; a  *)
(* date is its week.                                                       *)
(* dim_category and dim_store are refreshed but no fact reads them, so     *)
(* only their log rows are kept; the same goes for what sp_refresh_all     *)
(* seeds, which the mapping of brands stands for.                          *)
(***************************************************************************)
EXTENDS Naturals, Sequences, FiniteSetsExt

CONSTANTS
    Runs,            \* executions of a procedure, each a batch_id of its own
    Skus,            \* products
    Brands, NoBrand, \* brand ids, and the 0 that stands for none
    DeadAfter,       \* @dead_threshold_days, in weeks
    ReloadsOverlap,  \* whether a full reload may start while a refresh runs
    Issuable,        \* the documents the ERP may issue
    MaxDocs, LastWeek, MaxEvents, MaxCopies    \* bounds of the environment

\* "copies" are the rows that the LEFT JOINs of almacen_producto and of
\* submayor_inventario make of a line: several when its store has its product
\* twice, or when the document has the product on several lines.
Document == [kind : {"sale", "transfer"}, week : 1..LastWeek, sku : Skus,
             empties : BOOLEAN, valid : BOOLEAN, copies : 1..MaxCopies]

ASSUME RefreshAssumption ==
    /\ NoBrand \in Brands
    /\ DeadAfter \in Nat
    /\ ReloadsOverlap \in BOOLEAN
    /\ {MaxDocs, LastWeek, MaxEvents, MaxCopies} \subseteq Nat
    /\ LastWeek >= 1 /\ MaxCopies >= 1
    /\ Issuable \subseteq {d \in Document : d.valid}

VARIABLES
    docs,        \* dbo.documento and the rows that hang from it, by id
    products,    \* dbo.producto with [delete] = 0
    mapping,     \* gold.dim_brand_mapping, edited by hand
    today,       \* the current week
    dim,         \* gold.dim_sku: sku -> brand and is_active
    sales,       \* gold.fact_sales_weekly
    stock,       \* gold.fact_stock_weekly
    movements,   \* gold.fact_stock_movements: the ids loaded
    transfers,   \* gold.fact_transfers: the ids loaded
    run,         \* the runs: what they are doing and their local variables
    log,         \* gold.etl_batch_log, per run and step_name
    quiet,       \* history: nothing else happened since the run started
    events       \* edits of the ERP and faults so far

source    == <<docs, products, mapping, today>>
facts     == <<sales, stock, movements, transfers>>
warehouse == <<dim, facts>>
vars == <<source, warehouse, run, log, quiet, events>>

-----------------------------------------------------------------------------
(* What the queries select. *)

Weeks == 1..LastWeek
Ids   == 1..Len(docs)

\* d.[delete] = 0 AND d.estado IN (1, 2), the filter of every fact.
Valid == {d \in Ids : docs[d].valid}

Transfers == {d \in Valid : docs[d].kind = "transfer"}

\* COALESCE(ds.brand_id, 0): the row is joined whether active or not.
BrandOf(k) == IF k \in DOMAIN dim THEN dim[k].brand ELSE NoBrand

\* The lines that the bucket of a week and a product adds up.
Sold(w, k) == {d \in Valid : /\ docs[d].kind = "sale"
                             /\ docs[d].week = w
                             /\ docs[d].sku = k}

\* The SUMs of their bucket: a line counts as often as the joins copy it.
Summed(w, k) == [d \in Sold(w, k) |-> docs[d].copies]

SalesRows(W) ==
    {row \in {[week |-> w, sku |-> k, brand |-> BrandOf(k), lines |-> Summed(w, k)] :
                  w \in W, k \in Skus} : DOMAIN row.lines # {}}

\* The kardex of a product up to a week, and TOP 1 of it by date and id.
Kardex(k, w) == {d \in Valid : docs[d].sku = k /\ docs[d].week <= w}
Later(d, e)  == \/ docs[d].week > docs[e].week
                \/ docs[d].week = docs[e].week /\ d >= e
LastMove(k, w) == CHOOSE d \in Kardex(k, w) : \A e \in Kardex(k, w) : Later(d, e)

\* alive_pairs: not at zero for longer than the threshold before the window's end.
Alive(k, to) ==
    /\ Kardex(k, to) # {}
    /\ \/ ~docs[LastMove(k, to)].empties
       \/ to <= docs[LastMove(k, to)].week + DeadAfter

\* Forward filled: a row for every week since the first movement.
StockRows(W, to) ==
    {row \in [week : W, sku : Skus, move : Valid] :
        /\ Alive(row.sku, to) /\ Kardex(row.sku, row.week) # {}
        /\ row.move = LastMove(row.sku, row.week)}

\* Wrong on purpose: the next id to load, where the largest one loaded is meant.
NextId(table) == IF table = {} THEN 1 ELSE Max(table) + 1

\* ISNULL(MAX(id), 0), read from the fact itself.
MaxId(table) == IF table = {} THEN 0 ELSE Max(table)

\* PRIMARY KEYs of rows of the weekly facts, without the tenant and the store.
SalesKeys(rows) == {<<row.week, row.sku, row.brand>> : row \in rows}
StockKeys(rows) == {<<row.week, row.sku>> : row \in rows}

-----------------------------------------------------------------------------
(* The runs.  A step is the statements of one procedure: "entering" is the  *)
(* INSERT of its log row, "first" its DELETE, its MERGE or its SELECT of    *)
(* the watermark, "second" its INSERT, "logging" the UPDATE that ends it    *)
(* and "catching" that of its CATCH; "thrown" is the CATCH of the master.   *)
(* The master itself fills the calendar and the manual tables, computes the *)
(* window and, at the end, the data quality metrics: steps with no row of   *)
(* their own.                                                               *)

Dimensions == <<"dim_category", "dim_store", "dim_sku">>
Facts      == <<"sales", "movements", "stock", "transfers">>
Called     == Dimensions \o Facts
Order      == <<"prepare">> \o Dimensions \o <<"window">> \o Facts \o <<"quality">>
Procedures == {"dim_category", "dim_store", "dim_sku",
               "sales", "movements", "stock", "transfers"}

Plan(r) == IF run[r].reload THEN <<"movements">> ELSE Order
Step(r) == Plan(r)[run[r].step]

\* A step of the master has no row to enter; what some steps write, no fact reads.
FirstPhase(s) == IF s \in Procedures THEN "entering"
                 ELSE IF s = "prepare" THEN "logging" ELSE "first"
WorkPhase(s)  == IF s \in {"dim_category", "dim_store"} THEN "logging" ELSE "first"

NotStarted == [state |-> "idle", reload |-> FALSE, step |-> 1, phase |-> "first",
               from |-> 1, to |-> 1, mark |-> 0]
NoLog == [s \in Procedures \cup {"sp_refresh_all"} |-> "none"]

Init ==
    /\ docs = <<>> /\ products = Skus /\ today \in Weeks
    /\ mapping = [k \in Skus |-> NoBrand]
    /\ dim = <<>>
    /\ sales = {} /\ stock = {} /\ movements = {} /\ transfers = {}
    /\ run = [r \in Runs |-> NotStarted]
    /\ log = [r \in Runs |-> NoLog]
    /\ quiet = [r \in Runs |-> FALSE]
    /\ events = 0

\* Edits and faults are bounded together.
Event == events < MaxEvents /\ events' = events + 1

Running(r)   == run[r].state = "running"
At(r, s, ph) == Running(r) /\ Step(r) = s /\ run[r].phase = ph
Goto(r, ph)  == run' = [run EXCEPT ![r].phase = ph]

\* A run ends: its variables are gone, its window stays in the log.
End(r, outcome) ==
    run' = [run EXCEPT ![r] = [@ EXCEPT !.state = outcome, !.step = 1,
                                        !.phase = "first", !.mark = 0]]

\* Log rows of l set to a status, those of the steps in S that have a row.
Logged(l, S, status) == [s \in DOMAIN l |-> IF s \in S THEN status ELSE l[s]]

\* A run starts: the log gets the row of the procedure, RUNNING by default.
Start(r, reload) ==
    /\ run[r].state = "idle"
    /\ ReloadsOverlap \/ \A q \in Runs : Running(q) => ~reload /\ ~run[q].reload
    /\ run' = [run EXCEPT ![r] = [@ EXCEPT !.state = "running", !.reload = reload,
                     !.phase = IF reload THEN "first" ELSE FirstPhase(Order[1])]]
    /\ log' = [log EXCEPT ![r] = Logged(@, {IF reload THEN "movements" ELSE "sp_refresh_all"}, "RUNNING")]
    /\ quiet' = [q \in Runs |-> q = r /\ \A o \in Runs : ~Running(o)]
    /\ UNCHANGED <<source, warehouse, events>>

\* The MERGE of dim_sku: members of the source are inserted or updated, the
\* others stay with is_active = 0.
MergeSku(r) ==
    /\ At(r, "dim_sku", "first")
    /\ dim' = [k \in DOMAIN dim \cup products |->
                  [brand  |-> IF k \in products THEN mapping[k] ELSE dim[k].brand,
                   active |-> k \in products]]
    /\ Goto(r, "logging")
    /\ UNCHANGED <<source, facts, log, quiet, events>>

\* A procedure inserts its log row, before its TRY.
Enter(r) ==
    /\ Running(r) /\ run[r].phase = "entering"
    /\ Goto(r, WorkPhase(Step(r)))
    /\ log' = [log EXCEPT ![r] = Logged(@, {Step(r)}, "RUNNING")]
    /\ UNCHANGED <<source, warehouse, quiet, events>>

Window(r) == run[r].from..run[r].to

\* Wrong on purpose: the first week of the window is left alone.
DeleteAfterFirst(r) ==
    /\ \/ /\ At(r, "sales", "first") /\ UNCHANGED stock
          /\ sales' = {x \in sales : x.week \notin Window(r) \ {run[r].from}}
       \/ /\ At(r, "stock", "first") /\ UNCHANGED sales
          /\ stock' = {x \in stock : x.week \notin Window(r) \ {run[r].from}}
    /\ Goto(r, "second")
    /\ UNCHANGED <<source, dim, movements, transfers, log, quiet, events>>

\* The DELETE of a weekly fact, over the weeks of the window.
DeleteWindow(r) ==
    /\ \/ /\ At(r, "sales", "first") /\ UNCHANGED stock
          /\ sales' = {x \in sales : x.week \notin Window(r)}
       \/ /\ At(r, "stock", "first") /\ UNCHANGED sales
          /\ stock' = {x \in stock : x.week \notin Window(r)}
    /\ Goto(r, "second")
    /\ UNCHANGED <<source, dim, movements, transfers, log, quiet, events>>

\* The INSERTs, which violate the primary key and insert nothing when
\* another run has inserted one of their rows (Fail).
InsertSales(r) ==
    LET new == SalesRows(Window(r))
    IN  /\ At(r, "sales", "second")
        /\ SalesKeys(new) \cap SalesKeys(sales) = {}
        /\ sales' = sales \cup new
        /\ Goto(r, "logging")
        /\ UNCHANGED <<source, dim, stock, movements, transfers, log, quiet, events>>

InsertStock(r) ==
    LET new == StockRows(Window(r), run[r].to)
    IN  /\ At(r, "stock", "second")
        /\ StockKeys(new) \cap StockKeys(stock) = {}
        /\ stock' = stock \cup new
        /\ Goto(r, "logging")
        /\ UNCHANGED <<source, dim, sales, movements, transfers, log, quiet, events>>

\* Wrong on purpose: the watermark is the largest id of the kardex.
ReadKardexId(r) ==
    /\ ~run[r].reload
    /\ \E table \in {"movements", "transfers"} : At(r, table, "first")
    /\ run' = [run EXCEPT ![r].phase = "second", ![r].mark = Len(docs)]
    /\ UNCHANGED <<source, warehouse, log, quiet, events>>

\* @full_refresh = 0: the watermark is the largest id of the fact.
ReadWatermark(r) ==
    /\ ~run[r].reload
    /\ \E table \in {"movements", "transfers"} :
        /\ At(r, table, "first")
        /\ run' = [run EXCEPT ![r].phase = "second",
                     ![r].mark = MaxId(IF table = "movements" THEN movements ELSE transfers)]
    /\ UNCHANGED <<source, warehouse, log, quiet, events>>

\* @full_refresh = 1: the fact is emptied and the watermark is 0.
DeleteMovements(r) ==
    /\ run[r].reload
    /\ At(r, "movements", "first")
    /\ movements' = {}
    /\ run' = [run EXCEPT ![r].phase = "second", ![r].mark = 0]
    /\ UNCHANGED <<source, dim, sales, stock, transfers, log, quiet, events>>

Above(r, ids) == {d \in ids : d > run[r].mark}

InsertMovements(r) ==
    /\ At(r, "movements", "second")
    /\ Above(r, Valid) \cap movements = {}
    /\ movements' = movements \cup Above(r, Valid)
    /\ Goto(r, "logging")
    /\ UNCHANGED <<source, dim, sales, stock, transfers, log, quiet, events>>

InsertTransfers(r) ==
    /\ At(r, "transfers", "second")
    /\ Above(r, Transfers) \cap transfers = {}
    /\ transfers' = transfers \cup Above(r, Transfers)
    /\ Goto(r, "logging")
    /\ UNCHANGED <<source, dim, sales, stock, movements, log, quiet, events>>

\* The end of a step and the call of the next, if the run has one.
Advance(r) ==
    LET next == run[r].step + 1
        last == next > Len(Plan(r))
    IN  /\ Running(r) /\ run[r].phase = "logging"
        /\ IF last THEN End(r, "done")
           ELSE run' = [run EXCEPT ![r].step = next, ![r].phase = FirstPhase(Plan(r)[next])]
        /\ log' = [log EXCEPT ![r] = Logged(@, {Step(r)}, "SUCCESS")]
        /\ UNCHANGED <<source, warehouse, quiet, events>>

\* The week of the earliest document to this week.
FirstWeek == IF Valid = {} THEN 1 ELSE Min({docs[d].week : d \in Valid})

ComputeWindow(r) ==
    /\ At(r, "window", "first")
    /\ run' = [run EXCEPT ![r].from = FirstWeek, ![r].to = today,
                          ![r].step = @ + 1, ![r].phase = "entering"]
    /\ UNCHANGED <<source, warehouse, log, quiet, events>>

Finish(r) ==
    /\ At(r, "quality", "first")
    /\ End(r, "done")
    /\ log' = [log EXCEPT ![r] = Logged(@, {"sp_refresh_all"}, "SUCCESS")]
    /\ UNCHANGED <<source, warehouse, quiet, events>>

KeyViolation(r) ==
    \/ /\ At(r, "sales", "second")
       /\ SalesKeys(SalesRows(Window(r))) \cap SalesKeys(sales) # {}
    \/ /\ At(r, "stock", "second")
       /\ StockKeys(StockRows(Window(r), run[r].to)) \cap StockKeys(stock) # {}
    \/ At(r, "movements", "second") /\ Above(r, Valid) \cap movements # {}
    \/ At(r, "transfers", "second") /\ Above(r, Transfers) \cap transfers # {}

\* A statement raises.  Inside the TRY of a procedure its own CATCH is next; the
\* INSERT of its row and the statements of the master are in the master's TRY only.
Raise(r) ==
    /\ Running(r) /\ run[r].phase \notin {"catching", "thrown"}
    /\ \/ KeyViolation(r) /\ UNCHANGED events
       \/ Event
    /\ Goto(r, IF Step(r) \in Procedures /\ run[r].phase # "entering"
               THEN "catching" ELSE "thrown")
    /\ UNCHANGED <<source, warehouse, log, quiet>>

\* The UPDATE of a CATCH: the row is FAILED, unless the UPDATE raises itself.
Failed(r, s) ==
    \/ /\ log' = [log EXCEPT ![r] = Logged(@, {s}, "FAILED")]
       /\ UNCHANGED events
    \/ Event /\ UNCHANGED log

\* Wrong on purpose: the CATCH of a procedure logs and does not throw.
CatchQuietly(r) ==
    /\ Running(r) /\ run[r].phase = "catching"
    /\ Failed(r, Step(r))
    /\ IF run[r].reload THEN End(r, "failed")
       ELSE run' = [run EXCEPT ![r].step = @ + 1,
                               ![r].phase = FirstPhase(Order[run[r].step + 1])]
    /\ UNCHANGED <<source, warehouse, quiet>>

\* The CATCH of a procedure logs and throws, to the master if that called it.
CatchStep(r) ==
    /\ Running(r) /\ run[r].phase = "catching"
    /\ Failed(r, Step(r))
    /\ IF run[r].reload THEN End(r, "failed") ELSE Goto(r, "thrown")
    /\ UNCHANGED <<source, warehouse, quiet>>

\* The CATCH of the master, a statement later.
CatchMaster(r) ==
    /\ Running(r) /\ run[r].phase = "thrown"
    /\ Failed(r, "sp_refresh_all")
    /\ End(r, "failed")
    /\ UNCHANGED <<source, warehouse, quiet>>

\* The session or the server dies: no CATCH runs, or no more of one.
Kill(r) ==
    /\ Running(r)
    /\ Event
    /\ End(r, "killed")
    /\ UNCHANGED <<source, warehouse, log, quiet>>

-----------------------------------------------------------------------------
(* The ERP and the person who maps brands, outside the repository: every    *)
(* edit is one that the queries above react to.                             *)

Edit ==
    /\ Event
    /\ quiet' = [r \in Runs |-> FALSE]
    /\ UNCHANGED <<warehouse, run, log>>

Issue(doc) ==
    /\ Len(docs) < MaxDocs /\ doc.week <= today /\ doc.sku \in products
    /\ docs' = Append(docs, doc)
    /\ Edit /\ UNCHANGED <<products, mapping, today>>

Void(d) ==
    /\ docs[d].valid
    /\ docs' = [docs EXCEPT ![d].valid = FALSE]
    /\ Edit /\ UNCHANGED <<products, mapping, today>>

\* The product is twice in the store, or twice in the kardex of the document.
Repeat(d) ==
    /\ docs[d].kind = "sale" /\ docs[d].copies < MaxCopies
    /\ docs' = [docs EXCEPT ![d].copies = @ + 1]
    /\ Edit /\ UNCHANGED <<products, mapping, today>>

DeleteProduct(k) ==
    /\ k \in products /\ products' = products \ {k}
    /\ Edit /\ UNCHANGED <<docs, mapping, today>>

MapBrand(k, b) ==
    /\ mapping[k] # b /\ mapping' = [mapping EXCEPT ![k] = b]
    /\ Edit /\ UNCHANGED <<docs, products, today>>

NextWeek ==
    /\ today < LastWeek /\ today' = today + 1
    /\ Edit /\ UNCHANGED <<docs, products, mapping>>

-----------------------------------------------------------------------------
Refresh(r) ==
    \/ \E reload \in BOOLEAN : Start(r, reload)
    \/ Enter(r) \/ MergeSku(r) \/ ComputeWindow(r)
    \/ DeleteWindow(r) \/ InsertSales(r) \/ InsertStock(r)
    \/ ReadWatermark(r) \/ DeleteMovements(r)
    \/ InsertMovements(r) \/ InsertTransfers(r)
    \/ Advance(r) \/ Finish(r)
    \/ Raise(r) \/ CatchStep(r) \/ CatchMaster(r) \/ Kill(r)

Source ==
    \/ \E doc \in Issuable : Issue(doc)
    \/ \E d \in Ids : Void(d) \/ Repeat(d)
    \/ \E k \in Skus : DeleteProduct(k) \/ \E b \in Brands : MapBrand(k, b)
    \/ NextWeek

Next == Source \/ \E r \in Runs : Refresh(r)

Spec == Init /\ [][Next]_vars

-----------------------------------------------------------------------------
(* Properties.                                                             *)

SalesRow == [week : Weeks, sku : Skus, brand : Brands,
             lines : UNION {[D -> 1..MaxCopies] : D \in SUBSET (1..MaxDocs)}]
StockRow == [week : Weeks, sku : Skus, move : 1..MaxDocs]
RunRecord == [state : {"idle", "running", "done", "failed", "killed"},
              reload : BOOLEAN, step : 1..Len(Order),
              phase : {"entering", "first", "second", "logging", "catching", "thrown"},
              from : Weeks, to : Weeks, mark : 0..MaxDocs]
LogRows == [Procedures \cup {"sp_refresh_all"} -> {"none", "RUNNING", "SUCCESS", "FAILED"}]
TypeOK ==
    /\ docs \in Seq(Document) /\ Len(docs) <= MaxDocs
    /\ products \subseteq Skus
    /\ mapping \in [Skus -> Brands]
    /\ today \in Weeks
    /\ DOMAIN dim \subseteq Skus
    /\ dim \in [DOMAIN dim -> [brand : Brands, active : BOOLEAN]]
    /\ sales \subseteq SalesRow /\ stock \subseteq StockRow
    /\ movements \subseteq Ids /\ transfers \subseteq Ids
    /\ run \in [Runs -> RunRecord]
    /\ log \in [Runs -> LogRows]
    /\ quiet \in [Runs -> BOOLEAN]
    /\ events \in 0..MaxEvents

\* The buckets that add a document up.
Counting(d) == {row \in sales : d \in DOMAIN row.lines}

\* Every valid sale of the weeks W is in one bucket, its own, under the brand its
\* product has now and as often as the joins copy it now; no other document is.
SalesRebuilt(W) ==
    /\ \A d \in Ids : docs[d].kind = "sale" /\ docs[d].week \in W =>
          IF docs[d].valid
          THEN \E row \in sales : Counting(d) = {row} /\ row.lines[d] = docs[d].copies
          ELSE Counting(d) = {}
    /\ \A row \in sales : row.week \in W =>
          /\ \A d \in DOMAIN row.lines : docs[d].week = row.week /\ docs[d].sku = row.sku
          /\ row.sku \in products => row.brand = mapping[row.sku]

\* A product has one stock row in every week of W since its first movement,
\* with the balance no later movement of that week or before it changes.
StockRebuilt(W, to) ==
    \A w \in W, k \in Skus :
      LET rows == {row \in stock : row.week = w /\ row.sku = k}
      IN  IF Alive(k, to) /\ \E d \in Valid : docs[d].sku = k /\ docs[d].week <= w
          THEN \E row \in rows :
                 /\ rows = {row}
                 /\ row.move \in Valid /\ docs[row.move].sku = k /\ docs[row.move].week <= w
                 /\ \A d \in Valid : docs[d].sku = k /\ docs[d].week <= w =>
                       /\ docs[d].week <= docs[row.move].week
                       /\ docs[d].week = docs[row.move].week => d <= row.move
          ELSE rows = {}

\* What a row SUCCESS of etl_batch_log says of its fact is true, whatever earlier
\* runs left behind half done and whatever becomes of the rest of this run: the
\* window covers every document, its weeks are rebuilt from them, and the
\* incremental facts have every document.  Only for a run that nothing
\* overlapped, neither another run nor an edit.
LoggedStepsAreLoaded ==
    \A r \in Runs : quiet[r] =>
      /\ log[r]["sales"] = "SUCCESS" =>
           SalesRebuilt(Window(r)) /\ \A d \in Valid : docs[d].week \in Window(r)
      /\ log[r]["stock"] = "SUCCESS" => StockRebuilt(Window(r), run[r].to)
      /\ log[r]["movements"] = "SUCCESS" => Valid \subseteq movements
      /\ log[r]["transfers"] = "SUCCESS" => Transfers \subseteq transfers

\* One row per kardex movement, and per transfer line: a valid document is
\* loaded or still above the watermark, so that the next refresh takes it,
\* however refreshes overlap, fail and die.
OneRowPerMovement ==
    /\ \A d \in Valid : d <= MaxId(movements) => d \in movements
    /\ \A d \in Transfers : d <= MaxId(transfers) => d \in transfers

\* The same once no procedure runs, full reloads included, as the mapping
\* document has it ("1 row per kardex movement").  It fails when a reload empties
\* the fact between the SELECT of a refresh's watermark and its INSERT: what was
\* below the watermark stays out, and the reload's own INSERT collides.
ReloadsLoseNothing == (\A r \in Runs : ~Running(r)) => OneRowPerMovement

\* The rows of a refresh tell the truth about each other: the master is SUCCESS
\* just when the run ended well, and then every step is; it is FAILED only when
\* the run failed; a step FAILED, and one that never got to SUCCESS, is the last
\* one logged; and a run with a step FAILED does nothing more than log that.
\* (It may leave the master RUNNING for good: the two CATCHes commit apart.)
LogTellsOutcome ==
    \A r \in Runs : ~run[r].reload =>
      LET master == log[r]["sp_refresh_all"]
          status(s) == log[r][s]
      IN  /\ master = "SUCCESS" <=> run[r].state = "done"
          /\ master = "SUCCESS" => \A s \in Procedures : status(s) = "SUCCESS"
          /\ master = "FAILED" => run[r].state = "failed"
          /\ (\E s \in Procedures : status(s) = "FAILED") =>
               \/ run[r].state \in {"failed", "killed"}
               \/ Running(r) /\ run[r].phase = "thrown"
          /\ \A i \in 2..Len(Called) :
               status(Called[i]) # "none" => status(Called[i - 1]) = "SUCCESS"

\* What the sales fact adds a document up to, in all its buckets.
TimesCounted(d) == MapThenSumSet(LAMBDA row : row.lines[d], Counting(d))

\* sp_run_validations calls it an ERROR when the sales fact and the documents
\* do not add up to the same (9.6.a); a refresh that succeeded undisturbed
\* should leave no such error.  It does when the earliest document was voided:
\* the window now starts later and the week it was in is never deleted.
SalesMatchDocuments ==
    \A r \in Runs : quiet[r] /\ log[r]["sp_refresh_all"] = "SUCCESS" =>
      \A d \in Ids : docs[d].kind = "sale" =>
        TimesCounted(d) = IF docs[d].valid THEN 1 ELSE 0
=============================================================================
