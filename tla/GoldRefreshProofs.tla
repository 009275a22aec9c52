-------------------------- MODULE GoldRefreshProofs --------------------------
(***************************************************************************)
(* Proofs about GoldRefresh, for any runs, products, documents and weeks:  *)
(* types, what is unique and true of the facts, the progress the batch log *)
(* records, and that what it calls loaded is.                              *)
(***************************************************************************)
EXTENDS GoldRefresh, FiniteSetTheorems, WellFoundedInduction, TLAPS

\* A nonempty set of naturals has a least element.
LEMMA LeastNat ==
    ASSUME NEW T \in SUBSET Nat, T # {}
    PROVE  \E x \in T : \A y \in T : x <= y
<1>1. PICK x \in T : \A y \in T : <<y, x>> \notin OpToRel(<, Nat)
  BY NatLessThanWellFounded, WFMin
<1>2. \A y \in T : ~(y < x)
  BY <1>1 DEF OpToRel
<1>3. QED
  BY <1>2

\* A nonempty set of naturals with an upper bound has a greatest element.
LEMMA GreatestNat ==
    ASSUME NEW n \in Nat, NEW T \in SUBSET (0..n), T # {}
    PROVE  \E x \in T : \A y \in T : x >= y
<1> DEFINE Gaps == {n - x : x \in T}
<1>1. Gaps \in SUBSET Nat
  OBVIOUS
<1>2. Gaps # {}
  <2>1. PICK x \in T : TRUE
    OBVIOUS
  <2>2. n - x \in Gaps
    OBVIOUS
  <2>3. QED
    BY <2>2
<1> HIDE DEF Gaps
<1>3. PICK g \in Gaps : \A h \in Gaps : g <= h
  BY <1>1, <1>2, LeastNat
<1>4. PICK x \in T : g = n - x
  BY <1>3 DEF Gaps
<1>5. ASSUME NEW y \in T
      PROVE  x >= y
  <2>1. n - y \in Gaps
    BY DEF Gaps
  <2>2. n - x <= n - y
    BY <1>3, <1>4, <2>1
  <2>3. QED
    BY <2>2
<1>6. QED
  BY <1>5

-----------------------------------------------------------------------------
(* Operators.                                                              *)

\* The order of sp_refresh_all, step by step.
LEMMA OrderIs ==
    /\ Len(Order) = 10
    /\ Order[1] = "prepare" /\ Order[2] = "dim_category" /\ Order[3] = "dim_store"
    /\ Order[4] = "dim_sku" /\ Order[5] = "window" /\ Order[6] = "sales"
    /\ Order[7] = "movements" /\ Order[8] = "stock" /\ Order[9] = "transfers"
    /\ Order[10] = "quality"
  BY DEF Order, Dimensions, Facts

\* The rows of dbo.documento.
LEMMA DocType ==
    ASSUME docs \in Seq(Document)
    PROVE  /\ Len(docs) \in Nat
           /\ Valid \subseteq 1..Len(docs)
           /\ \A d \in 1..Len(docs) : /\ docs[d] \in Document
                                     /\ docs[d].week \in Weeks
                                     /\ docs[d].sku \in Skus
                                     /\ docs[d].valid \in BOOLEAN
                                     /\ docs[d].copies \in 1..MaxCopies
<1>1. Len(docs) \in Nat /\ \A d \in 1..Len(docs) : docs[d] \in Document
  OBVIOUS
<1>2. \A x \in Document : /\ x.week \in Weeks /\ x.sku \in Skus /\ x.valid \in BOOLEAN
                          /\ x.copies \in 1..MaxCopies
  BY DEF Document, Weeks
<1>3. Valid \subseteq 1..Len(docs)
  BY DEF Valid, Ids
<1>4. QED
  BY <1>1, <1>2, <1>3

\* ISNULL(MAX(id), 0) is an upper bound of the ids loaded, and one of them unless 0.
LEMMA MaxIdSpec ==
    ASSUME NEW n \in Nat, NEW T \in SUBSET (1..n)
    PROVE  /\ MaxId(T) \in 0..n
           /\ \A d \in T : d <= MaxId(T)
           /\ MaxId(T) # 0 => MaxId(T) \in T
<1>1. CASE T = {}
  BY <1>1 DEF MaxId
<1>2. CASE T # {}
  <2>1. T \in SUBSET (0..n)
    OBVIOUS
  <2>2. \E x \in T : \A y \in T : x >= y
    BY <1>2, <2>1, GreatestNat
  <2>3. MaxId(T) \in T /\ \A y \in T : MaxId(T) >= y
    BY <1>2, <2>2 DEF MaxId, Max
  <2> DEFINE m == MaxId(T)
  <2>4. m \in T /\ \A y \in T : m >= y
    BY <2>3
  <2> HIDE DEF m
  <2>5. m \in 1..n /\ \A y \in T : y \in 1..n
    BY <2>4
  <2>6. m \in 0..n /\ \A d \in T : d <= m
    BY <2>4, <2>5
  <2>7. QED
    BY <2>4, <2>6 DEF m
<1>3. QED
  BY <1>1, <1>2

\* The TOP 1 of a nonempty kardex is the last of its movements.
LEMMA LastMoveSpec ==
    ASSUME docs \in Seq(Document), LastWeek \in Nat, NEW k, NEW w, Kardex(k, w) # {}
    PROVE  /\ LastMove(k, w) \in Kardex(k, w)
           /\ \A e \in Kardex(k, w) : Later(LastMove(k, w), e)
<1> DEFINE Moves   == Kardex(k, w)
           InWeek  == {docs[d].week : d \in Moves}
<1>1. Moves \subseteq Valid /\ Moves \subseteq 1..Len(docs) /\ Len(docs) \in Nat
  BY DocType DEF Kardex
<1>2. \A d \in Moves : docs[d].week \in 0..LastWeek
  BY <1>1, DocType DEF Weeks
<1>3. InWeek \in SUBSET (0..LastWeek) /\ InWeek # {}
  BY <1>2
<1> HIDE DEF InWeek
<1>4. PICK last \in InWeek : \A v \in InWeek : last >= v
  BY <1>3, GreatestNat
<1> DEFINE AtLast == {d \in Moves : docs[d].week = last}
<1>5. AtLast \in SUBSET (0..Len(docs)) /\ AtLast # {}
  BY <1>1, <1>4 DEF InWeek
<1> HIDE DEF AtLast
<1>6. PICK d \in AtLast : \A e \in AtLast : d >= e
  BY <1>1, <1>5, GreatestNat
<1>7. d \in Moves /\ docs[d].week = last
  BY <1>6 DEF AtLast
<1>8. ASSUME NEW e \in Moves
      PROVE  Later(d, e)
  <2>1. docs[e].week \in InWeek /\ docs[e].week \in 0..LastWeek
    BY <1>2 DEF InWeek
  <2>2. last >= docs[e].week /\ last \in 0..LastWeek
    BY <1>3, <1>4, <2>1
  <2>3. CASE docs[e].week = last
    BY <1>6, <1>7, <2>3 DEF AtLast, Later
  <2>4. CASE docs[e].week # last
    BY <1>7, <2>1, <2>2, <2>4 DEF Later
  <2>5. QED
    BY <2>3, <2>4
<1>9. QED
  BY <1>7, <1>8 DEF LastMove

\* The window starts in a week of the calendar.
LEMMA FirstWeekSpec ==
    ASSUME docs \in Seq(Document), LastWeek \in Nat, LastWeek >= 1
    PROVE  FirstWeek \in Weeks
<1> DEFINE InWeek == {docs[d].week : d \in Valid}
<1>1. CASE Valid = {}
  BY <1>1 DEF FirstWeek, Weeks
<1>2. CASE Valid # {}
  <2>1. InWeek \in SUBSET Weeks
    BY DocType
  <2>2. InWeek # {}
    BY <1>2
  <2> HIDE DEF InWeek
  <2>3. InWeek \in SUBSET Nat
    BY <2>1 DEF Weeks
  <2>4. \E x \in InWeek : \A y \in InWeek : x <= y
    BY <2>2, <2>3, LeastNat
  <2>5. Min(InWeek) \in InWeek
    BY <2>4 DEF Min
  <2>6. FirstWeek = Min(InWeek)
    BY <1>2 DEF FirstWeek, InWeek
  <2>7. QED
    BY <2>1, <2>5, <2>6
<1>3. QED
  BY <1>1, <1>2

-----------------------------------------------------------------------------
(* Types.  A reload has one step only, and a run is at a later step only   *)
(* while it runs.                                                          *)

OneStep(x) == /\ x.reload => x.step = 1
              /\ x.state # "running" => x.step = 1

TypeInv == TypeOK /\ \A r \in Runs : OneStep(run[r])

\* The places a run can be at, by what its local variables say.
LEMMA Places ==
    ASSUME TypeInv, NEW r \in Runs
    PROVE  /\ run[r].reload => Plan(r) = <<"movements">> /\ Step(r) = "movements"
           /\ ~run[r].reload => Plan(r) = Order /\ Step(r) = Order[run[r].step]
           /\ run[r].step \in 1..10
           /\ run[r].reload \in BOOLEAN
  BY OrderIs DEF TypeInv, TypeOK, Plan, Step, RunRecord, OneStep

LEMMA TypeInit == Init => TypeInv
<1> SUFFICES ASSUME Init PROVE TypeInv
  OBVIOUS
<1>1. docs \in Seq(Document) /\ Len(docs) <= MaxDocs
  BY RefreshAssumption DEF Init
<1>2. run \in [Runs -> RunRecord]
  BY OrderIs, RefreshAssumption DEF Init, NotStarted, Weeks, RunRecord
<1>3. log \in [Runs -> LogRows]
  BY DEF Init, NoLog, LogRows
<1>4. dim \in [DOMAIN dim -> [brand : Brands, active : BOOLEAN]] /\ DOMAIN dim \subseteq Skus
  BY DEF Init
<1>5. mapping \in [Skus -> Brands] /\ quiet \in [Runs -> BOOLEAN] /\ events \in 0..MaxEvents
  BY RefreshAssumption DEF Init
<1>6. \A r \in Runs : OneStep(run[r])
  BY DEF Init, NotStarted, OneStep
<1>7. QED
  BY <1>1, <1>2, <1>3, <1>4, <1>5, <1>6 DEF TypeInv, TypeOK, Init

\* The rows a procedure inserts are rows of its fact.
LEMMA SalesRowsType ==
    ASSUME TypeInv, NEW W \in SUBSET Weeks
    PROVE  SalesRows(W) \subseteq SalesRow
<1> DEFINE Sums == UNION {[D -> 1..MaxCopies] : D \in SUBSET (1..MaxDocs)}
<1>1. \A k \in Skus : BrandOf(k) \in Brands
  BY RefreshAssumption DEF TypeInv, TypeOK, BrandOf
<1>2. \A w \in Weeks, k \in Skus : Summed(w, k) \in Sums
  <2>1. /\ Valid \subseteq 1..Len(docs) /\ Len(docs) \in Nat /\ Len(docs) <= MaxDocs
        /\ \A d \in 1..Len(docs) : docs[d].copies \in 1..MaxCopies
    BY DocType DEF TypeInv, TypeOK
  <2>2. Valid \subseteq 1..MaxDocs
    BY <2>1, RefreshAssumption
  <2>3. ASSUME NEW w \in Weeks, NEW k \in Skus
        PROVE  Summed(w, k) \in Sums
    <3>1. Sold(w, k) \in SUBSET (1..MaxDocs) /\ Sold(w, k) \subseteq Valid
      BY <2>2 DEF Sold
    <3>2. Summed(w, k) \in [Sold(w, k) -> 1..MaxCopies]
      BY <2>1, <3>1 DEF Summed
    <3>3. QED
      BY <3>1, <3>2
  <2>4. QED
    BY <2>3
<1> HIDE DEF Sums
<1>3. SalesRows(W) \subseteq [week : Weeks, sku : Skus, brand : Brands, lines : Sums]
  BY <1>1, <1>2 DEF SalesRows
<1>4. QED
  BY <1>3 DEF SalesRow, Sums

LEMMA StockRowsType ==
    ASSUME TypeInv, NEW W \in SUBSET Weeks, NEW to
    PROVE  StockRows(W, to) \subseteq StockRow
<1>1. Valid \subseteq 1..Len(docs) /\ Len(docs) \in Nat /\ Len(docs) <= MaxDocs
  BY DocType DEF TypeInv, TypeOK
<1>2. Valid \subseteq 1..MaxDocs
  BY <1>1, RefreshAssumption
<1>3. QED
  BY <1>2 DEF StockRows, StockRow

\* Changing one run and its log rows keeps their types.
LEMMA RunType ==
    ASSUME TypeInv, NEW r \in Runs, NEW x \in RunRecord, OneStep(x),
           run' = [run EXCEPT ![r] = x]
    PROVE  run' \in [Runs -> RunRecord] /\ \A q \in Runs : OneStep(run'[q])
  BY DEF TypeInv, TypeOK

LEMMA LogType ==
    ASSUME NEW l \in LogRows, NEW S, NEW status \in {"RUNNING", "SUCCESS", "FAILED"}
    PROVE  Logged(l, S, status) \in LogRows
  BY DEF LogRows, Logged

LEMMA TypeStep == TypeInv /\ [Next]_vars => TypeInv'
<1> SUFFICES ASSUME TypeInv, [Next]_vars PROVE TypeInv'
  OBVIOUS
<1>1. /\ docs \in Seq(Document) /\ Len(docs) <= MaxDocs /\ Len(docs) \in Nat
      /\ MaxDocs \in Nat /\ LastWeek \in Nat /\ LastWeek >= 1 /\ MaxEvents \in Nat
      /\ run \in [Runs -> RunRecord] /\ log \in [Runs -> LogRows]
      /\ \A r \in Runs : log[r] \in LogRows
      /\ \A r \in Runs : OneStep(run[r])
      /\ \A r \in Runs : Window(r) \subseteq Weeks
  BY RefreshAssumption DEF TypeInv, TypeOK, Window, RunRecord, Weeks
<1>2. UNCHANGED vars => TypeInv'
  BY DEF vars, source, warehouse, facts, TypeInv, TypeOK, Ids
<1>3. ASSUME NEW r \in Runs, NEW x \in RunRecord, OneStep(x),
             run' = [run EXCEPT ![r] = x], log' \in [Runs -> LogRows],
             quiet' \in [Runs -> BOOLEAN], events' \in 0..MaxEvents,
             UNCHANGED <<source, warehouse>>
      PROVE  TypeInv'
  <2>1. run' \in [Runs -> RunRecord] /\ \A q \in Runs : OneStep(run'[q])
    BY <1>3, RunType
  <2>2. QED
    BY <1>3, <2>1 DEF source, warehouse, facts, TypeInv, TypeOK, Ids
<1>4. ASSUME NEW r \in Runs, 
             NEW ph \in {"entering", "first", "second", "logging", "catching", "thrown"}, Goto(r, ph)
      PROVE  run' \in [Runs -> RunRecord] /\ \A q \in Runs : OneStep(run'[q])
  <2> DEFINE x == [run[r] EXCEPT !.phase = ph]
  <2>1. x \in RunRecord /\ x.reload = run[r].reload /\ x.state = run[r].state /\ x.step = run[r].step
    BY <1>1 DEF RunRecord
  <2>2. run' = [run EXCEPT ![r] = x]
    BY <1>4 DEF Goto
  <2>3. QED
    BY <1>1, <2>1, <2>2, RunType DEF OneStep
<1>ends. ASSUME NEW r \in Runs, NEW outcome \in {"done", "failed", "killed"}, End(r, outcome),
              log' \in [Runs -> LogRows], UNCHANGED <<source, warehouse, quiet>>,
              events' \in 0..MaxEvents
       PROVE  TypeInv'
  <2> DEFINE x == [run[r] EXCEPT !.state = outcome, !.step = 1, !.phase = "first", !.mark = 0]
  <2>1. run' = [run EXCEPT ![r] = x]
    BY <1>ends DEF End
  <2>2. x \in RunRecord /\ x.step = 1
    <3>1. run[r] \in RunRecord /\ 0 \in 0..MaxDocs /\ 1 \in 1..Len(Order)
      BY <1>1, OrderIs
    <3>2. QED
      BY <1>ends, <3>1 DEF RunRecord
  <2>3. quiet' \in [Runs -> BOOLEAN]
    BY <1>ends DEF TypeInv, TypeOK
  <2> HIDE DEF x
  <2>4. QED
    BY <1>3, <1>ends, <2>1, <2>2, <2>3 DEF OneStep
<1>5. ASSUME NEW r \in Runs, NEW reload \in BOOLEAN, Start(r, reload)
      PROVE  TypeInv'
  <2> DEFINE x == [run[r] EXCEPT !.state = "running", !.reload = reload,
                       !.phase = IF reload THEN "first" ELSE FirstPhase(Order[1])]
  <2>1. x \in RunRecord /\ x.step = 1
    BY <1>1, <1>5 DEF Start, RunRecord, FirstPhase, OneStep
  <2>2. run' = [run EXCEPT ![r] = x]
    BY <1>5 DEF Start
  <2>3. log' \in [Runs -> LogRows]
    BY <1>1, <1>5, LogType DEF Start
  <2>4. quiet' \in [Runs -> BOOLEAN] /\ events' \in 0..MaxEvents
    BY <1>5 DEF Start, TypeInv, TypeOK
  <2> HIDE DEF x
  <2>5. QED
    BY <1>3, <1>5, <2>1, <2>2, <2>3, <2>4 DEF Start, OneStep
<1>6. ASSUME NEW r \in Runs, MergeSku(r)
      PROVE  TypeInv'
  <2>1. dim' \in [DOMAIN dim' -> [brand : Brands, active : BOOLEAN]] /\ DOMAIN dim' \subseteq Skus
    BY <1>6 DEF MergeSku, TypeInv, TypeOK
  <2>2. QED
    BY <1>4, <1>6, <2>1 DEF MergeSku, source, facts, TypeInv, TypeOK, Ids
<1>7. ASSUME NEW r \in Runs, ComputeWindow(r)
      PROVE  TypeInv'
  <2> DEFINE x == [run[r] EXCEPT !.from = FirstWeek, !.to = today, !.step = @ + 1,
                                  !.phase = "entering"]
  <2>1. ~run[r].reload /\ run[r].state = "running" /\ run[r].step \in 1..9
    <3>1. Step(r) = "window" /\ run[r].state = "running"
      BY <1>7 DEF ComputeWindow, At, Running
    <3>2. ~run[r].reload
      BY <3>1, Places
    <3>3. run[r].step # 10 /\ run[r].step \in 1..10
      BY <3>1, <3>2, OrderIs, Places
    <3>4. QED
      BY <3>1, <3>2, <3>3
  <2>2. x \in RunRecord /\ ~x.reload /\ x.state = "running"
    <3>1. FirstWeek \in Weeks /\ today \in Weeks /\ run[r].step + 1 \in 1..Len(Order)
      BY <1>1, <2>1, FirstWeekSpec, OrderIs DEF TypeInv, TypeOK
    <3>2. QED
      BY <1>1, <2>1, <3>1 DEF RunRecord
  <2>3. run' = [run EXCEPT ![r] = x]
    BY <1>7 DEF ComputeWindow
  <2>4. log' \in [Runs -> LogRows]
    BY <1>1, <1>7 DEF ComputeWindow
  <2>5. quiet' \in [Runs -> BOOLEAN] /\ events' \in 0..MaxEvents
    BY <1>7 DEF ComputeWindow, TypeInv, TypeOK
  <2> HIDE DEF x
  <2>6. QED
    BY <1>3, <1>7, <2>2, <2>3, <2>4, <2>5 DEF ComputeWindow, OneStep
<1>8. ASSUME NEW r \in Runs, DeleteWindow(r)
      PROVE  TypeInv'
  BY <1>4, <1>8 DEF DeleteWindow, source, TypeInv, TypeOK, Ids
<1>9. ASSUME NEW r \in Runs, InsertSales(r)
      PROVE  TypeInv'
  <2>1. sales' \subseteq SalesRow
    BY <1>1, <1>9, SalesRowsType DEF InsertSales, TypeInv, TypeOK
  <2>2. QED
    BY <1>4, <1>9, <2>1 DEF InsertSales, source, TypeInv, TypeOK, Ids
<1>10. ASSUME NEW r \in Runs, InsertStock(r)
      PROVE  TypeInv'
  <2>1. stock' \subseteq StockRow
    BY <1>1, <1>10, StockRowsType DEF InsertStock, TypeInv, TypeOK
  <2>2. QED
    BY <1>4, <1>10, <2>1 DEF InsertStock, source, TypeInv, TypeOK, Ids
<1>11. ASSUME NEW r \in Runs, ReadWatermark(r)
      PROVE  TypeInv'
  <2> DEFINE table == IF Step(r) = "movements" THEN movements ELSE transfers
             x == [run[r] EXCEPT !.phase = "second", !.mark = MaxId(table)]
  <2>1. run' = [run EXCEPT ![r] = x]
    BY <1>11 DEF ReadWatermark, At
  <2>2. table \subseteq 1..Len(docs)
    BY DEF TypeInv, TypeOK, Ids
  <2>3. MaxId(table) \in 0..MaxDocs
    <3>1. MaxId(table) \in 0..Len(docs)
      BY <1>1, <2>2, MaxIdSpec
    <3>2. QED
      BY <1>1, <3>1
  <2> HIDE DEF table
  <2>4. x \in RunRecord /\ OneStep(x)
    BY <1>1, <2>3 DEF RunRecord, OneStep
  <2>5. quiet' \in [Runs -> BOOLEAN] /\ events' \in 0..MaxEvents /\ log' \in [Runs -> LogRows]
    BY <1>1, <1>11 DEF ReadWatermark, TypeInv, TypeOK
  <2> HIDE DEF x
  <2>6. QED
    BY <1>3, <1>11, <2>1, <2>4, <2>5 DEF ReadWatermark
<1>12. ASSUME NEW r \in Runs, DeleteMovements(r)
      PROVE  TypeInv'
  <2> DEFINE x == [run[r] EXCEPT !.phase = "second", !.mark = 0]
  <2>1. run' = [run EXCEPT ![r] = x]
    BY <1>12 DEF DeleteMovements
  <2>2. x \in RunRecord
    <3>1. run[r] \in RunRecord /\ 0 \in 0..MaxDocs
      BY <1>1
    <3>2. QED
      BY <3>1 DEF RunRecord
  <2>3. OneStep(x)
    BY <1>1 DEF RunRecord, OneStep
  <2> HIDE DEF x
  <2>4. run' \in [Runs -> RunRecord]
        /\ \A q \in Runs : OneStep(run'[q])
    BY <2>1, <2>2, <2>3, RunType
  <2>5. QED
    BY <1>12, <2>4 DEF DeleteMovements, source, TypeInv, TypeOK, Ids
<1>13. ASSUME NEW r \in Runs, InsertMovements(r)
      PROVE  TypeInv'
  <2>1. movements' \subseteq Ids
    BY <1>1, <1>13 DEF InsertMovements, Above, Valid, TypeInv, TypeOK
  <2>2. QED
    BY <1>4, <1>13, <2>1 DEF InsertMovements, source, TypeInv, TypeOK, Ids
<1>14. ASSUME NEW r \in Runs, InsertTransfers(r)
      PROVE  TypeInv'
  <2>1. transfers' \subseteq Ids
    BY <1>1, <1>14 DEF InsertTransfers, Above, Transfers, Valid, TypeInv, TypeOK
  <2>2. QED
    BY <1>4, <1>14, <2>1 DEF InsertTransfers, source, TypeInv, TypeOK, Ids
<1>15. ASSUME NEW r \in Runs, Advance(r)
      PROVE  TypeInv'
  <2> DEFINE next == run[r].step + 1
  <2>1. log' \in [Runs -> LogRows]
    BY <1>1, <1>15, LogType DEF Advance
  <2>2. /\ quiet' \in [Runs -> BOOLEAN] /\ events' \in 0..MaxEvents
        /\ UNCHANGED <<source, warehouse, quiet>>
    BY <1>15 DEF Advance, TypeInv, TypeOK
  <2>3. CASE next > Len(Plan(r))
    BY <1>15, <1>ends, <2>1, <2>2, <2>3 DEF Advance
  <2>4. CASE ~(next > Len(Plan(r)))
    <3> DEFINE x == [run[r] EXCEPT !.step = next, !.phase = FirstPhase(Plan(r)[next])]
    <3>1. run' = [run EXCEPT ![r] = x] /\ run[r].state = "running"
      BY <1>15, <2>4 DEF Advance, Running
    <3>2. ~run[r].reload /\ next \in 1..Len(Order)
      <4>1. run[r].step \in Nat /\ next \in Nat /\ next >= 1
        BY Places
      <4>2. ~run[r].reload
        <5>1. SUFFICES ASSUME run[r].reload PROVE FALSE
          BY Places
        <5>2. Len(Plan(r)) = 1 /\ next = 2
          BY <1>1, <5>1, Places DEF OneStep
        <5>3. QED
          BY <2>4, <5>2
      <4>3. Len(Plan(r)) = Len(Order) /\ Len(Order) \in Nat
        BY <4>2, OrderIs, Places
      <4> HIDE DEF next
      <4>4. QED
        BY <2>4, <4>1, <4>2, <4>3
    <3>3. x \in RunRecord /\ ~x.reload /\ x.state = "running"
      BY <1>1, <3>1, <3>2 DEF RunRecord, FirstPhase
    <3> HIDE DEF x
    <3>4. QED
      BY <1>3, <2>1, <2>2, <3>1, <3>3 DEF OneStep
  <2>5. QED
    BY <2>3, <2>4
<1>16. ASSUME NEW r \in Runs, Finish(r)
      PROVE  TypeInv'
  BY <1>1, <1>16, <1>ends, LogType DEF Finish, TypeInv, TypeOK
<1>17. ASSUME NEW r \in Runs, Enter(r) \/ Raise(r)
      PROVE  TypeInv'
  <2>1. \E ph \in {"entering", "first", "second", "logging", "catching", "thrown"} : Goto(r, ph)
    BY <1>17 DEF Enter, Raise, WorkPhase
  <2>2. run' \in [Runs -> RunRecord] /\ \A q \in Runs : OneStep(run'[q])
    BY <1>4, <2>1
  <2>3. log' \in [Runs -> LogRows]
    BY <1>1, <1>17, LogType DEF Enter, Raise
  <2>4. events' \in 0..MaxEvents
    BY <1>1, <1>17 DEF Enter, Raise, Event, TypeInv, TypeOK
  <2>5. UNCHANGED <<source, warehouse, quiet>>
    BY <1>17 DEF Enter, Raise
  <2>6. QED
    BY <2>2, <2>3, <2>4, <2>5 DEF source, warehouse, facts, TypeInv, TypeOK, Ids
<1>catch. ASSUME NEW r \in Runs, CatchStep(r) \/ CatchMaster(r)
      PROVE  TypeInv'
  <2>1. log' \in [Runs -> LogRows]
    BY <1>1, <1>catch, LogType DEF CatchStep, CatchMaster, Failed
  <2>2. events' \in 0..MaxEvents
    BY <1>1, <1>catch DEF CatchStep, CatchMaster, Failed, Event, TypeInv, TypeOK
  <2>3. UNCHANGED <<source, warehouse, quiet>>
    BY <1>catch DEF CatchStep, CatchMaster
  <2>4. CASE End(r, "failed")
    BY <1>ends, <2>1, <2>2, <2>3, <2>4
  <2>5. CASE Goto(r, "thrown")
    <3>1. run' \in [Runs -> RunRecord] /\ \A q \in Runs : OneStep(run'[q])
      BY <1>4, <2>5
    <3>2. QED
      BY <2>1, <2>2, <2>3, <3>1 DEF source, warehouse, facts, TypeInv, TypeOK, Ids
  <2>6. QED
    BY <1>catch, <2>4, <2>5 DEF CatchStep, CatchMaster
<1>18. ASSUME NEW r \in Runs, Kill(r)
      PROVE  TypeInv'
  <2>1. events' \in 0..MaxEvents
    BY <1>1, <1>18 DEF Kill, Event, TypeInv, TypeOK
  <2>2. QED
    BY <1>1, <1>18, <1>ends, <2>1 DEF Kill
<1>19. ASSUME Source
      PROVE  TypeInv'
  <2> USE <1>19 DEF Source, Issue, Void, Repeat, DeleteProduct, MapBrand, NextWeek
  <2>edit. Edit
    OBVIOUS
  <2>1. /\ quiet' \in [Runs -> BOOLEAN] /\ events' \in 0..MaxEvents
        /\ UNCHANGED <<warehouse, run, log>>
    BY <1>1, <2>edit DEF Edit, Event, TypeInv, TypeOK
  <2> DEFINE Grows == /\ docs' \in Seq(Document) /\ Len(docs') \in Nat
                      /\ Len(docs') <= MaxDocs /\ Len(docs') >= Len(docs)
  <2>2. Grows
    <3>1. ASSUME NEW doc \in Issuable, Issue(doc)
          PROVE  Grows
      BY <1>1, <3>1, RefreshAssumption DEF Issue
    <3>2. ASSUME NEW d \in Ids, Void(d)
          PROVE  Grows
      <4> DEFINE x == [docs[d] EXCEPT !.valid = FALSE]
      <4>1. x \in Document
        BY <1>1, DocType DEF Ids, Document
      <4>2. docs' = [docs EXCEPT ![d] = x]
        BY <3>2 DEF Void
      <4> HIDE DEF x
      <4>3. QED
        BY <1>1, <4>1, <4>2 DEF Ids
    <3>3. ASSUME NEW d \in Ids, Repeat(d)
          PROVE  Grows
      <4> DEFINE x == [docs[d] EXCEPT !.copies = @ + 1]
      <4>1. x \in Document
        <5>1. docs[d] \in Document /\ docs[d].copies \in 1..MaxCopies /\ MaxCopies \in Nat
          BY <1>1, DocType, RefreshAssumption DEF Ids
        <5>2. docs[d].copies + 1 \in 1..MaxCopies
          BY <3>3, <5>1 DEF Repeat
        <5>3. QED
          BY <5>1, <5>2 DEF Document
      <4>2. docs' = [docs EXCEPT ![d] = x]
        BY <3>3 DEF Repeat
      <4> HIDE DEF x
      <4>3. QED
        BY <1>1, <4>1, <4>2 DEF Ids
    <3>4. QED
      BY <1>1, <3>1, <3>2, <3>3
  <2>3. products' \subseteq Skus /\ mapping' \in [Skus -> Brands] /\ today' \in Weeks
    BY <1>1, <1>19 DEF TypeInv, TypeOK, Weeks
  <2>4. Ids \subseteq Ids'
    BY <1>1, <2>2 DEF Ids
  <2>5. QED
    BY <1>1, <2>1, <2>2, <2>3, <2>4 DEF warehouse, facts, TypeInv, TypeOK
<1>20. QED
  BY <1>2, <1>5, <1>6, <1>7, <1>8, <1>9, <1>10, <1>11, <1>12, <1>13, <1>14, <1>15,
     <1>16, <1>17, <1>18, <1>19, <1>catch DEF Next, Refresh

\* Every variable keeps its type: in particular the incremental facts hold ids of
\* documents, and each run is at a statement of its procedure.
THEOREM TypeCorrect == Spec => []TypeOK
<1>1. TypeInv => TypeOK
  BY DEF TypeInv
<1>2. QED
  BY <1>1, TypeInit, TypeStep, PTL DEF Spec

-----------------------------------------------------------------------------
(* The incremental facts.  OneRowPerMovement speaks of what is loaded; what  *)
(* makes it inductive is what the runs in between SELECT and INSERT hold: a  *)
(* watermark below which everything is loaded, which stays true because      *)
(* nothing but a reload takes a row out, and a reload runs alone.            *)

MarksKept ==
    \A r \in Runs :
      /\ run[r].mark <= Len(docs)
      /\ At(r, "movements", "second") => \A d \in Valid : d <= run[r].mark => d \in movements
      /\ At(r, "transfers", "second") => \A d \in Transfers : d <= run[r].mark => d \in transfers

ReloadsAlone ==
    \A q, r \in Runs : q # r /\ Running(q) /\ Running(r) => ~run[q].reload

LoadInv == TypeInv /\ OneRowPerMovement /\ MarksKept /\ ReloadsAlone

LEMMA LoadInit == Init => LoadInv
<1> SUFFICES ASSUME Init PROVE LoadInv
  OBVIOUS
<1>1. Valid = {} /\ Transfers = {}
  BY DEF Init, Valid, Transfers, Ids
<1>2. \A r \in Runs : run[r].state = "idle" /\ run[r].mark = 0
  BY DEF Init, NotStarted
<1>3. Len(docs) = 0
  BY DEF Init
<1>4. QED
  BY <1>1, <1>2, <1>3, TypeInit DEF LoadInv, OneRowPerMovement, MarksKept, ReloadsAlone, At, Running

\* A step of a run that neither loads a fact nor takes a watermark.
LEMMA RunStep ==
    ASSUME LoadInv, TypeInv', NEW r \in Runs,
           \A q \in Runs : q # r => run'[q] = run[q],
           run'[r].state = "running" => run[r].state = "running" /\ run'[r].reload = run[r].reload,
           run'[r].mark \in {0, run[r].mark},
           run'[r].state = "running" => run'[r].phase # "second" \/ Step(r)' \in {"sales", "stock"},
           UNCHANGED <<docs, movements, transfers>>
    PROVE  LoadInv'
<1>1. Valid' = Valid /\ Transfers' = Transfers
  BY DEF Valid, Transfers, Ids
<1>2. OneRowPerMovement'
  BY <1>1 DEF LoadInv, OneRowPerMovement
<1>3. \A q \in Runs : q # r => \A s, ph : At(q, s, ph)' = At(q, s, ph)
  BY DEF At, Running, Step, Plan
<1>4. \A s \in {"movements", "transfers"} : ~At(r, s, "second")'
  BY DEF At, Running
<1>5. \A q \in Runs : run'[q].mark <= Len(docs')
  BY DocType DEF LoadInv, MarksKept, TypeInv, TypeOK
<1>6. MarksKept'
  BY <1>1, <1>3, <1>4, <1>5 DEF LoadInv, MarksKept
<1>7. ReloadsAlone'
  BY DEF LoadInv, ReloadsAlone, Running
<1>8. QED
  BY <1>2, <1>6, <1>7 DEF LoadInv

\* The ERP issues a document with a new id, or voids one.
LEMMA SourceStep == LoadInv /\ TypeInv' /\ Source => LoadInv'
<1> SUFFICES ASSUME LoadInv, TypeInv', Source PROVE LoadInv'
  OBVIOUS
<1>1. UNCHANGED <<run, movements, transfers>>
  BY DEF Source, Issue, Void, Repeat, DeleteProduct, MapBrand, NextWeek, Edit, warehouse, facts
<1> DEFINE Grows == /\ Len(docs') >= Len(docs) /\ Len(docs) \in Nat /\ Len(docs') \in Nat
                    /\ \A d \in Valid' : d <= Len(docs) => d \in Valid
                    /\ \A d \in Transfers' : d <= Len(docs) => d \in Transfers
                    /\ Valid' \subseteq Nat /\ Transfers' \subseteq Nat
<1>2. Grows
  <2>1. docs \in Seq(Document) /\ Len(docs) \in Nat
    BY DocType DEF LoadInv, TypeInv, TypeOK
  <2>2. ASSUME NEW doc \in Issuable, Issue(doc)
        PROVE  Grows
    <3>1. docs' = Append(docs, doc) /\ doc \in Document
      BY <2>2, RefreshAssumption DEF Issue
    <3>2. /\ Len(docs') = Len(docs) + 1
          /\ \A d \in 1..Len(docs) : docs'[d] = docs[d]
      BY <2>1, <3>1
    <3>3. QED
      BY <2>1, <3>2 DEF Valid, Transfers, Ids
  <2>3. ASSUME NEW d \in Ids, Void(d)
        PROVE  Grows
    <3>1. /\ Len(docs') = Len(docs)
          /\ \A e \in 1..Len(docs) : e # d => docs'[e] = docs[e]
          /\ docs'[d].kind = docs[d].kind /\ ~docs'[d].valid
      <4>1. docs[d] \in Document
        BY <2>1 DEF Ids
      <4>2. docs' = [docs EXCEPT ![d].valid = FALSE]
        BY <2>3 DEF Void
      <4>3. QED
        BY <2>1, <4>1, <4>2 DEF Ids, Document
    <3>2. QED
      BY <2>1, <3>1 DEF Valid, Transfers, Ids
  <2>7. ASSUME NEW d \in Ids, Repeat(d)
        PROVE  Grows
    <3>1. /\ Len(docs') = Len(docs)
          /\ \A e \in 1..Len(docs) : docs'[e].kind = docs[e].kind /\ docs'[e].valid = docs[e].valid
      <4>1. docs[d] \in Document
        BY <2>1 DEF Ids
      <4>2. docs' = [docs EXCEPT ![d].copies = @ + 1]
        BY <2>7 DEF Repeat
      <4>3. QED
        BY <2>1, <4>1, <4>2 DEF Ids, Document
    <3>2. QED
      BY <2>1, <3>1 DEF Valid, Transfers, Ids
  <2>4. ASSUME UNCHANGED docs
        PROVE  Grows
    BY <2>1, <2>4 DEF Valid, Transfers, Ids
  <2>5. \/ \E doc \in Issuable : Issue(doc)
        \/ \E d \in Ids : Void(d) \/ Repeat(d)
        \/ UNCHANGED docs
    BY DEF Source, DeleteProduct, MapBrand, NextWeek
  <2>6. QED
    BY <2>2, <2>3, <2>4, <2>5, <2>7
<1>3. /\ movements \subseteq 1..Len(docs) /\ transfers \subseteq 1..Len(docs)
      /\ MaxId(movements) \in 0..Len(docs) /\ MaxId(transfers) \in 0..Len(docs)
  BY <1>2, MaxIdSpec DEF LoadInv, TypeInv, TypeOK, Ids
<1>4. OneRowPerMovement'
  BY <1>1, <1>2, <1>3 DEF LoadInv, OneRowPerMovement
<1>5. \A r \in Runs : run[r].mark <= Len(docs) /\ run[r].mark \in Nat
  BY RefreshAssumption DEF LoadInv, MarksKept, TypeInv, TypeOK, RunRecord
<1>6. MarksKept'
  <2>1. \A r \in Runs : \A s, ph : At(r, s, ph)' <=> At(r, s, ph)
    BY <1>1 DEF At, Running, Step, Plan
  <2>2. \A r \in Runs : run'[r].mark <= Len(docs')
    BY <1>1, <1>2, <1>5
  <2>3. ASSUME NEW r \in Runs, At(r, "movements", "second"),
               NEW d \in Valid', d <= run[r].mark
        PROVE  d \in movements
    BY <1>2, <1>5, <2>3 DEF LoadInv, MarksKept
  <2>4. ASSUME NEW r \in Runs, At(r, "transfers", "second"),
               NEW d \in Transfers', d <= run[r].mark
        PROVE  d \in transfers
    BY <1>2, <1>5, <2>4 DEF LoadInv, MarksKept
  <2>5. QED
    BY <1>1, <2>1, <2>2, <2>3, <2>4 DEF MarksKept
<1>7. ReloadsAlone'
  BY <1>1 DEF LoadInv, ReloadsAlone, Running
<1>8. QED
  BY <1>4, <1>6, <1>7 DEF LoadInv

\* The end of a run, whatever its outcome.
LEMMA EndSpec ==
    ASSUME run \in [Runs -> RunRecord], NEW r \in Runs, NEW outcome, End(r, outcome)
    PROVE  /\ run'[r].state = outcome /\ run'[r].mark = 0
           /\ run'[r].reload = run[r].reload
           /\ \A q \in Runs : q # r => run'[q] = run[q]
  BY DEF End, RunRecord

LEMMA LoadStep ==
    ASSUME ReloadsOverlap = FALSE, LoadInv, [Next]_vars
    PROVE  LoadInv'
<1>1. TypeInv'
  BY TypeStep DEF LoadInv
<1>2. Len(docs) \in Nat /\ MaxDocs \in Nat /\ run \in [Runs -> RunRecord]
  BY RefreshAssumption, DocType DEF LoadInv, TypeInv, TypeOK
<1>3. UNCHANGED vars => LoadInv'
  <2>1. SUFFICES ASSUME UNCHANGED vars PROVE LoadInv'
    OBVIOUS
  <2>2. UNCHANGED <<docs, movements, transfers, run>>
    BY <2>1 DEF vars, source, warehouse, facts
  <2>3. Valid' = Valid /\ Transfers' = Transfers
    BY <2>2 DEF Valid, Transfers, Ids
  <2>4. \A r \in Runs : \A s, ph : At(r, s, ph)' <=> At(r, s, ph)
    BY <2>2 DEF At, Running, Step, Plan
  <2>5. OneRowPerMovement' /\ MarksKept' /\ ReloadsAlone'
    BY <2>2, <2>3, <2>4 DEF LoadInv, OneRowPerMovement, MarksKept, ReloadsAlone, Running
  <2>6. QED
    BY <1>1, <2>5 DEF LoadInv
<1> DEFINE Frame(r) == /\ \A q \in Runs : q # r => run'[q] = run[q]
                       /\ UNCHANGED <<docs, movements, transfers>>
<1>ids. /\ movements \subseteq 1..Len(docs) /\ transfers \subseteq 1..Len(docs)
       /\ Valid \subseteq 1..Len(docs) /\ Transfers \subseteq 1..Len(docs)
  BY DocType DEF LoadInv, TypeInv, TypeOK, Ids, Transfers
<1>4. ASSUME NEW r \in Runs, NEW reload \in BOOLEAN, Start(r, reload)
      PROVE  LoadInv'
  <2>1. /\ Frame(r) /\ run[r].state = "idle"
        /\ \A q \in Runs : Running(q) => ~reload /\ ~run[q].reload
        /\ run'[r].reload = reload /\ run'[r].mark = run[r].mark
        /\ run'[r].phase # "second"
    BY <1>2, <1>4 DEF Start, source, warehouse, facts, FirstPhase, RunRecord
  <2>2. Valid' = Valid /\ Transfers' = Transfers
    BY <2>1 DEF Valid, Transfers, Ids
  <2>3. OneRowPerMovement'
    BY <2>1, <2>2 DEF LoadInv, OneRowPerMovement
  <2>4. \A q \in Runs : q # r => \A s, ph : At(q, s, ph)' = At(q, s, ph)
    BY <2>1 DEF At, Running, Step, Plan
  <2>5. \A s : ~At(r, s, "second")'
    BY <2>1 DEF At
  <2>6. MarksKept'
    BY <2>1, <2>2, <2>4, <2>5 DEF LoadInv, MarksKept
  <2>7. ReloadsAlone'
    BY <2>1 DEF LoadInv, ReloadsAlone, Running
  <2>8. QED
    BY <1>1, <2>3, <2>6, <2>7 DEF LoadInv
<1>5. ASSUME NEW r \in Runs, MergeSku(r) \/ InsertSales(r) \/ InsertStock(r)
      PROVE  LoadInv'
  <2>1. /\ Frame(r) /\ run[r].state = "running" /\ run'[r].reload = run[r].reload
        /\ run'[r].mark = run[r].mark /\ run'[r].phase = "logging"
    BY <1>2, <1>5 DEF MergeSku, InsertSales, InsertStock, Goto, At, Running, source, facts, RunRecord
  <2>2. QED
    BY <1>1, <2>1, RunStep
<1>6. ASSUME NEW r \in Runs, ComputeWindow(r)
      PROVE  LoadInv'
  <2>1. /\ Frame(r) /\ run[r].state = "running" /\ run'[r].reload = run[r].reload
        /\ run'[r].mark = run[r].mark /\ run'[r].phase = "entering"
    BY <1>2, <1>6 DEF ComputeWindow, At, Running, source, warehouse, facts, RunRecord
  <2>2. QED
    BY <1>1, <2>1, RunStep
<1>7. ASSUME NEW r \in Runs, DeleteWindow(r)
      PROVE  LoadInv'
  <2>1. /\ Frame(r) /\ run[r].state = "running" /\ run'[r].reload = run[r].reload
        /\ run'[r].mark = run[r].mark /\ run'[r].step = run[r].step
    BY <1>2, <1>7 DEF DeleteWindow, Goto, At, Running, source, RunRecord
  <2>2. Step(r) \in {"sales", "stock"}
    BY <1>7 DEF DeleteWindow, At
  <2>3. Step(r)' = Step(r)
    BY <2>1 DEF Step, Plan
  <2>4. QED
    BY <1>1, <2>1, <2>2, <2>3, RunStep
<1>8. ASSUME NEW r \in Runs, ReadWatermark(r)
      PROVE  LoadInv'
  <2> DEFINE table == IF Step(r) = "movements" THEN movements ELSE transfers
  <2>1. /\ Frame(r) /\ run'[r].state = run[r].state /\ run'[r].reload = run[r].reload
        /\ run'[r].step = run[r].step /\ run'[r].mark = MaxId(table)
        /\ Step(r) \in {"movements", "transfers"}
    BY <1>2, <1>8 DEF ReadWatermark, At, source, warehouse, facts, RunRecord
  <2>2. Valid' = Valid /\ Transfers' = Transfers /\ Step(r)' = Step(r)
    BY <2>1 DEF Valid, Transfers, Ids, Step, Plan
  <2>3. OneRowPerMovement'
    BY <2>1, <2>2 DEF LoadInv, OneRowPerMovement
  <2>4. \A q \in Runs : q # r => \A s, ph : At(q, s, ph)' = At(q, s, ph)
    BY <2>1 DEF At, Running, Step, Plan
  <2>5. MaxId(table) <= Len(docs)
    <3>1. table \in SUBSET (1..Len(docs))
      BY <1>ids
    <3>2. MaxId(table) \in 0..Len(docs)
      BY <1>2, <3>1, MaxIdSpec
    <3>3. QED
      BY <1>2, <3>2
  <2>6. At(r, "movements", "second")' => \A d \in Valid : d <= MaxId(table) => d \in movements
    BY <2>2 DEF At, LoadInv, OneRowPerMovement
  <2>7. At(r, "transfers", "second")' => \A d \in Transfers : d <= MaxId(table) => d \in transfers
    BY <2>2 DEF At, LoadInv, OneRowPerMovement
  <2> HIDE DEF table
  <2>8. MarksKept'
    BY <2>1, <2>2, <2>4, <2>5, <2>6, <2>7 DEF LoadInv, MarksKept
  <2>9. ReloadsAlone'
    BY <2>1 DEF LoadInv, ReloadsAlone, Running
  <2>10. QED
    BY <1>1, <2>3, <2>8, <2>9 DEF LoadInv
<1>9. ASSUME NEW r \in Runs, DeleteMovements(r)
      PROVE  LoadInv'
  <2>1. /\ \A q \in Runs : q # r => run'[q] = run[q]
        /\ run'[r].state = run[r].state /\ run'[r].reload = run[r].reload /\ run'[r].mark = 0
        /\ run[r].reload /\ run[r].state = "running"
        /\ movements' = {} /\ UNCHANGED <<docs, transfers>>
    BY <1>2, <1>9 DEF DeleteMovements, At, Running, source, RunRecord
  <2>2. Valid' = Valid /\ Transfers' = Transfers
    BY <2>1 DEF Valid, Transfers, Ids
  <2>3. \A d \in Valid : ~(d <= 0)
    BY <1>2, <1>ids
  <2>4. \A d \in Transfers : ~(d <= 0)
    BY <1>2, <1>ids
  <2>5. OneRowPerMovement'
    <3>1. MaxId(movements') = 0
      BY <2>1 DEF MaxId
    <3>2. QED
      BY <2>1, <2>2, <2>3, <3>1 DEF LoadInv, OneRowPerMovement
  <2>6. \A q \in Runs : q # r => ~Running(q)'
    BY <2>1 DEF LoadInv, ReloadsAlone, Running
  <2>7. MarksKept'
    BY <1>2, <2>1, <2>2, <2>3, <2>4, <2>6 DEF LoadInv, MarksKept, At
  <2>8. ReloadsAlone'
    BY <2>1 DEF LoadInv, ReloadsAlone, Running
  <2>9. QED
    BY <1>1, <2>5, <2>7, <2>8 DEF LoadInv
<1>10. ASSUME NEW r \in Runs, InsertMovements(r)
      PROVE  LoadInv'
  <2>1. /\ \A q \in Runs : q # r => run'[q] = run[q]
        /\ run'[r].state = run[r].state /\ run'[r].reload = run[r].reload
        /\ run'[r].mark = run[r].mark /\ run'[r].phase = "logging"
        /\ At(r, "movements", "second")
        /\ movements' = movements \cup Above(r, Valid) /\ UNCHANGED <<docs, transfers>>
    BY <1>2, <1>10 DEF InsertMovements, Goto, source, RunRecord
  <2>2. Valid' = Valid /\ Transfers' = Transfers
    BY <2>1 DEF Valid, Transfers, Ids
  <2>3. Valid \subseteq movements'
    <3>1. \A d \in Valid : d <= run[r].mark => d \in movements
      BY <2>1 DEF LoadInv, MarksKept
    <3>2. run[r].mark \in Nat /\ \A d \in Valid : d \in Nat
      BY <1>2, <1>ids DEF RunRecord
    <3>3. QED
      BY <2>1, <3>1, <3>2 DEF Above
  <2>4. OneRowPerMovement'
    BY <2>1, <2>2, <2>3 DEF LoadInv, OneRowPerMovement
  <2>5. \A q \in Runs : q # r => \A s, ph : At(q, s, ph)' = At(q, s, ph)
    BY <2>1 DEF At, Running, Step, Plan
  <2>6. \A s : ~At(r, s, "second")'
    BY <2>1 DEF At
  <2>7. MarksKept'
    BY <2>1, <2>2, <2>3, <2>5, <2>6 DEF LoadInv, MarksKept
  <2>8. ReloadsAlone'
    BY <2>1 DEF LoadInv, ReloadsAlone, Running
  <2>9. QED
    BY <1>1, <2>4, <2>7, <2>8 DEF LoadInv
<1>11. ASSUME NEW r \in Runs, InsertTransfers(r)
      PROVE  LoadInv'
  <2>1. /\ \A q \in Runs : q # r => run'[q] = run[q]
        /\ run'[r].state = run[r].state /\ run'[r].reload = run[r].reload
        /\ run'[r].mark = run[r].mark /\ run'[r].phase = "logging"
        /\ At(r, "transfers", "second")
        /\ transfers' = transfers \cup Above(r, Transfers) /\ UNCHANGED <<docs, movements>>
    BY <1>2, <1>11 DEF InsertTransfers, Goto, source, RunRecord
  <2>2. Valid' = Valid /\ Transfers' = Transfers
    BY <2>1 DEF Valid, Transfers, Ids
  <2>3. Transfers \subseteq transfers'
    <3>1. \A d \in Transfers : d <= run[r].mark => d \in transfers
      BY <2>1 DEF LoadInv, MarksKept
    <3>2. run[r].mark \in Nat /\ \A d \in Transfers : d \in Nat
      BY <1>2, <1>ids DEF RunRecord
    <3>3. QED
      BY <2>1, <3>1, <3>2 DEF Above
  <2>4. OneRowPerMovement'
    BY <2>1, <2>2, <2>3 DEF LoadInv, OneRowPerMovement
  <2>5. \A q \in Runs : q # r => \A s, ph : At(q, s, ph)' = At(q, s, ph)
    BY <2>1 DEF At, Running, Step, Plan
  <2>6. \A s : ~At(r, s, "second")'
    BY <2>1 DEF At
  <2>7. MarksKept'
    BY <2>1, <2>2, <2>3, <2>5, <2>6 DEF LoadInv, MarksKept
  <2>8. ReloadsAlone'
    BY <2>1 DEF LoadInv, ReloadsAlone, Running
  <2>9. QED
    BY <1>1, <2>4, <2>7, <2>8 DEF LoadInv
<1>12. ASSUME NEW r \in Runs, Advance(r)
      PROVE  LoadInv'
  <2>1. run[r].state = "running" /\ UNCHANGED <<docs, movements, transfers>>
    BY <1>12 DEF Advance, Running, source, warehouse, facts
  <2>2. CASE End(r, "done")
    <3>1. Frame(r) /\ run'[r].state = "done" /\ run'[r].mark = 0
      BY <1>2, <2>1, <2>2, EndSpec
    <3>2. QED
      BY <1>1, <3>1, RunStep
  <2>3. CASE ~End(r, "done")
    <3> DEFINE next == run[r].step + 1
               ph   == FirstPhase(Plan(r)[next])
    <3>1. run' = [run EXCEPT ![r].step = next, ![r].phase = ph] /\ ph \in {"entering", "first", "logging"}
      BY <1>12, <2>3 DEF Advance, FirstPhase
    <3> HIDE DEF next, ph
    <3>2. /\ Frame(r) /\ run'[r].phase # "second" /\ run'[r].mark = run[r].mark
          /\ run'[r].reload = run[r].reload
      BY <1>2, <2>1, <3>1 DEF RunRecord
    <3>3. QED
      BY <1>1, <2>1, <3>2, RunStep
  <2>4. QED
    BY <2>2, <2>3
<1>13. ASSUME NEW r \in Runs, UNCHANGED <<source, warehouse>>,
              Running(r), \/ \E outcome \in {"done", "failed", "killed"} : End(r, outcome)
                          \/ \E ph \in {"entering", "first", "logging", "catching", "thrown"} : Goto(r, ph)
      PROVE  LoadInv'
  <2>1. UNCHANGED <<docs, movements, transfers>>
    BY <1>13 DEF source, warehouse, facts
  <2>2. CASE \E outcome \in {"done", "failed", "killed"} : End(r, outcome)
    <3>1. Frame(r) /\ run'[r].state # "running" /\ run'[r].mark = 0
      BY <1>2, <2>1, <2>2, EndSpec
    <3>2. QED
      BY <1>1, <3>1, RunStep
  <2>3. CASE \E ph \in {"entering", "first", "logging", "catching", "thrown"} : Goto(r, ph)
    <3>1. PICK ph \in {"entering", "first", "logging", "catching", "thrown"} :
             run' = [run EXCEPT ![r].phase = ph]
      BY <2>3 DEF Goto
    <3>2. /\ Frame(r) /\ run[r].state = "running" /\ run'[r].reload = run[r].reload
          /\ run'[r].mark = run[r].mark /\ run'[r].phase # "second"
      BY <1>2, <1>13, <2>1, <3>1 DEF Running, RunRecord
    <3>3. QED
      BY <1>1, <3>2, RunStep
  <2>4. QED
    BY <1>13, <2>2, <2>3
<1>15. ASSUME NEW r \in Runs, \/ Finish(r) \/ Kill(r) \/ Enter(r)
                              \/ Raise(r) \/ CatchStep(r) \/ CatchMaster(r)
      PROVE  LoadInv'
  BY <1>13, <1>15 DEF Finish, Kill, Enter, Raise, CatchStep, CatchMaster, WorkPhase, At
<1>14. QED
  BY <1>1, <1>3, <1>4, <1>5, <1>6, <1>7, <1>8, <1>9, <1>10, <1>11, <1>12, <1>15, SourceStep
     DEF Next, Refresh

\* The incremental loads skip no movement and no transfer, however many refreshes
\* overlap, fail and die between SELECT and INSERT and whatever the ERP issues and
\* voids meanwhile, as long as full reloads run alone.
THEOREM NoMovementIsSkipped ==
    ASSUME ReloadsOverlap = FALSE
    PROVE  Spec => []OneRowPerMovement
<1>1. LoadInv /\ [Next]_vars => LoadInv'
  BY LoadStep
<1>2. LoadInv => OneRowPerMovement
  BY DEF LoadInv
<1>3. QED
  BY <1>1, <1>2, LoadInit, PTL DEF Spec

-----------------------------------------------------------------------------
(* The batch log.  LogTellsOutcome compares the rows of a run; what makes it *)
(* inductive is how far the run is: the procedures before its step have      *)
(* succeeded, the one it is in has the row its phase allows, the others have *)
(* none.  When the run ends its step is forgotten and a witness stands for   *)
(* it.                                                                       *)

\* The steps of Order that have a row.
WithRow == {2, 3, 4, 6, 7, 8, 9}

Progress(l, n, now) ==
    \A i \in WithRow : l[Order[i]] = IF i < n THEN "SUCCESS" ELSE IF i = n THEN now ELSE "none"

\* The row of the procedure a run is in.
RowAt(ph) == IF ph = "entering" THEN {"none"}
             ELSE IF ph = "thrown" THEN {"none", "RUNNING", "FAILED"} ELSE {"RUNNING"}

Stopped(l, master) ==
    /\ l["sp_refresh_all"] \in master
    /\ \E n \in 1..10, now \in {"none", "RUNNING", "FAILED"} : Progress(l, n, now)

LogFits(x, l) ==
    /\ x.state = "idle" => l = NoLog
    /\ ~x.reload /\ x.state = "running" =>
          /\ l["sp_refresh_all"] = "RUNNING" /\ \E now \in RowAt(x.phase) : Progress(l, x.step, now)
          /\ x.step = 10 => x.phase \in {"first", "thrown"}
    /\ ~x.reload /\ x.state = "done" =>
          l["sp_refresh_all"] = "SUCCESS" /\ Progress(l, 10, "RUNNING")
    /\ ~x.reload /\ x.state = "failed" => Stopped(l, {"FAILED", "RUNNING"})
    /\ ~x.reload /\ x.state = "killed" => Stopped(l, {"RUNNING"})

LogInv == TypeInv /\ \A r \in Runs : LogFits(run[r], log[r])

\* The names of the rows.
LEMMA RowsAre ==
    /\ Procedures = {Order[i] : i \in WithRow}
    /\ \A i \in WithRow : Order[i] # "sp_refresh_all"
    /\ \A i \in WithRow, n \in 1..10 : Order[i] = Order[n] => i = n
    /\ Len(Called) = 7
    /\ Called[1] = Order[2] /\ Called[2] = Order[3] /\ Called[3] = Order[4]
    /\ Called[4] = Order[6] /\ Called[5] = Order[7] /\ Called[6] = Order[8]
    /\ Called[7] = Order[9]
<1>1. Procedures = {Order[i] : i \in WithRow}
  BY OrderIs DEF Procedures, WithRow
<1>2. \A i \in WithRow : Order[i] # "sp_refresh_all"
  BY OrderIs DEF WithRow
<1>3. \A i \in WithRow, n \in 1..10 : Order[i] = Order[n] => i = n
  BY OrderIs DEF WithRow
<1>4. /\ Len(Called) = 7
      /\ Called[1] = "dim_category" /\ Called[2] = "dim_store" /\ Called[3] = "dim_sku"
      /\ Called[4] = "sales" /\ Called[5] = "movements" /\ Called[6] = "stock"
      /\ Called[7] = "transfers"
  BY DEF Called, Dimensions, Facts
<1>5. QED
  BY <1>1, <1>2, <1>3, <1>4, OrderIs

LEMMA LoggedSpec ==
    ASSUME NEW l \in LogRows, NEW S, NEW status
    PROVE  \A s \in Procedures \cup {"sp_refresh_all"} :
              Logged(l, S, status)[s] = IF s \in S THEN status ELSE l[s]
  BY DEF LogRows, Logged

\* What the invariant says of a run is what the property asks of it.
LEMMA LogFitsSuffices ==
    ASSUME LogInv
    PROVE  LogTellsOutcome
<1> SUFFICES ASSUME NEW r \in Runs, ~run[r].reload
             PROVE  LET master == log[r]["sp_refresh_all"]
                        status(s) == log[r][s]
                    IN  /\ master = "SUCCESS" <=> run[r].state = "done"
                        /\ master = "SUCCESS" => \A s \in Procedures : status(s) = "SUCCESS"
                        /\ master = "FAILED" => run[r].state = "failed"
                        /\ (\E s \in Procedures : status(s) = "FAILED") =>
                             \/ run[r].state \in {"failed", "killed"}
                             \/ Running(r) /\ run[r].phase = "thrown"
                        /\ \A i \in 2..Len(Called) :
                             status(Called[i]) # "none" => status(Called[i - 1]) = "SUCCESS"
  BY DEF LogTellsOutcome
<1> DEFINE master == log[r]["sp_refresh_all"]
           l == log[r]
           Catching == \/ run[r].state \in {"failed", "killed"}
                       \/ Running(r) /\ run[r].phase = "thrown"
<1>1. run[r] \in RunRecord /\ LogFits(run[r], l)
  BY DEF LogInv, TypeInv, TypeOK
<1>2. \E n \in 1..10, now \in {"RUNNING", "FAILED", "none"} :
         /\ Progress(l, n, now)
         /\ now = "FAILED" => Catching
         /\ master = "SUCCESS" => n = 10
  <2>1. CASE run[r].state = "idle"
    <3>1. Progress(l, 1, "none") /\ master = "none"
      BY <1>1, <2>1, RowsAre DEF LogFits, NoLog, Progress, WithRow
    <3>2. QED
      BY <3>1
  <2>2. CASE run[r].state = "running"
    <3>1. PICK now \in RowAt(run[r].phase) : Progress(l, run[r].step, now)
      BY <1>1, <2>2 DEF LogFits
    <3>2. master = "RUNNING" /\ run[r].step \in 1..10
      BY <1>1, <2>2, OrderIs DEF LogFits, RunRecord
    <3>3. now \in {"RUNNING", "FAILED", "none"} /\ (now = "FAILED" => Catching)
      BY <2>2 DEF RowAt, Running
    <3>4. QED
      BY <3>1, <3>2, <3>3
  <2>3. CASE run[r].state = "done"
    <3>1. Progress(l, 10, "RUNNING")
      BY <1>1, <2>3 DEF LogFits
    <3>2. QED
      BY <3>1
  <2>4. CASE run[r].state \in {"failed", "killed"}
    <3>1. master \in {"FAILED", "RUNNING"}
          /\ \E n \in 1..10, now \in {"none", "RUNNING", "FAILED"} : Progress(l, n, now)
      BY <1>1, <2>4 DEF LogFits, Stopped
    <3>2. QED
      BY <2>4, <3>1
  <2>5. QED
    BY <1>1, <2>1, <2>2, <2>3, <2>4 DEF RunRecord
<1>3. /\ master = "SUCCESS" <=> run[r].state = "done"
      /\ master = "FAILED" => run[r].state = "failed"
  BY <1>1 DEF LogFits, NoLog, RunRecord, Stopped
<1>4. PICK n \in 1..10, now \in {"RUNNING", "FAILED", "none"} :
         /\ Progress(l, n, now)
         /\ now = "FAILED" => Catching
         /\ master = "SUCCESS" => n = 10
  BY <1>2
<1>5. master = "SUCCESS" => \A i \in WithRow : l[Order[i]] = "SUCCESS"
  BY <1>4 DEF Progress, WithRow
<1>6. (\E i \in WithRow : l[Order[i]] = "FAILED") => Catching
  BY <1>4 DEF Progress, WithRow
<1>7. \A i \in 2..7 : l[Called[i]] # "none" => l[Called[i - 1]] = "SUCCESS"
  BY <1>4, RowsAre DEF Progress, WithRow
<1>8. QED
  BY <1>3, <1>5, <1>6, <1>7, RowsAre

LEMMA LogInit == Init => LogInv
<1> SUFFICES ASSUME Init PROVE LogInv
  OBVIOUS
<1>1. \A r \in Runs : run[r].state = "idle" /\ log[r] = NoLog
  BY DEF Init, NotStarted
<1>2. \A r \in Runs : LogFits(run[r], log[r])
  BY <1>1 DEF LogFits
<1>3. QED
  BY <1>2, TypeInit DEF LogInv

\* The row of step n gets another status.
LEMMA ProgressSet ==
    ASSUME NEW l \in LogRows, NEW n \in 1..10, NEW now, NEW status, Progress(l, n, now)
    PROVE  Progress(Logged(l, {Order[n]}, status), n, status)
<1>1. \A i \in WithRow : Logged(l, {Order[n]}, status)[Order[i]]
                          = IF Order[i] = Order[n] THEN status ELSE l[Order[i]]
  BY LoggedSpec, RowsAre
<1>2. \A i \in WithRow : Order[i] = Order[n] <=> i = n
  BY RowsAre
<1>3. QED
  BY <1>1, <1>2 DEF Progress

\* Step n is over and the next one has no row yet; a step of the master has none.
LEMMA ProgressAdvances ==
    ASSUME NEW l \in LogRows, NEW n \in 1..9,
           Progress(l, n, "SUCCESS") \/ (n \notin WithRow /\ \E now : Progress(l, n, now))
    PROVE  Progress(l, n + 1, "none")
<1>1. \A i \in WithRow : i \in Nat
  BY DEF WithRow
<1>2. QED
  BY <1>1 DEF Progress

\* The rows a master that ends leaves as they are.
LEMMA ProgressKept ==
    ASSUME NEW l \in LogRows, NEW n \in 1..10, NEW now, NEW status, Progress(l, n, now)
    PROVE  Progress(Logged(l, {"sp_refresh_all"}, status), n, now)
<1>1. \A i \in WithRow : Logged(l, {"sp_refresh_all"}, status)[Order[i]] = l[Order[i]]
  BY LoggedSpec, RowsAre
<1>2. QED
  BY <1>1 DEF Progress

LEMMA LogStep == LogInv /\ [Next]_vars => LogInv'
<1> SUFFICES ASSUME LogInv, [Next]_vars PROVE LogInv'
  OBVIOUS
<1>1. TypeInv /\ TypeInv'
  BY TypeStep DEF LogInv
<1>2. /\ run \in [Runs -> RunRecord] /\ log \in [Runs -> LogRows]
      /\ \A r \in Runs : run[r] \in RunRecord /\ log[r] \in LogRows /\ run[r].reload \in BOOLEAN
  BY <1>1 DEF TypeInv, TypeOK, RunRecord
<1>3. ASSUME UNCHANGED <<run, log>>
      PROVE  LogInv'
  BY <1>1, <1>3 DEF LogInv
<1>4. ASSUME NEW r \in Runs, NEW x, NEW l, run' = [run EXCEPT ![r] = x],
             log' = [log EXCEPT ![r] = l], LogFits(x, l)
      PROVE  LogInv'
  <2>1. ASSUME NEW q \in Runs
        PROVE  LogFits(run'[q], log'[q])
    <3>1. CASE q = r
      BY <1>2, <1>4, <3>1
    <3>2. CASE q # r
      BY <1>2, <1>4, <3>2 DEF LogInv
    <3>3. QED
      BY <3>1, <3>2
  <2>2. QED
    BY <1>1, <2>1 DEF LogInv
<1>sameLog. ASSUME NEW r \in Runs, NEW x, run' = [run EXCEPT ![r] = x], UNCHANGED log, LogFits(x, log[r])
       PROVE  LogInv'
  <2>1. log' = [log EXCEPT ![r] = log[r]]
    BY <1>2, <1>sameLog
  <2>2. QED
    BY <1>4, <1>sameLog, <2>1
<1>5. ASSUME NEW r \in Runs, NEW reload \in BOOLEAN, Start(r, reload)
      PROVE  LogInv'
  <2> DEFINE x == [run[r] EXCEPT !.state = "running", !.reload = reload,
                     !.phase = IF reload THEN "first" ELSE FirstPhase(Order[1])]
             l == Logged(log[r], {IF reload THEN "movements" ELSE "sp_refresh_all"}, "RUNNING")
  <2>1. run[r].state = "idle" /\ run' = [run EXCEPT ![r] = x] /\ log' = [log EXCEPT ![r] = l]
    BY <1>5 DEF Start
  <2>2. log[r] = NoLog /\ run[r].step = 1
    BY <1>1, <2>1 DEF LogInv, LogFits, TypeInv, OneStep
  <2>3. x.state = "running" /\ x.reload = reload /\ x.step = 1
    BY <1>2, <2>2 DEF RunRecord
  <2> HIDE DEF x
  <2>4. CASE reload
    BY <1>4, <2>1, <2>3, <2>4 DEF LogFits
  <2>5. CASE ~reload
    <3>1. \A s \in Procedures \cup {"sp_refresh_all"} : NoLog[s] = "none"
      BY DEF NoLog
    <3>2. l["sp_refresh_all"] = "RUNNING"
      BY <1>2, <2>5, LoggedSpec
    <3>3. \A i \in WithRow : l[Order[i]] = "none"
      BY <1>2, <2>2, <2>5, <3>1, LoggedSpec, RowsAre
    <3> HIDE DEF l
    <3>4. \A now : Progress(l, 1, now)
      BY <3>3 DEF Progress, WithRow
    <3>5. LogFits(x, l)
      BY <2>3, <3>2, <3>4 DEF LogFits, RowAt
    <3>6. QED
      BY <1>4, <2>1, <3>5
  <2>6. QED
    BY <2>4, <2>5
<1>6. ASSUME NEW r \in Runs, MergeSku(r) \/ DeleteWindow(r) \/ InsertSales(r) \/ InsertStock(r)
                             \/ InsertMovements(r) \/ InsertTransfers(r)
      PROVE  LogInv'
  <2>1. PICK new \in {"second", "logging"} :
           run' = [run EXCEPT ![r] = [run[r] EXCEPT !.phase = new]]
    BY <1>6 DEF MergeSku, DeleteWindow, InsertSales, InsertStock, InsertMovements,
                InsertTransfers, Goto
  <2>2. /\ UNCHANGED log /\ run[r].state = "running" /\ Step(r) # "quality"
        /\ run[r].phase \in {"first", "second"}
    BY <1>6 DEF MergeSku, DeleteWindow, InsertSales, InsertStock, InsertMovements,
                InsertTransfers, At, Running
  <2>3. ~run[r].reload => run[r].step # 10
    BY <1>1, <2>2, OrderIs, Places
  <2>4. LogFits([run[r] EXCEPT !.phase = new], log[r])
    BY <1>2, <2>2, <2>3 DEF LogInv, LogFits, RunRecord, RowAt
  <2>5. QED
    BY <1>sameLog, <2>1, <2>2, <2>4
<1>7. ASSUME NEW r \in Runs, ReadWatermark(r) \/ DeleteMovements(r)
      PROVE  LogInv'
  <2>1. PICK m :
           run' = [run EXCEPT ![r] = [run[r] EXCEPT !.phase = "second", !.mark = m]]
    BY <1>7 DEF ReadWatermark, DeleteMovements
  <2>2. /\ UNCHANGED log /\ run[r].state = "running" /\ Step(r) # "quality"
        /\ run[r].phase = "first"
    BY <1>7 DEF ReadWatermark, DeleteMovements, At, Running
  <2>3. ~run[r].reload => run[r].step # 10
    BY <1>1, <2>2, OrderIs, Places
  <2>4. LogFits([run[r] EXCEPT !.phase = "second", !.mark = m], log[r])
    BY <1>2, <2>2, <2>3 DEF LogInv, LogFits, RunRecord, RowAt
  <2>5. QED
    BY <1>sameLog, <2>1, <2>2, <2>4
<1>8. ASSUME NEW r \in Runs, ComputeWindow(r)
      PROVE  LogInv'
  <2> DEFINE x == [run[r] EXCEPT !.from = FirstWeek, !.to = today, !.step = @ + 1,
                                  !.phase = "entering"]
  <2>1. /\ run' = [run EXCEPT ![r] = x] /\ UNCHANGED log
        /\ run[r].state = "running" /\ Step(r) = "window"
    BY <1>8 DEF ComputeWindow, At, Running
  <2>2. ~run[r].reload /\ run[r].step = 5
    <3>1. ~run[r].reload
      BY <1>1, <2>1, Places
    <3>2. Order[run[r].step] = "window" /\ run[r].step \in 1..10
      BY <1>1, <2>1, <3>1, Places
    <3>3. QED
      BY <3>1, <3>2, OrderIs
  <2>3. x.state = "running" /\ x.step = 6 /\ x.reload = FALSE /\ x.phase = "entering"
    BY <1>2, <2>1, <2>2 DEF RunRecord
  <2>4. log[r]["sp_refresh_all"] = "RUNNING" /\ \E now : Progress(log[r], 5, now)
    BY <2>1, <2>2 DEF LogInv, LogFits
  <2>5. Progress(log[r], 6, "none")
    BY <2>4 DEF Progress, WithRow
  <2> HIDE DEF x
  <2>6. LogFits(x, log[r])
    BY <2>3, <2>4, <2>5 DEF LogFits, RowAt
  <2>7. QED
    BY <1>sameLog, <2>1, <2>6
<1>9. ASSUME NEW r \in Runs, Advance(r)
      PROVE  LogInv'
  <2> DEFINE n == run[r].step
             next == n + 1
             last == next > Len(Plan(r))
             done == [run[r] EXCEPT !.state = "done", !.step = 1, !.phase = "first", !.mark = 0]
             x == [run[r] EXCEPT !.step = next, !.phase = FirstPhase(Plan(r)[next])]
             l == Logged(log[r], {Step(r)}, "SUCCESS")
  <2>1. /\ run[r].state = "running" /\ run[r].phase = "logging"
        /\ run' = [run EXCEPT ![r] = IF last THEN done ELSE x]
        /\ log' = [log EXCEPT ![r] = l]
    BY <1>9 DEF Advance, Running, End
  <2>2. CASE run[r].reload
    <3>1. done.reload /\ x.reload /\ done.state = "done" /\ x.state = "running"
      BY <1>2, <2>1, <2>2 DEF RunRecord
    <3>2. LogFits(IF last THEN done ELSE x, l)
      BY <3>1 DEF LogFits
    <3>3. QED
      BY <1>4, <2>1, <3>2
  <2>3. CASE ~run[r].reload
    <3>1. n \in 1..9
      BY <1>1, <2>1, <2>3, Places DEF LogInv, LogFits
    <3>2. Plan(r) = Order /\ Step(r) = Order[n] /\ Len(Plan(r)) = 10
      BY <1>1, <2>3, OrderIs, Places
    <3>3. ~last
      BY <3>1, <3>2
    <3>4. l = Logged(log[r], {Order[n]}, "SUCCESS")
      BY <3>2
    <3>5. log[r]["sp_refresh_all"] = "RUNNING" /\ Progress(log[r], n, "RUNNING")
      BY <2>1, <2>3 DEF LogInv, LogFits, RowAt
    <3>6. l["sp_refresh_all"] = "RUNNING"
      <4>1. Order[n] # "sp_refresh_all"
        BY <3>1, OrderIs
      <4>2. QED
        BY <1>2, <3>4, <3>5, <4>1, LoggedSpec
    <3>7. Progress(l, n + 1, "none")
      <4>1. n \in 1..10 /\ l \in LogRows
        BY <1>2, <3>1, LogType
      <4>2. Progress(l, n, "SUCCESS")
        BY <1>2, <3>4, <3>5, <4>1, ProgressSet
      <4> HIDE DEF l
      <4>3. QED
        BY <3>1, <4>1, <4>2, ProgressAdvances
    <3>8. /\ x.state = "running" /\ x.reload = FALSE /\ x.step = n + 1
          /\ x.phase = FirstPhase(Order[n + 1])
      BY <1>2, <2>1, <2>3, <3>2 DEF RunRecord
    <3>9. x.step = 10 => x.phase = "first"
      BY <3>8, OrderIs DEF FirstPhase, Procedures
    <3>10. \E now \in RowAt(x.phase) : Progress(l, n + 1, now)
      <4>1. CASE n + 1 \in WithRow
        <5>1. Order[n + 1] \in Procedures
          BY <4>1, RowsAre
        <5>2. x.phase = "entering"
          BY <3>8, <5>1 DEF FirstPhase
        <5>3. QED
          BY <3>7, <5>2 DEF RowAt
      <4>2. CASE n + 1 \notin WithRow
        <5>1. \A now : Progress(l, n + 1, now)
          BY <3>7, <4>2 DEF Progress
        <5>2. \E now : now \in RowAt(x.phase)
          BY DEF RowAt
        <5>3. QED
          BY <5>1, <5>2
      <4>3. QED
        BY <4>1, <4>2
    <3> HIDE DEF x, l
    <3>11. LogFits(x, l)
      BY <3>6, <3>8, <3>9, <3>10 DEF LogFits
    <3>12. QED
      BY <1>4, <2>1, <3>3, <3>11
  <2>4. QED
    BY <1>2, <2>2, <2>3
<1>10. ASSUME NEW r \in Runs, Finish(r)
      PROVE  LogInv'
  <2> DEFINE x == [run[r] EXCEPT !.state = "done", !.step = 1, !.phase = "first", !.mark = 0]
             l == Logged(log[r], {"sp_refresh_all"}, "SUCCESS")
  <2>1. /\ run' = [run EXCEPT ![r] = x] /\ log' = [log EXCEPT ![r] = l]
        /\ run[r].state = "running" /\ Step(r) = "quality"
    BY <1>10 DEF Finish, End, At, Running
  <2>2. ~run[r].reload /\ run[r].step = 10
    <3>1. ~run[r].reload
      BY <1>1, <2>1, Places
    <3>2. Order[run[r].step] = "quality" /\ run[r].step \in 1..10
      BY <1>1, <2>1, <3>1, Places
    <3>3. QED
      BY <3>1, <3>2, OrderIs
  <2>3. x.state = "done" /\ x.reload = FALSE
    BY <1>2, <2>2 DEF RunRecord
  <2>4. Progress(log[r], 10, "RUNNING")
    BY <2>1, <2>2 DEF LogInv, LogFits, Progress, WithRow
  <2>5. l["sp_refresh_all"] = "SUCCESS"
    BY <1>2, LoggedSpec
  <2>6. Progress(l, 10, "RUNNING")
    BY <1>2, <2>4, ProgressKept
  <2> HIDE DEF x, l
  <2>7. LogFits(x, l)
    BY <2>3, <2>5, <2>6 DEF LogFits
  <2>8. QED
    BY <1>4, <2>1, <2>7
<1>11. ASSUME NEW r \in Runs, Enter(r)
      PROVE  LogInv'
  <2> DEFINE x == [run[r] EXCEPT !.phase = WorkPhase(Step(r))]
             n == run[r].step
             l == Logged(log[r], {Step(r)}, "RUNNING")
  <2>1. /\ run' = [run EXCEPT ![r] = x] /\ log' = [log EXCEPT ![r] = l]
        /\ run[r].state = "running" /\ run[r].phase = "entering"
    BY <1>11 DEF Enter, Goto, Running
  <2>2. /\ x.state = "running" /\ x.reload = run[r].reload /\ x.step = n
        /\ x.phase \in {"first", "logging"}
    BY <1>2, <2>1 DEF RunRecord, WorkPhase
  <2> HIDE DEF x
  <2>3. CASE run[r].reload
    <3>1. LogFits(x, l)
      BY <2>2, <2>3 DEF LogFits
    <3>2. QED
      BY <1>4, <2>1, <3>1
  <2>4. CASE ~run[r].reload
    <3>1. n \in 1..9 /\ l = Logged(log[r], {Order[n]}, "RUNNING")
      BY <1>1, <2>1, <2>4, Places DEF LogInv, LogFits
    <3>2. log[r]["sp_refresh_all"] = "RUNNING" /\ Progress(log[r], n, "none")
      BY <2>1, <2>4 DEF LogInv, LogFits, RowAt
    <3>3. l["sp_refresh_all"] = "RUNNING"
      <4>1. Order[n] # "sp_refresh_all"
        BY <3>1, OrderIs
      <4>2. QED
        BY <1>2, <3>1, <3>2, <4>1, LoggedSpec
    <3>4. Progress(l, n, "RUNNING")
      <4>1. n \in 1..10
        BY <3>1
      <4>2. QED
        BY <1>2, <3>1, <3>2, <4>1, ProgressSet
    <3> HIDE DEF l
    <3>5. LogFits(x, l)
      BY <2>2, <3>1, <3>3, <3>4 DEF LogFits, RowAt
    <3>6. QED
      BY <1>4, <2>1, <3>5
  <2>5. QED
    BY <1>2, <2>3, <2>4
<1>raise. ASSUME NEW r \in Runs, Raise(r)
      PROVE  LogInv'
  <2>1. PICK ph \in {"catching", "thrown"} :
           /\ run' = [run EXCEPT ![r] = [run[r] EXCEPT !.phase = ph]]
           /\ ph = "catching" => Step(r) \in Procedures /\ run[r].phase # "entering"
    BY <1>raise DEF Raise, Goto
  <2>2. UNCHANGED log /\ run[r].state = "running" /\ run[r].phase \notin {"catching", "thrown"}
    BY <1>raise DEF Raise, Running
  <2>3. PICK x : x = [run[r] EXCEPT !.phase = ph]
    OBVIOUS
  <2>4. x.state = "running" /\ x.reload = run[r].reload /\ x.step = run[r].step /\ x.phase = ph
    BY <1>2, <2>2, <2>3 DEF RunRecord
  <2>5. ~run[r].reload /\ ph = "catching" => run[r].step # 10
    <3>1. "quality" \notin Procedures
      BY DEF Procedures
    <3>2. QED
      BY <1>1, <2>1, <3>1, OrderIs, Places
  <2>6. ~run[r].reload => \E now \in RowAt(ph) : Progress(log[r], run[r].step, now)
    <3>1. SUFFICES ASSUME ~run[r].reload
                   PROVE  \E now \in RowAt(ph) : Progress(log[r], run[r].step, now)
      OBVIOUS
    <3>2. PICK now \in RowAt(run[r].phase) : Progress(log[r], run[r].step, now)
      BY <2>2, <3>1 DEF LogInv, LogFits
    <3>3. now \in RowAt(ph)
      BY <2>1, <2>2, <3>2 DEF RowAt
    <3>4. QED
      BY <3>2, <3>3
  <2>7. LogFits(x, log[r])
    BY <2>2, <2>4, <2>5, <2>6 DEF LogInv, LogFits
  <2>8. QED
    BY <1>sameLog, <2>1, <2>2, <2>3, <2>7
<1>failed. ASSUME NEW r \in Runs, NEW s, Failed(r, s)
      PROVE  \E l : /\ log' = [log EXCEPT ![r] = l]
                    /\ l = log[r] \/ l = Logged(log[r], {s}, "FAILED")
  BY <1>2, <1>failed DEF Failed
<1>catch. ASSUME NEW r \in Runs, CatchStep(r)
      PROVE  LogInv'
  <2>1. PICK l : /\ log' = [log EXCEPT ![r] = l]
                 /\ l = log[r] \/ l = Logged(log[r], {Step(r)}, "FAILED")
    BY <1>catch, <1>failed DEF CatchStep
  <2>2. run[r].state = "running" /\ run[r].phase = "catching"
    BY <1>catch DEF CatchStep, Running
  <2>3. CASE run[r].reload
    <3> DEFINE x == [run[r] EXCEPT !.state = "failed", !.step = 1, !.phase = "first", !.mark = 0]
    <3>1. run' = [run EXCEPT ![r] = x]
      BY <1>catch, <2>3 DEF CatchStep, End
    <3>2. x.state = "failed" /\ x.reload
      BY <1>2, <2>3 DEF RunRecord
    <3> HIDE DEF x
    <3>3. LogFits(x, l)
      BY <3>2 DEF LogFits
    <3>4. QED
      BY <1>4, <2>1, <3>1, <3>3
  <2>4. CASE ~run[r].reload
    <3> DEFINE x == [run[r] EXCEPT !.phase = "thrown"]
               n == run[r].step
    <3>1. run' = [run EXCEPT ![r] = x]
      BY <1>catch, <2>4 DEF CatchStep, Goto
    <3>2. x.state = "running" /\ ~x.reload /\ x.step = n /\ x.phase = "thrown"
      BY <1>2, <2>2, <2>4 DEF RunRecord
    <3> HIDE DEF x
    <3>3. n \in 1..9 /\ Step(r) = Order[n]
      BY <1>1, <2>2, <2>4, Places DEF LogInv, LogFits
    <3>4. log[r]["sp_refresh_all"] = "RUNNING" /\ Progress(log[r], n, "RUNNING")
      BY <2>2, <2>4 DEF LogInv, LogFits, RowAt
    <3>5. l["sp_refresh_all"] = "RUNNING"
      <4>1. Order[n] # "sp_refresh_all"
        BY <3>3, OrderIs
      <4>2. QED
        BY <1>2, <2>1, <3>3, <3>4, <4>1, LoggedSpec
    <3>6. \E now \in {"RUNNING", "FAILED"} : Progress(l, n, now)
      <4>1. n \in 1..10
        BY <3>3
      <4>2. Progress(Logged(log[r], {Order[n]}, "FAILED"), n, "FAILED")
        BY <1>2, <3>4, <4>1, ProgressSet
      <4>3. QED
        BY <2>1, <3>3, <3>4, <4>2
    <3>7. LogFits(x, l)
      BY <3>2, <3>3, <3>5, <3>6 DEF LogFits, RowAt
    <3>8. QED
      BY <1>4, <2>1, <3>1, <3>7
  <2>5. QED
    BY <1>2, <2>3, <2>4
<1>master. ASSUME NEW r \in Runs, CatchMaster(r)
      PROVE  LogInv'
  <2> DEFINE x == [run[r] EXCEPT !.state = "failed", !.step = 1, !.phase = "first", !.mark = 0]
             n == run[r].step
  <2>1. PICK l : /\ log' = [log EXCEPT ![r] = l]
                 /\ l = log[r] \/ l = Logged(log[r], {"sp_refresh_all"}, "FAILED")
    BY <1>master, <1>failed DEF CatchMaster
  <2>2. /\ run' = [run EXCEPT ![r] = x]
        /\ run[r].state = "running" /\ run[r].phase = "thrown"
    BY <1>master DEF CatchMaster, End, Running
  <2>3. x.state = "failed" /\ x.reload = run[r].reload
    BY <1>2 DEF RunRecord
  <2> HIDE DEF x
  <2>4. CASE run[r].reload
    <3>1. LogFits(x, l)
      BY <2>3, <2>4 DEF LogFits
    <3>2. QED
      BY <1>4, <2>1, <2>2, <3>1
  <2>5. CASE ~run[r].reload
    <3>1. n \in 1..10
      BY <1>1, Places
    <3>2. PICK now \in {"none", "RUNNING", "FAILED"} : Progress(log[r], n, now)
      BY <2>2, <2>5 DEF LogInv, LogFits, RowAt
    <3>3. log[r]["sp_refresh_all"] = "RUNNING"
      BY <2>2, <2>5 DEF LogInv, LogFits
    <3>4. Progress(l, n, now)
      BY <1>2, <2>1, <3>1, <3>2, ProgressKept
    <3>5. l["sp_refresh_all"] \in {"FAILED", "RUNNING"}
      BY <1>2, <2>1, <3>3, LoggedSpec
    <3>6. Stopped(l, {"FAILED", "RUNNING"})
      BY <3>1, <3>4, <3>5 DEF Stopped
    <3>7. LogFits(x, l)
      BY <2>3, <2>5, <3>6 DEF LogFits
    <3>8. QED
      BY <1>4, <2>1, <2>2, <3>7
  <2>6. QED
    BY <1>2, <2>4, <2>5
<1>12. ASSUME NEW r \in Runs, Kill(r)
      PROVE  LogInv'
  <2> DEFINE x == [run[r] EXCEPT !.state = "killed", !.step = 1, !.phase = "first", !.mark = 0]
  <2>1. run' = [run EXCEPT ![r] = x] /\ UNCHANGED log /\ run[r].state = "running"
    BY <1>12 DEF Kill, End, Running
  <2>2. x.state = "killed" /\ x.reload = run[r].reload
    BY <1>2 DEF RunRecord
  <2>3. run[r].step \in 1..10
    BY <1>1, Places
  <2> HIDE DEF x
  <2>4. ~run[r].reload => Stopped(log[r], {"RUNNING"})
    <3>1. SUFFICES ASSUME ~run[r].reload PROVE Stopped(log[r], {"RUNNING"})
      OBVIOUS
    <3>2. /\ log[r]["sp_refresh_all"] = "RUNNING"
          /\ \E now \in RowAt(run[r].phase) : Progress(log[r], run[r].step, now)
      BY <2>1, <3>1 DEF LogInv, LogFits
    <3>3. RowAt(run[r].phase) \subseteq {"none", "RUNNING", "FAILED"}
      BY DEF RowAt
    <3>4. QED
      BY <2>3, <3>2, <3>3 DEF Stopped
  <2>5. LogFits(x, log[r])
    BY <2>2, <2>4 DEF LogFits
  <2>6. QED
    BY <1>sameLog, <2>1, <2>5
<1>13. ASSUME Source
       PROVE  LogInv'
  BY <1>3, <1>13 DEF Source, Issue, Void, Repeat, DeleteProduct, MapBrand, NextWeek, Edit
<1>15. ASSUME UNCHANGED vars
       PROVE  LogInv'
  BY <1>3, <1>15 DEF vars
<1>16. QED
  BY <1>5, <1>6, <1>7, <1>8, <1>9, <1>10, <1>11, <1>12, <1>13, <1>15, <1>raise, <1>catch, <1>master
     DEF Next, Refresh

\* The rows of a refresh never contradict each other, at no statement and wherever
\* it is killed: the master's says SUCCESS exactly when the refresh went through,
\* which is when every step has its row SUCCESS, and FAILED only of one that failed;
\* a step FAILED leaves the run nothing but the master's CATCH; and no step has a
\* row after one that did not succeed.
THEOREM LogIsTruthful == Spec => []LogTellsOutcome
<1>1. QED
  BY LogInit, LogStep, LogFitsSuffices, PTL DEF Spec

-----------------------------------------------------------------------------
(* What the log calls loaded.  LoggedStepsAreLoaded speaks of a run that     *)
(* nothing disturbed; what makes it inductive is what each statement of such *)
(* a run leaves behind for the next: the dimension is current before the     *)
(* sales read it, the window covers every document, and its weeks are empty  *)
(* between the DELETE and the INSERT, whatever earlier runs had left there.  *)

\* Where a run is, and whether the statements of a procedure are behind it.
Where(x) == IF x.reload THEN "movements" ELSE Order[x.step]
Doing(x, s, ph) == x.state = "running" /\ Where(x) = s /\ x.phase = ph
Written(x, l, s) == l[s] = "SUCCESS" \/ Doing(x, s, "logging")

\* Whether a run has got to the sales, and so has its window.
Windowed(x, l) == l["sales"] # "none" \/ Doing(x, "sales", "entering")

\* The brand of every product is the one that is mapped.
DimCurrent == \A k \in products : k \in DOMAIN dim /\ dim[k].brand = mapping[k]

SalesOf(W) == {row \in sales : row.week \in W}
StockOf(W) == {row \in stock : row.week \in W}

SalesFit(x, l) ==
    /\ Doing(x, "sales", "second") => SalesOf(x.from..x.to) = {}
    /\ Written(x, l, "sales") => DimCurrent /\ SalesOf(x.from..x.to) = SalesRows(x.from..x.to)

StockFit(x, l) ==
    /\ Doing(x, "stock", "second") => StockOf(x.from..x.to) = {}
    /\ Written(x, l, "stock") => StockOf(x.from..x.to) = StockRows(x.from..x.to, x.to)

\* What an undisturbed run x with the rows l has done.
Undisturbed(x, l) ==
    /\ Written(x, l, "dim_sku") => DimCurrent
    /\ Windowed(x, l) => x.from = FirstWeek /\ x.to = today
    /\ SalesFit(x, l)
    /\ StockFit(x, l)
    /\ Written(x, l, "movements") => Valid \subseteq movements
    /\ Written(x, l, "transfers") => Transfers \subseteq transfers

\* No document is of a week to come.
Issued == \A d \in Ids : docs[d].week <= today

\* A bucket adds up documents of its own week and product, though some may be void.
OwnBuckets ==
    \A row \in sales : \A d \in DOMAIN row.lines :
        d \in Ids /\ docs[d].week = row.week /\ docs[d].sku = row.sku

\* The window is one statement, which succeeds or raises in the master, and a
\* reload has its row until it ends.
Phases ==
    \A r \in Runs :
        /\ run[r].state = "running" /\ Where(run[r]) = "window" => run[r].phase \in {"first", "thrown"}
        /\ run[r].state = "running" /\ run[r].reload => log[r]["movements"] = "RUNNING"

QuietInv ==
    \A r \in Runs : quiet[r] =>
        /\ \A q \in Runs : q # r => ~Running(q)
        /\ \E x \in RunRecord, l \in LogRows :
              x = run[r] /\ l = log[r] /\ Undisturbed(x, l)

LoadedInv == LoadInv /\ LogInv /\ Issued /\ OwnBuckets /\ Phases /\ QuietInv

\* The window starts with the earliest document.
LEMMA FirstWeekIsFirst ==
    ASSUME docs \in Seq(Document), LastWeek \in Nat
    PROVE  \A d \in Valid : FirstWeek <= docs[d].week
<1> DEFINE InWeek == {docs[d].week : d \in Valid}
<1>1. SUFFICES ASSUME NEW d \in Valid PROVE FirstWeek <= docs[d].week
  OBVIOUS
<1>2. InWeek \in SUBSET Nat /\ docs[d].week \in InWeek
  BY DocType DEF Weeks
<1>3. FirstWeek = Min(InWeek)
  BY <1>1 DEF FirstWeek
<1> HIDE DEF InWeek
<1>4. \E x \in InWeek : \A y \in InWeek : x <= y
  BY <1>2, LeastNat
<1>5. \A y \in InWeek : Min(InWeek) <= y
  BY <1>4 DEF Min
<1>6. QED
  BY <1>2, <1>3, <1>5

\* Buckets that are those of the documents rebuild the weeks they are of.
LEMMA RebuiltSales ==
    ASSUME TypeInv, OwnBuckets, DimCurrent, NEW W \in SUBSET Weeks, SalesOf(W) = SalesRows(W)
    PROVE  SalesRebuilt(W)
<1>1. ASSUME NEW row \in sales, row.week \in W
      PROVE  /\ row \in SalesRows(W)
             /\ row = [week |-> row.week, sku |-> row.sku, brand |-> BrandOf(row.sku),
                       lines |-> Summed(row.week, row.sku)]
  <2>1. row \in SalesRows(W)
    BY <1>1 DEF SalesOf
  <2>2. PICK w \in W, k \in Skus :
            row = [week |-> w, sku |-> k, brand |-> BrandOf(k), lines |-> Summed(w, k)]
    BY <2>1 DEF SalesRows
  <2>3. row.week = w /\ row.sku = k
    BY <2>2
  <2>4. QED
    BY <2>1, <2>2, <2>3
<1>2. ASSUME NEW row \in sales, row.week \in W
      PROVE  /\ \A d \in DOMAIN row.lines : docs[d].week = row.week /\ docs[d].sku = row.sku
             /\ row.sku \in products => row.brand = mapping[row.sku]
  <2>1. row.brand = BrandOf(row.sku)
    BY <1>1, <1>2
  <2>2. row.sku \in products => BrandOf(row.sku) = mapping[row.sku]
    BY DEF DimCurrent, BrandOf
  <2>3. QED
    BY <2>1, <2>2 DEF OwnBuckets
<1>3. ASSUME NEW d \in Ids, docs[d].kind = "sale", docs[d].week \in W
      PROVE  IF docs[d].valid
             THEN \E row \in sales : Counting(d) = {row} /\ row.lines[d] = docs[d].copies
             ELSE Counting(d) = {}
  <2> DEFINE w == docs[d].week
             k == docs[d].sku
             bucket == [week |-> w, sku |-> k, brand |-> BrandOf(k), lines |-> Summed(w, k)]
  <2>sum. DOMAIN Summed(w, k) = Sold(w, k)
    BY DEF Summed
  <2>1. ASSUME NEW row \in Counting(d)
        PROVE  row = bucket /\ d \in Sold(w, k)
    <3>1. row \in sales /\ d \in DOMAIN row.lines
      BY DEF Counting
    <3>2. row.week = w /\ row.sku = k
      BY <3>1 DEF OwnBuckets
    <3>3. row = bucket
      BY <1>1, <1>3, <3>1, <3>2
    <3>4. QED
      BY <2>sum, <3>1, <3>3
  <2>2. CASE docs[d].valid
    <3>1. d \in Sold(w, k)
      BY <1>3, <2>2 DEF Sold, Valid
    <3>2. k \in Skus
      BY <1>3, DocType DEF TypeInv, TypeOK, Ids
    <3>3. bucket \in SalesRows(W)
      <4>1. bucket \in {[week |-> v, sku |-> j, brand |-> BrandOf(j), lines |-> Summed(v, j)] :
                           v \in W, j \in Skus}
        BY <1>3, <3>2
      <4>2. DOMAIN bucket.lines # {}
        BY <2>sum, <3>1
      <4>3. QED
        BY <4>1, <4>2 DEF SalesRows
    <3>4. bucket \in Counting(d)
      BY <2>sum, <3>1, <3>3 DEF SalesOf, Counting
    <3>5. Counting(d) = {bucket}
      BY <2>1, <3>4
    <3>6. bucket.lines[d] = docs[d].copies
      BY <3>1 DEF Summed
    <3>7. bucket \in sales
      BY <3>4 DEF Counting
    <3> HIDE DEF bucket
    <3>8. QED
      BY <2>2, <3>5, <3>6, <3>7
  <2>3. CASE ~docs[d].valid
    <3>1. d \notin Sold(w, k)
      BY <2>3 DEF Sold, Valid
    <3>2. Counting(d) = {}
      BY <2>1, <3>1
    <3>3. QED
      BY <2>3, <3>2
  <2>4. QED
    BY <2>2, <2>3
<1>4. QED
  BY <1>2, <1>3 DEF SalesRebuilt

LEMMA RebuiltStock ==
    ASSUME TypeInv, NEW W \in SUBSET Weeks, NEW to, StockOf(W) = StockRows(W, to)
    PROVE  StockRebuilt(W, to)
<1>1. docs \in Seq(Document) /\ LastWeek \in Nat
  BY RefreshAssumption DEF TypeInv, TypeOK
<1>2. SUFFICES ASSUME NEW w \in W, NEW k \in Skus
               PROVE  LET rows == {row \in stock : row.week = w /\ row.sku = k}
                      IN  IF Alive(k, to) /\ \E d \in Valid : docs[d].sku = k /\ docs[d].week <= w
                          THEN \E row \in rows :
                                 /\ rows = {row}
                                 /\ row.move \in Valid /\ docs[row.move].sku = k
                                 /\ docs[row.move].week <= w
                                 /\ \A d \in Valid : docs[d].sku = k /\ docs[d].week <= w =>
                                       /\ docs[d].week <= docs[row.move].week
                                       /\ docs[d].week = docs[row.move].week => d <= row.move
                          ELSE rows = {}
  BY DEF StockRebuilt
<1> DEFINE rows == {row \in stock : row.week = w /\ row.sku = k}
<1>3. rows = {row \in StockRows(W, to) : row.week = w /\ row.sku = k}
  BY DEF StockOf
<1>4. Kardex(k, w) # {} <=> \E d \in Valid : docs[d].sku = k /\ docs[d].week <= w
  BY DEF Kardex
<1>5. CASE Alive(k, to) /\ Kardex(k, w) # {}
  <2> DEFINE last == LastMove(k, w)
             only == [week |-> w, sku |-> k, move |-> last]
  <2>1. last \in Kardex(k, w) /\ \A e \in Kardex(k, w) : Later(last, e)
    BY <1>1, <1>5, LastMoveSpec
  <2>2. last \in Valid /\ docs[last].sku = k /\ docs[last].week <= w
    BY <2>1 DEF Kardex
  <2> HIDE DEF last
  <2>3. only \in rows
    BY <1>3, <1>5, <2>2 DEF StockRows, last
  <2>4. \A row \in rows : row = only
    BY <1>3 DEF StockRows, last
  <2>5. only.move = last
    OBVIOUS
  <2>6. ASSUME NEW d \in Valid, docs[d].sku = k, docs[d].week <= w
        PROVE  /\ docs[d].week <= docs[last].week
               /\ docs[d].week = docs[last].week => d <= last
    <3>1. Later(last, d)
      BY <2>1, <2>6 DEF Kardex
    <3>2. /\ docs[d].week \in Nat /\ docs[last].week \in Nat /\ d \in Nat /\ last \in Nat
      BY <1>1, <2>2, DocType DEF Weeks
    <3>3. QED
      BY <3>1, <3>2 DEF Later
  <2> HIDE DEF rows, only
  <2>7. rows = {only}
    BY <2>3, <2>4
  <2>8. QED
    BY <1>4, <1>5, <2>2, <2>3, <2>5, <2>6, <2>7 DEF rows
<1>6. CASE ~(Alive(k, to) /\ Kardex(k, w) # {})
  <2>1. rows = {}
    BY <1>3, <1>6 DEF StockRows
  <2>2. QED
    BY <1>4, <1>6, <2>1
<1>7. QED
  BY <1>5, <1>6

\* What the invariant says of an undisturbed run is what the property asks of it.
LEMMA LoadedSuffices ==
    ASSUME LoadedInv
    PROVE  LoggedStepsAreLoaded
<1>1. SUFFICES ASSUME NEW r \in Runs, quiet[r]
               PROVE  /\ log[r]["sales"] = "SUCCESS" =>
                           /\ SalesRebuilt(Window(r))
                           /\ \A d \in Valid : docs[d].week \in Window(r)
                      /\ log[r]["stock"] = "SUCCESS" => StockRebuilt(Window(r), run[r].to)
                      /\ log[r]["movements"] = "SUCCESS" => Valid \subseteq movements
                      /\ log[r]["transfers"] = "SUCCESS" => Transfers \subseteq transfers
  BY DEF LoggedStepsAreLoaded
<1>2. TypeInv /\ OwnBuckets /\ Issued
  BY DEF LoadedInv, LogInv
<1>3. Undisturbed(run[r], log[r])
  BY <1>1 DEF LoadedInv, QuietInv
<1>4. docs \in Seq(Document) /\ LastWeek \in Nat /\ run[r] \in RunRecord
  BY <1>2, RefreshAssumption DEF TypeInv, TypeOK
<1>5. Window(r) \in SUBSET Weeks
  BY <1>4 DEF Window, RunRecord, Weeks
<1>6. ASSUME log[r]["sales"] = "SUCCESS"
      PROVE  SalesRebuilt(Window(r)) /\ \A d \in Valid : docs[d].week \in Window(r)
  <2>1. DimCurrent /\ SalesOf(Window(r)) = SalesRows(Window(r))
    BY <1>3, <1>6 DEF Undisturbed, SalesFit, Written, Window
  <2>2. run[r].from = FirstWeek /\ run[r].to = today
    BY <1>3, <1>6 DEF Undisturbed, Windowed
  <2>3. ASSUME NEW d \in Valid PROVE docs[d].week \in Window(r)
    <3>1. FirstWeek <= docs[d].week
      BY <1>4, FirstWeekIsFirst
    <3>2. d \in Ids /\ docs[d].week <= today
      BY <1>2 DEF Issued, Valid
    <3>3. docs[d].week \in Nat
      BY <1>4, DocType DEF Weeks
    <3>4. run[r].from \in Nat /\ run[r].to \in Nat
      BY <1>4 DEF RunRecord, Weeks
    <3>5. QED
      BY <2>2, <3>1, <3>2, <3>3, <3>4 DEF Window
  <2>4. QED
    BY <1>2, <1>5, <2>1, <2>3, RebuiltSales
<1>7. ASSUME log[r]["stock"] = "SUCCESS" PROVE StockRebuilt(Window(r), run[r].to)
  <2>1. StockOf(Window(r)) = StockRows(Window(r), run[r].to)
    BY <1>3, <1>7 DEF Undisturbed, StockFit, Written, Window
  <2>2. QED
    BY <1>2, <1>5, <2>1, RebuiltStock
<1>8. QED
  BY <1>3, <1>6, <1>7 DEF Undisturbed, Written

-----------------------------------------------------------------------------
(* Steps of the invariant.                                                 *)

\* What the queries select is a matter of the tables they read.
LEMMA SourceSame ==
    ASSUME UNCHANGED source
    PROVE  /\ Valid' = Valid /\ Transfers' = Transfers /\ FirstWeek' = FirstWeek /\ today' = today
           /\ \A W, to : StockRows(W, to)' = StockRows(W, to)
<1>1. docs' = docs /\ today' = today
  BY DEF source
<1>2. Valid' = Valid
  BY <1>1 DEF Valid, Ids
<1>3. Transfers' = Transfers /\ FirstWeek' = FirstWeek
  BY <1>1, <1>2 DEF Transfers, FirstWeek
<1>4. \A k, w : Kardex(k, w)' = Kardex(k, w)
  BY <1>1, <1>2 DEF Kardex
<1>5. \A k, w : LastMove(k, w)' = LastMove(k, w)
  BY <1>1, <1>4 DEF LastMove, Later
<1>6. \A k, w : Alive(k, w)' = Alive(k, w)
  BY <1>1, <1>4, <1>5 DEF Alive
<1>7. \A W, to : StockRows(W, to)' = StockRows(W, to)
  BY <1>2, <1>4, <1>5, <1>6 DEF StockRows
<1>8. QED
  BY <1>1, <1>2, <1>3, <1>7

LEMMA DimSame ==
    ASSUME UNCHANGED source, UNCHANGED dim
    PROVE  DimCurrent' = DimCurrent /\ \A W : SalesRows(W)' = SalesRows(W)
<1>1. docs' = docs /\ products' = products /\ mapping' = mapping /\ Valid' = Valid
  BY SourceSame DEF source
<1>2. \A k : BrandOf(k)' = BrandOf(k)
  BY DEF BrandOf
<1>3. \A w, k : Sold(w, k)' = Sold(w, k)
  BY <1>1 DEF Sold
<1>4. \A w, k : Summed(w, k)' = Summed(w, k)
  BY <1>1, <1>3 DEF Summed
<1>5. QED
  BY <1>1, <1>2, <1>4 DEF DimCurrent, SalesRows

\* A run is where its variables say.
LEMMA StepIs ==
    ASSUME TypeInv, NEW r \in Runs
    PROVE  Step(r) = Where(run[r]) /\ run[r].reload \in BOOLEAN
  BY Places DEF Where

\* The rows of a run at a procedure, which has its own between its INSERT and its CATCH.
Table(x, l) ==
    /\ Where(x) \in {"dim_sku", "window"} =>
          \A s \in {"sales", "movements", "stock", "transfers"} : l[s] = "none"
    /\ Where(x) = "sales" =>
          /\ l["dim_sku"] = "SUCCESS" /\ l["sales"] # "SUCCESS"
          /\ x.phase \in {"first", "second", "logging", "catching"} => l["sales"] = "RUNNING"
          /\ \A s \in {"movements", "stock", "transfers"} : l[s] = "none"
    /\ \A s \in {"movements", "stock", "transfers"} : Where(x) = s => l[s] # "SUCCESS"

LEMMA TableHolds ==
    ASSUME LogInv, Phases, NEW r \in Runs, Running(r)
    PROVE  Table(run[r], log[r])
<1>1. run[r].state = "running" /\ run[r].reload \in BOOLEAN /\ TypeInv
  BY StepIs DEF Running, LogInv
<1>2. CASE run[r].reload
  <2>1. Where(run[r]) = "movements" /\ log[r]["movements"] = "RUNNING"
    BY <1>1, <1>2, StepIs DEF Where, Phases
  <2>2. QED
    BY <2>1 DEF Table
<1>3. CASE ~run[r].reload
  <2>0. PICK now \in RowAt(run[r].phase) : Progress(log[r], run[r].step, now)
    BY <1>1, <1>3 DEF LogInv, LogFits
  <2>1. PICK n \in 1..10, l \in LogRows :
            /\ n = run[r].step /\ l = log[r] /\ Progress(l, n, now)
            /\ Where(run[r]) = Order[n]
    BY <1>1, <1>3, <2>0, Places DEF LogInv, Where, TypeInv, TypeOK
  <2>now. /\ now # "SUCCESS"
          /\ run[r].phase \in {"first", "second", "logging", "catching"} => now = "RUNNING"
    BY <2>0 DEF RowAt
  <2>2. /\ l["dim_sku"] = l[Order[4]] /\ l["sales"] = l[Order[6]] /\ l["movements"] = l[Order[7]]
        /\ l["stock"] = l[Order[8]] /\ l["transfers"] = l[Order[9]]
    BY OrderIs
  <2>3. \A i \in {4, 6, 7, 8, 9} :
           l[Order[i]] = IF i < n THEN "SUCCESS" ELSE IF i = n THEN now ELSE "none"
    BY <2>1 DEF Progress, WithRow
  <2>4. /\ Order[n] = "dim_sku" => n = 4
        /\ Order[n] = "window" => n = 5
        /\ Order[n] = "sales" => n = 6
        /\ Order[n] = "movements" => n = 7
        /\ Order[n] = "stock" => n = 8
        /\ Order[n] = "transfers" => n = 9
    BY OrderIs
  <2>5. /\ n = 4 => l["sales"] = "none" /\ l["movements"] = "none"
                    /\ l["stock"] = "none" /\ l["transfers"] = "none"
        /\ n = 5 => l["sales"] = "none" /\ l["movements"] = "none"
                    /\ l["stock"] = "none" /\ l["transfers"] = "none"
        /\ n = 6 => l["dim_sku"] = "SUCCESS" /\ l["sales"] = now /\ l["movements"] = "none"
                    /\ l["stock"] = "none" /\ l["transfers"] = "none"
        /\ n = 7 => l["movements"] = now
        /\ n = 8 => l["stock"] = now
        /\ n = 9 => l["transfers"] = now
    BY <2>2, <2>3
  <2>6. QED
    BY <2>1, <2>now, <2>4, <2>5 DEF Table
<1>4. QED
  BY <1>1, <1>2, <1>3

\* An undisturbed run that is at work is the only one, and has its record and rows.
LEMMA QuietRuns ==
    ASSUME LoadedInv, NEW r \in Runs, Running(r)
    PROVE  /\ \A q \in Runs : quiet[q] => q = r
           /\ quiet[r] => \E x \in RunRecord, l \in LogRows :
                              /\ x = run[r] /\ l = log[r] /\ Undisturbed(x, l)
                              /\ Table(x, l) /\ x.state = "running" /\ Where(x) = Step(r)
<1>1. Table(run[r], log[r]) /\ Where(run[r]) = Step(r)
  BY TableHolds, StepIs DEF LoadedInv, LogInv
<1>2. QED
  BY <1>1 DEF LoadedInv, QuietInv, Running

\* What is left to show of a step of a run.
Kept(r) ==
    \E y \in RunRecord, m \in LogRows : y = run'[r] /\ m = log'[r] /\ Undisturbed(y, m)'

PhasesKept(r) ==
    /\ \A q \in Runs : q # r => run'[q] = run[q] /\ log'[q] = log[q]
    /\ run'[r].state = "running" /\ Where(run'[r]) = "window" => run'[r].phase \in {"first", "thrown"}
    /\ run'[r].state = "running" /\ run'[r].reload => log'[r]["movements"] = "RUNNING"

LEMMA QuietStep ==
    ASSUME LoadedInv, NEW r \in Runs, Running(r), UNCHANGED <<source, quiet>>,
           OwnBuckets', PhasesKept(r), quiet[r] => Kept(r)
    PROVE  Issued' /\ OwnBuckets' /\ Phases' /\ QuietInv'
<1>1. Issued'
  BY DEF LoadedInv, Issued, Ids, source
<1>2. Phases'
  BY DEF LoadedInv, Phases, PhasesKept, Where
<1>3. QuietInv'
  <2>1. SUFFICES ASSUME NEW q \in Runs, quiet[q]
                 PROVE  /\ \A o \in Runs : o # q => ~Running(o)'
                        /\ \E x \in RunRecord, l \in LogRows :
                               x = run'[q] /\ l = log'[q] /\ Undisturbed(x, l)'
    BY DEF QuietInv
  <2>2. q = r
    BY <2>1, QuietRuns
  <2>3. \A o \in Runs : o # q => ~Running(o)'
    BY <2>1, <2>2 DEF LoadedInv, QuietInv, PhasesKept, Running
  <2>4. QED
    BY <2>1, <2>2, <2>3 DEF Kept
<1>4. QED
  BY <1>1, <1>2, <1>3

\* A step that writes no table and claims nothing new.
Follows(x, l, y, m) ==
    /\ y.from = x.from /\ y.to = x.to
    /\ Windowed(y, m) => Windowed(x, l)
    /\ \A s \in {"dim_sku", "sales", "movements", "stock", "transfers"} :
          Written(y, m, s) => Written(x, l, s)
    /\ \A s \in {"sales", "stock"} : Doing(y, s, "second") => Doing(x, s, "second")

LEMMA UndisturbedStays ==
    ASSUME NEW x, NEW l, NEW y, NEW m, Undisturbed(x, l), Follows(x, l, y, m),
           UNCHANGED <<source, warehouse>>
    PROVE  Undisturbed(y, m)'
<1>1. /\ Valid' = Valid /\ Transfers' = Transfers /\ FirstWeek' = FirstWeek /\ today' = today
      /\ \A W, to : StockRows(W, to)' = StockRows(W, to)
      /\ DimCurrent' = DimCurrent /\ \A W : SalesRows(W)' = SalesRows(W)
  BY SourceSame, DimSame DEF warehouse
<1>2. movements' = movements /\ transfers' = transfers
  BY DEF warehouse, facts
<1>3. \A W : SalesOf(W)' = SalesOf(W) /\ StockOf(W)' = StockOf(W)
  BY DEF SalesOf, StockOf, warehouse, facts
<1>4. y.from = x.from /\ y.to = x.to
  BY DEF Follows
<1>5. SalesFit(y, m)'
  <2>1. Doing(y, "sales", "second") => SalesOf(y.from..y.to)' = {}
    BY <1>3, <1>4 DEF Undisturbed, SalesFit, Follows
  <2>2. Written(y, m, "sales") => DimCurrent' /\ SalesOf(y.from..y.to)' = SalesRows(y.from..y.to)'
    BY <1>1, <1>3, <1>4 DEF Undisturbed, SalesFit, Follows
  <2>3. QED
    BY <2>1, <2>2 DEF SalesFit, Written, Doing, Where
<1>6. StockFit(y, m)'
  <2>1. Doing(y, "stock", "second") => StockOf(y.from..y.to)' = {}
    BY <1>3, <1>4 DEF Undisturbed, StockFit, Follows
  <2>2. Written(y, m, "stock") => StockOf(y.from..y.to)' = StockRows(y.from..y.to, y.to)'
    BY <1>1, <1>3, <1>4 DEF Undisturbed, StockFit, Follows
  <2>3. QED
    BY <2>1, <2>2 DEF StockFit, Written, Doing, Where
<1>7. Written(y, m, "dim_sku") => DimCurrent'
  BY <1>1 DEF Undisturbed, Follows
<1>8. Windowed(y, m) => y.from = FirstWeek' /\ y.to = today'
  BY <1>1, <1>4 DEF Undisturbed, Follows
<1>9. /\ Written(y, m, "movements") => Valid' \subseteq movements'
      /\ Written(y, m, "transfers") => Transfers' \subseteq transfers'
  BY <1>1, <1>2 DEF Undisturbed, Follows
<1>10. QED
  BY <1>5, <1>6, <1>7, <1>8, <1>9 DEF Undisturbed, Written, Windowed, Doing, Where

\* A statement of a run: the phase changes, and its rows do not.
LEMMA GotoSpec ==
    ASSUME TypeInv, NEW r \in Runs, NEW p \in {"second", "logging"}, Running(r),
           Goto(r, p), UNCHANGED log, Step(r) # "window",
           run[r].reload => log[r]["movements"] = "RUNNING"
    PROVE  /\ PhasesKept(r)
           /\ \A x \in RunRecord : x = run[r] =>
                 \E y \in RunRecord : /\ y = run'[r] /\ y.state = "running" /\ y.phase = p
                                      /\ Where(y) = Step(r) /\ y.from = x.from /\ y.to = x.to
<1>1. run \in [Runs -> RunRecord] /\ run[r].state = "running" /\ Step(r) = Where(run[r])
  BY StepIs DEF TypeInv, TypeOK, Running
<1>2. PICK x \in RunRecord : x = run[r]
  BY <1>1
<1>3. PICK y : y = [x EXCEPT !.phase = p]
  OBVIOUS
<1>4. run' = [run EXCEPT ![r] = y]
  BY <1>2, <1>3 DEF Goto
<1>5. y = run'[r] /\ \A q \in Runs : q # r => run'[q] = run[q]
  BY <1>1, <1>4
<1>6. /\ y \in RunRecord /\ y.phase = p
      /\ y.state = x.state /\ y.reload = x.reload /\ y.step = x.step
      /\ y.from = x.from /\ y.to = x.to
  BY <1>3 DEF RunRecord
<1>7. Where(y) = Step(r)
  BY <1>1, <1>2, <1>6 DEF Where
<1>8. PhasesKept(r)
  BY <1>1, <1>2, <1>5, <1>6, <1>7 DEF PhasesKept
<1>9. QED
  BY <1>1, <1>2, <1>5, <1>6, <1>7, <1>8

LEMMA MergeSkuLoads ==
    ASSUME LoadedInv, NEW r \in Runs, MergeSku(r)
    PROVE  Issued' /\ OwnBuckets' /\ Phases' /\ QuietInv'
<1>1. /\ Running(r) /\ Step(r) = "dim_sku" /\ Goto(r, "logging")
      /\ UNCHANGED <<source, facts, log, quiet>>
      /\ dim' = [k \in DOMAIN dim \cup products |->
                    [brand  |-> IF k \in products THEN mapping[k] ELSE dim[k].brand,
                     active |-> k \in products]]
  BY DEF MergeSku, At
<1>2. TypeInv
  BY DEF LoadedInv, LogInv
<1>3. ~run[r].reload
  BY <1>1, <1>2, Places
<1>4. DimCurrent'
  BY <1>1 DEF DimCurrent, source
<1>5. OwnBuckets'
  BY <1>1 DEF LoadedInv, OwnBuckets, Ids, source, facts
<1>6. PhasesKept(r)
  BY <1>1, <1>2, <1>3, GotoSpec
<1>7. ASSUME quiet[r] PROVE Kept(r)
  <2>1. PICK x \in RunRecord, l \in LogRows :
            /\ x = run[r] /\ l = log[r] /\ Undisturbed(x, l)
            /\ Table(x, l) /\ x.state = "running" /\ Where(x) = Step(r)
    BY <1>1, <1>7, QuietRuns
  <2>2. PICK y \in RunRecord : y = run'[r] /\ y.phase = "logging" /\ Where(y) = "dim_sku"
    BY <1>1, <1>2, <1>3, <2>1, GotoSpec
  <2>3. \A s \in {"sales", "movements", "stock", "transfers"} : l[s] = "none" /\ ~Written(y, l, s)
    BY <1>1, <2>1, <2>2 DEF Table, Written, Doing
  <2>4. \A s : ~Doing(y, s, "second")
    BY <2>2 DEF Doing
  <2>win. ~Windowed(y, l)
    BY <2>2, <2>3 DEF Windowed, Doing
  <2>5. Undisturbed(y, l)'
    BY <1>4, <2>3, <2>4, <2>win DEF Undisturbed, SalesFit, StockFit, Written, Windowed, Doing, Where
  <2>6. QED
    BY <1>1, <2>1, <2>2, <2>5 DEF Kept
<1>8. QED
  BY <1>1, <1>5, <1>6, <1>7, QuietStep

\* The weeks of a window are empty after the DELETE.
LEMMA DeleteWindowLoads ==
    ASSUME LoadedInv, NEW r \in Runs, DeleteWindow(r)
    PROVE  Issued' /\ OwnBuckets' /\ Phases' /\ QuietInv'
<1>1. /\ Running(r) /\ Step(r) \in {"sales", "stock"} /\ Goto(r, "second")
      /\ UNCHANGED <<source, dim, movements, transfers, log, quiet>>
      /\ sales' = IF Step(r) = "sales" THEN {x \in sales : x.week \notin Window(r)} ELSE sales
      /\ stock' = IF Step(r) = "stock" THEN {x \in stock : x.week \notin Window(r)} ELSE stock
  BY DEF DeleteWindow, At
<1>2. TypeInv
  BY DEF LoadedInv, LogInv
<1>3. ~run[r].reload
  BY <1>1, <1>2, Places
<1>4. OwnBuckets'
  BY <1>1 DEF LoadedInv, OwnBuckets, Ids, source
<1>5. PhasesKept(r)
  BY <1>1, <1>2, <1>3, GotoSpec
<1>6. ASSUME quiet[r] PROVE Kept(r)
  <2>1. PICK x \in RunRecord, l \in LogRows :
            /\ x = run[r] /\ l = log[r] /\ Undisturbed(x, l)
            /\ Table(x, l) /\ x.state = "running" /\ Where(x) = Step(r)
    BY <1>1, <1>6, QuietRuns
  <2>2. PICK y \in RunRecord : /\ y = run'[r] /\ y.phase = "second" /\ Where(y) = Step(r)
                               /\ y.from = x.from /\ y.to = x.to
    BY <1>1, <1>2, <1>3, <2>1, GotoSpec
  <2>3. \A s : Written(y, l, s) <=> l[s] = "SUCCESS"
    BY <2>2 DEF Written, Doing
  <2>4. \A s : l[s] = "SUCCESS" => Written(x, l, s)
    BY DEF Written
  <2>5. /\ Valid' = Valid /\ Transfers' = Transfers /\ FirstWeek' = FirstWeek /\ today' = today
        /\ \A W, to : StockRows(W, to)' = StockRows(W, to)
        /\ DimCurrent' = DimCurrent /\ \A W : SalesRows(W)' = SalesRows(W)
    BY <1>1, SourceSame, DimSame
  <2>6. SalesFit(y, l)'
    <3>1. CASE Step(r) = "sales"
      <4>1. SalesOf(y.from..y.to)' = {}
        BY <1>1, <2>1, <2>2, <3>1 DEF SalesOf, Window
      <4>2. l["sales"] # "SUCCESS"
        BY <2>1, <3>1 DEF Table
      <4>3. ~Written(y, l, "sales")
        BY <2>3, <4>2
      <4>4. QED
        BY <4>1, <4>3 DEF SalesFit, Written, Doing, Where
    <3>2. CASE Step(r) = "stock"
      <4>1. ~Doing(y, "sales", "second")
        BY <2>2, <3>2 DEF Doing
      <4>2. \A W : SalesOf(W)' = SalesOf(W)
        BY <1>1, <3>2 DEF SalesOf
      <4>3. Written(y, l, "sales") => DimCurrent' /\ SalesOf(y.from..y.to)' = SalesRows(y.from..y.to)'
        BY <2>1, <2>2, <2>3, <2>4, <2>5, <4>2 DEF Undisturbed, SalesFit
      <4>4. QED
        BY <4>1, <4>3 DEF SalesFit, Written, Doing, Where
    <3>3. QED
      BY <1>1, <3>1, <3>2
  <2>7. StockFit(y, l)'
    <3>1. CASE Step(r) = "stock"
      <4>1. StockOf(y.from..y.to)' = {}
        BY <1>1, <2>1, <2>2, <3>1 DEF StockOf, Window
      <4>2. l["stock"] # "SUCCESS"
        BY <2>1, <3>1 DEF Table
      <4>3. ~Written(y, l, "stock")
        BY <2>3, <4>2
      <4>4. QED
        BY <4>1, <4>3 DEF StockFit, Written, Doing, Where
    <3>2. CASE Step(r) = "sales"
      <4>1. ~Doing(y, "stock", "second")
        BY <2>2, <3>2 DEF Doing
      <4>2. \A W : StockOf(W)' = StockOf(W)
        BY <1>1, <3>2 DEF StockOf
      <4>3. Written(y, l, "stock") => StockOf(y.from..y.to)' = StockRows(y.from..y.to, y.to)'
        BY <2>1, <2>2, <2>3, <2>4, <2>5, <4>2 DEF Undisturbed, StockFit
      <4>4. QED
        BY <4>1, <4>3 DEF StockFit, Written, Doing, Where
    <3>3. QED
      BY <1>1, <3>1, <3>2
  <2>8. /\ Written(y, l, "dim_sku") => DimCurrent'
        /\ Windowed(y, l) => y.from = FirstWeek' /\ y.to = today'
        /\ Written(y, l, "movements") => Valid' \subseteq movements'
        /\ Written(y, l, "transfers") => Transfers' \subseteq transfers'
    BY <1>1, <2>1, <2>2, <2>3, <2>4, <2>5 DEF Undisturbed, Windowed, Doing
  <2>9. Undisturbed(y, l)'
    BY <2>6, <2>7, <2>8 DEF Undisturbed, Written, Windowed, Doing, Where
  <2>10. QED
    BY <1>1, <2>1, <2>2, <2>9 DEF Kept
<1>7. QED
  BY <1>1, <1>4, <1>5, <1>6, QuietStep

\* The buckets of the window are those of the documents after the INSERT.
LEMMA InsertSalesLoads ==
    ASSUME LoadedInv, NEW r \in Runs, InsertSales(r)
    PROVE  Issued' /\ OwnBuckets' /\ Phases' /\ QuietInv'
<1>1. /\ Running(r) /\ Step(r) = "sales" /\ run[r].phase = "second" /\ Goto(r, "logging")
      /\ UNCHANGED <<source, dim, stock, movements, transfers, log, quiet>>
      /\ sales' = sales \cup SalesRows(Window(r))
  BY DEF InsertSales, At
<1>2. TypeInv
  BY DEF LoadedInv, LogInv
<1>3. ~run[r].reload
  BY <1>1, <1>2, Places
<1>4. OwnBuckets'
  <2>1. \A row \in SalesRows(Window(r)) : \A d \in DOMAIN row.lines :
            d \in Ids /\ docs[d].week = row.week /\ docs[d].sku = row.sku
    <3>1. \A w, k : DOMAIN Summed(w, k) = Sold(w, k)
      BY DEF Summed
    <3>2. \A w, k : \A d \in Sold(w, k) : d \in Ids /\ docs[d].week = w /\ docs[d].sku = k
      BY DEF Sold, Valid
    <3>3. QED
      BY <3>1, <3>2 DEF SalesRows
  <2>2. \A row \in sales' : \A d \in DOMAIN row.lines :
            d \in Ids /\ docs[d].week = row.week /\ docs[d].sku = row.sku
    BY <1>1, <2>1 DEF LoadedInv, OwnBuckets
  <2>3. docs' = docs
    BY <1>1 DEF source
  <2>4. QED
    BY <2>2, <2>3 DEF OwnBuckets, Ids
<1>5. PhasesKept(r)
  BY <1>1, <1>2, <1>3, GotoSpec
<1>6. ASSUME quiet[r] PROVE Kept(r)
  <2>1. PICK x \in RunRecord, l \in LogRows :
            /\ x = run[r] /\ l = log[r] /\ Undisturbed(x, l)
            /\ Table(x, l) /\ x.state = "running" /\ Where(x) = Step(r)
    BY <1>1, <1>6, QuietRuns
  <2>2. PICK y \in RunRecord : /\ y = run'[r] /\ y.phase = "logging" /\ Where(y) = "sales"
                               /\ y.from = x.from /\ y.to = x.to
    BY <1>1, <1>2, <1>3, <2>1, GotoSpec
  <2>3. /\ l["dim_sku"] = "SUCCESS" /\ (x.phase = "second" => l["sales"] = "RUNNING")
        /\ \A s \in {"movements", "stock", "transfers"} : l[s] = "none" /\ ~Written(y, l, s)
        /\ \A s : ~Doing(y, s, "second")
    BY <1>1, <2>1, <2>2 DEF Table, Written, Doing
  <2>ph. l["sales"] = "RUNNING"
    BY <1>1, <2>1, <2>3
  <2>4. /\ FirstWeek' = FirstWeek /\ today' = today
        /\ DimCurrent' = DimCurrent /\ \A W : SalesRows(W)' = SalesRows(W)
    BY <1>1, SourceSame, DimSame
  <2>5. DimCurrent
    BY <2>1, <2>3 DEF Undisturbed, Written
  <2>6. SalesOf(y.from..y.to)' = SalesRows(y.from..y.to)'
    <3>1. SalesOf(y.from..y.to) = {}
      BY <1>1, <2>1, <2>2 DEF Undisturbed, SalesFit, Doing
    <3>2. sales' = sales \cup SalesRows(y.from..y.to)
      BY <1>1, <2>1, <2>2 DEF Window
    <3>3. \A row \in SalesRows(y.from..y.to) : row.week \in y.from..y.to
      BY DEF SalesRows
    <3>4. SalesOf(y.from..y.to)' = SalesRows(y.from..y.to)
      BY <3>1, <3>2, <3>3 DEF SalesOf
    <3>5. QED
      BY <2>4, <3>4
  <2>7. SalesFit(y, l)'
    BY <2>3, <2>4, <2>5, <2>6 DEF SalesFit, Doing, Where, Written
  <2>8. StockFit(y, l)'
    BY <2>3 DEF StockFit, Doing, Where, Written
  <2>9. y.from = FirstWeek' /\ y.to = today'
    BY <2>1, <2>2, <2>ph, <2>4 DEF Undisturbed, Windowed
  <2>10. Undisturbed(y, l)'
    BY <2>3, <2>4, <2>5, <2>7, <2>8, <2>9 DEF Undisturbed, Written, Windowed, Doing, Where
  <2>11. QED
    BY <1>1, <2>1, <2>2, <2>10 DEF Kept
<1>7. QED
  BY <1>1, <1>4, <1>5, <1>6, QuietStep

LEMMA InsertStockLoads ==
    ASSUME LoadedInv, NEW r \in Runs, InsertStock(r)
    PROVE  Issued' /\ OwnBuckets' /\ Phases' /\ QuietInv'
<1>1. /\ Running(r) /\ Step(r) = "stock" /\ run[r].phase = "second" /\ Goto(r, "logging")
      /\ UNCHANGED <<source, dim, sales, movements, transfers, log, quiet>>
      /\ stock' = stock \cup StockRows(Window(r), run[r].to)
  BY DEF InsertStock, At
<1>2. TypeInv
  BY DEF LoadedInv, LogInv
<1>3. ~run[r].reload
  BY <1>1, <1>2, Places
<1>4. OwnBuckets'
  BY <1>1 DEF LoadedInv, OwnBuckets, Ids, source
<1>5. PhasesKept(r)
  BY <1>1, <1>2, <1>3, GotoSpec
<1>6. ASSUME quiet[r] PROVE Kept(r)
  <2>1. PICK x \in RunRecord, l \in LogRows :
            /\ x = run[r] /\ l = log[r] /\ Undisturbed(x, l)
            /\ Table(x, l) /\ x.state = "running" /\ Where(x) = Step(r)
    BY <1>1, <1>6, QuietRuns
  <2>2. PICK y \in RunRecord : /\ y = run'[r] /\ y.phase = "logging" /\ Where(y) = "stock"
                               /\ y.from = x.from /\ y.to = x.to
    BY <1>1, <1>2, <1>3, <2>1, GotoSpec
  <2>3. /\ \A s \in {"dim_sku", "sales", "movements", "transfers"} :
               Written(y, l, s) => Written(x, l, s)
        /\ \A s : ~Doing(y, s, "second") /\ ~Doing(y, s, "entering")
    BY <2>2 DEF Written, Doing
  <2>4. /\ Valid' = Valid /\ Transfers' = Transfers /\ FirstWeek' = FirstWeek /\ today' = today
        /\ \A W, to : StockRows(W, to)' = StockRows(W, to)
        /\ DimCurrent' = DimCurrent /\ \A W : SalesRows(W)' = SalesRows(W)
        /\ \A W : SalesOf(W)' = SalesOf(W)
    BY <1>1, SourceSame, DimSame DEF SalesOf
  <2>5. StockOf(y.from..y.to)' = StockRows(y.from..y.to, y.to)'
    <3>1. StockOf(y.from..y.to) = {}
      BY <1>1, <2>1, <2>2 DEF Undisturbed, StockFit, Doing
    <3>2. stock' = stock \cup StockRows(y.from..y.to, y.to)
      BY <1>1, <2>1, <2>2 DEF Window
    <3>3. \A row \in StockRows(y.from..y.to, y.to) : row.week \in y.from..y.to
      BY DEF StockRows
    <3>4. StockOf(y.from..y.to)' = StockRows(y.from..y.to, y.to)
      BY <3>1, <3>2, <3>3 DEF StockOf
    <3>5. QED
      BY <2>4, <3>4
  <2>6. SalesFit(y, l)'
    <3>1. Written(y, l, "sales") => DimCurrent' /\ SalesOf(y.from..y.to)' = SalesRows(y.from..y.to)'
      BY <2>1, <2>2, <2>3, <2>4 DEF Undisturbed, SalesFit
    <3>2. QED
      BY <2>3, <3>1 DEF SalesFit, Doing, Where, Written
  <2>7. StockFit(y, l)'
    BY <2>3, <2>5 DEF StockFit, Doing, Where, Written
  <2>8. /\ Written(y, l, "dim_sku") => DimCurrent'
        /\ Windowed(y, l) => y.from = FirstWeek' /\ y.to = today'
        /\ Written(y, l, "movements") => Valid' \subseteq movements'
        /\ Written(y, l, "transfers") => Transfers' \subseteq transfers'
    BY <1>1, <2>1, <2>2, <2>3, <2>4 DEF Undisturbed, Windowed, Doing
  <2>9. Undisturbed(y, l)'
    BY <2>6, <2>7, <2>8 DEF Undisturbed, Written, Windowed, Doing, Where
  <2>10. QED
    BY <1>1, <2>1, <2>2, <2>9 DEF Kept
<1>7. QED
  BY <1>1, <1>4, <1>5, <1>6, QuietStep

\* The incremental facts: a step that leaves the weekly facts alone.
LEMMA IncrementalStays ==
    ASSUME NEW x, NEW l, NEW y, Undisturbed(x, l), y.from = x.from, y.to = x.to,
           \A s \in {"dim_sku", "sales", "stock"} : Written(y, l, s) => Written(x, l, s),
           \A s \in {"sales", "stock"} : ~Doing(y, s, "second"),
           ~Doing(y, "sales", "entering"),
           (Written(y, l, "movements") => Valid \subseteq movements'),
           (Written(y, l, "transfers") => Transfers \subseteq transfers'),
           UNCHANGED <<source, dim, sales, stock>>
    PROVE  Undisturbed(y, l)'
<1>1. /\ Valid' = Valid /\ Transfers' = Transfers /\ FirstWeek' = FirstWeek /\ today' = today
      /\ \A W, to : StockRows(W, to)' = StockRows(W, to)
      /\ DimCurrent' = DimCurrent /\ \A W : SalesRows(W)' = SalesRows(W)
      /\ \A W : SalesOf(W)' = SalesOf(W) /\ StockOf(W)' = StockOf(W)
  BY SourceSame, DimSame DEF SalesOf, StockOf
<1>2. Written(y, l, "sales") => DimCurrent' /\ SalesOf(y.from..y.to)' = SalesRows(y.from..y.to)'
  BY <1>1 DEF Undisturbed, SalesFit
<1>3. Written(y, l, "stock") => StockOf(y.from..y.to)' = StockRows(y.from..y.to, y.to)'
  BY <1>1 DEF Undisturbed, StockFit
<1>4. SalesFit(y, l)' /\ StockFit(y, l)'
  BY <1>2, <1>3 DEF SalesFit, StockFit, Doing, Where, Written
<1>5. /\ Written(y, l, "dim_sku") => DimCurrent'
      /\ Windowed(y, l) => y.from = FirstWeek' /\ y.to = today'
      /\ Written(y, l, "movements") => Valid' \subseteq movements'
      /\ Written(y, l, "transfers") => Transfers' \subseteq transfers'
  BY <1>1 DEF Undisturbed, Windowed
<1>6. QED
  BY <1>4, <1>5 DEF Undisturbed, Written, Windowed, Doing, Where

\* Everything above the watermark is inserted, and everything below was there.
LEMMA InsertMovementsLoads ==
    ASSUME LoadedInv, NEW r \in Runs, InsertMovements(r)
    PROVE  Issued' /\ OwnBuckets' /\ Phases' /\ QuietInv'
<1>1. /\ Running(r) /\ Step(r) = "movements" /\ At(r, "movements", "second") /\ Goto(r, "logging")
      /\ UNCHANGED <<source, dim, sales, stock, transfers, log, quiet>>
      /\ movements' = movements \cup Above(r, Valid)
  BY DEF InsertMovements, At
<1>2. TypeInv /\ (run[r].reload => log[r]["movements"] = "RUNNING")
  BY <1>1 DEF LoadedInv, LogInv, Phases, Running
<1>3. Valid \subseteq movements'
  <2>1. \A d \in Valid : d <= run[r].mark => d \in movements
    BY <1>1 DEF LoadedInv, LoadInv, MarksKept
  <2>2. run[r].mark \in Nat /\ \A d \in Valid : d \in Nat
    BY DocType, RefreshAssumption DEF LoadedInv, LogInv, TypeInv, TypeOK, RunRecord
  <2>3. QED
    BY <1>1, <2>1, <2>2 DEF Above
<1>4. OwnBuckets'
  BY <1>1 DEF LoadedInv, OwnBuckets, Ids, source
<1>6. PhasesKept(r)
  BY <1>1, <1>2, GotoSpec
<1>7. ASSUME quiet[r] PROVE Kept(r)
  <2>1. PICK x \in RunRecord, l \in LogRows :
            /\ x = run[r] /\ l = log[r] /\ Undisturbed(x, l)
            /\ Table(x, l) /\ x.state = "running" /\ Where(x) = Step(r)
    BY <1>1, <1>7, QuietRuns
  <2>2. PICK y \in RunRecord : /\ y = run'[r] /\ y.phase = "logging" /\ Where(y) = "movements"
                               /\ y.from = x.from /\ y.to = x.to
    BY <1>1, <1>2, <2>1, GotoSpec
  <2>3. /\ \A s \in {"dim_sku", "sales", "stock", "transfers"} :
               Written(y, l, s) => Written(x, l, s)
        /\ \A s : ~Doing(y, s, "second") /\ ~Doing(y, s, "entering")
    BY <2>2 DEF Written, Doing
  <2>4. Written(y, l, "transfers") => Transfers \subseteq transfers'
    BY <1>1, <2>1, <2>3 DEF Undisturbed
  <2>5. Undisturbed(y, l)'
    BY <1>1, <1>3, <2>1, <2>2, <2>3, <2>4, IncrementalStays
  <2>6. QED
    BY <1>1, <2>1, <2>2, <2>5 DEF Kept
<1>8. QED
  BY <1>1, <1>4, <1>6, <1>7, QuietStep

LEMMA InsertTransfersLoads ==
    ASSUME LoadedInv, NEW r \in Runs, InsertTransfers(r)
    PROVE  Issued' /\ OwnBuckets' /\ Phases' /\ QuietInv'
<1>1. /\ Running(r) /\ Step(r) = "transfers" /\ At(r, "transfers", "second") /\ Goto(r, "logging")
      /\ UNCHANGED <<source, dim, sales, stock, movements, log, quiet>>
      /\ transfers' = transfers \cup Above(r, Transfers)
  BY DEF InsertTransfers, At
<1>2. TypeInv
  BY DEF LoadedInv, LogInv
<1>3. Transfers \subseteq transfers'
  <2>1. \A d \in Transfers : d <= run[r].mark => d \in transfers
    BY <1>1 DEF LoadedInv, LoadInv, MarksKept
  <2>2. run[r].mark \in Nat /\ \A d \in Transfers : d \in Nat
    BY <1>2, DocType, RefreshAssumption DEF TypeInv, TypeOK, RunRecord, Transfers
  <2>3. QED
    BY <1>1, <2>1, <2>2 DEF Above
<1>4. OwnBuckets'
  BY <1>1 DEF LoadedInv, OwnBuckets, Ids, source
<1>5. ~run[r].reload
  BY <1>1, <1>2, Places
<1>6. PhasesKept(r)
  BY <1>1, <1>2, <1>5, GotoSpec
<1>7. ASSUME quiet[r] PROVE Kept(r)
  <2>1. PICK x \in RunRecord, l \in LogRows :
            /\ x = run[r] /\ l = log[r] /\ Undisturbed(x, l)
            /\ Table(x, l) /\ x.state = "running" /\ Where(x) = Step(r)
    BY <1>1, <1>7, QuietRuns
  <2>2. PICK y \in RunRecord : /\ y = run'[r] /\ y.phase = "logging" /\ Where(y) = "transfers"
                               /\ y.from = x.from /\ y.to = x.to
    BY <1>1, <1>2, <1>5, <2>1, GotoSpec
  <2>3. /\ \A s \in {"dim_sku", "sales", "stock", "movements"} :
               Written(y, l, s) => Written(x, l, s)
        /\ \A s : ~Doing(y, s, "second") /\ ~Doing(y, s, "entering")
    BY <2>2 DEF Written, Doing
  <2>4. Written(y, l, "movements") => Valid \subseteq movements'
    BY <1>1, <2>1, <2>3 DEF Undisturbed
  <2>5. Undisturbed(y, l)'
    BY <1>1, <1>3, <2>1, <2>2, <2>3, <2>4, IncrementalStays
  <2>6. QED
    BY <1>1, <2>1, <2>2, <2>5 DEF Kept
<1>8. QED
  BY <1>1, <1>4, <1>6, <1>7, QuietStep

\* The watermark is read, or the fact is emptied for a reload.
LEMMA MarkLoads ==
    ASSUME LoadedInv, NEW r \in Runs, ReadWatermark(r) \/ DeleteMovements(r)
    PROVE  Issued' /\ OwnBuckets' /\ Phases' /\ QuietInv'
<1>1. PICK m : run' = [run EXCEPT ![r].phase = "second", ![r].mark = m]
  BY DEF ReadWatermark, DeleteMovements
<1>2. /\ Running(r) /\ Step(r) \in {"movements", "transfers"}
      /\ UNCHANGED <<source, dim, sales, stock, transfers, log, quiet>>
      /\ movements' = movements \/ run[r].reload
  BY DEF ReadWatermark, DeleteMovements, At, warehouse, facts
<1>3. TypeInv /\ (run[r].reload => log[r]["movements"] = "RUNNING")
  BY <1>2 DEF LoadedInv, LogInv, Phases, Running
<1>4. OwnBuckets'
  BY <1>2 DEF LoadedInv, OwnBuckets, Ids, source
<1>5. run \in [Runs -> RunRecord] /\ run[r].state = "running" /\ Step(r) = Where(run[r])
  BY <1>2, <1>3, StepIs DEF TypeInv, TypeOK, Running
<1>6. PICK x \in RunRecord : x = run[r]
  BY <1>5
<1>7. PICK y : y = [x EXCEPT !.phase = "second", !.mark = m]
  OBVIOUS
<1>8. y = run'[r] /\ \A q \in Runs : q # r => run'[q] = run[q]
  BY <1>1, <1>5, <1>6, <1>7
<1>9. /\ y.phase = "second" /\ y.state = x.state /\ y.reload = x.reload /\ y.step = x.step
      /\ y.from = x.from /\ y.to = x.to
  BY <1>7 DEF RunRecord
<1>10. Where(y) = Step(r)
  BY <1>5, <1>6, <1>9 DEF Where
<1>11. PhasesKept(r)
  BY <1>2, <1>3, <1>5, <1>6, <1>8, <1>9, <1>10 DEF PhasesKept
<1>12. ASSUME quiet[r], TypeInv' PROVE Kept(r)
  <2>1. PICK l \in LogRows : /\ l = log[r] /\ Undisturbed(x, l) /\ Table(x, l)
    BY <1>2, <1>6, <1>12, QuietRuns
  <2>2. /\ \A s : Written(y, l, s) => Written(x, l, s)
        /\ \A s \in {"sales", "stock"} : ~Doing(y, s, "second") /\ ~Doing(y, s, "entering")
    BY <1>2, <1>9, <1>10 DEF Written, Doing
  <2>3. Written(y, l, "movements") => Valid \subseteq movements'
    <3>1. CASE run[r].reload
      BY <1>3, <1>9, <2>1, <3>1 DEF Written, Doing
    <3>2. CASE ~run[r].reload
      BY <1>2, <2>1, <2>2, <3>2 DEF Undisturbed
    <3>3. QED
      BY <3>1, <3>2
  <2>4. Written(y, l, "transfers") => Transfers \subseteq transfers'
    BY <1>2, <2>1, <2>2 DEF Undisturbed
  <2>5. Undisturbed(y, l)'
    BY <1>2, <1>9, <2>1, <2>2, <2>3, <2>4, IncrementalStays
  <2>6. y \in RunRecord
    BY <1>8, <1>12 DEF TypeInv, TypeOK
  <2>7. QED
    BY <1>2, <1>8, <2>1, <2>5, <2>6 DEF Kept
<1>13. TypeInv'
  <2>1. [Next]_vars
    BY DEF Next, Refresh
  <2>2. QED
    BY <1>3, <2>1, TypeStep
<1>14. QED
  BY <1>2, <1>4, <1>11, <1>12, <1>13, QuietStep

\* The window is fixed: nothing that depends on it is done yet.
LEMMA ComputeWindowLoads ==
    ASSUME LoadedInv, NEW r \in Runs, ComputeWindow(r)
    PROVE  Issued' /\ OwnBuckets' /\ Phases' /\ QuietInv'
<1>1. /\ Running(r) /\ Step(r) = "window" /\ UNCHANGED <<source, warehouse, log, quiet>>
      /\ run' = [run EXCEPT ![r].from = FirstWeek, ![r].to = today,
                             ![r].step = @ + 1, ![r].phase = "entering"]
  BY DEF ComputeWindow, At
<1>2. TypeInv /\ TypeInv'
  <2>1. [Next]_vars
    BY DEF Next, Refresh
  <2>2. QED
    BY <2>1, TypeStep DEF LoadedInv, LogInv
<1>3. OwnBuckets'
  BY <1>1 DEF LoadedInv, OwnBuckets, Ids, source, warehouse, facts
<1>4. /\ run \in [Runs -> RunRecord] /\ log \in [Runs -> LogRows]
      /\ run[r].state = "running" /\ Step(r) = Where(run[r])
  BY <1>1, <1>2, StepIs DEF TypeInv, TypeOK, Running
<1>5. PICK x \in RunRecord, l \in LogRows : x = run[r] /\ l = log[r]
  BY <1>4
<1>6. ~x.reload /\ x.step = 5
  <2>1. ~run[r].reload
    BY <1>1, <1>2, Places
  <2>2. Order[run[r].step] = "window" /\ run[r].step \in 1..10
    BY <1>1, <1>2, <2>1, Places
  <2>3. QED
    BY <1>5, <2>1, <2>2, OrderIs
<1>7. PICK y \in RunRecord : y = run'[r]
  BY <1>2 DEF TypeInv, TypeOK
<1>8. /\ y = [x EXCEPT !.from = FirstWeek, !.to = today, !.step = x.step + 1, !.phase = "entering"]
      /\ \A q \in Runs : q # r => run'[q] = run[q] /\ log'[q] = log[q]
  BY <1>1, <1>4, <1>5, <1>7
<1>9. /\ y.from = FirstWeek /\ y.to = today /\ y.step = 6 /\ ~y.reload /\ y.phase = "entering"
      /\ Where(y) = "sales"
  BY <1>5, <1>6, <1>8, OrderIs DEF RunRecord, Where
<1>10. PhasesKept(r)
  BY <1>7, <1>8, <1>9 DEF PhasesKept
<1>11. ASSUME quiet[r] PROVE Kept(r)
  <2>1. Undisturbed(x, l) /\ Table(x, l) /\ Where(x) = "window"
    BY <1>1, <1>5, <1>11, QuietRuns
  <2>2. \A s \in {"sales", "movements", "stock", "transfers"} : l[s] = "none"
    BY <2>1 DEF Table
  <2>3. \A s \in {"sales", "movements", "stock", "transfers"} : ~Written(y, l, s)
    BY <1>9, <2>2 DEF Written, Doing
  <2>4. Written(y, l, "dim_sku") => Written(x, l, "dim_sku")
    BY <1>9 DEF Written, Doing
  <2>5. \A s : ~Doing(y, s, "second")
    BY <1>9 DEF Doing
  <2>6. FirstWeek' = FirstWeek /\ today' = today /\ DimCurrent' = DimCurrent
    BY <1>1, SourceSame, DimSame DEF warehouse
  <2>7. SalesFit(y, l)' /\ StockFit(y, l)'
    BY <2>3, <2>5 DEF SalesFit, StockFit, Written, Doing, Where
  <2>8. Written(y, l, "dim_sku") => DimCurrent'
    BY <2>1, <2>4, <2>6 DEF Undisturbed
  <2>9. Undisturbed(y, l)'
    BY <1>9, <2>3, <2>6, <2>7, <2>8 DEF Undisturbed, Written, Windowed, Doing, Where
  <2>10. QED
    BY <1>1, <1>5, <1>7, <2>9 DEF Kept
<1>12. QED
  BY <1>1, <1>3, <1>10, <1>11, QuietStep

\* A run that ends keeps what it has done, and its window.
LEMMA EndLoads ==
    ASSUME LoadedInv, TypeInv', NEW r \in Runs, NEW outcome, outcome # "running",
           Running(r), End(r, outcome), UNCHANGED <<source, warehouse, quiet>>,
           \A q \in Runs : q # r => log'[q] = log[q],
           (log'[r]["sales"] # "none" => log[r]["sales"] # "none"),
           \A s \in {"dim_sku", "sales", "movements", "stock", "transfers"} :
              log'[r][s] = "SUCCESS" =>
                 log[r][s] = "SUCCESS" \/ (s = Step(r) /\ run[r].phase = "logging")
    PROVE  Issued' /\ OwnBuckets' /\ Phases' /\ QuietInv'
<1>1. run \in [Runs -> RunRecord] /\ TypeInv
  BY DEF LoadedInv, LogInv, TypeInv, TypeOK
<1>2. OwnBuckets'
  BY DEF LoadedInv, OwnBuckets, Ids, source, warehouse, facts
<1>3. PICK y \in RunRecord, m \in LogRows : y = run'[r] /\ m = log'[r]
  BY DEF TypeInv, TypeOK
<1>4. /\ y.state = outcome /\ y.from = run[r].from /\ y.to = run[r].to
      /\ \A q \in Runs : q # r => run'[q] = run[q]
  BY <1>1, <1>3 DEF End, RunRecord
<1>5. PhasesKept(r)
  BY <1>3, <1>4 DEF PhasesKept
<1>6. ASSUME quiet[r] PROVE Kept(r)
  <2>1. PICK x \in RunRecord, l \in LogRows :
            /\ x = run[r] /\ l = log[r] /\ Undisturbed(x, l)
            /\ x.state = "running" /\ Where(x) = Step(r)
    BY <1>6, QuietRuns
  <2>2. \A s, ph : ~Doing(y, s, ph)
    BY <1>4 DEF Doing
  <2>3. Follows(x, l, y, m)
    BY <1>3, <1>4, <2>1, <2>2 DEF Follows, Written, Windowed, Doing
  <2>4. Undisturbed(y, m)'
    BY <2>1, <2>3, UndisturbedStays
  <2>5. QED
    BY <1>3, <2>4 DEF Kept
<1>7. QED
  BY <1>2, <1>5, <1>6, QuietStep

\* A run goes on to log or to catch, and writes no table: what it has done stays.
LEMMA PhaseLoads ==
    ASSUME LoadedInv, TypeInv', NEW r \in Runs, NEW p, Running(r), Goto(r, p),
           p \notin {"entering", "second"},
           (p = "logging" => Step(r) \notin {"dim_sku", "sales", "movements", "stock", "transfers"}),
           (Step(r) = "window" => p = "thrown"),
           UNCHANGED <<source, warehouse, quiet>>,
           \A q \in Runs : q # r => log'[q] = log[q],
           (run[r].reload => log'[r]["movements"] = "RUNNING"),
           (log'[r]["sales"] # "none" => Windowed(run[r], log[r])),
           \A s \in {"dim_sku", "sales", "movements", "stock", "transfers"} :
              log'[r][s] = "SUCCESS" => log[r][s] = "SUCCESS"
    PROVE  Issued' /\ OwnBuckets' /\ Phases' /\ QuietInv'
<1>1. run \in [Runs -> RunRecord] /\ TypeInv /\ Step(r) = Where(run[r])
  BY StepIs DEF LoadedInv, LogInv, TypeInv, TypeOK
<1>2. OwnBuckets'
  BY DEF LoadedInv, OwnBuckets, Ids, source, warehouse, facts
<1>3. PICK y \in RunRecord, m \in LogRows : y = run'[r] /\ m = log'[r]
  BY DEF TypeInv, TypeOK
<1>4. PICK x \in RunRecord : x = run[r]
  BY <1>1
<1>5. /\ y = [x EXCEPT !.phase = p]
      /\ \A q \in Runs : q # r => run'[q] = run[q]
  BY <1>1, <1>3, <1>4 DEF Goto
<1>6. /\ y.state = x.state /\ y.reload = x.reload /\ y.step = x.step /\ y.phase = p
      /\ y.from = x.from /\ y.to = x.to
  BY <1>5 DEF RunRecord
<1>7. Where(y) = Step(r)
  BY <1>1, <1>4, <1>6 DEF Where
<1>8. PhasesKept(r)
  BY <1>3, <1>4, <1>5, <1>6, <1>7 DEF PhasesKept
<1>9. ASSUME quiet[r] PROVE Kept(r)
  <2>1. PICK l \in LogRows : l = log[r] /\ Undisturbed(x, l)
    BY <1>4, <1>9, QuietRuns
  <2>2. /\ \A s \in {"dim_sku", "sales", "movements", "stock", "transfers"} : ~Doing(y, s, "logging")
        /\ \A s : ~Doing(y, s, "second") /\ ~Doing(y, s, "entering")
    BY <1>6, <1>7 DEF Doing
  <2>3. \A s \in {"dim_sku", "sales", "movements", "stock", "transfers"} :
           Written(y, m, s) => Written(x, l, s)
    BY <1>3, <2>1, <2>2 DEF Written
  <2>4. Windowed(y, m) => Windowed(x, l)
    BY <1>3, <1>4, <2>1, <2>2 DEF Windowed
  <2>5. Follows(x, l, y, m)
    BY <1>6, <2>2, <2>3, <2>4 DEF Follows
  <2>6. Undisturbed(y, m)'
    BY <2>1, <2>5, UndisturbedStays
  <2>7. QED
    BY <1>3, <2>6 DEF Kept
<1>10. QED
  BY <1>2, <1>8, <1>9, QuietStep

\* What logging a status does to the rows of the facts.
LEMMA RowsKept ==
    ASSUME LoadedInv, NEW r \in Runs, Running(r), NEW S, NEW status,
           log' = [log EXCEPT ![r] = Logged(@, S, status)],
           ("sales" \in S => Windowed(run[r], log[r])),
           (status = "SUCCESS" => S \cap Procedures = {})
    PROVE  /\ \A q \in Runs : q # r => log'[q] = log[q]
           /\ log'[r]["sales"] # "none" => Windowed(run[r], log[r])
           /\ \A s \in {"dim_sku", "sales", "movements", "stock", "transfers"} :
                 log'[r][s] = "SUCCESS" => log[r][s] = "SUCCESS"
           /\ "movements" \notin S => log'[r]["movements"] = log[r]["movements"]
           /\ "movements" \in S => log'[r]["movements"] = status
<1>1. PICK l \in LogRows : l = log[r] /\ log \in [Runs -> LogRows]
  BY DEF LoadedInv, LogInv, TypeInv, TypeOK
<1>2. log'[r] = Logged(l, S, status) /\ \A q \in Runs : q # r => log'[q] = log[q]
  BY <1>1
<1>3. \A s \in Procedures : log'[r][s] = IF s \in S THEN status ELSE l[s]
  BY <1>2, LoggedSpec
<1>4. {"dim_sku", "sales", "movements", "stock", "transfers"} \subseteq Procedures
  BY DEF Procedures
<1>5. log'[r]["sales"] # "none" => Windowed(run[r], log[r])
  BY <1>1, <1>3, <1>4 DEF Windowed
<1>6. \A s \in {"dim_sku", "sales", "movements", "stock", "transfers"} :
         log'[r][s] = "SUCCESS" => log[r][s] = "SUCCESS"
  BY <1>1, <1>3, <1>4
<1>7. QED
  BY <1>1, <1>2, <1>3, <1>4, <1>5, <1>6

\* The rows when a CATCH has run, or its UPDATE has raised.
LEMMA FailedKeeps ==
    ASSUME LoadedInv, NEW r \in Runs, Running(r), NEW s, Failed(r, s),
           s = "sales" => Windowed(run[r], log[r])
    PROVE  /\ \A q \in Runs : q # r => log'[q] = log[q]
           /\ log'[r]["sales"] # "none" => Windowed(run[r], log[r])
           /\ \A f \in {"dim_sku", "sales", "movements", "stock", "transfers"} :
                 log'[r][f] = "SUCCESS" => log[r][f] = "SUCCESS"
<1>1. CASE UNCHANGED log
  BY <1>1 DEF Windowed
<1>2. CASE log' = [log EXCEPT ![r] = Logged(@, {s}, "FAILED")]
  <2> DEFINE S == {s}
  <2>1. /\ log' = [log EXCEPT ![r] = Logged(@, S, "FAILED")]
        /\ "sales" \in S => Windowed(run[r], log[r])
        /\ "FAILED" = "SUCCESS" => S \cap Procedures = {}
    BY <1>2
  <2> HIDE DEF S
  <2>2. QED
    BY <2>1, RowsKept
<1>3. QED
  BY <1>1, <1>2 DEF Failed

LEMMA OutcomeLoads ==
    ASSUME LoadedInv, TypeInv', NEW r \in Runs,
           \/ Finish(r) \/ Kill(r) \/ Enter(r) \/ Raise(r) \/ CatchStep(r) \/ CatchMaster(r)
    PROVE  Issued' /\ OwnBuckets' /\ Phases' /\ QuietInv'
<1>1. Running(r) /\ UNCHANGED <<source, warehouse, quiet>>
  BY DEF Finish, Kill, Enter, Raise, CatchStep, CatchMaster, At
<1>2. PICK l \in LogRows : l = log[r] /\ log \in [Runs -> LogRows]
  BY DEF LoadedInv, LogInv, TypeInv, TypeOK
<1>3. /\ Table(run[r], l) /\ Where(run[r]) = Step(r) /\ run[r].state = "running"
      /\ Step(r) = "window" => run[r].phase \in {"first", "thrown"}
      /\ run[r].reload => log[r]["movements"] = "RUNNING" /\ Step(r) = "movements"
  BY <1>1, <1>2, TableHolds, StepIs, Places DEF LoadedInv, LogInv, Phases, Running
<1>4. Step(r) = "sales" /\ run[r].phase \in {"entering", "catching"} => Windowed(run[r], log[r])
  BY <1>2, <1>3 DEF Table, Windowed, Doing
<1>ends. ASSUME NEW outcome \in {"done", "failed", "killed"}, End(r, outcome),
                \A q \in Runs : q # r => log'[q] = log[q],
                log'[r]["sales"] # "none" => log[r]["sales"] # "none",
                \A s \in {"dim_sku", "sales", "movements", "stock", "transfers"} :
                   log'[r][s] = "SUCCESS" => log[r][s] = "SUCCESS"
         PROVE  Issued' /\ OwnBuckets' /\ Phases' /\ QuietInv'
  BY <1>1, <1>ends, EndLoads
<1>5. CASE Finish(r)
  <2>1. log' = [log EXCEPT ![r] = Logged(@, {"sp_refresh_all"}, "SUCCESS")] /\ End(r, "done")
    BY <1>5 DEF Finish
  <2>2. {"sp_refresh_all"} \cap Procedures = {} /\ "sales" \notin {"sp_refresh_all"}
    BY DEF Procedures
  <2>3. /\ \A q \in Runs : q # r => log'[q] = log[q]
        /\ \A s \in {"dim_sku", "sales", "movements", "stock", "transfers"} :
              log'[r][s] = "SUCCESS" => log[r][s] = "SUCCESS"
    BY <1>1, <2>1, <2>2, RowsKept
  <2>4. log'[r]["sales"] = log[r]["sales"]
    BY <1>2, <2>1, LoggedSpec DEF Procedures
  <2>5. QED
    BY <1>ends, <2>1, <2>3, <2>4
<1>6. CASE Kill(r)
  BY <1>6, <1>ends DEF Kill
<1>7. CASE Enter(r)
  <2>1. /\ Goto(r, WorkPhase(Step(r))) /\ run[r].phase = "entering"
        /\ log' = [log EXCEPT ![r] = Logged(@, {Step(r)}, "RUNNING")]
    BY <1>7 DEF Enter
  <2>2. /\ WorkPhase(Step(r)) \in {"first", "logging"}
        /\ WorkPhase(Step(r)) = "logging" => Step(r) \in {"dim_category", "dim_store"}
    BY DEF WorkPhase
  <2>3. /\ \A q \in Runs : q # r => log'[q] = log[q]
        /\ log'[r]["sales"] # "none" => Windowed(run[r], log[r])
        /\ \A s \in {"dim_sku", "sales", "movements", "stock", "transfers"} :
              log'[r][s] = "SUCCESS" => log[r][s] = "SUCCESS"
        /\ Step(r) = "movements" => log'[r]["movements"] = "RUNNING"
    <3> DEFINE S == {Step(r)}
    <3>1. /\ log' = [log EXCEPT ![r] = Logged(@, S, "RUNNING")]
          /\ "sales" \in S => Windowed(run[r], log[r])
          /\ "RUNNING" = "SUCCESS" => S \cap Procedures = {}
          /\ Step(r) = "movements" => "movements" \in S
      BY <1>4, <2>1
    <3> HIDE DEF S
    <3>2. QED
      BY <1>1, <3>1, RowsKept
  <2>4. QED
    BY <1>1, <1>3, <2>1, <2>2, <2>3, PhaseLoads
<1>8. CASE Raise(r)
  <2>1. PICK p \in {"catching", "thrown"} :
           Goto(r, p) /\ (p = "catching" => Step(r) \in Procedures)
    BY <1>8 DEF Raise
  <2>2. log' = log /\ "window" \notin Procedures
    BY <1>8 DEF Raise, Procedures
  <2>3. log'[r]["sales"] # "none" => Windowed(run[r], log[r])
    BY <2>2 DEF Windowed
  <2>4. QED
    BY <1>1, <1>3, <2>1, <2>2, <2>3, PhaseLoads
<1>9. CASE CatchStep(r)
  <2>1. Failed(r, Step(r)) /\ run[r].phase = "catching"
    BY <1>9 DEF CatchStep
  <2>2. /\ \A q \in Runs : q # r => log'[q] = log[q]
        /\ log'[r]["sales"] # "none" => Windowed(run[r], log[r])
        /\ \A s \in {"dim_sku", "sales", "movements", "stock", "transfers"} :
              log'[r][s] = "SUCCESS" => log[r][s] = "SUCCESS"
    BY <1>1, <1>4, <2>1, FailedKeeps
  <2>3. CASE run[r].reload
    <3>1. ~Doing(run[r], "sales", "entering")
      BY <2>1 DEF Doing
    <3>2. End(r, "failed")
      BY <1>9, <2>3 DEF CatchStep
    <3>3. QED
      BY <1>ends, <2>2, <3>1, <3>2 DEF Windowed
  <2>4. CASE ~run[r].reload
    <3>1. Goto(r, "thrown")
      BY <1>9, <2>4 DEF CatchStep
    <3>2. QED
      BY <1>1, <1>3, <2>2, <2>4, <3>1, PhaseLoads
  <2>5. QED
    BY <2>3, <2>4
<1>10. CASE CatchMaster(r)
  <2>1. Failed(r, "sp_refresh_all") /\ run[r].phase = "thrown" /\ End(r, "failed")
    BY <1>10 DEF CatchMaster
  <2>2. /\ \A q \in Runs : q # r => log'[q] = log[q]
        /\ log'[r]["sales"] # "none" => Windowed(run[r], log[r])
        /\ \A s \in {"dim_sku", "sales", "movements", "stock", "transfers"} :
              log'[r][s] = "SUCCESS" => log[r][s] = "SUCCESS"
    BY <1>1, <2>1, FailedKeeps
  <2>3. ~Doing(run[r], "sales", "entering")
    BY <2>1 DEF Doing
  <2>4. QED
    BY <1>ends, <2>1, <2>2, <2>3 DEF Windowed
<1>11. QED
  BY <1>5, <1>6, <1>7, <1>8, <1>9, <1>10

\* The end of a procedure is logged, and the next one is called with nothing written.
LEMMA AdvanceLoads ==
    ASSUME LoadedInv, TypeInv', NEW r \in Runs, Advance(r)
    PROVE  Issued' /\ OwnBuckets' /\ Phases' /\ QuietInv'
<1> DEFINE next == run[r].step + 1
           last == next > Len(Plan(r))
<1>1. /\ Running(r) /\ run[r].phase = "logging" /\ UNCHANGED <<source, warehouse, quiet>>
      /\ log' = [log EXCEPT ![r] = Logged(@, {Step(r)}, "SUCCESS")]
      /\ last => End(r, "done")
      /\ ~last => run' = [run EXCEPT ![r].step = next, ![r].phase = FirstPhase(Plan(r)[next])]
  BY DEF Advance
<1>2. /\ run \in [Runs -> RunRecord] /\ log \in [Runs -> LogRows] /\ TypeInv
      /\ run[r].state = "running" /\ Step(r) = Where(run[r])
  BY <1>1, StepIs DEF LoadedInv, LogInv, TypeInv, TypeOK, Running
<1>3. PICK x \in RunRecord, l \in LogRows : x = run[r] /\ l = log[r]
  BY <1>2
<1>4. Table(x, l) /\ Where(x) # "window" /\ x.phase = "logging"
  BY <1>1, <1>2, <1>3, TableHolds DEF LoadedInv, Phases
<1>6. /\ log'[r] = Logged(l, {Where(x)}, "SUCCESS")
      /\ \A q \in Runs : q # r => log'[q] = log[q]
  BY <1>1, <1>2, <1>3
<1>7. \A s \in Procedures : log'[r][s] = IF s = Where(x) THEN "SUCCESS" ELSE l[s]
  BY <1>6, LoggedSpec
<1>8. ~last => ~x.reload /\ x.step \in 1..9
  <2>1. x.reload => Plan(r) = <<"movements">> /\ x.step = 1
    BY <1>2, <1>3, Places DEF TypeInv, OneStep
  <2>2. x.reload => Len(Plan(r)) = 1 /\ next = 2
    BY <1>3, <2>1
  <2>3. x.reload => last
    BY <2>2
  <2>4. ~x.reload => Plan(r) = Order /\ x.step \in 1..10
    BY <1>2, <1>3, Places
  <2>5. ~x.reload => Len(Plan(r)) = 10
    BY <2>4, OrderIs
  <2>6. next = x.step + 1
    BY <1>3
  <2> HIDE DEF next
  <2>7. ~x.reload /\ ~last => x.step \in 1..9
    <3>1. SUFFICES ASSUME ~x.reload, ~last PROVE x.step \in 1..9
      OBVIOUS
    <3>2. PICK n \in 1..10 : n = x.step
      BY <2>4, <3>1
    <3>3. ~(n + 1 > 10)
      BY <2>5, <2>6, <3>1, <3>2
    <3>4. QED
      BY <3>2, <3>3
  <2>8. QED
    BY <2>3, <2>7
<1>9. log'[r]["sales"] # "none" => l["sales"] # "none"
  BY <1>4, <1>7 DEF Table, Procedures
<1>10. \A s \in {"dim_sku", "sales", "movements", "stock", "transfers"} :
          log'[r][s] = "SUCCESS" => l[s] = "SUCCESS" \/ s = Where(x)
  BY <1>7 DEF Procedures
<1>11. CASE last
  BY <1>1, <1>2, <1>3, <1>6, <1>9, <1>10, <1>11, EndLoads
<1>12. CASE ~last
  <2>1. OwnBuckets'
    BY <1>1 DEF LoadedInv, OwnBuckets, Ids, source, warehouse, facts
  <2>2. PICK y \in RunRecord, m \in LogRows : y = run'[r] /\ m = log'[r]
    BY DEF TypeInv, TypeOK
  <2>3. Plan(r) = Order /\ ~x.reload /\ x.step \in 1..9
    BY <1>2, <1>3, <1>8, <1>12, Places
  <2>4. /\ y.from = x.from /\ y.to = x.to /\ y.state = "running" /\ ~y.reload
        /\ y.step = x.step + 1 /\ y.phase = FirstPhase(Order[x.step + 1])
        /\ \A q \in Runs : q # r => run'[q] = run[q]
    BY <1>1, <1>2, <1>3, <1>12, <2>2, <2>3 DEF RunRecord
  <2>5. Where(y) = Order[x.step + 1]
    BY <2>4 DEF Where
  <2>6. PhasesKept(r)
    BY <1>6, <2>2, <2>4, <2>5 DEF PhasesKept, FirstPhase, Procedures
  <2>7. ASSUME quiet[r] PROVE Kept(r)
    <3>1. Undisturbed(x, l)
      BY <1>1, <1>3, <2>7, QuietRuns
    <3>2. /\ \A s \in {"dim_sku", "sales", "movements", "stock", "transfers"} :
               ~Doing(y, s, "logging") /\ ~Doing(y, s, "second")
          /\ ~Doing(y, "sales", "entering")
      <4>1. y.phase # "second" /\ (y.phase = "logging" => Where(y) = "prepare")
        BY <2>4, <2>5 DEF FirstPhase
      <4>2. Where(y) # "sales"
        <5>1. x.step # 5
          BY <1>4, <2>3, OrderIs DEF Where
        <5>2. \A n \in 1..9 : n # 5 => Order[n + 1] # "sales"
          BY OrderIs
        <5>3. QED
          BY <2>3, <2>5, <5>1, <5>2
      <4>3. QED
        BY <4>1, <4>2 DEF Doing
    <3>3. Follows(x, l, y, m)
      BY <1>1, <1>2, <1>3, <1>9, <1>10, <2>2, <2>4, <3>2 DEF Follows, Written, Windowed, Doing
    <3>4. Undisturbed(y, m)'
      BY <1>1, <3>1, <3>3, UndisturbedStays
    <3>5. QED
      BY <2>2, <3>4 DEF Kept
  <2>8. QED
    BY <1>1, <2>1, <2>6, <2>7, QuietStep
<1>13. QED
  BY <1>11, <1>12

\* A run starts, with no row of its own yet: only then may it be undisturbed.
LEMMA StartLoads ==
    ASSUME LoadedInv, TypeInv', NEW r \in Runs, NEW reload \in BOOLEAN, Start(r, reload)
    PROVE  Issued' /\ OwnBuckets' /\ Phases' /\ QuietInv'
<1>1. /\ run[r].state = "idle" /\ UNCHANGED <<source, warehouse>>
      /\ run' = [run EXCEPT ![r] = [@ EXCEPT !.state = "running", !.reload = reload,
                     !.phase = IF reload THEN "first" ELSE FirstPhase(Order[1])]]
      /\ log' = [log EXCEPT ![r] = Logged(@, {IF reload THEN "movements" ELSE "sp_refresh_all"}, "RUNNING")]
      /\ quiet' = [q \in Runs |-> q = r /\ \A o \in Runs : ~Running(o)]
  BY DEF Start
<1>2. /\ run \in [Runs -> RunRecord] /\ log \in [Runs -> LogRows] /\ TypeInv
      /\ log[r] = NoLog /\ run[r].step = 1
  BY <1>1 DEF LoadedInv, LogInv, LogFits, TypeInv, TypeOK, OneStep
<1>3. Issued' /\ OwnBuckets'
  BY <1>1 DEF LoadedInv, Issued, OwnBuckets, Ids, source, warehouse, facts
<1>4. PICK y \in RunRecord, m \in LogRows : y = run'[r] /\ m = log'[r]
  BY DEF TypeInv, TypeOK
<1>5. /\ y.state = "running" /\ y.reload = reload /\ y.step = 1 /\ (reload => y.phase = "first")
      /\ \A q \in Runs : q # r => run'[q] = run[q] /\ log'[q] = log[q]
  BY <1>1, <1>2, <1>4 DEF RunRecord
<1>6. Where(y) = IF reload THEN "movements" ELSE "prepare"
  BY <1>5, OrderIs DEF Where
<1>7. \A s \in Procedures : m[s] = IF reload /\ s = "movements" THEN "RUNNING" ELSE "none"
  <2>1. m = Logged(log[r], {IF reload THEN "movements" ELSE "sp_refresh_all"}, "RUNNING")
    BY <1>1, <1>2, <1>4
  <2>2. PICK l \in LogRows : l = log[r]
    BY <1>2
  <2>3. \A s \in Procedures : l[s] = "none" /\ s # "sp_refresh_all"
    BY <1>2, <2>2 DEF NoLog, Procedures
  <2>4. QED
    BY <2>1, <2>2, <2>3, LoggedSpec
<1>8. Phases'
  <2>1. /\ Where(y) # "window"
        /\ y.reload => m["movements"] = "RUNNING"
    BY <1>5, <1>6, <1>7 DEF Procedures
  <2>2. QED
    BY <1>4, <1>5, <2>1 DEF LoadedInv, Phases, Where
<1>9. QuietInv'
  <2>1. SUFFICES ASSUME NEW q \in Runs, quiet'[q]
                 PROVE  /\ \A o \in Runs : o # q => ~Running(o)'
                        /\ \E x \in RunRecord, l \in LogRows :
                               x = run'[q] /\ l = log'[q] /\ Undisturbed(x, l)'
    BY DEF QuietInv
  <2>2. q = r /\ \A o \in Runs : ~Running(o)
    BY <1>1, <2>1
  <2>3. \A o \in Runs : o # q => ~Running(o)'
    BY <1>5, <2>2 DEF Running
  <2>4. \A s \in {"dim_sku", "sales", "movements", "stock", "transfers"} : ~Written(y, m, s)
    BY <1>5, <1>6, <1>7 DEF Written, Doing, Procedures
  <2>5. ~Windowed(y, m) /\ \A s \in {"sales", "stock"} : ~Doing(y, s, "second")
    BY <1>5, <1>6, <1>7 DEF Windowed, Doing, Procedures
  <2>6. Undisturbed(y, m)'
    BY <2>4, <2>5 DEF Undisturbed, SalesFit, StockFit, Written, Windowed, Doing, Where
  <2>7. QED
    BY <1>4, <2>2, <2>3, <2>6
<1>10. QED
  BY <1>3, <1>8, <1>9

\* The ERP moves on: no run is undisturbed any more.
LEMMA SourceLoads ==
    ASSUME LoadedInv, TypeInv', Source
    PROVE  Issued' /\ OwnBuckets' /\ Phases' /\ QuietInv'
<1>1. /\ quiet' = [r \in Runs |-> FALSE] /\ UNCHANGED <<warehouse, run, log>>
  BY DEF Source, Issue, Void, Repeat, DeleteProduct, MapBrand, NextWeek, Edit
<1>2. /\ docs \in Seq(Document) /\ Len(docs) \in Nat /\ today \in Nat /\ LastWeek \in Nat
      /\ \A d \in Ids : docs[d].week <= today /\ docs[d].week \in Nat
  BY DocType, RefreshAssumption DEF LoadedInv, LogInv, TypeInv, TypeOK, Issued, Ids, Weeks
<1> DEFINE Grown == /\ \A d \in Ids : /\ d \in Ids' /\ docs'[d].week = docs[d].week
                                      /\ docs'[d].sku = docs[d].sku
                    /\ \A d \in Ids' : docs'[d].week <= today'
<1>3. Grown
  <2>1. ASSUME NEW doc \in Issuable, Issue(doc)
        PROVE  Grown
    <3>1. docs' = Append(docs, doc) /\ doc \in Document /\ doc.week <= today /\ today' = today
      BY <2>1, RefreshAssumption DEF Issue
    <3>2. /\ Len(docs') = Len(docs) + 1
          /\ \A d \in 1..Len(docs) : docs'[d] = docs[d]
          /\ docs'[Len(docs) + 1] = doc
      BY <1>2, <3>1
    <3>3. QED
      BY <1>2, <3>1, <3>2 DEF Ids
  <2>2. ASSUME NEW d \in Ids, Void(d)
        PROVE  Grown
    <3>1. docs[d] \in Document /\ docs' = [docs EXCEPT ![d].valid = FALSE] /\ today' = today
      BY <1>2, <2>2 DEF Void, Ids
    <3>2. /\ Len(docs') = Len(docs)
          /\ \A e \in 1..Len(docs) : docs'[e].week = docs[e].week /\ docs'[e].sku = docs[e].sku
      BY <1>2, <3>1 DEF Ids, Document
    <3>3. QED
      BY <1>2, <3>1, <3>2 DEF Ids
  <2>6. ASSUME NEW d \in Ids, Repeat(d)
        PROVE  Grown
    <3>1. docs[d] \in Document /\ docs' = [docs EXCEPT ![d].copies = @ + 1] /\ today' = today
      BY <1>2, <2>6 DEF Repeat, Ids
    <3>2. /\ Len(docs') = Len(docs)
          /\ \A e \in 1..Len(docs) : docs'[e].week = docs[e].week /\ docs'[e].sku = docs[e].sku
      BY <1>2, <3>1 DEF Ids, Document
    <3>3. QED
      BY <1>2, <3>1, <3>2 DEF Ids
  <2>3. ASSUME UNCHANGED docs, today' \in {today, today + 1}
        PROVE  Grown
    BY <1>2, <2>3 DEF Ids
  <2>4. \/ \E doc \in Issuable : Issue(doc)
        \/ \E d \in Ids : Void(d) \/ Repeat(d)
        \/ UNCHANGED docs /\ today' \in {today, today + 1}
    BY DEF Source, DeleteProduct, MapBrand, NextWeek
  <2>5. QED
    BY <2>1, <2>2, <2>3, <2>4, <2>6
<1>4. Issued'
  BY <1>3 DEF Issued
<1>5. OwnBuckets'
  BY <1>1, <1>3 DEF LoadedInv, OwnBuckets, warehouse, facts
<1>6. Phases' /\ QuietInv'
  BY <1>1 DEF LoadedInv, Phases, QuietInv, Where
<1>7. QED
  BY <1>4, <1>5, <1>6

-----------------------------------------------------------------------------
LEMMA LoadedInit == Init => LoadedInv
<1> SUFFICES ASSUME Init PROVE LoadedInv
  OBVIOUS
<1>1. /\ docs = <<>> /\ sales = {} /\ quiet = [r \in Runs |-> FALSE]
      /\ run = [r \in Runs |-> NotStarted]
  BY DEF Init
<1>2. Issued /\ OwnBuckets
  BY <1>1 DEF Issued, OwnBuckets, Ids
<1>3. Phases /\ QuietInv
  BY <1>1 DEF Phases, QuietInv, NotStarted
<1>4. QED
  BY <1>2, <1>3, LoadInit, LogInit DEF LoadedInv

LEMMA LoadedStep ==
    ASSUME ReloadsOverlap = FALSE, LoadedInv, [Next]_vars
    PROVE  LoadedInv'
<1>1. LoadInv' /\ LogInv' /\ TypeInv'
  BY LoadStep, LogStep DEF LoadedInv, LogInv
<1>2. CASE UNCHANGED vars
  <2>1. UNCHANGED <<source, warehouse, run, log, quiet>>
    BY <1>2 DEF vars
  <2>2. Issued' /\ OwnBuckets' /\ Phases'
    BY <2>1 DEF LoadedInv, Issued, OwnBuckets, Phases, Where, Ids, source, warehouse, facts
  <2>3. QuietInv'
    <3>1. SUFFICES ASSUME NEW r \in Runs, quiet[r]
                   PROVE  /\ \A q \in Runs : q # r => ~Running(q)'
                          /\ \E x \in RunRecord, l \in LogRows :
                                 x = run'[r] /\ l = log'[r] /\ Undisturbed(x, l)'
      BY <2>1 DEF QuietInv
    <3>2. PICK x \in RunRecord, l \in LogRows : x = run[r] /\ l = log[r] /\ Undisturbed(x, l)
      BY <3>1 DEF LoadedInv, QuietInv
    <3>3. Follows(x, l, x, l)
      BY DEF Follows
    <3>4. Undisturbed(x, l)'
      BY <2>1, <3>2, <3>3, UndisturbedStays
    <3>5. QED
      BY <2>1, <3>1, <3>2, <3>4 DEF LoadedInv, QuietInv, Running
  <2>4. QED
    BY <1>1, <2>2, <2>3 DEF LoadedInv
<1>3. ASSUME NEW r \in Runs, Refresh(r) PROVE LoadedInv'
  <2>1. Issued' /\ OwnBuckets' /\ Phases' /\ QuietInv'
    BY <1>1, <1>3, StartLoads, MergeSkuLoads, ComputeWindowLoads, DeleteWindowLoads,
       InsertSalesLoads, InsertStockLoads, MarkLoads, InsertMovementsLoads,
       InsertTransfersLoads, AdvanceLoads, OutcomeLoads DEF Refresh
  <2>2. QED
    BY <1>1, <2>1 DEF LoadedInv
<1>4. CASE Source
  BY <1>1, <1>4, SourceLoads DEF LoadedInv
<1>5. QED
  BY <1>2, <1>3, <1>4 DEF Next

\* What a row SUCCESS of the batch log says of its fact is true, of a run that no
\* other run and no edit overlapped: the window covers every document, its weeks
\* are rebuilt from them, whatever runs that failed or died left there, and the
\* incremental facts have every document.  Full reloads run alone.
THEOREM LogKeepsItsWord ==
    ASSUME ReloadsOverlap = FALSE
    PROVE  Spec => []LoggedStepsAreLoaded
<1>1. LoadedInv /\ [Next]_vars => LoadedInv'
  BY LoadedStep
<1>2. LoadedInv => LoggedStepsAreLoaded
  BY LoadedSuffices
<1>3. QED
  BY <1>1, <1>2, LoadedInit, PTL DEF Spec
=============================================================================
