-------------------------- MODULE BriefingsProofs --------------------------
(***************************************************************************)
(* Proofs about Briefings, for any tenants, products, documents, limits    *)
(* and weeks: types and keys, no report of a period without sales,         *)
(* "nothing" only when there was nothing, panels and periods compared that *)
(* add up, and that every figure and alert of an answer was true.          *)
(***************************************************************************)
EXTENDS Briefings, SequenceTheorems, FiniteSetTheorems, WellFoundedInduction, TLAPS

-----------------------------------------------------------------------------
(* What the constants are.                                                 *)

\* A week is no month, and NULL neither.
LEMMA Basics ==
    /\ Today \in Nat /\ MonthOf \in [1..Today -> Nat]
    /\ Weeks \cap Calendar = {}
    /\ None \notin Weeks \cup Calendar \cup Brands \cup Stores
    /\ Tools \subseteq ToolNames
    /\ Issuable \subseteq Document
    /\ Initially \subseteq SUBSET Issuable
    /\ \A d, e \in Issuable : d.id = e.id => d = e
    /\ Callers \subseteq Tenants /\ AskedWeeks \subseteq Weeks
    /\ {MaxCommits, MaxFaults} \subseteq Nat
<1>1. /\ Today \in Nat /\ Today < 100000
      /\ MonthOf \in [1..Today -> Nat]
      /\ \A w \in 1..Today : MonthOf[w] > 100100
  BY CalendarAssumption
<1>2. Weeks = 1..Today
  BY <1>1 DEF Weeks
<1>3. \A w \in Weeks : MonthOf[w] \in Nat /\ MonthOf[w] > 100100
  BY <1>1, <1>2
<1>4. \A m \in Calendar : m \in Nat /\ m > 100100
  BY <1>3 DEF Calendar
<1>a. \A w \in Weeks : w \in Nat /\ w < 100000
  BY <1>1, <1>2
<1>5. Weeks \cap Calendar = {} /\ Weeks \subseteq Nat /\ Calendar \subseteq Nat
  BY <1>4, <1>a
<1>b. None \notin Nat
  BY CalendarAssumption
<1>6. Brands \subseteq Nat /\ Stores \subseteq Nat
  BY BriefingsAssumption
<1>7. None \notin Weeks \cup Calendar \cup Brands \cup Stores
  BY <1>5, <1>6, <1>b
<1>8. /\ Tools \subseteq ToolNames
      /\ Issuable \subseteq Document
      /\ Initially \subseteq SUBSET Issuable
      /\ \A d, e \in Issuable : d.id = e.id => d = e
      /\ Callers \subseteq Tenants /\ AskedWeeks \subseteq Weeks
      /\ {MaxCommits, MaxFaults} \subseteq Nat
  BY BriefingsAssumption
<1>9. QED
  BY <1>1, <1>5, <1>7, <1>8

-----------------------------------------------------------------------------
(* What every program has in common.                                       *)

\* The names of the queries.
PartNames ==
    {"latest_week", "weekly_totals", "plan_totals", "distinct_tickets", "active_alerts",
     "action_recommendations", "brand_performance", "store_dashboard", "sku_coverage",
     "velocity_segmentation", "latest_month", "month", "previous", "monthly_brands",
     "monthly_stores", "sku_master", "sku_sales", "sku_stock", "buckets"}

\* The stages of a program.
Stages == [parts : Seq(PartNames), gathered : BOOLEAN, needs : PartNames \cup {""}]

\* The queries a program needs rows of.
Needs(P) == {P[i].needs : i \in DOMAIN P}

\* What the stages before stage n read.
Before(P, n) == UNION {Range(P[i].parts) : i \in 1..(n - 1)}

Parts(P)    == UNION {Range(P[i].parts) : i \in DOMAIN P}
\* Those it gathers.
Gathered(P) == UNION {Range(P[i].parts) : i \in {i \in DOMAIN P : P[i].gathered}}

\* Those that find a period.
Latests == {"latest_week", "latest_month"}

\* Only the first stage may look for the latest week or month, alone, and needs it;
\* what a stage needs is read by it, or one by one before it, and never again after
\* it.
Orderly(P) ==
    /\ P \in Seq(Stages)
    /\ \A i \in DOMAIN P : P[i].parts # <<>>
    /\ \A i \in DOMAIN P : ~P[i].gathered => Len(P[i].parts) = 1
    /\ \A i \in DOMAIN P : Range(P[i].parts) \cap Latests # {} =>
          i = 1 /\ Len(P[i].parts) = 1 /\ P[i].needs = P[i].parts[1]
    /\ \A i, j \in DOMAIN P : i < j => P[i].needs \notin Range(P[j].parts)
    /\ \A i \in DOMAIN P : P[i].needs \in Range(P[i].parts) \cup {""}
                                            \cup (Before(P, i) \ Gathered(P))

\* Who is in these sets.
LEMMA Members ==
    ASSUME NEW P, NEW p
    PROVE  /\ p \in Parts(P) <=> \E i \in DOMAIN P : p \in Range(P[i].parts)
           /\ p \in Needs(P) <=> \E i \in DOMAIN P : p = P[i].needs
           /\ p \in Gathered(P) <=> \E i \in DOMAIN P : P[i].gathered /\ p \in Range(P[i].parts)
           /\ \A n : p \in Before(P, n) <=> \E i \in 1..(n - 1) : p \in Range(P[i].parts)
<1>1. p \in Parts(P) <=> \E i \in DOMAIN P : p \in Range(P[i].parts)
  BY DEF Parts
<1>2. p \in Needs(P) <=> \E i \in DOMAIN P : p = P[i].needs
  BY DEF Needs
<1>3. p \in Gathered(P) <=> \E i \in DOMAIN P : P[i].gathered /\ p \in Range(P[i].parts)
  BY DEF Gathered
<1>4. \A n : p \in Before(P, n) <=> \E i \in 1..(n - 1) : p \in Range(P[i].parts)
  BY DEF Before
<1>5. QED
  BY <1>1, <1>2, <1>3, <1>4

\* A program of which these are the needs, the parts and the parts gathered.
Has(P, needs, parts, gathered) ==
    Orderly(P) /\ Needs(P) = needs /\ Parts(P) = parts /\ Gathered(P) = gathered

\* A stage that may come next.
MayFollow(P, a) ==
    /\ a.parts # <<>>
    /\ ~a.gathered => Len(a.parts) = 1
    /\ Range(a.parts) \cap Latests # {} =>
          P = <<>> /\ Len(a.parts) = 1 /\ a.needs = a.parts[1]
    /\ Needs(P) \cap Range(a.parts) = {}
    /\ \/ a.needs \in Range(a.parts) \cup {""}
       \/ a.needs \in Parts(P) \ Gathered(P) /\ ~a.gathered

\* One more stage.
LEMMA Then ==
    ASSUME NEW P, NEW a \in Stages, Orderly(P), MayFollow(P, a)
    PROVE  Has(P \o <<a>>, Needs(P) \cup {a.needs}, Parts(P) \cup Range(a.parts),
               Gathered(P) \cup (IF a.gathered THEN Range(a.parts) ELSE {}))
<1> DEFINE m == Len(P)
           Q == P \o <<a>>
<1>1. P \in Seq(Stages)
  BY Zenon DEF Orderly
<1>a. m \in Nat /\ DOMAIN P = 1..m /\ (P = <<>> => m = 0)
  BY <1>1
<1>b. Q \in Seq(Stages) /\ Len(Q) = m + 1 /\ DOMAIN Q = 1..(m + 1)
  BY <1>1
<1>c. \A i \in 1..m : Q[i] = P[i]
  BY <1>1
<1>d. Q[m + 1] = a
  BY <1>1
<1>2. /\ Q \in Seq(Stages) /\ m \in Nat
      /\ DOMAIN P = 1..m /\ DOMAIN Q = 1..(m + 1)
      /\ \A i \in 1..m : Q[i] = P[i]
      /\ Q[m + 1] = a
      /\ P = <<>> => m = 0
  BY <1>a, <1>b, <1>c, <1>d
<1> HIDE DEF Q, m
<1>3. \A i \in DOMAIN Q : (i \in DOMAIN P /\ Q[i] = P[i]) \/ (i = m + 1 /\ Q[i] = a)
  BY <1>2
<1>4. /\ \A i \in DOMAIN P : i \in DOMAIN Q /\ Q[i] = P[i]
      /\ m + 1 \in DOMAIN Q
  BY <1>2
<1>5. Needs(Q) = Needs(P) \cup {a.needs}
  <2>1. ASSUME NEW p
        PROVE  p \in Needs(Q) <=> p \in Needs(P) \/ p = a.needs
    <3>1. p \in Needs(Q) => p \in Needs(P) \/ p = a.needs
      BY <1>3, Members
    <3>2. p \in Needs(P) \/ p = a.needs => p \in Needs(Q)
      BY <1>2, <1>4, Members
    <3>3. QED
      BY <3>1, <3>2
  <2>2. QED
    BY <2>1
<1>6. Parts(Q) = Parts(P) \cup Range(a.parts)
  <2>1. ASSUME NEW p
        PROVE  p \in Parts(Q) <=> p \in Parts(P) \/ p \in Range(a.parts)
    <3>1. p \in Parts(Q) => p \in Parts(P) \/ p \in Range(a.parts)
      BY <1>3, Members
    <3>2. p \in Parts(P) \/ p \in Range(a.parts) => p \in Parts(Q)
      BY <1>2, <1>4, Members
    <3>3. QED
      BY <3>1, <3>2
  <2>2. QED
    BY <2>1
<1>7. Gathered(Q) = Gathered(P) \cup (IF a.gathered THEN Range(a.parts) ELSE {})
  <2>1. ASSUME NEW p
        PROVE  p \in Gathered(Q) <=> p \in Gathered(P) \/ (a.gathered /\ p \in Range(a.parts))
    <3>1. p \in Gathered(Q) => p \in Gathered(P) \/ (a.gathered /\ p \in Range(a.parts))
      BY <1>3, Members
    <3>2. p \in Gathered(P) \/ (a.gathered /\ p \in Range(a.parts)) => p \in Gathered(Q)
      BY <1>2, <1>4, Members
    <3>3. QED
      BY <3>1, <3>2
  <2>2. QED
    BY <2>1
<1>8. \A i \in DOMAIN Q : Q[i].parts # <<>> /\ (~Q[i].gathered => Len(Q[i].parts) = 1)
  BY <1>3 DEF Orderly, MayFollow
<1>9. ASSUME NEW i \in DOMAIN Q, Range(Q[i].parts) \cap Latests # {}
      PROVE  i = 1 /\ Len(Q[i].parts) = 1 /\ Q[i].needs = Q[i].parts[1]
  <2>1. CASE i \in DOMAIN P /\ Q[i] = P[i]
    BY <1>9, <2>1 DEF Orderly
  <2>2. CASE i = m + 1 /\ Q[i] = a
    <3>1. P = <<>> /\ Len(a.parts) = 1 /\ a.needs = a.parts[1]
      BY <1>9, <2>2 DEF MayFollow
    <3>2. m = 0
      BY <1>2, <3>1
    <3>3. QED
      BY <2>2, <3>1, <3>2
  <2>3. QED
    BY <1>3, <2>1, <2>2
<1>10. ASSUME NEW i \in DOMAIN Q, NEW j \in DOMAIN Q, i < j
       PROVE  Q[i].needs \notin Range(Q[j].parts)
  <2>1. i \in DOMAIN P /\ Q[i] = P[i]
    BY <1>2, <1>10
  <2>2. CASE j \in DOMAIN P /\ Q[j] = P[j]
    BY <1>10, <2>1, <2>2 DEF Orderly
  <2>3. CASE Q[j] = a
    BY <2>1, <2>3, Members DEF MayFollow
  <2>4. QED
    BY <1>3, <2>2, <2>3
<1>11. \A i \in DOMAIN Q : \A p : p \in Before(P, i) => p \in Before(Q, i)
  <2>1. ASSUME NEW i \in DOMAIN Q, NEW p, p \in Before(P, i)
        PROVE  p \in Before(Q, i)
    <3>1. PICK k \in 1..(i - 1) : p \in Range(P[k].parts)
      BY <2>1, Members
    <3>2. Q[k] = P[k]
      BY <1>2, <3>1
    <3>3. QED
      BY <3>1, <3>2, Members
  <2>2. QED
    BY <2>1
<1>12. Parts(P) = Before(P, m + 1)
  <2>1. PICK n : n = m + 1
    OBVIOUS
  <2>2. 1..(n - 1) = DOMAIN P
    BY <1>2, <2>1
  <2>3. \A p : p \in Parts(P) <=> p \in Before(P, n)
    BY <2>2, Members
  <2>4. QED
    BY <2>1, <2>3
<1>13. Gathered(P) \subseteq Parts(P)
  <2>1. \A p : p \in Gathered(P) => p \in Parts(P)
    BY Members
  <2>2. QED
    BY <2>1
<1>14. ASSUME NEW i \in DOMAIN Q
       PROVE  Q[i].needs \in Range(Q[i].parts) \cup {""} \cup (Before(Q, i) \ Gathered(Q))
  <2>1. CASE i \in DOMAIN P /\ Q[i] = P[i]
    <3>1. P[i].needs \in Range(P[i].parts) \cup {""} \cup (Before(P, i) \ Gathered(P))
      BY <2>1 DEF Orderly
    <3>2. P[i].needs \in Needs(P)
      BY <2>1, Members
    <3>3. QED
      BY <1>7, <1>11, <2>1, <3>1, <3>2 DEF MayFollow
  <2>2. CASE i = m + 1 /\ Q[i] = a
    BY <1>4, <1>7, <1>11, <1>12, <2>2 DEF MayFollow
  <2>3. QED
    BY <1>3, <2>1, <2>2
<1>15. Orderly(Q)
  BY <1>2, <1>8, <1>9, <1>10, <1>14 DEF Orderly
<1>16. QED
  BY <1>5, <1>6, <1>7, <1>15 DEF Has, Q

\* The empty program.
LEMMA Empty == Has(<<>>, {}, {}, {})
<1>1. Needs(<<>>) = {} /\ Parts(<<>>) = {} /\ Gathered(<<>>) = {}
  BY DEF Needs, Parts, Gathered
<1>2. Orderly(<<>>)
  BY DEF Orderly
<1>3. QED
  BY <1>1, <1>2 DEF Has

\* A sequence of one.
LEMMA Single ==
    ASSUME NEW S, NEW x \in S
    PROVE  <<x>> \in Seq(S) /\ Len(<<x>>) = 1 /\ <<x>> # <<>> /\ Range(<<x>>) = {x}
  BY DEF Range

\* The stage of one query.
LEMMA AwaitIs ==
    ASSUME NEW part \in PartNames, NEW needs \in PartNames \cup {""}
    PROVE  /\ Await(part, needs) \in Stages
           /\ Await(part, needs).parts = <<part>> /\ Len(Await(part, needs).parts) = 1
           /\ Await(part, needs).parts # <<>> /\ Range(Await(part, needs).parts) = {part}
           /\ Await(part, needs).needs = needs /\ Await(part, needs).gathered = FALSE
<1>1. Await(part, needs).parts = <<part>> /\ Await(part, needs).needs = needs
      /\ Await(part, needs).gathered = FALSE
  BY DEF Await
<1>2. <<part>> \in Seq(PartNames) /\ Len(<<part>>) = 1 /\ <<part>> # <<>>
  BY Single
<1>3. Range(<<part>>) = {part}
  BY Single
<1>4. Await(part, needs) \in Stages
  BY <1>2 DEF Await, Stages
<1>5. QED
  BY <1>1, <1>2, <1>3, <1>4

\* A query awaited after a program.
LEMMA ThenAwait ==
    ASSUME NEW P, NEW N, NEW S, NEW G, Has(P, N, S, G), NEW part \in PartNames, NEW needs \in PartNames \cup {""},
           part \in Latests => P = <<>> /\ needs = part, part \notin N,
           needs = part \/ needs = "" \/ needs \in S \ G
    PROVE  Has(P \o <<Await(part, needs)>>, N \cup {needs}, S \cup {part}, G)
<1> DEFINE a == Await(part, needs)
<1>1. /\ a \in Stages /\ a.needs = needs /\ a.gathered = FALSE
      /\ Len(a.parts) = 1 /\ a.parts # <<>>
  BY AwaitIs
<1>a. a.parts[1] = part
  BY DEF Await
<1>2. Range(a.parts) = {part}
  BY AwaitIs
<1> HIDE DEF a
<1>3. /\ Orderly(P) /\ Needs(P) = N /\ Parts(P) = S /\ Gathered(P) = G
  BY DEF Has
<1>4. Has(P \o <<a>>, Needs(P) \cup {a.needs}, Parts(P) \cup Range(a.parts),
          Gathered(P) \cup (IF a.gathered THEN Range(a.parts) ELSE {}))
  BY <1>1, <1>a, <1>2, <1>3, Then DEF MayFollow
<1>5. Gathered(P) \cup (IF a.gathered THEN Range(a.parts) ELSE {}) = G
  BY <1>1, <1>3
<1>6. QED
  BY <1>1, <1>2, <1>3, <1>4, <1>5 DEF a

\* Queries gathered after a program.
LEMMA ThenGather ==
    ASSUME NEW P, NEW N, NEW S, NEW G, Has(P, N, S, G),
           NEW parts \in Seq(PartNames), parts # <<>>, NEW R, Range(parts) = R,
           NEW needs \in PartNames \cup {""},
           R \cap Latests = {}, N \cap R = {}, needs \in R \cup {""}
    PROVE  Has(P \o <<Gather(parts, needs)>>, N \cup {needs}, S \cup R, G \cup R)
<1> DEFINE a == Gather(parts, needs)
<1>1. a \in Stages /\ a.parts = parts /\ a.needs = needs /\ a.gathered = TRUE
  BY DEF Gather, Stages
<1> HIDE DEF a
<1>2. /\ Orderly(P) /\ Needs(P) = N /\ Parts(P) = S /\ Gathered(P) = G
  BY DEF Has
<1>3. Has(P \o <<a>>, Needs(P) \cup {a.needs}, Parts(P) \cup Range(a.parts),
          Gathered(P) \cup (IF a.gathered THEN Range(a.parts) ELSE {}))
  BY <1>1, <1>2, Then DEF MayFollow
<1>4. Gathered(P) \cup (IF a.gathered THEN Range(a.parts) ELSE {}) = G \cup R
  BY <1>1, <1>2
<1>5. QED
  BY <1>1, <1>2, <1>3, <1>4 DEF a

\* A tuple of stages is one stage after another.
LEMMA Pairwise ==
    ASSUME NEW P \in Seq(Stages), NEW a \in Stages, NEW b \in Stages
    PROVE  P \o <<a, b>> = (P \o <<a>>) \o <<b>>
<1>1. P \o <<a, b>> \in Seq(Stages) /\ (P \o <<a>>) \o <<b>> \in Seq(Stages)
  OBVIOUS
<1>2. Len(P \o <<a, b>>) = Len(P) + 2 /\ Len((P \o <<a>>) \o <<b>>) = Len(P) + 2
  OBVIOUS
<1>3. ASSUME NEW i \in 1..Len(P) + 2
      PROVE  (P \o <<a, b>>)[i] = ((P \o <<a>>) \o <<b>>)[i]
  OBVIOUS
<1>4. QED
  BY <1>1, <1>2, <1>3, SeqEqual

\* Four stages, one after the other.
InTurn(P, a, b, c, d) ==
    P \o <<a, b, c, d>> = (((P \o <<a>>) \o <<b>>) \o <<c>>) \o <<d>>

\* Four stages at once are four stages in turn.
LEMMA OneByOne ==
    ASSUME NEW P \in Seq(Stages), NEW a \in Stages, NEW b \in Stages, NEW c \in Stages,
           NEW d \in Stages
    PROVE  InTurn(P, a, b, c, d)
<1>1. P \o <<a, b, c, d>> = (P \o <<a, b>>) \o <<c, d>>
  <2>1. P \o <<a, b, c, d>> \in Seq(Stages) /\ (P \o <<a, b>>) \o <<c, d>> \in Seq(Stages)
    OBVIOUS
  <2>2. /\ Len(P \o <<a, b, c, d>>) = Len(P) + 4
        /\ Len((P \o <<a, b>>) \o <<c, d>>) = Len(P) + 4
    OBVIOUS
  <2>3. ASSUME NEW i \in 1..Len(P) + 4
        PROVE  (P \o <<a, b, c, d>>)[i] = ((P \o <<a, b>>) \o <<c, d>>)[i]
    OBVIOUS
  <2>4. QED
    BY <2>1, <2>2, <2>3, SeqEqual
<1>2. P \o <<a, b>> \in Seq(Stages)
  OBVIOUS
<1>3. (P \o <<a, b>>) \o <<c, d>> = ((P \o <<a, b>>) \o <<c>>) \o <<d>>
  BY <1>2, Pairwise
<1>4. P \o <<a, b>> = (P \o <<a>>) \o <<b>>
  BY Pairwise
<1>5. QED
  BY <1>1, <1>3, <1>4 DEF InTurn

-----------------------------------------------------------------------------
(* The programs of the tools.                                              *)

\* What the look-up of the latest week or month adds.
Looked(r, part) == IF r.period = None THEN {part} ELSE {}

\* Nothing is asked before the latest week or month.
LEMMA ResolveHas ==
    ASSUME NEW r, NEW part \in Latests
    PROVE  Has(Resolve(r, part), Looked(r, part), Looked(r, part), {})
<1>1. CASE r.period = None
  <2>a. part \in PartNames
    BY DEF Latests, PartNames
  <2>1. Has(<<>> \o <<Await(part, part)>>, {} \cup {part}, {} \cup {part}, {})
    BY <2>a, Empty, ThenAwait
  <2>2. <<>> \o <<Await(part, part)>> = <<Await(part, part)>>
    OBVIOUS
  <2>3. QED
    BY <1>1, <2>1, <2>2 DEF Resolve, Looked
<1>2. CASE r.period # None
  BY <1>2, Empty DEF Resolve, Looked
<1>3. QED
  BY <1>1, <1>2

\* Which of these may be asked for, and which parts there are.
ToolNeeds(r) ==
    CASE r.tool \in {"get_executive_weekly_briefing", "get_executive_summary"} ->
            Looked(r, "latest_week") \cup {"weekly_totals", ""}
      [] r.tool = "get_store_daily_briefing" -> Looked(r, "latest_week") \cup {"store_dashboard"}
      [] r.tool = "get_brand_weekly_review"  -> {"brand_performance"}
      [] r.tool \in {"get_monthly_summary", "get_monthly_executive_briefing"} ->
            Looked(r, "latest_month") \cup {"month", ""}
      [] r.tool = "get_sku_detail" -> {"sku_master", ""}
      [] OTHER -> {""}

\* The programs, one by one.
LEMMA ExecutiveWeeklyHas ==
    ASSUME NEW r
    PROVE  Has(ExecutiveWeekly(r), Looked(r, "latest_week") \cup {"weekly_totals", ""},
               Looked(r, "latest_week") \cup {"weekly_totals", "plan_totals", "distinct_tickets",
                   "active_alerts", "brand_performance", "action_recommendations"},
               {"plan_totals", "distinct_tickets", "active_alerts", "brand_performance",
                "action_recommendations"})
<1> DEFINE L == Looked(r, "latest_week")
           P == Resolve(r, "latest_week")
           names == <<"plan_totals", "distinct_tickets", "active_alerts", "brand_performance",
                      "action_recommendations">>
           R == {"plan_totals", "distinct_tickets", "active_alerts", "brand_performance",
                 "action_recommendations"}
           a == Await("weekly_totals", "weekly_totals")
           b == Gather(names, "")
<1>1. Has(P, L, L, {}) /\ L \subseteq {"latest_week"}
  BY ResolveHas DEF Latests, Looked
<1>2. names \in Seq(PartNames) /\ names # <<>>
  BY DEF PartNames
<1>3. Range(names) = R
  BY DEF Range
<1> HIDE DEF L, P, names
<1>4. Has(P \o <<a>>, L \cup {"weekly_totals"}, L \cup {"weekly_totals"}, {})
  <2>1. "weekly_totals" \in PartNames /\ "weekly_totals" \notin Latests /\ "weekly_totals" \notin L
    BY <1>1 DEF PartNames, Latests
  <2>2. QED
    BY <1>1, <2>1, ThenAwait
<1>5. Has((P \o <<a>>) \o <<b>>, (L \cup {"weekly_totals"}) \cup {""}, (L \cup {"weekly_totals"}) \cup R, {} \cup R)
  <2>1. R \cap Latests = {} /\ (L \cup {"weekly_totals"}) \cap R = {}
    BY <1>1 DEF Latests
  <2>2. QED
    BY <1>2, <1>3, <1>4, <2>1, ThenGather
<1>6. P \in Seq(Stages) /\ a \in Stages /\ b \in Stages
  <2>1. P \in Seq(Stages)
    BY <1>1 DEF Has, Orderly
  <2>2. a \in Stages
    BY AwaitIs DEF PartNames
  <2>3. b \in Stages
    BY <1>2 DEF Gather, Stages
  <2>4. QED
    BY <2>1, <2>2, <2>3
<1>7. P \o <<a, b>> = (P \o <<a>>) \o <<b>>
  BY <1>6, Pairwise
<1>8. QED
  BY <1>5, <1>7 DEF ExecutiveWeekly, P, L, names

\* The summary of a week.
LEMMA ExecutiveSummaryHas ==
    ASSUME NEW r
    PROVE  Has(ExecutiveSummary(r), Looked(r, "latest_week") \cup {"weekly_totals", ""},
               Looked(r, "latest_week") \cup {"weekly_totals", "plan_totals", "distinct_tickets", "active_alerts"}, {})
<1> DEFINE L == Looked(r, "latest_week")
           P == Resolve(r, "latest_week")
           a == Await("weekly_totals", "weekly_totals")
           b == Await("plan_totals", "")
           c == Await("distinct_tickets", "")
           d == Await("active_alerts", "")
<1>1. Has(P, L, L, {}) /\ L \subseteq {"latest_week"}
  BY ResolveHas DEF Latests, Looked
<1> HIDE DEF L, P
<1>2. Has(P \o <<a>>, L \cup {"weekly_totals"}, L \cup {"weekly_totals"}, {})
  <2>1. "weekly_totals" \in PartNames /\ "weekly_totals" \notin Latests /\ "weekly_totals" \notin L
    BY <1>1 DEF PartNames, Latests
  <2>2. QED
    BY <1>1, <2>1, ThenAwait
<1>3. Has((P \o <<a>>) \o <<b>>, (L \cup {"weekly_totals"}) \cup {""}, (L \cup {"weekly_totals"}) \cup {"plan_totals"}, {})
  <2>1. "plan_totals" \in PartNames /\ "plan_totals" \notin Latests /\ "plan_totals" \notin (L \cup {"weekly_totals"})
    BY <1>1 DEF PartNames, Latests
  <2>2. QED
    BY <1>2, <2>1, ThenAwait
<1>4. Has(((P \o <<a>>) \o <<b>>) \o <<c>>, ((L \cup {"weekly_totals"}) \cup {""}) \cup {""}, ((L \cup {"weekly_totals"}) \cup {"plan_totals"}) \cup {"distinct_tickets"}, {})
  <2>1. "distinct_tickets" \in PartNames /\ "distinct_tickets" \notin Latests /\ "distinct_tickets" \notin ((L \cup {"weekly_totals"}) \cup {""})
    BY <1>1 DEF PartNames, Latests
  <2>2. QED
    BY <1>3, <2>1, ThenAwait
<1>5. Has((((P \o <<a>>) \o <<b>>) \o <<c>>) \o <<d>>, (((L \cup {"weekly_totals"}) \cup {""}) \cup {""}) \cup {""}, (((L \cup {"weekly_totals"}) \cup {"plan_totals"}) \cup {"distinct_tickets"}) \cup {"active_alerts"}, {})
  <2>1. "active_alerts" \in PartNames /\ "active_alerts" \notin Latests /\ "active_alerts" \notin (((L \cup {"weekly_totals"}) \cup {""}) \cup {""})
    BY <1>1 DEF PartNames, Latests
  <2>2. QED
    BY <1>4, <2>1, ThenAwait
<1>6. P \in Seq(Stages)
  BY <1>1 DEF Has, Orderly
<1>7. a \in Stages /\ b \in Stages /\ c \in Stages /\ d \in Stages
  BY AwaitIs DEF PartNames
<1> HIDE DEF a, b, c, d
<1>8. InTurn(P, a, b, c, d)
  BY <1>6, <1>7, OneByOne
<1>9. QED
  BY <1>5, <1>8 DEF ExecutiveSummary, P, L, InTurn, a, b, c, d

\* The briefing of a month.
LEMMA MonthlyExecutiveHas ==
    ASSUME NEW r
    PROVE  Has(MonthlyExecutive(r), Looked(r, "latest_month") \cup {"", "month"},
               Looked(r, "latest_month") \cup {"month", "previous", "active_alerts", "monthly_brands"}, {})
<1> DEFINE L == Looked(r, "latest_month")
           P == Resolve(r, "latest_month")
           a == Await("month", "")
           b == Await("previous", "")
           c == Await("active_alerts", "")
           d == Await("monthly_brands", "month")
<1>1. Has(P, L, L, {}) /\ L \subseteq {"latest_month"}
  BY ResolveHas DEF Latests, Looked
<1> HIDE DEF L, P
<1>2. Has(P \o <<a>>, L \cup {""}, L \cup {"month"}, {})
  <2>1. "month" \in PartNames /\ "month" \notin Latests /\ "month" \notin L
    BY <1>1 DEF PartNames, Latests
  <2>2. QED
    BY <1>1, <2>1, ThenAwait
<1>3. Has((P \o <<a>>) \o <<b>>, (L \cup {""}) \cup {""}, (L \cup {"month"}) \cup {"previous"}, {})
  <2>1. "previous" \in PartNames /\ "previous" \notin Latests /\ "previous" \notin (L \cup {""})
    BY <1>1 DEF PartNames, Latests
  <2>2. QED
    BY <1>2, <2>1, ThenAwait
<1>4. Has(((P \o <<a>>) \o <<b>>) \o <<c>>, ((L \cup {""}) \cup {""}) \cup {""}, ((L \cup {"month"}) \cup {"previous"}) \cup {"active_alerts"}, {})
  <2>1. "active_alerts" \in PartNames /\ "active_alerts" \notin Latests /\ "active_alerts" \notin ((L \cup {""}) \cup {""})
    BY <1>1 DEF PartNames, Latests
  <2>2. QED
    BY <1>3, <2>1, ThenAwait
<1>5. Has((((P \o <<a>>) \o <<b>>) \o <<c>>) \o <<d>>, (((L \cup {""}) \cup {""}) \cup {""}) \cup {"month"}, (((L \cup {"month"}) \cup {"previous"}) \cup {"active_alerts"}) \cup {"monthly_brands"}, {})
  <2>1. "month" \in PartNames /\ "monthly_brands" \in PartNames /\ "monthly_brands" \notin Latests /\ "monthly_brands" \notin (((L \cup {""}) \cup {""}) \cup {""}) /\ "month" \in (((L \cup {"month"}) \cup {"previous"}) \cup {"active_alerts"}) \ {}
    BY <1>1 DEF PartNames, Latests
  <2>2. QED
    BY <1>4, <2>1, ThenAwait
<1>6. P \in Seq(Stages)
  BY <1>1 DEF Has, Orderly
<1>7. a \in Stages /\ b \in Stages /\ c \in Stages /\ d \in Stages
  BY AwaitIs DEF PartNames
<1> HIDE DEF a, b, c, d
<1>8. InTurn(P, a, b, c, d)
  BY <1>6, <1>7, OneByOne
<1>9. QED
  BY <1>5, <1>8 DEF MonthlyExecutive, P, L, InTurn, a, b, c, d

\* The answer about a product.
LEMMA SkuDetailHas ==
    ASSUME NEW r
    PROVE  Has(SkuDetail(r), {"sku_master", ""},
               {"sku_master", "sku_sales", "sku_stock", "active_alerts"}, {})
<1> DEFINE L == {}
           P == <<>>
           a == Await("sku_master", "sku_master")
           b == Await("sku_sales", "")
           c == Await("sku_stock", "")
           d == Await("active_alerts", "")
<1>1. Has(P, L, L, {})
  BY Empty
<1> HIDE DEF P
<1>2. Has(P \o <<a>>, L \cup {"sku_master"}, L \cup {"sku_master"}, {})
  <2>1. "sku_master" \in PartNames /\ "sku_master" \notin Latests /\ "sku_master" \notin L
    BY DEF PartNames, Latests
  <2>2. QED
    BY <1>1, <2>1, ThenAwait
<1>3. Has((P \o <<a>>) \o <<b>>, (L \cup {"sku_master"}) \cup {""}, (L \cup {"sku_master"}) \cup {"sku_sales"}, {})
  <2>1. "sku_sales" \in PartNames /\ "sku_sales" \notin Latests /\ "sku_sales" \notin (L \cup {"sku_master"})
    BY DEF PartNames, Latests
  <2>2. QED
    BY <1>2, <2>1, ThenAwait
<1>4. Has(((P \o <<a>>) \o <<b>>) \o <<c>>, ((L \cup {"sku_master"}) \cup {""}) \cup {""}, ((L \cup {"sku_master"}) \cup {"sku_sales"}) \cup {"sku_stock"}, {})
  <2>1. "sku_stock" \in PartNames /\ "sku_stock" \notin Latests /\ "sku_stock" \notin ((L \cup {"sku_master"}) \cup {""})
    BY DEF PartNames, Latests
  <2>2. QED
    BY <1>3, <2>1, ThenAwait
<1>5. Has((((P \o <<a>>) \o <<b>>) \o <<c>>) \o <<d>>, (((L \cup {"sku_master"}) \cup {""}) \cup {""}) \cup {""}, (((L \cup {"sku_master"}) \cup {"sku_sales"}) \cup {"sku_stock"}) \cup {"active_alerts"}, {})
  <2>1. "active_alerts" \in PartNames /\ "active_alerts" \notin Latests /\ "active_alerts" \notin (((L \cup {"sku_master"}) \cup {""}) \cup {""})
    BY DEF PartNames, Latests
  <2>2. QED
    BY <1>4, <2>1, ThenAwait
<1>6. P \in Seq(Stages)
  BY <1>1 DEF Has, Orderly
<1>7. a \in Stages /\ b \in Stages /\ c \in Stages /\ d \in Stages
  BY AwaitIs DEF PartNames
<1> HIDE DEF a, b, c, d
<1>8. InTurn(P, a, b, c, d)
  BY <1>6, <1>7, OneByOne
<1>9. P \o <<a, b, c, d>> = <<a, b, c, d>>
  BY DEF P
<1>10. QED
  BY <1>5, <1>8, <1>9 DEF SkuDetail, L, InTurn, a, b, c, d

\* The daily briefing of a store.
LEMMA StoreDailyHas ==
    ASSUME NEW r
    PROVE  Has(StoreDaily(r), Looked(r, "latest_week") \cup {"store_dashboard"},
               Looked(r, "latest_week") \cup {"store_dashboard", "active_alerts", "sku_coverage"},
               {"store_dashboard", "active_alerts", "sku_coverage"})
<1> DEFINE L == Looked(r, "latest_week")
           P == Resolve(r, "latest_week")
           names == <<"store_dashboard", "active_alerts", "sku_coverage">>
           R == {"store_dashboard", "active_alerts", "sku_coverage"}
<1>1. Has(P, L, L, {}) /\ L \subseteq {"latest_week"}
  BY ResolveHas DEF Latests, Looked
<1>2. names \in Seq(PartNames) /\ names # <<>>
  BY DEF PartNames
<1>3. Range(names) = R
  BY DEF Range
<1> HIDE DEF L, P, names
<1>4. R \cap Latests = {} /\ L \cap R = {} /\ "store_dashboard" \in PartNames
  BY <1>1 DEF Latests, PartNames
<1>5. Has(P \o <<Gather(names, "store_dashboard")>>, L \cup {"store_dashboard"}, L \cup R, {} \cup R)
  BY <1>1, <1>2, <1>3, <1>4, ThenGather
<1>6. QED
  BY <1>5 DEF StoreDaily, P, L, names

\* The weekly review of a brand.
LEMMA BrandWeeklyHas ==
    ASSUME NEW r
    PROVE  Has(BrandWeekly(r), {"brand_performance"},
               {"brand_performance", "active_alerts", "velocity_segmentation"},
               {"brand_performance", "active_alerts", "velocity_segmentation"})
<1> DEFINE P == <<>>
           names == <<"brand_performance", "active_alerts", "velocity_segmentation">>
           R == {"brand_performance", "active_alerts", "velocity_segmentation"}
<1>1. names \in Seq(PartNames) /\ names # <<>>
  BY DEF PartNames
<1>2. Range(names) = R
  BY DEF Range
<1>3. Has(P, {}, {}, {})
  BY Empty
<1>4. P \o <<Gather(names, "brand_performance")>> = <<Gather(names, "brand_performance")>>
  OBVIOUS
<1> HIDE DEF names, P
<1>5. R \cap Latests = {} /\ {} \cap R = {} /\ "brand_performance" \in PartNames
  BY DEF Latests, PartNames
<1>6. Has(P \o <<Gather(names, "brand_performance")>>, {} \cup {"brand_performance"}, {} \cup R, {} \cup R)
  BY <1>1, <1>2, <1>3, <1>5, ThenGather
<1>7. QED
  BY <1>4, <1>6 DEF BrandWeekly, names

\* A ranking that is asked for only when the scope does not name it.
LEMMA ThenMaybe ==
    ASSUME NEW P, NEW N, NEW S, Has(P, N, S, {}), "" \in N, NEW wanted \in BOOLEAN,
           NEW part \in PartNames, part \notin Latests, part \notin N
    PROVE  Has(P \o (IF wanted THEN <<Await(part, "")>> ELSE <<>>), N,
               S \cup (IF wanted THEN {part} ELSE {}), {})
<1>1. CASE wanted
  <2>1. Has(P \o <<Await(part, "")>>, N \cup {""}, S \cup {part}, {})
    BY ThenAwait
  <2>2. N \cup {""} = N
    OBVIOUS
  <2>3. QED
    BY <1>1, <2>1, <2>2
<1>2. CASE ~wanted
  <2>1. P \in Seq(Stages)
    BY DEF Has, Orderly
  <2>2. P \o <<>> = P
    BY <2>1, ConcatEmptySeq
  <2>3. S \cup {} = S
    OBVIOUS
  <2>4. QED
    BY <1>2, <2>2, <2>3
<1>3. QED
  BY <1>1, <1>2

\* The summary of a month, whose rankings depend on the scope.
LEMMA MonthlySummaryHas ==
    ASSUME NEW r
    PROVE  Has(MonthlySummary(r), Looked(r, "latest_month") \cup {"", "month"},
               ((Looked(r, "latest_month") \cup {"month", "previous", "active_alerts"})
                   \cup (IF r.brand = None THEN {"monthly_brands"} ELSE {}))
                   \cup (IF r.store = None THEN {"monthly_stores"} ELSE {}), {})
<1> DEFINE L == Looked(r, "latest_month")
           P == Resolve(r, "latest_month")
           a == Await("month", "")
           b == Await("previous", "month")
           d == Await("active_alerts", "")
           B == r.brand = None
           C == r.store = None
           N == L \cup {"", "month"}
           PB == (P \o <<a, b>>) \o (IF B THEN <<Await("monthly_brands", "")>> ELSE <<>>)
           PC == PB \o (IF C THEN <<Await("monthly_stores", "")>> ELSE <<>>)
           SB == (L \cup {"month", "previous"}) \cup (IF B THEN {"monthly_brands"} ELSE {})
           SC == SB \cup (IF C THEN {"monthly_stores"} ELSE {})
<1>1. Has(P, L, L, {}) /\ L \subseteq {"latest_month"}
  BY ResolveHas DEF Latests, Looked
<1> HIDE DEF L, P
<1>2. Has(P \o <<a>>, L \cup {""}, L \cup {"month"}, {})
  <2>1. "month" \in PartNames /\ "month" \notin Latests /\ "month" \notin L
    BY <1>1 DEF PartNames, Latests
  <2>2. QED
    BY <1>1, <2>1, ThenAwait
<1>3. Has((P \o <<a>>) \o <<b>>, (L \cup {""}) \cup {"month"}, (L \cup {"month"}) \cup {"previous"}, {})
  <2>1. /\ "previous" \in PartNames /\ "previous" \notin Latests /\ "previous" \notin (L \cup {""})
        /\ "month" \in PartNames /\ "month" \in (L \cup {"month"}) \ {}
    BY <1>1 DEF PartNames, Latests
  <2>2. QED
    BY <1>2, <2>1, ThenAwait
<1>4. P \o <<a, b>> = (P \o <<a>>) \o <<b>>
  <2>1. P \in Seq(Stages)
    BY <1>1 DEF Has, Orderly
  <2>2. a \in Stages /\ b \in Stages
    BY AwaitIs DEF PartNames
  <2>3. QED
    BY <2>1, <2>2, Pairwise
<1>5. Has(P \o <<a, b>>, N, L \cup {"month", "previous"}, {})
  <2>1. (L \cup {""}) \cup {"month"} = N /\ (L \cup {"month"}) \cup {"previous"} = L \cup {"month", "previous"}
    OBVIOUS
  <2>2. QED
    BY <1>3, <1>4, <2>1
<1>6. Has(PB, N, SB, {})
  <2>1. /\ "monthly_brands" \in PartNames /\ "monthly_brands" \notin Latests
        /\ "monthly_brands" \notin N /\ "" \in N
    BY <1>1 DEF PartNames, Latests
  <2>2. QED
    BY <1>5, <2>1, ThenMaybe
<1>7. Has(PC, N, SC, {})
  <2>1. /\ "monthly_stores" \in PartNames /\ "monthly_stores" \notin Latests
        /\ "monthly_stores" \notin N /\ "" \in N
    BY <1>1 DEF PartNames, Latests
  <2> HIDE DEF PB, SB, N
  <2>2. QED
    BY <1>6, <2>1, ThenMaybe
<1>8. Has(PC \o <<d>>, N \cup {""}, SC \cup {"active_alerts"}, {})
  <2>1. /\ "active_alerts" \in PartNames /\ "active_alerts" \notin Latests
        /\ "active_alerts" \notin N
    BY <1>1 DEF PartNames, Latests
  <2> HIDE DEF PC, SC, N
  <2>2. QED
    BY <1>7, <2>1, ThenAwait
<1>9. /\ N \cup {""} = N
      /\ SC \cup {"active_alerts"} = ((L \cup {"month", "previous", "active_alerts"})
             \cup (IF B THEN {"monthly_brands"} ELSE {})) \cup (IF C THEN {"monthly_stores"} ELSE {})
  OBVIOUS
<1>10. QED
  BY <1>8, <1>9 DEF MonthlySummary, L, P

\* The tools of one query.
LEMMA OneQueryHas ==
    ASSUME NEW part \in PartNames \ Latests
    PROVE  Has(<<Await(part, "")>>, {""}, {part}, {})
<1>1. Has(<<>> \o <<Await(part, "")>>, {} \cup {""}, {} \cup {part}, {})
  BY Empty, ThenAwait
<1>2. <<>> \o <<Await(part, "")>> = <<Await(part, "")>>
  OBVIOUS
<1>3. QED
  BY <1>1, <1>2

-----------------------------------------------------------------------------
(* The requests.                                                           *)

\* A request and its fields.
Full(i) ==
    i = [tool |-> i.tool, tenant |-> i.tenant, period |-> i.period, to |-> i.to,
         store |-> i.store, brand |-> i.brand, sku |-> i.sku, status |-> i.status,
         severity |-> i.severity, segment |-> i.segment, scope |-> i.scope]

\* What the Input classes let through, as far as the proofs need it.
Fits(tool, i) ==
    /\ i.period \in Optional(Weeks \cup Calendar)
    /\ tool \in {"get_executive_weekly_briefing", "get_executive_summary"} =>
          i.period \in Optional(Weeks) /\ i.brand = None /\ i.store = None
    /\ tool = "get_store_daily_briefing" => i.store \in Stores /\ i.brand = None
    /\ tool = "get_brand_weekly_review" => i.brand \in Brands /\ i.store = None
    /\ tool \in {"get_monthly_summary", "get_monthly_executive_briefing"} =>
          i.period \in Optional(Calendar)
    /\ tool = "get_monthly_executive_briefing" => i.brand = None /\ i.store = None
    /\ tool \in {"get_executive_weekly_briefing", "get_store_daily_briefing", "get_brand_weekly_review",
                "get_executive_summary", "get_monthly_summary", "get_monthly_executive_briefing",
                "get_sku_detail"} => i.severity = None /\ i.segment = None
    /\ tool \in {"get_store_dashboard", "get_brand_performance", "get_store_daily_briefing"} =>
          i.period \in Optional(Weeks)
    /\ tool = "compare_periods" =>
          /\ i.scope \in {"tenant", "brand", "store"}
          /\ \/ i.period \in Weeks /\ i.to \in Weeks
             \/ i.period \in Calendar /\ i.to \in Calendar

\* A week, and nothing else.
LEMMA WeeklyFits ==
    ASSUME NEW i \in Weekly
    PROVE  /\ Full(i) /\ i.period \in Optional(Weeks)
           /\ i.brand = None /\ i.store = None /\ i.severity = None /\ i.segment = None
<1>1. PICK w \in Optional(AskedWeeks) : i = [Blank EXCEPT !.period = w]
  BY DEF Weekly
<1>2. w \in Optional(Weeks)
  BY <1>1, Basics DEF Optional
<1>3. QED
  BY <1>1, <1>2 DEF Blank, Full

\* The Input class of every tool lets through what fits it.
LEMMA InputsFit ==
    ASSUME NEW tool \in ToolNames, NEW i \in Inputs(tool)
    PROVE  Full(i) /\ Fits(tool, i)
<1> DEFINE All == Optional(Weeks \cup Calendar)
<1>0. /\ Optional(Weeks) \subseteq All /\ Optional(Calendar) \subseteq All /\ None \in All
      /\ AskedWeeks \subseteq Weeks
  BY Basics DEF Optional
<1> HIDE DEF All
<1>1. CASE tool \in {"get_executive_weekly_briefing", "get_executive_summary"}
  <2>1. i \in Weekly
    BY <1>1 DEF Inputs
  <2>2. QED
    BY <1>0, <1>1, <2>1, WeeklyFits DEF Fits, All
<1>2. CASE tool \in {"get_store_daily_briefing", "get_store_dashboard"}
  <2>a. tool = "get_store_daily_briefing" => i \in {[x[1] EXCEPT !.store = x[2]] : x \in Weekly \X Stores}
    BY DEF Inputs
  <2>b. tool = "get_store_dashboard" =>
           i \in {[x[1] EXCEPT !.store = x[2]] : x \in Weekly \X Optional(Stores)}
    BY DEF Inputs
  <2>c. PICK x \in Weekly \X Optional(Stores) :
           i = [x[1] EXCEPT !.store = x[2]] /\ (tool = "get_store_daily_briefing" => x[2] \in Stores)
    BY <1>2, <2>a, <2>b DEF Optional
  <2>1. PICK j \in Weekly, s \in Optional(Stores) :
           i = [j EXCEPT !.store = s] /\ (tool = "get_store_daily_briefing" => s \in Stores)
    BY <2>c
  <2>2. /\ Full(j) /\ j.period \in Optional(Weeks) /\ j.brand = None
        /\ j.severity = None /\ j.segment = None
    BY <2>1, WeeklyFits
  <2>3. /\ Full(i) /\ i.period = j.period /\ i.brand = None /\ i.store = s
        /\ i.severity = None /\ i.segment = None
    BY <2>1, <2>2 DEF Full
  <2>4. QED
    BY <1>0, <1>2, <2>1, <2>2, <2>3 DEF Fits, All
<1>3. CASE tool \in {"get_brand_weekly_review", "get_brand_performance"}
  <2>a. tool = "get_brand_weekly_review" => i \in {[x[1] EXCEPT !.brand = x[2]] : x \in Weekly \X Brands}
    BY DEF Inputs
  <2>b. tool = "get_brand_performance" =>
           i \in {[x[1] EXCEPT !.brand = x[2]] : x \in Weekly \X Optional(Brands)}
    BY DEF Inputs
  <2>c. PICK x \in Weekly \X Optional(Brands) :
           i = [x[1] EXCEPT !.brand = x[2]] /\ (tool = "get_brand_weekly_review" => x[2] \in Brands)
    BY <1>3, <2>a, <2>b DEF Optional
  <2>1. PICK j \in Weekly, b \in Optional(Brands) :
           i = [j EXCEPT !.brand = b] /\ (tool = "get_brand_weekly_review" => b \in Brands)
    BY <2>c
  <2>2. /\ Full(j) /\ j.period \in Optional(Weeks) /\ j.store = None
        /\ j.severity = None /\ j.segment = None
    BY <2>1, WeeklyFits
  <2>3. /\ Full(i) /\ i.period = j.period /\ i.store = None /\ i.brand = b
        /\ i.severity = None /\ i.segment = None
    BY <2>1, <2>2 DEF Full
  <2>4. QED
    BY <1>0, <1>3, <2>1, <2>2, <2>3 DEF Fits, All
<1>4. CASE tool = "get_monthly_summary"
  <2>a. i \in Monthly
    BY <1>4 DEF Inputs
  <2>1. PICK m \in Optional(Calendar) :
           i \in {[Blank EXCEPT !.period = m, !.brand = b] : b \in Optional(Brands)}
                 \cup {[Blank EXCEPT !.period = m, !.store = s] : s \in Stores}
    BY <2>a DEF Monthly
  <2>2. Full(i) /\ i.period = m /\ i.severity = None /\ i.segment = None
    BY <2>1 DEF Blank, Full
  <2>3. QED
    BY <1>0, <1>4, <2>1, <2>2 DEF Fits, All
<1>5. CASE tool = "get_monthly_executive_briefing"
  <2>a. i \in {[Blank EXCEPT !.period = m] : m \in Optional(Calendar)}
    BY <1>5 DEF Inputs
  <2>1. PICK m \in Optional(Calendar) : i = [Blank EXCEPT !.period = m]
    BY <2>a
  <2>2. /\ Full(i) /\ i.period = m /\ i.brand = None /\ i.store = None
        /\ i.severity = None /\ i.segment = None
    BY <2>1 DEF Blank, Full
  <2>3. QED
    BY <1>0, <1>5, <2>1, <2>2 DEF Fits, All
<1>6. CASE tool = "compare_periods"
  <2>a. i \in Compared
    BY <1>6 DEF Inputs
  <2>1. PICK c \in {"tenant", "brand", "store"} :
           i \in {[Blank EXCEPT !.period = p[1], !.to = p[2], !.scope = c] :
                     p \in (AskedWeeks \X AskedWeeks) \cup (Calendar \X Calendar)}
    BY <2>a DEF Compared
  <2>2. PICK p \in (AskedWeeks \X AskedWeeks) \cup (Calendar \X Calendar) :
           i = [Blank EXCEPT !.period = p[1], !.to = p[2], !.scope = c]
    BY <2>1
  <2>3. Full(i) /\ i.period = p[1] /\ i.to = p[2] /\ i.scope = c
    BY <2>2 DEF Blank, Full
  <2>4. /\ p[1] \in All
        /\ (p[1] \in Weeks /\ p[2] \in Weeks) \/ (p[1] \in Calendar /\ p[2] \in Calendar)
    BY <1>0, <2>2 DEF All, Optional
  <2>5. QED
    BY <1>6, <2>1, <2>3, <2>4 DEF Fits, All
<1>7. CASE tool \in {"get_sku_detail", "get_active_alerts", "get_action_recommendations",
                     "get_sku_coverage_status", "get_velocity_segmentation"}
  <2>1. /\ Full(i) /\ i.period = None
        /\ tool = "get_sku_detail" => i.severity = None /\ i.segment = None
    <3>1. CASE tool = "get_sku_detail"
      <4>1. i \in {[Blank EXCEPT !.sku = x[1], !.store = x[2]] : x \in Skus \X Optional(Stores)}
        BY <3>1 DEF Inputs
      <4>2. PICK x \in Skus \X Optional(Stores) : i = [Blank EXCEPT !.sku = x[1], !.store = x[2]]
        BY <4>1
      <4>3. QED
        BY <3>1, <4>2 DEF Blank, Full
    <3>2. CASE tool \in {"get_active_alerts", "get_action_recommendations"}
      <4>1. i \in {[Blank EXCEPT !.severity = v] : v \in Optional({"HIGH", "MEDIUM", "LOW"})}
        BY <3>2 DEF Inputs
      <4>2. PICK v \in Optional({"HIGH", "MEDIUM", "LOW"}) : i = [Blank EXCEPT !.severity = v]
        BY <4>1
      <4>3. QED
        BY <3>2, <4>2 DEF Blank, Full
    <3>3. CASE tool = "get_sku_coverage_status"
      <4> DEFINE Quads == Optional({"RED", "YELLOW", "GREY", "GREEN"}) \X Optional(Stores)
                            \X Optional(Brands) \X Optional(Skus)
      <4>1. i \in {[Blank EXCEPT !.status = x[1], !.store = x[2], !.brand = x[3], !.sku = x[4]] : x \in Quads}
        BY <3>3 DEF Inputs
      <4>2. PICK x \in Quads :
               i = [Blank EXCEPT !.status = x[1], !.store = x[2], !.brand = x[3], !.sku = x[4]]
        BY <4>1
      <4>3. QED
        BY <3>3, <4>2 DEF Blank, Full
    <3>4. CASE tool = "get_velocity_segmentation"
      <4>1. i \in {[Blank EXCEPT !.brand = x[1], !.segment = x[2]] : x \in Optional(Brands) \X Optional(1..4)}
        BY <3>4 DEF Inputs
      <4>2. PICK x \in Optional(Brands) \X Optional(1..4) : i = [Blank EXCEPT !.brand = x[1], !.segment = x[2]]
        BY <4>1
      <4>3. QED
        BY <3>4, <4>2 DEF Blank, Full
    <3>5. QED
      BY <1>7, <3>1, <3>2, <3>3, <3>4
  <2>2. QED
    BY <1>0, <1>7, <2>1 DEF Fits, All
<1>8. QED
  BY <1>1, <1>2, <1>3, <1>4, <1>5, <1>6, <1>7 DEF ToolNames

\* So does every request.
LEMMA RequestsFit ==
    ASSUME NEW r \in Requests
    PROVE  r.tool \in ToolNames /\ r.tenant \in Tenants /\ Fits(r.tool, r)
<1>1. PICK tool \in Tools :
         \E x \in Inputs(tool) \X Callers : r = [x[1] EXCEPT !.tool = tool, !.tenant = x[2]]
  BY DEF Requests
<1>2. PICK i \in Inputs(tool), t \in Callers : r = [i EXCEPT !.tool = tool, !.tenant = t]
  BY <1>1
<1>3. tool \in ToolNames /\ t \in Tenants
  BY <1>1, <1>2, Basics
<1>4. Full(i) /\ Fits(tool, i)
  BY <1>2, <1>3, InputsFit
<1>5. /\ r.tool = tool /\ r.tenant = t /\ r.period = i.period /\ r.store = i.store
      /\ r.brand = i.brand /\ r.to = i.to /\ r.severity = i.severity /\ r.segment = i.segment
      /\ r.scope = i.scope
  BY <1>2, <1>4 DEF Full
<1>6. QED
  BY <1>3, <1>4, <1>5 DEF Fits

-----------------------------------------------------------------------------
(* The program of a request.                                               *)

\* The tools that report figures, and the query they come from.
Reporting ==
    {"get_executive_weekly_briefing", "get_executive_summary", "get_store_daily_briefing",
     "get_brand_weekly_review", "get_monthly_summary", "get_monthly_executive_briefing"}

Main(tool) ==
    CASE tool \in {"get_executive_weekly_briefing", "get_executive_summary"} -> "weekly_totals"
      [] tool = "get_store_daily_briefing" -> "store_dashboard"
      [] tool = "get_brand_weekly_review"  -> "brand_performance"
      [] tool \in {"get_monthly_summary", "get_monthly_executive_briefing"} -> "month"

\* Every program is orderly and needs what its tool needs.
LEMMA ProgramHas ==
    ASSUME NEW r \in Requests
    PROVE  Orderly(Program(r)) /\ Needs(Program(r)) = ToolNeeds(r)
<1>0. r.tool \in ToolNames
  BY RequestsFit
<1>1. CASE r.tool = "get_executive_weekly_briefing"
  <2>1. Program(r) = ExecutiveWeekly(r)
    BY <1>1 DEF Program
  <2>2. ToolNeeds(r) = Looked(r, "latest_week") \cup {"weekly_totals", ""}
    BY <1>1 DEF ToolNeeds
  <2>3. QED
    BY <2>1, <2>2, ExecutiveWeeklyHas DEF Has
<1>2. CASE r.tool = "get_executive_summary"
  <2>1. Program(r) = ExecutiveSummary(r)
    BY <1>2 DEF Program
  <2>2. ToolNeeds(r) = Looked(r, "latest_week") \cup {"weekly_totals", ""}
    BY <1>2 DEF ToolNeeds
  <2>3. QED
    BY <2>1, <2>2, ExecutiveSummaryHas DEF Has
<1>3. CASE r.tool = "get_store_daily_briefing"
  <2>1. Program(r) = StoreDaily(r)
    BY <1>3 DEF Program
  <2>2. ToolNeeds(r) = Looked(r, "latest_week") \cup {"store_dashboard"}
    BY <1>3 DEF ToolNeeds
  <2>3. QED
    BY <2>1, <2>2, StoreDailyHas DEF Has
<1>4. CASE r.tool = "get_brand_weekly_review"
  <2>1. Program(r) = BrandWeekly(r)
    BY <1>4 DEF Program
  <2>2. ToolNeeds(r) = {"brand_performance"}
    BY <1>4 DEF ToolNeeds
  <2>3. QED
    BY <2>1, <2>2, BrandWeeklyHas DEF Has
<1>5. CASE r.tool = "get_monthly_summary"
  <2>1. Program(r) = MonthlySummary(r)
    BY <1>5 DEF Program
  <2>2. ToolNeeds(r) = Looked(r, "latest_month") \cup {"", "month"}
    BY <1>5 DEF ToolNeeds
  <2>3. QED
    BY <2>1, <2>2, MonthlySummaryHas DEF Has
<1>6. CASE r.tool = "get_monthly_executive_briefing"
  <2>1. Program(r) = MonthlyExecutive(r)
    BY <1>6 DEF Program
  <2>2. ToolNeeds(r) = Looked(r, "latest_month") \cup {"", "month"}
    BY <1>6 DEF ToolNeeds
  <2>3. QED
    BY <2>1, <2>2, MonthlyExecutiveHas DEF Has
<1>7. CASE r.tool = "get_sku_detail"
  <2>1. Program(r) = SkuDetail(r)
    BY <1>7 DEF Program
  <2>2. ToolNeeds(r) = {"sku_master", ""}
    BY <1>7 DEF ToolNeeds
  <2>3. QED
    BY <2>1, <2>2, SkuDetailHas DEF Has
<1>8. CASE r.tool \in {"get_store_dashboard", "get_brand_performance", "get_active_alerts",
                       "get_action_recommendations", "get_sku_coverage_status",
                       "get_velocity_segmentation", "compare_periods"}
  <2>1. \E part \in PartNames \ Latests : Program(r) = <<Await(part, "")>>
    <3>1. CASE r.tool = "get_store_dashboard"
      BY <3>1 DEF Program, PartNames, Latests
    <3>2. CASE r.tool = "get_brand_performance"
      BY <3>2 DEF Program, PartNames, Latests
    <3>3. CASE r.tool = "get_active_alerts"
      BY <3>3 DEF Program, PartNames, Latests
    <3>4. CASE r.tool = "get_action_recommendations"
      BY <3>4 DEF Program, PartNames, Latests
    <3>5. CASE r.tool = "get_sku_coverage_status"
      BY <3>5 DEF Program, PartNames, Latests
    <3>6. CASE r.tool = "get_velocity_segmentation"
      BY <3>6 DEF Program, PartNames, Latests
    <3>7. CASE r.tool = "compare_periods"
      BY <3>7 DEF Program, PartNames, Latests
    <3>8. QED
      BY <1>8, <3>1, <3>2, <3>3, <3>4, <3>5, <3>6, <3>7
  <2>2. ToolNeeds(r) = {""}
    BY <1>8 DEF ToolNeeds
  <2>3. QED
    BY <2>1, <2>2, OneQueryHas DEF Has
<1>9. QED
  BY <1>0, <1>1, <1>2, <1>3, <1>4, <1>5, <1>6, <1>7, <1>8 DEF ToolNames

-----------------------------------------------------------------------------
(* Least and greatest naturals, and the latest week and month.             *)

\* A nonempty set of naturals has a least element.
LEMMA LeastNat ==
    ASSUME NEW T \in SUBSET Nat, T # {}
    PROVE  \E x \in T : \A y \in T : x <= y
<1>1. PICK x \in T : \A y \in T : <<y, x>> \notin OpToRel(<, Nat)
  BY NatLessThanWellFounded, WFMin
<1>2. \A y \in T : ~(y < x)
  BY <1>1 DEF OpToRel
<1>3. QED
  BY <1>2

\* A nonempty set of naturals with an upper bound has a greatest element.
LEMMA GreatestNat ==
    ASSUME NEW n \in Nat, NEW T \in SUBSET (0..n), T # {}
    PROVE  \E x \in T : \A y \in T : x >= y
<1> DEFINE Gaps == {n - x : x \in T}
<1>1. Gaps \in SUBSET Nat
  OBVIOUS
<1>2. Gaps # {}
  <2>1. PICK x \in T : TRUE
    OBVIOUS
  <2>2. n - x \in Gaps
    OBVIOUS
  <2>3. QED
    BY <2>2
<1> HIDE DEF Gaps
<1>3. PICK g \in Gaps : \A h \in Gaps : g <= h
  BY <1>1, <1>2, LeastNat
<1>4. PICK x \in T : g = n - x
  BY <1>3 DEF Gaps
<1>5. ASSUME NEW y \in T
      PROVE  x >= y
  <2>1. n - y \in Gaps
    BY DEF Gaps
  <2>2. n - x <= n - y
    BY <1>3, <1>4, <2>1
  <2>3. QED
    BY <2>2
<1>6. QED
  BY <1>5

\* The weeks are a range, and the months of its weeks are bounded.
LEMMA MonthsAreBounded ==
    \E b \in Nat : \A w \in Weeks : MonthOf[w] \in 0..b
<1> DEFINE Bounded(k) == \E b \in Nat : \A w \in 1..k : MonthOf[w] <= b
           Bad == {k \in 0..Today : ~Bounded(k)}
<1>1. Today \in Nat /\ MonthOf \in [1..Today -> Nat] /\ Weeks = 1..Today
  BY Basics DEF Weeks
<1>2. Bad = {}
  <2>1. SUFFICES ASSUME Bad # {}
                 PROVE  FALSE
    OBVIOUS
  <2>2. Bad \in SUBSET Nat
    BY <1>1
  <2>3. PICK k \in Bad : \A j \in Bad : k <= j
    <3> HIDE DEF Bad
    <3>1. QED
      BY <2>1, <2>2, LeastNat
  <2>4. k \in 0..Today /\ ~Bounded(k)
    BY <2>3
  <2>5. k # 0
    <3>1. \A w \in 1..0 : MonthOf[w] <= 0
      OBVIOUS
    <3>2. Bounded(0)
      BY <3>1
    <3>3. QED
      BY <2>4, <3>2
  <2>6. PICK j : j = k - 1
    OBVIOUS
  <2>7. j \in 0..Today /\ k = j + 1 /\ ~(k <= j)
    BY <1>1, <2>4, <2>5, <2>6
  <2>8. Bounded(j)
    BY <2>3, <2>7
  <2>9. PICK b \in Nat : \A w \in 1..j : MonthOf[w] <= b
    BY <2>8
  <2>10. MonthOf[k] \in Nat
    BY <1>1, <2>4, <2>5
  <2>11. PICK c \in Nat : b <= c /\ MonthOf[k] <= c
    <3>1. CASE b <= MonthOf[k]
      BY <2>10, <3>1
    <3>2. CASE ~(b <= MonthOf[k])
      BY <2>9, <2>10, <3>2
    <3>3. QED
      BY <3>1, <3>2
  <2>12. ASSUME NEW w \in 1..k
         PROVE  MonthOf[w] <= c
    <3>1. CASE w = k
      BY <2>11, <3>1
    <3>2. CASE w # k
      <4>1. w \in 1..j
        BY <2>4, <2>7, <3>2
      <4>2. w \in 1..Today
        BY <1>1, <2>4
      <4>3. MonthOf[w] \in Nat /\ MonthOf[w] <= b
        BY <1>1, <2>9, <4>1, <4>2
      <4>4. QED
        BY <2>9, <2>11, <4>3
    <3>3. QED
      BY <3>1, <3>2
  <2>13. QED
    BY <2>4, <2>11, <2>12
<1>3. Bounded(Today)
  <2>1. Today \in 0..Today
    BY <1>1
  <2> HIDE DEF Bounded
  <2>2. QED
    BY <1>2, <2>1
<1>4. QED
  BY <1>1, <1>3

\* The greatest of a set of weeks, or of months, is one of them.
LEMMA MaxIsOne ==
    ASSUME NEW T, T \subseteq Weeks \/ T \subseteq Calendar, T # {}
    PROVE  Max(T) \in T
<1>1. PICK b \in Nat : \A w \in Weeks : MonthOf[w] \in 0..b
  BY MonthsAreBounded
<1>2. Weeks = 1..Today /\ Today \in Nat
  BY Basics DEF Weeks
<1>3. T \subseteq 0..Today \/ T \subseteq 0..b
  BY <1>1, <1>2 DEF Calendar
<1>4. \E x \in T : \A y \in T : x >= y
  BY <1>1, <1>2, <1>3, GreatestNat
<1>5. QED
  BY <1>4 DEF Max

\* The latest week or month is one of them, or NULL when there is none.
LEMMA LatestIsOne ==
    ASSUME NEW T, T \subseteq Weeks \/ T \subseteq Calendar
    PROVE  /\ Latest(T) \in Optional(T)
           /\ Latest(T) = None <=> T = {}
<1>1. None \notin T
  BY Basics
<1>2. CASE T = {}
  BY <1>2 DEF Latest, Optional
<1>3. CASE T # {}
  BY <1>1, <1>3, MaxIsOne DEF Latest, Optional
<1>4. QED
  BY <1>2, <1>3

-----------------------------------------------------------------------------
(* The invariant.                                                          *)

\* The rows of a fact have weeks of the calendar.
Dated(g) == \A r \in g.sales : r.week \in Weeks

\* A database as the statements of the refresh and the ERP leave it.
GoodDb(g) ==
    /\ g = [docs |-> g.docs, sales |-> g.sales, stock |-> g.stock]
    /\ g.docs \subseteq Issuable
    /\ \A r \in g.sales : r.week \in Weeks
    /\ \A r \in g.stock : r.week \in Weeks
    /\ \A r, s \in g.sales : SalesKey(r) = SalesKey(s) => r = s
    /\ \A r, s \in g.stock : StockKey(r) = StockKey(s) => r = s

\* Between its DELETE and its INSERT a tenant's fact is empty in the window.
GoodCleared(g, cl) ==
    /\ DOMAIN cl = Tenants
    /\ \A t \in Tenants : cl[t] # None =>
          /\ cl[t].table \in {"sales", "stock"} /\ cl[t].weeks \subseteq Weeks
          /\ \A r \in g[cl[t].table] : r.tenant # t \/ r.week \notin cl[t].weeks

\* What a part of call c was in one of the states S of the database.
WasRead(S, c, p, v) == \E g \in S : v = Fetch(g, c.req, c.period, p)

\* A query that was not read has failed, in a gather.
GotIsRead(S, c) ==
    \A p \in DOMAIN c.got : \/ WasRead(S, c, p, c.got[p])
                            \/ c.got[p] = None /\ p \in Gathered(Program(c.req))

\* A slot that was read has what the database had.
RawIsRead(S, c, raw) ==
    LET parts == Program(c.req)[c.stage].parts
    IN  /\ DOMAIN raw = DOMAIN parts
        /\ \A i \in DOMAIN raw :
              \/ raw[i] \in {Pending, Failed}
              \/ raw[i] = Value(raw[i].value) /\ WasRead(S, c, parts[i], raw[i].value)

\* The first n stages have not found nothing.
Found(c, n) == \A i \in 1..n : ~Nothing(c.got, Program(c.req)[i].needs)

\* The period is the one asked for until the latest one has been looked for.
Resolved(c) ==
    /\ \A p \in DOMAIN c.got \cap Latests : c.got[p] = c.period
    /\ DOMAIN c.got \cap Latests = {} => c.period = c.req.period

\* The fields of a call.
Shape(c) ==
    /\ c = [at |-> c.at, req |-> c.req, period |-> c.period, stage |-> c.stage,
            raw |-> c.raw, got |-> c.got, failures |-> c.failures]
    /\ c.req \in Requests
    /\ c.period \in Optional(Weeks \cup Calendar)
    /\ c.stage \in DOMAIN Program(c.req)

IsRunning(S, c) ==
    /\ DOMAIN c.got = Before(Program(c.req), c.stage)
    /\ GotIsRead(S, c) /\ RawIsRead(S, c, c.raw) /\ Found(c, c.stage - 1) /\ Resolved(c)

IsAnswered(S, c) ==
    /\ DOMAIN c.got = Parts(Program(c.req))
    /\ GotIsRead(S, c) /\ Found(c, Len(Program(c.req))) /\ Resolved(c)

IsNothing(S, c) ==
    LET needs == Program(c.req)[c.stage].needs
    IN  /\ DOMAIN c.got = Before(Program(c.req), c.stage + 1)
        /\ GotIsRead(S, c) /\ Found(c, c.stage - 1) /\ Resolved(c)
        /\ Nothing(c.got, needs)
        /\ c.failures # {} \/ WasRead(S, c, needs, c.got[needs])

GoodCall(S, c) ==
    /\ c.at \in {"idle", "running", "answered", "nothing", "raised"}
    /\ c.at # "idle" => Shape(c)
    /\ c.at = "running" => IsRunning(S, c)
    /\ c.at = "answered" => IsAnswered(S, c)
    /\ c.at = "nothing" => IsNothing(S, c)

\* The inductive invariant: databases with their keys and dates, and what the call is.
IInv ==
    /\ GoodDb(db) /\ GoodCleared(db, cleared)
    /\ \A g \in seen : Dated(g)
    /\ GoodCall(seen, call) /\ (call.at = "running" => db \in seen)
    /\ commits \in 0..MaxCommits /\ faults \in 0..MaxFaults

-----------------------------------------------------------------------------
(* What the queries answer.                                                *)

\* The look-up of the latest week or month is not told a period.
LEMMA LatestFetch ==
    ASSUME NEW g, NEW r, NEW period
    PROVE  /\ Fetch(g, r, period, "latest_week") = LatestWeek(g, r.tenant, r.store)
           /\ Fetch(g, r, period, "latest_month") = LatestMonth(g, r.tenant)
<1>1. Fetch(g, r, period, "latest_week") = LatestWeek(g, r.tenant, r.store)
  BY DEF Fetch
<1>2. Fetch(g, r, period, "latest_month") = LatestMonth(g, r.tenant)
  BY DEF Fetch
<1>3. QED
  BY <1>1, <1>2

\* A month of a tenant is the month of a sale of it.
LEMMA MonthsAre ==
    ASSUME NEW g, NEW t, NEW m
    PROVE  m \in Months(g, t) <=> \E s \in Own(g.sales, t) : m = MonthOf[s.week]
<1> DEFINE Total(r) == Amount({s \in g.sales : /\ s.tenant = r.tenant /\ MonthOf[s.week] = MonthOf[r.week]
                                               /\ s.store = r.store /\ s.sku = r.sku /\ s.brand = r.brand})
           Line(r) == [tenant |-> r.tenant, month |-> MonthOf[r.week], store |-> r.store,
                       sku |-> r.sku, brand |-> r.brand, n |-> Total(r)]
<1>0. SalesMonthly(g) = {Line(r) : r \in g.sales}
  BY DEF SalesMonthly
<1> HIDE DEF Total
<1>1. ASSUME m \in Months(g, t)
      PROVE  \E s \in Own(g.sales, t) : m = MonthOf[s.week]
  <2>1. PICK r \in SalesMonthly(g) : r.tenant = t /\ m = r.month
    BY <1>1 DEF Months, Own
  <2>2. PICK s \in g.sales : r.tenant = s.tenant /\ r.month = MonthOf[s.week]
    BY <1>0, <2>1
  <2>3. QED
    BY <2>1, <2>2 DEF Own
<1>2. ASSUME NEW s \in Own(g.sales, t), m = MonthOf[s.week]
      PROVE  m \in Months(g, t)
  <2>1. s \in g.sales /\ s.tenant = t
    BY DEF Own
  <2>2. Line(s) \in SalesMonthly(g)
    BY <1>0, <2>1
  <2>3. Line(s).tenant = t /\ Line(s).month = m
    BY <1>2, <2>1
  <2>4. QED
    BY <2>2, <2>3 DEF Months, Own
<1>3. QED
  BY <1>1, <1>2

\* The latest week is a week, and the latest month a month, if there is one.
LEMMA LatestFetchIs ==
    ASSUME NEW g, Dated(g), NEW r, NEW period
    PROVE  /\ Fetch(g, r, period, "latest_week") \in Optional(Weeks)
           /\ Fetch(g, r, period, "latest_month") \in Optional(Calendar)
           /\ Fetch(g, r, period, "latest_week") = None
                 <=> ~\E s \in Own(g.sales, r.tenant) : Is(r.store, s.store)
           /\ Fetch(g, r, period, "latest_month") = None <=> Own(g.sales, r.tenant) = {}
<1> DEFINE sold  == {s \in Own(g.sales, r.tenant) : Is(r.store, s.store)}
           weeks == {s.week : s \in sold}
           months == Months(g, r.tenant)
<1>1. weeks \subseteq Weeks
  BY DEF Dated, Own
<1>2. Latest(weeks) \in Optional(weeks) /\ (Latest(weeks) = None <=> weeks = {})
  <2> HIDE DEF weeks
  <2>1. QED
    BY <1>1, LatestIsOne
<1>3. months \subseteq Calendar
  <2>1. \A m \in months : \E s \in Own(g.sales, r.tenant) : m = MonthOf[s.week]
    BY MonthsAre
  <2>2. \A s \in Own(g.sales, r.tenant) : MonthOf[s.week] \in Calendar
    BY DEF Dated, Own, Calendar
  <2> HIDE DEF months
  <2>3. QED
    BY <2>1, <2>2
<1>4. Latest(months) \in Optional(months) /\ (Latest(months) = None <=> months = {})
  <2> HIDE DEF months
  <2>1. QED
    BY <1>3, LatestIsOne
<1>5. weeks = {} <=> ~\E s \in Own(g.sales, r.tenant) : Is(r.store, s.store)
  OBVIOUS
<1>6. months = {} <=> Own(g.sales, r.tenant) = {}
  <2>1. \A m : m \in months <=> \E s \in Own(g.sales, r.tenant) : m = MonthOf[s.week]
    BY MonthsAre
  <2> HIDE DEF months
  <2>2. ASSUME NEW s \in Own(g.sales, r.tenant)
        PROVE  months # {}
    BY <2>1
  <2>3. QED
    BY <2>1, <2>2
<1>7. LatestWeek(g, r.tenant, r.store) = Latest(weeks) /\ LatestMonth(g, r.tenant) = Latest(months)
  BY DEF LatestWeek, LatestMonth
<1> HIDE DEF weeks, months
<1>8. QED
  BY <1>1, <1>2, <1>3, <1>4, <1>5, <1>6, <1>7, LatestFetch DEF Optional

\* More states of the database do no harm.
LEMMA MoreSeen ==
    ASSUME NEW S, NEW T, S \subseteq T, NEW c, GoodCall(S, c)
    PROVE  GoodCall(T, c)
<1>1. \A p, v : WasRead(S, c, p, v) => WasRead(T, c, p, v)
  BY DEF WasRead
<1>2. GotIsRead(S, c) => GotIsRead(T, c)
  BY <1>1 DEF GotIsRead
<1>3. RawIsRead(S, c, c.raw) => RawIsRead(T, c, c.raw)
  BY <1>1 DEF RawIsRead
<1>4. QED
  BY <1>1, <1>2, <1>3 DEF GoodCall, IsRunning, IsAnswered, IsNothing

-----------------------------------------------------------------------------
(* A stage ends.                                                           *)

\* The query of a stage that reads a part.
Slot(names, p) == CHOOSE i \in DOMAIN names : names[i] = p

NamesOf(c) == Program(c.req)[c.stage].parts

NewGot(c, raw) ==
    [p \in Range(NamesOf(c)) \cup DOMAIN c.got |->
        IF p \in Range(NamesOf(c))
        THEN IF raw[Slot(NamesOf(c), p)].state = "failed" THEN None ELSE raw[Slot(NamesOf(c), p)].value
        ELSE c.got[p]]

NewPeriod(c, raw) ==
    IF NamesOf(c)[1] \in Latests THEN NewGot(c, raw)[NamesOf(c)[1]] ELSE c.period

NewFailures(c, raw) ==
    {NamesOf(c)[i] : i \in {i \in DOMAIN NamesOf(c) : raw[i].state = "failed"}}

After(c, raw, at, stage, next) ==
    [at |-> at, req |-> c.req, period |-> NewPeriod(c, raw), stage |-> stage, raw |-> next,
     got |-> NewGot(c, raw), failures |-> NewFailures(c, raw)]

\* A part of a stage is read by its query.
LEMMA SlotIs ==
    ASSUME NEW names, NEW p \in Range(names)
    PROVE  Slot(names, p) \in DOMAIN names /\ names[Slot(names, p)] = p
  BY DEF Slot, Range

\* The changes Resume makes to a record.
Ending(c, got, period, failures) ==
    [c EXCEPT !.got = got, !.period = period, !.raw = <<>>, !.failures = failures]

Advancing(c, raw) == [c EXCEPT !.stage = @ + 1, !.raw = raw]

\* A call whose stage has ended, field by field.
LEMMA Changed ==
    ASSUME NEW q, NEW w, NEW n, NEW x, NEW o, NEW f, NEW got, NEW period, NEW failures,
           NEW c, c = [at |-> "running", req |-> q, period |-> w, stage |-> n, raw |-> x,
                       got |-> o, failures |-> f]
    PROVE  Ending(c, got, period, failures)
              = [at |-> "running", req |-> q, period |-> period, stage |-> n, raw |-> <<>>,
                 got |-> got, failures |-> failures]
<1>1. PICK e : e = <<>>
  OBVIOUS
<1>2. PICK c1 : c1 = [c EXCEPT !.got = got]
  OBVIOUS
<1>3. PICK c2 : c2 = [c1 EXCEPT !.period = period]
  OBVIOUS
<1>4. PICK c3 : c3 = [c2 EXCEPT !.raw = e]
  OBVIOUS
<1>5. PICK c4 : c4 = [c3 EXCEPT !.failures = failures]
  OBVIOUS
<1>6. [c EXCEPT !.got = got, !.period = period, !.raw = e, !.failures = failures] = c4
  BY <1>2, <1>3, <1>4, <1>5
<1>7. c1 = [at |-> "running", req |-> q, period |-> w, stage |-> n, raw |-> x, got |-> got,
            failures |-> f]
  BY <1>2
<1>8. c2 = [at |-> "running", req |-> q, period |-> period, stage |-> n, raw |-> x, got |-> got,
            failures |-> f]
  BY <1>3, <1>7
<1>9. c3 = [at |-> "running", req |-> q, period |-> period, stage |-> n, raw |-> e, got |-> got,
            failures |-> f]
  BY <1>4, <1>8
<1>10. c4 = [at |-> "running", req |-> q, period |-> period, stage |-> n, raw |-> e, got |-> got,
             failures |-> failures]
  BY <1>5, <1>9
<1>11. QED
  BY <1>1, <1>6, <1>10 DEF Ending

\* A call at its next stage, field by field.
LEMMA Advanced ==
    ASSUME NEW q, NEW n, NEW x, NEW got, NEW period, NEW failures,
           NEW c, c = [at |-> "running", req |-> q, period |-> period, stage |-> n, raw |-> <<>>,
                       got |-> got, failures |-> failures]
    PROVE  Advancing(c, x)
              = [at |-> "running", req |-> q, period |-> period, stage |-> n + 1, raw |-> x,
                 got |-> got, failures |-> failures]
<1>1. PICK m : m = n + 1
  OBVIOUS
<1>2. PICK c1 : c1 = [c EXCEPT !.stage = m]
  OBVIOUS
<1>3. PICK c2 : c2 = [c1 EXCEPT !.raw = x]
  OBVIOUS
<1>4. [c EXCEPT !.stage = @ + 1, !.raw = x] = c2
  <2>1. c.stage = n
    OBVIOUS
  <2>2. QED
    BY <1>1, <1>2, <1>3, <2>1
<1>5. c1 = [at |-> "running", req |-> q, period |-> period, stage |-> m, raw |-> <<>>,
            got |-> got, failures |-> failures]
  BY <1>2
<1>6. c2 = [at |-> "running", req |-> q, period |-> period, stage |-> m, raw |-> x,
            got |-> got, failures |-> failures]
  BY <1>3, <1>5
<1>7. QED
  BY <1>1, <1>4, <1>6 DEF Advancing

\* What Resume makes of a call.
LEMMA ResumeIs ==
    ASSUME NEW c, Shape(c), c.at = "running", NEW raw
    PROVE  Resume(c, raw) =
              IF ~Program(c.req)[c.stage].gathered /\ raw[1].state = "failed"
              THEN After(c, raw, "raised", c.stage, <<>>)
              ELSE IF Nothing(NewGot(c, raw), Program(c.req)[c.stage].needs)
              THEN After(c, raw, "nothing", c.stage, <<>>)
              ELSE IF c.stage = Len(Program(c.req))
              THEN After(c, raw, "answered", c.stage, <<>>)
              ELSE After(c, raw, "running", c.stage + 1, AllPending(Program(c.req)[c.stage + 1]))
<1> DEFINE stage  == Program(c.req)[c.stage]
           safe   == GatherSafe(stage.parts, raw)
           got    == [p \in Range(stage.parts) \cup DOMAIN c.got |->
                         IF p \in Range(stage.parts)
                         THEN safe.results[CHOOSE i \in DOMAIN stage.parts : stage.parts[i] = p]
                         ELSE c.got[p]]
           period == IF stage.parts[1] \in {"latest_week", "latest_month"}
                     THEN got[stage.parts[1]] ELSE c.period
           next   == [c EXCEPT !.got = got, !.period = period, !.raw = <<>>,
                               !.failures = safe.failures]
<1>1. Resume(c, raw) =
         IF ~stage.gathered /\ raw[1].state = "failed" THEN [next EXCEPT !.at = "raised"]
         ELSE IF Nothing(got, stage.needs) THEN [next EXCEPT !.at = "nothing"]
         ELSE IF c.stage = Len(Program(c.req)) THEN [next EXCEPT !.at = "answered"]
         ELSE [next EXCEPT !.stage = @ + 1, !.raw = AllPending(Program(c.req)[c.stage + 1])]
  BY Zenon DEF Resume
<1>2. stage.parts = NamesOf(c)
  BY DEF NamesOf
<1>3. safe.failures = NewFailures(c, raw)
  BY DEF GatherSafe, NewFailures, NamesOf
<1>4. got = NewGot(c, raw)
  <2>1. ASSUME NEW p \in Range(stage.parts)
        PROVE  safe.results[CHOOSE i \in DOMAIN stage.parts : stage.parts[i] = p]
                  = IF raw[Slot(NamesOf(c), p)].state = "failed" THEN None
                    ELSE raw[Slot(NamesOf(c), p)].value
    <3>1. Slot(stage.parts, p) \in DOMAIN stage.parts
      BY SlotIs
    <3>2. safe.results = [i \in DOMAIN stage.parts |->
                             IF raw[i].state = "failed" THEN None ELSE raw[i].value]
      BY DEF GatherSafe
    <3>3. (CHOOSE i \in DOMAIN stage.parts : stage.parts[i] = p) = Slot(stage.parts, p)
      BY DEF Slot
    <3> HIDE DEF safe, stage
    <3>4. safe.results[Slot(stage.parts, p)]
             = IF raw[Slot(stage.parts, p)].state = "failed" THEN None
               ELSE raw[Slot(stage.parts, p)].value
      BY <3>1, <3>2
    <3>5. QED
      BY <1>2, <3>3, <3>4
  <2> HIDE DEF safe, stage
  <2>2. QED
    BY <1>2, <2>1 DEF NewGot
<1>5. period = NewPeriod(c, raw)
  BY <1>2, <1>4 DEF NewPeriod, Latests
<1> HIDE DEF got, period, safe, stage
<1>6. c = [at |-> "running", req |-> c.req, period |-> c.period, stage |-> c.stage,
           raw |-> c.raw, got |-> c.got, failures |-> c.failures]
  BY DEF Shape
<1>7. next = [at |-> "running", req |-> c.req, period |-> period, stage |-> c.stage,
              raw |-> <<>>, got |-> got, failures |-> safe.failures]
  <2>1. PICK q, w, n, x, o, f : /\ q = c.req /\ w = c.period /\ n = c.stage
                                /\ x = c.raw /\ o = c.got /\ f = c.failures
    OBVIOUS
  <2>2. c = [at |-> "running", req |-> q, period |-> w, stage |-> n, raw |-> x, got |-> o,
             failures |-> f]
    BY <1>6, <2>1
  <2>3. next = [at |-> "running", req |-> q, period |-> period, stage |-> n, raw |-> <<>>,
                got |-> got, failures |-> safe.failures]
    <3>1. next = Ending(c, got, period, safe.failures)
      BY DEF Ending
    <3> HIDE DEF next
    <3>2. QED
      BY <2>2, <3>1, Changed
  <2>4. QED
    BY <2>1, <2>3
<1> HIDE DEF next
<1>8. /\ [next EXCEPT !.at = "raised"] = After(c, raw, "raised", c.stage, <<>>)
      /\ [next EXCEPT !.at = "nothing"] = After(c, raw, "nothing", c.stage, <<>>)
      /\ [next EXCEPT !.at = "answered"] = After(c, raw, "answered", c.stage, <<>>)
  BY <1>3, <1>4, <1>5, <1>7 DEF After
<1>9. [next EXCEPT !.stage = @ + 1, !.raw = AllPending(Program(c.req)[c.stage + 1])]
         = After(c, raw, "running", c.stage + 1, AllPending(Program(c.req)[c.stage + 1]))
  <2>1. PICK n, x : n = c.stage /\ x = AllPending(Program(c.req)[c.stage + 1])
    OBVIOUS
  <2>2. next = [at |-> "running", req |-> c.req, period |-> period, stage |-> n,
                raw |-> <<>>, got |-> got, failures |-> safe.failures]
    BY <1>7, <2>1
  <2>3. [next EXCEPT !.stage = @ + 1, !.raw = x]
           = [at |-> "running", req |-> c.req, period |-> period, stage |-> n + 1, raw |-> x,
              got |-> got, failures |-> safe.failures]
    <3>1. [next EXCEPT !.stage = @ + 1, !.raw = x] = Advancing(next, x)
      BY DEF Advancing
    <3>2. QED
      BY <2>2, <3>1, Advanced
  <2>4. QED
    BY <1>3, <1>4, <1>5, <2>1, <2>3 DEF After
<1>10. QED
  BY <1>1, <1>4, <1>8, <1>9 DEF stage

\* One stage more.
LEMMA BeforeNext ==
    ASSUME NEW P, NEW n \in Nat \ {0}
    PROVE  Before(P, n + 1) = Before(P, n) \cup Range(P[n].parts)
<1>1. PICK m : m = n + 1
  OBVIOUS
<1>2. \A i : i \in 1..(m - 1) <=> i \in 1..(n - 1) \/ i = n
  BY <1>1
<1>3. ASSUME NEW p
      PROVE  p \in Before(P, m) <=> p \in Before(P, n) \/ p \in Range(P[n].parts)
  BY <1>2, Members
<1>4. QED
  BY <1>1, <1>3

\* Before the first stage nothing has been read.
LEMMA BeforeFirst ==
    ASSUME NEW P
    PROVE  Before(P, 1) = {}
<1>1. ASSUME NEW p
      PROVE  p \notin Before(P, 1)
  <2>1. PICK n : n = 1
    OBVIOUS
  <2>2. \A i : i \notin 1..(n - 1)
    BY <2>1
  <2>3. QED
    BY <2>1, <2>2, Members
<1>2. QED
  BY <1>1

\* After the last one all has.
LEMMA BeforeAll ==
    ASSUME NEW P \in Seq(Stages)
    PROVE  Before(P, Len(P) + 1) = Parts(P)
<1>1. PICK n : n = Len(P) + 1
  OBVIOUS
<1>2. 1..(n - 1) = DOMAIN P
  BY <1>1
<1>3. \A p : p \in Parts(P) <=> p \in Before(P, n)
  BY <1>2, Members
<1>4. QED
  BY <1>1, <1>3

\* The stage a call is at.
LEMMA StageIs ==
    ASSUME NEW c, Shape(c)
    PROVE  /\ Orderly(Program(c.req)) /\ Program(c.req) \in Seq(Stages)
           /\ c.stage \in 1..Len(Program(c.req)) /\ Len(Program(c.req)) \in Nat
           /\ DOMAIN Program(c.req) = 1..Len(Program(c.req))
           /\ c.stage \in Nat \ {0}
           /\ Program(c.req)[c.stage] \in Stages
           /\ NamesOf(c) \in Seq(PartNames) /\ NamesOf(c) # <<>>
           /\ 1 \in DOMAIN NamesOf(c) /\ NamesOf(c)[1] \in Range(NamesOf(c))
<1>1. Orderly(Program(c.req)) /\ c.stage \in DOMAIN Program(c.req)
  BY ProgramHas DEF Shape
<1>2. PICK P : P = Program(c.req)
  OBVIOUS
<1>3. P \in Seq(Stages)
  BY <1>1, <1>2, Zenon DEF Orderly
<1>4. Len(P) \in Nat /\ DOMAIN P = 1..Len(P) /\ \A i \in DOMAIN P : P[i] \in Stages
  BY <1>3
<1>5. P[c.stage] \in Stages /\ c.stage \in 1..Len(P) /\ c.stage \in Nat \ {0}
  BY <1>1, <1>2, <1>4
<1>6. NamesOf(c) \in Seq(PartNames)
  BY <1>2, <1>5 DEF NamesOf, Stages
<1>7. NamesOf(c) # <<>>
  BY <1>1 DEF NamesOf, Orderly
<1>8. 1 \in DOMAIN NamesOf(c) /\ NamesOf(c)[1] \in Range(NamesOf(c))
  BY <1>6, <1>7 DEF Range
<1>9. QED
  BY <1>1, <1>2, <1>3, <1>4, <1>5, <1>6, <1>7, <1>8

\* A sequence of one has one element.
LEMMA OnlyOne ==
    ASSUME NEW names \in Seq(PartNames), Len(names) = 1
    PROVE  DOMAIN names = {1} /\ Range(names) = {names[1]}
<1>1. DOMAIN names = {1}
  OBVIOUS
<1>2. QED
  BY <1>1 DEF Range

\* When the stage looks for the latest week or month, nothing was read before it.
LEMMA LatestStage ==
    ASSUME NEW c, Shape(c), DOMAIN c.got = Before(Program(c.req), c.stage),
           Range(NamesOf(c)) \cap Latests # {}
    PROVE  /\ DOMAIN c.got = {} /\ Range(NamesOf(c)) = {NamesOf(c)[1]}
           /\ NamesOf(c)[1] \in Latests
<1>1. c.stage = 1 /\ Len(NamesOf(c)) = 1
  <2>1. Orderly(Program(c.req)) /\ c.stage \in DOMAIN Program(c.req)
    BY StageIs DEF Shape
  <2>2. QED
    BY <2>1 DEF Orderly, NamesOf
<1>2. Range(NamesOf(c)) = {NamesOf(c)[1]}
  BY <1>1, StageIs, OnlyOne
<1>3. QED
  BY <1>1, <1>2, BeforeFirst

\* The last query of the stage has ended.
StageEnds(S, c, raw) ==
    /\ \A g \in S : Dated(g)
    /\ Shape(c) /\ c.at = "running" /\ IsRunning(S, c)
    /\ RawIsRead(S, c, raw) /\ \A j \in DOMAIN raw : raw[j].state # "pending"

\* What each part is then.
Gets(S, c, raw, got) ==
    /\ DOMAIN got = Before(Program(c.req), c.stage + 1)
    /\ DOMAIN got = Range(NamesOf(c)) \cup DOMAIN c.got
    /\ \A p \in Range(NamesOf(c)) :
          \/ WasRead(S, c, p, got[p])
          \/ /\ got[p] = None /\ p \in NewFailures(c, raw)
             /\ \E i \in DOMAIN NamesOf(c) : raw[i].state = "failed"
    /\ \A p \in DOMAIN c.got \ Range(NamesOf(c)) : got[p] = c.got[p]

\* What a call has after a stage was read, or failed in a gather.
LEMMA NewGotIs ==
    ASSUME NEW S, NEW c, NEW raw, StageEnds(S, c, raw)
    PROVE  Gets(S, c, raw, NewGot(c, raw))
<1>0. /\ Shape(c) /\ IsRunning(S, c) /\ RawIsRead(S, c, raw)
      /\ \A j \in DOMAIN raw : raw[j].state # "pending"
  BY DEF StageEnds
<1> DEFINE names == NamesOf(c)
           got   == NewGot(c, raw)
<1>1. DOMAIN got = Range(names) \cup DOMAIN c.got
  BY DEF NewGot
<1>2. DOMAIN got = Before(Program(c.req), c.stage + 1)
  <2>1. DOMAIN c.got = Before(Program(c.req), c.stage)
    BY <1>0 DEF IsRunning
  <2>2. c.stage \in Nat \ {0}
    BY <1>0, StageIs
  <2>3. PICK n : n = c.stage
    OBVIOUS
  <2>4. Before(Program(c.req), n + 1) = Before(Program(c.req), n) \cup Range(Program(c.req)[n].parts)
    BY <2>2, <2>3, BeforeNext
  <2> HIDE DEF got
  <2>5. QED
    BY <1>1, <2>1, <2>3, <2>4 DEF NamesOf
<1>3. ASSUME NEW p \in Range(names)
      PROVE  \/ WasRead(S, c, p, got[p])
             \/ /\ got[p] = None /\ p \in NewFailures(c, raw)
                /\ \E i \in DOMAIN names : raw[i].state = "failed"
  <2>1. PICK k \in DOMAIN names : k = Slot(names, p) /\ names[k] = p
    BY SlotIs
  <2>2. got[p] = IF raw[k].state = "failed" THEN None ELSE raw[k].value
    BY <2>1 DEF NewGot
  <2>3. k \in DOMAIN raw /\ raw[k].state # "pending"
    BY <1>0 DEF RawIsRead, NamesOf
  <2>4. CASE raw[k].state = "failed"
    BY <2>1, <2>2, <2>4 DEF NewFailures
  <2>5. CASE raw[k].state # "failed"
    <3>1. raw[k] \notin {Pending, Failed}
      BY <2>3, <2>5 DEF Pending, Failed
    <3>2. WasRead(S, c, names[k], raw[k].value)
      BY <1>0, <2>3, <3>1 DEF RawIsRead, NamesOf
    <3>3. QED
      BY <2>1, <2>2, <2>5, <3>2
  <2>6. QED
    BY <2>4, <2>5
<1>4. \A p \in DOMAIN c.got \ Range(names) : got[p] = c.got[p]
  BY DEF NewGot
<1> HIDE DEF got
<1>5. Gets(S, c, raw, got)
  BY <1>1, <1>2, <1>3, <1>4 DEF Gets
<1>6. QED
  BY <1>5 DEF got

\* The period when the stage has ended.
LEMMA NewPeriodIs ==
    ASSUME NEW S, NEW c, NEW raw, StageEnds(S, c, raw),
           NEW d, d.req = c.req, d.got = NewGot(c, raw), d.period = NewPeriod(c, raw)
    PROVE  /\ d.period \in Optional(Weeks \cup Calendar)
           /\ Resolved(d)
           /\ \A p \in DOMAIN d.got : \A v : WasRead(S, c, p, v) => WasRead(S, d, p, v)
<1> DEFINE names == NamesOf(c)
<1>a. Gets(S, c, raw, d.got)
  BY NewGotIs
<1>0. /\ DOMAIN d.got = Range(names) \cup DOMAIN c.got
      /\ \A p \in DOMAIN c.got \ Range(names) : d.got[p] = c.got[p]
  BY <1>a DEF Gets
<1>b. Shape(c) /\ IsRunning(S, c) /\ \A g \in S : Dated(g)
  BY DEF StageEnds
<1>1. CASE Range(names) \cap Latests # {}
  <2>1. /\ DOMAIN c.got = {} /\ Range(names) = {names[1]} /\ names[1] \in Latests
    BY <1>1, <1>b, LatestStage DEF IsRunning
  <2>2. d.period = d.got[names[1]]
    BY <2>1 DEF NewPeriod
  <2>3. DOMAIN d.got = {names[1]}
    BY <1>0, <2>1
  <2>4. d.got[names[1]] = None \/ WasRead(S, c, names[1], d.got[names[1]])
    <3>1. names[1] \in Range(names)
      BY <2>1
    <3>2. QED
      BY <1>a, <3>1 DEF Gets
  <2>5. ASSUME WasRead(S, c, names[1], d.got[names[1]])
        PROVE  d.period \in Optional(Weeks \cup Calendar)
    <3>1. PICK g \in S : d.got[names[1]] = Fetch(g, c.req, c.period, names[1])
      BY <2>5 DEF WasRead
    <3>2. Dated(g)
      BY <1>b, <3>1
    <3>3. /\ Fetch(g, c.req, c.period, "latest_week") \in Optional(Weeks)
          /\ Fetch(g, c.req, c.period, "latest_month") \in Optional(Calendar)
      BY <3>2, LatestFetchIs
    <3>4. names[1] \in {"latest_week", "latest_month"}
      BY <2>1 DEF Latests
    <3>5. QED
      BY <2>2, <3>1, <3>3, <3>4 DEF Optional
  <2>6. d.period \in Optional(Weeks \cup Calendar)
    BY <2>2, <2>4, <2>5 DEF Optional
  <2>7. Resolved(d)
    BY <2>1, <2>2, <2>3 DEF Resolved
  <2>8. ASSUME NEW v, WasRead(S, c, names[1], v)
        PROVE  WasRead(S, d, names[1], v)
    <3>1. PICK g \in S : v = Fetch(g, c.req, c.period, names[1])
      BY <2>8 DEF WasRead
    <3>2. names[1] \in {"latest_week", "latest_month"}
      BY <2>1 DEF Latests
    <3>3. Fetch(g, c.req, c.period, names[1]) = Fetch(g, c.req, d.period, names[1])
      BY <3>2, LatestFetch
    <3>4. QED
      BY <3>1, <3>3 DEF WasRead
  <2>9. QED
    BY <2>3, <2>6, <2>7, <2>8
<1>2. CASE Range(names) \cap Latests = {}
  <2>1. names[1] \notin Latests
    BY <1>2, <1>b, StageIs
  <2>2. d.period = c.period
    BY <2>1 DEF NewPeriod
  <2>3. d.period \in Optional(Weeks \cup Calendar)
    BY <1>b, <2>2 DEF Shape
  <2>4. Resolved(d)
    BY <1>0, <1>2, <1>b, <2>2 DEF Resolved, IsRunning
  <2>5. \A p, v : WasRead(S, c, p, v) => WasRead(S, d, p, v)
    BY <2>2 DEF WasRead
  <2>6. QED
    BY <2>3, <2>4, <2>5
<1>3. QED
  BY <1>1, <1>2

\* A call whose stage has ended is as it should be.
LEMMA ResumeIsGood ==
    ASSUME NEW S, NEW c, NEW raw, StageEnds(S, c, raw)
    PROVE  GoodCall(S, Resume(c, raw))
<1> DEFINE P     == Program(c.req)
           stage == P[c.stage]
           names == NamesOf(c)
           got   == NewGot(c, raw)
           next  == AllPending(P[c.stage + 1])
           Raised   == ~stage.gathered /\ raw[1].state = "failed"
           None2    == Nothing(got, stage.needs)
<1>0. Shape(c) /\ c.at = "running" /\ IsRunning(S, c)
  BY DEF StageEnds
<1>a. PICK d : d = Resume(c, raw)
  OBVIOUS
<1>b. SUFFICES GoodCall(S, d)
  BY <1>a
<1>1. d = IF Raised THEN After(c, raw, "raised", c.stage, <<>>)
          ELSE IF None2 THEN After(c, raw, "nothing", c.stage, <<>>)
          ELSE IF c.stage = Len(P) THEN After(c, raw, "answered", c.stage, <<>>)
          ELSE After(c, raw, "running", c.stage + 1, next)
  BY <1>0, <1>a, ResumeIs
<1>2. /\ Orderly(P) /\ P \in Seq(Stages) /\ c.stage \in 1..Len(P) /\ Len(P) \in Nat
      /\ stage \in Stages /\ names \in Seq(PartNames) /\ 1 \in DOMAIN names
      /\ c.stage \in Nat \ {0} /\ names = stage.parts
  BY <1>0, StageIs DEF NamesOf
<1>c. c.stage \in DOMAIN P
  BY <1>0 DEF Shape
<1>3. \E at, n, x : d = After(c, raw, at, n, x) /\ at \in {"raised", "nothing", "answered", "running"}
  BY <1>1
<1>4. /\ d = [at |-> d.at, req |-> d.req, period |-> d.period, stage |-> d.stage,
              raw |-> d.raw, got |-> d.got, failures |-> d.failures]
      /\ d.req = c.req /\ d.period = NewPeriod(c, raw) /\ d.got = got
      /\ d.failures = NewFailures(c, raw)
      /\ d.at \in {"raised", "nothing", "answered", "running"}
  <2> HIDE DEF got
  <2>1. QED
    BY <1>3 DEF After, got
<1>5. d.period \in Optional(Weeks \cup Calendar) /\ Resolved(d)
  BY <1>4, NewPeriodIs
<1>6. \A p \in DOMAIN got : \A v : WasRead(S, c, p, v) => WasRead(S, d, p, v)
  BY <1>4, NewPeriodIs
<1>d. Gets(S, c, raw, got)
  BY NewGotIs
<1>7. /\ DOMAIN got = Before(P, c.stage + 1)
      /\ DOMAIN got = Range(names) \cup DOMAIN c.got
      /\ \A p \in Range(names) :
            \/ WasRead(S, c, p, got[p])
            \/ /\ got[p] = None /\ p \in NewFailures(c, raw)
               /\ \E i \in DOMAIN names : raw[i].state = "failed"
      /\ \A p \in DOMAIN c.got \ Range(names) : got[p] = c.got[p]
  <2> HIDE DEF got
  <2>1. QED
    BY <1>d DEF Gets
<1>8. DOMAIN c.got = Before(P, c.stage) /\ GotIsRead(S, c) /\ Found(c, c.stage - 1)
  BY <1>0 DEF IsRunning
<1> HIDE DEF got, P, stage, names, next
\* What was needed before is still there.
<1>9. Found(d, c.stage - 1)
  <2>1. ASSUME NEW i \in 1..(c.stage - 1)
        PROVE  ~Nothing(got, P[i].needs)
    <3>1. ~Nothing(c.got, P[i].needs)
      BY <1>8 DEF Found, P
    <3>2. i \in DOMAIN P /\ c.stage \in DOMAIN P /\ i < c.stage
      BY <1>2, <1>c
    <3>3. P[i].needs \notin Range(names)
      BY <1>2, <3>2 DEF Orderly, stage
    <3>4. P[i].needs # "" => P[i].needs \in DOMAIN c.got
      <4>1. P[i].needs \in Range(P[i].parts) \cup {""} \cup (Before(P, i) \ Gathered(P))
        BY <1>2, <3>2 DEF Orderly
      <4>2. P[i].needs \in Range(P[i].parts) => P[i].needs \in Before(P, c.stage)
        BY Members
      <4>3. P[i].needs \in Before(P, i) => P[i].needs \in Before(P, c.stage)
        <5>1. ASSUME P[i].needs \in Before(P, i)
              PROVE  P[i].needs \in Before(P, c.stage)
          <6>1. PICK k \in 1..(i - 1) : P[i].needs \in Range(P[k].parts)
            BY <5>1, Members
          <6>2. k \in 1..(c.stage - 1)
            BY <1>2, <6>1
          <6>3. QED
            BY <6>1, <6>2, Members
        <5>2. QED
          BY <5>1
      <4>4. QED
        BY <1>8, <4>1, <4>2, <4>3
    <3>5. QED
      BY <1>7, <3>1, <3>3, <3>4 DEF Nothing
  <2>2. QED
    BY <1>4, <2>1 DEF Found, P
\* What was not read has failed, in a gather.
<1>10. ASSUME ~Raised
       PROVE  GotIsRead(S, d)
  <2>1. ASSUME NEW p \in Range(names)
        PROVE  WasRead(S, d, p, got[p]) \/ (got[p] = None /\ p \in Gathered(P))
    <3>1. CASE WasRead(S, c, p, got[p])
      BY <1>6, <1>7, <3>1
    <3>2. CASE /\ got[p] = None
               /\ \E i \in DOMAIN names : raw[i].state = "failed"
      <4>1. stage.gathered
        <5>1. SUFFICES ASSUME ~stage.gathered
                       PROVE  FALSE
          OBVIOUS
        <5>2. Len(names) = 1
          BY <1>2, <1>c, <5>1 DEF Orderly, stage
        <5>3. DOMAIN names = {1}
          BY <1>2, <5>2, OnlyOne
        <5>4. QED
          BY <1>10, <3>2, <5>1, <5>3
      <4>2. p \in Gathered(P)
        BY <1>2, <1>c, <4>1, Members DEF stage
      <4>3. QED
        BY <3>2, <4>2
    <3>3. QED
      BY <1>7, <3>1, <3>2
  <2>2. ASSUME NEW p \in DOMAIN c.got \ Range(names)
        PROVE  WasRead(S, d, p, got[p]) \/ (got[p] = None /\ p \in Gathered(P))
    <3>1. got[p] = c.got[p]
      BY <1>7
    <3>2. WasRead(S, c, p, c.got[p]) \/ (c.got[p] = None /\ p \in Gathered(P))
      BY <1>8 DEF GotIsRead, P
    <3>3. QED
      BY <1>6, <1>7, <3>1, <3>2
  <2>3. QED
    BY <1>4, <1>7, <2>1, <2>2 DEF GotIsRead, P
<1>11. d.at \in {"raised", "nothing", "answered", "running"} /\ (Raised => d.at = "raised")
  BY <1>1, <1>4 DEF After
<1>12. CASE d.at = "raised"
  <2>1. d.stage = c.stage
    BY <1>1, <1>12 DEF After
  <2>2. Shape(d)
    BY <1>0, <1>c, <1>4, <1>5, <2>1 DEF Shape, P
  <2>3. QED
    BY <1>12, <2>2 DEF GoodCall
<1>13. CASE d.at = "nothing"
  <2>1. ~Raised /\ d.stage = c.stage /\ None2
    BY <1>1, <1>13 DEF After
  <2>2. Shape(d)
    BY <1>0, <1>c, <1>4, <1>5, <2>1 DEF Shape, P
  <2>3. d.failures # {} \/ WasRead(S, d, stage.needs, got[stage.needs])
    <3>1. stage.needs # ""
      BY <2>1 DEF Nothing
    <3>2. stage.needs \in Range(names) \/ stage.needs \in DOMAIN c.got \ Gathered(P)
      BY <1>2, <1>c, <1>8, <3>1 DEF Orderly, stage
    <3>3. CASE stage.needs \in Range(names)
      BY <1>4, <1>6, <1>7, <3>3
    <3>4. CASE stage.needs \in (DOMAIN c.got \ Gathered(P)) \ Range(names)
      <4>1. WasRead(S, c, stage.needs, c.got[stage.needs])
        BY <1>8, <3>4 DEF GotIsRead, P
      <4>2. QED
        BY <1>6, <1>7, <3>4, <4>1
    <3>5. QED
      BY <3>2, <3>3, <3>4
  <2>4. IsNothing(S, d)
    BY <1>4, <1>5, <1>7, <1>9, <1>10, <2>1, <2>3 DEF IsNothing, P, stage
  <2>5. QED
    BY <1>13, <2>2, <2>4 DEF GoodCall
<1>14. ASSUME ~Raised, ~None2
       PROVE  Found(d, c.stage)
  <2>1. ASSUME NEW i \in 1..c.stage
        PROVE  ~Nothing(got, P[i].needs)
    <3>1. CASE i = c.stage
      BY <1>14, <3>1 DEF stage
    <3>2. CASE i # c.stage
      <4>1. i \in 1..(c.stage - 1)
        BY <1>2, <3>2
      <4>2. QED
        BY <1>4, <1>9, <4>1 DEF Found, P
    <3>3. QED
      BY <3>1, <3>2
  <2>2. QED
    BY <1>4, <2>1 DEF Found, P
<1>15. CASE d.at = "answered"
  <2>1. ~Raised /\ d.stage = c.stage /\ ~None2 /\ c.stage = Len(P)
    BY <1>1, <1>15 DEF After
  <2>2. Shape(d)
    BY <1>0, <1>c, <1>4, <1>5, <2>1 DEF Shape, P
  <2>3. DOMAIN got = Parts(P)
    BY <1>2, <1>7, <2>1, BeforeAll
  <2>4. IsAnswered(S, d)
    BY <1>4, <1>5, <1>10, <1>14, <2>1, <2>3 DEF IsAnswered, P
  <2>5. QED
    BY <1>15, <2>2, <2>4 DEF GoodCall
<1>16. CASE d.at = "running"
  <2>1. ~Raised /\ ~None2 /\ c.stage # Len(P) /\ d.stage = c.stage + 1 /\ d.raw = next
    BY <1>1, <1>16 DEF After
  <2>2. c.stage + 1 \in DOMAIN P
    BY <1>2, <2>1
  <2>3. Shape(d)
    BY <1>0, <1>4, <1>5, <2>1, <2>2 DEF Shape, P
  <2>4. RawIsRead(S, d, d.raw)
    BY <1>4, <2>1 DEF RawIsRead, AllPending, next, P
  <2>5. Found(d, d.stage - 1)
    <3>1. d.stage - 1 = c.stage
      BY <1>2, <2>1
    <3>2. QED
      BY <1>14, <2>1, <3>1
  <2>6. IsRunning(S, d)
    BY <1>4, <1>5, <1>7, <1>10, <2>1, <2>4, <2>5 DEF IsRunning, P
  <2>7. QED
    BY <1>16, <2>3, <2>6 DEF GoodCall
<1>17. QED
  BY <1>11, <1>12, <1>13, <1>15, <1>16

\* A query of the stage has ended.
LEMMA EndIsGood ==
    ASSUME NEW S, \A g \in S : Dated(g), NEW c, GoodCall(S, c), c.at = "running",
           NEW i \in DOMAIN c.raw, NEW x,
           x = Failed \/ (x = Value(x.value) /\ WasRead(S, c, NamesOf(c)[i], x.value)),
           NEW raw, raw = [c.raw EXCEPT ![i] = x]
    PROVE  /\ GoodCall(S, [c EXCEPT !.raw = raw])
           /\ (\A j \in DOMAIN raw : raw[j].state # "pending") => GoodCall(S, Resume(c, raw))
<1>1. Shape(c) /\ IsRunning(S, c)
  BY DEF GoodCall
<1>2. RawIsRead(S, c, raw)
  <2>1. DOMAIN raw = DOMAIN c.raw /\ raw[i] = x /\ \A j \in DOMAIN raw \ {i} : raw[j] = c.raw[j]
    OBVIOUS
  <2>2. RawIsRead(S, c, c.raw)
    BY <1>1 DEF IsRunning
  <2>3. \A j \in DOMAIN raw : \/ raw[j] \in {Pending, Failed}
                              \/ raw[j] = Value(raw[j].value) /\ WasRead(S, c, NamesOf(c)[j], raw[j].value)
    BY <2>1, <2>2 DEF RawIsRead, NamesOf
  <2>4. QED
    BY <2>1, <2>2, <2>3 DEF RawIsRead, NamesOf
<1>3. (\A j \in DOMAIN raw : raw[j].state # "pending") => GoodCall(S, Resume(c, raw))
  BY <1>1, <1>2, ResumeIsGood DEF StageEnds
<1>4. GoodCall(S, [c EXCEPT !.raw = raw])
  <2> DEFINE d == [c EXCEPT !.raw = raw]
  <2>1. d = [at |-> "running", req |-> c.req, period |-> c.period, stage |-> c.stage,
             raw |-> raw, got |-> c.got, failures |-> c.failures]
    BY <1>1 DEF Shape
  <2> HIDE DEF d
  <2>2. /\ d.at = "running" /\ d.req = c.req /\ d.period = c.period /\ d.stage = c.stage
        /\ d.raw = raw /\ d.got = c.got /\ d.failures = c.failures
    BY <2>1
  <2>3. Shape(d)
    BY <1>1, <2>1, <2>2 DEF Shape
  <2>4. \A p, v : WasRead(S, c, p, v) <=> WasRead(S, d, p, v)
    BY <2>2 DEF WasRead
  <2>5. IsRunning(S, d)
    <3>1. RawIsRead(S, d, raw)
      BY <1>2, <2>2, <2>4 DEF RawIsRead
    <3>2. GotIsRead(S, d) /\ Found(d, d.stage - 1) /\ Resolved(d)
      BY <1>1, <2>2, <2>4 DEF IsRunning, GotIsRead, Found, Resolved
    <3>3. QED
      BY <1>1, <2>2, <3>1, <3>2 DEF IsRunning
  <2>6. GoodCall(S, d)
    BY <2>2, <2>3, <2>5 DEF GoodCall
  <2>7. QED
    BY <2>6 DEF d
<1>5. QED
  BY <1>3, <1>4

\* Every program has a first stage.
LEMMA FirstStage ==
    ASSUME NEW r \in Requests
    PROVE  1 \in DOMAIN Program(r)
<1>1. ToolNeeds(r) # {}
  BY DEF ToolNeeds
<1>2. PICK P : P = Program(r)
  OBVIOUS
<1>3. Needs(P) # {} /\ Orderly(P)
  BY <1>1, <1>2, ProgramHas
<1>4. P \in Seq(Stages)
  BY <1>3, Zenon DEF Orderly
<1>5. \E i : i \in DOMAIN P
  BY <1>3 DEF Needs
<1>6. QED
  BY <1>2, <1>4, <1>5

\* A call that starts.
LEMMA StartIsGood ==
    ASSUME NEW S, NEW r \in Requests
    PROVE  GoodCall(S, [at |-> "running", req |-> r, period |-> r.period, stage |-> 1,
                        raw |-> AllPending(Program(r)[1]), got |-> <<>>, failures |-> {}])
<1> DEFINE first == AllPending(Program(r)[1])
           d == [at |-> "running", req |-> r, period |-> r.period, stage |-> 1,
                 raw |-> first, got |-> <<>>, failures |-> {}]
<1>1. first = [i \in DOMAIN Program(r)[1].parts |-> Pending]
  BY DEF AllPending
<1> HIDE DEF first
<1>2. /\ d.at = "running" /\ d.req = r /\ d.period = r.period /\ d.stage = 1
      /\ d.raw = first /\ d.got = <<>> /\ DOMAIN d.got = {} /\ d.failures = {}
  OBVIOUS
<1>3. Shape(d)
  <2>1. r.period \in Optional(Weeks \cup Calendar)
    BY RequestsFit DEF Fits
  <2>2. QED
    BY <2>1, FirstStage DEF Shape
<1> HIDE DEF d
<1>4. IsRunning(S, d)
  <2>1. DOMAIN d.got = Before(Program(r), 1)
    BY <1>2, BeforeFirst
  <2>2. GotIsRead(S, d) /\ Resolved(d)
    BY <1>2 DEF GotIsRead, Resolved
  <2>3. RawIsRead(S, d, d.raw)
    BY <1>1, <1>2 DEF RawIsRead
  <2>4. Found(d, d.stage - 1)
    BY <1>2 DEF Found
  <2>5. QED
    BY <1>2, <2>1, <2>2, <2>3, <2>4 DEF IsRunning
<1>5. GoodCall(S, d)
  BY <1>2, <1>3, <1>4 DEF GoodCall
<1>6. QED
  BY <1>5 DEF d, first

-----------------------------------------------------------------------------
(* The world.                                                              *)

\* The rows an INSERT loads have the keys they were grouped by.
LEMMA SalesRowsAre ==
    ASSUME NEW docs \in SUBSET Issuable, NEW t, NEW W
    PROVE  /\ \A r \in SalesRows(docs, t, W) : r.tenant = t /\ r.week \in W
           /\ \A r, s \in SalesRows(docs, t, W) : SalesKey(r) = SalesKey(s) => r = s
<1> DEFINE Same(w, s, k) == {e \in Own(docs, t) : e.week = w /\ e.store = s /\ e.sku = k}
           Line(d) == [tenant |-> t, week |-> d.week, store |-> d.store, sku |-> d.sku,
                       brand |-> BrandOf(t, d.sku), n |-> Cardinality(Same(d.week, d.store, d.sku))]
<1>1. ASSUME NEW r \in SalesRows(docs, t, W)
      PROVE  \E d \in Own(docs, t) : d.week \in W /\ r = Line(d)
  BY DEF SalesRows
<1> HIDE DEF Same
<1>2. \A r \in SalesRows(docs, t, W) : r.tenant = t /\ r.week \in W
  BY <1>1
<1>3. ASSUME NEW r \in SalesRows(docs, t, W), NEW s \in SalesRows(docs, t, W),
             SalesKey(r) = SalesKey(s)
      PROVE  r = s
  <2>1. PICK d \in Own(docs, t) : r = Line(d)
    BY <1>1
  <2>2. PICK e \in Own(docs, t) : s = Line(e)
    BY <1>1
  <2>3. d.week = e.week /\ d.store = e.store /\ d.sku = e.sku
    BY <1>3, <2>1, <2>2 DEF SalesKey
  <2>4. QED
    BY <2>1, <2>2, <2>3
<1>4. QED
  BY <1>2, <1>3

\* The INSERT of the stock writes one row a key, of the tenant and the weeks.
LEMMA StockRowsAre ==
    ASSUME NEW docs \in SUBSET Issuable, NEW t, NEW W
    PROVE  /\ \A r \in StockRows(docs, t, W) : r.tenant = t /\ r.week \in W
           /\ \A r, s \in StockRows(docs, t, W) : StockKey(r) = StockKey(s) => r = s
<1> DEFINE Upto(w, s, k) == {d \in Own(docs, t) : d.week <= w /\ d.store = s /\ d.sku = k}
           Last(D) == CHOOSE d \in D : \A e \in D : d.week > e.week \/ (d.week = e.week /\ d.id >= e.id)
           Final(w, s, k) == Last(Upto(w, s, k))
           Line(x) == StockRow(t, x[1], x[2], x[3], Final(x[1], x[2], x[3]))
<1>1. ASSUME NEW r \in StockRows(docs, t, W)
      PROVE  \E x \in W \X Stores \X Skus : r = Line(x)
  BY DEF StockRows
<1> HIDE DEF Final
<1>2. \A r \in StockRows(docs, t, W) : r.tenant = t /\ r.week \in W
  BY <1>1 DEF StockRow
<1>3. ASSUME NEW r \in StockRows(docs, t, W), NEW s \in StockRows(docs, t, W),
             StockKey(r) = StockKey(s)
      PROVE  r = s
  <2>1. PICK x \in W \X Stores \X Skus : r = Line(x)
    BY <1>1
  <2>2. PICK y \in W \X Stores \X Skus : s = Line(y)
    BY <1>1
  <2>3. x[1] = y[1] /\ x[2] = y[2] /\ x[3] = y[3]
    BY <1>3, <2>1, <2>2 DEF StockKey, StockRow
  <2>4. QED
    BY <2>1, <2>2, <2>3
<1>4. QED
  BY <1>2, <1>3

\* The window a refresh deletes is of weeks.
LEMMA WindowIsWeeks ==
    ASSUME NEW docs \in SUBSET Issuable, NEW t
    PROVE  Window(docs, t) \subseteq Weeks
<1> DEFINE weeks == {d.week : d \in Own(docs, t)}
<1>1. Weeks = 1..Today /\ Today \in Nat
  BY Basics DEF Weeks
<1>2. \A d \in Issuable : d.week \in Weeks
  BY Basics DEF Document
<1>3. weeks \subseteq 1..Today
  BY <1>1, <1>2 DEF Own
<1>4. Window(docs, t) = (IF weeks = {} THEN 1 ELSE Min(weeks))..Today
  BY DEF Window
<1> HIDE DEF weeks
<1>5. CASE weeks = {}
  BY <1>1, <1>4, <1>5
<1>6. CASE weeks # {}
  <2>1. weeks \in SUBSET Nat
    BY <1>1, <1>3
  <2>2. \E x \in weeks : \A y \in weeks : x <= y
    BY <1>6, <2>1, LeastNat
  <2>3. Min(weeks) \in weeks
    BY <2>2 DEF Min
  <2>4. PICK m \in 1..Today : m = Min(weeks)
    BY <1>3, <2>3
  <2>5. Window(docs, t) = m..Today
    BY <1>4, <1>6, <2>4
  <2>6. QED
    BY <1>1, <2>4, <2>5
<1>7. QED
  BY <1>5, <1>6

\* The warehouse to begin with.
LEMMA LoadedIsGood ==
    ASSUME NEW docs \in SUBSET Issuable
    PROVE  GoodDb(Loaded(docs))
<1> DEFINE sales == UNION {SalesRows(docs, t, Weeks) : t \in Tenants}
           stock == UNION {StockRows(docs, t, Weeks) : t \in Tenants}
<1>1. Loaded(docs) = [docs |-> docs, sales |-> sales, stock |-> stock]
  BY DEF Loaded
<1>2. \A r \in sales : r \in SalesRows(docs, r.tenant, Weeks) /\ r.week \in Weeks
  BY SalesRowsAre
<1>3. \A r \in stock : r \in StockRows(docs, r.tenant, Weeks) /\ r.week \in Weeks
  BY StockRowsAre
<1> HIDE DEF sales, stock
<1>4. ASSUME NEW r \in sales, NEW s \in sales, SalesKey(r) = SalesKey(s)
      PROVE  r = s
  <2>1. r.tenant = s.tenant
    BY <1>4 DEF SalesKey
  <2>2. r \in SalesRows(docs, r.tenant, Weeks) /\ s \in SalesRows(docs, r.tenant, Weeks)
    BY <1>2, <2>1
  <2>3. QED
    BY <1>4, <2>2, SalesRowsAre
<1>5. ASSUME NEW r \in stock, NEW s \in stock, StockKey(r) = StockKey(s)
      PROVE  r = s
  <2>1. r.tenant = s.tenant
    BY <1>5 DEF StockKey
  <2>2. r \in StockRows(docs, r.tenant, Weeks) /\ s \in StockRows(docs, r.tenant, Weeks)
    BY <1>3, <2>1
  <2>3. QED
    BY <1>5, <2>2, StockRowsAre
<1>6. QED
  BY <1>1, <1>2, <1>3, <1>4, <1>5 DEF GoodDb

\* The ERP changes a document.
LEMMA EditIsGood ==
    ASSUME NEW g, GoodDb(g), NEW cl, GoodCleared(g, cl), NEW docs \in SUBSET Issuable,
           NEW h, h = [g EXCEPT !.docs = docs]
    PROVE  GoodDb(h) /\ GoodCleared(h, cl)
<1>1. h = [docs |-> docs, sales |-> g.sales, stock |-> g.stock]
  BY DEF GoodDb
<1>2. h.docs = docs /\ h.sales = g.sales /\ h.stock = g.stock
  BY <1>1
<1>3. GoodDb(h)
  BY <1>1, <1>2 DEF GoodDb
<1>4. h["sales"] = g["sales"] /\ h["stock"] = g["stock"]
  BY <1>2
<1>5. GoodCleared(h, cl)
  BY <1>4 DEF GoodCleared
<1>6. QED
  BY <1>3, <1>5

\* A fact is replaced.
Replaced(g, h, table, rows) == h = [g EXCEPT ![table] = rows]

\* Fewer rows of a fact.
LEMMA FewerRowsAreGood ==
    ASSUME NEW g, GoodDb(g), NEW cl, GoodCleared(g, cl), NEW table \in {"sales", "stock"},
           NEW rows \in SUBSET g[table], NEW h, Replaced(g, h, table, rows)
    PROVE  GoodDb(h) /\ GoodCleared(h, cl) /\ h[table] = rows
<1>0. h = [g EXCEPT ![table] = rows]
  BY DEF Replaced
<1>1. CASE table = "sales"
  <2>1. h = [docs |-> g.docs, sales |-> rows, stock |-> g.stock]
    BY <1>0, <1>1 DEF GoodDb
  <2>2. h.docs = g.docs /\ h.sales = rows /\ h.stock = g.stock
    BY <2>1
  <2>3. rows \subseteq g.sales
    BY <1>1
  <2>4. GoodDb(h)
    BY <2>1, <2>2, <2>3 DEF GoodDb
  <2>5. h["sales"] \subseteq g["sales"] /\ h["stock"] = g["stock"]
    BY <2>2, <2>3
  <2>6. GoodCleared(h, cl)
    BY <2>5 DEF GoodCleared
  <2>7. QED
    BY <1>1, <2>2, <2>4, <2>6
<1>2. CASE table = "stock"
  <2>1. h = [docs |-> g.docs, sales |-> g.sales, stock |-> rows]
    BY <1>0, <1>2 DEF GoodDb
  <2>2. h.docs = g.docs /\ h.stock = rows /\ h.sales = g.sales
    BY <2>1
  <2>3. rows \subseteq g.stock
    BY <1>2
  <2>4. GoodDb(h)
    BY <2>1, <2>2, <2>3 DEF GoodDb
  <2>5. h["stock"] \subseteq g["stock"] /\ h["sales"] = g["sales"]
    BY <2>2, <2>3
  <2>6. GoodCleared(h, cl)
    BY <2>5 DEF GoodCleared
  <2>7. QED
    BY <1>2, <2>2, <2>4, <2>6
<1>3. QED
  BY <1>1, <1>2

\* The DELETE of a refresh.
LEMMA DeleteIsGood ==
    ASSUME NEW g, GoodDb(g), NEW cl, GoodCleared(g, cl), NEW t \in Tenants,
           NEW table \in {"sales", "stock"}, NEW W, W \subseteq Weeks,
           NEW h, Replaced(g, h, table, {r \in g[table] : r.tenant # t \/ r.week \notin W})
    PROVE  GoodDb(h) /\ GoodCleared(h, [cl EXCEPT ![t] = [table |-> table, weeks |-> W]])
<1> DEFINE rows == {r \in g[table] : r.tenant # t \/ r.week \notin W}
           new  == [cl EXCEPT ![t] = [table |-> table, weeks |-> W]]
<1>1. rows \in SUBSET g[table] /\ Replaced(g, h, table, rows)
  OBVIOUS
<1>2. \A r \in rows : r.tenant # t \/ r.week \notin W
  OBVIOUS
<1> HIDE DEF rows
<1>3. GoodDb(h) /\ GoodCleared(h, cl) /\ h[table] = rows
  BY <1>1, FewerRowsAreGood
<1>4. DOMAIN new = Tenants /\ new[t] = [table |-> table, weeks |-> W]
      /\ \A u \in Tenants \ {t} : new[u] = cl[u]
  BY <1>3 DEF GoodCleared
<1>5. /\ new[t].table = table /\ new[t].weeks = W
  BY <1>4
<1> HIDE DEF new
<1>6. GoodCleared(h, new)
  BY <1>2, <1>3, <1>4, <1>5 DEF GoodCleared
<1>7. QED
  BY <1>3, <1>6 DEF new

\* The INSERT of a refresh.
LEMMA InsertIsGood ==
    ASSUME NEW g, GoodDb(g), NEW cl, GoodCleared(g, cl), NEW t \in Tenants, cl[t] # None,
           NEW h, h = [g EXCEPT ![cl[t].table] = @ \cup Rows(g.docs, t, cl[t].weeks, cl[t].table)]
    PROVE  GoodDb(h) /\ GoodCleared(h, [cl EXCEPT ![t] = None])
<1> DEFINE table == cl[t].table
           W     == cl[t].weeks
           rows  == Rows(g.docs, t, W, table)
           new   == [cl EXCEPT ![t] = None]
<1>0. /\ table \in {"sales", "stock"} /\ W \subseteq Weeks /\ g.docs \in SUBSET Issuable
      /\ \A r \in g[table] : r.tenant # t \/ r.week \notin W
  BY DEF GoodCleared, GoodDb
<1>1. DOMAIN new = Tenants /\ new[t] = None /\ \A u \in Tenants \ {t} : new[u] = cl[u]
  BY DEF GoodCleared
<1> HIDE DEF table, W, rows, new
<1>2. \A r \in rows : r.tenant = t /\ r.week \in W
  BY <1>0, SalesRowsAre, StockRowsAre DEF rows, Rows
<1>3. h = [g EXCEPT ![table] = g[table] \cup rows]
  BY DEF table, W, rows
<1>4. CASE table = "sales"
  <2>1. rows = SalesRows(g.docs, t, W)
    BY <1>4 DEF rows, Rows
  <2>2. h = [docs |-> g.docs, sales |-> g.sales \cup rows, stock |-> g.stock]
    BY <1>3, <1>4 DEF GoodDb
  <2>3. h.docs = g.docs /\ h.sales = g.sales \cup rows /\ h.stock = g.stock
    BY <2>2
  <2>4. ASSUME NEW r \in h.sales, NEW s \in h.sales, SalesKey(r) = SalesKey(s)
        PROVE  r = s
    <3>1. r.tenant = s.tenant /\ r.week = s.week
      BY <2>4 DEF SalesKey
    <3>2. CASE r \in g.sales /\ s \in g.sales
      BY <2>4, <3>2 DEF GoodDb
    <3>3. CASE r \in rows /\ s \in rows
      BY <1>0, <2>1, <2>4, <3>3, SalesRowsAre
    <3>4. CASE (r \in g.sales /\ s \in rows) \/ (r \in rows /\ s \in g.sales)
      BY <1>0, <1>2, <1>4, <3>1, <3>4
    <3>5. QED
      BY <2>3, <3>2, <3>3, <3>4
  <2>5. GoodDb(h)
    BY <1>0, <1>2, <2>2, <2>3, <2>4 DEF GoodDb
  <2>6. h["sales"] = g["sales"] \cup rows /\ h["stock"] = g["stock"]
    BY <2>3
  <2>7. GoodCleared(h, new)
    BY <1>1, <1>2, <2>6 DEF GoodCleared
  <2>8. QED
    BY <2>5, <2>7 DEF new
<1>5. CASE table = "stock"
  <2>1. rows = StockRows(g.docs, t, W)
    BY <1>5 DEF rows, Rows
  <2>2. h = [docs |-> g.docs, sales |-> g.sales, stock |-> g.stock \cup rows]
    BY <1>3, <1>5 DEF GoodDb
  <2>3. h.docs = g.docs /\ h.sales = g.sales /\ h.stock = g.stock \cup rows
    BY <2>2
  <2>4. ASSUME NEW r \in h.stock, NEW s \in h.stock, StockKey(r) = StockKey(s)
        PROVE  r = s
    <3>1. r.tenant = s.tenant /\ r.week = s.week
      BY <2>4 DEF StockKey
    <3>2. CASE r \in g.stock /\ s \in g.stock
      BY <2>4, <3>2 DEF GoodDb
    <3>3. CASE r \in rows /\ s \in rows
      BY <1>0, <2>1, <2>4, <3>3, StockRowsAre
    <3>4. CASE (r \in g.stock /\ s \in rows) \/ (r \in rows /\ s \in g.stock)
      BY <1>0, <1>2, <1>5, <3>1, <3>4
    <3>5. QED
      BY <2>3, <3>2, <3>3, <3>4
  <2>5. GoodDb(h)
    BY <1>0, <1>2, <2>2, <2>3, <2>4 DEF GoodDb
  <2>6. h["stock"] = g["stock"] \cup rows /\ h["sales"] = g["sales"]
    BY <2>3
  <2>7. GoodCleared(h, new)
    BY <1>1, <1>2, <2>6 DEF GoodCleared
  <2>8. QED
    BY <2>5, <2>7 DEF new
<1>6. QED
  BY <1>0, <1>4, <1>5

-----------------------------------------------------------------------------
(* The invariant is inductive.                                             *)

\* A good database has weeks of the calendar.
LEMMA GoodIsDated ==
    ASSUME NEW g, GoodDb(g)
    PROVE  Dated(g)
  BY DEF GoodDb, Dated

\* The invariant holds at first.
LEMMA InitInv == Init => IInv
<1> SUFFICES ASSUME Init
             PROVE  IInv
  OBVIOUS
<1>1. PICK docs \in Initially : db = Loaded(docs)
  BY DEF Init
<1>2. docs \in SUBSET Issuable
  BY <1>1, Basics
<1>3. GoodDb(db)
  BY <1>1, <1>2, LoadedIsGood
<1>4. GoodCleared(db, cleared)
  BY DEF Init, GoodCleared
<1>5. call.at = "idle" /\ seen = {}
  BY DEF Init, NoCall
<1>6. GoodCall(seen, call)
  BY <1>5 DEF GoodCall
<1>7. commits \in 0..MaxCommits /\ faults \in 0..MaxFaults
  BY Basics DEF Init
<1>8. QED
  BY <1>3, <1>4, <1>5, <1>6, <1>7 DEF IInv

\* A statement that leaves a good database behind.
LEMMA CommitKeeps ==
    ASSUME IInv, NEW new, Commit(new), GoodDb(new), GoodCleared(new, cleared')
    PROVE  IInv'
<1>1. /\ db' = new /\ call' = call /\ faults' = faults /\ commits' = commits + 1
      /\ commits < MaxCommits
      /\ seen' = IF call.at = "running" THEN seen \cup {new} ELSE seen
  BY DEF Commit
<1>2. PICK S, T, c : S = seen /\ T = seen' /\ c = call
  OBVIOUS
<1>3. GoodCall(S, c) /\ S \subseteq T
  BY <1>1, <1>2 DEF IInv
<1>4. GoodCall(T, c)
  BY <1>3, MoreSeen
<1>5. \A g \in seen' : Dated(g)
  BY <1>1, GoodIsDated DEF IInv
<1>6. commits' \in 0..MaxCommits
  BY <1>1, Basics DEF IInv
<1>7. call'.at = "running" => db' \in seen'
  BY <1>1
<1>8. GoodDb(db') /\ GoodCleared(db', cleared') /\ GoodCall(seen', call')
  BY <1>1, <1>2, <1>4
<1>9. faults' \in 0..MaxFaults
  BY <1>1 DEF IInv
<1>10. QED
  BY <1>5, <1>6, <1>7, <1>8, <1>9 DEF IInv

\* The database and the other variables stay, and the call is good.
LEMMA CallKeeps ==
    ASSUME IInv, UNCHANGED <<db, cleared, commits>>, faults' \in 0..MaxFaults,
           GoodCall(seen', call'), db' \in seen', \A g \in seen' : Dated(g)
    PROVE  IInv'
  BY DEF IInv

\* An edit of a document keeps it.
LEMMA EditKeeps ==
    ASSUME IInv, NEW d \in Issuable, EditDocument(d)
    PROVE  IInv'
<1> DEFINE edited == IF d \in db.docs THEN db.docs \ {d} ELSE db.docs \cup {d}
<1>1. PICK docs : docs = edited
  OBVIOUS
<1>2. PICK g, cl, new : g = db /\ cl = cleared /\ new = [db EXCEPT !.docs = docs]
  OBVIOUS
<1>3. GoodDb(g) /\ GoodCleared(g, cl)
  BY <1>2 DEF IInv
<1>4. docs \in SUBSET Issuable
  BY <1>1, <1>2, <1>3 DEF GoodDb
<1>5. new = [g EXCEPT !.docs = docs]
  BY <1>2
<1>6. GoodDb(new) /\ GoodCleared(new, cl)
  BY <1>3, <1>4, <1>5, EditIsGood
<1>7. Commit(new) /\ cleared' = cleared
  BY <1>1, <1>2 DEF EditDocument
<1>8. QED
  BY <1>2, <1>6, <1>7, CommitKeeps

\* The DELETE of a fact keeps it.
LEMMA DeleteKeeps ==
    ASSUME IInv, NEW t \in Tenants, NEW table \in {"sales", "stock"}, Delete(t, table)
    PROVE  IInv'
<1>1. PICK g, cl, W, new :
         /\ g = db /\ cl = cleared /\ W = Window(db.docs, t)
         /\ new = [db EXCEPT ![table] = {r \in @ : r.tenant # t \/ r.week \notin Window(db.docs, t)}]
  OBVIOUS
<1>2. GoodDb(g) /\ GoodCleared(g, cl)
  BY <1>1 DEF IInv
<1>3. g.docs \in SUBSET Issuable
  BY <1>2 DEF GoodDb
<1>4. W \subseteq Weeks
  BY <1>1, <1>3, WindowIsWeeks
<1>a. PICK rows : rows = {r \in g[table] : r.tenant # t \/ r.week \notin W}
  OBVIOUS
<1>b. new = [g EXCEPT ![table] = rows]
  BY <1>1, <1>a
<1>5. Replaced(g, new, table, rows)
  BY <1>b DEF Replaced
<1>6. GoodDb(new) /\ GoodCleared(new, [cl EXCEPT ![t] = [table |-> table, weeks |-> W]])
  BY <1>2, <1>4, <1>5, <1>a, DeleteIsGood
<1>7. Commit(new) /\ cleared' = [cl EXCEPT ![t] = [table |-> table, weeks |-> W]]
  BY <1>1 DEF Delete
<1>8. QED
  BY <1>6, <1>7, CommitKeeps

\* The INSERT of a fact keeps it.
LEMMA InsertKeeps ==
    ASSUME IInv, NEW t \in Tenants, Insert(t)
    PROVE  IInv'
<1>1. PICK g, cl, new :
         /\ g = db /\ cl = cleared
         /\ new = [db EXCEPT ![cleared[t].table] =
                      @ \cup Rows(db.docs, t, cleared[t].weeks, cleared[t].table)]
  OBVIOUS
<1>2. GoodDb(g) /\ GoodCleared(g, cl)
  BY <1>1 DEF IInv
<1>3. cl[t] # None
  BY <1>1 DEF Insert
<1>4. new = [g EXCEPT ![cl[t].table] = @ \cup Rows(g.docs, t, cl[t].weeks, cl[t].table)]
  BY <1>1
<1>5. GoodDb(new) /\ GoodCleared(new, [cl EXCEPT ![t] = None])
  BY <1>2, <1>3, <1>4, InsertIsGood
<1>6. Commit(new) /\ cleared' = [cl EXCEPT ![t] = None]
  BY <1>1 DEF Insert
<1>7. QED
  BY <1>5, <1>6, CommitKeeps

\* The start of a call keeps it.
LEMMA StartKeeps ==
    ASSUME IInv, NEW r \in Requests, Start(r)
    PROVE  IInv'
<1>1. /\ seen' = {db} /\ UNCHANGED <<db, cleared, commits, faults>>
      /\ call' = [at |-> "running", req |-> r, period |-> r.period, stage |-> 1,
                  raw |-> AllPending(Program(r)[1]), got |-> <<>>, failures |-> {}]
  BY DEF Start
<1>2. PICK S : S = seen'
  OBVIOUS
<1>3. GoodCall(seen', call')
  BY <1>1, <1>2, StartIsGood
<1>4. \A g \in seen' : Dated(g)
  BY <1>1, GoodIsDated DEF IInv
<1>5. faults' \in 0..MaxFaults
  BY <1>1 DEF IInv
<1>6. QED
  BY <1>1, <1>3, <1>4, <1>5, CallKeeps

\* A query ends, with what the database has or with a failure.
LEMMA EndKeeps ==
    ASSUME IInv, NEW i, Running(i), NEW x, End(i, x),
           \/ x = Failed
           \/ x = Value(Fetch(db, call.req, call.period, Program(call.req)[call.stage].parts[i])),
           UNCHANGED <<db, cleared, seen, commits>>, faults' \in 0..MaxFaults
    PROVE  IInv'
<1>1. call.at = "running" /\ i \in DOMAIN call.raw
  BY DEF Running
<1>2. PICK S, c, raw : S = seen /\ c = call /\ raw = [call.raw EXCEPT ![i] = x]
  OBVIOUS
<1>3. /\ \A g \in S : Dated(g)
      /\ GoodCall(S, c) /\ c.at = "running" /\ i \in DOMAIN c.raw /\ db \in S
  BY <1>1, <1>2 DEF IInv
<1>4. x = Failed \/ (x = Value(x.value) /\ WasRead(S, c, NamesOf(c)[i], x.value))
  BY <1>2, <1>3 DEF Value, WasRead, NamesOf
<1>5. raw = [c.raw EXCEPT ![i] = x]
  BY <1>2
<1>6. /\ GoodCall(S, [c EXCEPT !.raw = raw])
      /\ (\A j \in DOMAIN raw : raw[j].state # "pending") => GoodCall(S, Resume(c, raw))
  BY <1>3, <1>4, <1>5, EndIsGood
<1>7. call' = IF \E j \in DOMAIN raw : raw[j].state = "pending"
              THEN [c EXCEPT !.raw = raw] ELSE Resume(c, raw)
  BY <1>2 DEF End
<1>8. GoodCall(S, call')
  <2>1. PICK e : e = call'
    OBVIOUS
  <2>2. QED
    BY <1>6, <1>7
<1>9. QED
  BY <1>2, <1>3, <1>8, CallKeeps

\* Every step keeps it.
LEMMA NextInv == IInv /\ [Next]_vars => IInv'
<1> SUFFICES ASSUME IInv, [Next]_vars
             PROVE  IInv'
  OBVIOUS
<1>1. ASSUME NEW d \in Issuable, EditDocument(d)
      PROVE  IInv'
  BY <1>1, EditKeeps
<1>2. ASSUME NEW t \in Tenants, NEW table \in {"sales", "stock"}, Delete(t, table)
      PROVE  IInv'
  BY <1>2, DeleteKeeps
<1>3. ASSUME NEW t \in Tenants, Insert(t)
      PROVE  IInv'
  BY <1>3, InsertKeeps
<1>4. ASSUME NEW r \in Requests, Start(r)
      PROVE  IInv'
  BY <1>4, StartKeeps
<1>5. ASSUME NEW i \in Slots, Read(i)
      PROVE  IInv'
  <2>1. PICK x : x = Value(Fetch(db, call.req, call.period, Program(call.req)[call.stage].parts[i]))
    OBVIOUS
  <2>2. Running(i) /\ End(i, x) /\ UNCHANGED <<db, cleared, seen, commits, faults>>
    BY <1>5, <2>1 DEF Read
  <2>3. faults' \in 0..MaxFaults
    BY <2>2 DEF IInv
  <2>4. QED
    BY <2>1, <2>2, <2>3, EndKeeps
<1>6. ASSUME NEW i \in Slots, Fail(i)
      PROVE  IInv'
  <2>1. /\ Running(i) /\ End(i, Failed) /\ UNCHANGED <<db, cleared, seen, commits>>
        /\ faults < MaxFaults /\ faults' = faults + 1
    BY <1>6 DEF Fail
  <2>2. faults' \in 0..MaxFaults
    BY <2>1, Basics DEF IInv
  <2>3. QED
    BY <2>1, <2>2, EndKeeps
<1>7. CASE UNCHANGED vars
  BY <1>7 DEF IInv, vars
<1>8. QED
  BY <1>1, <1>2, <1>3, <1>4, <1>5, <1>6, <1>7 DEF Next, World

\* It holds at all times.
LEMMA Invariance == Spec => []IInv
<1>1. QED
  BY InitInv, NextInv, PTL DEF Spec

\* At all times the facts keep their primary keys through deletes and inserts, and a
\* call is at a stage of its program, for a week or month of the calendar, and has
\* read what the stages before it read.
THEOREM TypeCorrect == Spec => []TypeOK
<1>1. IInv => TypeOK
  <2> SUFFICES ASSUME IInv
               PROVE  TypeOK
    OBVIOUS
  <2>1. /\ db.docs \subseteq Issuable
        /\ \A r, s \in db.sales : SalesKey(r) = SalesKey(s) => r = s
        /\ \A r, s \in db.stock : StockKey(r) = StockKey(s) => r = s
    BY DEF IInv, GoodDb
  <2>2. /\ call.at \in {"idle", "running", "answered", "nothing", "raised"}
        /\ call.at # "idle" => Shape(call)
        /\ call.at = "running" => IsRunning(seen, call)
    BY DEF IInv, GoodCall
  <2>3. call.at # "idle" =>
           /\ call.req \in Requests
           /\ call.period \in Optional(Weeks \cup Calendar)
           /\ call.stage \in DOMAIN Program(call.req)
           /\ call.at = "running" => DOMAIN call.got =
                 UNION {Range(Program(call.req)[i].parts) : i \in 1..(call.stage - 1)}
    BY <2>2 DEF Shape, IsRunning, Before
  <2>4. commits \in 0..MaxCommits /\ faults \in 0..MaxFaults
    BY DEF IInv
  <2>5. QED
    BY <2>1, <2>2, <2>3, <2>4 DEF TypeOK
<1>2. QED
  BY Invariance, <1>1, PTL

-----------------------------------------------------------------------------
(* No report of a period without sales.                                    *)

\* The latest week of a tenant is a week of its sales.
LEMMA LatestSold ==
    ASSUME NEW g, Dated(g), NEW t, LatestSales(g, t) # None
    PROVE  \E s \in Own(g.sales, t) : s.week = LatestSales(g, t)
<1> DEFINE weeks == {s.week : s \in Own(g.sales, t)}
<1>1. weeks \subseteq Weeks
  BY DEF Dated, Own
<1>2. LatestSales(g, t) = Latest(weeks)
  BY DEF LatestSales
<1> HIDE DEF weeks
<1>3. LatestSales(g, t) \in weeks
  BY <1>1, <1>2, LatestIsOne DEF Optional
<1>4. QED
  BY <1>3 DEF weeks

\* What the queries of the reports say of a period.
LEMMA TotalsSold ==
    ASSUME NEW g, NEW t, NEW w
    PROVE  WeeklyTotals(g, t, w) # None => \E s \in Own(g.sales, t) : s.week = w
  BY DEF WeeklyTotals

\* A month that has totals has a line of sales.
LEMMA MonthSold ==
    ASSUME NEW g, NEW t, NEW m, NEW b, NEW st
    PROVE  MonthlyTotals(g, t, m, b, st) # None => \E s \in Own(g.sales, t) : MonthOf[s.week] = m
<1>1. SUFFICES ASSUME MonthlyTotals(g, t, m, b, st) # None
               PROVE  \E s \in Own(g.sales, t) : MonthOf[s.week] = m
  OBVIOUS
<1>2. PICK r \in Own(SalesMonthly(g), t) : r.month = m
  BY <1>1 DEF MonthlyTotals
<1>3. m \in Months(g, t)
  BY <1>2 DEF Months
<1>4. QED
  BY <1>3, MonthsAre

\* A row of a store is of a week that has a line of sales.
LEMMA StoreSold ==
    ASSUME NEW g, Dated(g), NEW t, NEW st, NEW w, NEW row \in StoreDashboard(g, t, st, w)
    PROVE  Is(w, row.week) /\ \E s \in Own(g.sales, t) : s.week = row.week
<1>1. row \in StoreView(g) /\ row.tenant = t /\ Is(w, row.week)
  BY DEF StoreDashboard, Own
<1> DEFINE N(s) == Amount({r \in Own(g.sales, s.tenant) :
                              r.store = s.store /\ r.week = LatestSales(g, s.tenant)})
           K(s) == Tickets({d \in Own(g.docs, s.tenant) :
                              d.store = s.store /\ d.week = LatestSales(g, s.tenant)})
           Line(s) == [tenant |-> s.tenant, id |-> s.store, week |-> LatestSales(g, s.tenant),
                       n |-> N(s), tickets |-> K(s)]
<1>0. StoreView(g) = {Line(s) : s \in {s \in DimStore : s.active /\ LatestSales(g, s.tenant) # None}}
  BY DEF StoreView
<1> HIDE DEF N, K
<1>2. PICK s \in DimStore : /\ LatestSales(g, s.tenant) # None
                            /\ row.tenant = s.tenant /\ row.week = LatestSales(g, s.tenant)
  BY <1>0, <1>1
<1>3. QED
  BY <1>1, <1>2, LatestSold

\* So is a row of a brand.
LEMMA BrandSold ==
    ASSUME NEW g, Dated(g), NEW t, NEW b, NEW w, NEW row \in BrandPerformance(g, t, b, w)
    PROVE  Is(w, row.week) /\ \E s \in Own(g.sales, t) : s.week = row.week
<1>1. row \in BrandView(g) /\ row.tenant = t /\ Is(w, row.week)
  BY DEF BrandPerformance, Own
<1> DEFINE N(s) == Amount({r \in Own(g.sales, s.tenant) :
                              r.brand = s.brand /\ r.week = LatestSales(g, s.tenant)})
           K(s) == Amount({p \in Own(Planned, s.tenant) :
                              p.brand = s.brand /\ p.week = LatestSales(g, s.tenant)})
           Line(s) == [tenant |-> s.tenant, id |-> s.brand, name |-> s.name, week |-> LatestSales(g, s.tenant),
                       n |-> N(s), plan |-> K(s)]
<1>0. BrandView(g) = {Line(s) : s \in {s \in ActiveBrands : LatestSales(g, s.tenant) # None}}
  BY DEF BrandView
<1> HIDE DEF N, K
<1>2. PICK s \in ActiveBrands : /\ LatestSales(g, s.tenant) # None
                                /\ row.tenant = s.tenant /\ row.week = LatestSales(g, s.tenant)
  BY <1>0, <1>1
<1>3. QED
  BY <1>1, <1>2, LatestSold

\* The queries the tools cannot do without.
LEMMA MainFetch ==
    ASSUME NEW g, NEW r, NEW w
    PROVE  /\ Fetch(g, r, w, "weekly_totals") = WeeklyTotals(g, r.tenant, w)
           /\ Fetch(g, r, w, "store_dashboard") = StoreDashboard(g, r.tenant, r.store, w)
           /\ Fetch(g, r, w, "brand_performance") = BrandPerformance(g, r.tenant, r.brand, w)
           /\ Fetch(g, r, w, "month") = MonthlyTotals(g, r.tenant, w, r.brand, r.store)
           /\ Fetch(g, r, w, "sku_master") = SkuMaster(r.tenant, r.sku)
<1>1. Fetch(g, r, w, "weekly_totals") = WeeklyTotals(g, r.tenant, w)
  BY DEF Fetch
<1>2. Fetch(g, r, w, "store_dashboard") = StoreDashboard(g, r.tenant, r.store, w)
  BY DEF Fetch
<1>3. Fetch(g, r, w, "brand_performance") = BrandPerformance(g, r.tenant, r.brand, w)
  BY DEF Fetch
<1>4. Fetch(g, r, w, "month") = MonthlyTotals(g, r.tenant, w, r.brand, r.store)
  BY DEF Fetch
<1>5. Fetch(g, r, w, "sku_master") = SkuMaster(r.tenant, r.sku)
  BY DEF Fetch
<1>6. QED
  BY <1>1, <1>2, <1>3, <1>4, <1>5

\* A reporting tool needs its main query.
LEMMA MainIsNeeded ==
    ASSUME NEW r, r.tool \in Reporting
    PROVE  Main(r.tool) \in ToolNeeds(r) /\ Main(r.tool) # ""
<1>1. CASE r.tool \in {"get_executive_weekly_briefing", "get_executive_summary"}
  BY <1>1 DEF Main, ToolNeeds
<1>2. CASE r.tool = "get_store_daily_briefing"
  BY <1>2 DEF Main, ToolNeeds
<1>3. CASE r.tool = "get_brand_weekly_review"
  BY <1>3 DEF Main, ToolNeeds
<1>4. CASE r.tool \in {"get_monthly_summary", "get_monthly_executive_briefing"}
  BY <1>4 DEF Main, ToolNeeds
<1>5. QED
  BY <1>1, <1>2, <1>3, <1>4 DEF Reporting

\* A stage before one of the program is one of the program.
LEMMA Earlier ==
    ASSUME NEW m, m \in Nat, NEW i, i \in 1..m, NEW k, k \in 1..(i - 1)
    PROVE  k \in 1..m
  OBVIOUS

\* What a tool that answered needed, it read.
LEMMA NeededWasRead ==
    ASSUME NEW S, NEW c, GoodCall(S, c), c.at = "answered", NEW p \in ToolNeeds(c.req), p # ""
    PROVE  p \in DOMAIN c.got /\ ~Nothing(c.got, p) /\ WasRead(S, c, p, c.got[p])
<1> DEFINE P == Program(c.req)
<1>1. Shape(c) /\ IsAnswered(S, c)
  BY DEF GoodCall
<1>2. Orderly(P) /\ P \in Seq(Stages) /\ Needs(P) = ToolNeeds(c.req)
  BY <1>1, StageIs, ProgramHas DEF Shape
<1>3. DOMAIN P = 1..Len(P) /\ Len(P) \in Nat
  BY <1>1, StageIs
<1>4. DOMAIN c.got = Parts(P) /\ GotIsRead(S, c) /\ Found(c, Len(P))
  BY <1>1 DEF IsAnswered
<1>5. Found(c, Len(P)) => \A i \in DOMAIN P : ~Nothing(c.got, P[i].needs)
  BY <1>3 DEF Found
<1> HIDE DEF P
<1>6. PICK i \in DOMAIN P : p = P[i].needs
  BY <1>2 DEF Needs
<1>7. ~Nothing(c.got, p)
  BY <1>4, <1>5, <1>6
<1>8. p \in DOMAIN c.got
  <2>1. CASE p \in Range(P[i].parts)
    BY <1>4, <1>6, <2>1, Members
  <2>2. CASE p \in Before(P, i)
    <3>1. PICK k \in 1..(i - 1) : p \in Range(P[k].parts)
      BY <2>2, Members
    <3>2. k \in DOMAIN P
      <4>1. PICK m : m = Len(P)
        OBVIOUS
      <4>2. m \in Nat /\ i \in 1..m
        BY <1>3, <1>6, <4>1
      <4>3. k \in 1..(i - 1)
        BY <3>1
      <4>4. k \in 1..m
        BY <4>2, <4>3, Earlier
      <4>5. QED
        BY <1>3, <4>1, <4>4
    <3>3. QED
      BY <1>4, <3>1, <3>2, Members
  <2>3. QED
    BY <1>2, <1>6, <2>1, <2>2 DEF Orderly
<1>9. c.got[p] # None
  BY <1>7 DEF Nothing
<1>10. QED
  BY <1>4, <1>7, <1>8, <1>9 DEF GotIsRead

\* Only the reporting tools show a figure.
LEMMA OnlyReportsHaveFigures ==
    ASSUME NEW c, c.req.tool \in ToolNames \ Reporting
    PROVE  "n" \notin DOMAIN Answer(c)
<1>1. CASE c.req.tool = "get_sku_detail"
  <2>1. Answer(c) = SkuAnswer(c)
    BY <1>1 DEF Answer
  <2>2. QED
    BY <2>1 DEF SkuAnswer
<1>2. CASE c.req.tool # "get_sku_detail"
  <2>1. Answer(c) = RowsOf(c)
    BY <1>2 DEF Answer, Reporting
  <2>2. CASE c.req.tool = "get_store_dashboard"
    BY <2>1, <2>2 DEF RowsOf
  <2>3. CASE c.req.tool = "get_brand_performance"
    BY <2>1, <2>3 DEF RowsOf
  <2>4. CASE c.req.tool = "get_active_alerts"
    BY <2>1, <2>4 DEF RowsOf
  <2>5. CASE c.req.tool = "get_action_recommendations"
    BY <2>1, <2>5 DEF RowsOf
  <2>6. CASE c.req.tool = "get_sku_coverage_status"
    BY <2>1, <2>6 DEF RowsOf
  <2>7. CASE c.req.tool = "get_velocity_segmentation"
    BY <2>1, <2>7 DEF RowsOf
  <2>8. CASE c.req.tool = "compare_periods"
    BY <2>1, <2>8 DEF RowsOf
  <2>9. QED
    BY <1>2, <2>2, <2>3, <2>4, <2>5, <2>6, <2>7, <2>8 DEF ToolNames, Reporting
<1>3. QED
  BY <1>1, <1>2

\* The period a report names.
LEMMA PeriodOfAnswer ==
    ASSUME NEW c, c.req.tool \in Reporting
    PROVE  Answer(c).period = IF c.req.tool = "get_brand_weekly_review"
                              THEN Row(c.got["brand_performance"]).week ELSE c.period
<1>1. CASE c.req.tool = "get_executive_weekly_briefing"
  BY <1>1 DEF Answer, WeeklyBriefing
<1>2. CASE c.req.tool = "get_executive_summary"
  BY <1>2 DEF Answer, Summary
<1>3. CASE c.req.tool = "get_store_daily_briefing"
  BY <1>3 DEF Answer, StoreBriefing
<1>4. CASE c.req.tool = "get_brand_weekly_review"
  BY <1>4 DEF Answer, BrandReview
<1>5. CASE c.req.tool = "get_monthly_summary"
  BY <1>5 DEF Answer, MonthAnswer
<1>6. CASE c.req.tool = "get_monthly_executive_briefing"
  BY <1>6 DEF Answer, MonthBriefing
<1>7. QED
  BY <1>1, <1>2, <1>3, <1>4, <1>5, <1>6 DEF Reporting

\* A report names a period in which its tenant had sold, in a state of S.
LEMMA ReportSold ==
    ASSUME NEW S, \A g \in S : Dated(g), NEW c, GoodCall(S, c), c.at = "answered",
           c.req.tool \in Reporting
    PROVE  \E g \in S : \E s \in Own(g.sales, c.req.tenant) : Over(Answer(c).period, s.week)
<1> DEFINE r == c.req
           p == Main(r.tool)
<1>1. /\ ~Nothing(c.got, p) /\ WasRead(S, c, p, c.got[p]) /\ p # ""
  BY MainIsNeeded, NeededWasRead
<1>2. PICK g \in S : c.got[p] = Fetch(g, r, c.period, p)
  BY <1>1 DEF WasRead
<1>3. c.got[p] # None /\ (p \in {"store_dashboard", "brand_performance"} => c.got[p] # {})
  BY <1>1 DEF Nothing
<1>4. Dated(g)
  BY <1>2
<1>5. CASE r.tool \in {"get_executive_weekly_briefing", "get_executive_summary"}
  <2>1. p = "weekly_totals"
    BY <1>5 DEF Main
  <2>2. WeeklyTotals(g, r.tenant, c.period) # None
    BY <1>2, <1>3, <2>1, MainFetch
  <2>3. PICK s \in Own(g.sales, r.tenant) : s.week = c.period
    BY <2>2, TotalsSold
  <2>4. Answer(c).period = c.period
    BY <1>5, PeriodOfAnswer
  <2>5. QED
    BY <1>2, <2>3, <2>4 DEF Over
<1>6. CASE r.tool = "get_store_daily_briefing"
  <2>1. p = "store_dashboard"
    BY <1>6 DEF Main
  <2>2. StoreDashboard(g, r.tenant, r.store, c.period) # {}
    BY <1>2, <1>3, <2>1, MainFetch
  <2>3. PICK row \in StoreDashboard(g, r.tenant, r.store, c.period) : TRUE
    BY <2>2
  <2>4. PICK s \in Own(g.sales, r.tenant) : s.week = row.week /\ Is(c.period, row.week)
    BY <1>4, StoreSold
  <2>5. Answer(c).period = c.period
    BY <1>6, PeriodOfAnswer
  <2>6. QED
    BY <1>2, <2>4, <2>5 DEF Over, Is
<1>7. CASE r.tool = "get_brand_weekly_review"
  <2>1. p = "brand_performance"
    BY <1>7 DEF Main
  <2>2. PICK rows : rows = BrandPerformance(g, r.tenant, r.brand, c.period)
    OBVIOUS
  <2>3. rows # {} /\ c.got["brand_performance"] = rows
    BY <1>2, <1>3, <2>1, <2>2, MainFetch
  <2>4. PICK row \in rows : row = Row(rows)
    BY <2>3 DEF Row
  <2>5. PICK s \in Own(g.sales, r.tenant) : s.week = row.week
    BY <1>4, <2>2, <2>4, BrandSold
  <2>6. Answer(c).period = row.week
    BY <1>7, <2>3, <2>4, PeriodOfAnswer DEF Reporting
  <2>7. QED
    BY <1>2, <2>5, <2>6 DEF Over
<1>8. CASE r.tool \in {"get_monthly_summary", "get_monthly_executive_briefing"}
  <2>1. p = "month"
    BY <1>8 DEF Main
  <2>2. MonthlyTotals(g, r.tenant, c.period, r.brand, r.store) # None
    BY <1>2, <1>3, <2>1, MainFetch
  <2>3. PICK s \in Own(g.sales, r.tenant) : MonthOf[s.week] = c.period
    BY <2>2, MonthSold
  <2>4. Answer(c).period = c.period
    BY <1>8, PeriodOfAnswer
  <2>5. QED
    BY <1>2, <2>3, <2>4 DEF Over
<1>9. QED
  BY <1>5, <1>6, <1>7, <1>8 DEF Reporting

\* No report shows the zeros of a week or month without a row, whatever the refresh
\* deletes between the query that finds the latest one and those that use it: the
\* period a report names was sold in, in a state of the database during the call.
THEOREM ReportsHaveSales == Spec => []ReportedPeriodHadSales
<1>1. IInv => ReportedPeriodHadSales
  <2> SUFFICES ASSUME IInv, call.at = "answered", "n" \in DOMAIN Answer(call)
               PROVE  \E g \in seen : \E s \in Own(g.sales, call.req.tenant) :
                         Over(Answer(call).period, s.week)
    BY DEF ReportedPeriodHadSales
  <2>1. PICK S, c : S = seen /\ c = call
    OBVIOUS
  <2>2. /\ \A g \in S : Dated(g)
        /\ GoodCall(S, c) /\ c.at = "answered" /\ c.req \in Requests
    BY <2>1 DEF IInv, GoodCall, Shape
  <2>3. c.req.tool \in ToolNames
    BY <2>2, RequestsFit
  <2>4. c.req.tool \in Reporting
    BY <2>1, <2>3, OnlyReportsHaveFigures
  <2>5. \E g \in S : \E s \in Own(g.sales, c.req.tenant) : Over(Answer(c).period, s.week)
    BY <2>2, <2>4, ReportSold
  <2>6. QED
    BY <2>1, <2>5
<1>2. QED
  BY Invariance, <1>1, PTL

-----------------------------------------------------------------------------
(* Sums over finite sets.                                                  *)

\* Induction over the subsets of a finite set: what holds of a set whenever it
\* holds of all smaller ones.
LEMMA SmallerFirst ==
    ASSUME NEW S, IsFiniteSet(S), NEW Good,
           \A T \in SUBSET S : (\A U \in SUBSET T : U # T => U \in Good) => T \in Good
    PROVE  \A T \in SUBSET S : T \in Good
<1> DEFINE Bad == {T \in SUBSET S : T \notin Good}
           Sizes == {Cardinality(T) : T \in Bad}
<1>1. SUFFICES ASSUME Bad # {} PROVE FALSE
  OBVIOUS
<1>2. \A T \in SUBSET S : IsFiniteSet(T) /\ Cardinality(T) \in Nat
  BY FS_Subset, FS_CardinalityType
<1>3. Sizes \in SUBSET Nat /\ Sizes # {}
  BY <1>1, <1>2
<1>4. PICK n \in Sizes : \A m \in Sizes : n <= m
  <2> HIDE DEF Sizes
  <2>1. QED
    BY <1>3, LeastNat
<1>5. PICK T \in Bad : \A U \in Bad : Cardinality(T) <= Cardinality(U)
  BY <1>4
<1>6. ASSUME NEW U \in SUBSET T, U # T
      PROVE  U \in Good
  <2>1. IsFiniteSet(T) /\ Cardinality(T) \in Nat /\ U \in SUBSET S /\ Cardinality(U) \in Nat
    BY <1>2
  <2>2. Cardinality(U) <= Cardinality(T) /\ Cardinality(U) # Cardinality(T)
    BY <1>6, <2>1, FS_Subset
  <2>3. U \notin Bad
    BY <1>5, <2>1, <2>2
  <2>4. QED
    BY <2>1, <2>3
<1>7. QED
  BY <1>6

\* Induction by adding an element.
LEMMA OneMore ==
    ASSUME NEW S, IsFiniteSet(S), NEW Good, {} \in Good,
           \A T \in SUBSET S : \A x \in S \ T : T \in Good => T \cup {x} \in Good
    PROVE  S \in Good
<1>1. ASSUME NEW T \in SUBSET S, \A U \in SUBSET T : U # T => U \in Good
      PROVE  T \in Good
  <2>1. CASE T = {}
    BY <2>1
  <2>2. CASE T # {}
    <3>1. PICK x \in T : TRUE
      BY <2>2
    <3>2. T \ {x} \in SUBSET T /\ T \ {x} # T /\ (T \ {x}) \cup {x} = T
      BY <3>1
    <3>3. T \ {x} \in Good
      BY <1>1, <3>2
    <3>4. QED
      BY <3>1, <3>2, <3>3
  <2>3. QED
    BY <2>1, <2>2
<1>2. \A T \in SUBSET S : T \in Good
  BY <1>1, SmallerFirst
<1>3. QED
  BY <1>2

Pick(s) == CHOOSE x \in s : TRUE

\* The recursion of the sum.
Summed(f, S, it) == [s \in SUBSET S |-> IF s = {} THEN 0 ELSE f[Pick(s)] + it[s \ {Pick(s)}]]

\* The sum of the community modules, as a recursive function.
LEMMA SumIsFold ==
    ASSUME NEW f, NEW S
    PROVE  SumFunctionOnSet(f, S) = (CHOOSE it : it = Summed(f, S, it))[S]
  BY DEF SumFunctionOnSet, FoldFunctionOnSet, MapThenFoldSet, Summed, Pick

\* CHOOSE finds a member.
LEMMA PickIs ==
    ASSUME NEW s, s # {}
    PROVE  Pick(s) \in s
  BY DEF Pick

\* The recursion has a solution.
LEMMA SummedOnce ==
    ASSUME NEW f, NEW S, IsFiniteSet(S)
    PROVE  \E it : it = Summed(f, S, it)
<1> DEFINE Upto(it, n) == \A s \in SUBSET S : Cardinality(s) <= n => it[s] = Summed(f, S, it)[s]
           Solved(n) == \E it : it = [s \in SUBSET S |-> it[s]] /\ Upto(it, n)
           Bad == {n \in Nat : ~Solved(n)}
<1>1. \A T \in SUBSET S : IsFiniteSet(T) /\ Cardinality(T) \in Nat
  BY FS_Subset, FS_CardinalityType
<1>2. Solved(0)
  <2> DEFINE zero == [s \in SUBSET S |-> 0]
  <2>1. ASSUME NEW s \in SUBSET S, Cardinality(s) <= 0
        PROVE  zero[s] = Summed(f, S, zero)[s]
    <3>1. s = {}
      BY <1>1, <2>1, FS_EmptySet
    <3>2. QED
      BY <3>1 DEF Summed
  <2>2. zero = [s \in SUBSET S |-> zero[s]]
    OBVIOUS
  <2> HIDE DEF zero
  <2>3. QED
    BY <2>1, <2>2
<1>3. ASSUME NEW n \in Nat, Solved(n)
      PROVE  Solved(n + 1)
  <2>1. PICK it : it = [s \in SUBSET S |-> it[s]] /\ Upto(it, n)
    BY <1>3
  <2>2. PICK next : next = Summed(f, S, it)
    OBVIOUS
  <2>3. next = [s \in SUBSET S |-> next[s]]
    BY <2>2 DEF Summed
  <2>4. ASSUME NEW s \in SUBSET S, Cardinality(s) <= n + 1
        PROVE  next[s] = Summed(f, S, next)[s]
    <3>1. CASE s = {}
      BY <2>2, <3>1 DEF Summed
    <3>2. CASE s # {}
      <4>1. PICK p \in s : p = Pick(s)
        BY <3>2, PickIs
      <4>2. s \ {p} \in SUBSET S /\ Cardinality(s \ {p}) <= n
        BY <1>1, <2>4, <4>1, FS_RemoveElement
      <4>3. it[s \ {p}] = next[s \ {p}]
        BY <2>1, <2>2, <4>2
      <4>4. next[s] = f[p] + it[s \ {p}]
        BY <2>2, <3>2, <4>1 DEF Summed
      <4>5. Summed(f, S, next)[s] = f[p] + next[s \ {p}]
        BY <3>2, <4>1 DEF Summed
      <4>6. QED
        BY <4>3, <4>4, <4>5
    <3>3. QED
      BY <3>1, <3>2
  <2>5. QED
    BY <2>3, <2>4
<1>4. \A n \in Nat : Solved(n)
  <2>1. SUFFICES ASSUME Bad # {} PROVE FALSE
    OBVIOUS
  <2>2. PICK n \in Bad : \A m \in Bad : n <= m
    <3>1. Bad \in SUBSET Nat
      OBVIOUS
    <3> HIDE DEF Bad
    <3>2. QED
      BY <2>1, <3>1, LeastNat
  <2>3. n \in Nat /\ ~Solved(n)
    BY <2>2
  <2> HIDE DEF Solved
  <2>4. n # 0
    BY <1>2, <2>3
  <2>5. n - 1 \in Nat /\ (n - 1) + 1 = n
    BY <2>3, <2>4
  <2>6. Solved(n - 1)
    BY <2>2, <2>5
  <2>7. QED
    BY <1>3, <2>3, <2>5, <2>6
<1>5. PICK it : it = [s \in SUBSET S |-> it[s]] /\ Upto(it, Cardinality(S))
  BY <1>1, <1>4
<1>6. \A s \in SUBSET S : it[s] = Summed(f, S, it)[s]
  BY <1>1, <1>5, FS_Subset
<1>7. it = Summed(f, S, it)
  <2>2. Summed(f, S, it) = [s \in SUBSET S |-> Summed(f, S, it)[s]]
    BY DEF Summed
  <2>3. QED
    BY <1>5, <1>6, <2>2
<1>8. QED
  BY <1>7

\* Two tables of sums agree on the sets they have in common.
LEMMA SumsAgree ==
    ASSUME NEW f, NEW R, NEW S, IsFiniteSet(R), R \subseteq S,
           NEW a, a = Summed(f, R, a), NEW b, b = Summed(f, S, b)
    PROVE  a[R] = b[R]
<1> DEFINE Good == {T \in SUBSET R : a[T] = b[T]}
<1>1. ASSUME NEW T \in SUBSET R, \A U \in SUBSET T : U # T => U \in Good
      PROVE  T \in Good
  <2>1. T \in SUBSET S
    OBVIOUS
  <2>2. a[T] = Summed(f, R, a)[T] /\ b[T] = Summed(f, S, b)[T]
    OBVIOUS
  <2>3. CASE T = {}
    BY <2>1, <2>2, <2>3 DEF Summed
  <2>4. CASE T # {}
    <3>1. PICK p \in T : p = Pick(T)
      BY <2>4, PickIs
    <3>2. T \ {p} \in SUBSET T /\ T \ {p} # T
      BY <3>1
    <3>3. a[T \ {p}] = b[T \ {p}]
      BY <1>1, <3>2
    <3>4. a[T] = f[p] + a[T \ {p}] /\ b[T] = f[p] + b[T \ {p}]
      BY <2>1, <2>2, <2>4, <3>1 DEF Summed
    <3>5. QED
      BY <3>3, <3>4
  <2>5. QED
    BY <2>3, <2>4
<1> HIDE DEF Good
<1>2. \A T \in SUBSET R : T \in Good
  BY <1>1, SmallerFirst
<1>3. QED
  BY <1>2 DEF Good

\* The sum takes out one element after the other.
LEMMA SumStep ==
    ASSUME NEW f, NEW S, IsFiniteSet(S)
    PROVE  /\ S = {} => SumFunctionOnSet(f, S) = 0
           /\ S # {} => /\ Pick(S) \in S
                        /\ SumFunctionOnSet(f, S) =
                              f[Pick(S)] + SumFunctionOnSet(f, S \ {Pick(S)})
<1>1. PICK a : a = (CHOOSE it : it = Summed(f, S, it))
  OBVIOUS
<1>2. a = Summed(f, S, a)
  BY <1>1, SummedOnce
<1>3. SumFunctionOnSet(f, S) = a[S]
  BY <1>1, SumIsFold
<1>4. a[S] = Summed(f, S, a)[S]
  BY <1>2
<1>5. CASE S = {}
  BY <1>3, <1>4, <1>5 DEF Summed
<1>6. CASE S # {}
  <2>1. PICK p \in S : p = Pick(S)
    BY <1>6, PickIs
  <2>2. PICK R : R = S \ {p}
    OBVIOUS
  <2>3. IsFiniteSet(R) /\ R \subseteq S
    BY <2>2, FS_RemoveElement
  <2>4. PICK b : b = (CHOOSE it : it = Summed(f, R, it))
    OBVIOUS
  <2>5. b = Summed(f, R, b)
    BY <2>3, <2>4, SummedOnce
  <2>6. SumFunctionOnSet(f, R) = b[R]
    BY <2>4, SumIsFold
  <2>7. b[R] = a[R]
    BY <1>2, <2>3, <2>5, SumsAgree
  <2>8. a[S] = f[p] + a[R]
    BY <1>4, <1>6, <2>1, <2>2 DEF Summed
  <2>9. QED
    BY <1>3, <1>6, <2>1, <2>2, <2>6, <2>7, <2>8
<1>7. QED
  BY <1>5, <1>6

\* A sum of naturals is a natural.
LEMMA SumIsNat ==
    ASSUME NEW S, IsFiniteSet(S), NEW f, \A x \in S : f[x] \in Nat
    PROVE  SumFunctionOnSet(f, S) \in Nat
<1> DEFINE Good == {T \in SUBSET S : SumFunctionOnSet(f, T) \in Nat}
<1>1. ASSUME NEW T \in SUBSET S, \A U \in SUBSET T : U # T => U \in Good
      PROVE  T \in Good
  <2>1. IsFiniteSet(T)
    BY FS_Subset
  <2>2. CASE T = {}
    <3>1. SumFunctionOnSet(f, {}) = 0
      BY FS_EmptySet, SumStep
    <3>2. QED
      BY <2>2, <3>1
  <2>3. CASE T # {}
    <3>1. PICK p \in T : SumFunctionOnSet(f, T) = f[p] + SumFunctionOnSet(f, T \ {p})
      BY <2>1, <2>3, SumStep
    <3>2. T \ {p} \in SUBSET T /\ T \ {p} # T
      BY <3>1
    <3>3. SumFunctionOnSet(f, T \ {p}) \in Nat /\ f[p] \in Nat
      BY <1>1, <3>2
    <3>4. QED
      BY <3>1, <3>3
  <2>4. QED
    BY <2>2, <2>3
<1> HIDE DEF Good
<1>2. \A T \in SUBSET S : T \in Good
  BY <1>1, SmallerFirst
<1>3. QED
  BY <1>2 DEF Good

\* Any element may be taken out first.
LEMMA SumTakes ==
    ASSUME NEW S, IsFiniteSet(S), NEW f, \A x \in S : f[x] \in Nat, NEW x \in S
    PROVE  SumFunctionOnSet(f, S) = f[x] + SumFunctionOnSet(f, S \ {x})
<1> DEFINE Takes(T) == \A y \in T : SumFunctionOnSet(f, T) = f[y] + SumFunctionOnSet(f, T \ {y})
           Good == {T \in SUBSET S : Takes(T)}
<1>0. \A T \in SUBSET S : IsFiniteSet(T) /\ SumFunctionOnSet(f, T) \in Nat
  BY FS_Subset, SumIsNat
<1>1. ASSUME NEW T \in SUBSET S, \A U \in SUBSET T : U # T => U \in Good
      PROVE  T \in Good
  <2>1. SUFFICES ASSUME NEW y \in T
                 PROVE  SumFunctionOnSet(f, T) = f[y] + SumFunctionOnSet(f, T \ {y})
    OBVIOUS
  <2>2. PICK p \in T : SumFunctionOnSet(f, T) = f[p] + SumFunctionOnSet(f, T \ {p})
    BY <1>0, SumStep
  <2>3. CASE y = p
    BY <2>2, <2>3
  <2>4. CASE y # p
    <3>1. PICK A, B, C : A = T \ {p} /\ B = T \ {y} /\ C = (T \ {p}) \ {y}
      OBVIOUS
    <3>2. /\ A \in SUBSET T /\ A # T /\ y \in A /\ A \ {y} = C
          /\ B \in SUBSET T /\ B # T /\ p \in B /\ B \ {p} = C
          /\ C \in SUBSET S
      BY <2>4, <3>1
    <3>3. A \in Good /\ B \in Good
      BY <1>1, <3>2
    <3>4. /\ SumFunctionOnSet(f, A) = f[y] + SumFunctionOnSet(f, C)
          /\ SumFunctionOnSet(f, B) = f[p] + SumFunctionOnSet(f, C)
      BY <3>2, <3>3
    <3>5. SumFunctionOnSet(f, C) \in Nat /\ f[y] \in Nat /\ f[p] \in Nat
      BY <1>0, <3>2
    <3>6. QED
      BY <2>2, <3>1, <3>4, <3>5
  <2>5. QED
    BY <2>3, <2>4
<1>2. \A T \in SUBSET S : T \in Good
  <2> HIDE DEF Good
  <2>1. QED
    BY <1>1, SmallerFirst
<1>3. Takes(S)
  BY <1>2
<1>4. QED
  BY <1>3

\* The sum depends on the values only.
LEMMA SumsEqual ==
    ASSUME NEW S, IsFiniteSet(S), NEW f, NEW g, \A x \in S : f[x] = g[x]
    PROVE  SumFunctionOnSet(f, S) = SumFunctionOnSet(g, S)
<1> DEFINE Good == {T \in SUBSET S : SumFunctionOnSet(f, T) = SumFunctionOnSet(g, T)}
<1>1. ASSUME NEW T \in SUBSET S, \A U \in SUBSET T : U # T => U \in Good
      PROVE  T \in Good
  <2>1. IsFiniteSet(T)
    BY FS_Subset
  <2>2. CASE T = {}
    <3>1. SumFunctionOnSet(f, {}) = 0 /\ SumFunctionOnSet(g, {}) = 0
      BY FS_EmptySet, SumStep
    <3>2. QED
      BY <2>2, <3>1
  <2>3. CASE T # {}
    <3>1. PICK p \in T : p = Pick(T)
      BY <2>3, PickIs
    <3>2. /\ SumFunctionOnSet(f, T) = f[p] + SumFunctionOnSet(f, T \ {p})
          /\ SumFunctionOnSet(g, T) = g[p] + SumFunctionOnSet(g, T \ {p})
      BY <2>1, <2>3, <3>1, SumStep
    <3>3. T \ {p} \in SUBSET T /\ T \ {p} # T
      BY <3>1
    <3>4. SumFunctionOnSet(f, T \ {p}) = SumFunctionOnSet(g, T \ {p}) /\ f[p] = g[p]
      BY <1>1, <3>3
    <3>5. QED
      BY <3>2, <3>4
  <2>4. QED
    BY <2>2, <2>3
<1> HIDE DEF Good
<1>2. \A T \in SUBSET S : T \in Good
  BY <1>1, SmallerFirst
<1>3. QED
  BY <1>2 DEF Good

\* Sums of two sets without a common element add up.
LEMMA SumOfUnion ==
    ASSUME NEW R, IsFiniteSet(R), NEW S, IsFiniteSet(S), R \cap S = {},
           NEW f, \A x \in R \cup S : f[x] \in Nat
    PROVE  SumFunctionOnSet(f, R \cup S) = SumFunctionOnSet(f, R) + SumFunctionOnSet(f, S)
<1> DEFINE Good == {T \in SUBSET S : SumFunctionOnSet(f, R \cup T) =
                                        SumFunctionOnSet(f, R) + SumFunctionOnSet(f, T)}
<1>1. IsFiniteSet(R \cup S)
  BY FS_Union
<1>2. \A T \in SUBSET (R \cup S) : IsFiniteSet(T) /\ SumFunctionOnSet(f, T) \in Nat
  BY <1>1, FS_Subset, SumIsNat
<1>3. {} \in Good
  <2>1. SumFunctionOnSet(f, {}) = 0 /\ R \cup {} = R
    BY FS_EmptySet, SumStep
  <2>2. SumFunctionOnSet(f, R) \in Nat
    BY <1>2
  <2>3. QED
    BY <2>1, <2>2
<1>4. ASSUME NEW T \in SUBSET S, NEW x \in S \ T, T \in Good
      PROVE  T \cup {x} \in Good
  <2>1. PICK A, B : A = R \cup T /\ B = T \cup {x}
    OBVIOUS
  <2>2. PICK C : C = R \cup B
    OBVIOUS
  <2>3. /\ A \in SUBSET (R \cup S) /\ B \in SUBSET (R \cup S) /\ C \in SUBSET (R \cup S)
        /\ T \in SUBSET (R \cup S) /\ x \in B /\ x \in C /\ B \ {x} = T /\ C \ {x} = A
    BY <1>4, <2>1, <2>2
  <2>4. SumFunctionOnSet(f, C) = f[x] + SumFunctionOnSet(f, A)
    BY <1>2, <2>3, SumTakes
  <2>5. SumFunctionOnSet(f, B) = f[x] + SumFunctionOnSet(f, T)
    BY <1>2, <2>3, SumTakes
  <2>6. SumFunctionOnSet(f, A) = SumFunctionOnSet(f, R) + SumFunctionOnSet(f, T)
    BY <1>4, <2>1
  <2>7. /\ SumFunctionOnSet(f, R) \in Nat /\ SumFunctionOnSet(f, T) \in Nat /\ f[x] \in Nat
    BY <1>2, <2>3
  <2>8. SumFunctionOnSet(f, C) = SumFunctionOnSet(f, R) + SumFunctionOnSet(f, B)
    BY <2>4, <2>5, <2>6, <2>7
  <2>9. QED
    BY <2>1, <2>2, <2>8
<1> HIDE DEF Good
<1>5. S \in Good
  BY <1>3, <1>4, OneMore
<1>6. QED
  BY <1>5 DEF Good

-----------------------------------------------------------------------------
(* Nothing is said only when nothing was there.                            *)

\* NULL is no set of rows, no row of a query and no product.
NoneIsNull ==
    /\ \A x : x \notin None
    /\ None \notin DimSku
    /\ \A w, n : None # [week |-> w, n |-> n]
    /\ \A m, n : None # [month |-> m, n |-> n]

\* A sum of no rows is zero.
LEMMA AmountOfNone == Amount({}) = 0
<1>1. Amount({}) = SumFunctionOnSet([r \in {} |-> r.n], {})
  BY DEF Amount, SumFunction
<1>2. QED
  BY <1>1, SumStep, FS_EmptySet

\* Nothing is sold in a period that has no line.
LEMMA NoneSold ==
    ASSUME NEW g, NEW t, NEW period, NEW brand, NEW store,
           \A s \in Own(g.sales, t) : ~(Over(period, s.week) /\ Is(brand, s.brand) /\ Is(store, s.store))
    PROVE  Sold(g, t, period, brand, store) = 0
<1>1. {s \in Own(g.sales, t) : Over(period, s.week) /\ Is(brand, s.brand) /\ Is(store, s.store)} = {}
  OBVIOUS
<1>2. QED
  BY <1>1, AmountOfNone DEF Sold

\* The calendar of a look-up.
KindOf(latest) == IF latest = "latest_week" THEN Weeks ELSE Calendar

\* A call that ended with nothing.
Gone(S, c) == (\A g \in S : Dated(g)) /\ Shape(c) /\ IsNothing(S, c)

\* The stage that reads the latest week or month needs it, and is the first.
LEMMA LatestIsNeeded ==
    ASSUME NEW P, Orderly(P), NEW i \in DOMAIN P, NEW q \in Latests, q \in Range(P[i].parts)
    PROVE  i = 1 /\ P[i].needs = q
<1>1. i = 1 /\ Len(P[i].parts) = 1 /\ P[i].needs = P[i].parts[1]
  BY DEF Orderly
<1>2. P \in Seq(Stages)
  BY Zenon DEF Orderly
<1>a. P[i] \in Stages
  BY <1>2
<1>3. P[i].parts \in Seq(PartNames)
  BY <1>a DEF Stages
<1>4. Range(P[i].parts) = {P[i].parts[1]}
  BY <1>1, <1>3, OnlyOne
<1>5. QED
  BY <1>1, <1>4

\* Past the look-up of the latest week or month the call has a period.
LEMMA PeriodKnown ==
    ASSUME NEW S, NEW c, Gone(S, c), Program(c.req)[c.stage].needs \notin Latests,
           NEW latest \in Latests, ToolNeeds(c.req) \cap Latests = Looked(c.req, latest),
           c.req.period \in Optional(KindOf(latest))
    PROVE  c.period \in KindOf(latest)
<1> DEFINE r == c.req
           P == Program(r)
           n == c.stage
<1>1. Shape(c) /\ (\A g \in S : Dated(g)) /\ r \in Requests
  BY DEF Gone, Shape
<1>2. /\ DOMAIN c.got = Before(P, n + 1)
      /\ GotIsRead(S, c) /\ Found(c, n - 1) /\ Resolved(c)
  BY DEF Gone, IsNothing
<1>3. /\ Orderly(P) /\ n \in DOMAIN P /\ n \in Nat \ {0}
      /\ DOMAIN P = 1..Len(P) /\ Len(P) \in Nat
  BY <1>1, StageIs DEF Shape
<1>4. Needs(P) = ToolNeeds(r)
  BY <1>1, ProgramHas
<1>5. P[n].needs \notin Latests
  OBVIOUS
<1>6. Found(c, n - 1) => \A i \in 1..(n - 1) : ~Nothing(c.got, P[i].needs)
  BY DEF Found
<1>7. \A q : q \in DOMAIN c.got <=> \E i \in 1..n : q \in Range(P[i].parts)
  <2>1. PICK m : m = n + 1
    OBVIOUS
  <2>2. 1..(m - 1) = 1..n
    BY <1>3, <2>1
  <2> HIDE DEF P
  <2>3. QED
    BY <1>2, <2>1, <2>2, Members
<1>8. \A i \in 1..n : i \in DOMAIN P
  <2>1. PICK l : l = Len(P)
    OBVIOUS
  <2>2. l \in Nat /\ n \in 1..l
    BY <1>3, <2>1
  <2>3. QED
    BY <1>3, <2>1, <2>2
<1> HIDE DEF P, n
<1>9. CASE r.period # None
  <2>1. ASSUME NEW q \in DOMAIN c.got \cap Latests
        PROVE  FALSE
    <3>1. PICK i \in 1..n : q \in Range(P[i].parts)
      BY <1>7
    <3>2. P[i].needs = q /\ i \in DOMAIN P
      BY <1>3, <1>8, <3>1, LatestIsNeeded
    <3>3. q \in Needs(P)
      BY <3>2 DEF Needs
    <3>4. QED
      BY <1>4, <1>9, <3>3 DEF Looked
  <2>2. c.period = r.period
    BY <1>2, <2>1 DEF Resolved
  <2>3. QED
    BY <1>9, <2>2 DEF Optional
<1>10. CASE r.period = None
  <2>1. latest \in Needs(P)
    BY <1>4, <1>10 DEF Looked
  <2>2. PICK i \in DOMAIN P : P[i].needs = latest
    BY <2>1 DEF Needs
  <2>3. latest # ""
    BY DEF Latests
  <2>4. latest \in Range(P[i].parts) \cup Before(P, i)
    BY <1>3, <2>2, <2>3 DEF Orderly
  <2>5. PICK k \in DOMAIN P : latest \in Range(P[k].parts)
    <3>1. CASE latest \in Range(P[i].parts)
      BY <3>1
    <3>2. CASE latest \in Before(P, i)
      <4>1. PICK k \in 1..(i - 1) : latest \in Range(P[k].parts)
        BY <3>2, Members
      <4>2. PICK m : m = Len(P)
        OBVIOUS
      <4>3. m \in Nat /\ i \in 1..m
        BY <1>3, <4>2
      <4>4. k \in 1..m
        BY <4>1, <4>3, Earlier
      <4>5. QED
        BY <1>3, <4>1, <4>2, <4>4
    <3>3. QED
      BY <2>4, <3>1, <3>2
  <2>6. k = 1 /\ P[1].needs = latest
    BY <1>3, <2>5, LatestIsNeeded
  <2>7. n # 1
    BY <1>5, <2>6
  <2>8. 1 \in 1..(n - 1) /\ 1 \in 1..n
    BY <1>3, <2>7
  <2>9. ~Nothing(c.got, latest)
    BY <1>2, <1>6, <2>6, <2>8
  <2>10. latest \in DOMAIN c.got
    BY <1>7, <2>5, <2>6, <2>8
  <2>11. c.got[latest] # None /\ c.got[latest] = c.period
    BY <1>2, <2>3, <2>9, <2>10 DEF Nothing, Resolved
  <2>12. WasRead(S, c, latest, c.got[latest])
    BY <1>2, <2>10, <2>11 DEF GotIsRead
  <2>13. PICK g \in S : c.period = Fetch(g, r, c.period, latest)
    BY <2>11, <2>12 DEF WasRead
  <2>14. Dated(g)
    BY <1>1
  <2>15. /\ Fetch(g, r, c.period, "latest_week") \in Optional(Weeks)
         /\ Fetch(g, r, c.period, "latest_month") \in Optional(Calendar)
    BY <2>14, LatestFetchIs
  <2>16. latest \in {"latest_week", "latest_month"}
    BY DEF Latests
  <2>17. QED
    BY <2>11, <2>13, <2>15, <2>16 DEF KindOf, Optional
<1>11. QED
  BY <1>9, <1>10

\* A period is over no week but its own, and over no month but its own.
LEMMA OverWeek ==
    ASSUME NEW w \in Weeks, NEW v \in Weeks, Over(w, v)
    PROVE  w = v
<1>1. MonthOf[v] \in Calendar /\ w \notin Calendar /\ w # None
  BY Basics DEF Calendar
<1>2. QED
  BY <1>1 DEF Over

\* The month a week is over is its month.
LEMMA OverMonth ==
    ASSUME NEW m \in Calendar, NEW v \in Weeks, Over(m, v)
    PROVE  m = MonthOf[v]
<1>1. m \notin Weeks /\ m # None
  BY Basics
<1>2. QED
  BY <1>1 DEF Over

\* Every sale is in a row of its month, its brand and its store.
LEMMA SalesMonthlyHas ==
    ASSUME NEW g, NEW t, NEW s \in Own(g.sales, t)
    PROVE  \E r \in Own(SalesMonthly(g), t) :
              r.month = MonthOf[s.week] /\ r.brand = s.brand /\ r.store = s.store
<1> DEFINE Total(r) == Amount({o \in g.sales : /\ o.tenant = r.tenant /\ MonthOf[o.week] = MonthOf[r.week]
                                               /\ o.store = r.store /\ o.sku = r.sku /\ o.brand = r.brand})
           Line(r) == [tenant |-> r.tenant, month |-> MonthOf[r.week], store |-> r.store,
                       sku |-> r.sku, brand |-> r.brand, n |-> Total(r)]
<1>1. SalesMonthly(g) = {Line(r) : r \in g.sales}
  BY DEF SalesMonthly
<1> HIDE DEF Total
<1>2. s \in g.sales /\ s.tenant = t
  BY DEF Own
<1>3. Line(s) \in SalesMonthly(g)
  BY <1>1, <1>2
<1>4. /\ Line(s).tenant = t /\ Line(s).month = MonthOf[s.week]
      /\ Line(s).brand = s.brand /\ Line(s).store = s.store
  BY <1>2
<1> HIDE DEF Line
<1>5. QED
  BY <1>3, <1>4 DEF Own

\* The panel of an active store in the latest week has a row.
LEMMA StoreDashboardHas ==
    ASSUME NEW g, NEW t, NEW w, NEW s \in Own(DimStore, t), s.active,
           LatestSales(g, t) # None, w = None \/ w = LatestSales(g, t)
    PROVE  \E row : row \in StoreDashboard(g, t, s.store, w)
<1> DEFINE N(d) == Amount({r \in Own(g.sales, d.tenant) :
                              r.store = d.store /\ r.week = LatestSales(g, d.tenant)})
           K(d) == Tickets({e \in Own(g.docs, d.tenant) :
                              e.store = d.store /\ e.week = LatestSales(g, d.tenant)})
           Line(d) == [tenant |-> d.tenant, id |-> d.store, week |-> LatestSales(g, d.tenant),
                       n |-> N(d), tickets |-> K(d)]
<1>1. StoreView(g) = {Line(d) : d \in {d \in DimStore : d.active /\ LatestSales(g, d.tenant) # None}}
  BY DEF StoreView
<1> HIDE DEF N, K
<1>2. s \in DimStore /\ s.tenant = t
  BY DEF Own
<1>3. Line(s) \in StoreView(g)
  BY <1>1, <1>2
<1>4. Line(s).tenant = t /\ Line(s).id = s.store /\ Line(s).week = LatestSales(g, t)
  BY <1>2
<1> HIDE DEF Line
<1>5. Line(s) \in StoreDashboard(g, t, s.store, w)
  BY <1>3, <1>4 DEF StoreDashboard, Own, Is
<1>6. QED
  BY <1>5

\* So has the one of a brand with an active product.
LEMMA BrandPerformanceHas ==
    ASSUME NEW g, NEW t, NEW w, NEW s \in Own(DimSku, t), s.active,
           LatestSales(g, t) # None, w = None \/ w = LatestSales(g, t)
    PROVE  \E row : row \in BrandPerformance(g, t, s.brand, w)
<1> DEFINE N(d) == Amount({r \in Own(g.sales, d.tenant) :
                              r.brand = d.brand /\ r.week = LatestSales(g, d.tenant)})
           K(d) == Amount({p \in Own(Planned, d.tenant) :
                              p.brand = d.brand /\ p.week = LatestSales(g, d.tenant)})
           Line(d) == [tenant |-> d.tenant, id |-> d.brand, name |-> d.name,
                       week |-> LatestSales(g, d.tenant), n |-> N(d), plan |-> K(d)]
<1>1. BrandView(g) = {Line(d) : d \in {d \in ActiveBrands : LatestSales(g, d.tenant) # None}}
  BY DEF BrandView
<1> HIDE DEF N, K
<1>2. PICK b : b = [tenant |-> s.tenant, brand |-> s.brand, name |-> s.name]
  OBVIOUS
<1>3. b \in ActiveBrands /\ b.tenant = t /\ b.brand = s.brand
  BY <1>2 DEF Own, ActiveBrands
<1>4. Line(b) \in BrandView(g)
  BY <1>1, <1>3
<1>5. Line(b).tenant = t /\ Line(b).id = s.brand /\ Line(b).week = LatestSales(g, t)
  BY <1>3
<1> HIDE DEF Line
<1>6. Line(b) \in BrandPerformance(g, t, s.brand, w)
  BY <1>4, <1>5 DEF BrandPerformance, Own, Is
<1>7. QED
  BY <1>6

\* An empty answer.
Empties(g, r, w, p) ==
    \/ Fetch(g, r, w, p) = None
    \/ p \in {"store_dashboard", "brand_performance"} /\ Fetch(g, r, w, p) = {}

\* A call that ended with nothing and no failure has read an empty answer.
LEMMA NothingWasRead ==
    ASSUME NEW S, NEW c, Gone(S, c), c.failures = {}
    PROVE  \E g \in S : \E p \in ToolNeeds(c.req) :
              /\ p # "" /\ p = Program(c.req)[c.stage].needs
              /\ Dated(g) /\ Empties(g, c.req, c.period, p)
<1> DEFINE P == Program(c.req)
<1>1. Shape(c) /\ (\A g \in S : Dated(g)) /\ IsNothing(S, c) /\ c.req \in Requests
  BY DEF Gone, Shape
<1>2. PICK p : p = P[c.stage].needs
  OBVIOUS
<1>3. Nothing(c.got, p) /\ WasRead(S, c, p, c.got[p])
  BY <1>1, <1>2 DEF IsNothing
<1>4. p \in ToolNeeds(c.req)
  BY <1>1, <1>2, ProgramHas DEF Needs, Shape
<1>5. PICK g \in S : c.got[p] = Fetch(g, c.req, c.period, p)
  BY <1>3 DEF WasRead
<1>6. p # "" /\ Empties(g, c.req, c.period, p)
  BY <1>3, <1>5 DEF Nothing, Empties
<1>7. QED
  BY <1>1, <1>2, <1>4, <1>5, <1>6

\* What NothingWasThere says of a state of the database.
WasNothing(g, r, period) ==
    CASE r.tool = "get_sku_detail" -> ~\E d \in Own(DimSku, r.tenant) : d.sku = r.sku /\ d.active
      [] r.tool \in {"get_store_daily_briefing", "get_brand_weekly_review"} ->
            \/ LatestSales(g, r.tenant) = None
            \/ period # None /\ period # LatestSales(g, r.tenant)
            \/ r.store # None /\ Sold(g, r.tenant, period, None, r.store) = 0
            \/ r.store # None /\ ~\E s \in Own(DimStore, r.tenant) : s.store = r.store /\ s.active
            \/ r.brand # None /\ ~\E d \in Own(DimSku, r.tenant) : d.brand = r.brand /\ d.active
      [] OTHER -> Sold(g, r.tenant, period, r.brand, r.store) = 0

\* No product of the master, no active product.
LEMMA NoSku ==
    ASSUME NoneIsNull, NEW g, NEW r, r.tool = "get_sku_detail", NEW w, NEW p \in ToolNeeds(r),
           p # "", Empties(g, r, w, p)
    PROVE  WasNothing(g, r, w)
<1>1. p = "sku_master"
  BY DEF ToolNeeds
<1>2. SkuMaster(r.tenant, r.sku) = None
  BY <1>1, MainFetch DEF Empties
<1> DEFINE rows == {d \in Own(DimSku, r.tenant) : d.sku = r.sku /\ d.active}
<1>3. ASSUME rows # {}
      PROVE  FALSE
  <2>1. SkuMaster(r.tenant, r.sku) \in rows
    BY <1>3 DEF SkuMaster
  <2>2. None \in DimSku
    BY <1>2, <2>1 DEF Own
  <2>3. QED
    BY <2>2 DEF NoneIsNull
<1>4. ~\E d \in Own(DimSku, r.tenant) : d.sku = r.sku /\ d.active
  BY <1>3
<1>5. QED
  BY <1>4 DEF WasNothing

\* No row of the panel of a store, or no week it sold in.
LEMMA NoStore ==
    ASSUME NoneIsNull, NEW g, NEW r, r.tool = "get_store_daily_briefing", r.store # None,
           NEW w, NEW p \in ToolNeeds(r), Empties(g, r, w, p), Dated(g)
    PROVE  WasNothing(g, r, w)
<1>1. p \in {"latest_week", "store_dashboard"}
  BY DEF ToolNeeds, Looked
<1>2. SUFFICES \/ LatestSales(g, r.tenant) = None
               \/ w # None /\ w # LatestSales(g, r.tenant)
               \/ Sold(g, r.tenant, w, None, r.store) = 0
               \/ ~\E s \in Own(DimStore, r.tenant) : s.store = r.store /\ s.active
  BY DEF WasNothing
<1>3. CASE p = "latest_week"
  <2>1. \A s \in Own(g.sales, r.tenant) : ~Is(r.store, s.store)
    BY <1>3, LatestFetchIs DEF Empties
  <2>2. QED
    BY <2>1, NoneSold
<1>4. CASE p = "store_dashboard"
  <2>1. \A row : row \notin StoreDashboard(g, r.tenant, r.store, w)
    BY <1>4, MainFetch DEF Empties, NoneIsNull
  <2>2. QED
    BY <2>1, StoreDashboardHas
<1>5. QED
  BY <1>1, <1>3, <1>4

\* No row of the panel of a brand.
LEMMA NoBrand ==
    ASSUME NoneIsNull, NEW g, NEW r, r.tool = "get_brand_weekly_review", r.brand # None,
           NEW w, NEW p \in ToolNeeds(r), Empties(g, r, w, p)
    PROVE  WasNothing(g, r, w)
<1>1. p = "brand_performance"
  BY DEF ToolNeeds
<1>2. SUFFICES \/ LatestSales(g, r.tenant) = None
               \/ w # None /\ w # LatestSales(g, r.tenant)
               \/ ~\E d \in Own(DimSku, r.tenant) : d.brand = r.brand /\ d.active
  BY DEF WasNothing
<1>3. \A row : row \notin BrandPerformance(g, r.tenant, r.brand, w)
  BY <1>1, MainFetch DEF Empties, NoneIsNull
<1>4. QED
  BY <1>3, BrandPerformanceHas

\* The reports of a week, of every brand and store, and those of a month.
OfWeek(r)  == r.tool \in {"get_executive_weekly_briefing", "get_executive_summary"}
              /\ r.brand = None /\ r.store = None
OfMonth(r) == r.tool \in {"get_monthly_summary", "get_monthly_executive_briefing"}

\* The period is known once it has been looked up.
Known(p, latest, w) == p = latest \/ w \in KindOf(latest)

\* No row of the week.
LEMMA NoWeek ==
    ASSUME NoneIsNull, NEW g, Dated(g), NEW r,
           OfWeek(r), NEW w, NEW p \in ToolNeeds(r), p # "",
           Known(p, "latest_week", w), Empties(g, r, w, p)
    PROVE  WasNothing(g, r, w)
<1>1. p \in {"latest_week", "weekly_totals"}
  BY DEF ToolNeeds, Looked, OfWeek
<1>2. SUFFICES Sold(g, r.tenant, w, r.brand, r.store) = 0
  BY DEF WasNothing, OfWeek
<1>3. CASE p = "latest_week"
  <2>1. \A s \in Own(g.sales, r.tenant) : ~Is(r.store, s.store)
    BY <1>3, LatestFetchIs DEF Empties
  <2>2. QED
    BY <2>1, NoneSold
<1>4. CASE p = "weekly_totals"
  <2>1. WeeklyTotals(g, r.tenant, w) = None
    BY <1>4, MainFetch DEF Empties
  <2> DEFINE rows == {s \in Own(g.sales, r.tenant) : s.week = w}
  <2>2. rows = {}
    <3>1. rows # {} => WeeklyTotals(g, r.tenant, w) = [week |-> w, n |-> Amount(rows)]
      BY DEF WeeklyTotals
    <3> HIDE DEF rows
    <3>2. QED
      BY <2>1, <3>1 DEF NoneIsNull
  <2>3. \A s \in Own(g.sales, r.tenant) : s.week \in Weeks
    BY DEF Dated, Own
  <2>4. w \in Weeks
    BY <1>4 DEF Known, KindOf
  <2>5. \A s \in Own(g.sales, r.tenant) : ~Over(w, s.week)
    BY <2>2, <2>3, <2>4, OverWeek
  <2>6. QED
    BY <2>5, NoneSold
<1>5. QED
  BY <1>1, <1>3, <1>4

\* No row of the month, of the brand or store asked for.
LEMMA NoMonth ==
    ASSUME NoneIsNull, NEW g, Dated(g), NEW r,
           OfMonth(r), NEW w, NEW p \in ToolNeeds(r), p # "",
           Known(p, "latest_month", w), Empties(g, r, w, p)
    PROVE  WasNothing(g, r, w)
<1>1. p \in {"latest_month", "month"}
  BY DEF ToolNeeds, Looked, OfMonth
<1>2. SUFFICES Sold(g, r.tenant, w, r.brand, r.store) = 0
  BY DEF WasNothing, OfMonth
<1>3. CASE p = "latest_month"
  <2>1. Own(g.sales, r.tenant) = {}
    BY <1>3, LatestFetchIs DEF Empties
  <2>2. QED
    BY <2>1, NoneSold
<1>4. CASE p = "month"
  <2>1. MonthlyTotals(g, r.tenant, w, r.brand, r.store) = None
    BY <1>4, MainFetch DEF Empties
  <2> DEFINE rows == {x \in Own(SalesMonthly(g), r.tenant) :
                        x.month = w /\ Is(r.brand, x.brand) /\ Is(r.store, x.store)}
  <2>2. rows = {}
    <3>1. rows # {} => MonthlyTotals(g, r.tenant, w, r.brand, r.store) = [month |-> w, n |-> Amount(rows)]
      BY DEF MonthlyTotals
    <3> HIDE DEF rows
    <3>2. QED
      BY <2>1, <3>1 DEF NoneIsNull
  <2>3. ASSUME NEW s \in Own(g.sales, r.tenant),
               Over(w, s.week), Is(r.brand, s.brand), Is(r.store, s.store)
        PROVE  FALSE
    <3>1. s.week \in Weeks
      BY DEF Dated, Own
    <3>a. w \in Calendar
      BY <1>4 DEF Known, KindOf
    <3>2. w = MonthOf[s.week]
      BY <2>3, <3>a, <3>1, OverMonth
    <3>3. PICK x \in Own(SalesMonthly(g), r.tenant) :
             x.month = MonthOf[s.week] /\ x.brand = s.brand /\ x.store = s.store
      BY SalesMonthlyHas
    <3>4. x \in rows
      BY <2>3, <3>2, <3>3
    <3>5. QED
      BY <2>2, <3>4
  <2>4. QED
    BY <2>3, NoneSold
<1>5. QED
  BY <1>1, <1>3, <1>4

\* The tools that answer in any case need nothing.
LEMMA NothingNeeded ==
    ASSUME NEW r, r.tool \in ToolNames \ (Reporting \cup {"get_sku_detail"})
    PROVE  ToolNeeds(r) = {""}
  BY DEF ToolNames, Reporting, ToolNeeds

\* Every way to end with nothing.
LEMMA NothingWas ==
    ASSUME NoneIsNull, NEW S, NEW c, Gone(S, c), c.failures = {}
    PROVE  \E g \in S : WasNothing(g, c.req, c.period)
<1>1. PICK g \in S : \E p \in ToolNeeds(c.req) :
              /\ p # "" /\ p = Program(c.req)[c.stage].needs
              /\ Dated(g) /\ Empties(g, c.req, c.period, p)
  BY NothingWasRead
<1>2. PICK p \in ToolNeeds(c.req) :
              /\ p # "" /\ p = Program(c.req)[c.stage].needs
              /\ Dated(g) /\ Empties(g, c.req, c.period, p)
  BY <1>1
<1>3. PICK r, w : r = c.req /\ w = c.period
  OBVIOUS
<1>4. r.tool \in ToolNames /\ Fits(r.tool, r)
  BY <1>3, RequestsFit DEF Gone, Shape
<1>5. p \in ToolNeeds(r) /\ Empties(g, r, w, p)
  BY <1>2, <1>3
<1>6. SUFFICES WasNothing(g, r, w)
  BY <1>3
<1>7. CASE r.tool \in {"get_executive_weekly_briefing", "get_executive_summary"}
  <2>1. OfWeek(r) /\ r.period \in Optional(KindOf("latest_week"))
    BY <1>4, <1>7 DEF Fits, KindOf, OfWeek
  <2>2. ToolNeeds(r) \cap Latests = Looked(r, "latest_week")
    BY <1>7 DEF ToolNeeds, Looked, Latests
  <2>3. p \in {"latest_week", "weekly_totals"}
    BY <1>2, <1>5, <1>7 DEF ToolNeeds, Looked
  <2>4. Known(p, "latest_week", w)
    <3>1. SUFFICES ASSUME p # "latest_week"
                   PROVE  c.period \in KindOf("latest_week")
      BY <1>3 DEF Known
    <3>2. Program(c.req)[c.stage].needs \notin Latests /\ "latest_week" \in Latests
      BY <1>2, <2>3, <3>1 DEF Latests
    <3>3. QED
      BY <1>3, <2>1, <2>2, <3>2, PeriodKnown
  <2>5. Dated(g) /\ p # "" /\ p \in ToolNeeds(r) /\ Empties(g, r, w, p)
    BY <1>2, <1>5
  <2>6. QED
    BY <2>1, <2>4, <2>5, NoWeek
<1>8. CASE r.tool = "get_store_daily_briefing"
  <2>1. r.store # None
    BY <1>4, <1>8, Basics DEF Fits
  <2>2. QED
    BY <1>2, <1>5, <1>8, <2>1, NoStore
<1>9. CASE r.tool = "get_brand_weekly_review"
  <2>1. r.brand # None
    BY <1>4, <1>9, Basics DEF Fits
  <2>2. QED
    BY <1>5, <1>9, <2>1, NoBrand
<1>10. CASE r.tool \in {"get_monthly_summary", "get_monthly_executive_briefing"}
  <2>1. OfMonth(r) /\ r.period \in Optional(KindOf("latest_month"))
    BY <1>4, <1>10 DEF Fits, KindOf, OfMonth
  <2>2. ToolNeeds(r) \cap Latests = Looked(r, "latest_month")
    BY <1>10 DEF ToolNeeds, Looked, Latests
  <2>3. p \in {"latest_month", "month"}
    BY <1>2, <1>5, <1>10 DEF ToolNeeds, Looked
  <2>4. Known(p, "latest_month", w)
    <3>1. SUFFICES ASSUME p # "latest_month"
                   PROVE  c.period \in KindOf("latest_month")
      BY <1>3 DEF Known
    <3>2. Program(c.req)[c.stage].needs \notin Latests /\ "latest_month" \in Latests
      BY <1>2, <2>3, <3>1 DEF Latests
    <3>3. QED
      BY <1>3, <2>1, <2>2, <3>2, PeriodKnown
  <2>5. Dated(g) /\ p # "" /\ p \in ToolNeeds(r) /\ Empties(g, r, w, p)
    BY <1>2, <1>5
  <2>6. QED
    BY <2>1, <2>4, <2>5, NoMonth
<1>11. CASE r.tool = "get_sku_detail"
  BY <1>2, <1>5, <1>11, NoSku
<1>12. CASE r.tool \in ToolNames \ (Reporting \cup {"get_sku_detail"})
  BY <1>2, <1>5, <1>12, NothingNeeded
<1>13. QED
  BY <1>4, <1>7, <1>8, <1>9, <1>10, <1>11, <1>12 DEF Reporting

\* A tool says there is nothing to report only if a query of it failed or, in a state
\* of the database during the call, nothing was there: whichever query of which stage
\* it stopped at, and whatever the refresh had deleted by then.
THEOREM NothingMeansNothing == ASSUME NoneIsNull PROVE Spec => []NothingWasThere
<1>1. IInv => NothingWasThere
  <2> SUFFICES ASSUME IInv, call.at = "nothing", call.failures = {}
               PROVE  NothingWasThere
    BY DEF NothingWasThere
  <2>1. PICK S, c : S = seen /\ c = call
    OBVIOUS
  <2>2. Gone(S, c) /\ c.failures = {}
    BY <2>1 DEF IInv, GoodCall, Gone
  <2>3. \E g \in S : WasNothing(g, c.req, c.period)
    BY <2>2, NothingWas
  <2>4. QED
    BY <2>1, <2>3 DEF WasNothing, NothingWasThere
<1>2. QED
  BY Invariance, <1>1, PTL

-----------------------------------------------------------------------------
(* The rows of the facts.                                                  *)

\* A row of the stock.
StockOk(s) ==
    s.store \in Stores /\ s.sku \in Skus /\ s.left \in Int /\ s.obsolete \in BOOLEAN

\* The facts are finite, of products and stores there are, and a line of sales
\* has the brand of its product.
Typed(g) ==
    /\ IsFiniteSet(g.sales) /\ IsFiniteSet(g.stock)
    /\ \A s \in g.sales : s.n \in Nat /\ s.sku \in Skus /\ s.brand = BrandOf(s.tenant, s.sku)
    /\ \A s \in g.stock : StockOk(s)

FullDb(g) == GoodDb(g) /\ Typed(g)

\* What a function makes of a finite set is finite.
LEMMA Images ==
    ASSUME NEW S, IsFiniteSet(S), NEW f, f = [x \in S |-> f[x]]
    PROVE  /\ IsFiniteSet({f[x] : x \in S})
           /\ Cardinality({f[x] : x \in S}) <= Cardinality(S)
           /\ (\A x, y \in S : f[x] = f[y] => x = y) => Cardinality({f[x] : x \in S}) = Cardinality(S)
<1> DEFINE T == {f[x] : x \in S}
<1>1. f \in Surjection(S, T)
  BY DEF Surjection
<1>2. (\A x, y \in S : f[x] = f[y] => x = y) => f \in Injection(S, T)
  BY <1>1 DEF Injection, IsInjective, Surjection
<1> HIDE DEF T
<1>3. /\ IsFiniteSet(T)
      /\ Cardinality(T) <= Cardinality(S)
      /\ Cardinality(T) = Cardinality(S) <=> f \in Injection(S, T)
  BY <1>1, FS_Surjection
<1>4. QED
  BY <1>2, <1>3 DEF T

\* The INSERT of the sales writes finitely many lines, with the brand of the product.
LEMMA SalesRowsTyped ==
    ASSUME NEW docs \in SUBSET Issuable, NEW t, NEW W
    PROVE  /\ IsFiniteSet(SalesRows(docs, t, W))
           /\ \A s \in SalesRows(docs, t, W) :
                 s.n \in Nat /\ s.sku \in Skus /\ s.brand = BrandOf(s.tenant, s.sku)
<1> DEFINE Same(w, s, k) == {e \in Own(docs, t) : e.week = w /\ e.store = s /\ e.sku = k}
           N(w, s, k) == Cardinality(Same(w, s, k))
           Line(d) == [tenant |-> t, week |-> d.week, store |-> d.store, sku |-> d.sku,
                       brand |-> BrandOf(t, d.sku), n |-> N(d.week, d.store, d.sku)]
           mine == {d \in Own(docs, t) : d.week \in W}
           f == [d \in mine |-> Line(d)]
<1>1. SalesRows(docs, t, W) = {Line(d) : d \in mine}
  BY DEF SalesRows
<1>2. IsFiniteSet(docs)
  BY BriefingsAssumption, FS_Subset
<1>3. IsFiniteSet(mine)
  BY <1>2, FS_Subset DEF Own
<1>4. \A w, s, k : N(w, s, k) \in Nat
  <2>1. \A w, s, k : IsFiniteSet(Same(w, s, k))
    BY <1>2, FS_Subset DEF Own
  <2> HIDE DEF Same
  <2>2. QED
    BY <2>1, FS_CardinalityType
<1>5. \A d \in mine : d.sku \in Skus
  BY BriefingsAssumption DEF Document, Own
<1> HIDE DEF N, mine
<1>6. IsFiniteSet({f[d] : d \in mine})
  <2>1. f = [d \in mine |-> f[d]]
    OBVIOUS
  <2> HIDE DEF f
  <2>2. QED
    BY <1>3, <2>1, Images
<1>7. {f[d] : d \in mine} = {Line(d) : d \in mine}
  OBVIOUS
<1>8. \A d \in mine : /\ Line(d).n \in Nat /\ Line(d).sku \in Skus
                      /\ Line(d).brand = BrandOf(Line(d).tenant, Line(d).sku)
  BY <1>4, <1>5
<1> HIDE DEF Line, f
<1>9. QED
  BY <1>1, <1>6, <1>7, <1>8

\* Of some documents one is the last.
LEMMA HasLast ==
    ASSUME NEW D \in SUBSET Issuable, D # {}
    PROVE  \E d \in D : \A e \in D : d.week > e.week \/ (d.week = e.week /\ d.id >= e.id)
<1> DEFINE Newer(d, e) == d.week > e.week \/ (d.week = e.week /\ d.id >= e.id)
           Good == {T \in SUBSET D : T = {} \/ \E d \in T : \A e \in T : Newer(d, e)}
<1>1. IsFiniteSet(D)
  BY BriefingsAssumption, FS_Subset
<1>2. \A d \in D : d.week \in Nat /\ d.id \in Nat
  BY Basics, BriefingsAssumption DEF Document, Weeks
<1>3. /\ \A d \in D : Newer(d, d)
      /\ \A d, e \in D : Newer(d, e) \/ Newer(e, d)
      /\ \A d, e, h \in D : Newer(d, e) /\ Newer(e, h) => Newer(d, h)
  BY <1>2
<1> HIDE DEF Newer
<1>4. {} \in Good
  OBVIOUS
<1>5. ASSUME NEW T \in SUBSET D, NEW x \in D \ T, T \in Good
      PROVE  T \cup {x} \in Good
  <2>1. CASE T = {}
    BY <1>3, <2>1
  <2>2. CASE T # {}
    <3>1. PICK d \in T : \A e \in T : Newer(d, e)
      BY <1>5, <2>2
    <3>2. CASE Newer(d, x)
      BY <3>1, <3>2
    <3>3. CASE Newer(x, d)
      BY <1>3, <3>1, <3>3
    <3>4. QED
      BY <1>3, <3>2, <3>3
  <2>3. QED
    BY <2>1, <2>2
<1>6. D \in Good
  <2> HIDE DEF Good
  <2>1. QED
    BY <1>1, <1>4, <1>5, OneMore
<1>7. QED
  BY <1>6 DEF Newer

\* The INSERT of the stock writes finitely many rows, of stores and products there are.
LEMMA StockRowsTyped ==
    ASSUME NEW docs \in SUBSET Issuable, NEW t, NEW W \in SUBSET Weeks
    PROVE  /\ IsFiniteSet(StockRows(docs, t, W))
           /\ \A s \in StockRows(docs, t, W) : StockOk(s)
<1> DEFINE Upto(w, s, k) == {d \in Own(docs, t) : d.week <= w /\ d.store = s /\ d.sku = k}
           Last(D) == CHOOSE d \in D : \A e \in D : d.week > e.week \/ (d.week = e.week /\ d.id >= e.id)
           Final(w, s, k) == Last(Upto(w, s, k))
           Line(x) == StockRow(t, x[1], x[2], x[3], Final(x[1], x[2], x[3]))
           pairs == (W \X Stores) \X Skus
           f == [y \in pairs |-> Line(<<y[1][1], y[1][2], y[2]>>)]
<1>1. ASSUME NEW r \in StockRows(docs, t, W)
      PROVE  \E x \in W \X Stores \X Skus : r = Line(x) /\ Upto(x[1], x[2], x[3]) # {}
  BY DEF StockRows
<1>2. IsFiniteSet(pairs)
  <2>1. Weeks = 1..Today /\ Today \in Nat
    BY Basics DEF Weeks
  <2>2. IsFiniteSet(1..Today)
    BY <2>1, FS_Interval
  <2>3. IsFiniteSet(W) /\ IsFiniteSet(Stores) /\ IsFiniteSet(Skus)
    BY <2>1, <2>2, FS_Subset, BriefingsAssumption
  <2>4. IsFiniteSet(W \X Stores)
    BY <2>3, FS_Product
  <2>5. QED
    BY <2>3, <2>4, FS_Product
<1>3. \A r \in StockRows(docs, t, W) : StockOk(r)
  <2>1. ASSUME NEW r \in StockRows(docs, t, W)
        PROVE  StockOk(r)
    <3>1. PICK x \in W \X Stores \X Skus : r = Line(x) /\ Upto(x[1], x[2], x[3]) # {}
      BY <1>1
    <3>2. Upto(x[1], x[2], x[3]) \in SUBSET Issuable
      BY DEF Own
    <3>3. \E d \in Upto(x[1], x[2], x[3]) :
             \A e \in Upto(x[1], x[2], x[3]) : d.week > e.week \/ (d.week = e.week /\ d.id >= e.id)
      BY <3>1, <3>2, HasLast
    <3>4. Final(x[1], x[2], x[3]) \in Issuable
      BY <3>2, <3>3
    <3> HIDE DEF Final, Upto
    <3>5. Final(x[1], x[2], x[3]).left \in Int
      BY <3>4, BriefingsAssumption DEF Document
    <3>6. x[2] \in Stores /\ x[3] \in Skus
      OBVIOUS
    <3>7. /\ r.store = x[2] /\ r.sku = x[3] /\ r.left = Final(x[1], x[2], x[3]).left
          /\ r.obsolete \in BOOLEAN
      BY <3>1 DEF StockRow
    <3>8. QED
      BY <3>5, <3>6, <3>7 DEF StockOk
  <2>2. QED
    BY <2>1
<1> HIDE DEF Final
<1>4. \A r \in StockRows(docs, t, W) : r \in {f[y] : y \in pairs}
  <2>1. ASSUME NEW r \in StockRows(docs, t, W)
        PROVE  r \in {f[y] : y \in pairs}
    <3>1. PICK x \in W \X Stores \X Skus : r = Line(x)
      BY <1>1
    <3>2. PICK w \in W, s \in Stores, k \in Skus : x = <<w, s, k>>
      OBVIOUS
    <3>3. <<<<w, s>>, k>> \in pairs /\ f[<<<<w, s>>, k>>] = Line(<<w, s, k>>)
      OBVIOUS
    <3>4. QED
      BY <3>1, <3>2, <3>3
  <2>2. QED
    BY <2>1
<1>5. IsFiniteSet({f[y] : y \in pairs})
  <2>1. f = [y \in pairs |-> f[y]]
    OBVIOUS
  <2> HIDE DEF f, pairs
  <2>2. QED
    BY <1>2, <2>1, Images
<1> HIDE DEF f, pairs, Line
<1>6. QED
  BY <1>3, <1>4, <1>5, FS_Subset

\* The rows of all tenants.
LEMMA LoadedIsTyped ==
    ASSUME NEW docs \in SUBSET Issuable
    PROVE  Typed(Loaded(docs))
<1> DEFINE S == [t \in Tenants |-> SalesRows(docs, t, Weeks)]
           K == [t \in Tenants |-> StockRows(docs, t, Weeks)]
           sales == UNION {S[t] : t \in Tenants}
           stock == UNION {K[t] : t \in Tenants}
<1>1. Loaded(docs).sales = sales /\ Loaded(docs).stock = stock
  BY DEF Loaded
<1>2. \A t \in Tenants : /\ IsFiniteSet(S[t])
                         /\ \A s \in S[t] : /\ s.n \in Nat /\ s.sku \in Skus
                                            /\ s.brand = BrandOf(s.tenant, s.sku)
  BY SalesRowsTyped
<1>3. \A t \in Tenants : /\ IsFiniteSet(K[t])
                         /\ \A s \in K[t] : StockOk(s)
  BY StockRowsTyped
<1>4. S = [t \in Tenants |-> S[t]] /\ K = [t \in Tenants |-> K[t]]
  OBVIOUS
<1> HIDE DEF S, K
<1>5. IsFiniteSet({S[t] : t \in Tenants}) /\ IsFiniteSet({K[t] : t \in Tenants})
  BY <1>4, BriefingsAssumption, Images
<1>6. IsFiniteSet(sales) /\ IsFiniteSet(stock)
  BY <1>2, <1>3, <1>5, FS_UNION
<1>7. QED
  BY <1>1, <1>2, <1>3, <1>6 DEF Typed

\* A database whose facts are those of another, or fewer or new rows.
LEMMA FewerAreTyped ==
    ASSUME NEW g, Typed(g), NEW h, h.sales \subseteq g.sales, h.stock \subseteq g.stock
    PROVE  Typed(h)
  BY FS_Subset DEF Typed

\* A fact with the rows of an INSERT is typed.
LEMMA MoreAreTyped ==
    ASSUME NEW g, FullDb(g), NEW t, NEW W \in SUBSET Weeks, NEW table \in {"sales", "stock"},
           NEW h, h = [g EXCEPT ![table] = g[table] \cup Rows(g.docs, t, W, table)]
    PROVE  Typed(h)
<1> DEFINE rows == Rows(g.docs, t, W, table)
<1>1. g.docs \in SUBSET Issuable
  BY DEF FullDb, GoodDb
<1>2. g = [docs |-> g.docs, sales |-> g.sales, stock |-> g.stock]
  BY DEF FullDb, GoodDb
<1>3. Typed(g)
  BY DEF FullDb
<1>4. table = "sales" => rows = SalesRows(g.docs, t, W)
  BY DEF Rows
<1>5. table = "stock" => rows = StockRows(g.docs, t, W)
  BY DEF Rows
<1>6. h = [g EXCEPT ![table] = g[table] \cup rows]
  OBVIOUS
<1> HIDE DEF rows
<1>7. CASE table = "sales"
  <2>1. h = [docs |-> g.docs, sales |-> g.sales \cup rows, stock |-> g.stock]
    BY <1>2, <1>6, <1>7
  <2>2. h.sales = g.sales \cup rows /\ h.stock = g.stock
    BY <2>1
  <2>3. /\ IsFiniteSet(rows)
        /\ \A s \in rows : s.n \in Nat /\ s.sku \in Skus /\ s.brand = BrandOf(s.tenant, s.sku)
    BY <1>1, <1>4, <1>7, SalesRowsTyped
  <2>4. IsFiniteSet(h.sales)
    <3>1. IsFiniteSet(g.sales)
      BY <1>3 DEF Typed
    <3>2. IsFiniteSet(g.sales \cup rows)
      BY <2>3, <3>1, FS_Union
    <3>3. QED
      BY <2>2, <3>2
  <2>5. QED
    BY <1>3, <2>2, <2>3, <2>4 DEF Typed
<1>8. CASE table = "stock"
  <2>1. h = [docs |-> g.docs, sales |-> g.sales, stock |-> g.stock \cup rows]
    BY <1>2, <1>6, <1>8
  <2>2. h.sales = g.sales /\ h.stock = g.stock \cup rows
    BY <2>1
  <2>3. IsFiniteSet(rows) /\ \A s \in rows : StockOk(s)
    BY <1>1, <1>5, <1>8, StockRowsTyped
  <2>4. IsFiniteSet(h.stock)
    <3>1. IsFiniteSet(g.stock)
      BY <1>3 DEF Typed
    <3>2. IsFiniteSet(g.stock \cup rows)
      BY <2>3, <3>1, FS_Union
    <3>3. QED
      BY <2>2, <3>2
  <2>5. QED
    BY <1>3, <2>2, <2>3, <2>4 DEF Typed
<1>9. QED
  BY <1>7, <1>8

\* A query that was not read is named with those that failed.
Told(S, c) == \A p \in DOMAIN c.got : WasRead(S, c, p, c.got[p]) \/ p \in c.failures

\* The database and every state of it a call may have read is typed, and an answer
\* names what was not read.
FInv ==
    /\ FullDb(db) /\ \A g \in seen : FullDb(g)
    /\ call.at = "answered" => Told(seen, call)

\* Only the last stage of a program is gathered.
LEMMA LastGathered ==
    ASSUME NEW P, NEW a, P \in Seq(Stages), Gathered(P) = {}, a \in Stages,
           NEW p \in Gathered(P \o <<a>>)
    PROVE  p \in Range((P \o <<a>>)[Len(P \o <<a>>)].parts)
<1> DEFINE Q == P \o <<a>>
<1>1. PICK m : m = Len(P)
  OBVIOUS
<1>2. /\ m \in Nat /\ Len(Q) = m + 1 /\ DOMAIN Q = 1..(m + 1) /\ DOMAIN P = 1..m
      /\ \A i \in 1..m : Q[i] = P[i]
  BY <1>1
<1> HIDE DEF Q
<1>3. PICK i \in DOMAIN Q : Q[i].gathered /\ p \in Range(Q[i].parts)
  BY Members DEF Q
<1>4. i \notin 1..m
  <2>1. SUFFICES ASSUME i \in 1..m PROVE FALSE
    OBVIOUS
  <2>2. i \in DOMAIN P /\ P[i].gathered /\ p \in Range(P[i].parts)
    BY <1>2, <1>3, <2>1
  <2>3. p \in Gathered(P)
    BY <2>2, Members
  <2>4. QED
    BY <2>3
<1>5. i = m + 1
  BY <1>2, <1>3, <1>4
<1>6. QED
  BY <1>2, <1>3, <1>5 DEF Q

\* The tools of a single query.
OneQuery(r) ==
    r.tool \in {"get_store_dashboard", "get_brand_performance", "get_active_alerts",
               "get_action_recommendations", "get_sku_coverage_status",
               "get_velocity_segmentation", "compare_periods"}

\* The program of a tool of one query.
LEMMA OneQueryOf ==
    ASSUME NEW r, OneQuery(r)
    PROVE  \E part \in PartNames \ Latests : Program(r) = <<Await(part, "")>>
<1>1. CASE r.tool = "get_store_dashboard"
  BY <1>1 DEF Program, PartNames, Latests
<1>2. CASE r.tool = "get_brand_performance"
  BY <1>2 DEF Program, PartNames, Latests
<1>3. CASE r.tool = "get_active_alerts"
  BY <1>3 DEF Program, PartNames, Latests
<1>4. CASE r.tool = "get_action_recommendations"
  BY <1>4 DEF Program, PartNames, Latests
<1>5. CASE r.tool = "get_sku_coverage_status"
  BY <1>5 DEF Program, PartNames, Latests
<1>6. CASE r.tool = "get_velocity_segmentation"
  BY <1>6 DEF Program, PartNames, Latests
<1>7. CASE r.tool = "compare_periods"
  BY <1>7 DEF Program, PartNames, Latests
<1>8. QED
  BY <1>1, <1>2, <1>3, <1>4, <1>5, <1>6, <1>7 DEF OneQuery

\* What a program gathers is of its last stage.
LEMMA GatheredLast ==
    ASSUME NEW r \in Requests, NEW p \in Gathered(Program(r))
    PROVE  p \in Range(Program(r)[Len(Program(r))].parts)
<1>0. r.tool \in ToolNames
  BY RequestsFit
<1> DEFINE P == Resolve(r, "latest_week")
           five == <<"plan_totals", "distinct_tickets", "active_alerts", "brand_performance",
                     "action_recommendations">>
           three == <<"store_dashboard", "active_alerts", "sku_coverage">>
           review == <<"brand_performance", "active_alerts", "velocity_segmentation">>
<1>1. P \in Seq(Stages) /\ Gathered(P) = {}
  BY ResolveHas DEF Latests, Has, Orderly
<1>2. \A parts \in Seq(PartNames), needs \in PartNames \cup {""} : Gather(parts, needs) \in Stages
  BY DEF Gather, Stages
<1>3. /\ five \in Seq(PartNames) /\ three \in Seq(PartNames) /\ review \in Seq(PartNames)
      /\ "store_dashboard" \in PartNames /\ "brand_performance" \in PartNames
      /\ "weekly_totals" \in PartNames
  BY DEF PartNames
<1> HIDE DEF P, five, three, review
<1>4. CASE r.tool = "get_executive_weekly_briefing"
  <2>1. Program(r) = P \o <<Await("weekly_totals", "weekly_totals"), Gather(five, "")>>
    BY <1>4 DEF Program, ExecutiveWeekly, P, five
  <2>2. Await("weekly_totals", "weekly_totals") \in Stages /\ Gather(five, "") \in Stages
    BY <1>2, <1>3, AwaitIs
  <2>3. PICK a, b, M : /\ a = Await("weekly_totals", "weekly_totals") /\ b = Gather(five, "")
                       /\ M = P \o <<a>>
    OBVIOUS
  <2>4. Program(r) = M \o <<b>>
    BY <1>1, <2>1, <2>2, <2>3, Pairwise
  <2>5. M \in Seq(Stages)
    <3>1. a \in Stages /\ b \in Stages
      BY <2>2, <2>3
    <3>2. P \o <<a>> \in Seq(Stages)
      BY <1>1, <3>1
    <3>3. QED
      BY <2>3, <3>2
  <2>6. Has(P, Looked(r, "latest_week"), Looked(r, "latest_week"), {})
    BY ResolveHas DEF Latests, P
  <2>7. "weekly_totals" \notin Latests /\ "weekly_totals" \notin Looked(r, "latest_week")
    BY DEF Latests, Looked
  <2>8. Has(P \o <<Await("weekly_totals", "weekly_totals")>>, Looked(r, "latest_week") \cup {"weekly_totals"},
            Looked(r, "latest_week") \cup {"weekly_totals"}, {})
    BY <1>3, <2>6, <2>7, ThenAwait
  <2>9. Gathered(M) = {}
    BY <2>3, <2>8 DEF Has
  <2>10. QED
    BY <2>2, <2>3, <2>4, <2>5, <2>9, LastGathered
<1>5. CASE r.tool = "get_store_daily_briefing"
  <2>1. Program(r) = P \o <<Gather(three, "store_dashboard")>>
    BY <1>5 DEF Program, StoreDaily, P, three
  <2>2. QED
    BY <1>1, <1>2, <1>3, <2>1, LastGathered
<1>6. CASE r.tool = "get_brand_weekly_review"
  <2>1. Program(r) = <<>> \o <<Gather(review, "brand_performance")>>
    BY <1>6 DEF Program, BrandWeekly, review
  <2>2. <<>> \in Seq(Stages) /\ Gathered(<<>>) = {}
    BY Empty DEF Has
  <2>3. QED
    BY <1>2, <1>3, <2>1, <2>2, LastGathered
<1>7. CASE r.tool \notin {"get_executive_weekly_briefing", "get_store_daily_briefing",
                          "get_brand_weekly_review"}
  <2>1. Gathered(Program(r)) = {}
    <3>1. CASE r.tool = "get_executive_summary"
      BY <3>1, ExecutiveSummaryHas DEF Program, Has
    <3>2. CASE r.tool = "get_monthly_summary"
      BY <3>2, MonthlySummaryHas DEF Program, Has
    <3>3. CASE r.tool = "get_monthly_executive_briefing"
      BY <3>3, MonthlyExecutiveHas DEF Program, Has
    <3>4. CASE r.tool = "get_sku_detail"
      BY <3>4, SkuDetailHas DEF Program, Has
    <3>5. CASE OneQuery(r)
      <4>1. \E part \in PartNames \ Latests : Program(r) = <<Await(part, "")>>
        BY <3>5, OneQueryOf
      <4>2. QED
        BY <4>1, OneQueryHas DEF Has
    <3>6. QED
      BY <1>0, <1>7, <3>1, <3>2, <3>3, <3>4, <3>5 DEF ToolNames, OneQuery
  <2>2. QED
    BY <2>1
<1>8. QED
  BY <1>4, <1>5, <1>6, <1>7

\* An answer has read all that did not fail.
LEMMA AnswerTold ==
    ASSUME NEW S, NEW c, NEW raw, StageEnds(S, c, raw),
           NEW d, d = Resume(c, raw), d.at = "answered"
    PROVE  Told(S, d)
<1>1. Shape(c) /\ c.at = "running" /\ IsRunning(S, c) /\ c.req \in Requests
  BY DEF StageEnds, Shape
<1>2. PICK P, n, got : P = Program(c.req) /\ n = c.stage /\ got = NewGot(c, raw)
  OBVIOUS
<1>3. d = After(c, raw, "answered", n, <<>>) /\ n = Len(P)
  <2>1. d = IF ~P[n].gathered /\ raw[1].state = "failed"
            THEN After(c, raw, "raised", n, <<>>)
            ELSE IF Nothing(got, P[n].needs)
            THEN After(c, raw, "nothing", n, <<>>)
            ELSE IF n = Len(P)
            THEN After(c, raw, "answered", n, <<>>)
            ELSE After(c, raw, "running", n + 1, AllPending(P[n + 1]))
    BY <1>1, <1>2, ResumeIs
  <2>2. \A at, stage, next : After(c, raw, at, stage, next).at = at
    BY DEF After
  <2>3. d # After(c, raw, "raised", n, <<>>) /\ d # After(c, raw, "nothing", n, <<>>)
    BY <2>2
  <2>4. d # After(c, raw, "running", n + 1, AllPending(P[n + 1]))
    BY <2>2
  <2>5. QED
    BY <2>1, <2>3, <2>4
<1>4. /\ d.req = c.req /\ d.got = got /\ d.period = NewPeriod(c, raw)
      /\ d.failures = NewFailures(c, raw)
  BY <1>2, <1>3 DEF After
<1>5. \A p \in DOMAIN d.got : \A v : WasRead(S, c, p, v) => WasRead(S, d, p, v)
  BY <1>2, <1>4, NewPeriodIs
<1>6. Gets(S, c, raw, got)
  BY <1>2, NewGotIs
<1>7. SUFFICES ASSUME NEW p \in DOMAIN d.got
               PROVE  WasRead(S, d, p, d.got[p]) \/ p \in d.failures
  BY DEF Told
<1>8. CASE p \in Range(NamesOf(c))
  BY <1>4, <1>5, <1>6, <1>8 DEF Gets
<1>9. CASE p \notin Range(NamesOf(c))
  <2>1. p \in DOMAIN c.got /\ d.got[p] = c.got[p]
    BY <1>4, <1>6, <1>9 DEF Gets
  <2>2. p \notin Gathered(P)
    <3>1. P[n].parts = NamesOf(c)
      BY <1>2 DEF NamesOf
    <3>2. p \in Gathered(Program(c.req)) =>
             p \in Range(Program(c.req)[Len(Program(c.req))].parts)
      BY <1>1, GatheredLast
    <3>3. QED
      BY <1>2, <1>3, <1>9, <3>1, <3>2
  <2>3. WasRead(S, c, p, c.got[p])
    BY <1>1, <1>2, <2>1, <2>2 DEF IsRunning, GotIsRead
  <2>4. QED
    BY <1>5, <2>1, <2>3
<1>10. QED
  BY <1>8, <1>9

\* The extended invariant holds at first.
LEMMA InitFull == Init => FInv
<1> SUFFICES ASSUME Init
             PROVE  FInv
  OBVIOUS
<1>1. PICK docs \in Initially : db = Loaded(docs)
  BY DEF Init
<1>2. docs \in SUBSET Issuable
  BY <1>1, Basics
<1>3. FullDb(db)
  BY <1>1, <1>2, LoadedIsGood, LoadedIsTyped DEF FullDb
<1>4. call.at = "idle" /\ seen = {}
  BY DEF Init, NoCall
<1>5. QED
  BY <1>3, <1>4 DEF FInv

\* A statement that leaves facts of that kind behind.
LEMMA CommitFull ==
    ASSUME IInv, IInv', FInv, NEW new, Commit(new), Typed(new)
    PROVE  FInv'
<1>1. /\ db' = new /\ call' = call /\ call.at \in {"idle", "running"}
      /\ seen' = IF call.at = "running" THEN seen \cup {new} ELSE seen
  BY DEF Commit
<1>2. GoodDb(db')
  BY DEF IInv
<1>3. GoodDb(new)
  BY <1>1, <1>2
<1>4. FullDb(new)
  BY <1>3 DEF FullDb
<1>5. \A g \in seen' : FullDb(g)
  BY <1>1, <1>4 DEF FInv
<1>6. FullDb(db')
  BY <1>1, <1>4
<1>7. call'.at # "answered"
  BY <1>1
<1>8. QED
  BY <1>5, <1>6, <1>7 DEF FInv

\* An edit of a document keeps it.
LEMMA EditFull ==
    ASSUME IInv, IInv', FInv, NEW d \in Issuable, EditDocument(d)
    PROVE  FInv'
<1>1. PICK docs : docs = IF d \in db.docs THEN db.docs \ {d} ELSE db.docs \cup {d}
  OBVIOUS
<1>2. PICK g, new : g = db /\ new = [db EXCEPT !.docs = docs]
  OBVIOUS
<1>3. Typed(g) /\ g = [docs |-> g.docs, sales |-> g.sales, stock |-> g.stock]
  BY <1>2 DEF FInv, FullDb, GoodDb
<1>4. new.sales = g.sales /\ new.stock = g.stock
  BY <1>2, <1>3
<1>5. Typed(new)
  BY <1>3, <1>4, FewerAreTyped
<1>6. Commit(new)
  BY <1>1, <1>2 DEF EditDocument
<1>7. QED
  BY <1>5, <1>6, CommitFull

\* The DELETE of a fact keeps it.
LEMMA DeleteFull ==
    ASSUME IInv, IInv', FInv, NEW t \in Tenants, NEW table \in {"sales", "stock"}, Delete(t, table)
    PROVE  FInv'
<1>1. PICK g, W, new :
         /\ g = db /\ W = Window(db.docs, t)
         /\ new = [db EXCEPT ![table] = {r \in @ : r.tenant # t \/ r.week \notin Window(db.docs, t)}]
  OBVIOUS
<1>2. Typed(g) /\ g = [docs |-> g.docs, sales |-> g.sales, stock |-> g.stock]
  BY <1>1 DEF FInv, FullDb, GoodDb
<1>3. PICK rows : rows = {r \in g[table] : r.tenant # t \/ r.week \notin W}
  OBVIOUS
<1>4. new = [g EXCEPT ![table] = rows]
  BY <1>1, <1>3
<1>5. new.sales \subseteq g.sales /\ new.stock \subseteq g.stock
  <2>1. CASE table = "sales"
    BY <1>2, <1>3, <1>4, <2>1
  <2>2. CASE table = "stock"
    BY <1>2, <1>3, <1>4, <2>2
  <2>3. QED
    BY <2>1, <2>2
<1>6. Typed(new)
  BY <1>2, <1>5, FewerAreTyped
<1>7. Commit(new)
  BY <1>1 DEF Delete
<1>8. QED
  BY <1>6, <1>7, CommitFull

\* The INSERT of a fact keeps it.
LEMMA InsertFull ==
    ASSUME IInv, IInv', FInv, NEW t \in Tenants, Insert(t)
    PROVE  FInv'
<1>1. PICK g, W, table, new :
         /\ g = db /\ W = cleared[t].weeks /\ table = cleared[t].table
         /\ new = [db EXCEPT ![cleared[t].table] =
                      @ \cup Rows(db.docs, t, cleared[t].weeks, cleared[t].table)]
  OBVIOUS
<1>2. FullDb(g)
  BY <1>1 DEF FInv
<1>3. W \in SUBSET Weeks /\ table \in {"sales", "stock"}
  BY <1>1 DEF Insert, IInv, GoodCleared
<1>4. new = [g EXCEPT ![table] = g[table] \cup Rows(g.docs, t, W, table)]
  BY <1>1
<1>5. Typed(new)
  BY <1>2, <1>3, <1>4, MoreAreTyped
<1>6. Commit(new)
  BY <1>1 DEF Insert
<1>7. QED
  BY <1>5, <1>6, CommitFull

\* A query ends: the database stays.
LEMMA EndFull ==
    ASSUME IInv, FInv, NEW i, Running(i), NEW x, End(i, x),
           \/ x = Failed
           \/ x = Value(Fetch(db, call.req, call.period, Program(call.req)[call.stage].parts[i])),
           UNCHANGED <<db, seen>>
    PROVE  FInv'
<1>1. call.at = "running" /\ i \in DOMAIN call.raw
  BY DEF Running
<1>2. PICK S, c, raw : S = seen /\ c = call /\ raw = [call.raw EXCEPT ![i] = x]
  OBVIOUS
<1>3. \A g \in S : Dated(g)
  BY <1>2 DEF IInv
<1>4. Shape(c) /\ IsRunning(S, c) /\ c.at = "running" /\ db \in S
  BY <1>1, <1>2 DEF IInv, GoodCall
<1>5. call' = IF \E j \in DOMAIN raw : raw[j].state = "pending"
              THEN [c EXCEPT !.raw = raw] ELSE Resume(c, raw)
  BY <1>2 DEF End
<1>6. call'.at = "answered" => Told(S, call')
  <2>1. CASE \E j \in DOMAIN raw : raw[j].state = "pending"
    <3>1. PICK d : d = [c EXCEPT !.raw = raw]
      OBVIOUS
    <3>2. d.at = "running"
      BY <1>4, <3>1 DEF Shape
    <3>3. QED
      BY <1>5, <2>1, <3>1, <3>2
  <2>2. CASE ~\E j \in DOMAIN raw : raw[j].state = "pending"
    <3>1. x = Failed \/ (x = Value(x.value) /\ WasRead(S, c, NamesOf(c)[i], x.value))
      BY <1>2, <1>4 DEF Value, WasRead, NamesOf
    <3>2. RawIsRead(S, c, c.raw)
      BY <1>4 DEF IsRunning
    <3>3. DOMAIN raw = DOMAIN c.raw /\ raw[i] = x /\ \A j \in DOMAIN raw \ {i} : raw[j] = c.raw[j]
      BY <1>1, <1>2
    <3>4. RawIsRead(S, c, raw)
      BY <3>1, <3>2, <3>3 DEF RawIsRead, NamesOf
    <3>5. StageEnds(S, c, raw)
      BY <1>3, <1>4, <2>2, <3>4 DEF StageEnds
    <3>6. PICK d : d = Resume(c, raw)
      OBVIOUS
    <3>7. d.at = "answered" => Told(S, d)
      BY <3>5, <3>6, AnswerTold
    <3>8. QED
      BY <1>5, <2>2, <3>6, <3>7
  <2>3. QED
    BY <2>1, <2>2
<1>7. QED
  BY <1>2, <1>6 DEF FInv

\* Every step keeps it.
LEMMA NextFull == IInv /\ IInv' /\ FInv /\ [Next]_vars => FInv'
<1> SUFFICES ASSUME IInv, IInv', FInv, [Next]_vars
             PROVE  FInv'
  OBVIOUS
<1>1. ASSUME NEW d \in Issuable, EditDocument(d)
      PROVE  FInv'
  BY <1>1, EditFull
<1>2. ASSUME NEW t \in Tenants, NEW table \in {"sales", "stock"}, Delete(t, table)
      PROVE  FInv'
  BY <1>2, DeleteFull
<1>3. ASSUME NEW t \in Tenants, Insert(t)
      PROVE  FInv'
  BY <1>3, InsertFull
<1>4. ASSUME NEW r \in Requests, Start(r)
      PROVE  FInv'
  <2>1. seen' = {db} /\ db' = db /\ call'.at = "running"
    BY <1>4 DEF Start
  <2>2. QED
    BY <2>1 DEF FInv
<1>5. ASSUME NEW i \in Slots, Read(i)
      PROVE  FInv'
  <2>1. PICK x : x = Value(Fetch(db, call.req, call.period, Program(call.req)[call.stage].parts[i]))
    OBVIOUS
  <2>2. Running(i) /\ End(i, x) /\ UNCHANGED <<db, seen>>
    BY <1>5, <2>1 DEF Read
  <2>3. QED
    BY <2>1, <2>2, EndFull
<1>6. ASSUME NEW i \in Slots, Fail(i)
      PROVE  FInv'
  <2>1. Running(i) /\ End(i, Failed) /\ UNCHANGED <<db, seen>>
    BY <1>6 DEF Fail
  <2>2. QED
    BY <2>1, EndFull
<1>7. CASE UNCHANGED vars
  BY <1>7 DEF FInv, vars
<1>8. QED
  BY <1>1, <1>2, <1>3, <1>4, <1>5, <1>6, <1>7 DEF Next, World

\* Both invariants hold at all times.
LEMMA AlwaysFull == Spec => [](IInv /\ FInv)
<1>1. QED
  BY InitInv, InitFull, NextInv, NextFull, PTL DEF Spec

-----------------------------------------------------------------------------
(* The amount of a set of rows.                                            *)

\* Rows that can be added up.
Countable(S) == IsFiniteSet(S) /\ \A s \in S : s.n \in Nat

\* The amount of some lines is a sum of one function on all of them.
LEMMA AmountWithin ==
    ASSUME NEW S, Countable(S), NEW R \in SUBSET S
    PROVE  Amount(R) = SumFunctionOnSet([s \in S |-> s.n], R)
<1>1. PICK f, h : f = [s \in R |-> s.n] /\ h = [s \in S |-> s.n]
  OBVIOUS
<1>2. IsFiniteSet(R) /\ DOMAIN f = R /\ \A s \in R : f[s] = h[s]
  BY <1>1, FS_Subset DEF Countable
<1>3. Amount(R) = SumFunctionOnSet(f, R)
  BY <1>1, <1>2 DEF Amount, SumFunction
<1>4. SumFunctionOnSet(f, R) = SumFunctionOnSet(h, R)
  BY <1>2, SumsEqual
<1>5. QED
  BY <1>1, <1>3, <1>4

\* It is a number.
LEMMA AmountIsNat ==
    ASSUME NEW S, Countable(S), NEW R \in SUBSET S
    PROVE  Amount(R) \in Nat /\ Countable(R)
<1>1. PICK h : h = [s \in S |-> s.n]
  OBVIOUS
<1>2. IsFiniteSet(R) /\ \A s \in R : h[s] \in Nat
  BY <1>1, FS_Subset DEF Countable
<1>3. SumFunctionOnSet(h, R) \in Nat
  BY <1>2, SumIsNat
<1>4. QED
  BY <1>1, <1>2, <1>3, AmountWithin DEF Countable

\* The amount of lines apart adds up.
LEMMA AmountOfUnion ==
    ASSUME NEW S, Countable(S), NEW Q \in SUBSET S, NEW R \in SUBSET S, Q \cap R = {}
    PROVE  Amount(Q \cup R) = Amount(Q) + Amount(R)
<1>1. PICK h : h = [s \in S |-> s.n]
  OBVIOUS
<1>2. IsFiniteSet(Q) /\ IsFiniteSet(R) /\ \A s \in Q \cup R : h[s] \in Nat
  BY <1>1, FS_Subset DEF Countable
<1>3. SumFunctionOnSet(h, Q \cup R) = SumFunctionOnSet(h, Q) + SumFunctionOnSet(h, R)
  BY <1>2, SumOfUnion
<1>4. Q \cup R \in SUBSET S
  OBVIOUS
<1>5. /\ Amount(Q) = SumFunctionOnSet(h, Q) /\ Amount(R) = SumFunctionOnSet(h, R)
      /\ Amount(Q \cup R) = SumFunctionOnSet(h, Q \cup R)
  BY <1>1, <1>4, AmountWithin
<1>6. QED
  BY <1>3, <1>5

\* Groups with no row in common add up to the amount of their rows.
LEMMA GroupsAddUp ==
    ASSUME NEW K, IsFiniteSet(K), NEW S, Countable(S), NEW part,
           \A k \in K : part[k] \in SUBSET S,
           \A k, l \in K : k # l => part[k] \cap part[l] = {},
           NEW h, \A k \in K : h[k] = Amount(part[k])
    PROVE  SumFunctionOnSet(h, K) = Amount(UNION {part[k] : k \in K})
<1> DEFINE All(L) == UNION {part[k] : k \in L}
           Good == {L \in SUBSET K : SumFunctionOnSet(h, L) = Amount(All(L))}
<1>1. {} \in Good
  <2>1. SumFunctionOnSet(h, {}) = 0
    BY FS_EmptySet, SumStep
  <2>2. All({}) = {}
    OBVIOUS
  <2>3. QED
    BY <2>1, <2>2, AmountOfNone
<1>2. ASSUME NEW L \in SUBSET K, NEW x \in K \ L, L \in Good
      PROVE  L \cup {x} \in Good
  <2>1. IsFiniteSet(L) /\ IsFiniteSet({x}) /\ L \cap {x} = {}
    BY <1>2, FS_Subset, FS_Singleton
  <2>2. \A k \in L \cup {x} : h[k] \in Nat
    BY AmountIsNat
  <2>3. SumFunctionOnSet(h, L \cup {x}) = SumFunctionOnSet(h, L) + SumFunctionOnSet(h, {x})
    BY <2>1, <2>2, SumOfUnion
  <2>4. SumFunctionOnSet(h, {x}) = h[x]
    <3>1. SumFunctionOnSet(h, {x}) = h[x] + SumFunctionOnSet(h, {x} \ {x})
      BY <2>1, <2>2, SumTakes
    <3>2. {x} \ {x} = {}
      OBVIOUS
    <3>3. SumFunctionOnSet(h, {}) = 0
      BY FS_EmptySet, SumStep
    <3>4. h[x] \in Nat
      BY <2>2
    <3>5. QED
      BY <3>1, <3>2, <3>3, <3>4
  <2>5. /\ All(L \cup {x}) = All(L) \cup part[x] /\ All(L) \in SUBSET S
        /\ part[x] \in SUBSET S /\ All(L) \cap part[x] = {}
    OBVIOUS
  <2> HIDE DEF All
  <2>6. Amount(All(L) \cup part[x]) = Amount(All(L)) + Amount(part[x])
    BY <2>5, AmountOfUnion
  <2>7. SumFunctionOnSet(h, L) = Amount(All(L))
    BY <1>2
  <2>8. h[x] = Amount(part[x])
    OBVIOUS
  <2>9. SumFunctionOnSet(h, L \cup {x}) = Amount(All(L \cup {x}))
    BY <2>3, <2>4, <2>5, <2>6, <2>7, <2>8
  <2>10. QED
    BY <2>9
<1> HIDE DEF Good
<1>3. K \in Good
  BY <1>1, <1>2, OneMore
<1>4. QED
  BY <1>3 DEF Good

\* So do the rows that state the amounts of such groups.
LEMMA RowsAddUp ==
    ASSUME NEW K, IsFiniteSet(K), NEW S, Countable(S), NEW part,
           \A k \in K : part[k] \in SUBSET S,
           \A k, l \in K : k # l => part[k] \cap part[l] = {},
           \A k \in K : k.n = Amount(part[k])
    PROVE  Amount(K) = Amount(UNION {part[k] : k \in K})
<1>1. PICK h : h = [k \in K |-> k.n]
  OBVIOUS
<1>2. DOMAIN h = K /\ \A k \in K : h[k] = Amount(part[k])
  BY <1>1
<1>3. SumFunctionOnSet(h, K) = Amount(UNION {part[k] : k \in K})
  BY <1>2, GroupsAddUp
<1>4. QED
  BY <1>1, <1>2, <1>3 DEF Amount, SumFunction

-----------------------------------------------------------------------------
(* The sales of a month.                                                   *)

\* A line of sales is of a row of the monthly view.
LineOf(s, q) ==
    /\ s.tenant = q.tenant /\ MonthOf[s.week] = q.month
    /\ s.store = q.store /\ s.sku = q.sku /\ s.brand = q.brand

\* The lines of sales can be summed.
LEMMA SalesAreCountable ==
    ASSUME NEW g, FullDb(g)
    PROVE  Countable(g.sales)
  BY DEF FullDb, Typed, Countable

\* vw_sales_monthly has a row for each month, store, product and brand that sold.
LEMMA MonthRows ==
    ASSUME NEW g, FullDb(g)
    PROVE  /\ IsFiniteSet(SalesMonthly(g))
           /\ \A q \in SalesMonthly(g) : q.n = Amount({s \in g.sales : LineOf(s, q)}) /\ q.n \in Nat
           /\ \A s \in g.sales : \E q \in SalesMonthly(g) : LineOf(s, q)
           /\ \A q \in SalesMonthly(g) : \E s \in g.sales : LineOf(s, q)
           /\ \A p, q \in SalesMonthly(g) :
                 (\E s \in g.sales : LineOf(s, p) /\ LineOf(s, q)) => p = q
<1> DEFINE Total(t, m, st, k, b) == Amount({s \in g.sales : /\ s.tenant = t /\ MonthOf[s.week] = m
                                           /\ s.store = st /\ s.sku = k /\ s.brand = b})
           Line(r) == [tenant |-> r.tenant, month |-> MonthOf[r.week], store |-> r.store,
                       sku |-> r.sku, brand |-> r.brand,
                       n |-> Total(r.tenant, MonthOf[r.week], r.store, r.sku, r.brand)]
           f == [r \in g.sales |-> Line(r)]
<1>0. Countable(g.sales)
  BY SalesAreCountable
<1>1. SalesMonthly(g) = {Line(r) : r \in g.sales}
  BY DEF SalesMonthly
<1>2. \A t, m, st, k, b : Total(t, m, st, k, b) \in Nat
  BY <1>0, AmountIsNat
<1>3. \A q : Total(q.tenant, q.month, q.store, q.sku, q.brand) = Amount({s \in g.sales : LineOf(s, q)})
  <2>1. SUFFICES ASSUME NEW q
                 PROVE  Total(q.tenant, q.month, q.store, q.sku, q.brand)
                           = Amount({s \in g.sales : LineOf(s, q)})
    OBVIOUS
  <2>2. {s \in g.sales : /\ s.tenant = q.tenant /\ MonthOf[s.week] = q.month
                         /\ s.store = q.store /\ s.sku = q.sku /\ s.brand = q.brand}
           = {s \in g.sales : LineOf(s, q)}
    BY DEF LineOf
  <2>3. QED
    BY <2>2
<1> HIDE DEF Total
<1>4. \A r \in g.sales : LineOf(r, Line(r))
  BY DEF LineOf
<1>5. \A p, q \in SalesMonthly(g) : (\E s \in g.sales : LineOf(s, p) /\ LineOf(s, q)) => p = q
  <2>1. SUFFICES ASSUME NEW p \in SalesMonthly(g), NEW q \in SalesMonthly(g), NEW s \in g.sales,
                        LineOf(s, p), LineOf(s, q)
                 PROVE  p = q
    OBVIOUS
  <2>2. PICK a \in g.sales, b \in g.sales : p = Line(a) /\ q = Line(b)
    BY <1>1
  <2>3. /\ a.tenant = b.tenant /\ MonthOf[a.week] = MonthOf[b.week]
        /\ a.store = b.store /\ a.sku = b.sku /\ a.brand = b.brand
    BY <2>1, <2>2 DEF LineOf
  <2>4. QED
    BY <2>2, <2>3
<1>6. \A r \in g.sales : /\ Line(r).n = Total(Line(r).tenant, Line(r).month, Line(r).store,
                                              Line(r).sku, Line(r).brand)
                         /\ Line(r).n \in Nat
  BY <1>2
<1>7. f = [r \in g.sales |-> f[r]] /\ {f[r] : r \in g.sales} = {Line(r) : r \in g.sales}
  OBVIOUS
<1> HIDE DEF Line, f
<1>8. IsFiniteSet({f[r] : r \in g.sales})
  BY <1>0, <1>7, Images DEF Countable
<1>9. IsFiniteSet(SalesMonthly(g))
  BY <1>1, <1>7, <1>8
<1>10. \A q \in SalesMonthly(g) : /\ q.n = Amount({s \in g.sales : LineOf(s, q)}) /\ q.n \in Nat
                                  /\ \E s \in g.sales : LineOf(s, q)
  <2>1. SUFFICES ASSUME NEW r \in g.sales, NEW q, q = Line(r)
                 PROVE  /\ q.n = Amount({s \in g.sales : LineOf(s, q)}) /\ q.n \in Nat
                        /\ \E s \in g.sales : LineOf(s, q)
    BY <1>1
  <2>2. q.n = Total(q.tenant, q.month, q.store, q.sku, q.brand) /\ q.n \in Nat /\ LineOf(r, q)
    BY <1>4, <1>6, <2>1
  <2>3. QED
    BY <1>3, <2>2
<1>11. \A s \in g.sales : \E q \in SalesMonthly(g) : LineOf(s, q)
  BY <1>1, <1>4
<1>12. QED
  BY <1>5, <1>9, <1>10, <1>11

\* The rows of the monthly view add up to the lines they stand for.
LEMMA MonthlyAmount ==
    ASSUME NEW g, FullDb(g), NEW Q \in SUBSET SalesMonthly(g), NEW L \in SUBSET g.sales,
           \A s \in g.sales, q \in SalesMonthly(g) : LineOf(s, q) => (s \in L <=> q \in Q)
    PROVE  Amount(Q) = Amount(L) /\ (Q = {} <=> L = {})
<1> DEFINE part == [q \in Q |-> {s \in g.sales : LineOf(s, q)}]
<1>1. /\ IsFiniteSet(SalesMonthly(g))
      /\ \A q \in SalesMonthly(g) : q.n = Amount({s \in g.sales : LineOf(s, q)}) /\ q.n \in Nat
      /\ \A s \in g.sales : \E q \in SalesMonthly(g) : LineOf(s, q)
      /\ \A q \in SalesMonthly(g) : \E s \in g.sales : LineOf(s, q)
      /\ \A p, q \in SalesMonthly(g) :
            (\E s \in g.sales : LineOf(s, p) /\ LineOf(s, q)) => p = q
  BY MonthRows
<1>2. IsFiniteSet(Q) /\ Countable(g.sales)
  BY <1>1, FS_Subset, SalesAreCountable
<1>3. \A q \in Q : part[q] = {s \in g.sales : LineOf(s, q)} /\ q.n = Amount(part[q])
  BY <1>1
<1> HIDE DEF part
<1>4. \A q \in Q : part[q] \in SUBSET g.sales
  BY <1>3
<1>5. \A p, q \in Q : p # q => part[p] \cap part[q] = {}
  BY <1>1, <1>3
<1>6. Amount(Q) = Amount(UNION {part[q] : q \in Q})
  BY <1>2, <1>3, <1>4, <1>5, RowsAddUp
<1>7. UNION {part[q] : q \in Q} = L
  <2>1. ASSUME NEW s \in L
        PROVE  \E q \in Q : s \in part[q]
    BY <1>1, <1>3
  <2>2. ASSUME NEW q \in Q, NEW s \in part[q]
        PROVE  s \in L
    BY <1>3
  <2>3. QED
    BY <2>1, <2>2
<1>8. Q = {} <=> L = {}
  BY <1>1
<1>9. QED
  BY <1>6, <1>7, <1>8

-----------------------------------------------------------------------------
(* The rows of the panels.                                                 *)

\* There are finitely many brands with an active product.
LEMMA FiniteBrands == IsFiniteSet(ActiveBrands)
<1> DEFINE A == {d \in DimSku : d.active}
           f == [d \in A |-> [tenant |-> d.tenant, brand |-> d.brand, name |-> d.name]]
<1>1. IsFiniteSet(A)
  BY DimensionsAssumption, FS_Subset
<1>2. f = [d \in A |-> f[d]] /\ {f[d] : d \in A} = ActiveBrands
  BY DEF ActiveBrands
<1> HIDE DEF A, f
<1>3. QED
  BY <1>1, <1>2, Images

\* The rows of the brands, of the latest week.
LEMMA BrandRows ==
    ASSUME NEW g, NEW t
    PROVE  /\ IsFiniteSet(BrandView(g))
           /\ \A row \in Own(BrandView(g), t) :
                 /\ row.week = LatestSales(g, t) /\ row.week # None
                 /\ row.n = Amount({r \in Own(g.sales, t) : r.brand = row.id /\ r.week = row.week})
                 /\ row.plan = Amount({p \in Own(Planned, t) : p.brand = row.id /\ p.week = row.week})
                 /\ \E b \in Own(ActiveBrands, t) : b.brand = row.id
           /\ LatestSales(g, t) # None =>
                 \A b \in Own(ActiveBrands, t) : \E row \in Own(BrandView(g), t) : row.id = b.brand
<1> DEFINE N(u, b, w) == Amount({r \in Own(g.sales, u) : r.brand = b /\ r.week = w})
           K(u, b, w) == Amount({p \in Own(Planned, u) : p.brand = b /\ p.week = w})
           Line(d) == [tenant |-> d.tenant, id |-> d.brand, name |-> d.name,
                       week |-> LatestSales(g, d.tenant),
                       n |-> N(d.tenant, d.brand, LatestSales(g, d.tenant)),
                       plan |-> K(d.tenant, d.brand, LatestSales(g, d.tenant))]
           A == {d \in ActiveBrands : LatestSales(g, d.tenant) # None}
           f == [d \in A |-> Line(d)]
<1>1. BrandView(g) = {Line(d) : d \in A}
  BY DEF BrandView
<1>2. IsFiniteSet(A)
  BY FiniteBrands, FS_Subset
<1>3. f = [d \in A |-> f[d]] /\ {f[d] : d \in A} = {Line(d) : d \in A}
  OBVIOUS
<1> HIDE DEF N, K
<1>6. \A d : /\ Line(d).tenant = d.tenant /\ Line(d).id = d.brand
             /\ Line(d).week = LatestSales(g, d.tenant)
             /\ Line(d).n = N(d.tenant, Line(d).id, Line(d).week)
             /\ Line(d).plan = K(d.tenant, Line(d).id, Line(d).week)
  OBVIOUS
<1> HIDE DEF Line, f
<1>7. IsFiniteSet(BrandView(g))
  BY <1>1, <1>2, <1>3, Images
<1>8. ASSUME NEW row \in Own(BrandView(g), t)
      PROVE  /\ row.week = LatestSales(g, t) /\ row.week # None
             /\ row.n = N(t, row.id, row.week) /\ row.plan = K(t, row.id, row.week)
             /\ \E b \in Own(ActiveBrands, t) : b.brand = row.id
  BY <1>1, <1>6 DEF Own
<1>9. LatestSales(g, t) # None =>
         \A b \in Own(ActiveBrands, t) : \E row \in Own(BrandView(g), t) : row.id = b.brand
  BY <1>1, <1>6 DEF Own
<1>10. QED
  BY <1>7, <1>8, <1>9 DEF N, K

\* A row an active store, of the latest week.
LEMMA StoreRows ==
    ASSUME NEW g, NEW t
    PROVE  /\ IsFiniteSet(StoreView(g))
           /\ \A row \in Own(StoreView(g), t) :
                 /\ row.week = LatestSales(g, t) /\ row.week # None
                 /\ row.n = Amount({r \in Own(g.sales, t) : r.store = row.id /\ r.week = row.week})
                 /\ row.tickets = Tickets({d \in Own(g.docs, t) : d.store = row.id /\ d.week = row.week})
                 /\ \E d \in Own(DimStore, t) : d.store = row.id /\ d.active
           /\ \A p, q \in Own(StoreView(g), t) : p.id = q.id => p = q
           /\ LatestSales(g, t) # None =>
                 \A d \in Own(DimStore, t) : d.active =>
                     \E row \in Own(StoreView(g), t) : row.id = d.store
<1> DEFINE N(u, s, w) == Amount({r \in Own(g.sales, u) : r.store = s /\ r.week = w})
           K(u, s, w) == Tickets({d \in Own(g.docs, u) : d.store = s /\ d.week = w})
           Line(d) == [tenant |-> d.tenant, id |-> d.store, week |-> LatestSales(g, d.tenant),
                       n |-> N(d.tenant, d.store, LatestSales(g, d.tenant)),
                       tickets |-> K(d.tenant, d.store, LatestSales(g, d.tenant))]
           A == {d \in DimStore : d.active /\ LatestSales(g, d.tenant) # None}
           f == [d \in A |-> Line(d)]
<1>1. StoreView(g) = {Line(d) : d \in A}
  BY DEF StoreView
<1>2. IsFiniteSet(A)
  BY DimensionsAssumption, FS_Subset
<1>3. f = [d \in A |-> f[d]] /\ {f[d] : d \in A} = {Line(d) : d \in A}
  OBVIOUS
<1> HIDE DEF N, K
<1>4. \A d, e \in DimStore : d.tenant = e.tenant /\ d.store = e.store => d = e
  BY DimensionsAssumption
<1>5. \A p, q \in Own(StoreView(g), t) : p.id = q.id => p = q
  BY <1>1, <1>4 DEF Own
<1>6. \A d : /\ Line(d).tenant = d.tenant /\ Line(d).id = d.store
             /\ Line(d).week = LatestSales(g, d.tenant)
             /\ Line(d).n = N(d.tenant, Line(d).id, Line(d).week)
             /\ Line(d).tickets = K(d.tenant, Line(d).id, Line(d).week)
  OBVIOUS
<1> HIDE DEF Line, f
<1>7. IsFiniteSet(StoreView(g))
  BY <1>1, <1>2, <1>3, Images
<1>8. ASSUME NEW row \in Own(StoreView(g), t)
      PROVE  /\ row.week = LatestSales(g, t) /\ row.week # None
             /\ row.n = N(t, row.id, row.week) /\ row.tickets = K(t, row.id, row.week)
             /\ \E d \in Own(DimStore, t) : d.store = row.id /\ d.active
  BY <1>1, <1>6 DEF Own
<1>9. LatestSales(g, t) # None =>
         \A d \in Own(DimStore, t) : d.active => \E row \in Own(StoreView(g), t) : row.id = d.store
  BY <1>1, <1>6 DEF Own
<1>10. QED
  BY <1>5, <1>7, <1>8, <1>9 DEF N, K

\* The rows and the lines of a month.
OfTheMonth(rows, m) == {row \in rows : row.month = m}
\* The lines of a month.
LinesOf(g, t, m) == {s \in Own(g.sales, t) : MonthOf[s.week] = m}

\* A month of a tenant is one of a line it sold.
LEMMA MonthsHave ==
    ASSUME NEW g, FullDb(g), NEW t
    PROVE  \A m : m \in Months(g, t) <=> LinesOf(g, t, m) # {}
<1>1. \A q \in SalesMonthly(g) : \E s \in g.sales : LineOf(s, q)
  BY MonthRows
<1>2. \A s \in g.sales : \E q \in SalesMonthly(g) : LineOf(s, q)
  BY MonthRows
<1>3. QED
  BY <1>1, <1>2 DEF Months, LinesOf, LineOf, Own

\* The rows of the brands, of every month.
LEMMA BrandMonthRows ==
    ASSUME NEW g, FullDb(g), NEW t
    PROVE  /\ \A m : IsFiniteSet(OfTheMonth(Own(BrandMonthlyView(g), t), m))
           /\ \A row \in Own(BrandMonthlyView(g), t) :
                 /\ row.month \in Months(g, t)
                 /\ row.n = Amount({s \in LinesOf(g, t, row.month) : s.brand = row.id})
                 /\ \E b \in Own(ActiveBrands, t) : b.brand = row.id
           /\ \A m \in Months(g, t), b \in Own(ActiveBrands, t) :
                 \E row \in Own(BrandMonthlyView(g), t) : row.month = m /\ row.id = b.brand
<1> DEFINE N(u, b, m) == Amount({r \in Own(SalesMonthly(g), u) : r.brand = b /\ r.month = m})
           K(u, b, m) == Amount({p \in Own(Planned, u) : p.brand = b /\ MonthOf[p.week] = m})
           Line(d, m) == [tenant |-> d.tenant, id |-> d.brand, name |-> d.name, month |-> m,
                          n |-> N(d.tenant, d.brand, m), plan |-> K(d.tenant, d.brand, m)]
<1>1. BrandMonthlyView(g) = UNION {{Line(d, m) : m \in Months(g, d.tenant)} : d \in ActiveBrands}
  BY DEF BrandMonthlyView
<1>2. \A b, m : N(t, b, m) = Amount({s \in LinesOf(g, t, m) : s.brand = b})
  <2>1. SUFFICES ASSUME NEW b, NEW m
                 PROVE  N(t, b, m) = Amount({s \in LinesOf(g, t, m) : s.brand = b})
    OBVIOUS
  <2>2. PICK Q, L : /\ Q = {r \in Own(SalesMonthly(g), t) : r.brand = b /\ r.month = m}
                    /\ L = {s \in LinesOf(g, t, m) : s.brand = b}
    OBVIOUS
  <2>3. Q \in SUBSET SalesMonthly(g) /\ L \in SUBSET g.sales
    BY <2>2 DEF Own, LinesOf
  <2>4. \A s \in g.sales, q \in SalesMonthly(g) : LineOf(s, q) => (s \in L <=> q \in Q)
    BY <2>2 DEF LineOf, Own, LinesOf
  <2>5. Amount(Q) = Amount(L)
    BY <2>3, <2>4, MonthlyAmount
  <2>6. QED
    BY <2>2, <2>5
<1> HIDE DEF N, K
<1>3. \A d, m : /\ Line(d, m).tenant = d.tenant /\ Line(d, m).id = d.brand /\ Line(d, m).month = m
                /\ Line(d, m).n = N(d.tenant, d.brand, m)
  OBVIOUS
<1> HIDE DEF Line
<1>5. \A row \in Own(BrandMonthlyView(g), t) :
         \E d \in Own(ActiveBrands, t) : row.month \in Months(g, t) /\ row = Line(d, row.month)
  BY <1>1, <1>3 DEF Own
<1>6. \A row \in Own(BrandMonthlyView(g), t) :
         /\ row.month \in Months(g, t)
         /\ row.n = Amount({s \in LinesOf(g, t, row.month) : s.brand = row.id})
         /\ \E b \in Own(ActiveBrands, t) : b.brand = row.id
  <2>1. SUFFICES ASSUME NEW row \in Own(BrandMonthlyView(g), t)
                 PROVE  /\ row.month \in Months(g, t)
                        /\ row.n = Amount({s \in LinesOf(g, t, row.month) : s.brand = row.id})
                        /\ \E b \in Own(ActiveBrands, t) : b.brand = row.id
    OBVIOUS
  <2>2. PICK d \in Own(ActiveBrands, t) : row.month \in Months(g, t) /\ row = Line(d, row.month)
    BY <1>5
  <2>3. d.tenant = t
    BY DEF Own
  <2>4. row.id = d.brand /\ row.n = N(t, row.id, row.month)
    BY <1>3, <2>2, <2>3
  <2>5. N(t, row.id, row.month) = Amount({s \in LinesOf(g, t, row.month) : s.brand = row.id})
    BY <1>2
  <2>6. QED
    BY <2>2, <2>4, <2>5
<1>8. \A m \in Months(g, t), b \in Own(ActiveBrands, t) :
         \E row \in Own(BrandMonthlyView(g), t) : row.month = m /\ row.id = b.brand
  <2>1. SUFFICES ASSUME NEW m \in Months(g, t), NEW b \in Own(ActiveBrands, t)
                 PROVE  \E row \in Own(BrandMonthlyView(g), t) : row.month = m /\ row.id = b.brand
    OBVIOUS
  <2>2. b \in ActiveBrands /\ b.tenant = t
    BY DEF Own
  <2>3. Line(b, m) \in {Line(b, k) : k \in Months(g, b.tenant)}
    BY <2>2
  <2>4. Line(b, m) \in BrandMonthlyView(g)
    BY <1>1, <2>2, <2>3
  <2>5. QED
    BY <1>3, <2>2, <2>4 DEF Own
<1>9. ASSUME NEW m
      PROVE  IsFiniteSet(OfTheMonth(Own(BrandMonthlyView(g), t), m))
  <2> DEFINE f == [d \in ActiveBrands |-> Line(d, m)]
  <2>1. f = [d \in ActiveBrands |-> f[d]] /\ \A d \in ActiveBrands : f[d] = Line(d, m)
    OBVIOUS
  <2> HIDE DEF f
  <2>2. IsFiniteSet({f[d] : d \in ActiveBrands})
    BY <2>1, FiniteBrands, Images
  <2>3. OfTheMonth(Own(BrandMonthlyView(g), t), m) \subseteq {f[d] : d \in ActiveBrands}
    BY <1>5, <2>1 DEF Own, OfTheMonth
  <2>4. QED
    BY <2>2, <2>3, FS_Subset
<1>10. QED
  BY <1>6, <1>8, <1>9

\* A row an active store and month.
LEMMA StoreMonthRows ==
    ASSUME NEW g, FullDb(g), NEW t
    PROVE  /\ \A m : IsFiniteSet(OfTheMonth(Own(StoreMonthlyView(g), t), m))
           /\ \A row \in Own(StoreMonthlyView(g), t) :
                 /\ row.month \in Months(g, t)
                 /\ row.n = Amount({s \in LinesOf(g, t, row.month) : s.store = row.id})
                 /\ \E d \in Own(DimStore, t) : d.store = row.id /\ d.active
           /\ \A p, q \in Own(StoreMonthlyView(g), t) : p.id = q.id /\ p.month = q.month => p = q
           /\ \A m \in Months(g, t), d \in Own(DimStore, t) : d.active =>
                 \E row \in Own(StoreMonthlyView(g), t) : row.month = m /\ row.id = d.store
<1> DEFINE N(u, s, m) == Amount({r \in Own(SalesMonthly(g), u) : r.store = s /\ r.month = m})
           K(u, s, m) == Tickets({d \in Own(g.docs, u) : d.store = s /\ MonthOf[d.week] = m})
           Line(d, m) == [tenant |-> d.tenant, id |-> d.store, month |-> m,
                          n |-> N(d.tenant, d.store, m), tickets |-> K(d.tenant, d.store, m)]
           A == {d \in DimStore : d.active}
<1>1. StoreMonthlyView(g) = UNION {{Line(d, m) : m \in Months(g, d.tenant)} : d \in A}
  BY DEF StoreMonthlyView
<1>2. \A b, m : N(t, b, m) = Amount({s \in LinesOf(g, t, m) : s.store = b})
  <2>1. SUFFICES ASSUME NEW b, NEW m
                 PROVE  N(t, b, m) = Amount({s \in LinesOf(g, t, m) : s.store = b})
    OBVIOUS
  <2>2. PICK Q, L : /\ Q = {r \in Own(SalesMonthly(g), t) : r.store = b /\ r.month = m}
                    /\ L = {s \in LinesOf(g, t, m) : s.store = b}
    OBVIOUS
  <2>3. Q \in SUBSET SalesMonthly(g) /\ L \in SUBSET g.sales
    BY <2>2 DEF Own, LinesOf
  <2>4. \A s \in g.sales, q \in SalesMonthly(g) : LineOf(s, q) => (s \in L <=> q \in Q)
    BY <2>2 DEF LineOf, Own, LinesOf
  <2>5. Amount(Q) = Amount(L)
    BY <2>3, <2>4, MonthlyAmount
  <2>6. QED
    BY <2>2, <2>5
<1>3. A \subseteq DimStore /\ IsFiniteSet(A)
  BY DimensionsAssumption, FS_Subset
<1>4. \A d, e \in A : d.tenant = e.tenant /\ d.store = e.store => d = e
  BY <1>3, DimensionsAssumption
<1>a. \A d : d \in Own(A, t) <=> d \in Own(DimStore, t) /\ d.active
  BY DEF Own
<1> HIDE DEF N, K, A
<1>b. \A d, m : /\ Line(d, m).tenant = d.tenant /\ Line(d, m).id = d.store /\ Line(d, m).month = m
                /\ Line(d, m).n = N(d.tenant, d.store, m)
  OBVIOUS
<1> HIDE DEF Line
<1>5. \A row \in Own(StoreMonthlyView(g), t) :
         \E d \in Own(A, t) : row.month \in Months(g, t) /\ row = Line(d, row.month)
  BY <1>1, <1>b DEF Own
<1>6. \A row \in Own(StoreMonthlyView(g), t) :
         /\ row.month \in Months(g, t)
         /\ row.n = Amount({s \in LinesOf(g, t, row.month) : s.store = row.id})
         /\ \E d \in Own(A, t) : d.store = row.id
  <2>1. SUFFICES ASSUME NEW row \in Own(StoreMonthlyView(g), t)
                 PROVE  /\ row.month \in Months(g, t)
                        /\ row.n = Amount({s \in LinesOf(g, t, row.month) : s.store = row.id})
                        /\ \E d \in Own(A, t) : d.store = row.id
    OBVIOUS
  <2>2. PICK d \in Own(A, t) : row.month \in Months(g, t) /\ row = Line(d, row.month)
    BY <1>5
  <2>3. d.tenant = t
    BY DEF Own
  <2>4. row.id = d.store /\ row.n = N(t, row.id, row.month)
    BY <1>b, <2>2, <2>3
  <2>5. N(t, row.id, row.month) = Amount({s \in LinesOf(g, t, row.month) : s.store = row.id})
    BY <1>2
  <2>6. QED
    BY <2>2, <2>4, <2>5
<1>7. \A p, q \in Own(StoreMonthlyView(g), t) : p.id = q.id /\ p.month = q.month => p = q
  BY <1>b, <1>4, <1>5 DEF Own
<1>8. \A m \in Months(g, t), d \in Own(A, t) :
         \E row \in Own(StoreMonthlyView(g), t) : row.month = m /\ row.id = d.store
  <2>1. SUFFICES ASSUME NEW m \in Months(g, t), NEW d \in Own(A, t)
                 PROVE  \E row \in Own(StoreMonthlyView(g), t) : row.month = m /\ row.id = d.store
    OBVIOUS
  <2>2. d \in A /\ d.tenant = t
    BY DEF Own
  <2>3. Line(d, m) \in {Line(d, k) : k \in Months(g, d.tenant)}
    BY <2>2
  <2>4. Line(d, m) \in StoreMonthlyView(g)
    BY <1>1, <2>2, <2>3
  <2>5. QED
    BY <1>b, <2>2, <2>4 DEF Own
<1>9. ASSUME NEW m
      PROVE  IsFiniteSet(OfTheMonth(Own(StoreMonthlyView(g), t), m))
  <2> DEFINE f == [d \in A |-> Line(d, m)]
  <2>1. f = [d \in A |-> f[d]] /\ \A d \in A : f[d] = Line(d, m)
    OBVIOUS
  <2> HIDE DEF f
  <2>2. IsFiniteSet({f[d] : d \in A})
    BY <1>3, <2>1, Images
  <2>3. OfTheMonth(Own(StoreMonthlyView(g), t), m) \subseteq {f[d] : d \in A}
    BY <1>5, <2>1 DEF Own, OfTheMonth
  <2>4. QED
    BY <2>2, <2>3, FS_Subset
<1>10. QED
  BY <1>a, <1>6, <1>7, <1>8, <1>9

-----------------------------------------------------------------------------
(* The panels add up.                                                      *)

\* Rows that state the amounts of the lines of a key add up, with the lines of the
\* other keys, to the amount of all.
LEMMA KeyedAddUp ==
    ASSUME NEW K, IsFiniteSet(K), NEW S, Countable(S), NEW key,
           \A p, q \in K : p.id = q.id => p = q,
           NEW h, \A k \in K : h[k] = Amount({s \in S : key[s] = k.id})
    PROVE  SumFunctionOnSet(h, K) + Amount({s \in S : ~\E k \in K : k.id = key[s]}) = Amount(S)
<1> DEFINE part == [k \in K |-> {s \in S : key[s] = k.id}]
           rest == {s \in S : ~\E k \in K : k.id = key[s]}
<1>1. \A k \in K : part[k] = {s \in S : key[s] = k.id}
  OBVIOUS
<1> HIDE DEF part
<1>2. /\ \A k \in K : part[k] \in SUBSET S /\ h[k] = Amount(part[k])
      /\ \A k, l \in K : k # l => part[k] \cap part[l] = {}
  BY <1>1
<1>3. SumFunctionOnSet(h, K) = Amount(UNION {part[k] : k \in K})
  BY <1>2, GroupsAddUp
<1>4. PICK all : all = UNION {part[k] : k \in K}
  OBVIOUS
<1>5. all \in SUBSET S /\ rest \in SUBSET S /\ all \cap rest = {} /\ all \cup rest = S
  BY <1>1, <1>4
<1> HIDE DEF rest
<1>6. Amount(all \cup rest) = Amount(all) + Amount(rest)
  BY <1>5, AmountOfUnion
<1>7. QED
  BY <1>3, <1>4, <1>5, <1>6 DEF rest

\* So do the rows of a panel.
LEMMA PanelAddsUp ==
    ASSUME NEW K, IsFiniteSet(K), NEW S, Countable(S), NEW key,
           \A p, q \in K : p.id = q.id => p = q,
           \A k \in K : k.n = Amount({s \in S : key[s] = k.id})
    PROVE  Amount(K) + Amount({s \in S : ~\E k \in K : k.id = key[s]}) = Amount(S)
<1>1. PICK h : h = [k \in K |-> k.n]
  OBVIOUS
<1>2. DOMAIN h = K /\ \A k \in K : h[k] = Amount({s \in S : key[s] = k.id})
  BY <1>1
<1>3. SumFunctionOnSet(h, K) + Amount({s \in S : ~\E k \in K : k.id = key[s]}) = Amount(S)
  BY <1>2, KeyedAddUp
<1>4. Amount(K) = SumFunctionOnSet(h, K)
  BY <1>1, <1>2 DEF Amount, SumFunction
<1>5. QED
  BY <1>3, <1>4

\* The rows of a panel whose ids may repeat, each id once.
Singly(rows) == {[id |-> row.id, n |-> row.n] : row \in rows}

\* They are as many as there are ids when the rows of an id show the same.
LEMMA SinglyAre ==
    ASSUME NEW R, IsFiniteSet(R), \A p, q \in R : p.id = q.id => p.n = q.n
    PROVE  /\ IsFiniteSet(Singly(R))
           /\ \A k \in Singly(R) : \E p \in R : k.id = p.id /\ k.n = p.n
           /\ \A p \in R : \E k \in Singly(R) : k.id = p.id
           /\ \A k, l \in Singly(R) : k.id = l.id => k = l
<1> DEFINE Of(p) == [id |-> p.id, n |-> p.n]
           f == [p \in R |-> Of(p)]
<1>1. \A p : Of(p).id = p.id /\ Of(p).n = p.n
  OBVIOUS
<1>2. \A p, q \in R : p.id = q.id => Of(p) = Of(q)
  OBVIOUS
<1>3. Singly(R) = {Of(p) : p \in R}
  BY DEF Singly
<1>4. f = [p \in R |-> f[p]] /\ {f[p] : p \in R} = {Of(p) : p \in R}
  OBVIOUS
<1> HIDE DEF Of, f
<1>5. IsFiniteSet(Singly(R))
  BY <1>3, <1>4, Images
<1>6. /\ \A k \in Singly(R) : \E p \in R : k.id = p.id /\ k.n = p.n
      /\ \A p \in R : \E k \in Singly(R) : k.id = p.id
      /\ \A k, l \in Singly(R) : k.id = l.id => k = l
  BY <1>1, <1>2, <1>3
<1>7. QED
  BY <1>5, <1>6

\* The lines of a week.
WeekLines(g, t, w) == {s \in Own(g.sales, t) : s.week = w}

\* The lines of a week or month.
LEMMA OverIs ==
    ASSUME NEW g, FullDb(g), NEW t
    PROVE  /\ \A s \in Own(g.sales, t) : s.week \in Weeks
           /\ \A w \in Weeks, s \in Own(g.sales, t) : Over(w, s.week) <=> s.week = w
           /\ \A m \in Calendar, s \in Own(g.sales, t) : Over(m, s.week) <=> MonthOf[s.week] = m
<1>1. \A s \in Own(g.sales, t) : s.week \in Weeks
  BY DEF FullDb, GoodDb, Own
<1>2. \A w \in Weeks, s \in Own(g.sales, t) : Over(w, s.week) <=> s.week = w
  <2>1. ASSUME NEW w \in Weeks, NEW s \in Own(g.sales, t)
        PROVE  Over(w, s.week) <=> s.week = w
    <3>1. Over(w, s.week) => w = s.week
      BY <1>1, OverWeek
    <3>2. QED
      BY <3>1 DEF Over
  <2>2. QED
    BY <2>1
<1>3. \A m \in Calendar, s \in Own(g.sales, t) : Over(m, s.week) <=> MonthOf[s.week] = m
  <2>1. ASSUME NEW m \in Calendar, NEW s \in Own(g.sales, t)
        PROVE  Over(m, s.week) <=> MonthOf[s.week] = m
    <3>1. Over(m, s.week) => m = MonthOf[s.week]
      BY <1>1, OverMonth
    <3>2. QED
      BY <3>1 DEF Over
  <2>2. QED
    BY <2>1
<1>4. QED
  BY <1>1, <1>2, <1>3

\* The lines of a week or a month can be summed.
LEMMA LinesAreCountable ==
    ASSUME NEW g, FullDb(g), NEW t
    PROVE  /\ Countable(Own(g.sales, t))
           /\ \A w : Countable(WeekLines(g, t, w)) /\ WeekLines(g, t, w) \subseteq Own(g.sales, t)
           /\ \A m : Countable(LinesOf(g, t, m)) /\ LinesOf(g, t, m) \subseteq Own(g.sales, t)
<1>1. Countable(g.sales) /\ Own(g.sales, t) \in SUBSET g.sales
  BY SalesAreCountable DEF Own
<1>2. /\ \A w : WeekLines(g, t, w) \in SUBSET g.sales
      /\ \A m : LinesOf(g, t, m) \in SUBSET g.sales
  BY <1>1 DEF WeekLines, LinesOf
<1>3. QED
  BY <1>1, <1>2, AmountIsNat DEF WeekLines, LinesOf

\* The number of a row of totals, none when there is no row.
Figure(row) == IF row = None THEN 0 ELSE row.n

\* The totals of a week are of its lines.
LEMMA WeeklyFigure ==
    ASSUME NoneIsNull, NEW g, NEW t, NEW w
    PROVE  Figure(WeeklyTotals(g, t, w)) = Amount(WeekLines(g, t, w))
<1> DEFINE rows == {r \in Own(g.sales, t) : r.week = w}
<1>1. WeeklyTotals(g, t, w) = IF rows = {} THEN None ELSE [week |-> w, n |-> Amount(rows)]
  BY DEF WeeklyTotals
<1>2. rows = WeekLines(g, t, w)
  BY DEF WeekLines
<1> HIDE DEF rows
<1>3. CASE rows = {}
  BY <1>1, <1>2, <1>3, AmountOfNone DEF Figure
<1>4. CASE rows # {}
  <2>1. PICK n : n = Amount(rows)
    OBVIOUS
  <2>2. None # [week |-> w, n |-> n]
    BY DEF NoneIsNull
  <2>3. QED
    BY <1>1, <1>2, <1>4, <2>1, <2>2 DEF Figure
<1>5. QED
  BY <1>3, <1>4

\* The lines a row of monthly totals adds up.
MonthLines(g, t, m, brand, store) ==
    {s \in LinesOf(g, t, m) : Is(brand, s.brand) /\ Is(store, s.store)}

\* The totals of a month are of the lines of its scope, or there are none.
LEMMA MonthlyRowIs ==
    ASSUME NEW g, FullDb(g), NEW t, NEW m, NEW brand, NEW store
    PROVE  MonthlyTotals(g, t, m, brand, store) =
              IF MonthLines(g, t, m, brand, store) = {} THEN None
              ELSE [month |-> m, n |-> Amount(MonthLines(g, t, m, brand, store))]
<1> DEFINE Q == {r \in Own(SalesMonthly(g), t) :
                    r.month = m /\ Is(brand, r.brand) /\ Is(store, r.store)}
           L == MonthLines(g, t, m, brand, store)
<1>1. MonthlyTotals(g, t, m, brand, store) = IF Q = {} THEN None ELSE [month |-> m, n |-> Amount(Q)]
  BY DEF MonthlyTotals
<1>2. Q \in SUBSET SalesMonthly(g) /\ L \in SUBSET g.sales
  BY DEF Own, MonthLines, LinesOf
<1>3. \A s \in g.sales, q \in SalesMonthly(g) : LineOf(s, q) => (s \in L <=> q \in Q)
  BY DEF LineOf, Own, MonthLines, LinesOf
<1> HIDE DEF Q, L
<1>4. Amount(Q) = Amount(L) /\ (Q = {} <=> L = {})
  BY <1>2, <1>3, MonthlyAmount
<1>5. QED
  BY <1>1, <1>4 DEF L

\* The totals of the month of a tenant are of all its lines.
LEMMA MonthlyFigure ==
    ASSUME NoneIsNull, NEW g, FullDb(g), NEW t, NEW m
    PROVE  Figure(MonthlyTotals(g, t, m, None, None)) = Amount(LinesOf(g, t, m))
<1>1. MonthLines(g, t, m, None, None) = LinesOf(g, t, m)
  BY DEF MonthLines, Is
<1>2. PICK L, n : L = LinesOf(g, t, m) /\ n = Amount(L)
  OBVIOUS
<1>3. MonthlyTotals(g, t, m, None, None) = IF L = {} THEN None ELSE [month |-> m, n |-> n]
  BY <1>1, <1>2, MonthlyRowIs
<1>4. None # [month |-> m, n |-> n]
  BY DEF NoneIsNull
<1>5. QED
  BY <1>2, <1>3, <1>4, AmountOfNone DEF Figure

\* A month is the sum of its weeks.
LEMMA WeeksAddUp ==
    ASSUME NoneIsNull, NEW g, FullDb(g), NEW t, NEW m \in Calendar
    PROVE  SumFunction([w \in {w \in Weeks : MonthOf[w] = m} |-> Figure(WeeklyTotals(g, t, w))])
              = Amount(LinesOf(g, t, m))
<1> DEFINE K == {w \in Weeks : MonthOf[w] = m}
           part == [w \in K |-> WeekLines(g, t, w)]
           S == LinesOf(g, t, m)
<1>1. PICK h : h = [w \in K |-> Figure(WeeklyTotals(g, t, w))]
  OBVIOUS
<1>2. DOMAIN h = K /\ \A w \in K : h[w] = Amount(WeekLines(g, t, w))
  BY <1>1, WeeklyFigure
<1>3. IsFiniteSet(K)
  <2>1. Weeks = 1..Today /\ Today \in Nat
    BY Basics DEF Weeks
  <2>2. QED
    BY <2>1, FS_Interval, FS_Subset
<1>4. /\ \A w \in K : part[w] \in SUBSET S /\ part[w] = WeekLines(g, t, w)
      /\ UNION {part[w] : w \in K} = S
  <2>1. \A s \in Own(g.sales, t) : s.week \in Weeks
    BY OverIs
  <2>2. \A w \in K : \A s : s \in WeekLines(g, t, w) <=> s \in Own(g.sales, t) /\ s.week = w
    BY DEF WeekLines
  <2>3. \A s : s \in S <=> s \in Own(g.sales, t) /\ MonthOf[s.week] = m
    BY DEF LinesOf
  <2>4. \A w : w \in K <=> w \in Weeks /\ MonthOf[w] = m
    OBVIOUS
  <2>5. \A w \in K : part[w] = WeekLines(g, t, w)
    OBVIOUS
  <2> HIDE DEF K, S, part
  <2>6. \A w \in K : part[w] \in SUBSET S
    BY <2>2, <2>3, <2>4, <2>5
  <2>7. ASSUME NEW s \in S
        PROVE  \E w \in K : s \in part[w]
    <3>1. s.week \in K /\ s \in WeekLines(g, t, s.week)
      BY <2>1, <2>2, <2>3, <2>4
    <3>2. QED
      BY <2>5, <3>1
  <2>8. QED
    BY <2>5, <2>6, <2>7
<1>5. \A v, w \in K : v # w => part[v] \cap part[w] = {}
  BY <1>4 DEF WeekLines
<1>6. Countable(S)
  BY LinesAreCountable
<1> HIDE DEF K, part, S
<1>7. SumFunctionOnSet(h, K) = Amount(UNION {part[w] : w \in K})
  BY <1>2, <1>3, <1>4, <1>5, <1>6, GroupsAddUp
<1>8. SumFunction(h) = Amount(S)
  BY <1>2, <1>4, <1>7 DEF SumFunction
<1>9. QED
  BY <1>1, <1>8 DEF K, S

\* The brands of the latest week.
LEMMA BrandsOfWeek ==
    ASSUME NoneIsNull, NEW g, FullDb(g), NEW t, NEW w \in Weeks, w = LatestSales(g, t)
    PROVE  Amount(Singly(BrandPerformance(g, t, None, w)))
              + Amount({s \in Own(g.sales, t) :
                           Over(w, s.week) /\ ~\E b \in Own(ActiveBrands, t) : b.brand = s.brand})
              = Figure(WeeklyTotals(g, t, w))
<1>0. w # None
  BY Basics
<1>1. /\ IsFiniteSet(BrandView(g))
      /\ \A row \in Own(BrandView(g), t) :
            /\ row.week = w
            /\ row.n = Amount({r \in Own(g.sales, t) : r.brand = row.id /\ r.week = row.week})
            /\ \E b \in Own(ActiveBrands, t) : b.brand = row.id
      /\ \A b \in Own(ActiveBrands, t) : \E row \in Own(BrandView(g), t) : row.id = b.brand
  <2>1. w = LatestSales(g, t) /\ LatestSales(g, t) # None
    BY <1>0
  <2>2. /\ IsFiniteSet(BrandView(g))
        /\ \A row \in Own(BrandView(g), t) :
              /\ row.week = LatestSales(g, t) /\ row.week # None
              /\ row.n = Amount({r \in Own(g.sales, t) : r.brand = row.id /\ r.week = row.week})
              /\ row.plan = Amount({p \in Own(Planned, t) : p.brand = row.id /\ p.week = row.week})
              /\ \E b \in Own(ActiveBrands, t) : b.brand = row.id
        /\ LatestSales(g, t) # None =>
              \A b \in Own(ActiveBrands, t) : \E row \in Own(BrandView(g), t) : row.id = b.brand
    BY BrandRows, Zenon
  <2>3. QED
    BY <2>1, <2>2
<1> DEFINE R == BrandPerformance(g, t, None, w)
           K == Singly(R)
           S == WeekLines(g, t, w)
           key == [s \in S |-> s.brand]
<1>2. R = Own(BrandView(g), t)
  BY <1>1 DEF BrandPerformance, Is
<1>a. IsFiniteSet(R)
  BY <1>1, <1>2, FS_Subset DEF Own
<1> HIDE DEF R
<1>b. \A p, q \in R : p.id = q.id => p.n = q.n
  <2>1. SUFFICES ASSUME NEW p \in R, NEW q \in R, p.id = q.id
                 PROVE  p.n = q.n
    OBVIOUS
  <2>2. p.week = w /\ q.week = w
    BY <1>1, <1>2
  <2>3. /\ p.n = Amount({r \in Own(g.sales, t) : r.brand = p.id /\ r.week = p.week})
        /\ q.n = Amount({r \in Own(g.sales, t) : r.brand = q.id /\ r.week = q.week})
    BY <1>1, <1>2
  <2>4. QED
    BY <2>1, <2>2, <2>3
<1>3. /\ IsFiniteSet(K)
      /\ \A k \in K : \E p \in R : k.id = p.id /\ k.n = p.n
      /\ \A p \in R : \E k \in K : k.id = p.id
      /\ \A k, l \in K : k.id = l.id => k = l
  BY <1>a, <1>b, SinglyAre
<1>4. \A s \in S : key[s] = s.brand
  OBVIOUS
<1>5. \A s : s \in S <=> s \in Own(g.sales, t) /\ s.week = w
  BY DEF WeekLines
<1>6. \A s \in Own(g.sales, t) : Over(w, s.week) <=> s.week = w
  BY OverIs
<1>7. Countable(S)
  BY LinesAreCountable
<1> HIDE DEF K, S, key
<1>8. \A k \in K : k.n = Amount({s \in S : key[s] = k.id})
  <2>1. SUFFICES ASSUME NEW k \in K
                 PROVE  k.n = Amount({s \in S : key[s] = k.id})
    OBVIOUS
  <2>1a. PICK p \in R : k.id = p.id /\ k.n = p.n
    BY <1>3
  <2>2. p.week = w /\ k.n = Amount({r \in Own(g.sales, t) : r.brand = p.id /\ r.week = p.week})
    BY <1>1, <1>2, <2>1a
  <2>3. {r \in Own(g.sales, t) : r.brand = p.id /\ r.week = p.week} = {s \in S : key[s] = k.id}
    BY <1>4, <1>5, <2>1a, <2>2
  <2>4. QED
    BY <2>2, <2>3
<1>9. \A s \in S : (\E k \in K : k.id = key[s]) <=> (\E b \in Own(ActiveBrands, t) : b.brand = s.brand)
  <2>1. SUFFICES ASSUME NEW s \in S
                 PROVE  (\E k \in K : k.id = key[s]) <=> (\E b \in Own(ActiveBrands, t) : b.brand = s.brand)
    OBVIOUS
  <2>2. ASSUME NEW k \in K, k.id = key[s]
        PROVE  \E b \in Own(ActiveBrands, t) : b.brand = s.brand
    <3>1. PICK p \in Own(BrandView(g), t) : p.id = k.id
      BY <1>2, <1>3
    <3>2. PICK b \in Own(ActiveBrands, t) : b.brand = k.id
      BY <1>1, <3>1
    <3>3. QED
      BY <1>4, <2>2, <3>2
  <2>3. ASSUME NEW b \in Own(ActiveBrands, t), b.brand = s.brand
        PROVE  \E k \in K : k.id = key[s]
    <3>1. PICK row \in Own(BrandView(g), t) : row.id = b.brand
      BY <1>1, <1>2, <2>3
    <3>2. PICK k \in K : k.id = row.id
      BY <1>2, <1>3, <3>1
    <3>3. QED
      BY <1>4, <2>3, <3>1, <3>2
  <2>4. QED
    BY <2>2, <2>3
<1>10. {s \in Own(g.sales, t) : Over(w, s.week) /\ ~\E b \in Own(ActiveBrands, t) : b.brand = s.brand}
          = {s \in S : ~\E k \in K : k.id = key[s]}
  BY <1>5, <1>6, <1>9
<1>11. \A p, q \in K : p.id = q.id => p = q
  BY <1>3
<1>12. IsFiniteSet(K)
  BY <1>3
<1>13. Amount(K) + Amount({s \in S : ~\E k \in K : k.id = key[s]}) = Amount(S)
  BY <1>7, <1>8, <1>11, <1>12, PanelAddsUp
<1>14. Figure(WeeklyTotals(g, t, w)) = Amount(S)
  BY WeeklyFigure DEF S
<1>15. QED
  BY <1>10, <1>13, <1>14 DEF K, R

\* The stores of the latest week.
LEMMA StoresOfWeek ==
    ASSUME NoneIsNull, NEW g, FullDb(g), NEW t, NEW w \in Weeks, w = LatestSales(g, t)
    PROVE  Amount(StoreDashboard(g, t, None, w))
              + Amount({s \in Own(g.sales, t) :
                           Over(w, s.week) /\ ~\E d \in Own(DimStore, t) : d.store = s.store /\ d.active})
              = Figure(WeeklyTotals(g, t, w))
<1> DEFINE K == StoreDashboard(g, t, None, w)
           S == WeekLines(g, t, w)
           key == [s \in S |-> s.store]
<1>0. w # None
  BY Basics
<1>1. /\ IsFiniteSet(StoreView(g))
      /\ \A row \in Own(StoreView(g), t) :
            /\ row.week = w
            /\ row.n = Amount({r \in Own(g.sales, t) : r.store = row.id /\ r.week = row.week})
            /\ \E d \in Own(DimStore, t) : d.store = row.id /\ d.active
      /\ \A p, q \in Own(StoreView(g), t) : p.id = q.id => p = q
      /\ \A d \in Own(DimStore, t) : d.active => \E row \in Own(StoreView(g), t) : row.id = d.store
  BY <1>0, StoreRows
<1>2. K = Own(StoreView(g), t)
  BY <1>1 DEF StoreDashboard, Is
<1>3. IsFiniteSet(K)
  BY <1>1, <1>2, FS_Subset DEF Own
<1>4. \A s \in S : key[s] = s.store
  OBVIOUS
<1>5. \A s : s \in S <=> s \in Own(g.sales, t) /\ s.week = w
  BY DEF WeekLines
<1>6. \A s \in Own(g.sales, t) : Over(w, s.week) <=> s.week = w
  BY OverIs
<1>7. Countable(S)
  BY LinesAreCountable
<1> HIDE DEF K, S, key
<1>8. \A k \in K : k.n = Amount({s \in S : key[s] = k.id})
  <2>1. SUFFICES ASSUME NEW k \in K
                 PROVE  k.n = Amount({s \in S : key[s] = k.id})
    OBVIOUS
  <2>2. k.week = w /\ k.n = Amount({r \in Own(g.sales, t) : r.store = k.id /\ r.week = k.week})
    BY <1>1, <1>2
  <2>3. {r \in Own(g.sales, t) : r.store = k.id /\ r.week = k.week} = {s \in S : key[s] = k.id}
    BY <1>4, <1>5, <2>2
  <2>4. QED
    BY <2>2, <2>3
<1>9. \A s \in S : (\E k \in K : k.id = key[s]) <=> (\E d \in Own(DimStore, t) : d.store = s.store /\ d.active)
  <2>1. SUFFICES ASSUME NEW s \in S
                 PROVE  (\E k \in K : k.id = key[s]) <=> (\E d \in Own(DimStore, t) : d.store = s.store /\ d.active)
    OBVIOUS
  <2>2. ASSUME NEW k \in K, k.id = key[s]
        PROVE  \E d \in Own(DimStore, t) : d.store = s.store /\ d.active
    <3>1. k \in Own(StoreView(g), t)
      BY <1>1, <1>2
    <3>2. PICK d \in Own(DimStore, t) : d.store = k.id /\ d.active
      BY <1>1, <1>2, <3>1
    <3>3. QED
      BY <1>4, <2>2, <3>2
  <2>3. ASSUME NEW d \in Own(DimStore, t), d.store = s.store /\ d.active
        PROVE  \E k \in K : k.id = key[s]
    <3>1. PICK row \in Own(StoreView(g), t) : row.id = d.store
      BY <1>1, <1>2, <2>3
    <3>2. row \in K
      BY <1>1, <1>2, <3>1
    <3>3. QED
      BY <1>4, <2>3, <3>1, <3>2
  <2>4. QED
    BY <2>2, <2>3
<1>10. {s \in Own(g.sales, t) : Over(w, s.week) /\ ~\E d \in Own(DimStore, t) : d.store = s.store /\ d.active}
          = {s \in S : ~\E k \in K : k.id = key[s]}
  BY <1>5, <1>6, <1>9
<1>11. \A p, q \in K : p.id = q.id => p = q
  BY <1>1, <1>2
<1>12. IsFiniteSet(K)
  BY <1>3
<1>13. Amount(K) + Amount({s \in S : ~\E k \in K : k.id = key[s]}) = Amount(S)
  BY <1>7, <1>8, <1>11, <1>12, PanelAddsUp
<1>14. Figure(WeeklyTotals(g, t, w)) = Amount(S)
  BY WeeklyFigure DEF S
<1>15. QED
  BY <1>10, <1>13, <1>14 DEF K

\* The brands of a month.
LEMMA BrandsOfMonth ==
    ASSUME NoneIsNull, NEW g, FullDb(g), NEW t, NEW m \in Calendar
    PROVE  Amount(Singly(MonthlyBrandPerformance(g, t, None, m)))
              + Amount({s \in Own(g.sales, t) :
                           Over(m, s.week) /\ ~\E b \in Own(ActiveBrands, t) : b.brand = s.brand})
              = Figure(MonthlyTotals(g, t, m, None, None))
<1> DEFINE R == MonthlyBrandPerformance(g, t, None, m)
           K == Singly(R)
           S == LinesOf(g, t, m)
           key == [s \in S |-> s.brand]
<1>0. m # None
  BY Basics
<1>1. R = OfTheMonth(Own(BrandMonthlyView(g), t), m)
  BY <1>0 DEF MonthlyBrandPerformance, Is, OfTheMonth
<1>b. \A row : row \in R <=> row \in Own(BrandMonthlyView(g), t) /\ row.month = m
  BY <1>1 DEF OfTheMonth
<1>a. IsFiniteSet(OfTheMonth(Own(BrandMonthlyView(g), t), m))
  BY BrandMonthRows
<1>2. /\ \A row \in Own(BrandMonthlyView(g), t) :
            /\ row.n = Amount({s \in LinesOf(g, t, row.month) : s.brand = row.id})
            /\ \E b \in Own(ActiveBrands, t) : b.brand = row.id
      /\ m \in Months(g, t) =>
            \A b \in Own(ActiveBrands, t) : \E row \in Own(BrandMonthlyView(g), t) : row.month = m /\ row.id = b.brand
  BY BrandMonthRows
<1>c. IsFiniteSet(R)
  BY <1>1, <1>a
<1> HIDE DEF R
<1>d. \A p, q \in R : p.id = q.id => p.n = q.n
  <2>1. SUFFICES ASSUME NEW p \in R, NEW q \in R, p.id = q.id
                 PROVE  p.n = q.n
    OBVIOUS
  <2>2. p.month = m /\ q.month = m
    BY <1>b
  <2>3. /\ p.n = Amount({s \in LinesOf(g, t, p.month) : s.brand = p.id})
        /\ q.n = Amount({s \in LinesOf(g, t, q.month) : s.brand = q.id})
    BY <1>b, <1>2
  <2>4. QED
    BY <2>1, <2>2, <2>3
<1>e. /\ IsFiniteSet(K)
      /\ \A k \in K : \E p \in R : k.id = p.id /\ k.n = p.n
      /\ \A p \in R : \E k \in K : k.id = p.id
      /\ \A k, l \in K : k.id = l.id => k = l
  BY <1>c, <1>d, SinglyAre
<1>3. S # {} => m \in Months(g, t)
  BY MonthsHave
<1>4. \A s \in S : key[s] = s.brand
  OBVIOUS
<1>5. \A s : s \in S <=> s \in Own(g.sales, t) /\ MonthOf[s.week] = m
  BY DEF LinesOf
<1>6. \A s \in Own(g.sales, t) : Over(m, s.week) <=> MonthOf[s.week] = m
  BY OverIs
<1>7. Countable(S) /\ S = LinesOf(g, t, m)
  BY LinesAreCountable
<1> HIDE DEF K, S, key
<1>8. \A k \in K : k.n = Amount({s \in S : key[s] = k.id})
  <2>1. SUFFICES ASSUME NEW k \in K
                 PROVE  k.n = Amount({s \in S : key[s] = k.id})
    OBVIOUS
  <2>1a. PICK p \in R : k.id = p.id /\ k.n = p.n
    BY <1>e
  <2>2. p.month = m /\ k.n = Amount({s \in LinesOf(g, t, p.month) : s.brand = p.id})
    BY <1>b, <1>2, <2>1a
  <2>3. {s \in LinesOf(g, t, p.month) : s.brand = p.id} = {s \in S : key[s] = k.id}
    BY <1>4, <1>7, <2>1a, <2>2
  <2>4. QED
    BY <2>2, <2>3
<1>9. \A s \in S : (\E k \in K : k.id = key[s]) <=> (\E b \in Own(ActiveBrands, t) : b.brand = s.brand)
  <2>1. SUFFICES ASSUME NEW s \in S
                 PROVE  (\E k \in K : k.id = key[s]) <=> (\E b \in Own(ActiveBrands, t) : b.brand = s.brand)
    OBVIOUS
  <2>2. ASSUME NEW k \in K, k.id = key[s]
        PROVE  \E b \in Own(ActiveBrands, t) : b.brand = s.brand
    <3>1. PICK p \in Own(BrandMonthlyView(g), t) : p.id = k.id
      BY <1>b, <1>e
    <3>2. PICK b \in Own(ActiveBrands, t) : b.brand = k.id
      BY <1>2, <3>1
    <3>3. QED
      BY <1>4, <2>2, <3>2
  <2>3. ASSUME NEW b \in Own(ActiveBrands, t), b.brand = s.brand
        PROVE  \E k \in K : k.id = key[s]
    <3>1. PICK row \in Own(BrandMonthlyView(g), t) : row.month = m /\ row.id = b.brand
      BY <1>2, <1>3, <2>3
    <3>2. PICK k \in K : k.id = row.id
      BY <1>b, <1>e, <3>1
    <3>3. QED
      BY <1>4, <2>3, <3>1, <3>2
  <2>4. QED
    BY <2>2, <2>3
<1>10. {s \in Own(g.sales, t) : Over(m, s.week) /\ ~\E b \in Own(ActiveBrands, t) : b.brand = s.brand}
          = {s \in S : ~\E k \in K : k.id = key[s]}
  BY <1>5, <1>6, <1>9
<1>11. \A p, q \in K : p.id = q.id => p = q
  BY <1>e
<1>12. IsFiniteSet(K)
  BY <1>e
<1>13. Amount(K) + Amount({s \in S : ~\E k \in K : k.id = key[s]}) = Amount(S)
  BY <1>7, <1>8, <1>11, <1>12, PanelAddsUp
<1>14. Figure(MonthlyTotals(g, t, m, None, None)) = Amount(S)
  BY MonthlyFigure DEF S
<1>15. QED
  BY <1>10, <1>13, <1>14 DEF K, R

\* The stores of a month.
LEMMA StoresOfMonth ==
    ASSUME NoneIsNull, NEW g, FullDb(g), NEW t, NEW m \in Calendar
    PROVE  Amount(MonthlyStoreDashboard(g, t, None, m))
              + Amount({s \in Own(g.sales, t) :
                           Over(m, s.week) /\ ~\E d \in Own(DimStore, t) : d.store = s.store /\ d.active})
              = Figure(MonthlyTotals(g, t, m, None, None))
<1> DEFINE K == MonthlyStoreDashboard(g, t, None, m)
           S == LinesOf(g, t, m)
           key == [s \in S |-> s.store]
<1>0. m # None
  BY Basics
<1>1. K = OfTheMonth(Own(StoreMonthlyView(g), t), m)
  BY <1>0 DEF MonthlyStoreDashboard, Is, OfTheMonth
<1>b. \A row : row \in K <=> row \in Own(StoreMonthlyView(g), t) /\ row.month = m
  BY <1>1 DEF OfTheMonth
<1>a. IsFiniteSet(OfTheMonth(Own(StoreMonthlyView(g), t), m))
  BY StoreMonthRows
<1>2. /\ \A row \in Own(StoreMonthlyView(g), t) :
            /\ row.n = Amount({s \in LinesOf(g, t, row.month) : s.store = row.id})
            /\ \E d \in Own(DimStore, t) : d.store = row.id /\ d.active
      /\ \A p, q \in Own(StoreMonthlyView(g), t) : p.id = q.id /\ p.month = q.month => p = q
      /\ m \in Months(g, t) =>
            \A d \in Own(DimStore, t) : d.active =>
            \E row \in Own(StoreMonthlyView(g), t) : row.month = m /\ row.id = d.store
  BY StoreMonthRows
<1>3. S # {} => m \in Months(g, t)
  BY MonthsHave
<1>4. \A s \in S : key[s] = s.store
  OBVIOUS
<1>5. \A s : s \in S <=> s \in Own(g.sales, t) /\ MonthOf[s.week] = m
  BY DEF LinesOf
<1>6. \A s \in Own(g.sales, t) : Over(m, s.week) <=> MonthOf[s.week] = m
  BY OverIs
<1>7. Countable(S) /\ S = LinesOf(g, t, m)
  BY LinesAreCountable
<1> HIDE DEF K, S, key
<1>8. \A k \in K : k.n = Amount({s \in S : key[s] = k.id})
  <2>1. SUFFICES ASSUME NEW k \in K
                 PROVE  k.n = Amount({s \in S : key[s] = k.id})
    OBVIOUS
  <2>2. k.month = m /\ k.n = Amount({s \in LinesOf(g, t, k.month) : s.store = k.id})
    BY <1>b, <1>2
  <2>3. {s \in LinesOf(g, t, k.month) : s.store = k.id} = {s \in S : key[s] = k.id}
    BY <1>4, <1>7, <2>2
  <2>4. QED
    BY <2>2, <2>3
<1>9. \A s \in S : (\E k \in K : k.id = key[s]) <=> (\E d \in Own(DimStore, t) : d.store = s.store /\ d.active)
  <2>1. SUFFICES ASSUME NEW s \in S
                 PROVE  (\E k \in K : k.id = key[s]) <=> (\E d \in Own(DimStore, t) : d.store = s.store /\ d.active)
    OBVIOUS
  <2>2. ASSUME NEW k \in K, k.id = key[s]
        PROVE  \E d \in Own(DimStore, t) : d.store = s.store /\ d.active
    <3>1. k \in Own(StoreMonthlyView(g), t)
      BY <1>b, <1>2
    <3>2. PICK d \in Own(DimStore, t) : d.store = k.id /\ d.active
      BY <1>b, <1>2, <3>1
    <3>3. QED
      BY <1>4, <2>2, <3>2
  <2>3. ASSUME NEW d \in Own(DimStore, t), d.store = s.store /\ d.active
        PROVE  \E k \in K : k.id = key[s]
    <3>1. PICK row \in Own(StoreMonthlyView(g), t) : row.month = m /\ row.id = d.store
      BY <1>1, <1>2, <1>3, <2>3
    <3>2. row \in K
      BY <1>b, <1>2, <3>1
    <3>3. QED
      BY <1>4, <2>3, <3>1, <3>2
  <2>4. QED
    BY <2>2, <2>3
<1>10. {s \in Own(g.sales, t) : Over(m, s.week) /\ ~\E d \in Own(DimStore, t) : d.store = s.store /\ d.active}
          = {s \in S : ~\E k \in K : k.id = key[s]}
  BY <1>5, <1>6, <1>9
<1>11. \A p, q \in K : p.id = q.id => p = q
  BY <1>b, <1>2
<1>12. IsFiniteSet(K)
  BY <1>1, <1>a DEF K
<1>13. Amount(K) + Amount({s \in S : ~\E k \in K : k.id = key[s]}) = Amount(S)
  BY <1>7, <1>8, <1>11, <1>12, PanelAddsUp
<1>14. Figure(MonthlyTotals(g, t, m, None, None)) = Amount(S)
  BY MonthlyFigure DEF S
<1>15. QED
  BY <1>10, <1>13, <1>14 DEF K

\* At all times the panels of a tenant add up to its totals, the brands and the
\* stores of the latest week and of every month, with what those without a row
\* sold, and the weeks of a month to the month, in every state a refresh that
\* deletes and inserts a statement at a time goes through.
THEOREM PanelsAgree == ASSUME NoneIsNull PROVE Spec => []PanelsAddUp
<1>1. IInv /\ FInv => PanelsAddUp
  <2> SUFFICES ASSUME IInv, FInv
               PROVE  PanelsAddUp
    OBVIOUS
  <2> DEFINE Brandless(t, s) == ~\E b \in Own(ActiveBrands, t) : b.brand = s.brand
             Storeless(t, s) == ~\E d \in Own(DimStore, t) : d.store = s.store /\ d.active
             brandless(t, p) == Amount({s \in Own(db.sales, t) : Over(p, s.week) /\ Brandless(t, s)})
             storeless(t, p) == Amount({s \in Own(db.sales, t) : Over(p, s.week) /\ Storeless(t, s)})
  <2>1. PICK g : g = db
    OBVIOUS
  <2>2. FullDb(g)
    BY <2>1 DEF FInv
  <2>3. ASSUME NEW t \in Tenants, NEW w, w = LatestSales(g, t), w # None
        PROVE  /\ Amount(Singly(BrandPerformance(db, t, None, w))) + brandless(t, w)
                     = Figure(WeeklyTotals(db, t, w))
               /\ Amount(StoreDashboard(db, t, None, w)) + storeless(t, w)
                     = Figure(WeeklyTotals(db, t, w))
    <3>1. w \in Weeks
      <4>1. Dated(g)
        BY <2>2, GoodIsDated DEF FullDb
      <4>2. \E s \in Own(g.sales, t) : s.week = LatestSales(g, t)
        BY <2>3, <4>1, LatestSold
      <4>3. QED
        BY <2>3, <4>1, <4>2 DEF Dated, Own
    <3>2. QED
      BY <2>1, <2>2, <2>3, <3>1, BrandsOfWeek, StoresOfWeek
  <2>4. ASSUME NEW t \in Tenants, NEW m \in Calendar
        PROVE  /\ SumFunction([w \in {w \in Weeks : MonthOf[w] = m} |-> Figure(WeeklyTotals(db, t, w))])
                     = Figure(MonthlyTotals(db, t, m, None, None))
               /\ Amount(Singly(MonthlyBrandPerformance(db, t, None, m))) + brandless(t, m)
                     = Figure(MonthlyTotals(db, t, m, None, None))
               /\ Amount(MonthlyStoreDashboard(db, t, None, m)) + storeless(t, m)
                     = Figure(MonthlyTotals(db, t, m, None, None))
    BY <2>1, <2>2, WeeksAddUp, MonthlyFigure, BrandsOfMonth, StoresOfMonth
  <2>5. QED
    BY <2>1, <2>3, <2>4 DEF PanelsAddUp, Figure, Singly
<1>2. QED
  BY AlwaysFull, <1>1, PTL

-----------------------------------------------------------------------------
(* What an answer was put together from.                                   *)

\* A call that was answered, and the states of the database it may have read.
Answered(S, c) ==
    /\ \A g \in S : FullDb(g)
    /\ c.at = "answered" /\ GoodCall(S, c) /\ Told(S, c)

\* The tool of one query.
Asks(c, part) == part \in PartNames \ Latests /\ Program(c.req) = <<Await(part, "")>>

\* A query of a tool of one query is what the database has at some moment.
LEMMA OneQueryRead ==
    ASSUME NEW S, NEW c, Answered(S, c), NEW part, Asks(c, part)
    PROVE  c.period = c.req.period /\ \E g \in S : c.got[part] = Fetch(g, c.req, c.req.period, part)
<1>1. Has(Program(c.req), {""}, {part}, {})
  BY OneQueryHas DEF Asks
<1>2. Parts(Program(c.req)) = {part} /\ Gathered(Program(c.req)) = {}
  BY <1>1 DEF Has
<1>3. IsAnswered(S, c)
  BY DEF Answered, GoodCall
<1>4. DOMAIN c.got = {part} /\ GotIsRead(S, c) /\ Resolved(c)
  BY <1>2, <1>3 DEF IsAnswered
<1>5. c.period = c.req.period
  BY <1>4 DEF Resolved, Asks
<1>6. WasRead(S, c, part, c.got[part])
  BY <1>2, <1>4 DEF GotIsRead
<1>7. QED
  BY <1>5, <1>6 DEF WasRead

-----------------------------------------------------------------------------
(* Two periods compared.                                                   *)

\* The buckets of the rows of two periods, by a key.
Buckets(A, B, key, ids) == {Bucket(i, {s \in A : key[s] = i}, {s \in B : key[s] = i}) : i \in ids}

Keyed(K, S, key) == \A s \in S : \E k \in K : k.id = key[s]

\* Keys that every line has one of add up to the whole.
LEMMA AllKeysAddUp ==
    ASSUME NEW K, IsFiniteSet(K), NEW S, Countable(S), NEW key,
           \A p, q \in K : p.id = q.id => p = q, Keyed(K, S, key),
           NEW h, \A k \in K : h[k] = Amount({s \in S : key[s] = k.id})
    PROVE  SumFunctionOnSet(h, K) = Amount(S)
<1>1. PICK rest : rest = {s \in S : ~\E k \in K : k.id = key[s]}
  OBVIOUS
<1>2. SumFunctionOnSet(h, K) + Amount(rest) = Amount(S)
  <2>1. SumFunctionOnSet(h, K) + Amount({s \in S : ~\E k \in K : k.id = key[s]}) = Amount(S)
    BY KeyedAddUp
  <2>2. QED
    BY <1>1, <2>1
<1>3. rest = {}
  BY <1>1 DEF Keyed
<1>4. SumFunctionOnSet(h, K) \in Nat
  <2>1. \A k \in K : {s \in S : key[s] = k.id} \in SUBSET S
    OBVIOUS
  <2>2. \A k \in K : h[k] \in Nat
    <3>1. ASSUME NEW k \in K
          PROVE  h[k] \in Nat
      <4>1. PICK part : part = {s \in S : key[s] = k.id}
        OBVIOUS
      <4>2. part \in SUBSET S /\ h[k] = Amount(part)
        BY <4>1
      <4>3. QED
        BY <4>2, AmountIsNat
    <3>2. QED
      BY <3>1
  <2>3. QED
    BY <2>2, SumIsNat
<1>5. QED
  BY <1>2, <1>3, <1>4, AmountOfNone

AddUp(A, B, key, ids, K) ==
    /\ \A x \in K : /\ x.id \in ids
                    /\ x.a = Amount({s \in A : key[s] = x.id})
                    /\ x.b = Amount({s \in B : key[s] = x.id})
    /\ SumFunction([x \in K |-> x.a]) = Amount(A)
    /\ SumFunction([x \in K |-> x.b]) = Amount(B)

\* The buckets of two periods add up to each of them.
LEMMA BucketsAddUp ==
    ASSUME NEW S, Countable(S), NEW A \in SUBSET S, NEW B \in SUBSET S, NEW key,
           NEW ids, IsFiniteSet(ids), \A s \in A \cup B : key[s] \in ids,
           NEW K, K = Buckets(A, B, key, ids)
    PROVE  AddUp(A, B, key, ids, K)
<1> DEFINE Line(i) == Bucket(i, {s \in A : key[s] = i}, {s \in B : key[s] = i})
           f == [i \in ids |-> Line(i)]
<1>1. K = {Line(i) : i \in ids}
  BY DEF Buckets
<1>2. \A i : /\ Line(i).id = i /\ Line(i).a = Amount({s \in A : key[s] = i})
             /\ Line(i).b = Amount({s \in B : key[s] = i})
  BY DEF Bucket
<1>3. f = [i \in ids |-> f[i]] /\ {f[i] : i \in ids} = {Line(i) : i \in ids}
  OBVIOUS
<1> HIDE DEF Line, f
<1>4. IsFiniteSet(K)
  BY <1>1, <1>3, Images
<1>5. \A x \in K : /\ x.a = Amount({s \in A : key[s] = x.id})
                   /\ x.b = Amount({s \in B : key[s] = x.id})
  <2>1. SUFFICES ASSUME NEW i \in ids
                 PROVE  /\ Line(i).a = Amount({s \in A : key[s] = Line(i).id})
                        /\ Line(i).b = Amount({s \in B : key[s] = Line(i).id})
    BY <1>1
  <2>2. QED
    BY <1>2
<1>6. \A p, q \in K : p.id = q.id => p = q
  BY <1>1, <1>2
<1>7. \A s \in A \cup B : \E k \in K : k.id = key[s]
  BY <1>1, <1>2
<1>8. PICK h, j : h = [x \in K |-> x.a] /\ j = [x \in K |-> x.b]
  OBVIOUS
<1>9. Countable(A) /\ Countable(B)
  BY AmountIsNat
<1>10. SumFunctionOnSet(h, K) = Amount(A)
  <2>1. \A k \in K : h[k] = Amount({s \in A : key[s] = k.id})
    BY <1>5, <1>8
  <2>2. Keyed(K, A, key)
    BY <1>7 DEF Keyed
  <2>3. QED
    BY <1>4, <1>6, <1>9, <2>1, <2>2, AllKeysAddUp
<1>11. SumFunctionOnSet(j, K) = Amount(B)
  <2>1. \A k \in K : j[k] = Amount({s \in B : key[s] = k.id})
    BY <1>5, <1>8
  <2>2. Keyed(K, B, key)
    BY <1>7 DEF Keyed
  <2>3. QED
    BY <1>4, <1>6, <1>9, <2>1, <2>2, AllKeysAddUp
<1>12. DOMAIN h = K /\ DOMAIN j = K
  BY <1>8
<1>13. \A x \in K : x.id \in ids
  BY <1>1, <1>2
<1>14. QED
  BY <1>5, <1>13, <1>8, <1>10, <1>11, <1>12 DEF SumFunction, AddUp

\* What a comparison should say of a database.
Compares(g, t, p, q, scope, K) ==
    /\ \A x \in K : /\ x.a = BucketOf(g, t, p, scope, x.id)
                    /\ x.b = BucketOf(g, t, q, scope, x.id)
    /\ SumFunction([x \in K |-> x.a]) = Amount(Counted(g, t, p, scope))
    /\ SumFunction([x \in K |-> x.b]) = Amount(Counted(g, t, q, scope))

\* The key of a line in a scope.
KeyIs(g, t, scope, key, ids) ==
    \A s \in Own(g.sales, t), i \in ids :
        key[s] = i <=> (scope = "brand" => s.brand = i) /\ (scope = "store" => s.store = i)

\* A bucket has the counted lines of a key.
LEMMA BucketsCompare ==
    ASSUME NEW g, FullDb(g), NEW t, NEW p, NEW q, NEW scope,
           NEW key, NEW ids, IsFiniteSet(ids), KeyIs(g, t, scope, key, ids),
           NEW A, A = Counted(g, t, p, scope), NEW B, B = Counted(g, t, q, scope),
           NEW used \in SUBSET ids, \A s \in A \cup B : key[s] \in used,
           NEW K, K = Buckets(A, B, key, used)
    PROVE  Compares(g, t, p, q, scope, K)
<1>1. Countable(g.sales) /\ A \in SUBSET g.sales /\ B \in SUBSET g.sales
  BY SalesAreCountable DEF Counted, Own
<1>2. AddUp(A, B, key, used, K)
  <2>1. IsFiniteSet(used)
    BY FS_Subset
  <2>2. QED
    BY <1>1, <2>1, BucketsAddUp
<1>3. \A x \in K : x.id \in ids
  BY <1>2 DEF AddUp
<1>4. A \subseteq Own(g.sales, t) /\ B \subseteq Own(g.sales, t)
  BY DEF Counted
<1>5. \A i \in ids : /\ {s \in A : key[s] = i}
                          = {s \in A : (scope = "brand" => s.brand = i) /\ (scope = "store" => s.store = i)}
                     /\ {s \in B : key[s] = i}
                          = {s \in B : (scope = "brand" => s.brand = i) /\ (scope = "store" => s.store = i)}
  BY <1>4 DEF KeyIs
<1>6. \A x \in K : /\ x.a = BucketOf(g, t, p, scope, x.id)
                   /\ x.b = BucketOf(g, t, q, scope, x.id)
  BY <1>2, <1>3, <1>5 DEF BucketOf, AddUp
<1>7. QED
  BY <1>2, <1>6 DEF Compares, AddUp

\* One bucket of all.
LEMMA OneBucket ==
    ASSUME NEW g, FullDb(g), NEW t, NEW p, NEW q,
           NEW K, K = {Bucket(None, Counted(g, t, p, "tenant"), Counted(g, t, q, "tenant"))}
    PROVE  Compares(g, t, p, q, "tenant", K)
<1> DEFINE key == [s \in Own(g.sales, t) |-> None]
           ids == {None}
<1>1. PICK A, B : A = Counted(g, t, p, "tenant") /\ B = Counted(g, t, q, "tenant")
  OBVIOUS
<1>2. A \subseteq Own(g.sales, t) /\ B \subseteq Own(g.sales, t)
  BY <1>1 DEF Counted
<1>3. \A s \in Own(g.sales, t) : key[s] = None
  OBVIOUS
<1> HIDE DEF key
<1>4. A = {s \in A : key[s] = None} /\ B = {s \in B : key[s] = None}
  BY <1>2, <1>3
<1>5. K = Buckets(A, B, key, ids)
  <2>1. Buckets(A, B, key, ids) = {Bucket(None, {s \in A : key[s] = None}, {s \in B : key[s] = None})}
    BY DEF Buckets
  <2>2. QED
    BY <1>1, <1>4, <2>1
<1>6. KeyIs(g, t, "tenant", key, ids)
  BY <1>3 DEF KeyIs
<1>7. IsFiniteSet(ids) /\ ids \in SUBSET ids /\ \A s \in A \cup B : key[s] \in ids
  BY <1>2, <1>3, FS_Singleton
<1> HIDE DEF ids
<1>8. QED
  BY <1>1, <1>5, <1>6, <1>7, BucketsCompare

\* One bucket per key.
LEMMA KeyedBuckets ==
    ASSUME NEW g, FullDb(g), NEW t, NEW p, NEW q, NEW scope,
           NEW key, key = [s \in Own(g.sales, t) |-> key[s]],
           KeyIs(g, t, scope, key, {key[s] : s \in Own(g.sales, t)}),
           NEW A, A = Counted(g, t, p, scope), NEW B, B = Counted(g, t, q, scope),
           NEW K, K = Buckets(A, B, key, {key[s] : s \in A \cup B})
    PROVE  Compares(g, t, p, q, scope, K)
<1> DEFINE ids == {key[s] : s \in Own(g.sales, t)}
           used == {key[s] : s \in A \cup B}
<1>1. A \subseteq Own(g.sales, t) /\ B \subseteq Own(g.sales, t)
  BY DEF Counted
<1>2. used \in SUBSET ids /\ \A s \in A \cup B : key[s] \in used
  BY <1>1
<1>3. IsFiniteSet(ids)
  <2>1. PICK T : T = Own(g.sales, t)
    OBVIOUS
  <2>2. IsFiniteSet(T) /\ key = [s \in T |-> key[s]]
    BY <2>1, LinesAreCountable DEF Countable
  <2>3. IsFiniteSet({key[s] : s \in T})
    BY <2>2, Images
  <2>4. QED
    BY <2>1, <2>3
<1>4. KeyIs(g, t, scope, key, ids) /\ K = Buckets(A, B, key, used)
  OBVIOUS
<1> HIDE DEF ids, used
<1>5. QED
  BY <1>2, <1>3, <1>4, BucketsCompare

\* Two weeks compared.
LEMMA WeeksCompare ==
    ASSUME NEW g, FullDb(g), NEW t, NEW a \in Weeks, NEW b \in Weeks,
           NEW scope \in {"tenant", "brand", "store"}
    PROVE  Compares(g, t, a, b, scope, ComparePeriods(g, t, a, b, scope))
<1>1. PICK K : K = ComparePeriods(g, t, a, b, scope)
  OBVIOUS
<1>2. PICK A, B : A = Counted(g, t, a, scope) /\ B = Counted(g, t, b, scope)
  OBVIOUS
<1>3. /\ A = {s \in WeekLines(g, t, a) : scope = "brand" => \E d \in Own(DimSku, t) : d.sku = s.sku}
      /\ B = {s \in WeekLines(g, t, b) : scope = "brand" => \E d \in Own(DimSku, t) : d.sku = s.sku}
  BY <1>2, OverIs DEF Counted, WeekLines
<1>4. A \subseteq Own(g.sales, t) /\ B \subseteq Own(g.sales, t)
  BY <1>2 DEF Counted
<1> DEFINE Sold0(w) == {r \in Own(g.sales, t) : r.week = w}
           Joined(w) == {r \in Sold0(w) : \E d \in Own(DimSku, t) : d.sku = r.sku}
<1>5. CASE scope = "tenant"
  <2>1. K = {Bucket(None, Sold0(a), Sold0(b))}
    BY <1>1, <1>5 DEF ComparePeriods
  <2>2. Sold0(a) = A /\ Sold0(b) = B
    BY <1>3, <1>5 DEF WeekLines
  <2> HIDE DEF Sold0
  <2>3. K = {Bucket(None, Counted(g, t, a, "tenant"), Counted(g, t, b, "tenant"))}
    BY <1>2, <1>5, <2>1, <2>2
  <2>4. QED
    BY <1>1, <1>5, <2>3, OneBucket
<1>6. CASE scope = "brand"
  <2> DEFINE key == [s \in Own(g.sales, t) |-> BrandOf(t, s.sku)]
  <2>1. K = {Bucket(k, {r \in Joined(a) : BrandOf(t, r.sku) = k},
                       {r \in Joined(b) : BrandOf(t, r.sku) = k}) :
                k \in {BrandOf(t, r.sku) : r \in Joined(a) \cup Joined(b)}}
    BY <1>1, <1>6 DEF ComparePeriods
  <2>2. Joined(a) = A /\ Joined(b) = B
    BY <1>3, <1>6 DEF WeekLines
  <2> HIDE DEF Joined
  <2>3. K = {Bucket(k, {r \in A : BrandOf(t, r.sku) = k}, {r \in B : BrandOf(t, r.sku) = k}) :
                k \in {BrandOf(t, r.sku) : r \in A \cup B}}
    BY <2>1, <2>2
  <2>4. \A s \in Own(g.sales, t) : key[s] = BrandOf(t, s.sku) /\ s.brand = BrandOf(t, s.sku)
    BY DEF FullDb, Typed, Own
  <2>5. key = [s \in Own(g.sales, t) |-> key[s]]
    OBVIOUS
  <2> HIDE DEF key
  <2> DEFINE Line(k) == Bucket(k, {r \in A : BrandOf(t, r.sku) = k}, {r \in B : BrandOf(t, r.sku) = k})
             Same(k) == Bucket(k, {r \in A : key[r] = k}, {r \in B : key[r] = k})
  <2>6. \A k : Line(k) = Same(k)
    <3>1. SUFFICES ASSUME NEW k
                   PROVE  Line(k) = Same(k)
      OBVIOUS
    <3>2. /\ {r \in A : BrandOf(t, r.sku) = k} = {r \in A : key[r] = k}
          /\ {r \in B : BrandOf(t, r.sku) = k} = {r \in B : key[r] = k}
      BY <1>4, <2>4
    <3>3. QED
      BY <3>2
  <2>7. {BrandOf(t, r.sku) : r \in A \cup B} = {key[s] : s \in A \cup B}
    BY <1>4, <2>4
  <2>8. /\ K = {Line(k) : k \in {BrandOf(t, r.sku) : r \in A \cup B}}
        /\ Buckets(A, B, key, {key[s] : s \in A \cup B}) = {Same(k) : k \in {key[s] : s \in A \cup B}}
    BY <2>3 DEF Buckets
  <2> HIDE DEF Line, Same
  <2>9. K = Buckets(A, B, key, {key[s] : s \in A \cup B})
    BY <2>6, <2>7, <2>8
  <2>10. KeyIs(g, t, scope, key, {key[s] : s \in Own(g.sales, t)})
    BY <1>6, <2>4 DEF KeyIs
  <2>11. QED
    BY <1>1, <1>2, <2>5, <2>9, <2>10, KeyedBuckets
<1>7. CASE scope = "store"
  <2> DEFINE key == [s \in Own(g.sales, t) |-> s.store]
  <2>1. K = {Bucket(k, {r \in Sold0(a) : r.store = k}, {r \in Sold0(b) : r.store = k}) :
                k \in {r.store : r \in Sold0(a) \cup Sold0(b)}}
    BY <1>1, <1>7 DEF ComparePeriods
  <2>2. Sold0(a) = A /\ Sold0(b) = B
    BY <1>3, <1>7 DEF WeekLines
  <2> HIDE DEF Sold0
  <2>3. K = {Bucket(k, {r \in A : r.store = k}, {r \in B : r.store = k}) :
                k \in {r.store : r \in A \cup B}}
    BY <2>1, <2>2
  <2>4. \A s \in Own(g.sales, t) : key[s] = s.store
    OBVIOUS
  <2>5. key = [s \in Own(g.sales, t) |-> key[s]]
    OBVIOUS
  <2> HIDE DEF key
  <2> DEFINE Line(k) == Bucket(k, {r \in A : r.store = k}, {r \in B : r.store = k})
             Same(k) == Bucket(k, {r \in A : key[r] = k}, {r \in B : key[r] = k})
  <2>6. \A k : Line(k) = Same(k)
    <3>1. SUFFICES ASSUME NEW k
                   PROVE  Line(k) = Same(k)
      OBVIOUS
    <3>2. /\ {r \in A : r.store = k} = {r \in A : key[r] = k}
          /\ {r \in B : r.store = k} = {r \in B : key[r] = k}
      BY <1>4, <2>4
    <3>3. QED
      BY <3>2
  <2>7. {r.store : r \in A \cup B} = {key[s] : s \in A \cup B}
    BY <1>4, <2>4
  <2>8. /\ K = {Line(k) : k \in {r.store : r \in A \cup B}}
        /\ Buckets(A, B, key, {key[s] : s \in A \cup B}) = {Same(k) : k \in {key[s] : s \in A \cup B}}
    BY <2>3 DEF Buckets
  <2> HIDE DEF Line, Same
  <2>9. K = Buckets(A, B, key, {key[s] : s \in A \cup B})
    BY <2>6, <2>7, <2>8
  <2>10. KeyIs(g, t, scope, key, {key[s] : s \in Own(g.sales, t)})
    BY <1>7, <2>4 DEF KeyIs
  <2>11. QED
    BY <1>1, <1>2, <2>5, <2>9, <2>10, KeyedBuckets
<1>8. QED
  BY <1>5, <1>6, <1>7

\* Two months compared.
LEMMA MonthsCompare ==
    ASSUME NEW g, FullDb(g), NEW t, NEW a \in Calendar, NEW b \in Calendar,
           NEW scope \in {"tenant", "store"}
    PROVE  Compares(g, t, a, b, scope, ComparePeriodsMonthly(g, t, a, b, scope))
<1>1. PICK K : K = ComparePeriodsMonthly(g, t, a, b, scope)
  OBVIOUS
<1>2. PICK A, B : A = Counted(g, t, a, scope) /\ B = Counted(g, t, b, scope)
  OBVIOUS
<1>3. A = LinesOf(g, t, a) /\ B = LinesOf(g, t, b)
  BY <1>2, OverIs DEF Counted, LinesOf
<1>4. A \subseteq Own(g.sales, t) /\ B \subseteq Own(g.sales, t)
  BY <1>2 DEF Counted
<1> DEFINE Month(m) == {r \in Own(SalesMonthly(g), t) : r.month = m}
<1>5. CASE scope = "tenant"
  <2>1. K = {Bucket(None, Month(a), Month(b))}
    BY <1>1, <1>5 DEF ComparePeriodsMonthly
  <2>2. \A m : Amount(Month(m)) = Amount(LinesOf(g, t, m))
    <3>1. SUFFICES ASSUME NEW m
                   PROVE  Amount(Month(m)) = Amount(LinesOf(g, t, m))
      OBVIOUS
    <3>2. Month(m) \in SUBSET SalesMonthly(g) /\ LinesOf(g, t, m) \in SUBSET g.sales
      BY DEF Own, LinesOf
    <3>3. \A s \in g.sales, q \in SalesMonthly(g) :
             LineOf(s, q) => (s \in LinesOf(g, t, m) <=> q \in Month(m))
      BY DEF LineOf, Own, LinesOf
    <3> HIDE DEF Month
    <3>4. QED
      BY <3>2, <3>3, MonthlyAmount
  <2> HIDE DEF Month
  <2>3. Bucket(None, Month(a), Month(b)) = Bucket(None, A, B)
    BY <1>3, <2>2 DEF Bucket
  <2>4. K = {Bucket(None, Counted(g, t, a, "tenant"), Counted(g, t, b, "tenant"))}
    BY <1>2, <1>5, <2>1, <2>3
  <2>5. QED
    BY <1>1, <1>5, <2>4, OneBucket
<1>6. CASE scope = "store"
  <2> DEFINE key == [s \in Own(g.sales, t) |-> s.store]
             Line(k) == Bucket(k, {r \in Month(a) : r.store = k}, {r \in Month(b) : r.store = k})
             Same(k) == Bucket(k, {r \in A : key[r] = k}, {r \in B : key[r] = k})
  <2>1. K = {Line(k) : k \in {r.store : r \in Month(a) \cup Month(b)}}
    BY <1>1, <1>6 DEF ComparePeriodsMonthly
  <2>2. \A s \in Own(g.sales, t) : key[s] = s.store
    OBVIOUS
  <2>3. key = [s \in Own(g.sales, t) |-> key[s]]
    OBVIOUS
  <2> HIDE DEF key
  <2>4. \A m, k : Amount({r \in Month(m) : r.store = k}) = Amount({s \in LinesOf(g, t, m) : key[s] = k})
    <3>1. SUFFICES ASSUME NEW m, NEW k
                   PROVE  Amount({r \in Month(m) : r.store = k})
                             = Amount({s \in LinesOf(g, t, m) : key[s] = k})
      OBVIOUS
    <3>2. PICK Q, L : Q = {r \in Month(m) : r.store = k} /\ L = {s \in LinesOf(g, t, m) : key[s] = k}
      OBVIOUS
    <3>3. Q \in SUBSET SalesMonthly(g) /\ L \in SUBSET g.sales
      BY <3>2 DEF Own, LinesOf
    <3>4. \A s \in g.sales, q \in SalesMonthly(g) : LineOf(s, q) => (s \in L <=> q \in Q)
      BY <2>2, <3>2 DEF LineOf, Own, LinesOf
    <3>5. Amount(Q) = Amount(L)
      BY <3>3, <3>4, MonthlyAmount
    <3>6. QED
      BY <3>2, <3>5
  <2>5. \A k : Line(k) = Same(k)
    <3>1. SUFFICES ASSUME NEW k
                   PROVE  Line(k) = Same(k)
      OBVIOUS
    <3>2. \A m : Amount({r \in Month(m) : r.store = k}) = Amount({s \in LinesOf(g, t, m) : key[s] = k})
      BY <2>4
    <3>3. PICK C, D : C = LinesOf(g, t, a) /\ D = LinesOf(g, t, b)
      OBVIOUS
    <3>4. /\ Amount({r \in Month(a) : r.store = k}) = Amount({s \in C : key[s] = k})
          /\ Amount({r \in Month(b) : r.store = k}) = Amount({s \in D : key[s] = k})
      BY <3>2, <3>3
    <3>5. A = C /\ B = D
      BY <1>3, <3>3
    <3>6. QED
      BY <3>4, <3>5 DEF Bucket
  <2>6. {r.store : r \in Month(a) \cup Month(b)} = {key[s] : s \in A \cup B}
    <3>1. \A q \in SalesMonthly(g) : \E s \in g.sales : LineOf(s, q)
      BY MonthRows
    <3>2. \A s \in g.sales : \E q \in SalesMonthly(g) : LineOf(s, q)
      BY MonthRows
    <3>3. \A m : \A q \in Month(m) : \E s \in LinesOf(g, t, m) : key[s] = q.store
      BY <2>2, <3>1 DEF LineOf, Own, LinesOf
    <3>4. \A m : \A s \in LinesOf(g, t, m) : \E q \in Month(m) : key[s] = q.store
      BY <2>2, <3>2 DEF LineOf, Own, LinesOf
    <3> HIDE DEF Month
    <3>5. QED
      BY <1>3, <3>3, <3>4
  <2>7. Buckets(A, B, key, {key[s] : s \in A \cup B}) = {Same(k) : k \in {key[s] : s \in A \cup B}}
    BY DEF Buckets
  <2> HIDE DEF Line, Same, Month
  <2>8. K = Buckets(A, B, key, {key[s] : s \in A \cup B})
    BY <2>1, <2>5, <2>6, <2>7
  <2>9. KeyIs(g, t, scope, key, {key[s] : s \in Own(g.sales, t)})
    BY <1>6, <2>2 DEF KeyIs
  <2>10. QED
    BY <1>1, <1>2, <2>3, <2>8, <2>9, KeyedBuckets
<1>7. QED
  BY <1>5, <1>6

\* What a comparison answers was true.
LEMMA ComparisonWasTrue ==
    ASSUME NEW S, NEW c, Answered(S, c), c.req.tool = "compare_periods", ~ByMonthAndBrand(c.req)
    PROVE  /\ Answer(c).buckets = c.got["buckets"]
           /\ \E g \in S : Compares(g, c.req.tenant, c.req.period, c.req.to, c.req.scope, c.got["buckets"])
<1> DEFINE r == c.req
<1>1. Asks(c, "buckets")
  BY DEF Asks, Program, PartNames, Latests
<1>2. PICK g \in S : c.got["buckets"] = Fetch(g, r, r.period, "buckets")
  BY <1>1, OneQueryRead
<1>3. FullDb(g)
  BY DEF Answered
<1>4. /\ r.scope \in {"tenant", "brand", "store"}
      /\ \/ r.period \in Weeks /\ r.to \in Weeks
         \/ r.period \in Calendar /\ r.to \in Calendar
  <2>1. r \in Requests
    BY DEF Answered, GoodCall, Shape
  <2>2. QED
    BY <2>1, RequestsFit DEF Fits
<1>5. Fetch(g, r, r.period, "buckets") =
         IF r.period \in Calendar THEN ComparePeriodsMonthly(g, r.tenant, r.period, r.to, r.scope)
                                  ELSE ComparePeriods(g, r.tenant, r.period, r.to, r.scope)
  BY DEF Fetch
<1>6. Answer(c).buckets = c.got["buckets"]
  BY DEF Answer, RowsOf
<1>7. CASE r.period \in Calendar
  <2>1. r.to \in Calendar /\ r.scope \in {"tenant", "store"}
    <3>1. r.period \notin Weeks
      BY <1>7, Basics
    <3>2. QED
      BY <1>4, <1>7, <3>1 DEF ByMonthAndBrand
  <2>2. QED
    BY <1>2, <1>3, <1>5, <1>6, <1>7, <2>1, MonthsCompare
<1>8. CASE r.period \notin Calendar
  <2>1. r.period \in Weeks /\ r.to \in Weeks
    BY <1>4, <1>8
  <2>2. QED
    BY <1>2, <1>3, <1>4, <1>5, <1>6, <1>8, <2>1, WeeksCompare
<1>9. QED
  BY <1>7, <1>8

\* What the invariants say of a call that was answered.
LEMMA AnsweredIs ==
    ASSUME IInv, FInv, call.at = "answered"
    PROVE  Answered(seen, call)
  BY DEF IInv, FInv, Answered

\* At all times the buckets of two periods that were compared add up to what the
\* tenant sold in each, in a state of the database during the call, also when a
\* brand or a store sold in one of them only.
THEOREM BucketsAreWhole == Spec => []PeriodsAddUp
<1>1. IInv /\ FInv => PeriodsAddUp
  <2> SUFFICES ASSUME IInv, FInv, call.at = "answered", call.req.tool = "compare_periods",
                      ~ByMonthAndBrand(call.req)
               PROVE  \E g \in seen :
                         /\ SumFunction([x \in Answer(call).buckets |-> x.a])
                               = Amount(Counted(g, call.req.tenant, call.req.period, call.req.scope))
                         /\ SumFunction([x \in Answer(call).buckets |-> x.b])
                               = Amount(Counted(g, call.req.tenant, call.req.to, call.req.scope))
    BY DEF PeriodsAddUp
  <2>1. Answered(seen, call)
    BY AnsweredIs
  <2>2. PICK S, c : S = seen /\ c = call
    OBVIOUS
  <2>3. PICK K : K = Answer(call).buckets
    OBVIOUS
  <2>4. \E g \in seen : Compares(g, call.req.tenant, call.req.period, call.req.to, call.req.scope, K)
    BY <2>1, <2>3, ComparisonWasTrue
  <2>5. QED
    BY <2>3, <2>4 DEF Compares
<1>2. QED
  BY AlwaysFull, <1>1, PTL

-----------------------------------------------------------------------------
(* The first rows of a list.                                               *)

\* Who is ahead of whom, without ties.
Ranks(R, ahead) ==
    /\ IsFiniteSet(R)
    /\ \A r \in R : ahead[r] \in SUBSET R /\ r \notin ahead[r]
    /\ \A r \in R : \A s \in ahead[r] : ahead[s] \subseteq ahead[r]

\* The first n by who is ahead of whom.
FirstOf(n, R, ahead) == {r \in R : Cardinality(ahead[r]) < n}

\* The first n of no more than n rows are all of them.
LEMMA FirstAll ==
    ASSUME NEW R, NEW ahead, Ranks(R, ahead), NEW n \in Nat, Cardinality(R) <= n
    PROVE  FirstOf(n, R, ahead) = R
<1>1. ASSUME NEW r \in R
      PROVE  Cardinality(ahead[r]) < n
  <2>1. PICK A : A = ahead[r]
    OBVIOUS
  <2>2. IsFiniteSet(R) /\ A \subseteq R /\ A # R
    BY <2>1 DEF Ranks
  <2>3. Cardinality(A) <= Cardinality(R) /\ (Cardinality(A) = Cardinality(R) => A = R)
    BY <2>2, FS_Subset
  <2>4. Cardinality(A) \in Nat /\ Cardinality(R) \in Nat
    BY <2>2, FS_Subset, FS_CardinalityType
  <2>5. QED
    BY <2>1, <2>2, <2>3, <2>4
<1>2. QED
  BY <1>1 DEF FirstOf

\* Who is ahead of one of the first is one of them.
LEMMA FirstAhead ==
    ASSUME NEW R, NEW ahead, Ranks(R, ahead), NEW n \in Nat,
           NEW r \in FirstOf(n, R, ahead), NEW s \in ahead[r]
    PROVE  s \in FirstOf(n, R, ahead) /\ Cardinality(ahead[s]) < Cardinality(ahead[r])
<1>1. PICK A, B : A = ahead[s] /\ B = ahead[r]
  OBVIOUS
<1>2. IsFiniteSet(R) /\ r \in R /\ s \in R /\ A \subseteq B /\ B \subseteq R /\ s \in B /\ s \notin A
  BY <1>1 DEF Ranks, FirstOf
<1>3. IsFiniteSet(B)
  BY <1>2, FS_Subset
<1>4. Cardinality(A) <= Cardinality(B) /\ (Cardinality(A) = Cardinality(B) => A = B)
  BY <1>2, <1>3, FS_Subset
<1>5. Cardinality(A) \in Nat /\ Cardinality(B) \in Nat
  BY <1>2, <1>3, FS_Subset, FS_CardinalityType
<1>6. Cardinality(A) < Cardinality(B) /\ Cardinality(B) < n
  BY <1>1, <1>2, <1>4, <1>5 DEF FirstOf
<1>7. Cardinality(A) < n
  BY <1>5, <1>6
<1>8. QED
  BY <1>1, <1>2, <1>6, <1>7 DEF FirstOf

\* Who is ahead has fewer ahead of him.
LEMMA AheadIsLess ==
    ASSUME NEW R, NEW ahead, Ranks(R, ahead), NEW r \in R, NEW s \in ahead[r]
    PROVE  /\ s \in R /\ Cardinality(ahead[s]) \in Nat /\ Cardinality(ahead[r]) \in Nat
           /\ Cardinality(ahead[s]) < Cardinality(ahead[r])
<1>1. PICK A, B : A = ahead[s] /\ B = ahead[r]
  OBVIOUS
<1>2. IsFiniteSet(R) /\ s \in R /\ A \subseteq B /\ B \subseteq R /\ s \in B /\ s \notin A
  BY <1>1 DEF Ranks
<1>3. IsFiniteSet(B)
  BY <1>2, FS_Subset
<1>4. Cardinality(A) <= Cardinality(B) /\ (Cardinality(A) = Cardinality(B) => A = B)
  BY <1>2, <1>3, FS_Subset
<1>5. Cardinality(A) \in Nat /\ Cardinality(B) \in Nat
  BY <1>2, <1>3, FS_Subset, FS_CardinalityType
<1>6. QED
  BY <1>1, <1>2, <1>4, <1>5

\* The first n of more are no fewer than n.
LEMMA FirstAreMany ==
    ASSUME NEW R, NEW ahead, Ranks(R, ahead), NEW n \in Nat, Cardinality(R) >= n
    PROVE  Cardinality(FirstOf(n, R, ahead)) >= n
<1> DEFINE F == FirstOf(n, R, ahead)
           N(r) == Cardinality(ahead[r])
           counts == {N(r) : r \in R \ F}
<1>1. F \subseteq R /\ IsFiniteSet(R) /\ \A r \in R : ahead[r] \subseteq R
  BY DEF FirstOf, Ranks
<1>2. \A r \in R : N(r) \in Nat
  BY <1>1, FS_Subset, FS_CardinalityType
<1>3. \A r \in R \ F : N(r) >= n
  BY <1>2 DEF FirstOf
<1>4. CASE F = R
  BY <1>4
<1>5. CASE F # R
  <2>1. counts \in SUBSET Nat /\ counts # {}
    BY <1>1, <1>2, <1>5
  <2> HIDE DEF counts
  <2>2. PICK k \in counts : \A j \in counts : k <= j
    BY <2>1, LeastNat
  <2>3. PICK z \in R \ F : \A r \in R \ F : N(z) <= N(r)
    BY <2>2 DEF counts
  <2>4. ASSUME NEW s \in ahead[z]
        PROVE  s \in F
    <3>1. s \in R /\ N(s) < N(z) /\ N(s) \in Nat /\ N(z) \in Nat
      BY AheadIsLess
    <3>2. ~(N(z) <= N(s))
      BY <3>1
    <3>3. QED
      BY <2>3, <3>1, <3>2
  <2>5. PICK A : A = ahead[z]
    OBVIOUS
  <2>6. A \subseteq F /\ IsFiniteSet(F) /\ Cardinality(A) \in Nat /\ Cardinality(A) >= n
    BY <1>1, <1>2, <1>3, <2>4, <2>5, FS_Subset
  <2>7. Cardinality(A) <= Cardinality(F) /\ Cardinality(F) \in Nat
    BY <2>6, FS_Subset, FS_CardinalityType
  <2>8. QED
    BY <2>6, <2>7
<1>6. QED
  BY <1>4, <1>5

\* The first n are n at most, when one of any two is ahead of the other.
LEMMA FirstAreFew ==
    ASSUME NEW R, NEW ahead, Ranks(R, ahead), NEW n \in Nat,
           \A r, s \in R : r = s \/ r \in ahead[s] \/ s \in ahead[r]
    PROVE  Cardinality(FirstOf(n, R, ahead)) <= n
<1> DEFINE F == FirstOf(n, R, ahead)
           N(r) == Cardinality(ahead[r])
<1>1. F \subseteq R /\ IsFiniteSet(R)
  BY DEF FirstOf, Ranks
<1>2. IsFiniteSet(F) /\ Cardinality(F) \in Nat
  BY <1>1, FS_Subset, FS_CardinalityType
<1>3. CASE F = {}
  BY <1>3, FS_EmptySet
<1>4. CASE F # {}
  <2> DEFINE counts == {N(r) : r \in F}
  <2>1. \A r \in F : IsFiniteSet(ahead[r]) /\ N(r) \in Nat /\ N(r) < n
    <3>1. \A r \in F : ahead[r] \subseteq R
      BY <1>1 DEF Ranks
    <3>2. \A r \in F : IsFiniteSet(ahead[r])
      BY <1>1, <3>1, FS_Subset
    <3>3. QED
      BY <3>2, FS_CardinalityType DEF FirstOf
  <2>2. counts \in SUBSET Nat /\ counts # {} /\ \A k \in counts : k <= n
    BY <1>4, <2>1
  <2> HIDE DEF counts
  <2>3. \E k \in counts : \A j \in counts : j <= k
    <3>1. counts \in SUBSET (0..n)
      BY <2>2
    <3>2. \E k \in counts : \A j \in counts : k >= j
      BY <2>2, <3>1, GreatestNat
    <3>3. QED
      BY <2>2, <3>2
  <2>4. PICK z \in F : \A r \in F : N(r) <= N(z)
    BY <2>3 DEF counts
  <2>5. ASSUME NEW y \in F \ {z}
        PROVE  y \in ahead[z]
    <3>1. z \notin ahead[y]
      <4>1. SUFFICES ASSUME z \in ahead[y] PROVE FALSE
        OBVIOUS
      <4>2. N(z) < N(y)
        BY <4>1, FirstAhead
      <4>3. N(y) <= N(z) /\ N(y) \in Nat /\ N(z) \in Nat
        BY <2>1, <2>4
      <4>4. QED
        BY <4>2, <4>3
    <3>2. QED
      BY <1>1, <3>1
  <2>6. PICK A : A = ahead[z]
    OBVIOUS
  <2>7. F \ {z} \subseteq A /\ IsFiniteSet(A) /\ Cardinality(A) \in Nat /\ Cardinality(A) < n
    BY <2>1, <2>5, <2>6
  <2>8. Cardinality(F \ {z}) <= Cardinality(A)
    BY <2>7, FS_Subset
  <2>9. Cardinality(F \ {z}) = Cardinality(F) - 1
    BY <1>2, <2>4, FS_RemoveElement
  <2>10. QED
    BY <1>2, <2>7, <2>8, <2>9
<1>5. QED
  BY <1>3, <1>4

-----------------------------------------------------------------------------
(* The alerts.                                                             *)

\* The types of the alerts, and the coverage of a row of the stock.
Types == {"STOCK_ZERO", "OBSOLETE", "OVERSTOCK", "UNDERSTOCK"}
CoverOf(g, s) ==
    [tenant |-> s.tenant, week |-> s.week, store |-> s.store, sku |-> s.sku,
     brand |-> BrandOf(s.tenant, s.sku), left |-> s.left, obsolete |-> s.obsolete,
     sold |-> SoldIn4w(g, s)]

\* A row of the view as far as its colour and its alerts go.
Coloured(x) ==
    /\ x.left \in Int /\ x.obsolete \in BOOLEAN /\ x.sold \in Nat /\ x.sku \in Skus

\* What raises an alert.
Troubled(x) ==
    x.left = 0 \/ x.obsolete \/ Above(x, Rule[x.sku].max) \/ Below(x, Rule[x.sku].min)
Doubled(x) == x.left # 0 /\ x.obsolete /\ Below(x, Rule[x.sku].min)

\* The type that a troubled row always raises.
FirstType(x) ==
    IF x.left = 0 THEN "STOCK_ZERO" ELSE IF x.obsolete THEN "OBSOLETE"
    ELSE IF Above(x, Rule[x.sku].max) THEN "OVERSTOCK" ELSE "UNDERSTOCK"

\* The rules and prices of a product.
LEMMA RulesAre ==
    ASSUME NEW k \in Skus
    PROVE  /\ Price[k] \in Nat /\ Rule[k].min \in Nat /\ Rule[k].max \in Nat
           /\ Rule[k].min <= Rule[k].max
  BY RulesAssumption

\* A row does not last too long and too short at once.
LEMMA NotBoth ==
    ASSUME NEW x, Coloured(x)
    PROVE  ~(Above(x, Rule[x.sku].max) /\ Below(x, Rule[x.sku].min))
<1>1. PICK a \in Nat, b \in Nat, c \in Nat : a = Rule[x.sku].min /\ b = Rule[x.sku].max /\ c = x.sold
  BY RulesAre DEF Coloured
<1>2. a <= b
  BY <1>1, RulesAre DEF Coloured
<1>3. a * c <= b * c /\ a * c \in Nat /\ b * c \in Nat
  <2>1. PICK d \in Nat : b = a + d
    <3>1. b - a \in Nat /\ b = a + (b - a)
      BY <1>2
    <3>2. QED
      BY <3>1
  <2>2. b * c = a * c + d * c
    BY <2>1
  <2>3. a * c \in Nat /\ d * c \in Nat
    OBVIOUS
  <2>4. QED
    BY <2>2, <2>3
<1>4. PICK l \in Int : l = 28 * x.left
  BY DEF Coloured
<1>5. PICK p \in Nat, q \in Nat : p = a * c /\ q = b * c /\ p <= q
  BY <1>3
<1>6. ~(l > q /\ l < p)
  BY <1>4, <1>5
<1>7. QED
  BY <1>1, <1>4, <1>5, <1>6 DEF Above, Below

\* The alerts of a row: the one of a troubled row, and of some a second one.
LEMMA RaisesAre ==
    ASSUME NEW x, Coloured(x)
    PROVE  /\ Troubled(x) <=> \E type \in Types : Raises(x, type)
           /\ Troubled(x) => FirstType(x) \in Types /\ Raises(x, FirstType(x))
           /\ Doubled(x) => /\ Troubled(x) /\ Raises(x, "UNDERSTOCK")
                            /\ FirstType(x) # "UNDERSTOCK"
           /\ \A type \in Types :
                 Raises(x, type) => type = FirstType(x) \/ (Doubled(x) /\ type = "UNDERSTOCK")
           /\ \A type \in Types :
                 Raises(x, type) /\ SeverityOf(x, type) = "HIGH" => x.sold > 0
           /\ StatusColor(x) \in {"RED", "YELLOW"} <=> Troubled(x)
<1>2. /\ Raises(x, "STOCK_ZERO") <=> x.left = 0
      /\ Raises(x, "OBSOLETE") <=> x.left # 0 /\ x.obsolete
      /\ Raises(x, "OVERSTOCK") <=> x.left # 0 /\ ~x.obsolete /\ Above(x, Rule[x.sku].max)
      /\ Raises(x, "UNDERSTOCK") <=> x.left # 0 /\ Below(x, Rule[x.sku].min)
  BY DEF Raises
<1>3. ~(Above(x, Rule[x.sku].max) /\ Below(x, Rule[x.sku].min))
  BY NotBoth
<1>4. x.obsolete \in BOOLEAN /\ x.sold \in Nat
  BY DEF Coloured
<1>5. /\ Above(x, Rule[x.sku].max) => x.sold > 0
      /\ Below(x, Rule[x.sku].min) => x.sold > 0
  BY DEF Above, Below
<1>6. Troubled(x) <=> \E type \in Types : Raises(x, type)
  BY <1>2, <1>4 DEF Troubled, Types
<1>7. Troubled(x) => FirstType(x) \in Types /\ Raises(x, FirstType(x))
  BY <1>2, <1>4 DEF Troubled, Types, FirstType
<1>8. Doubled(x) => /\ Troubled(x) /\ Raises(x, "UNDERSTOCK") /\ FirstType(x) # "UNDERSTOCK"
  BY <1>2, <1>4 DEF Doubled, Troubled, FirstType
<1>9. ASSUME NEW type \in Types, Raises(x, type)
      PROVE  type = FirstType(x) \/ (Doubled(x) /\ type = "UNDERSTOCK")
  BY <1>2, <1>3, <1>4, <1>9 DEF Types, Doubled, FirstType
<1>10. ASSUME NEW type \in Types, Raises(x, type), SeverityOf(x, type) = "HIGH"
       PROVE  x.sold > 0
  <2>1. CASE type = "STOCK_ZERO"
    BY <1>10, <2>1 DEF SeverityOf
  <2>2. CASE type = "OBSOLETE"
    BY <1>10, <2>2 DEF SeverityOf
  <2>3. CASE type = "OVERSTOCK"
    BY <1>2, <1>5, <1>10, <2>3
  <2>4. CASE type = "UNDERSTOCK"
    BY <1>2, <1>5, <1>10, <2>4
  <2>5. QED
    BY <2>1, <2>2, <2>3, <2>4 DEF Types
<1>11. StatusColor(x) \in {"RED", "YELLOW"} <=> Troubled(x)
  BY <1>4, <1>5 DEF StatusColor, Troubled
<1>12. QED
  BY <1>6, <1>7, <1>8, <1>9, <1>10, <1>11

\* The impact of an alert is a number, and so is that of an action.
LEMMA ImpactsAre ==
    ASSUME NEW x, Coloured(x), NEW type \in Types
    PROVE  ImpactOf(x, type) \in Int /\ \A v : ImpactOf(x, type) * Weight(v) \in Int
<1>1. PICK a \in Nat, b \in Nat, c \in Nat, l \in Int, p \in Nat :
         /\ a = Rule[x.sku].min /\ b = Rule[x.sku].max /\ c = x.sold
         /\ l = x.left /\ p = Price[x.sku]
  BY RulesAre DEF Coloured
<1>2. ImpactOf(x, type) \in {14 * c * p, 56 * l * p, 2 * (28 * l - b * c) * p, (a * c - 28 * l) * p}
  BY <1>1 DEF ImpactOf, Types
<1>3. a * c \in Int /\ b * c \in Int
  OBVIOUS
<1>4. \A u, v \in Int : u * v \in Int
  OBVIOUS
<1>5. 14 * c * p \in Int /\ 56 * l * p \in Int
  BY <1>4
<1>6. 28 * l - b * c \in Int /\ a * c - 28 * l \in Int
  BY <1>3
<1>7. 2 * (28 * l - b * c) * p \in Int /\ (a * c - 28 * l) * p \in Int
  BY <1>4, <1>6
<1>8. ImpactOf(x, type) \in Int
  BY <1>2, <1>5, <1>7
<1>9. \A v : Weight(v) \in Int
  BY DEF Weight
<1>10. QED
  BY <1>4, <1>8, <1>9

\* The stock of now is the one of the latest week, with a row per store and product.
LEMMA CurrentIs ==
    ASSUME NEW g, FullDb(g), NEW t
    PROVE  /\ \A s \in Own(g.stock, t) : s \in Current(g, t) <=> s.week = LatestStock(g, t)
           /\ IsFiniteSet(Current(g, t))
           /\ \A s \in Current(g, t) : StockOk(s) /\ s.tenant = t
           /\ \A s, o \in Current(g, t) : s.store = o.store /\ s.sku = o.sku => s = o
<1> DEFINE weeks == {r.week : r \in Own(g.stock, t)}
<1>1. \A s \in Own(g.stock, t) : s \in g.stock /\ s.tenant = t /\ s.week \in Weeks
  BY DEF FullDb, GoodDb, Own
<1>2. weeks \subseteq Weeks /\ LatestStock(g, t) = Latest(weeks)
  BY <1>1 DEF LatestStock
<1>3. \A s \in Own(g.stock, t) : s \in Current(g, t) <=> s.week = LatestStock(g, t)
  <2>1. SUFFICES ASSUME NEW s \in Own(g.stock, t)
                 PROVE  s \in Current(g, t) <=> s.week = LatestStock(g, t)
    OBVIOUS
  <2>2. weeks # {}
    OBVIOUS
  <2>3. weeks \subseteq Nat /\ \A k \in weeks : k <= Today
    BY <1>2, Basics DEF Weeks
  <2>4. s.week \in weeks
    OBVIOUS
  <2>5. s \in Current(g, t) <=> \A k \in weeks : k <= s.week
    BY DEF Current
  <2> HIDE DEF weeks
  <2>6. Latest(weeks) = Max(weeks)
    BY <2>2 DEF Latest
  <2>7. Max(weeks) \in weeks /\ \A k \in weeks : k <= Max(weeks)
    <3>1. PICK b \in Nat : b = Today
      BY Basics
    <3>2. weeks \in SUBSET (0..b)
      BY <2>3, <3>1
    <3>3. \E x \in weeks : \A y \in weeks : x >= y
      BY <2>2, <3>1, <3>2, GreatestNat
    <3>4. Max(weeks) \in weeks /\ \A k \in weeks : Max(weeks) >= k
      BY <3>3 DEF Max
    <3>5. QED
      BY <2>3, <3>4
  <2>8. PICK v : v = s.week
    OBVIOUS
  <2>9. LatestStock(g, t) = Max(weeks)
    BY <1>2, <2>6
  <2>10. (\A k \in weeks : k <= v) <=> v = Max(weeks)
    <3>1. PICK x : x = Max(weeks)
      OBVIOUS
    <3>2. x \in weeks /\ v \in weeks /\ \A k \in weeks : k <= x
      BY <2>4, <2>7, <2>8, <3>1
    <3>3. x \in Nat /\ v \in Nat
      BY <2>3, <3>2
    <3>4. (\A k \in weeks : k <= v) <=> v = x
      BY <2>3, <3>2, <3>3
    <3>5. QED
      BY <3>1, <3>4
  <2>11. QED
    BY <2>5, <2>8, <2>9, <2>10
<1>4. IsFiniteSet(Current(g, t))
  BY FS_Subset DEF FullDb, Typed, Current, Own
<1>5. \A s \in Current(g, t) : StockOk(s) /\ s.tenant = t
  BY DEF FullDb, Typed, Current, Own
<1>6. \A s, o \in Current(g, t) : s.store = o.store /\ s.sku = o.sku => s = o
  <2>1. SUFFICES ASSUME NEW s \in Current(g, t), NEW o \in Current(g, t),
                        s.store = o.store, s.sku = o.sku
                 PROVE  s = o
    OBVIOUS
  <2>2. s \in Own(g.stock, t) /\ o \in Own(g.stock, t)
    BY DEF Current
  <2>3. s.week = o.week /\ s.tenant = o.tenant
    BY <1>1, <1>3, <2>2
  <2>4. StockKey(s) = StockKey(o)
    BY <2>1, <2>3 DEF StockKey
  <2>5. QED
    BY <1>1, <2>2, <2>4 DEF FullDb, GoodDb
<1>7. QED
  BY <1>3, <1>4, <1>5, <1>6

\* Rows of D by type, store and product.
DueRows(D, row) ==
    /\ IsFiniteSet(D)
    /\ \A p \in D : /\ row[p].type \in Types /\ row[p].store \in Nat /\ row[p].sku \in Nat
                    /\ row[p].impact \in Int
    /\ \A p, q \in D :
          row[p].type = row[q].type /\ row[p].store = row[q].store /\ row[p].sku = row[q].sku => p = q

RowsIn(row, E) == {row[p] : p \in E}
Foremost(n, R) == First(n, R, Impacts)
AheadIn(R)     == [r \in R |-> {s \in R : Impacts(s, r)}]

\* The order of the types.
LEMMA TypesAre ==
    /\ DOMAIN TypeOrder = Types
    /\ \A u \in Types : TypeOrder[u] \in Nat
    /\ \A u, v \in Types : TypeOrder[u] = TypeOrder[v] => u = v
<1>1. DOMAIN TypeOrder = Types
  BY DEF TypeOrder, Types
<1>2. /\ TypeOrder["OBSOLETE"] = 1 /\ TypeOrder["OVERSTOCK"] = 2
      /\ TypeOrder["STOCK_ZERO"] = 3 /\ TypeOrder["UNDERSTOCK"] = 4
  BY DEF TypeOrder
<1>3. QED
  BY <1>1, <1>2 DEF Types

\* The greatest impact comes first, and then the type, the store and the product.
LEMMA ImpactsRank ==
    ASSUME NEW D, NEW row, DueRows(D, row), NEW E \in SUBSET D,
           NEW R, R = RowsIn(row, E), NEW n, NEW T, T = Foremost(n, R),
           NEW ahead, ahead = AheadIn(R)
    PROVE  /\ Ranks(R, ahead)
           /\ \A r, s \in R : r = s \/ r \in ahead[s] \/ s \in ahead[r]
           /\ T = FirstOf(n, R, ahead)
           /\ Cardinality(R) = Cardinality(E)
<1> DEFINE f == [p \in E |-> row[p]]
<1>1. \A p \in E : f[p] = row[p]
  OBVIOUS
<1>2. f = [p \in E |-> f[p]] /\ IsFiniteSet(E)
  BY FS_Subset DEF DueRows
<1>3. R = {f[p] : p \in E}
  BY <1>1 DEF RowsIn
<1>4. \A p, q \in E : f[p] = f[q] => p = q
  BY <1>1 DEF DueRows
<1>5. IsFiniteSet(R) /\ Cardinality(R) = Cardinality(E)
  <2> HIDE DEF f
  <2>1. QED
    BY <1>2, <1>3, <1>4, Images
<1>6. \A r \in R : /\ r.impact \in Int /\ r.store \in Nat /\ r.sku \in Nat
                   /\ r.type \in Types /\ TypeOrder[r.type] \in Nat
  <2>1. \A p \in E : /\ row[p].impact \in Int /\ row[p].store \in Nat /\ row[p].sku \in Nat
                     /\ row[p].type \in Types
    BY DEF DueRows
  <2>2. QED
    BY <2>1, TypesAre DEF RowsIn
<1>7. \A r, s \in R : TypeOrder[r.type] = TypeOrder[s.type] /\ r.store = s.store /\ r.sku = s.sku => r = s
  <2>1. SUFFICES ASSUME NEW p \in E, NEW q \in E, row[p].type = row[q].type,
                        row[p].store = row[q].store, row[p].sku = row[q].sku
                 PROVE  row[p] = row[q]
    BY <1>6, TypesAre DEF RowsIn
  <2>2. p = q
    BY <2>1 DEF DueRows
  <2>3. QED
    BY <2>2
<1>8. \A r \in R : ahead[r] = {s \in R : Impacts(s, r)}
  BY DEF AheadIn
<1>b. \A r \in R : \A s : s \in ahead[r] <=> s \in R /\ Impacts(s, r)
  BY <1>8
<1>a. ASSUME NEW r \in R, NEW s \in R
      PROVE  /\ Impacts(s, r) => s.impact >= r.impact
             /\ ~(Impacts(r, s) /\ Impacts(s, r)) /\ ~Impacts(r, r)
             /\ r # s => Impacts(r, s) \/ Impacts(s, r)
  <2>1. PICK i \in Int, j \in Int, u \in Nat, v \in Nat :
           /\ i = r.impact /\ j = s.impact /\ u = TypeOrder[r.type] /\ v = TypeOrder[s.type]
    BY <1>6
  <2>2. PICK a \in Nat, b \in Nat, c \in Nat, d \in Nat :
           a = r.store /\ b = s.store /\ c = r.sku /\ d = s.sku
    BY <1>6
  <2>3. r.type = s.type <=> u = v
    BY <1>6, <2>1, TypesAre
  <2>4. Impacts(r, s) <=>
           i > j \/ (i = j /\ (u < v \/ (u = v /\ (a < b \/ (a = b /\ c < d)))))
    BY <2>1, <2>2, <2>3 DEF Impacts
  <2>5. Impacts(s, r) <=>
           j > i \/ (j = i /\ (v < u \/ (v = u /\ (b < a \/ (b = a /\ d < c)))))
    BY <2>1, <2>2, <2>3 DEF Impacts
  <2>6. ~Impacts(r, r)
    BY <2>1, <2>2 DEF Impacts
  <2>7. r # s => ~(u = v /\ a = b /\ c = d)
    BY <1>7, <2>1, <2>2
  <2>8. QED
    BY <2>1, <2>4, <2>5, <2>6, <2>7
<1>9. \A r \in R : ahead[r] \in SUBSET R /\ r \notin ahead[r]
  BY <1>a, <1>b
<1>10. \A r \in R : \A s \in ahead[r] : ahead[s] \subseteq ahead[r]
  <2>1. SUFFICES ASSUME NEW r \in R, NEW s \in R, Impacts(s, r), NEW q \in R, Impacts(q, s)
                 PROVE  Impacts(q, r)
    BY <1>b
  <2>2. /\ q.impact \in Int /\ r.impact \in Int /\ s.impact \in Int
        /\ q.store \in Nat /\ r.store \in Nat /\ s.store \in Nat
        /\ q.sku \in Nat /\ r.sku \in Nat /\ s.sku \in Nat
        /\ TypeOrder[q.type] \in Nat /\ TypeOrder[r.type] \in Nat /\ TypeOrder[s.type] \in Nat
    BY <1>6
  <2>3. QED
    BY <2>1, <2>2 DEF Impacts
<1>11. \A r, s \in R : r = s \/ r \in ahead[s] \/ s \in ahead[r]
  BY <1>a, <1>b
<1>12. T = FirstOf(n, R, ahead)
  <2>2. T = {r \in R : Cardinality({s \in R : Impacts(s, r)}) < n}
    BY DEF First, Foremost
  <2>3. QED
    BY <1>8, <2>2 DEF FirstOf
<1>13. QED
  BY <1>5, <1>9, <1>10, <1>11, <1>12 DEF Ranks

\* The rows shown of those asked for: all when there are few, the n greatest when not.
LEMMA ShownAre ==
    ASSUME NEW D, NEW row, DueRows(D, row), NEW E \in SUBSET D, NEW n \in Nat,
           NEW R, R = RowsIn(row, E), NEW T, T = Foremost(n, R)
    PROVE  /\ T \subseteq R
           /\ Cardinality(E) <= n => T = R
           /\ \A a \in T, b \in R : b \notin T => b.impact <= a.impact
           /\ Cardinality(T) = IF Cardinality(E) <= n THEN Cardinality(E) ELSE n
<1>1. PICK ahead : ahead = AheadIn(R)
  OBVIOUS
<1>2. /\ Ranks(R, ahead)
      /\ \A r, s \in R : r = s \/ r \in ahead[s] \/ s \in ahead[r]
      /\ T = FirstOf(n, R, ahead)
      /\ Cardinality(R) = Cardinality(E)
  BY <1>1, ImpactsRank
<1>a. \A r, s \in R : s \in ahead[r] <=> Impacts(s, r)
  BY <1>1 DEF AheadIn
<1>3. T \subseteq R /\ IsFiniteSet(R)
  BY <1>2 DEF FirstOf, Ranks
<1>4. Cardinality(E) <= n => T = R
  BY <1>2, FirstAll
<1>5. Cardinality(T) <= n
  BY <1>2, FirstAreFew
<1>6. Cardinality(T) \in Nat /\ Cardinality(R) \in Nat /\ Cardinality(E) \in Nat
  BY <1>2, <1>3, FS_Subset, FS_CardinalityType
<1>7. Cardinality(R) >= n => Cardinality(T) >= n
  BY <1>2, FirstAreMany
<1>8. Cardinality(T) = IF Cardinality(E) <= n THEN Cardinality(E) ELSE n
  <2>1. CASE Cardinality(E) <= n
    BY <1>2, <1>4, <2>1
  <2>2. CASE ~(Cardinality(E) <= n)
    BY <1>2, <1>5, <1>6, <1>7, <2>2
  <2>3. QED
    BY <2>1, <2>2
<1>c. \A r \in R : r.impact \in Int
  BY DEF DueRows, RowsIn
<1>9. ASSUME NEW a \in T, NEW b \in R, b \notin T
      PROVE  b.impact <= a.impact
  <2>1. ~(b \in ahead[a])
    BY <1>2, <1>9, FirstAhead
  <2>2. a \in R
    BY <1>3
  <2>3. a \in ahead[b]
    BY <1>2, <1>9, <2>1, <2>2
  <2>4. Impacts(a, b)
    BY <1>a, <1>9, <2>2, <2>3
  <2>5. a.impact > b.impact \/ a.impact = b.impact
    BY <2>4 DEF Impacts
  <2>6. QED
    BY <1>c, <2>2, <2>5
<1>10. QED
  BY <1>3, <1>4, <1>8, <1>9

\* The alerts of a tenant, as rows of its stock and their types.
Raised(g, t) == {p \in Current(g, t) \X Types : Raises(CoverOf(g, p[1]), p[2])}
AlertBy(g, t)  == [p \in Raised(g, t) |-> AlertOf(CoverOf(g, p[1]), p[2])]
ActionBy(g, t) ==
    [p \in Raised(g, t) |->
        [AlertBy(g, t)[p] EXCEPT !.impact = @ * Weight(AlertBy(g, t)[p].severity)]]

\* The stock of now has a colour, and is due when it is in trouble.
LEMMA TroubleIs ==
    ASSUME NEW g, FullDb(g), NEW t, NEW s \in Current(g, t), NEW x, x = CoverOf(g, s)
    PROVE  /\ Coloured(x) /\ x.store = s.store /\ x.sku = s.sku /\ x.tenant = t
           /\ x.sold = SoldIn4w(g, s) /\ x.left = s.left
           /\ s \in Due(g, t) <=> Troubled(x)
           /\ s \in Twice(g, t) <=> Doubled(x)
<1>1. StockOk(s) /\ s.tenant = t
  BY CurrentIs
<1>2. SoldIn4w(g, s) \in Nat
  <2> DEFINE L == {r \in Own(g.sales, s.tenant) : r.store = s.store /\ r.sku = s.sku /\ r.week + 4 >= Today}
  <2>1. L \subseteq Own(g.sales, s.tenant)
    OBVIOUS
  <2> HIDE DEF L
  <2>2. Amount(L) \in Nat
    BY <2>1, LinesAreCountable, AmountIsNat
  <2>3. QED
    BY <2>2 DEF SoldIn4w, L
<1>3. /\ x.store = s.store /\ x.sku = s.sku /\ x.tenant = t /\ x.left = s.left
      /\ x.obsolete = s.obsolete /\ x.sold = SoldIn4w(g, s)
  BY <1>1 DEF CoverOf
<1>4. Coloured(x)
  BY <1>1, <1>2, <1>3 DEF Coloured, StockOk
<1>5. (s \in Due(g, t)) <=> Troubled(x)
  BY <1>3 DEF Due, Long, Short, Troubled, Above, Below
<1>6. (s \in Twice(g, t)) <=> Doubled(x)
  BY <1>3 DEF Twice, Short, Doubled, Below
<1>7. QED
  BY <1>3, <1>4, <1>5, <1>6

\* The views are rows of the stock of now and the alerts that they raise.
LEMMA AlertRows ==
    ASSUME NEW g, FullDb(g), NEW t
    PROVE  /\ \A x : x \in Own(CoverageView(g), t) <=> \E s \in Current(g, t) : x = CoverOf(g, s)
           /\ \A x : x \in Own(AlertsView(g), t) <=> \E p \in Raised(g, t) : x = AlertBy(g, t)[p]
           /\ \A x : x \in Own(PriorityView(g), t) <=> \E p \in Raised(g, t) : x = ActionBy(g, t)[p]
<1>1. \A s : s \in Current(g, t) <=> s \in g.stock /\ s.tenant = t /\ s.week = LatestStock(g, t)
  <2>1. \A s \in Own(g.stock, t) : s \in Current(g, t) <=> s.week = LatestStock(g, t)
    BY CurrentIs
  <2>2. QED
    BY <2>1 DEF Current, Own
<1>2. \A x : x \in CoverageView(g) <=>
                \E s \in g.stock : s.week = LatestStock(g, s.tenant) /\ x = CoverOf(g, s)
  BY DEF CoverageView, CoverOf
<1>a. \A s : CoverOf(g, s).tenant = s.tenant
  BY DEF CoverOf
<1>3. \A x : x \in Own(CoverageView(g), t) <=> \E s \in Current(g, t) : x = CoverOf(g, s)
  BY <1>1, <1>2, <1>a DEF Own
<1>4. \A a : a \in AlertsView(g) <=>
                \E type \in Types : \E x \in CoverageView(g) : Raises(x, type) /\ a = AlertOf(x, type)
  BY TypesAre DEF AlertsView
<1>b. \A x, type : AlertOf(x, type).tenant = x.tenant
  BY DEF AlertOf
<1>5. \A a : a \in Own(AlertsView(g), t) <=>
                \E s \in Current(g, t), type \in Types :
                   Raises(CoverOf(g, s), type) /\ a = AlertOf(CoverOf(g, s), type)
  <2>1. \A a : a \in Own(AlertsView(g), t) <=>
                  \E type \in Types : \E x \in Own(CoverageView(g), t) :
                     Raises(x, type) /\ a = AlertOf(x, type)
    BY <1>4, <1>b DEF Own
  <2>2. QED
    BY <1>3, <2>1
<1>6. \A p : p \in Raised(g, t) <=>
                \E s \in Current(g, t), type \in Types : p = <<s, type>> /\ Raises(CoverOf(g, s), type)
  BY DEF Raised
<1>7. \A p \in Raised(g, t) : AlertBy(g, t)[p] = AlertOf(CoverOf(g, p[1]), p[2])
  BY DEF AlertBy
<1>8. \A x : x \in Own(AlertsView(g), t) <=> \E p \in Raised(g, t) : x = AlertBy(g, t)[p]
  <2>1. ASSUME NEW s \in Current(g, t), NEW type \in Types, Raises(CoverOf(g, s), type)
        PROVE  \E p \in Raised(g, t) : AlertOf(CoverOf(g, s), type) = AlertBy(g, t)[p]
    <3>1. <<s, type>> \in Raised(g, t)
      BY <1>6, <2>1
    <3>2. AlertBy(g, t)[<<s, type>>] = AlertOf(CoverOf(g, s), type)
      BY <1>7, <3>1
    <3>3. QED
      BY <3>1, <3>2
  <2>2. ASSUME NEW p \in Raised(g, t)
        PROVE  \E s \in Current(g, t), type \in Types :
                  Raises(CoverOf(g, s), type) /\ AlertBy(g, t)[p] = AlertOf(CoverOf(g, s), type)
    <3>1. PICK s \in Current(g, t), type \in Types : p = <<s, type>> /\ Raises(CoverOf(g, s), type)
      BY <1>6
    <3>2. AlertBy(g, t)[p] = AlertOf(CoverOf(g, s), type)
      BY <1>7, <3>1
    <3>3. QED
      BY <3>1, <3>2
  <2>3. QED
    BY <1>5, <2>1, <2>2
<1>9. \A x : x \in Own(PriorityView(g), t) <=> \E p \in Raised(g, t) : x = ActionBy(g, t)[p]
  <2> DEFINE P(a) == [a EXCEPT !.impact = @ * Weight(a.severity)]
  <2>1. \A x : x \in PriorityView(g) <=> \E a \in AlertsView(g) : x = P(a)
    BY DEF PriorityView
  <2>2. \A p \in Raised(g, t) : ActionBy(g, t)[p] = P(AlertBy(g, t)[p])
    BY DEF ActionBy
  <2>3. \A x, type : P(AlertOf(x, type)).tenant = x.tenant
    BY DEF AlertOf
  <2> HIDE DEF P
  <2>4. \A a \in AlertsView(g) : P(a).tenant = a.tenant
    BY <1>4, <1>b, <2>3
  <2>5. \A x : x \in Own(PriorityView(g), t) <=> \E a \in Own(AlertsView(g), t) : x = P(a)
    BY <2>1, <2>4 DEF Own
  <2>6. QED
    BY <1>8, <2>2, <2>5
<1>10. QED
  BY <1>3, <1>8, <1>9

\* Rows of the alerts of a tenant.
ByAlert(g, t, row) ==
    \A p \in Raised(g, t) :
        /\ row[p].type = p[2] /\ row[p].store = p[1].store /\ row[p].sku = p[1].sku
        /\ row[p].brand = BrandOf(t, p[1].sku)
        /\ row[p].severity = SeverityOf(CoverOf(g, p[1]), p[2])
        /\ row[p].impact \in Int

\* The rows of alerts and of actions are by type, store and product.
LEMMA DueIs ==
    ASSUME NEW g, FullDb(g), NEW t, NEW row, row \in {AlertBy(g, t), ActionBy(g, t)}
    PROVE  DueRows(Raised(g, t), row) /\ ByAlert(g, t, row)
<1>1. IsFiniteSet(Raised(g, t))
  <2>1. IsFiniteSet(Types)
    <3>1. /\ IsFiniteSet({"STOCK_ZERO"}) /\ IsFiniteSet({"OBSOLETE"})
          /\ IsFiniteSet({"OVERSTOCK"}) /\ IsFiniteSet({"UNDERSTOCK"})
      BY FS_Singleton
    <3>2. IsFiniteSet({"STOCK_ZERO"} \cup {"OBSOLETE"}) /\ IsFiniteSet({"OVERSTOCK"} \cup {"UNDERSTOCK"})
      BY <3>1, FS_Union
    <3>3. IsFiniteSet(({"STOCK_ZERO"} \cup {"OBSOLETE"}) \cup ({"OVERSTOCK"} \cup {"UNDERSTOCK"}))
      BY <3>2, FS_Union
    <3>4. Types = ({"STOCK_ZERO"} \cup {"OBSOLETE"}) \cup ({"OVERSTOCK"} \cup {"UNDERSTOCK"})
      BY DEF Types
    <3>5. QED
      BY <3>3, <3>4
  <2>2. IsFiniteSet(Current(g, t) \X Types)
    BY <2>1, CurrentIs, FS_Product
  <2>3. QED
    BY <2>2, FS_Subset DEF Raised
<1>2. \A p \in Raised(g, t) : /\ p[1] \in Current(g, t) /\ p[2] \in Types /\ p = <<p[1], p[2]>>
                             /\ AlertBy(g, t)[p] = AlertOf(CoverOf(g, p[1]), p[2])
  BY DEF Raised, AlertBy
<1>3. \A p \in Raised(g, t) :
         /\ p[1].store \in Nat /\ p[1].sku \in Nat /\ p[1].tenant = t
         /\ ImpactOf(CoverOf(g, p[1]), p[2]) \in Int
         /\ \A v : ImpactOf(CoverOf(g, p[1]), p[2]) * Weight(v) \in Int
  <2>1. SUFFICES ASSUME NEW p \in Raised(g, t)
                 PROVE  /\ p[1].store \in Nat /\ p[1].sku \in Nat /\ p[1].tenant = t
                        /\ ImpactOf(CoverOf(g, p[1]), p[2]) \in Int
                        /\ \A v : ImpactOf(CoverOf(g, p[1]), p[2]) * Weight(v) \in Int
    OBVIOUS
  <2>2. Coloured(CoverOf(g, p[1]))
    BY <1>2, TroubleIs
  <2>3. StockOk(p[1]) /\ p[1].tenant = t
    BY <1>2, CurrentIs
  <2>4. p[1].store \in Nat /\ p[1].sku \in Nat
    BY <2>3, BriefingsAssumption DEF StockOk
  <2>5. QED
    BY <1>2, <2>2, <2>3, <2>4, ImpactsAre
<1>4. ASSUME NEW p \in Raised(g, t)
      PROVE  /\ row[p].type = p[2] /\ row[p].store = p[1].store /\ row[p].sku = p[1].sku
             /\ row[p].brand = BrandOf(t, p[1].sku)
             /\ row[p].severity = SeverityOf(CoverOf(g, p[1]), p[2])
             /\ row[p].impact \in Int
  <2>1. PICK a : a = AlertOf(CoverOf(g, p[1]), p[2])
    OBVIOUS
  <2>2. /\ a.type = p[2] /\ a.store = p[1].store /\ a.sku = p[1].sku
        /\ a.brand = BrandOf(t, p[1].sku)
        /\ a.severity = SeverityOf(CoverOf(g, p[1]), p[2])
        /\ a.impact = ImpactOf(CoverOf(g, p[1]), p[2])
    BY <1>3, <2>1 DEF AlertOf, CoverOf
  <2>3. CASE row = AlertBy(g, t)
    BY <1>2, <1>3, <2>1, <2>2, <2>3
  <2>4. CASE row = ActionBy(g, t)
    <3>1. row[p] = [a EXCEPT !.impact = @ * Weight(a.severity)]
      BY <1>2, <2>1, <2>4 DEF ActionBy
    <3>2. /\ row[p].type = a.type /\ row[p].store = a.store /\ row[p].sku = a.sku
          /\ row[p].brand = a.brand /\ row[p].severity = a.severity
          /\ row[p].impact = a.impact * Weight(a.severity)
      BY <2>1, <3>1 DEF AlertOf
    <3>3. QED
      BY <1>3, <2>2, <3>2
  <2>5. QED
    BY <2>3, <2>4
<1>5. ByAlert(g, t, row)
  BY <1>4 DEF ByAlert
<1>6. ASSUME NEW p \in Raised(g, t), NEW q \in Raised(g, t), row[p].type = row[q].type,
             row[p].store = row[q].store, row[p].sku = row[q].sku
      PROVE  p = q
  <2>1. p[2] = q[2] /\ p[1].store = q[1].store /\ p[1].sku = q[1].sku
    BY <1>4, <1>6
  <2>2. p[1] = q[1]
    BY <1>2, <2>1, CurrentIs
  <2>3. QED
    BY <1>2, <2>1, <2>2
<1>7. \A p \in Raised(g, t) : /\ row[p].type \in Types /\ row[p].store \in Nat /\ row[p].sku \in Nat
                             /\ row[p].impact \in Int
  BY <1>2, <1>3, <1>4
<1>8. DueRows(Raised(g, t), row)
  <2>1. \A p, q \in Raised(g, t) :
           row[p].type = row[q].type /\ row[p].store = row[q].store /\ row[p].sku = row[q].sku => p = q
    BY <1>6
  <2>2. QED
    BY <1>1, <1>7, <2>1 DEF DueRows
<1>9. QED
  BY <1>5, <1>8

\* There is an alert a row that is due, and one more a row that is due twice.
LEMMA AlertsAre ==
    ASSUME NEW g, FullDb(g), NEW t
    PROVE  /\ \A p \in Raised(g, t) : p[1] \in Due(g, t)
           /\ \A s \in Due(g, t) : \E p \in Raised(g, t) : p[1] = s
           /\ Cardinality(Raised(g, t)) = Alerts(g, t)
<1> DEFINE X(s) == CoverOf(g, s)
           f == [s \in Due(g, t) |-> <<s, FirstType(X(s))>>]
           h == [s \in Twice(g, t) |-> <<s, "UNDERSTOCK">>]
           A == {f[s] : s \in Due(g, t)}
           B == {h[s] : s \in Twice(g, t)}
<1>1. Due(g, t) \subseteq Current(g, t) /\ Twice(g, t) \subseteq Current(g, t)
  BY DEF Due, Twice
<1>2. /\ \A s \in Current(g, t) : Coloured(X(s))
      /\ \A s \in Current(g, t) : (s \in Due(g, t)) <=> Troubled(X(s))
      /\ \A s \in Current(g, t) : (s \in Twice(g, t)) <=> Doubled(X(s))
  BY TroubleIs
<1>3. \A s, type : <<s, type>> \in Raised(g, t) <=>
                      s \in Current(g, t) /\ type \in Types /\ Raises(X(s), type)
  BY DEF Raised
<1>4. \A p \in Raised(g, t) : p = <<p[1], p[2]>> /\ p[1] \in Current(g, t) /\ p[2] \in Types
  BY DEF Raised
<1> HIDE DEF X
<1>5. \A s \in Due(g, t) : f[s] = <<s, FirstType(X(s))>> /\ f[s] \in Raised(g, t)
  <2>1. \A s \in Due(g, t) : FirstType(X(s)) \in Types /\ Raises(X(s), FirstType(X(s)))
    BY <1>1, <1>2, RaisesAre
  <2>2. QED
    BY <1>1, <1>3, <2>1
<1>6. \A s \in Twice(g, t) : /\ h[s] = <<s, "UNDERSTOCK">> /\ h[s] \in Raised(g, t)
                            /\ FirstType(X(s)) # "UNDERSTOCK" /\ s \in Due(g, t)
  <2>1. \A s \in Twice(g, t) : /\ Raises(X(s), "UNDERSTOCK") /\ Troubled(X(s))
                              /\ FirstType(X(s)) # "UNDERSTOCK"
    BY <1>1, <1>2, RaisesAre
  <2>2. "UNDERSTOCK" \in Types
    BY DEF Types
  <2>3. QED
    BY <1>1, <1>2, <1>3, <2>1, <2>2
<1>7. \A p \in Raised(g, t) : p[1] \in Due(g, t) /\ p \in A \cup B
  <2>1. SUFFICES ASSUME NEW p \in Raised(g, t)
                 PROVE  p[1] \in Due(g, t) /\ p \in A \cup B
    OBVIOUS
  <2>2. PICK s, type : s = p[1] /\ type = p[2] /\ p = <<s, type>>
    BY <1>4
  <2>3. s \in Current(g, t) /\ type \in Types /\ Raises(X(s), type)
    BY <1>3, <2>2
  <2>4. Coloured(X(s))
    BY <1>2, <2>3
  <2>5. Troubled(X(s))
    BY <2>3, <2>4, RaisesAre
  <2>6. type = FirstType(X(s)) \/ (Doubled(X(s)) /\ type = "UNDERSTOCK")
    BY <2>3, <2>4, RaisesAre
  <2>7. s \in Due(g, t)
    BY <1>2, <2>3, <2>5
  <2>8. CASE type = FirstType(X(s))
    <3>1. p = f[s]
      BY <1>5, <2>2, <2>7, <2>8
    <3>2. QED
      BY <2>2, <2>7, <3>1
  <2>9. CASE Doubled(X(s)) /\ type = "UNDERSTOCK"
    <3>1. s \in Twice(g, t)
      BY <1>2, <2>3, <2>9
    <3>2. p = h[s]
      BY <1>6, <2>2, <2>9, <3>1
    <3>3. QED
      BY <2>2, <2>7, <3>1, <3>2
  <2>10. QED
    BY <2>6, <2>8, <2>9
<1>8. \A s \in Due(g, t) : \E p \in Raised(g, t) : p[1] = s
  BY <1>5
<1>9. IsFiniteSet(Due(g, t)) /\ IsFiniteSet(Twice(g, t))
  BY <1>1, CurrentIs, FS_Subset
<1>10. /\ f = [s \in Due(g, t) |-> f[s]] /\ h = [s \in Twice(g, t) |-> h[s]]
       /\ \A s, o \in Due(g, t) : f[s] = f[o] => s = o
       /\ \A s, o \in Twice(g, t) : h[s] = h[o] => s = o
  OBVIOUS
<1>11. A \cup B = Raised(g, t)
  <2>1. A \subseteq Raised(g, t) /\ B \subseteq Raised(g, t)
    BY <1>5, <1>6
  <2>2. QED
    BY <1>7, <2>1
<1>12. A \cap B = {}
  <2>1. SUFFICES ASSUME NEW s \in Due(g, t), NEW o \in Twice(g, t), f[s] = h[o]
                 PROVE  FALSE
    OBVIOUS
  <2>2. s = o /\ FirstType(X(s)) = "UNDERSTOCK"
    BY <1>5, <1>6, <2>1
  <2>3. QED
    BY <1>6, <2>2
<1> HIDE DEF f, h
<1>13. /\ IsFiniteSet(A) /\ Cardinality(A) = Cardinality(Due(g, t))
       /\ IsFiniteSet(B) /\ Cardinality(B) = Cardinality(Twice(g, t))
  BY <1>9, <1>10, Images
<1> HIDE DEF A, B
<1>14. Cardinality(A \cup B) = Cardinality(A) + Cardinality(B)
  <2>1. Cardinality(A \cup B) = Cardinality(A) + Cardinality(B) - Cardinality(A \cap B)
    BY <1>13, FS_Union
  <2>2. Cardinality(A \cap B) = 0
    BY <1>12, FS_EmptySet
  <2>3. Cardinality(A) \in Nat /\ Cardinality(B) \in Nat
    BY <1>13, FS_CardinalityType
  <2>4. QED
    BY <2>1, <2>2, <2>3
<1>15. QED
  BY <1>7, <1>8, <1>11, <1>13, <1>14 DEF Alerts

\* Those of the severity asked for.
Asked(g, t, severity) ==
    {p \in Raised(g, t) : Is(severity, SeverityOf(CoverOf(g, p[1]), p[2]))}

\* What a list of alerts, or of actions, shows.
LEMMA ListedAre ==
    ASSUME NEW g, FullDb(g), NEW t, NEW severity, NEW n \in Nat
    PROVE  /\ ActiveAlerts(g, t, None, severity, n) =
                 Foremost(n, RowsIn(AlertBy(g, t), Asked(g, t, severity)))
           /\ ActionRecommendations(g, t, None, severity, n) =
                 Foremost(n, RowsIn(ActionBy(g, t), Asked(g, t, severity)))
<1> DEFINE A == {a \in Own(AlertsView(g), t) : Is(None, "SKU") /\ Is(severity, a.severity)}
           B == {a \in Own(PriorityView(g), t) : Is(None, "SKU") /\ Is(severity, a.severity)}
           R == RowsIn(AlertBy(g, t), Asked(g, t, severity))
           Q == RowsIn(ActionBy(g, t), Asked(g, t, severity))
<1>1. Is(None, "SKU")
  BY DEF Is
<1>2. ByAlert(g, t, AlertBy(g, t)) /\ ByAlert(g, t, ActionBy(g, t))
  BY DueIs
<1>3. \A p : p \in Asked(g, t, severity) <=>
                p \in Raised(g, t) /\ Is(severity, SeverityOf(CoverOf(g, p[1]), p[2]))
  BY DEF Asked
<1>4. \A row : ByAlert(g, t, row) =>
         \A x : x \in RowsIn(row, Asked(g, t, severity)) <=>
                   \E p \in Raised(g, t) : Is(severity, row[p].severity) /\ x = row[p]
  BY <1>3 DEF RowsIn, ByAlert
<1>5. A = R
  <2>1. \A x : x \in A <=> x \in Own(AlertsView(g), t) /\ Is(severity, x.severity)
    BY <1>1
  <2>2. \A x : x \in R <=> \E p \in Raised(g, t) :
                              Is(severity, AlertBy(g, t)[p].severity) /\ x = AlertBy(g, t)[p]
    BY <1>2, <1>4
  <2> HIDE DEF A, R
  <2>3. \A x : x \in A <=> x \in R
    BY <2>1, <2>2, AlertRows
  <2>4. QED
    BY <2>3
<1>6. B = Q
  <2>1. \A x : x \in B <=> x \in Own(PriorityView(g), t) /\ Is(severity, x.severity)
    BY <1>1
  <2>2. \A x : x \in Q <=> \E p \in Raised(g, t) :
                              Is(severity, ActionBy(g, t)[p].severity) /\ x = ActionBy(g, t)[p]
    BY <1>2, <1>4
  <2> HIDE DEF B, Q
  <2>3. \A x : x \in B <=> x \in Q
    BY <2>1, <2>2, AlertRows
  <2>4. QED
    BY <2>3
<1>7. ActiveAlerts(g, t, None, severity, n) = First(n, A, Impacts)
  BY DEF ActiveAlerts
<1>8. ActionRecommendations(g, t, None, severity, n) = First(n, B, Impacts)
  BY DEF ActionRecommendations
<1>9. QED
  BY <1>5, <1>6, <1>7, <1>8 DEF Foremost

\* The rows of a list that a tool shows are those its request concerns.
Showing(r, T, rows) == \A a : a \in rows <=> a \in T /\ Concerns(r, a)

\* The keys of two lists.
LEMMA KeysAre ==
    ASSUME NEW A, NEW B
    PROVE  /\ (\A a \in A : \E b \in B : a.store = b.store /\ a.sku = b.sku) => Keys(A) \subseteq Keys(B)
           /\ \A a \in A : Keys({a}) \cap Keys(A) # {}
           /\ \A a, b : a.store = b.store /\ a.sku = b.sku => Keys({a}) = Keys({b})
<1>1. ASSUME \A a \in A : \E b \in B : a.store = b.store /\ a.sku = b.sku
      PROVE  Keys(A) \subseteq Keys(B)
  <2>1. SUFFICES ASSUME NEW a \in A
                 PROVE  [store |-> a.store, sku |-> a.sku] \in Keys(B)
    BY DEF Keys
  <2>2. PICK b \in B : a.store = b.store /\ a.sku = b.sku
    BY <1>1
  <2>3. QED
    BY <2>2 DEF Keys
<1>2. \A a \in A : Keys({a}) \cap Keys(A) # {}
  BY DEF Keys
<1>3. \A a, b : a.store = b.store /\ a.sku = b.sku => Keys({a}) = Keys({b})
  BY DEF Keys
<1>4. QED
  BY <1>1, <1>2, <1>3

\* Shown rows were due, and none of a greater impact is missing.
LEMMA RowsWereTrue ==
    ASSUME NEW g, FullDb(g), NEW r, NEW n \in Nat,
           NEW row, row \in {AlertBy(g, r.tenant), ActionBy(g, r.tenant)},
           NEW T, T = Foremost(n, RowsIn(row, Asked(g, r.tenant, r.severity))),
           NEW rows, Showing(r, T, rows),
           NEW all, \A x : x \in Own(all, r.tenant) <=> \E p \in Raised(g, r.tenant) : x = row[p]
    PROVE  AreDue(g, r, rows, n) /\ AreGreatest(r, all, rows)
<1>1. PICK D, E, R : /\ D = Raised(g, r.tenant) /\ E = Asked(g, r.tenant, r.severity)
                     /\ R = RowsIn(row, E)
  OBVIOUS
<1>2. DueRows(D, row) /\ T = Foremost(n, R) /\ ByAlert(g, r.tenant, row)
  BY <1>1, DueIs
<1>3. /\ E \in SUBSET D
      /\ \A p \in D : p \in E <=> Is(r.severity, row[p].severity)
  BY <1>1, <1>2 DEF Asked, ByAlert
<1>4. /\ T \subseteq R
      /\ Cardinality(E) <= n => T = R
      /\ \A a \in T, b \in R : b \notin T => b.impact <= a.impact
  BY <1>1, <1>2, <1>3, ShownAre
<1>5. \A p \in D : row[p].store = p[1].store /\ row[p].sku = p[1].sku
  BY <1>1, <1>2 DEF ByAlert
<1>6. \A x : x \in R <=> \E p \in E : x = row[p]
  BY <1>1 DEF RowsIn
<1>7. \A p \in D : Concerns(r, row[p]) <=> Concerns(r, p[1])
  BY <1>5 DEF Concerns
<1>8. \A a \in rows : \E p \in E : a = row[p] /\ Concerns(r, p[1])
  BY <1>3, <1>4, <1>6, <1>7 DEF Showing
<1>9. AreDue(g, r, rows, n)
  <2> DEFINE mine == {s \in Due(g, r.tenant) : Concerns(r, s)}
  <2>1. \A s : s \in mine <=> s \in Due(g, r.tenant) /\ Concerns(r, s)
    OBVIOUS
  <2> HIDE DEF mine
  <2>2. \A p \in D : p[1] \in Due(g, r.tenant)
    BY <1>1, AlertsAre
  <2>3. \A a \in rows : \E s \in mine : a.store = s.store /\ a.sku = s.sku
    BY <1>3, <1>5, <1>8, <2>1, <2>2
  <2>4. Keys(rows) \subseteq Keys(mine)
    BY <2>3, KeysAre
  <2>5. ASSUME NEW a \in rows
        PROVE  /\ Is(r.severity, a.severity)
               /\ a.severity = "HIGH" => \E s \in mine : Keys({s}) = Keys({a}) /\ SoldIn4w(g, s) > 0
    <3>1. PICK p \in E : a = row[p] /\ Concerns(r, p[1])
      BY <1>8
    <3>2. p \in D /\ p[1] \in mine /\ a.store = p[1].store /\ a.sku = p[1].sku
      BY <1>3, <1>5, <2>1, <2>2, <3>1
    <3>3. Keys({p[1]}) = Keys({a})
      BY <3>2, KeysAre
    <3>4. Is(r.severity, a.severity)
      BY <1>3, <3>1, <3>2
    <3>5. ASSUME a.severity = "HIGH"
          PROVE  SoldIn4w(g, p[1]) > 0
      <4>1. SeverityOf(CoverOf(g, p[1]), p[2]) = "HIGH"
        BY <1>1, <1>2, <3>1, <3>2, <3>5 DEF ByAlert
      <4>2. p[1] \in Current(g, r.tenant) /\ p[2] \in Types /\ Raises(CoverOf(g, p[1]), p[2])
        BY <1>1, <3>2 DEF Raised
      <4>3. Coloured(CoverOf(g, p[1])) /\ CoverOf(g, p[1]).sold = SoldIn4w(g, p[1])
        BY <4>2, TroubleIs
      <4>4. CoverOf(g, p[1]).sold > 0
        BY <4>1, <4>2, <4>3, RaisesAre
      <4>5. QED
        BY <4>3, <4>4
    <3>6. QED
      BY <3>2, <3>3, <3>4, <3>5
  <2>6. ASSUME r.severity = None, Alerts(g, r.tenant) <= n
        PROVE  Keys(mine) \subseteq Keys(rows)
    <3>1. E = D
      BY <1>3, <2>6 DEF Is
    <3>2. T = R
      BY <1>1, <1>4, <2>6, <3>1, AlertsAre
    <3>3. ASSUME NEW s \in mine
          PROVE  \E a \in rows : s.store = a.store /\ s.sku = a.sku
      <4>1. PICK p \in D : p[1] = s
        BY <1>1, <2>1, AlertsAre
      <4>2. row[p] \in T /\ Concerns(r, row[p])
        BY <1>6, <1>7, <2>1, <3>1, <3>2, <4>1
      <4>3. row[p] \in rows
        BY <4>2 DEF Showing
      <4>4. QED
        BY <1>5, <4>1, <4>3
    <3>4. QED
      BY <3>3, KeysAre
  <2>7. AreDue(g, r, rows, n) <=>
           /\ Keys(rows) \subseteq Keys(mine)
           /\ \A a \in rows :
                 /\ Is(r.severity, a.severity)
                 /\ a.severity = "HIGH" => \E s \in mine : Keys({s}) = Keys({a}) /\ SoldIn4w(g, s) > 0
           /\ r.severity = None /\ Alerts(g, r.tenant) <= n => Keys(mine) = Keys(rows)
    BY DEF AreDue, mine
  <2>8. QED
    BY <2>4, <2>5, <2>6, <2>7
<1>10. AreGreatest(r, all, rows)
  <2>1. SUFFICES ASSUME NEW b \in Own(all, r.tenant) \ rows, NEW a \in rows,
                        Concerns(r, b), Is(r.severity, b.severity)
                 PROVE  b.impact <= a.impact
    BY DEF AreGreatest
  <2>2. PICK p \in D : b = row[p]
    BY <1>1
  <2>3. b \in R
    BY <1>3, <1>6, <2>1, <2>2
  <2>4. b \notin T /\ a \in T
    BY <2>1 DEF Showing
  <2>5. QED
    BY <1>4, <2>3, <2>4
<1>11. QED
  BY <1>9, <1>10

\* So it is of a list of alerts.
LEMMA AlertsWereTrue ==
    ASSUME NEW g, FullDb(g), NEW r, NEW n \in Nat,
           NEW T, T = ActiveAlerts(g, r.tenant, None, r.severity, n),
           NEW rows, Showing(r, T, rows)
    PROVE  AreDue(g, r, rows, n) /\ AreGreatest(r, AlertsView(g), rows)
<1>1. T = Foremost(n, RowsIn(AlertBy(g, r.tenant), Asked(g, r.tenant, r.severity)))
  BY ListedAre
<1>2. \A x : x \in Own(AlertsView(g), r.tenant) <=>
                \E p \in Raised(g, r.tenant) : x = AlertBy(g, r.tenant)[p]
  BY AlertRows
<1>3. QED
  BY <1>1, <1>2, RowsWereTrue

\* And of a list of actions.
LEMMA ActionsWereTrue ==
    ASSUME NEW g, FullDb(g), NEW r, NEW n \in Nat,
           NEW T, T = ActionRecommendations(g, r.tenant, None, r.severity, n),
           NEW rows, Showing(r, T, rows)
    PROVE  AreDue(g, r, rows, n) /\ AreGreatest(r, PriorityView(g), rows)
<1>1. T = Foremost(n, RowsIn(ActionBy(g, r.tenant), Asked(g, r.tenant, r.severity)))
  BY ListedAre
<1>2. \A x : x \in Own(PriorityView(g), r.tenant) <=>
                \E p \in Raised(g, r.tenant) : x = ActionBy(g, r.tenant)[p]
  BY AlertRows
<1>3. QED
  BY <1>1, <1>2, RowsWereTrue

\* A count of alerts is exact up to its limit.
LEMMA CountWasTrue ==
    ASSUME NEW g, FullDb(g), NEW t, NEW n \in Nat,
           NEW T, T = ActiveAlerts(g, t, None, None, n)
    PROVE  Cardinality(T) = IF Alerts(g, t) <= n THEN Alerts(g, t) ELSE n
<1>1. PICK D, E, row, R : /\ D = Raised(g, t) /\ E = Asked(g, t, None)
                          /\ row = AlertBy(g, t) /\ R = RowsIn(row, E)
  OBVIOUS
<1>2. DueRows(D, row) /\ T = Foremost(n, R)
  <2>1. DueRows(D, row)
    BY <1>1, DueIs
  <2>2. T = Foremost(n, R)
    BY <1>1, ListedAre
  <2>3. QED
    BY <2>1, <2>2
<1>3. E = D
  BY <1>1 DEF Asked, Is
<1>4. Cardinality(T) = IF Cardinality(E) <= n THEN Cardinality(E) ELSE n
  BY <1>1, <1>2, <1>3, ShownAre
<1>5. Cardinality(E) = Alerts(g, t)
  BY <1>1, <1>3, AlertsAre
<1>6. QED
  BY <1>4, <1>5

-----------------------------------------------------------------------------
(* The lists of products.                                                  *)

\* What the coverage list shows is the stock of now, of those asked for.
LEMMA CoverageIs ==
    ASSUME NEW g, FullDb(g), NEW t, NEW brand, NEW store, NEW status, NEW sku, NEW n,
           NEW x \in CoverageStatus(g, t, brand, store, status, sku, n)
    PROVE  /\ Is(store, x.store) /\ Is(status, StatusColor(x)) /\ Is(sku, x.sku)
           /\ Is(brand, BrandOf(t, x.sku))
           /\ \E s \in Current(g, t) :
                 /\ s.store = x.store /\ s.sku = x.sku /\ s.left = x.left
                 /\ StatusColor(x) \in {"RED", "YELLOW"} <=> s \in Due(g, t)
<1>1. /\ x \in Own(CoverageView(g), t) /\ Is(brand, x.brand)
      /\ Is(store, x.store) /\ Is(status, StatusColor(x)) /\ Is(sku, x.sku)
  BY DEF CoverageStatus, First
<1>2. PICK s \in Current(g, t) : x = CoverOf(g, s)
  BY <1>1, AlertRows
<1>3. Coloured(x) /\ s.store = x.store /\ s.sku = x.sku /\ s.left = x.left /\ x.tenant = t
  BY <1>2, TroubleIs
<1>4. StatusColor(x) \in {"RED", "YELLOW"} <=> s \in Due(g, t)
  <2>1. s \in Due(g, t) <=> Troubled(x)
    BY <1>2, TroubleIs
  <2>2. StatusColor(x) \in {"RED", "YELLOW"} <=> Troubled(x)
    BY <1>3, RaisesAre
  <2>3. QED
    BY <2>1, <2>2
<1>5. x.brand = BrandOf(t, x.sku)
  <2>1. x.brand = BrandOf(s.tenant, s.sku) /\ x.sku = s.sku /\ x.tenant = s.tenant
    BY <1>2 DEF CoverOf
  <2>2. QED
    BY <1>3, <2>1
<1>6. QED
  BY <1>1, <1>3, <1>4, <1>5

\* The critical ones are due, in the store asked for.
LEMMA CriticalAre ==
    ASSUME NEW g, FullDb(g), NEW t, NEW brand, NEW store, NEW status, NEW sku, NEW n,
           NEW T, T = CoverageStatus(g, t, brand, store, status, sku, n),
           NEW rows, \A x \in rows : x \in T /\ StatusColor(x) \in {"RED", "YELLOW"}
    PROVE  Keys(rows) \subseteq Keys({s \in Due(g, t) : Is(store, s.store)})
<1> DEFINE mine == {s \in Due(g, t) : Is(store, s.store)}
<1>1. \A x \in rows : \E s \in mine : x.store = s.store /\ x.sku = s.sku
  <2>1. SUFFICES ASSUME NEW x \in rows
                 PROVE  \E s \in mine : x.store = s.store /\ x.sku = s.sku
    OBVIOUS
  <2>2. PICK s \in Current(g, t) :
           /\ s.store = x.store /\ s.sku = x.sku
           /\ StatusColor(x) \in {"RED", "YELLOW"} <=> s \in Due(g, t)
    BY CoverageIs
  <2>3. Is(store, x.store)
    BY CoverageIs
  <2>4. s \in mine
    BY <2>2, <2>3
  <2>5. QED
    BY <2>2, <2>4
<1>2. QED
  BY <1>1, KeysAre

\* The stock of a product is its stock of now.
LEMMA StockIs ==
    ASSUME NEW g, FullDb(g), NEW t, NEW sku, NEW store
    PROVE  SkuStock(g, t, sku, store) = {s \in Current(g, t) : s.sku = sku /\ Is(store, s.store)}
<1>1. \A s \in Own(g.stock, t) : s \in Current(g, t) <=> s.week = LatestStock(g, t)
  BY CurrentIs
<1>2. Current(g, t) \subseteq Own(g.stock, t)
  BY DEF Current
<1>3. QED
  BY <1>1, <1>2 DEF SkuStock

\* The sales of a product in a week are of its lines of that week.
LEMMA SkuSalesAre ==
    ASSUME NEW g, NEW t, NEW sku, NEW store, NEW x \in SkuSales(g, t, sku, store)
    PROVE  x.n = Amount({s \in Own(g.sales, t) : s.week = x.week /\ s.sku = sku /\ Is(store, s.store)})
<1> DEFINE rows == {r \in Own(g.sales, t) : r.sku = sku /\ Is(store, r.store)}
           Sum(w) == Amount({r \in rows : r.week = w})
<1>1. \E w : x = [week |-> w, n |-> Sum(w)]
  BY DEF SkuSales
<1>2. x.n = Sum(x.week)
  <2> HIDE DEF Sum
  <2>1. QED
    BY <1>1
<1>3. {r \in rows : r.week = x.week} =
         {s \in Own(g.sales, t) : s.week = x.week /\ s.sku = sku /\ Is(store, s.store)}
  OBVIOUS
<1>4. QED
  BY <1>2, <1>3

-----------------------------------------------------------------------------
(* What moves.                                                             *)

\* The lines of a product in the last eight weeks.
Moved(g, t, k) == {s \in Own(g.sales, t) : s.sku = k /\ s.week + 8 >= Today}

\* The products in the view.
Moves(d) == d.active /\ ~d.service

\* The view has a row for every active product that is no service.
VelocityBy(g, t, f) ==
    /\ \A x : x \in Own(VelocityView(g), t) <=> \E d \in Own(DimSku, t) : Moves(d) /\ x = f[d]
    /\ \A d \in Own(DimSku, t) : Moves(d) =>
          f[d].id = d.sku /\ f[d].brand = d.brand /\ f[d].n = Amount(Moved(g, t, d.sku))

\* The view of how products sell is a row each such product.
LEMMA VelocityIs ==
    ASSUME NEW g, NEW t
    PROVE  \E f : VelocityBy(g, t, f)
<1> DEFINE active == {d \in DimSku : d.active /\ ~d.service}
           units(d) == Amount({r \in Own(g.sales, d.tenant) : r.sku = d.sku /\ r.week + 8 >= Today})
           rank(d) == 1 + Cardinality({o \in Own(active, d.tenant) :
                             units(o) > units(d) \/ (units(o) = units(d) /\ o.sku < d.sku)})
           seg(d) == Ntile(rank(d), Cardinality(Own(active, d.tenant)))
           V(d) == [tenant |-> d.tenant, id |-> d.sku, brand |-> d.brand, n |-> units(d), segment |-> seg(d)]
           f == [d \in Own(DimSku, t) |-> V(d)]
<1>1. VelocityView(g) = {V(d) : d \in active}
  BY DEF VelocityView
<1>2. \A d : d.tenant = t => units(d) = Amount(Moved(g, t, d.sku))
  BY DEF Moved
<1> HIDE DEF units, seg
<1>3. \A d : /\ V(d).tenant = d.tenant /\ V(d).id = d.sku /\ V(d).brand = d.brand
             /\ V(d).n = units(d)
  OBVIOUS
<1>4. \A d \in Own(DimSku, t) : f[d] = V(d) /\ d.tenant = t
  BY DEF Own
<1> HIDE DEF V, f
<1>5. \A x : x \in VelocityView(g) <=> \E d \in DimSku : Moves(d) /\ x = V(d)
  BY <1>1 DEF Moves
<1>6. \A x : x \in Own(VelocityView(g), t) <=> \E d \in Own(DimSku, t) : Moves(d) /\ x = f[d]
  BY <1>3, <1>4, <1>5 DEF Own
<1>7. \A d \in Own(DimSku, t) : Moves(d) =>
         f[d].id = d.sku /\ f[d].brand = d.brand /\ f[d].n = Amount(Moved(g, t, d.sku))
  BY <1>2, <1>3, <1>4
<1>8. QED
  BY <1>6, <1>7 DEF VelocityBy

\* A row of a list of products shows what the product sold in eight weeks.
LEMMA MovingIs ==
    ASSUME NEW g, NEW t, NEW segment, NEW brand, NEW n,
           NEW x \in VelocitySegmentation(g, t, segment, brand, n)
    PROVE  x.n = Amount({s \in Own(g.sales, t) : s.sku = x.id /\ s.week + 8 >= Today})
<1>1. x \in Own(VelocityView(g), t)
  BY DEF VelocitySegmentation, First
<1>2. PICK f : VelocityBy(g, t, f)
  BY VelocityIs
<1>3. PICK d \in Own(DimSku, t) : Moves(d) /\ x = f[d]
  BY <1>1, <1>2 DEF VelocityBy
<1>4. x.id = d.sku /\ x.n = Amount(Moved(g, t, d.sku))
  BY <1>2, <1>3 DEF VelocityBy
<1>5. x.n = Amount(Moved(g, t, x.id))
  BY <1>4
<1>6. QED
  BY <1>5 DEF Moved

BestSellers(n, R) == First(n, R, Sells)

\* A list that is not longer than its limit is shown to the end.
LEMMA AllSellers ==
    ASSUME NEW R, IsFiniteSet(R), \A r \in R : r.n \in Nat, NEW n \in Nat, Cardinality(R) <= n,
           \A r \in R : r.id \in Nat
    PROVE  BestSellers(n, R) = R
<1>1. ASSUME NEW r \in R
      PROVE  Cardinality({s \in R : Sells(s, r)}) < n
  <2>1. ~Sells(r, r)
    BY DEF Sells
  <2>2. PICK A : A = {s \in R : Sells(s, r)}
    OBVIOUS
  <2>3. A \subseteq R /\ A # R
    BY <2>1, <2>2
  <2>4. Cardinality(A) <= Cardinality(R) /\ (Cardinality(A) = Cardinality(R) => A = R)
    BY <2>3, FS_Subset
  <2>5. Cardinality(A) \in Nat /\ Cardinality(R) \in Nat
    BY <2>3, FS_Subset, FS_CardinalityType
  <2>6. QED
    BY <2>2, <2>3, <2>4, <2>5
<1>2. BestSellers(n, R) = {r \in R : Cardinality({s \in R : Sells(s, r)}) < n}
  BY DEF BestSellers, First
<1>3. QED
  BY <1>1, <1>2

\* The products of a brand, and their rows.
ProductsOf(t, brand) == {d \in Own(DimSku, t) : d.brand = brand /\ Moves(d)}

\* A query for all the products of a brand that move has each of them once.
LEMMA SellersAre ==
    ASSUME NEW g, FullDb(g), NEW t, NEW brand, brand # None,
           NEW n \in Nat, Cardinality(ProductsOf(t, brand)) <= n,
           NEW T, T = VelocitySegmentation(g, t, None, brand, n)
    PROVE  /\ IsFiniteSet(T)
           /\ \A x \in T : /\ \E d \in ProductsOf(t, brand) : d.sku = x.id
                           /\ x.n = Amount(Moved(g, t, x.id)) /\ x.n \in Nat
           /\ \A d \in ProductsOf(t, brand) : \E x \in T : x.id = d.sku
           /\ \A x, y \in T : x.id = y.id => x = y
<1> DEFINE P == ProductsOf(t, brand)
           R == {x \in Own(VelocityView(g), t) : Is(None, x.segment) /\ Is(brand, x.brand)}
<1>1. PICK f : VelocityBy(g, t, f)
  BY VelocityIs
<1>2. /\ IsFiniteSet(P)
      /\ \A d \in P : d \in Own(DimSku, t) /\ Moves(d) /\ d.brand = brand /\ d.sku \in Nat
      /\ \A d, e \in P : d.sku = e.sku => d = e
  <2>1. P \subseteq DimSku /\ \A d \in P : d \in Own(DimSku, t) /\ Moves(d) /\ d.brand = brand /\ d.tenant = t
    BY DEF ProductsOf, Own
  <2>2. IsFiniteSet(P)
    BY <2>1, DimensionsAssumption, FS_Subset
  <2>3. QED
    BY <2>1, <2>2, DimensionsAssumption
<1>3. \A d \in P : f[d].id = d.sku /\ f[d].brand = brand /\ f[d].n = Amount(Moved(g, t, d.sku))
  BY <1>1, <1>2 DEF VelocityBy
<1>4. \A x : x \in R <=> \E d \in P : x = f[d]
  <2>1. \A x : x \in Own(VelocityView(g), t) <=> \E d \in Own(DimSku, t) : Moves(d) /\ x = f[d]
    BY <1>1 DEF VelocityBy
  <2>2. \A d \in Own(DimSku, t) : Moves(d) => f[d].brand = d.brand
    BY <1>1 DEF VelocityBy
  <2>3. \A d : d \in P <=> d \in Own(DimSku, t) /\ Moves(d) /\ d.brand = brand
    BY DEF ProductsOf
  <2>4. \A x : x \in R <=> x \in Own(VelocityView(g), t) /\ x.brand = brand
    BY DEF Is
  <2> HIDE DEF P, R
  <2>5. QED
    BY <2>1, <2>2, <2>3, <2>4
<1> HIDE DEF P
<1>5. IsFiniteSet(R) /\ Cardinality(R) <= Cardinality(P)
  <2> DEFINE h == [d \in P |-> f[d]]
  <2>1. h = [d \in P |-> h[d]] /\ \A d \in P : h[d] = f[d]
    OBVIOUS
  <2> HIDE DEF h, R
  <2>2. R = {h[d] : d \in P}
    BY <1>4, <2>1
  <2>3. QED
    BY <1>2, <2>1, <2>2, Images
<1>6. \A x \in R : /\ \E d \in P : d.sku = x.id
                   /\ x.n = Amount(Moved(g, t, x.id)) /\ x.n \in Nat /\ x.id \in Nat
  <2>1. SUFFICES ASSUME NEW x \in R
                 PROVE  /\ \E d \in P : d.sku = x.id
                        /\ x.n = Amount(Moved(g, t, x.id)) /\ x.n \in Nat /\ x.id \in Nat
    OBVIOUS
  <2>2. PICK d \in P : x = f[d]
    BY <1>4
  <2>3. x.id = d.sku /\ x.n = Amount(Moved(g, t, d.sku))
    BY <1>3, <2>2
  <2>4. Moved(g, t, d.sku) \subseteq Own(g.sales, t)
    BY DEF Moved
  <2>5. Amount(Moved(g, t, d.sku)) \in Nat
    BY <2>4, LinesAreCountable, AmountIsNat
  <2>6. QED
    BY <1>2, <2>3, <2>5
<1>7. T = R
  <2>1. T = BestSellers(n, R)
    BY DEF VelocitySegmentation, BestSellers
  <2>2. Cardinality(R) \in Nat /\ Cardinality(P) \in Nat /\ Cardinality(P) <= n
    BY <1>2, <1>5, FS_CardinalityType DEF P
  <2>3. Cardinality(R) <= n
    BY <1>5, <2>2
  <2> HIDE DEF R
  <2>4. QED
    BY <1>5, <1>6, <2>1, <2>3, AllSellers
<1>8. \A d \in P : \E x \in R : x.id = d.sku
  BY <1>3, <1>4
<1>9. \A x, y \in R : x.id = y.id => x = y
  BY <1>2, <1>3, <1>4
<1> HIDE DEF R
<1>10. QED
  BY <1>5, <1>6, <1>7, <1>8, <1>9 DEF P

\* The segments of a list.
SegmentsOf(T) ==
    {[segment |-> x.segment, skus |-> Cardinality({m \in T : m.segment = x.segment}),
      n |-> Amount({m \in T : m.segment = x.segment})] : x \in T}

\* They add up to the list.
LEMMA SegmentsAddUp ==
    ASSUME NEW T, Countable(T)
    PROVE  Amount(SegmentsOf(T)) = Amount(T)
<1> DEFINE Of(v) == {m \in T : m.segment = v}
           Seg(v) == [segment |-> v, skus |-> Cardinality(Of(v)), n |-> Amount(Of(v))]
<1>1. SegmentsOf(T) = {Seg(x.segment) : x \in T}
  BY DEF SegmentsOf
<1>2. \A v : Seg(v).segment = v /\ Seg(v).n = Amount(Of(v))
  OBVIOUS
<1>3. \A v, m : m \in Of(v) <=> m \in T /\ m.segment = v
  OBVIOUS
<1> HIDE DEF Of, Seg
<1>4. PICK K : K = SegmentsOf(T)
  OBVIOUS
<1>5. \A k : k \in K <=> \E x \in T : k = Seg(x.segment)
  BY <1>1, <1>4
<1>6. IsFiniteSet(K)
  <2> DEFINE h == [x \in T |-> Seg(x.segment)]
  <2>1. h = [x \in T |-> h[x]] /\ \A x \in T : h[x] = Seg(x.segment)
    OBVIOUS
  <2> HIDE DEF h
  <2>2. K = {h[x] : x \in T}
    BY <1>5, <2>1
  <2>3. QED
    BY <2>1, <2>2, Images DEF Countable
<1>7. PICK part : part = [k \in K |-> Of(k.segment)]
  OBVIOUS
<1>8. \A k \in K : part[k] \in SUBSET T /\ k.n = Amount(part[k]) /\ k = Seg(k.segment)
  BY <1>2, <1>3, <1>5, <1>7
<1>9. \A k, l \in K : k # l => part[k] \cap part[l] = {}
  BY <1>3, <1>7, <1>8
<1>10. Amount(K) = Amount(UNION {part[k] : k \in K})
  BY <1>6, <1>8, <1>9, RowsAddUp
<1>11. UNION {part[k] : k \in K} = T
  <2>1. \A m \in T : \E k \in K : m \in part[k]
    BY <1>2, <1>3, <1>5, <1>7
  <2>2. QED
    BY <1>8, <2>1
<1>12. QED
  BY <1>4, <1>10, <1>11

\* A review of a brand shows what its products sold in eight weeks.
LEMMA SegmentsWereTrue ==
    ASSUME NEW g, FullDb(g), NEW t, NEW brand, brand # None,
           NEW n \in Nat, Cardinality(ProductsOf(t, brand)) <= n,
           NEW T, T = VelocitySegmentation(g, t, None, brand, n)
    PROVE  Amount(SegmentsOf(T)) =
              Amount({s \in Own(g.sales, t) :
                         (\E d \in ProductsOf(t, brand) : d.sku = s.sku) /\ s.week + 8 >= Today})
<1> DEFINE L == {s \in Own(g.sales, t) :
                    (\E d \in ProductsOf(t, brand) : d.sku = s.sku) /\ s.week + 8 >= Today}
<1>1. /\ IsFiniteSet(T)
      /\ \A x \in T : /\ \E d \in ProductsOf(t, brand) : d.sku = x.id
                      /\ x.n = Amount(Moved(g, t, x.id)) /\ x.n \in Nat
      /\ \A d \in ProductsOf(t, brand) : \E x \in T : x.id = d.sku
      /\ \A x, y \in T : x.id = y.id => x = y
  BY SellersAre
<1>2. PICK part : part = [x \in T |-> Moved(g, t, x.id)]
  OBVIOUS
<1>3. \A k, s : s \in Moved(g, t, k) <=> s \in Own(g.sales, t) /\ s.sku = k /\ s.week + 8 >= Today
  BY DEF Moved
<1>4. \A s : s \in L <=> /\ s \in Own(g.sales, t) /\ s.week + 8 >= Today
                         /\ \E d \in ProductsOf(t, brand) : d.sku = s.sku
  OBVIOUS
<1> HIDE DEF L
<1>5. PICK S : S = Own(g.sales, t)
  OBVIOUS
<1>6. Countable(S)
  BY <1>5, LinesAreCountable
<1>7. \A x \in T : part[x] \in SUBSET S /\ x.n = Amount(part[x])
  BY <1>1, <1>2, <1>3, <1>5
<1>8. \A x, y \in T : x # y => part[x] \cap part[y] = {}
  BY <1>1, <1>2, <1>3
<1>9. Amount(T) = Amount(UNION {part[x] : x \in T})
  <2>1. IsFiniteSet(T)
    BY <1>1
  <2>2. \A x \in T : part[x] \in SUBSET S
    BY <1>7
  <2>3. \A x \in T : x.n = Amount(part[x])
    BY <1>7
  <2>4. QED
    BY <1>6, <1>8, <2>1, <2>2, <2>3, RowsAddUp
<1>10. UNION {part[x] : x \in T} = L
  <2>1. \A s : s \in L <=> \E x \in T : s \in part[x]
    BY <1>1, <1>2, <1>3, <1>4
  <2>2. QED
    BY <2>1
<1>11. Amount(SegmentsOf(T)) = Amount(T)
  BY <1>1, SegmentsAddUp DEF Countable
<1>12. QED
  BY <1>9, <1>10, <1>11 DEF L

-----------------------------------------------------------------------------
(* The figures.                                                            *)

\* What was sold in a week or a month, and planned.
LEMMA SoldIs ==
    ASSUME NEW g, FullDb(g), NEW t
    PROVE  /\ \A w \in Weeks : \A b, s : Sold(g, t, w, b, s) =
                 Amount({l \in WeekLines(g, t, w) : Is(b, l.brand) /\ Is(s, l.store)})
           /\ \A m \in Nat : \A b, s : m >= 100000 =>
                 Sold(g, t, m, b, s) = Amount(MonthLines(g, t, m, b, s))
<1>1. ASSUME NEW w \in Weeks, NEW b, NEW s
      PROVE  Sold(g, t, w, b, s) =
                Amount({l \in WeekLines(g, t, w) : Is(b, l.brand) /\ Is(s, l.store)})
  <2>1. \A l \in Own(g.sales, t) : Over(w, l.week) <=> l.week = w
    BY OverIs
  <2>2. {l \in Own(g.sales, t) : Over(w, l.week) /\ Is(b, l.brand) /\ Is(s, l.store)} =
           {l \in WeekLines(g, t, w) : Is(b, l.brand) /\ Is(s, l.store)}
    BY <2>1 DEF WeekLines
  <2>3. QED
    BY <2>2 DEF Sold
<1>2. ASSUME NEW m \in Nat, m >= 100000, NEW b, NEW s
      PROVE  Sold(g, t, m, b, s) = Amount(MonthLines(g, t, m, b, s))
  <2>1. \A l \in Own(g.sales, t) : l.week \in Weeks
    BY OverIs
  <2>2. \A v \in Weeks : v < 100000 /\ v \in Nat
    BY CalendarAssumption DEF Weeks
  <2>3. m # None /\ \A v \in Weeks : m # v
    BY <1>2, <2>2, CalendarAssumption
  <2>4. \A l \in Own(g.sales, t) : Over(m, l.week) <=> MonthOf[l.week] = m
    BY <2>1, <2>3 DEF Over
  <2>5. {l \in Own(g.sales, t) : Over(m, l.week) /\ Is(b, l.brand) /\ Is(s, l.store)} =
           MonthLines(g, t, m, b, s)
    BY <2>4 DEF MonthLines, LinesOf
  <2>6. QED
    BY <2>5 DEF Sold
<1>3. QED
  BY <1>1, <1>2

\* The totals of a week.
LEMMA WeekTotalsAre ==
    ASSUME NEW g, FullDb(g), NEW t, NEW w \in Weeks, WeeklyTotals(g, t, w) # None
    PROVE  WeeklyTotals(g, t, w).n = Sold(g, t, w, None, None)
<1>1. WeeklyTotals(g, t, w) = [week |-> w, n |-> Amount(WeekLines(g, t, w))]
  BY DEF WeeklyTotals, WeekLines
<1>2. {l \in WeekLines(g, t, w) : Is(None, l.brand) /\ Is(None, l.store)} = WeekLines(g, t, w)
  BY DEF Is
<1>3. Sold(g, t, w, None, None) = Amount(WeekLines(g, t, w))
  BY <1>2, SoldIs
<1>4. QED
  BY <1>1, <1>3

\* The totals of a month, none when nothing was sold.
LEMMA MonthTotalsAre ==
    ASSUME NoneIsNull, NEW g, FullDb(g), NEW t, NEW m \in Nat, m >= 100000, NEW b, NEW s
    PROVE  LET M == MonthlyTotals(g, t, m, b, s)
           IN  /\ M = None => Sold(g, t, m, b, s) = 0
               /\ M # None => M.n = Sold(g, t, m, b, s)
<1>1. PICK M, L : M = MonthlyTotals(g, t, m, b, s) /\ L = MonthLines(g, t, m, b, s)
  OBVIOUS
<1>2. M = IF L = {} THEN None ELSE [month |-> m, n |-> Amount(L)]
  BY <1>1, MonthlyRowIs
<1>3. Sold(g, t, m, b, s) = Amount(L)
  BY <1>1, SoldIs
<1>4. M = None => L = {}
  <2>1. \A x, n : None # [month |-> x, n |-> n]
    BY DEF NoneIsNull
  <2>2. QED
    BY <1>2, <2>1
<1>5. M = None => Amount(L) = 0
  BY <1>4, AmountOfNone
<1>6. M # None => M.n = Amount(L)
  BY <1>2
<1>7. QED
  BY <1>1, <1>3, <1>5, <1>6

\* The month before one is the largest below it.
LEMMA BeforeIs ==
    ASSUME NEW m \in Calendar
    PROVE  MonthBefore(m) = PrevMonth(m) /\ PrevMonth(m) \in Nat /\ PrevMonth(m) >= 100000
<1>1. m \in Nat /\ m > 100100 /\ m % 100 \in 1..12
  BY CalendarAssumption DEF Calendar, Weeks
<1>2. PICK q \in Nat, k \in 1..12 : m = 100 * q + k /\ q = m \div 100 /\ k = m % 100
  <2>1. PICK x \in Int, y \in Int : x = m \div 100 /\ y = m % 100
    BY <1>1
  <2>2. m = 100 * x + y /\ x \in Nat
    BY <1>1, <2>1
  <2>3. QED
    BY <1>1, <2>1, <2>2
<1>a. m \in Int /\ q \in Int /\ k \in Int /\ k >= 1 /\ k <= 12 /\ m = 100 * q + k /\ m > 100100
  BY <1>1, <1>2
<1>3. q >= 1001
  BY <1>1, <1>2
<1>4. PICK p : p = PrevMonth(m)
  OBVIOUS
<1>5. p = IF k = 1 THEN (q - 1) * 100 + 12 ELSE m - 1
  BY <1>2, <1>4 DEF PrevMonth
<1>6. p \in Nat /\ p >= 100000
  BY <1>a, <1>3, <1>5
<1> DEFINE S == {n \in {y * 100 + j : y \in (m \div 100 - 1)..(m \div 100), j \in 1..12} : n < m}
<1>7. \A n : n \in S <=> n < m /\ \E y \in (q - 1)..q, j \in 1..12 : n = y * 100 + j
  BY <1>2
<1>8. MonthBefore(m) = Max(S)
  BY DEF MonthBefore
<1> HIDE DEF S
<1>9. p \in S
  <2>1. CASE k = 1
    <3>1. p = (q - 1) * 100 + 12 /\ p < m /\ (q - 1) \in (q - 1)..q
      BY <1>2, <1>5, <2>1
    <3>2. QED
      BY <1>7, <3>1
  <2>2. CASE k # 1
    <3>1. p = q * 100 + (k - 1) /\ p < m /\ q \in (q - 1)..q /\ (k - 1) \in 1..12
      BY <1>a, <1>5, <2>2
    <3>2. QED
      BY <1>7, <3>1
  <2>3. QED
    BY <2>1, <2>2
<1>10. ASSUME NEW n \in S
       PROVE  n \in Nat /\ n <= p
  <2>1. PICK y \in (q - 1)..q, j \in 1..12 : n = y * 100 + j
    BY <1>7
  <2>2. n < m
    BY <1>7
  <2>3. y \in Int /\ j \in Int /\ y >= 1000
    BY <1>3, <2>1
  <2>4. CASE y = q
    <3>1. j < k
      BY <1>a, <2>1, <2>2, <2>3, <2>4
    <3>2. k # 1 /\ p = m - 1
      BY <1>a, <1>5, <2>3, <2>1, <3>1
    <3>3. QED
      BY <1>a, <2>1, <2>2, <2>3, <2>4, <3>2
  <2>5. CASE y = q - 1
    <3>1. n <= (q - 1) * 100 + 12 /\ n \in Nat
      BY <1>3, <2>1, <2>3, <2>5
    <3>2. p >= (q - 1) * 100 + 12
      BY <1>a, <1>5
    <3>3. QED
      BY <1>2, <1>6, <3>1, <3>2
  <2>6. y = q \/ y = q - 1
    BY <1>2, <2>3
  <2>7. QED
    BY <2>4, <2>5, <2>6
<1>11. Max(S) = p
  <2>1. Max(S) = CHOOSE x \in S : \A y \in S : x >= y
    BY DEF Max
  <2>2. \A y \in S : p >= y
    BY <1>6, <1>10
  <2>3. PICK x : x = Max(S)
    OBVIOUS
  <2>4. x \in S /\ \A y \in S : x >= y
    BY <1>9, <2>1, <2>2, <2>3
  <2>5. x >= p /\ x <= p /\ x \in Nat
    BY <1>9, <1>10, <2>4
  <2>6. QED
    BY <1>6, <2>3, <2>5
<1>12. QED
  BY <1>4, <1>6, <1>8, <1>11

\* Invoices have ids of their own.
LEMMA TicketsAre ==
    ASSUME NEW g, FullDb(g), NEW t, NEW w \in Weeks
    PROVE  /\ DistinctTickets(g, t, w) = Invoices(g, t, w, None) /\ DistinctTickets(g, t, w) \in Nat
           /\ \A s \in Nat : Tickets({d \in Own(g.docs, t) : d.store = s /\ d.week = w}) =
                                Invoices(g, t, w, s)
<1>1. ASSUME NEW D \in SUBSET g.docs
      PROVE  Tickets(D) = Cardinality(D) /\ Tickets(D) \in Nat
  <2>1. D \subseteq Issuable /\ IsFiniteSet(D)
    <3>1. D \subseteq Issuable
      BY DEF FullDb, GoodDb
    <3>2. QED
      BY <3>1, BriefingsAssumption, FS_Subset
  <2> DEFINE f == [d \in D |-> d.id]
  <2>2. f = [d \in D |-> f[d]] /\ \A d \in D : f[d] = d.id
    OBVIOUS
  <2> HIDE DEF f
  <2>3. \A d, e \in D : f[d] = f[e] => d = e
    BY <2>1, <2>2, BriefingsAssumption
  <2>4. Cardinality({f[d] : d \in D}) = Cardinality(D)
    BY <2>1, <2>2, <2>3, Images
  <2>5. {f[d] : d \in D} = {d.id : d \in D}
    BY <2>2
  <2>6. QED
    BY <2>1, <2>4, <2>5, FS_CardinalityType DEF Tickets
<1>2. \A d \in Own(g.docs, t) : d \in g.docs /\ d.week \in Weeks
  BY BriefingsAssumption DEF FullDb, GoodDb, Own, Document
<1>3. \A d \in Own(g.docs, t) : Over(w, d.week) <=> d.week = w
  BY <1>2, OverWeek DEF Over
<1>4. DistinctTickets(g, t, w) = Invoices(g, t, w, None) /\ DistinctTickets(g, t, w) \in Nat
  <2>1. {d \in Own(g.docs, t) : d.week = w} =
           {d \in Own(g.docs, t) : Over(w, d.week) /\ Is(None, d.store)}
    BY <1>3 DEF Is
  <2>2. {d \in Own(g.docs, t) : d.week = w} \in SUBSET g.docs
    BY <1>2
  <2>3. QED
    BY <1>1, <2>1, <2>2 DEF DistinctTickets, Invoices
<1>5. ASSUME NEW s \in Nat
      PROVE  Tickets({d \in Own(g.docs, t) : d.store = s /\ d.week = w}) = Invoices(g, t, w, s)
  <2>1. s # None
    BY CalendarAssumption
  <2>2. {d \in Own(g.docs, t) : d.store = s /\ d.week = w} =
           {d \in Own(g.docs, t) : Over(w, d.week) /\ Is(s, d.store)}
    BY <1>3, <2>1 DEF Is
  <2>3. {d \in Own(g.docs, t) : d.store = s /\ d.week = w} \in SUBSET g.docs
    BY <1>2
  <2>4. QED
    BY <1>1, <2>2, <2>3 DEF Invoices
<1>6. QED
  BY <1>4, <1>5

\* The plan of a week, and of a brand in it.
LEMMA PlanIs ==
    ASSUME NEW t, NEW w \in Weeks
    PROVE  /\ PlanTotals(t, w) = None => PlanOf(t, w, None) = 0
           /\ PlanTotals(t, w) # None => PlanTotals(t, w) = PlanOf(t, w, None)
           /\ \A b \in Nat : Amount({p \in Own(Planned, t) : p.brand = b /\ p.week = w}) = PlanOf(t, w, b)
<1>1. Countable(Own(Planned, t)) /\ \A p \in Own(Planned, t) : p.week \in Weeks
  <2>1. Own(Planned, t) \subseteq Planned
    BY DEF Own
  <2>2. QED
    BY <2>1, DimensionsAssumption, FS_Subset DEF Countable
<1>2. \A p \in Own(Planned, t) : Over(w, p.week) <=> p.week = w
  BY <1>1, OverWeek DEF Over
<1> DEFINE L == {p \in Own(Planned, t) : p.week = w}
<1>3. PlanOf(t, w, None) = Amount(L)
  <2>1. {p \in Own(Planned, t) : Over(w, p.week) /\ Is(None, p.brand)} = L
    BY <1>2 DEF Is
  <2>2. QED
    BY <2>1 DEF PlanOf
<1>4. PlanTotals(t, w) = IF L = {} THEN None ELSE Amount(L)
  BY DEF PlanTotals
<1>5. L \in SUBSET Own(Planned, t)
  OBVIOUS
<1> HIDE DEF L
<1>6. Amount(L) \in Nat /\ None \notin Nat
  BY <1>1, <1>5, AmountIsNat, CalendarAssumption
<1>7. PlanTotals(t, w) = None => PlanOf(t, w, None) = 0
  BY <1>3, <1>4, <1>6, AmountOfNone
<1>8. ASSUME NEW b \in Nat
      PROVE  Amount({p \in Own(Planned, t) : p.brand = b /\ p.week = w}) = PlanOf(t, w, b)
  <2>1. b # None
    BY CalendarAssumption
  <2>2. {p \in Own(Planned, t) : Over(w, p.week) /\ Is(b, p.brand)} =
           {p \in Own(Planned, t) : p.brand = b /\ p.week = w}
    BY <1>2, <2>1 DEF Is
  <2>3. QED
    BY <2>2 DEF PlanOf
<1>9. QED
  BY <1>3, <1>4, <1>7, <1>8

\* The latest week of a tenant is a week.
LEMMA LatestIsWeek ==
    ASSUME NEW g, FullDb(g), NEW t, LatestSales(g, t) # None
    PROVE  LatestSales(g, t) \in Weeks
<1>1. PICK s \in Own(g.sales, t) : s.week = LatestSales(g, t)
  BY LatestSold, GoodIsDated DEF FullDb
<1>2. QED
  BY <1>1, OverIs

\* A row of a brand.
BrandRowIs(g, t, row) ==
    /\ row.n = Sold(g, t, RowPeriod(row), row.id, None) /\ row.id \in Nat

\* A row of the panel of brands.
LEMMA BrandsWereTrue ==
    ASSUME NEW g, FullDb(g), NEW t, NEW brand, NEW w, NEW row \in BrandPerformance(g, t, brand, w)
    PROVE  /\ RowPeriod(row) = row.week /\ row.week \in Weeks
           /\ Is(w, row.week) /\ Is(brand, row.id)
           /\ BrandRowIs(g, t, row)
           /\ row.plan = PlanOf(t, row.week, row.id)
<1>1. row \in Own(BrandView(g), t) /\ Is(w, row.week) /\ Is(brand, row.id)
  BY DEF BrandPerformance
<1>2. RowPeriod(row) = row.week
  <2>1. \E a, i, m, v, n, p : row = [tenant |-> a, id |-> i, name |-> m, week |-> v, n |-> n, plan |-> p]
    BY <1>1 DEF Own, BrandView
  <2>2. PICK a, i, m, v, n, p :
           row = [tenant |-> a, id |-> i, name |-> m, week |-> v, n |-> n, plan |-> p]
    BY <2>1
  <2>3. DOMAIN row = {"tenant", "id", "name", "week", "n", "plan"}
    BY <2>2
  <2>4. QED
    BY <2>3 DEF RowPeriod
<1>3. /\ row.week = LatestSales(g, t) /\ row.week # None
      /\ row.n = Amount({r \in Own(g.sales, t) : r.brand = row.id /\ r.week = row.week})
      /\ row.plan = Amount({p \in Own(Planned, t) : p.brand = row.id /\ p.week = row.week})
      /\ \E b \in Own(ActiveBrands, t) : b.brand = row.id
  BY <1>1, BrandRows
<1>4. PICK v, i : v = row.week /\ i = row.id
  OBVIOUS
<1>5. v \in Weeks
  BY <1>3, <1>4, LatestIsWeek
<1>6. i \in Nat
  <2>1. \A b \in ActiveBrands : b.brand \in Nat
    BY DimensionsAssumption DEF ActiveBrands
  <2>2. QED
    BY <1>3, <1>4, <2>1 DEF Own
<1>7. i # None
  BY <1>6, CalendarAssumption
<1>8. {r \in Own(g.sales, t) : r.brand = i /\ r.week = v} =
         {l \in WeekLines(g, t, v) : Is(i, l.brand) /\ Is(None, l.store)}
  BY <1>7 DEF WeekLines, Is
<1>9. Sold(g, t, v, i, None) = Amount({l \in WeekLines(g, t, v) : Is(i, l.brand) /\ Is(None, l.store)})
  BY <1>5, SoldIs
<1>10. row.n = Sold(g, t, v, i, None)
  BY <1>3, <1>4, <1>8, <1>9
<1>11. row.plan = PlanOf(t, v, i)
  BY <1>3, <1>4, <1>5, <1>6, PlanIs
<1>12. QED
  BY <1>1, <1>2, <1>4, <1>5, <1>6, <1>10, <1>11 DEF BrandRowIs

\* A row of a store.
StoreRowIs(g, t, row) ==
    /\ row.n = Sold(g, t, RowPeriod(row), None, row.id) /\ row.id \in Nat

\* A row of the panel of stores.
LEMMA StoresWereTrue ==
    ASSUME NEW g, FullDb(g), NEW t, NEW store, NEW w, NEW row \in StoreDashboard(g, t, store, w)
    PROVE  /\ RowPeriod(row) = row.week /\ row.week \in Weeks
           /\ Is(w, row.week) /\ Is(store, row.id)
           /\ StoreRowIs(g, t, row)
           /\ row.tickets = Invoices(g, t, row.week, row.id)
<1>1. row \in Own(StoreView(g), t) /\ Is(w, row.week) /\ Is(store, row.id)
  BY DEF StoreDashboard
<1>2. RowPeriod(row) = row.week
  <2>1. \E a, i, v, n, p : row = [tenant |-> a, id |-> i, week |-> v, n |-> n, tickets |-> p]
    BY <1>1 DEF Own, StoreView
  <2>2. PICK a, i, v, n, p : row = [tenant |-> a, id |-> i, week |-> v, n |-> n, tickets |-> p]
    BY <2>1
  <2>3. DOMAIN row = {"tenant", "id", "week", "n", "tickets"}
    BY <2>2
  <2>4. QED
    BY <2>3 DEF RowPeriod
<1>3. /\ row.week = LatestSales(g, t) /\ row.week # None
      /\ row.n = Amount({r \in Own(g.sales, t) : r.store = row.id /\ r.week = row.week})
      /\ row.tickets = Tickets({d \in Own(g.docs, t) : d.store = row.id /\ d.week = row.week})
      /\ \E d \in Own(DimStore, t) : d.store = row.id /\ d.active
  BY <1>1, StoreRows
<1>4. PICK v, i : v = row.week /\ i = row.id
  OBVIOUS
<1>5. v \in Weeks
  BY <1>3, <1>4, LatestIsWeek
<1>6. i \in Nat
  <2>1. \A d \in DimStore : d.store \in Nat
    BY DimensionsAssumption
  <2>2. QED
    BY <1>3, <1>4, <2>1 DEF Own
<1>7. i # None
  BY <1>6, CalendarAssumption
<1>8. {r \in Own(g.sales, t) : r.store = i /\ r.week = v} =
         {l \in WeekLines(g, t, v) : Is(None, l.brand) /\ Is(i, l.store)}
  BY <1>7 DEF WeekLines, Is
<1>9. Sold(g, t, v, None, i) = Amount({l \in WeekLines(g, t, v) : Is(None, l.brand) /\ Is(i, l.store)})
  BY <1>5, SoldIs
<1>10. row.n = Sold(g, t, v, None, i)
  BY <1>3, <1>4, <1>8, <1>9
<1>11. row.tickets = Invoices(g, t, v, i)
  BY <1>3, <1>4, <1>5, <1>6, TicketsAre
<1>12. QED
  BY <1>1, <1>2, <1>4, <1>5, <1>6, <1>10, <1>11 DEF StoreRowIs

\* A month of a tenant is one of the calendar.
LEMMA MonthIs ==
    ASSUME NEW g, FullDb(g), NEW t, NEW m \in Months(g, t)
    PROVE  m \in Nat /\ m >= 100000
<1>1. LinesOf(g, t, m) # {}
  BY MonthsHave
<1>2. PICK s \in Own(g.sales, t) : MonthOf[s.week] = m
  BY <1>1 DEF LinesOf
<1>3. s.week \in Weeks
  BY OverIs
<1>4. QED
  BY <1>2, <1>3, CalendarAssumption DEF Weeks

\* A row of the brands of a month.
LEMMA MonthBrandsWereTrue ==
    ASSUME NEW g, FullDb(g), NEW t, NEW brand, NEW m,
           NEW row \in MonthlyBrandPerformance(g, t, brand, m)
    PROVE  Is(m, RowPeriod(row)) /\ BrandRowIs(g, t, row)
<1>1. row \in Own(BrandMonthlyView(g), t) /\ Is(m, row.month)
  BY DEF MonthlyBrandPerformance
<1>2. RowPeriod(row) = row.month
  <2>1. \E a, i, o, v, n, p :
           row = [tenant |-> a, id |-> i, name |-> o, month |-> v, n |-> n, plan |-> p]
    <3> DEFINE N(d, v) == Amount({r \in Own(SalesMonthly(g), d.tenant) : r.brand = d.brand /\ r.month = v})
               K(d, v) == Amount({p \in Own(Planned, d.tenant) : p.brand = d.brand /\ MonthOf[p.week] = v})
               Line(d, v) == [tenant |-> d.tenant, id |-> d.brand, name |-> d.name, month |-> v,
                              n |-> N(d, v), plan |-> K(d, v)]
    <3>1. BrandMonthlyView(g) = UNION {{Line(d, v) : v \in Months(g, d.tenant)} : d \in ActiveBrands}
      BY DEF BrandMonthlyView
    <3> HIDE DEF N, K
    <3>2. \E d, v : row = Line(d, v)
      BY <1>1, <3>1 DEF Own
    <3>3. QED
      BY <3>2
  <2>2. PICK a, i, o, v, n, p :
           row = [tenant |-> a, id |-> i, name |-> o, month |-> v, n |-> n, plan |-> p]
    BY <2>1
  <2>3. DOMAIN row = {"tenant", "id", "name", "month", "n", "plan"}
    BY <2>2
  <2>4. QED
    BY <2>3 DEF RowPeriod
<1>3. /\ row.month \in Months(g, t)
      /\ row.n = Amount({s \in LinesOf(g, t, row.month) : s.brand = row.id})
      /\ \E b \in Own(ActiveBrands, t) : b.brand = row.id
  BY <1>1, BrandMonthRows
<1>4. PICK v, i : v = row.month /\ i = row.id
  OBVIOUS
<1>5. v \in Nat /\ v >= 100000
  BY <1>3, <1>4, MonthIs
<1>6. i \in Nat
  <2>1. \A b \in ActiveBrands : b.brand \in Nat
    BY DimensionsAssumption DEF ActiveBrands
  <2>2. QED
    BY <1>3, <1>4, <2>1 DEF Own
<1>7. i # None
  BY <1>6, CalendarAssumption
<1>8. {s \in LinesOf(g, t, v) : s.brand = i} = MonthLines(g, t, v, i, None)
  BY <1>7 DEF MonthLines, Is
<1>9. Sold(g, t, v, i, None) = Amount(MonthLines(g, t, v, i, None))
  BY <1>5, SoldIs
<1>10. row.n = Sold(g, t, v, i, None)
  BY <1>3, <1>4, <1>8, <1>9
<1>11. QED
  BY <1>1, <1>2, <1>4, <1>6, <1>10 DEF BrandRowIs

\* A row of the stores of a month.
LEMMA MonthStoresWereTrue ==
    ASSUME NEW g, FullDb(g), NEW t, NEW store, NEW m,
           NEW row \in MonthlyStoreDashboard(g, t, store, m)
    PROVE  Is(m, RowPeriod(row)) /\ StoreRowIs(g, t, row)
<1>1. row \in Own(StoreMonthlyView(g), t) /\ Is(m, row.month)
  BY DEF MonthlyStoreDashboard
<1>2. RowPeriod(row) = row.month
  <2>1. \E a, i, v, n, p : row = [tenant |-> a, id |-> i, month |-> v, n |-> n, tickets |-> p]
    <3> DEFINE N(d, v) == Amount({r \in Own(SalesMonthly(g), d.tenant) : r.store = d.store /\ r.month = v})
               K(d, v) == Tickets({e \in Own(g.docs, d.tenant) : e.store = d.store /\ MonthOf[e.week] = v})
               Line(d, v) == [tenant |-> d.tenant, id |-> d.store, month |-> v, n |-> N(d, v), tickets |-> K(d, v)]
    <3>1. StoreMonthlyView(g) = UNION {{Line(d, v) : v \in Months(g, d.tenant)} : d \in {d \in DimStore : d.active}}
      BY DEF StoreMonthlyView
    <3> HIDE DEF N, K
    <3>2. \E d, v : row = Line(d, v)
      BY <1>1, <3>1 DEF Own
    <3>3. QED
      BY <3>2
  <2>2. PICK a, i, v, n, p : row = [tenant |-> a, id |-> i, month |-> v, n |-> n, tickets |-> p]
    BY <2>1
  <2>3. DOMAIN row = {"tenant", "id", "month", "n", "tickets"}
    BY <2>2
  <2>4. QED
    BY <2>3 DEF RowPeriod
<1>3. /\ row.month \in Months(g, t)
      /\ row.n = Amount({s \in LinesOf(g, t, row.month) : s.store = row.id})
      /\ \E d \in Own(DimStore, t) : d.store = row.id /\ d.active
  BY <1>1, StoreMonthRows
<1>4. PICK v, i : v = row.month /\ i = row.id
  OBVIOUS
<1>5. v \in Nat /\ v >= 100000
  BY <1>3, <1>4, MonthIs
<1>6. i \in Nat
  <2>1. \A d \in DimStore : d.store \in Nat
    BY DimensionsAssumption
  <2>2. QED
    BY <1>3, <1>4, <2>1 DEF Own
<1>7. i # None
  BY <1>6, CalendarAssumption
<1>8. {s \in LinesOf(g, t, v) : s.store = i} = MonthLines(g, t, v, None, i)
  BY <1>7 DEF MonthLines, Is
<1>9. Sold(g, t, v, None, i) = Amount(MonthLines(g, t, v, None, i))
  BY <1>5, SoldIs
<1>10. row.n = Sold(g, t, v, None, i)
  BY <1>3, <1>4, <1>8, <1>9
<1>11. QED
  BY <1>1, <1>2, <1>4, <1>6, <1>10 DEF StoreRowIs

-----------------------------------------------------------------------------
(* The fields of the answers.                                              *)

\* The period of a report is of the calendar it asks of.
LEMMA PeriodOfAnswered ==
    ASSUME NEW S, NEW c, Answered(S, c),
           NEW latest \in Latests, ToolNeeds(c.req) \cap Latests = Looked(c.req, latest),
           c.req.period \in Optional(KindOf(latest))
    PROVE  c.period \in KindOf(latest)
<1> DEFINE r == c.req
           P == Program(r)
<1>1. Shape(c) /\ IsAnswered(S, c) /\ r \in Requests
  BY DEF Answered, GoodCall, Shape
<1>2. DOMAIN c.got = Parts(P) /\ Resolved(c)
  BY <1>1 DEF IsAnswered
<1>3. Orderly(P) /\ Needs(P) = ToolNeeds(r)
  BY <1>1, ProgramHas
<1> HIDE DEF P
<1>4. CASE r.period # None
  <2>1. ASSUME NEW q \in DOMAIN c.got \cap Latests
        PROVE  FALSE
    <3>1. PICK i \in DOMAIN P : q \in Range(P[i].parts)
      BY <1>2, Members
    <3>2. P[i].needs = q
      BY <1>3, <3>1, LatestIsNeeded
    <3>3. q \in Needs(P)
      BY <3>1, <3>2 DEF Needs
    <3>4. QED
      BY <1>3, <1>4, <3>3 DEF Looked
  <2>2. c.period = r.period
    BY <1>2, <2>1 DEF Resolved
  <2>3. QED
    BY <1>4, <2>2 DEF Optional
<1>5. CASE r.period = None
  <2>1. latest \in ToolNeeds(r) /\ latest # ""
    BY <1>5 DEF Looked, Latests
  <2>2. latest \in DOMAIN c.got /\ ~Nothing(c.got, latest) /\ WasRead(S, c, latest, c.got[latest])
    BY <2>1, NeededWasRead DEF Answered
  <2>3. c.got[latest] # None /\ c.got[latest] = c.period
    BY <1>2, <2>1, <2>2 DEF Nothing, Resolved
  <2>4. PICK g \in S : c.period = Fetch(g, r, c.period, latest)
    BY <2>2, <2>3 DEF WasRead
  <2>5. Dated(g)
    BY GoodIsDated DEF Answered, FullDb
  <2>6. /\ Fetch(g, r, c.period, "latest_week") \in Optional(Weeks)
        /\ Fetch(g, r, c.period, "latest_month") \in Optional(Calendar)
    BY <2>5, LatestFetchIs
  <2>7. latest \in {"latest_week", "latest_month"}
    BY DEF Latests
  <2>8. QED
    BY <2>3, <2>4, <2>6, <2>7 DEF KindOf, Optional
<1>6. QED
  BY <1>4, <1>5

\* What the answer has of a query: what the database had, or the query is named.
Had(S, c, p) == \E g \in S : FullDb(g) /\ c.got[p] = Fetch(g, c.req, c.period, p)

\* Every query of an answer was read, or was gathered and is named.
LEMMA PartIs ==
    ASSUME NEW S, NEW c, Answered(S, c), NEW p \in Parts(Program(c.req))
    PROVE  Had(S, c, p) \/ (p \in c.failures /\ p \in Gathered(Program(c.req)))
<1>1. IsAnswered(S, c)
  BY DEF Answered, GoodCall
<1>2. p \in DOMAIN c.got /\ GotIsRead(S, c) /\ Told(S, c)
  BY <1>1 DEF IsAnswered, Answered
<1>3. WasRead(S, c, p, c.got[p]) \/ (p \in c.failures /\ p \in Gathered(Program(c.req)))
  BY <1>2 DEF GotIsRead, Told
<1>4. \A g \in S : FullDb(g)
  BY DEF Answered
<1>5. QED
  BY <1>3, <1>4 DEF WasRead, Had

\* So of a query the tool needs, which has rows.
LEMMA NeededIs ==
    ASSUME NEW S, NEW c, Answered(S, c), NEW p \in ToolNeeds(c.req), p # ""
    PROVE  Had(S, c, p) /\ ~Nothing(c.got, p)
<1>1. ~Nothing(c.got, p) /\ WasRead(S, c, p, c.got[p])
  BY NeededWasRead DEF Answered
<1>2. \A g \in S : FullDb(g)
  BY DEF Answered
<1>3. QED
  BY <1>1, <1>2 DEF WasRead, Had

\* A field of the answer was true, or the query it comes from is named.
WasTrue(S, c, f) == Named(Answer(c), f) \/ \E g \in S : True(g, c.req, Answer(c), f)

\* The limits are numbers.
LEMMA LimitsAre ==
    /\ \A l \in LimitNames : Limits[l] \in Nat
    /\ \A tool \in {"get_executive_weekly_briefing", "get_executive_summary",
                    "get_monthly_executive_briefing", "get_store_daily_briefing",
                    "get_brand_weekly_review", "get_sku_detail", "get_monthly_summary",
                    "get_active_alerts"} : AlertsAsked(tool) \in Nat
    /\ \A tool : ActionsAsked(tool) \in Nat
<1>1. \A l \in LimitNames : Limits[l] \in Nat
  BY BriefingsAssumption
<1>2. Limits.top \in Nat /\ Limits.listed \in Nat /\ Limits.counted \in Nat /\ Limits.page \in Nat
  BY <1>1 DEF LimitNames
<1>3. QED
  BY <1>1, <1>2 DEF AlertsAsked, ActionsAsked

\* The query of the alerts, of the actions and of the others.
LEMMA ListFetch ==
    ASSUME NEW g, NEW r, NEW w
    PROVE  /\ Fetch(g, r, w, "active_alerts") =
                 ActiveAlerts(g, r.tenant, None, r.severity, AlertsAsked(r.tool))
           /\ Fetch(g, r, w, "action_recommendations") =
                 ActionRecommendations(g, r.tenant, None, r.severity, ActionsAsked(r.tool))
           /\ Fetch(g, r, w, "plan_totals") = PlanTotals(r.tenant, w)
           /\ Fetch(g, r, w, "distinct_tickets") = DistinctTickets(g, r.tenant, w)
           /\ Fetch(g, r, w, "previous") = MonthlyTotals(g, r.tenant, PrevMonth(w), r.brand, r.store)
           /\ Fetch(g, r, w, "monthly_brands") = MonthlyBrandPerformance(g, r.tenant, None, w)
           /\ Fetch(g, r, w, "monthly_stores") = MonthlyStoreDashboard(g, r.tenant, None, w)
           /\ Fetch(g, r, w, "sku_sales") = SkuSales(g, r.tenant, r.sku, r.store)
           /\ Fetch(g, r, w, "sku_stock") = SkuStock(g, r.tenant, r.sku, r.store)
           /\ Fetch(g, r, w, "sku_coverage") =
                 CoverageStatus(g, r.tenant, r.brand, r.store, r.status, r.sku,
                    IF r.tool = "get_store_daily_briefing" THEN Limits.covered ELSE Limits.page)
           /\ Fetch(g, r, w, "velocity_segmentation") =
                 VelocitySegmentation(g, r.tenant, r.segment, r.brand,
                    IF r.tool = "get_brand_weekly_review" THEN Limits.moving ELSE Limits.page)
  BY DEF Fetch

\* NULL has the rows of no row.
LEMMA ListIs ==
    ASSUME NoneIsNull, NEW c, NEW p
    PROVE  List(c, p) = c.got[p]
<1>1. None = {}
  BY DEF NoneIsNull
<1>2. QED
  BY <1>1 DEF List

\* The answers that name the queries that failed.
LEMMA NamedIs ==
    ASSUME NEW a, "failures" \in DOMAIN a
    PROVE  /\ "distinct_tickets" \in a.failures => Named(a, "tickets")
           /\ "plan_totals" \in a.failures => Named(a, "plan")
           /\ "active_alerts" \in a.failures => Named(a, "alerts")
           /\ "action_recommendations" \in a.failures => Named(a, "actions")
           /\ "brand_performance" \in a.failures => Named(a, "brands")
           /\ "sku_coverage" \in a.failures => Named(a, "critical")
           /\ "velocity_segmentation" \in a.failures => Named(a, "segments")
  BY DEF Named, Source

\* What was true of the fields that are numbers.
LEMMA NumberIs ==
    ASSUME NEW g, NEW r, NEW a
    PROVE  /\ True(g, r, a, "n") <=> a.n = Sold(g, r.tenant, a.period, r.brand, r.store)
           /\ True(g, r, a, "tickets") <=> a.tickets = Invoices(g, r.tenant, a.period, r.store)
           /\ True(g, r, a, "plan") <=>
                 \/ a.plan = PlanOf(r.tenant, a.period, r.brand)
                 \/ a.plan = None /\ PlanOf(r.tenant, a.period, r.brand) = 0
           /\ True(g, r, a, "previous") <=>
                 \/ a.previous = Sold(g, r.tenant, MonthBefore(a.period), r.brand, r.store)
                 \/ /\ Sold(g, r.tenant, MonthBefore(a.period), r.brand, r.store) = 0
                    /\ a.previous = None
           /\ True(g, r, a, "count") <=>
                 a.count = IF Alerts(g, r.tenant) <= Limits.counted THEN Alerts(g, r.tenant)
                                                                    ELSE Limits.counted
<1>1. True(g, r, a, "n") <=> a.n = Sold(g, r.tenant, a.period, r.brand, r.store)
  BY DEF True
<1>2. True(g, r, a, "tickets") <=> a.tickets = Invoices(g, r.tenant, a.period, r.store)
  BY DEF True
<1>3. True(g, r, a, "plan") <=>
         \/ a.plan = PlanOf(r.tenant, a.period, r.brand)
         \/ a.plan = None /\ PlanOf(r.tenant, a.period, r.brand) = 0
  BY DEF True
<1>4. True(g, r, a, "previous") <=>
         \/ a.previous = Sold(g, r.tenant, MonthBefore(a.period), r.brand, r.store)
         \/ /\ Sold(g, r.tenant, MonthBefore(a.period), r.brand, r.store) = 0
            /\ a.previous = None
  BY DEF True
<1>5. True(g, r, a, "count") <=>
         a.count = IF Alerts(g, r.tenant) <= Limits.counted THEN Alerts(g, r.tenant)
                                                            ELSE Limits.counted
  BY DEF True
<1>6. QED
  BY <1>1, <1>2, <1>3, <1>4, <1>5

\* What was true of the lists.
LEMMA ListingIs ==
    ASSUME NEW g, NEW r, NEW a
    PROVE  /\ AreDue(g, r, a.alerts, AlertsAsked(r.tool)) /\ AreGreatest(r, AlertsView(g), a.alerts)
                 => True(g, r, a, "alerts")
           /\ AreDue(g, r, a.actions, ActionsAsked(r.tool)) /\ AreGreatest(r, PriorityView(g), a.actions)
                 => True(g, r, a, "actions")
           /\ (\A x \in a.brands : Is(a.period, RowPeriod(x)) /\ BrandRowIs(g, r.tenant, x))
                 => True(g, r, a, "brands")
           /\ (\A x \in a.stores : Is(a.period, RowPeriod(x)) /\ StoreRowIs(g, r.tenant, x))
                 => True(g, r, a, "stores")
<1>1. AreDue(g, r, a.alerts, AlertsAsked(r.tool)) /\ AreGreatest(r, AlertsView(g), a.alerts)
         => True(g, r, a, "alerts")
  BY DEF True
<1>2. AreDue(g, r, a.actions, ActionsAsked(r.tool)) /\ AreGreatest(r, PriorityView(g), a.actions)
         => True(g, r, a, "actions")
  BY DEF True
<1>3. (\A x \in a.brands : Is(a.period, RowPeriod(x)) /\ BrandRowIs(g, r.tenant, x))
         => True(g, r, a, "brands")
  BY DEF True, BrandRowIs
<1>4. (\A x \in a.stores : Is(a.period, RowPeriod(x)) /\ StoreRowIs(g, r.tenant, x))
         => True(g, r, a, "stores")
  BY DEF True, StoreRowIs
<1>5. QED
  BY <1>1, <1>2, <1>3, <1>4

\* The tools whose alerts are of a store, of a brand or of a product.
LEMMA ShowingIs ==
    ASSUME NEW r, NEW T
    PROVE  /\ r.tool \notin {"get_store_daily_briefing", "get_brand_weekly_review", "get_sku_detail"}
                 => Showing(r, T, T)
           /\ r.tool = "get_store_daily_briefing" => Showing(r, T, {a \in T : a.store = r.store})
           /\ r.tool = "get_brand_weekly_review" /\ (\A a \in T : a.brand = BrandOf(r.tenant, a.sku))
                 => Showing(r, T, {a \in T : a.brand = r.brand})
           /\ r.tool = "get_sku_detail" => Showing(r, T, {a \in T : a.sku = r.sku})
<1>1. ASSUME r.tool \notin {"get_store_daily_briefing", "get_brand_weekly_review", "get_sku_detail"}
      PROVE  Showing(r, T, T)
  <2>1. \A a : Concerns(r, a)
    BY <1>1 DEF Concerns
  <2>2. QED
    BY <2>1 DEF Showing
<1>2. ASSUME r.tool = "get_store_daily_briefing"
      PROVE  Showing(r, T, {a \in T : a.store = r.store})
  <2>1. \A a : Concerns(r, a) <=> a.store = r.store
    BY <1>2 DEF Concerns
  <2>2. QED
    BY <2>1 DEF Showing
<1>3. ASSUME r.tool = "get_brand_weekly_review", \A a \in T : a.brand = BrandOf(r.tenant, a.sku)
      PROVE  Showing(r, T, {a \in T : a.brand = r.brand})
  <2>1. \A a : Concerns(r, a) <=> BrandOf(r.tenant, a.sku) = r.brand
    BY <1>3 DEF Concerns
  <2>2. QED
    BY <1>3, <2>1 DEF Showing
<1>4. ASSUME r.tool = "get_sku_detail"
      PROVE  Showing(r, T, {a \in T : a.sku = r.sku})
  <2>1. \A a : Concerns(r, a) <=> a.sku = r.sku
    BY <1>4 DEF Concerns
  <2>2. QED
    BY <2>1 DEF Showing
<1>5. QED
  BY <1>1, <1>2, <1>3, <1>4

\* An alert has the brand of its product.
LEMMA BrandedAre ==
    ASSUME NEW g, FullDb(g), NEW t, NEW severity, NEW n,
           NEW a \in ActiveAlerts(g, t, None, severity, n)
    PROVE  a.brand = BrandOf(t, a.sku)
<1>1. a \in Own(AlertsView(g), t)
  BY DEF ActiveAlerts, First
<1>2. PICK p \in Raised(g, t) : a = AlertBy(g, t)[p]
  BY <1>1, AlertRows
<1>3. ByAlert(g, t, AlertBy(g, t))
  BY DueIs
<1>4. QED
  BY <1>2, <1>3 DEF ByAlert

\* The reports of a week know their week, those of a month their month.
LEMMA PeriodIs ==
    ASSUME NEW S, NEW c, Answered(S, c)
    PROVE  /\ c.req.tool \in {"get_executive_weekly_briefing", "get_executive_summary"}
                 => c.period \in Weeks /\ c.req.brand = None /\ c.req.store = None
           /\ c.req.tool \in {"get_monthly_summary", "get_monthly_executive_briefing"}
                 => c.period \in Calendar
<1> DEFINE r == c.req
<1>1. r \in Requests /\ Fits(r.tool, r)
  <2>1. r \in Requests
    BY DEF Answered, GoodCall, Shape
  <2>2. QED
    BY <2>1, RequestsFit
<1>2. Looked(r, "latest_week") \subseteq {"latest_week"} /\ Looked(r, "latest_month") \subseteq {"latest_month"}
  BY DEF Looked
<1>3. KindOf("latest_week") = Weeks /\ KindOf("latest_month") = Calendar
  BY DEF KindOf
<1>4. ASSUME r.tool \in {"get_executive_weekly_briefing", "get_executive_summary"}
      PROVE  c.period \in Weeks /\ r.brand = None /\ r.store = None
  <2>1. r.period \in Optional(Weeks) /\ r.brand = None /\ r.store = None
    BY <1>1, <1>4 DEF Fits
  <2>2. ToolNeeds(r) = Looked(r, "latest_week") \cup {"weekly_totals", ""}
    BY <1>4 DEF ToolNeeds
  <2>3. ToolNeeds(r) \cap Latests = Looked(r, "latest_week") /\ "latest_week" \in Latests
    BY <1>2, <2>2 DEF Latests
  <2>4. QED
    BY <1>3, <2>1, <2>3, PeriodOfAnswered
<1>5. ASSUME r.tool \in {"get_monthly_summary", "get_monthly_executive_briefing"}
      PROVE  c.period \in Calendar
  <2>1. r.period \in Optional(Calendar)
    BY <1>1, <1>5 DEF Fits
  <2>2. ToolNeeds(r) = Looked(r, "latest_month") \cup {"month", ""}
    BY <1>5 DEF ToolNeeds
  <2>3. ToolNeeds(r) \cap Latests = Looked(r, "latest_month") /\ "latest_month" \in Latests
    BY <1>2, <2>2 DEF Latests
  <2>4. QED
    BY <1>3, <2>1, <2>3, PeriodOfAnswered
<1>6. QED
  BY <1>4, <1>5

\* The totals of a report of a week.
LEMMA WeekTotalsHad ==
    ASSUME NEW S, NEW c, Answered(S, c), NEW a, a.period = c.period,
           c.req.tool \in {"get_executive_weekly_briefing", "get_executive_summary"},
           a.n = c.got["weekly_totals"].n
    PROVE  \E g \in S : True(g, c.req, a, "n")
<1> DEFINE r == c.req
<1>1. "weekly_totals" \in ToolNeeds(r)
  BY DEF ToolNeeds
<1>2. Had(S, c, "weekly_totals") /\ ~Nothing(c.got, "weekly_totals")
  BY <1>1, NeededIs
<1>3. PICK g \in S : FullDb(g) /\ c.got["weekly_totals"] = WeeklyTotals(g, r.tenant, c.period)
  BY <1>2, MainFetch DEF Had
<1>4. c.period \in Weeks /\ r.brand = None /\ r.store = None
  BY PeriodIs
<1>5. WeeklyTotals(g, r.tenant, c.period) # None
  BY <1>2, <1>3 DEF Nothing
<1>6. a.n = Sold(g, r.tenant, a.period, r.brand, r.store)
  BY <1>3, <1>4, <1>5, WeekTotalsAre
<1>7. QED
  BY <1>6, NumberIs

\* The totals of a report of a month.
LEMMA MonthTotalsHad ==
    ASSUME NoneIsNull, NEW S, NEW c, Answered(S, c), NEW a, a.period = c.period,
           c.req.tool \in {"get_monthly_summary", "get_monthly_executive_briefing"},
           a.n = c.got["month"].n
    PROVE  \E g \in S : True(g, c.req, a, "n")
<1> DEFINE r == c.req
<1>1. "month" \in ToolNeeds(r)
  BY DEF ToolNeeds
<1>2. Had(S, c, "month") /\ ~Nothing(c.got, "month")
  BY <1>1, NeededIs
<1>3. PICK g \in S : FullDb(g) /\ c.got["month"] = MonthlyTotals(g, r.tenant, c.period, r.brand, r.store)
  BY <1>2, MainFetch DEF Had
<1>4. PICK m : m = c.period
  OBVIOUS
<1>5. m \in Nat /\ m >= 100000
  <2>1. m \in Calendar
    BY <1>4, PeriodIs
  <2>2. QED
    BY <2>1, CalendarAssumption DEF Calendar, Weeks
<1>6. MonthlyTotals(g, r.tenant, m, r.brand, r.store) # None
  BY <1>2, <1>3, <1>4 DEF Nothing
<1>7. MonthlyTotals(g, r.tenant, m, r.brand, r.store).n = Sold(g, r.tenant, m, r.brand, r.store)
  BY <1>3, <1>5, <1>6, MonthTotalsAre
<1>8. a.n = Sold(g, r.tenant, a.period, r.brand, r.store)
  BY <1>3, <1>4, <1>7
<1>9. QED
  BY <1>8, NumberIs

\* Invoices of a week that were read.
LEMMA TicketsWereTrue ==
    ASSUME NEW S, NEW c, Answered(S, c), Had(S, c, "distinct_tickets"),
           c.req.tool \in {"get_executive_weekly_briefing", "get_executive_summary"},
           NEW a, a.period = c.period,
           a.tickets \in {c.got["distinct_tickets"], Count(c, "distinct_tickets")}
    PROVE  \E g \in S : True(g, c.req, a, "tickets")
<1>1. PICK g \in S : FullDb(g) /\ c.got["distinct_tickets"] = DistinctTickets(g, c.req.tenant, c.period)
  BY ListFetch DEF Had
<1>2. c.period \in Weeks /\ c.req.store = None
  BY PeriodIs
<1>a. c.got["distinct_tickets"] \in Nat
  BY <1>1, <1>2, TicketsAre
<1>b. a.tickets = c.got["distinct_tickets"]
  BY <1>a, CalendarAssumption DEF Count
<1>3. a.tickets = Invoices(g, c.req.tenant, a.period, c.req.store)
  BY <1>1, <1>2, <1>b, TicketsAre
<1>4. QED
  BY <1>3, NumberIs

\* The plan of a week.
LEMMA PlanWasTrue ==
    ASSUME NoneIsNull, NEW S, NEW c, Answered(S, c), Had(S, c, "plan_totals"),
           c.req.tool \in {"get_executive_weekly_briefing", "get_executive_summary"},
           NEW a, a.period = c.period,
           a.plan = Count(c, "plan_totals") \/ (a.plan = None /\ Count(c, "plan_totals") = 0)
    PROVE  \E g \in S : True(g, c.req, a, "plan")
<1>1. PICK g \in S : FullDb(g) /\ c.got["plan_totals"] = PlanTotals(c.req.tenant, c.period)
  BY ListFetch DEF Had
<1>2. c.period \in Weeks /\ c.req.brand = None
  BY PeriodIs
<1>3. Count(c, "plan_totals") = PlanOf(c.req.tenant, c.period, None)
  BY <1>1, <1>2, PlanIs DEF Count
<1>4. \/ a.plan = PlanOf(c.req.tenant, a.period, c.req.brand)
      \/ a.plan = None /\ PlanOf(c.req.tenant, a.period, c.req.brand) = 0
  BY <1>2, <1>3
<1>5. QED
  BY <1>4, NumberIs

\* The alerts, of which a tool may show a store's, a brand's or a product's.
LEMMA AlertsHad ==
    ASSUME NEW S, NEW c, Answered(S, c), Had(S, c, "active_alerts"),
           AlertsAsked(c.req.tool) \in Nat,
           NEW rows, Showing(c.req, c.got["active_alerts"], rows),
           NEW a, a.alerts = rows
    PROVE  \E g \in S : True(g, c.req, a, "alerts")
<1>1. PICK g \in S : /\ FullDb(g)
                     /\ c.got["active_alerts"] =
                           ActiveAlerts(g, c.req.tenant, None, c.req.severity, AlertsAsked(c.req.tool))
  BY ListFetch DEF Had
<1>2. /\ AreDue(g, c.req, rows, AlertsAsked(c.req.tool))
      /\ AreGreatest(c.req, AlertsView(g), rows)
  BY <1>1, AlertsWereTrue
<1>3. QED
  BY <1>2, ListingIs

\* The first brands of a week, and the actions.
LEMMA WeekBrandsHad ==
    ASSUME NEW S, NEW c, Answered(S, c), Had(S, c, "brand_performance"),
           NEW a, a.period = c.period, a.brands \subseteq c.got["brand_performance"]
    PROVE  \E g \in S : True(g, c.req, a, "brands")
<1>1. PICK g \in S : /\ FullDb(g)
                     /\ c.got["brand_performance"] =
                           BrandPerformance(g, c.req.tenant, c.req.brand, c.period)
  BY MainFetch DEF Had
<1>2. \A x \in a.brands : x \in BrandPerformance(g, c.req.tenant, c.req.brand, c.period)
  BY <1>1
<1>3. \A x \in a.brands : Is(a.period, RowPeriod(x)) /\ BrandRowIs(g, c.req.tenant, x)
  BY <1>1, <1>2, BrandsWereTrue
<1>4. QED
  BY <1>3, ListingIs

\* The actions, first of the list of the tool.
LEMMA ActionsHad ==
    ASSUME NEW S, NEW c, Answered(S, c), Had(S, c, "action_recommendations"),
           c.req.tool \in {"get_executive_weekly_briefing", "get_action_recommendations"},
           NEW a, a.actions = c.got["action_recommendations"]
    PROVE  \E g \in S : True(g, c.req, a, "actions")
<1>1. PICK g \in S : /\ FullDb(g)
                     /\ c.got["action_recommendations"] =
                           ActionRecommendations(g, c.req.tenant, None, c.req.severity,
                                                 ActionsAsked(c.req.tool))
  BY ListFetch DEF Had
<1>2. ActionsAsked(c.req.tool) \in Nat
  BY LimitsAre
<1>3. Showing(c.req, a.actions, a.actions)
  BY ShowingIs
<1>4. /\ AreDue(g, c.req, a.actions, ActionsAsked(c.req.tool))
      /\ AreGreatest(c.req, PriorityView(g), a.actions)
  BY <1>1, <1>2, <1>3, ActionsWereTrue
<1>5. QED
  BY <1>4, ListingIs

\* The month before, none when nothing was sold in it.
LEMMA PreviousHad ==
    ASSUME NoneIsNull, NEW S, NEW c, Answered(S, c), Had(S, c, "previous"),
           c.req.tool \in {"get_monthly_summary", "get_monthly_executive_briefing"},
           NEW a, a.period = c.period,
           a.previous = IF c.got["previous"] = None THEN None ELSE c.got["previous"].n
    PROVE  \E g \in S : True(g, c.req, a, "previous")
<1> DEFINE r == c.req
<1>1. PICK m, p : m = c.period /\ p = PrevMonth(c.period)
  OBVIOUS
<1>2. m \in Calendar /\ MonthBefore(m) = p /\ p \in Nat /\ p >= 100000
  BY <1>1, PeriodIs, BeforeIs
<1>3. PICK g \in S : FullDb(g) /\ c.got["previous"] = MonthlyTotals(g, r.tenant, p, r.brand, r.store)
  BY <1>1, ListFetch DEF Had
<1>4. PICK M : M = MonthlyTotals(g, r.tenant, p, r.brand, r.store)
  OBVIOUS
<1>5. /\ M = None => Sold(g, r.tenant, p, r.brand, r.store) = 0
      /\ M # None => M.n = Sold(g, r.tenant, p, r.brand, r.store)
  BY <1>2, <1>3, <1>4, MonthTotalsAre
<1>6. a.previous = IF M = None THEN None ELSE M.n
  BY <1>3, <1>4
<1>7. MonthBefore(a.period) = p
  BY <1>1, <1>2
<1>8. \/ a.previous = Sold(g, r.tenant, MonthBefore(a.period), r.brand, r.store)
      \/ /\ Sold(g, r.tenant, MonthBefore(a.period), r.brand, r.store) = 0
         /\ a.previous = None
  BY <1>5, <1>6, <1>7
<1>9. QED
  BY <1>8, NumberIs

\* The first brands of a month, and the first stores.
LEMMA MonthBrandsHad ==
    ASSUME NEW S, NEW c, Answered(S, c), Had(S, c, "monthly_brands"),
           NEW a, a.period = c.period, a.brands \subseteq c.got["monthly_brands"]
    PROVE  \E g \in S : True(g, c.req, a, "brands")
<1>1. PICK g \in S : /\ FullDb(g)
                     /\ c.got["monthly_brands"] =
                           MonthlyBrandPerformance(g, c.req.tenant, None, c.period)
  BY ListFetch DEF Had
<1>2. \A x \in a.brands : x \in MonthlyBrandPerformance(g, c.req.tenant, None, c.period)
  BY <1>1
<1>3. \A x \in a.brands : Is(a.period, RowPeriod(x)) /\ BrandRowIs(g, c.req.tenant, x)
  BY <1>1, <1>2, MonthBrandsWereTrue
<1>4. QED
  BY <1>3, ListingIs

\* The first stores of a month.
LEMMA MonthStoresHad ==
    ASSUME NEW S, NEW c, Answered(S, c), Had(S, c, "monthly_stores"),
           NEW a, a.period = c.period, a.stores \subseteq c.got["monthly_stores"]
    PROVE  \E g \in S : True(g, c.req, a, "stores")
<1>1. PICK g \in S : /\ FullDb(g)
                     /\ c.got["monthly_stores"] =
                           MonthlyStoreDashboard(g, c.req.tenant, None, c.period)
  BY ListFetch DEF Had
<1>2. \A x \in a.stores : x \in MonthlyStoreDashboard(g, c.req.tenant, None, c.period)
  BY <1>1
<1>3. \A x \in a.stores : Is(a.period, RowPeriod(x)) /\ StoreRowIs(g, c.req.tenant, x)
  BY <1>1, <1>2, MonthStoresWereTrue
<1>4. QED
  BY <1>3, ListingIs

\* Every field of the weekly briefing of the directors.
LEMMA WeeklyBriefingWasTrue ==
    ASSUME NoneIsNull, NEW S, NEW c, Answered(S, c), c.req.tool = "get_executive_weekly_briefing",
           NEW f \in DOMAIN Answer(c) \ {"period", "failures"}
    PROVE  WasTrue(S, c, f)
<1> DEFINE r == c.req
<1>1. PICK a : a = Answer(c)
  OBVIOUS
<1>2. Answer(c) = WeeklyBriefing(c)
  BY DEF Answer
<1>3. DOMAIN a = {"period", "n", "tickets", "plan", "alerts", "brands", "actions", "failures"}
  BY <1>1, <1>2 DEF WeeklyBriefing
<1>4. /\ a.period = c.period /\ a.n = c.got["weekly_totals"].n
      /\ a.tickets = Count(c, "distinct_tickets")
      /\ a.plan = IF "plan_totals" \in c.failures THEN None ELSE Count(c, "plan_totals")
      /\ a.alerts = List(c, "active_alerts") /\ a.actions = List(c, "action_recommendations")
      /\ a.failures = c.failures
  BY <1>1, <1>2 DEF WeeklyBriefing
<1>5. a.brands \subseteq List(c, "brand_performance")
  BY <1>1, <1>2 DEF WeeklyBriefing, First
<1>6. \A p \in {"plan_totals", "distinct_tickets", "active_alerts", "brand_performance",
               "action_recommendations"} : Had(S, c, p) \/ p \in c.failures
  <2>1. Has(Program(r), Looked(r, "latest_week") \cup {"weekly_totals", ""},
               Looked(r, "latest_week") \cup {"weekly_totals", "plan_totals", "distinct_tickets",
                   "active_alerts", "brand_performance", "action_recommendations"},
               {"plan_totals", "distinct_tickets", "active_alerts", "brand_performance",
                "action_recommendations"})
    BY ExecutiveWeeklyHas DEF Program
  <2>2. \A p \in {"plan_totals", "distinct_tickets", "active_alerts", "brand_performance",
                 "action_recommendations"} : p \in Parts(Program(r))
    BY <2>1 DEF Has
  <2>3. QED
    BY <2>2, PartIs
<1>7. \E g \in S : True(g, r, a, "n")
  BY <1>4, WeekTotalsHad
<1>8. Named(a, "tickets") \/ \E g \in S : True(g, r, a, "tickets")
  <2>1. CASE "distinct_tickets" \in c.failures
    BY <1>3, <1>4, <2>1, NamedIs
  <2>2. CASE Had(S, c, "distinct_tickets")
    BY <1>4, <2>2, TicketsWereTrue
  <2>3. QED
    BY <1>6, <2>1, <2>2
<1>9. Named(a, "plan") \/ \E g \in S : True(g, r, a, "plan")
  <2>1. CASE "plan_totals" \in c.failures
    BY <1>3, <1>4, <2>1, NamedIs
  <2>2. CASE Had(S, c, "plan_totals") /\ "plan_totals" \notin c.failures
    <3>1. a.plan = Count(c, "plan_totals")
      BY <1>4, <2>2
    <3>2. QED
      BY <1>4, <2>2, <3>1, PlanWasTrue
  <2>3. QED
    BY <1>6, <2>1, <2>2
<1>10. Named(a, "alerts") \/ \E g \in S : True(g, r, a, "alerts")
  <2>1. CASE "active_alerts" \in c.failures
    BY <1>3, <1>4, <2>1, NamedIs
  <2>2. CASE Had(S, c, "active_alerts")
    <3>1. a.alerts = c.got["active_alerts"]
      BY <1>4, ListIs
    <3>2. Showing(r, c.got["active_alerts"], c.got["active_alerts"])
      BY ShowingIs
    <3>3. AlertsAsked(r.tool) \in Nat
      BY LimitsAre
    <3>4. QED
      BY <2>2, <3>1, <3>2, <3>3, AlertsHad
  <2>3. QED
    BY <1>6, <2>1, <2>2
<1>11. Named(a, "brands") \/ \E g \in S : True(g, r, a, "brands")
  <2>1. CASE "brand_performance" \in c.failures
    BY <1>3, <1>4, <2>1, NamedIs
  <2>2. CASE Had(S, c, "brand_performance")
    <3>1. a.brands \subseteq c.got["brand_performance"]
      BY <1>5, ListIs
    <3>2. QED
      BY <1>4, <2>2, <3>1, WeekBrandsHad
  <2>3. QED
    BY <1>6, <2>1, <2>2
<1>12. Named(a, "actions") \/ \E g \in S : True(g, r, a, "actions")
  <2>1. CASE "action_recommendations" \in c.failures
    BY <1>3, <1>4, <2>1, NamedIs
  <2>2. CASE Had(S, c, "action_recommendations")
    <3>1. a.actions = c.got["action_recommendations"]
      BY <1>4, ListIs
    <3>2. QED
      BY <2>2, <3>1, ActionsHad
  <2>3. QED
    BY <1>6, <2>1, <2>2
<1>13. f \in {"n", "tickets", "plan", "alerts", "brands", "actions"}
  BY <1>1, <1>3
<1>14. QED
  BY <1>1, <1>7, <1>8, <1>9, <1>10, <1>11, <1>12, <1>13 DEF WasTrue

\* The requests that reach an answer.
LEMMA AskedIs ==
    ASSUME NEW S, NEW c, Answered(S, c)
    PROVE  c.req \in Requests /\ c.req.tool \in ToolNames /\ Fits(c.req.tool, c.req)
<1>1. c.req \in Requests
  BY DEF Answered, GoodCall, Shape
<1>2. QED
  BY <1>1, RequestsFit

\* What was true of the lists of products.
LEMMA ProductsWere ==
    ASSUME NEW g, NEW r, NEW a
    PROVE  /\ Keys(a.critical) \subseteq Keys({s \in Due(g, r.tenant) : Is(r.store, s.store)})
                 => True(g, r, a, "critical")
           /\ (Cardinality(ProductsOf(r.tenant, r.brand)) <= Limits.moving =>
                  Amount(a.segments) = Amount({s \in Own(g.sales, r.tenant) :
                      (\E d \in ProductsOf(r.tenant, r.brand) : d.sku = s.sku) /\ s.week + 8 >= Today}))
                 => True(g, r, a, "segments")
<1>1. Keys(a.critical) \subseteq Keys({s \in Due(g, r.tenant) : Is(r.store, s.store)})
         => True(g, r, a, "critical")
  BY DEF True
<1>2. (Cardinality(ProductsOf(r.tenant, r.brand)) <= Limits.moving =>
          Amount(a.segments) = Amount({s \in Own(g.sales, r.tenant) :
              (\E d \in ProductsOf(r.tenant, r.brand) : d.sku = s.sku) /\ s.week + 8 >= Today}))
         => True(g, r, a, "segments")
  BY DEF True, ProductsOf, Moves
<1>3. QED
  BY <1>1, <1>2

\* Every field of the daily briefing of a store.
LEMMA StoreBriefingWasTrue ==
    ASSUME NoneIsNull, NEW S, NEW c, Answered(S, c), c.req.tool = "get_store_daily_briefing",
           NEW f \in DOMAIN Answer(c) \ {"period", "failures"}
    PROVE  WasTrue(S, c, f)
<1> DEFINE r == c.req
<1>1. PICK a, s : a = Answer(c) /\ s = Row(c.got["store_dashboard"])
  OBVIOUS
<1>2. Answer(c) = StoreBriefing(c)
  BY DEF Answer
<1>3. DOMAIN a = {"period", "n", "tickets", "alerts", "critical", "failures"}
  BY <1>1, <1>2 DEF StoreBriefing
<1>4. /\ a.period = c.period /\ a.n = s.n /\ a.tickets = s.tickets
      /\ a.alerts = {x \in List(c, "active_alerts") : x.store = r.store}
      /\ a.failures = c.failures
  BY <1>1, <1>2 DEF StoreBriefing
<1>5. \A x \in a.critical : x \in List(c, "sku_coverage") /\ StatusColor(x) \in {"RED", "YELLOW"}
  BY <1>1, <1>2 DEF StoreBriefing, First
<1>6. \A p \in {"active_alerts", "sku_coverage"} : Had(S, c, p) \/ p \in c.failures
  <2>1. Has(Program(r), Looked(r, "latest_week") \cup {"store_dashboard"},
            Looked(r, "latest_week") \cup {"store_dashboard", "active_alerts", "sku_coverage"},
            {"store_dashboard", "active_alerts", "sku_coverage"})
    BY StoreDailyHas DEF Program
  <2>2. \A p \in {"active_alerts", "sku_coverage"} : p \in Parts(Program(r))
    BY <2>1 DEF Has
  <2>3. QED
    BY <2>2, PartIs
<1>7. /\ r.store \in Stores /\ r.store # None /\ r.brand = None /\ r.severity = None
      /\ r.period \in Optional(Weeks)
  BY AskedIs, Basics DEF Fits
<1>8. c.period \in Weeks
  <2>1. ToolNeeds(r) = Looked(r, "latest_week") \cup {"store_dashboard"}
    BY DEF ToolNeeds
  <2>2. Looked(r, "latest_week") \subseteq {"latest_week"}
    BY DEF Looked
  <2>3. ToolNeeds(r) \cap Latests = Looked(r, "latest_week") /\ "latest_week" \in Latests
    BY <2>1, <2>2 DEF Latests
  <2>4. r.period \in Optional(KindOf("latest_week")) /\ KindOf("latest_week") = Weeks
    BY <1>7 DEF KindOf
  <2>5. QED
    BY <2>3, <2>4, PeriodOfAnswered
<1>9. \E g \in S : FullDb(g) /\ s \in StoreDashboard(g, r.tenant, r.store, c.period)
  <2>1. "store_dashboard" \in ToolNeeds(r)
    BY DEF ToolNeeds
  <2>2. Had(S, c, "store_dashboard") /\ ~Nothing(c.got, "store_dashboard")
    BY <2>1, NeededIs
  <2>3. c.got["store_dashboard"] # {}
    BY <2>2 DEF Nothing
  <2>4. s \in c.got["store_dashboard"]
    BY <1>1, <2>3 DEF Row
  <2>5. QED
    BY <2>2, <2>4, MainFetch DEF Had
<1>10. PICK g \in S : FullDb(g) /\ s \in StoreDashboard(g, r.tenant, r.store, c.period)
  BY <1>9
<1>11. /\ Is(c.period, s.week) /\ Is(r.store, s.id) /\ s.week \in Weeks
       /\ RowPeriod(s) = s.week /\ StoreRowIs(g, r.tenant, s)
       /\ s.tickets = Invoices(g, r.tenant, s.week, s.id)
  BY <1>10, StoresWereTrue
<1>12. s.week = c.period /\ s.id = r.store
  <2>1. c.period # None
    BY <1>8, Basics
  <2>2. QED
    BY <1>7, <1>11, <2>1 DEF Is
<1>13. True(g, r, a, "n")
  <2>1. a.n = Sold(g, r.tenant, a.period, r.brand, r.store)
    BY <1>4, <1>7, <1>11, <1>12 DEF StoreRowIs
  <2>2. QED
    BY <2>1, NumberIs
<1>14. True(g, r, a, "tickets")
  <2>1. a.tickets = Invoices(g, r.tenant, a.period, r.store)
    BY <1>4, <1>11, <1>12
  <2>2. QED
    BY <2>1, NumberIs
<1>15. Named(a, "alerts") \/ \E h \in S : True(h, r, a, "alerts")
  <2>1. CASE "active_alerts" \in c.failures
    BY <1>3, <1>4, <2>1, NamedIs
  <2>2. CASE Had(S, c, "active_alerts")
    <3>1. PICK T, rows : T = c.got["active_alerts"] /\ rows = {x \in T : x.store = r.store}
      OBVIOUS
    <3>2. a.alerts = rows
      BY <1>4, <3>1, ListIs
    <3>3. Showing(r, c.got["active_alerts"], rows)
      BY <3>1, ShowingIs
    <3>4. AlertsAsked(r.tool) \in Nat
      BY LimitsAre
    <3>5. QED
      BY <2>2, <3>2, <3>3, <3>4, AlertsHad
  <2>3. QED
    BY <1>6, <2>1, <2>2
<1>16. Named(a, "critical") \/ \E h \in S : True(h, r, a, "critical")
  <2>1. CASE "sku_coverage" \in c.failures
    BY <1>3, <1>4, <2>1, NamedIs
  <2>2. CASE Had(S, c, "sku_coverage")
    <3>1. PICK T : T = c.got["sku_coverage"]
      OBVIOUS
    <3>2. PICK h, n : /\ h \in S /\ FullDb(h)
                      /\ T = CoverageStatus(h, r.tenant, r.brand, r.store, r.status, r.sku, n)
      BY <2>2, <3>1, ListFetch DEF Had
    <3>3. \A x \in a.critical : x \in T /\ StatusColor(x) \in {"RED", "YELLOW"}
      BY <1>5, <3>1, ListIs
    <3>4. Keys(a.critical) \subseteq Keys({x \in Due(h, r.tenant) : Is(r.store, x.store)})
      BY <3>2, <3>3, CriticalAre
    <3>5. QED
      BY <3>2, <3>4, ProductsWere
  <2>3. QED
    BY <1>6, <2>1, <2>2
<1>17. f \in {"n", "tickets", "alerts", "critical"}
  BY <1>1, <1>3
<1>18. QED
  BY <1>1, <1>13, <1>14, <1>15, <1>16, <1>17 DEF WasTrue

\* Every field of the weekly review of a brand.
LEMMA BrandReviewWasTrue ==
    ASSUME NoneIsNull, NEW S, NEW c, Answered(S, c), c.req.tool = "get_brand_weekly_review",
           NEW f \in DOMAIN Answer(c) \ {"period", "failures"}
    PROVE  WasTrue(S, c, f)
<1> DEFINE r == c.req
           segments == SegmentsOf(List(c, "velocity_segmentation"))
           alerts   == {x \in List(c, "active_alerts") : x.brand = r.brand}
<1>1. PICK a, b : a = Answer(c) /\ b = Row(c.got["brand_performance"])
  OBVIOUS
<1>2. Answer(c) = [period |-> b.week, n |-> b.n, plan |-> IF b.plan = 0 THEN None ELSE b.plan,
                   alerts |-> alerts, segments |-> segments, failures |-> c.failures]
  BY <1>1 DEF Answer, BrandReview, SegmentsOf
<1> HIDE DEF segments, alerts
<1>3. DOMAIN a = {"period", "n", "plan", "alerts", "segments", "failures"}
  BY <1>1, <1>2
<1>4. /\ a.period = b.week /\ a.n = b.n /\ a.plan = IF b.plan = 0 THEN None ELSE b.plan
      /\ a.alerts = alerts /\ a.segments = segments /\ a.failures = c.failures
  BY <1>1, <1>2
<1>6. \A p \in {"active_alerts", "velocity_segmentation"} : Had(S, c, p) \/ p \in c.failures
  <2>1. Has(Program(r), {"brand_performance"},
            {"brand_performance", "active_alerts", "velocity_segmentation"},
            {"brand_performance", "active_alerts", "velocity_segmentation"})
    BY BrandWeeklyHas DEF Program
  <2>2. \A p \in {"active_alerts", "velocity_segmentation"} : p \in Parts(Program(r))
    BY <2>1 DEF Has
  <2>3. QED
    BY <2>2, PartIs
<1>7. r.brand \in Brands /\ r.brand # None /\ r.store = None /\ r.severity = None /\ r.segment = None
  BY AskedIs, Basics DEF Fits
<1>9. \E g \in S : FullDb(g) /\ b \in BrandPerformance(g, r.tenant, r.brand, c.period)
  <2>1. "brand_performance" \in ToolNeeds(r)
    BY DEF ToolNeeds
  <2>2. Had(S, c, "brand_performance") /\ ~Nothing(c.got, "brand_performance")
    BY <2>1, NeededIs
  <2>3. c.got["brand_performance"] # {}
    BY <2>2 DEF Nothing
  <2>4. b \in c.got["brand_performance"]
    BY <1>1, <2>3 DEF Row
  <2>5. QED
    BY <2>2, <2>4, MainFetch DEF Had
<1>10. PICK g \in S : FullDb(g) /\ b \in BrandPerformance(g, r.tenant, r.brand, c.period)
  BY <1>9
<1>11. /\ Is(r.brand, b.id) /\ RowPeriod(b) = b.week /\ BrandRowIs(g, r.tenant, b)
       /\ b.plan = PlanOf(r.tenant, b.week, b.id)
  BY <1>10, BrandsWereTrue
<1>12. b.id = r.brand
  BY <1>7, <1>11 DEF Is
<1>13. True(g, r, a, "n")
  <2>1. a.n = Sold(g, r.tenant, a.period, r.brand, r.store)
    BY <1>4, <1>7, <1>11, <1>12 DEF BrandRowIs
  <2>2. QED
    BY <2>1, NumberIs
<1>14. True(g, r, a, "plan")
  <2>1. \/ a.plan = PlanOf(r.tenant, a.period, r.brand)
        \/ a.plan = None /\ PlanOf(r.tenant, a.period, r.brand) = 0
    BY <1>4, <1>11, <1>12
  <2>2. QED
    BY <2>1, NumberIs
<1>15. Named(a, "alerts") \/ \E h \in S : True(h, r, a, "alerts")
  <2>1. CASE "active_alerts" \in c.failures
    BY <1>3, <1>4, <2>1, NamedIs
  <2>2. CASE Had(S, c, "active_alerts")
    <3>1. PICK T, rows : T = c.got["active_alerts"] /\ rows = {x \in T : x.brand = r.brand}
      OBVIOUS
    <3>2. a.alerts = rows
      BY <1>4, <3>1, ListIs DEF alerts
    <3>3. Showing(r, c.got["active_alerts"], rows)
      <4>1. PICK h \in S : FullDb(h) /\ T = ActiveAlerts(h, r.tenant, None, r.severity, AlertsAsked(r.tool))
        BY <2>2, <3>1, ListFetch DEF Had
      <4>2. \A x \in T : x.brand = BrandOf(r.tenant, x.sku)
        BY <4>1, BrandedAre
      <4>3. QED
        BY <3>1, <4>2, ShowingIs
    <3>4. AlertsAsked(r.tool) \in Nat
      BY LimitsAre
    <3>5. QED
      BY <2>2, <3>2, <3>3, <3>4, AlertsHad
  <2>3. QED
    BY <1>6, <2>1, <2>2
<1>16. Named(a, "segments") \/ \E h \in S : True(h, r, a, "segments")
  <2>1. CASE "velocity_segmentation" \in c.failures
    BY <1>3, <1>4, <2>1, NamedIs
  <2>2. CASE Had(S, c, "velocity_segmentation")
    <3>1. PICK T : T = c.got["velocity_segmentation"]
      OBVIOUS
    <3>2. PICK h \in S : FullDb(h) /\ T = VelocitySegmentation(h, r.tenant, None, r.brand, Limits.moving)
      BY <1>7, <2>2, <3>1, ListFetch DEF Had
    <3>3. a.segments = SegmentsOf(T)
      BY <1>4, <3>1, ListIs DEF segments
    <3>4. Limits.moving \in Nat
      BY LimitsAre DEF LimitNames
    <3>5. Cardinality(ProductsOf(r.tenant, r.brand)) <= Limits.moving =>
             Amount(SegmentsOf(T)) = Amount({s \in Own(h.sales, r.tenant) :
                 (\E d \in ProductsOf(r.tenant, r.brand) : d.sku = s.sku) /\ s.week + 8 >= Today})
      BY <1>7, <3>2, <3>4, SegmentsWereTrue
    <3>6. True(h, r, a, "segments")
      BY <3>3, <3>5, ProductsWere
    <3>7. QED
      BY <3>6
  <2>3. QED
    BY <1>6, <2>1, <2>2
<1>17. f \in {"n", "plan", "alerts", "segments"}
  BY <1>1, <1>3
<1>18. QED
  BY <1>1, <1>13, <1>14, <1>15, <1>16, <1>17 DEF WasTrue

\* Every field of the summary of a week.
LEMMA SummaryWasTrue ==
    ASSUME NoneIsNull, NEW S, NEW c, Answered(S, c), c.req.tool = "get_executive_summary",
           NEW f \in DOMAIN Answer(c) \ {"period", "failures"}
    PROVE  WasTrue(S, c, f)
<1> DEFINE r == c.req
<1>1. PICK a : a = Answer(c)
  OBVIOUS
<1>2. Answer(c) = Summary(c)
  BY DEF Answer
<1>3. DOMAIN a = {"period", "n", "tickets", "plan", "alerts"}
  BY <1>1, <1>2 DEF Summary
<1>4. /\ a.period = c.period /\ a.n = c.got["weekly_totals"].n
      /\ a.tickets = c.got["distinct_tickets"] /\ a.alerts = c.got["active_alerts"]
      /\ a.plan = IF Count(c, "plan_totals") = 0 THEN None ELSE c.got["plan_totals"]
  BY <1>1, <1>2 DEF Summary
<1>5. \A p \in {"plan_totals", "distinct_tickets", "active_alerts"} : Had(S, c, p)
  <2>1. Has(Program(r), Looked(r, "latest_week") \cup {"weekly_totals", ""},
            Looked(r, "latest_week") \cup {"weekly_totals", "plan_totals", "distinct_tickets",
                "active_alerts"}, {})
    BY ExecutiveSummaryHas DEF Program
  <2>2. /\ \A p \in {"plan_totals", "distinct_tickets", "active_alerts"} : p \in Parts(Program(r))
        /\ Gathered(Program(r)) = {}
    BY <2>1 DEF Has
  <2>3. QED
    BY <2>2, PartIs
<1>6. \E g \in S : True(g, r, a, "n")
  BY <1>4, WeekTotalsHad
<1>7. \E g \in S : True(g, r, a, "tickets")
  BY <1>4, <1>5, TicketsWereTrue
<1>8. \E g \in S : True(g, r, a, "plan")
  <2>1. a.plan = Count(c, "plan_totals") \/ (a.plan = None /\ Count(c, "plan_totals") = 0)
    BY <1>4 DEF Count
  <2>2. QED
    BY <1>4, <1>5, <2>1, PlanWasTrue
<1>9. \E g \in S : True(g, r, a, "alerts")
  <2>1. Showing(r, c.got["active_alerts"], c.got["active_alerts"])
    BY ShowingIs
  <2>2. AlertsAsked(r.tool) \in Nat
    BY LimitsAre
  <2>3. QED
    BY <1>4, <1>5, <2>1, <2>2, AlertsHad
<1>10. f \in {"n", "tickets", "plan", "alerts"}
  BY <1>1, <1>3
<1>11. QED
  BY <1>1, <1>6, <1>7, <1>8, <1>9, <1>10 DEF WasTrue

\* Every field of the briefing of a month.
LEMMA MonthBriefingWasTrue ==
    ASSUME NoneIsNull, NEW S, NEW c, Answered(S, c), c.req.tool = "get_monthly_executive_briefing",
           NEW f \in DOMAIN Answer(c) \ {"period", "failures"}
    PROVE  WasTrue(S, c, f)
<1> DEFINE r == c.req
<1>1. PICK a : a = Answer(c)
  OBVIOUS
<1>2. Answer(c) = MonthBriefing(c)
  BY DEF Answer
<1>3. DOMAIN a = {"period", "n", "previous", "alerts", "brands"}
  BY <1>1, <1>2 DEF MonthBriefing
<1>4. /\ a.period = c.period /\ a.n = c.got["month"].n /\ a.alerts = c.got["active_alerts"]
      /\ a.previous = IF c.got["previous"] = None THEN None ELSE c.got["previous"].n
  BY <1>1, <1>2 DEF MonthBriefing
<1>5. a.brands \subseteq c.got["monthly_brands"]
  BY <1>1, <1>2 DEF MonthBriefing, First
<1>6. \A p \in {"previous", "active_alerts", "monthly_brands"} : Had(S, c, p)
  <2>1. Has(Program(r), Looked(r, "latest_month") \cup {"", "month"},
            Looked(r, "latest_month") \cup {"month", "previous", "active_alerts", "monthly_brands"}, {})
    BY MonthlyExecutiveHas DEF Program
  <2>2. /\ \A p \in {"previous", "active_alerts", "monthly_brands"} : p \in Parts(Program(r))
        /\ Gathered(Program(r)) = {}
    BY <2>1 DEF Has
  <2>3. QED
    BY <2>2, PartIs
<1>7. \E g \in S : True(g, r, a, "n")
  BY <1>4, MonthTotalsHad
<1>8. \E g \in S : True(g, r, a, "previous")
  BY <1>4, <1>6, PreviousHad
<1>9. \E g \in S : True(g, r, a, "alerts")
  <2>1. Showing(r, c.got["active_alerts"], c.got["active_alerts"])
    BY ShowingIs
  <2>2. AlertsAsked(r.tool) \in Nat
    BY LimitsAre
  <2>3. QED
    BY <1>4, <1>6, <2>1, <2>2, AlertsHad
<1>10. \E g \in S : True(g, r, a, "brands")
  BY <1>4, <1>5, <1>6, MonthBrandsHad
<1>11. f \in {"n", "previous", "alerts", "brands"}
  BY <1>1, <1>3
<1>12. QED
  BY <1>1, <1>7, <1>8, <1>9, <1>10, <1>11 DEF WasTrue

\* Every field of the summary of a month.
LEMMA MonthAnswerWasTrue ==
    ASSUME NoneIsNull, NEW S, NEW c, Answered(S, c), c.req.tool = "get_monthly_summary",
           NEW f \in DOMAIN Answer(c) \ {"period", "failures"}
    PROVE  WasTrue(S, c, f)
<1> DEFINE r == c.req
<1>1. PICK a : a = Answer(c)
  OBVIOUS
<1>2. Answer(c) = MonthAnswer(c)
  BY DEF Answer
<1>3. DOMAIN a = {"period", "n", "previous", "brands", "stores", "count"}
  BY <1>1, <1>2 DEF MonthAnswer
<1>4. /\ a.period = c.period /\ a.n = c.got["month"].n
      /\ a.previous = IF c.got["previous"] = None THEN None ELSE c.got["previous"].n
      /\ a.count = Cardinality(c.got["active_alerts"])
  BY <1>1, <1>2 DEF MonthAnswer
<1>5. /\ r.brand = None => a.brands \subseteq c.got["monthly_brands"]
      /\ r.brand # None => a.brands = {}
      /\ r.store = None => a.stores \subseteq c.got["monthly_stores"]
      /\ r.store # None => a.stores = {}
  BY <1>1, <1>2 DEF MonthAnswer, First
<1>6. /\ Had(S, c, "previous") /\ Had(S, c, "active_alerts")
      /\ r.brand = None => Had(S, c, "monthly_brands")
      /\ r.store = None => Had(S, c, "monthly_stores")
  <2>1. Has(Program(r), Looked(r, "latest_month") \cup {"", "month"},
            ((Looked(r, "latest_month") \cup {"month", "previous", "active_alerts"})
                \cup (IF r.brand = None THEN {"monthly_brands"} ELSE {}))
                \cup (IF r.store = None THEN {"monthly_stores"} ELSE {}), {})
    BY MonthlySummaryHas DEF Program
  <2>2. /\ "previous" \in Parts(Program(r)) /\ "active_alerts" \in Parts(Program(r))
        /\ r.brand = None => "monthly_brands" \in Parts(Program(r))
        /\ r.store = None => "monthly_stores" \in Parts(Program(r))
        /\ Gathered(Program(r)) = {}
    BY <2>1 DEF Has
  <2>3. QED
    BY <2>2, PartIs
<1>7. \E g \in S : True(g, r, a, "n")
  BY <1>4, MonthTotalsHad
<1>8. \E g \in S : True(g, r, a, "previous")
  BY <1>4, <1>6, PreviousHad
<1>9. \E g \in S : True(g, r, a, "brands")
  <2>1. CASE r.brand = None
    BY <1>4, <1>5, <1>6, <2>1, MonthBrandsHad
  <2>2. CASE r.brand # None
    BY <1>5, <1>7, <2>2, ListingIs
  <2>3. QED
    BY <2>1, <2>2
<1>10. \E g \in S : True(g, r, a, "stores")
  <2>1. CASE r.store = None
    BY <1>4, <1>5, <1>6, <2>1, MonthStoresHad
  <2>2. CASE r.store # None
    BY <1>5, <1>7, <2>2, ListingIs
  <2>3. QED
    BY <2>1, <2>2
<1>11. \E g \in S : True(g, r, a, "count")
  <2>1. PICK n : n = Limits.counted
    OBVIOUS
  <2>2. n \in Nat /\ AlertsAsked(r.tool) = n
    BY <2>1, LimitsAre DEF LimitNames, AlertsAsked
  <2>3. PICK g \in S : /\ FullDb(g)
                       /\ c.got["active_alerts"] = ActiveAlerts(g, r.tenant, None, r.severity, n)
    BY <1>6, <2>2, ListFetch DEF Had
  <2>a. r.severity = None
    BY AskedIs DEF Fits
  <2>4. a.count = IF Alerts(g, r.tenant) <= n THEN Alerts(g, r.tenant) ELSE n
    BY <1>4, <2>2, <2>3, <2>a, CountWasTrue
  <2>5. QED
    BY <2>1, <2>4, NumberIs
<1>12. f \in {"n", "previous", "brands", "stores", "count"}
  BY <1>1, <1>3
<1>13. QED
  BY <1>1, <1>7, <1>8, <1>9, <1>10, <1>11, <1>12 DEF WasTrue

\* A row of the coverage list was asked for, and so the stock of now.
Covered(g, r, x) ==
    /\ Is(r.status, StatusColor(x)) /\ Is(r.store, x.store)
    /\ Is(r.brand, BrandOf(r.tenant, x.sku)) /\ Is(r.sku, x.sku)
    /\ \E s \in Current(g, r.tenant) :
          /\ Keys({s}) = Keys({x}) /\ s.left = x.left
          /\ StatusColor(x) \in {"RED", "YELLOW"} <=> s \in Due(g, r.tenant)

\* What was true of the rows shown as they are.
LEMMA RowsWere ==
    ASSUME NEW g, NEW r, NEW a
    PROVE  /\ (\A x \in a.sales : x.n = Amount({s \in Own(g.sales, r.tenant) :
                  s.week = x.week /\ s.sku = r.sku /\ Is(r.store, s.store)}))
                 => True(g, r, a, "sales")
           /\ a.stock = {s \in Current(g, r.tenant) : s.sku = r.sku /\ Is(r.store, s.store)}
                 => True(g, r, a, "stock")
           /\ (\A x \in a.coverage : Covered(g, r, x))
                 => True(g, r, a, "coverage")
           /\ (\A x \in a.moving : x.n = Amount({s \in Own(g.sales, r.tenant) :
                  s.sku = x.id /\ s.week + 8 >= Today}))
                 => True(g, r, a, "moving")
           /\ (~ByMonthAndBrand(r) => \A x \in a.buckets :
                  /\ x.a = BucketOf(g, r.tenant, r.period, r.scope, x.id)
                  /\ x.b = BucketOf(g, r.tenant, r.to, r.scope, x.id))
                 => True(g, r, a, "buckets")
<1>1. (\A x \in a.sales : x.n = Amount({s \in Own(g.sales, r.tenant) :
          s.week = x.week /\ s.sku = r.sku /\ Is(r.store, s.store)}))
         => True(g, r, a, "sales")
  BY DEF True
<1>2. a.stock = {s \in Current(g, r.tenant) : s.sku = r.sku /\ Is(r.store, s.store)}
         => True(g, r, a, "stock")
  BY DEF True
<1>3. (\A x \in a.coverage : Covered(g, r, x))
         => True(g, r, a, "coverage")
  BY DEF True, Covered
<1>4. (\A x \in a.moving : x.n = Amount({s \in Own(g.sales, r.tenant) :
          s.sku = x.id /\ s.week + 8 >= Today}))
         => True(g, r, a, "moving")
  BY DEF True
<1>5. (~ByMonthAndBrand(r) => \A x \in a.buckets :
          /\ x.a = BucketOf(g, r.tenant, r.period, r.scope, x.id)
          /\ x.b = BucketOf(g, r.tenant, r.to, r.scope, x.id))
         => True(g, r, a, "buckets")
  BY DEF True
<1>6. QED
  BY <1>1, <1>2, <1>3, <1>4, <1>5

\* Every field of the answer about a product.
LEMMA SkuAnswerWasTrue ==
    ASSUME NEW S, NEW c, Answered(S, c), c.req.tool = "get_sku_detail",
           NEW f \in DOMAIN Answer(c) \ {"period", "failures"}
    PROVE  WasTrue(S, c, f)
<1> DEFINE r == c.req
<1>1. PICK a : a = Answer(c)
  OBVIOUS
<1>2. Answer(c) = SkuAnswer(c)
  BY DEF Answer
<1>3. DOMAIN a = {"period", "sales", "stock", "alerts"}
  BY <1>1, <1>2 DEF SkuAnswer
<1>4. /\ a.sales = c.got["sku_sales"] /\ a.stock = c.got["sku_stock"]
      /\ a.alerts = {x \in c.got["active_alerts"] : x.sku = r.sku}
  BY <1>1, <1>2 DEF SkuAnswer
<1>5. \A p \in {"sku_sales", "sku_stock", "active_alerts"} : Had(S, c, p)
  <2>1. Has(Program(r), {"sku_master", ""}, {"sku_master", "sku_sales", "sku_stock", "active_alerts"}, {})
    BY SkuDetailHas DEF Program
  <2>2. /\ \A p \in {"sku_sales", "sku_stock", "active_alerts"} : p \in Parts(Program(r))
        /\ Gathered(Program(r)) = {}
    BY <2>1 DEF Has
  <2>3. QED
    BY <2>2, PartIs
<1>7. \E g \in S : True(g, r, a, "sales")
  <2>1. PICK g \in S : c.got["sku_sales"] = SkuSales(g, r.tenant, r.sku, r.store)
    BY <1>5, ListFetch DEF Had
  <2>2. \A x \in a.sales : x \in SkuSales(g, r.tenant, r.sku, r.store)
    BY <1>4, <2>1
  <2>3. QED
    BY <2>2, SkuSalesAre, RowsWere
<1>8. \E g \in S : True(g, r, a, "stock")
  <2>1. PICK g \in S : FullDb(g) /\ c.got["sku_stock"] = SkuStock(g, r.tenant, r.sku, r.store)
    BY <1>5, ListFetch DEF Had
  <2>2. a.stock = {s \in Current(g, r.tenant) : s.sku = r.sku /\ Is(r.store, s.store)}
    BY <1>4, <2>1, StockIs
  <2>3. QED
    BY <2>2, RowsWere
<1>9. \E g \in S : True(g, r, a, "alerts")
  <2>1. PICK T, rows : T = c.got["active_alerts"] /\ rows = {x \in T : x.sku = r.sku}
    OBVIOUS
  <2>2. a.alerts = rows
    BY <1>4, <2>1
  <2>3. Showing(r, c.got["active_alerts"], rows)
    BY <2>1, ShowingIs
  <2>4. AlertsAsked(r.tool) \in Nat
    BY LimitsAre
  <2>5. QED
    BY <1>5, <2>2, <2>3, <2>4, AlertsHad
<1>10. f \in {"sales", "stock", "alerts"}
  BY <1>1, <1>3
<1>11. QED
  BY <1>1, <1>7, <1>8, <1>9, <1>10 DEF WasTrue

\* A tool of one query has what the database had.
LEMMA OneQueryHad ==
    ASSUME NEW S, NEW c, Answered(S, c), NEW part, Asks(c, part)
    PROVE  Had(S, c, part) /\ c.period = c.req.period
<1>1. Has(Program(c.req), {""}, {part}, {})
  BY OneQueryHas DEF Asks
<1>2. Had(S, c, part)
  BY <1>1, PartIs DEF Has
<1>3. QED
  BY <1>2, OneQueryRead

\* The one field of the tools that show stores, brands, alerts or actions.
LEMMA ListedWasTrue ==
    ASSUME NEW S, NEW c, Answered(S, c),
           c.req.tool \in {"get_store_dashboard", "get_brand_performance", "get_active_alerts",
                           "get_action_recommendations"},
           NEW f \in DOMAIN Answer(c) \ {"period", "failures"}
    PROVE  WasTrue(S, c, f)
<1> DEFINE r == c.req
<1>1. PICK a : a = Answer(c)
  OBVIOUS
<1>2. Answer(c) = RowsOf(c)
  BY DEF Answer
<1>3. CASE r.tool = "get_store_dashboard"
  <2>1. a = [period |-> c.period, stores |-> c.got["store_dashboard"]]
    BY <1>1, <1>2, <1>3 DEF RowsOf
  <2>2. Had(S, c, "store_dashboard")
    BY <1>3, OneQueryHad DEF Asks, Program, PartNames, Latests
  <2>3. PICK g \in S : FullDb(g) /\ c.got["store_dashboard"] = StoreDashboard(g, r.tenant, r.store, c.period)
    BY <2>2, MainFetch DEF Had
  <2>4. \A x \in a.stores : x \in StoreDashboard(g, r.tenant, r.store, a.period)
    BY <2>1, <2>3
  <2>5. \A x \in a.stores : Is(a.period, RowPeriod(x)) /\ StoreRowIs(g, r.tenant, x)
    BY <2>3, <2>4, StoresWereTrue
  <2>6. f = "stores" /\ True(g, r, a, "stores")
    BY <1>1, <2>1, <2>5, ListingIs
  <2>7. QED
    BY <1>1, <2>6 DEF WasTrue
<1>4. CASE r.tool = "get_brand_performance"
  <2>1. a = [period |-> c.period, brands |-> c.got["brand_performance"]]
    BY <1>1, <1>2, <1>4 DEF RowsOf
  <2>2. Had(S, c, "brand_performance")
    BY <1>4, OneQueryHad DEF Asks, Program, PartNames, Latests
  <2>3. f = "brands" /\ \E g \in S : True(g, r, a, "brands")
    BY <1>1, <2>1, <2>2, WeekBrandsHad
  <2>4. QED
    BY <1>1, <2>3 DEF WasTrue
<1>5. CASE r.tool = "get_active_alerts"
  <2>1. a = [period |-> None, alerts |-> c.got["active_alerts"]]
    BY <1>1, <1>2, <1>5 DEF RowsOf
  <2>2. Had(S, c, "active_alerts")
    BY <1>5, OneQueryHad DEF Asks, Program, PartNames, Latests
  <2>3. Showing(r, c.got["active_alerts"], c.got["active_alerts"])
    BY <1>5, ShowingIs
  <2>4. AlertsAsked(r.tool) \in Nat
    BY <1>5, LimitsAre
  <2>5. f = "alerts" /\ \E g \in S : True(g, r, a, "alerts")
    BY <1>1, <2>1, <2>2, <2>3, <2>4, AlertsHad
  <2>6. QED
    BY <1>1, <2>5 DEF WasTrue
<1>6. CASE r.tool = "get_action_recommendations"
  <2>1. a = [period |-> None, actions |-> c.got["action_recommendations"]]
    BY <1>1, <1>2, <1>6 DEF RowsOf
  <2>2. Had(S, c, "action_recommendations")
    BY <1>6, OneQueryHad DEF Asks, Program, PartNames, Latests
  <2>3. f = "actions" /\ \E g \in S : True(g, r, a, "actions")
    BY <1>1, <1>6, <2>1, <2>2, ActionsHad
  <2>4. QED
    BY <1>1, <2>3 DEF WasTrue
<1>7. QED
  BY <1>3, <1>4, <1>5, <1>6

\* And of those that show coverage, products by how they sell, or two periods.
LEMMA ShownWasTrue ==
    ASSUME NEW S, NEW c, Answered(S, c),
           c.req.tool \in {"get_sku_coverage_status", "get_velocity_segmentation", "compare_periods"},
           NEW f \in DOMAIN Answer(c) \ {"period", "failures"}
    PROVE  WasTrue(S, c, f)
<1> DEFINE r == c.req
<1>1. PICK a : a = Answer(c)
  OBVIOUS
<1>2. Answer(c) = RowsOf(c)
  BY DEF Answer
<1>3. CASE r.tool = "get_sku_coverage_status"
  <2>1. a = [period |-> None, coverage |-> c.got["sku_coverage"]]
    BY <1>1, <1>2, <1>3 DEF RowsOf
  <2>2. Had(S, c, "sku_coverage")
    BY <1>3, OneQueryHad DEF Asks, Program, PartNames, Latests
  <2>3. PICK g, n : /\ g \in S /\ FullDb(g)
                   /\ c.got["sku_coverage"] =
                         CoverageStatus(g, r.tenant, r.brand, r.store, r.status, r.sku, n)
    BY <2>2, ListFetch DEF Had
  <2>4. ASSUME NEW x \in a.coverage
        PROVE  Covered(g, r, x)
    <3>1. x \in CoverageStatus(g, r.tenant, r.brand, r.store, r.status, r.sku, n)
      BY <2>1, <2>3
    <3>2. /\ Is(r.store, x.store) /\ Is(r.status, StatusColor(x)) /\ Is(r.sku, x.sku)
          /\ Is(r.brand, BrandOf(r.tenant, x.sku))
      BY <2>3, <3>1, CoverageIs
    <3>3. PICK s \in Current(g, r.tenant) :
             /\ s.store = x.store /\ s.sku = x.sku /\ s.left = x.left
             /\ StatusColor(x) \in {"RED", "YELLOW"} <=> s \in Due(g, r.tenant)
      BY <2>3, <3>1, CoverageIs
    <3>4. Keys({s}) = Keys({x})
      BY <3>3, KeysAre
    <3>5. QED
      BY <3>2, <3>3, <3>4 DEF Covered
  <2>5. True(g, r, a, "coverage")
    BY <2>4, RowsWere
  <2>6. f = "coverage"
    BY <1>1, <2>1
  <2>7. QED
    BY <1>1, <2>3, <2>5, <2>6 DEF WasTrue
<1>4. CASE r.tool = "get_velocity_segmentation"
  <2>1. a = [period |-> None, moving |-> c.got["velocity_segmentation"]]
    BY <1>1, <1>2, <1>4 DEF RowsOf
  <2>2. Had(S, c, "velocity_segmentation")
    BY <1>4, OneQueryHad DEF Asks, Program, PartNames, Latests
  <2>3. PICK g, n : g \in S /\ c.got["velocity_segmentation"] =
                                    VelocitySegmentation(g, r.tenant, r.segment, r.brand, n)
    BY <2>2, ListFetch DEF Had
  <2>4. \A x \in a.moving : x \in VelocitySegmentation(g, r.tenant, r.segment, r.brand, n)
    BY <2>1, <2>3
  <2>5. f = "moving" /\ True(g, r, a, "moving")
    BY <1>1, <2>1, <2>4, MovingIs, RowsWere
  <2>6. QED
    BY <1>1, <2>3, <2>5 DEF WasTrue
<1>5. CASE r.tool = "compare_periods"
  <2>1. a = [period |-> c.period, buckets |-> c.got["buckets"]]
    BY <1>1, <1>2, <1>5 DEF RowsOf
  <2>2. Had(S, c, "buckets")
    BY <1>5, OneQueryHad DEF Asks, Program, PartNames, Latests
  <2>3. \E g \in S : ~ByMonthAndBrand(r) => \A x \in a.buckets :
           /\ x.a = BucketOf(g, r.tenant, r.period, r.scope, x.id)
           /\ x.b = BucketOf(g, r.tenant, r.to, r.scope, x.id)
    <3>1. CASE ByMonthAndBrand(r)
      BY <2>2, <3>1 DEF Had
    <3>2. CASE ~ByMonthAndBrand(r)
      <4>1. PICK g \in S : Compares(g, r.tenant, r.period, r.to, r.scope, c.got["buckets"])
        BY <1>5, <3>2, ComparisonWasTrue
      <4>2. \A x \in a.buckets : /\ x.a = BucketOf(g, r.tenant, r.period, r.scope, x.id)
                                 /\ x.b = BucketOf(g, r.tenant, r.to, r.scope, x.id)
        BY <2>1, <4>1 DEF Compares
      <4>3. QED
        BY <4>2
    <3>3. QED
      BY <3>1, <3>2
  <2>4. f = "buckets" /\ \E g \in S : True(g, r, a, "buckets")
    BY <1>1, <2>1, <2>3, RowsWere
  <2>5. QED
    BY <1>1, <2>4 DEF WasTrue
<1>6. QED
  BY <1>3, <1>4, <1>5

\* At all times every figure and alert of an answer was true, in a state
\* of the database during the call, of the tenant, the week or month and the
\* brand, store or product it names, or the answer names the query that failed.
THEOREM AnswersWereTrue ==
    ASSUME NoneIsNull
    PROVE  Spec => []FiguresWereTrue
<1>1. ASSUME NEW S, NEW c, Answered(S, c), NEW f \in DOMAIN Answer(c) \ {"period", "failures"}
      PROVE  WasTrue(S, c, f)
  <2>1. c.req.tool \in ToolNames
    BY <1>1, AskedIs
  <2>2. QED
    BY <1>1, <2>1, WeeklyBriefingWasTrue, StoreBriefingWasTrue, BrandReviewWasTrue, SummaryWasTrue,
       MonthAnswerWasTrue, MonthBriefingWasTrue, SkuAnswerWasTrue, ListedWasTrue, ShownWasTrue
       DEF ToolNames
<1>2. IInv /\ FInv => FiguresWereTrue
  BY <1>1, AnsweredIs DEF FiguresWereTrue, WasTrue
<1>3. QED
  BY AlwaysFull, <1>2, PTL

=============================================================================
