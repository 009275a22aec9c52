-------------------------- MODULE ServicePanelsProofs --------------------------
(***************************************************************************)
(* Proofs about ServicePanels, for any coroutines, tenants, roles, times   *)
(* to live, month length and number of queries: the type invariant, that   *)
(* the figures of a panel agree, and that neither cache answers anything   *)
(* older than it promises.                                                 *)
(***************************************************************************)
EXTENDS ServicePanels, SequenceTheorems, TLAPS

-----------------------------------------------------------------------------
(* The invariant.  Whatever is kept, in a cache or in a coroutine, is dated *)
(* with a time that is over, and knows all that was there at that time.    *)

Row == [tenant : Tenants, at : Times, success : BOOLEAN]
PanelType == [at : Times, month : Times, read : [1..Queries -> SUBSET Rows]]
QuestionsType == [at : Times, role : Roles, seen : SUBSET Times]

\* The figures read so far agree, and count what was over when they were asked for.
GoodPanel(t, at, month, read) ==
    /\ at \in Times /\ at <= clock /\ month = Month(at)
    /\ \A n \in DOMAIN read : read[n] \subseteq Successes(t, month)
    /\ \A n \in DOMAIN read \ {1} : read[n - 1] \subseteq read[n]
    /\ \A n \in DOMAIN read : \A i \in Successes(t, month) : audit[i].at < at => i \in read[n]

\* The alerts seen are those of now, unless they changed since.
GoodQuestions(t, at, seen) ==
    /\ at \in Times /\ at <= clock
    /\ \A x \in seen : x = alerts[t] \/ at <= alerts[t]

\* A coroutine, as TypeOK has it.
CallTyped(x) ==
    \/ x = Idle
    \/ /\ x.pc = "counting" /\ x.tenant \in Tenants
       /\ {x.now, x.month} \subseteq Times
       /\ x.read \in Seq(SUBSET Rows) /\ Len(x.read) <= Queries
    \/ /\ x.pc \in {"alerts", "claude"} /\ x.now \in Times
       /\ Key(x.tenant, x.role) \in Tenants \X Roles
       /\ x.pc = "claude" => x.seen \subseteq Times

Counter == [pc : {"counting"}, tenant : Tenants, now : Times, month : Times,
            read : Seq(SUBSET Rows)]

CallGood(x) ==
    /\ x.pc = "counting" => x \in Counter /\ GoodPanel(x.tenant, x.now, x.month, x.read)
    /\ x.pc = "alerts" => x.now <= clock
    /\ x.pc = "claude" => GoodQuestions(x.tenant, x.now, x.seen)

Dated ==
    /\ \A i \in DOMAIN audit : audit[i].at <= clock
    /\ \A t \in Tenants : alerts[t] <= clock

MetricsGood ==
    \A t \in DOMAIN metrics :
        GoodPanel(t, metrics[t].at, metrics[t].month, metrics[t].read)

SuggestionsGood ==
    \A t \in Tenants, r \in Roles : Key(t, r) \in DOMAIN suggestions =>
        /\ suggestions[Key(t, r)].role = r
        /\ GoodQuestions(t, suggestions[Key(t, r)].at, suggestions[Key(t, r)].seen)

CallsGood == DOMAIN call = Calls /\ \A c \in Calls : CallGood(call[c])

IInv ==
    /\ TypeOK
    /\ Dated
    /\ MetricsGood
    /\ SuggestionsGood
    /\ CallsGood

-----------------------------------------------------------------------------
(* Operators.                                                              *)

LEMMA Positive ==
    /\ MetricsTTL \in Nat /\ SuggestionsTTL \in Nat /\ MonthLength \in Nat /\ Queries \in Nat
    /\ MetricsTTL > 0 /\ SuggestionsTTL > 0 /\ MonthLength > 0 /\ Queries > 0
    /\ MaxClock \in Nat /\ MaxRows \in Nat /\ MaxMisses \in Nat
  BY PanelsAssumption

\* The month of a time ends after it.
LEMMA MonthSpec ==
    ASSUME NEW at \in Times
    PROVE  Month(at) \in Times /\ at < MonthLength * (Month(at) + 1)
<1>1. at \in Nat /\ at <= MaxClock
  BY Positive DEF Times
<1>2. MonthLength \in Nat /\ MonthLength > 0
  BY Positive
<1>3. /\ at \div MonthLength \in Nat
      /\ at \div MonthLength <= at
      /\ at < MonthLength * ((at \div MonthLength) + 1)
  BY <1>1, <1>2
<1>4. QED
  BY <1>1, <1>3, Positive DEF Month, Times

-----------------------------------------------------------------------------
(* What a step of the environment leaves true.                             *)

\* Time passes, turns are audited and alerts change, each at the time it is.
Passes ==
    /\ clock' \in Times /\ clock <= clock'
    /\ \A i \in DOMAIN audit : i \in DOMAIN audit' /\ audit'[i] = audit[i]
    /\ \A i \in DOMAIN audit' : i \in DOMAIN audit \/ audit'[i].at = clock
    /\ \A t \in Tenants : alerts'[t] = alerts[t] \/ alerts'[t] = clock

\* The rows of a window stay, and those that come are not older than the step.
LEMMA SuccessesGrow ==
    ASSUME Passes, NEW t, NEW m
    PROVE  /\ Successes(t, m) \subseteq Successes(t, m)'
           /\ \A i \in Successes(t, m)' : /\ i \in DOMAIN audit'
                                          /\ i \in Successes(t, m) \/ audit'[i].at = clock
           /\ \A i \in Successes(t, m) : audit'[i] = audit[i]
  BY DEF Passes, Successes

LEMMA GoodPanelStays ==
    ASSUME TypeOK, Passes, NEW t, NEW at \in Times, NEW month, NEW read,
           GoodPanel(t, at, month, read)
    PROVE  GoodPanel(t, at, month, read)'
<1>1. at <= clock' /\ month = Month(at)
  <2>1. at <= clock /\ clock <= clock' /\ month = Month(at)
    BY DEF GoodPanel, Passes
  <2>2. clock \in Nat /\ clock' \in Nat /\ at \in Nat
    BY Positive DEF TypeOK, Passes, Times
  <2>3. QED
    BY <2>1, <2>2
<1>2. \A n \in DOMAIN read : read[n] \subseteq Successes(t, month)'
  <2>1. \A n \in DOMAIN read : read[n] \subseteq Successes(t, month)
    BY DEF GoodPanel
  <2>2. QED
    BY <2>1, SuccessesGrow
<1>3. \A n \in DOMAIN read : \A i \in Successes(t, month)' : audit'[i].at < at => i \in read[n]
  <2>1. SUFFICES ASSUME NEW n \in DOMAIN read, NEW i \in Successes(t, month)', audit'[i].at < at
                 PROVE  i \in read[n]
    OBVIOUS
  <2>2. at <= clock /\ clock \in Nat /\ at \in Nat
    BY Positive DEF GoodPanel, TypeOK, Times
  <2>3. audit'[i].at # clock
    BY <2>1, <2>2
  <2>4. i \in Successes(t, month) /\ audit'[i] = audit[i]
    BY <2>3, SuccessesGrow
  <2>5. audit[i].at < at
    BY <2>1, <2>4
  <2>6. QED
    BY <2>4, <2>5 DEF GoodPanel
<1>4. \A n \in DOMAIN read \ {1} : read[n - 1] \subseteq read[n]
  BY DEF GoodPanel
<1>5. QED
  BY <1>1, <1>2, <1>3, <1>4 DEF GoodPanel, Month

LEMMA GoodQuestionsStay ==
    ASSUME TypeOK, Passes, NEW t \in Tenants, NEW at \in Times, NEW seen,
           GoodQuestions(t, at, seen)
    PROVE  GoodQuestions(t, at, seen)'
<1>1. clock \in Nat /\ clock' \in Nat /\ at \in Nat /\ clock <= clock'
  BY Positive DEF TypeOK, Passes, Times
<1>2. at <= clock /\ \A x \in seen : x = alerts[t] \/ at <= alerts[t]
  BY DEF GoodQuestions
<1>3. alerts'[t] = alerts[t] \/ alerts'[t] = clock
  BY DEF Passes
<1>4. at <= clock'
  BY <1>1, <1>2
<1>5. \A x \in seen : x = alerts'[t] \/ at <= alerts'[t]
  BY <1>2, <1>3
<1>6. QED
  BY <1>4, <1>5 DEF GoodQuestions

LEMMA CallGoodStays ==
    ASSUME TypeOK, Passes, NEW x, CallTyped(x), CallGood(x)
    PROVE  CallGood(x)'
<1>1. CASE x = Idle
  BY <1>1 DEF Idle, CallGood
<1>2. CASE x.pc = "counting" /\ x.now \in Times
  <2>1. GoodPanel(x.tenant, x.now, x.month, x.read)
    BY <1>2 DEF CallGood
  <2>2. GoodPanel(x.tenant, x.now, x.month, x.read)'
    BY <1>2, <2>1, GoodPanelStays
  <2>3. QED
    BY <1>2, <2>2 DEF CallGood
<1>3. CASE x.pc \in {"alerts", "claude"} /\ x.now \in Times /\ x.tenant \in Tenants
  <2>1. x.pc = "alerts" => x.now <= clock'
    <3>1. clock \in Nat /\ clock' \in Nat /\ x.now \in Nat /\ clock <= clock'
      BY <1>3, Positive DEF TypeOK, Passes, Times
    <3>2. x.pc = "alerts" => x.now <= clock
      BY DEF CallGood
    <3>3. QED
      BY <3>1, <3>2
  <2>2. x.pc = "claude" => GoodQuestions(x.tenant, x.now, x.seen)'
    <3>1. x.pc = "claude" => GoodQuestions(x.tenant, x.now, x.seen)
      BY DEF CallGood
    <3>2. QED
      BY <1>3, <3>1, GoodQuestionsStay
  <2>3. QED
    BY <1>3, <2>1, <2>2 DEF CallGood
<1>4. QED
  BY <1>1, <1>2, <1>3 DEF CallTyped, Key

-----------------------------------------------------------------------------
(* Steps, part by part.                                                    *)

EnvironmentOK ==
    /\ clock \in Times
    /\ audit \in Seq(Row) /\ Len(audit) <= MaxRows
    /\ alerts \in [Tenants -> Times]
    /\ Dated

CallsMove ==
    /\ DOMAIN call' = Calls
    /\ \A c \in Calls : \E x : x = call'[c] /\ CallTyped(x) /\ CallGood(x)

MetricsMove ==
    /\ DOMAIN metrics' \subseteq Tenants
    /\ \A t \in DOMAIN metrics' : \E p \in PanelType :
           p = metrics'[t] /\ GoodPanel(t, p.at, p.month, p.read)

SuggestionsMove ==
    /\ DOMAIN suggestions' \subseteq Tenants \X Roles
    /\ \A t \in Tenants, r \in Roles : Key(t, r) \in DOMAIN suggestions' =>
           \E q \in QuestionsType :
               q = suggestions'[Key(t, r)] /\ q.role = r /\ GoodQuestions(t, q.at, q.seen)

\* TypeOK by its parts.
LEMMA TypeParts ==
    TypeOK <=>
        /\ clock \in Times /\ misses \in 0..MaxMisses
        /\ audit \in Seq(Row) /\ Len(audit) <= MaxRows
        /\ alerts \in [Tenants -> Times]
        /\ DOMAIN metrics \subseteq Tenants
        /\ \A t \in DOMAIN metrics : metrics[t] \in PanelType
        /\ DOMAIN suggestions \subseteq Tenants \X Roles
        /\ \A k \in DOMAIN suggestions : suggestions[k] \in QuestionsType
        /\ \A c \in Calls : CallTyped(call[c])
  BY Zenon DEF TypeOK, Row, PanelType, QuestionsType, CallTyped

LEMMA StepInv ==
    ASSUME IInv, Passes, EnvironmentOK', misses' \in 0..MaxMisses,
           CallsMove, MetricsMove, SuggestionsMove
    PROVE  IInv'
<1>t. TypeOK
  BY DEF IInv
<1>1. CallsGood' /\ \A c \in Calls : CallTyped(call'[c])
  <2>1. SUFFICES ASSUME NEW c \in Calls PROVE CallTyped(call'[c]) /\ CallGood(call[c])'
    BY DEF CallsMove, CallsGood
  <2>2. PICK x : x = call'[c] /\ CallTyped(x) /\ CallGood(x)
    BY DEF CallsMove
  <2>3. CallGood(x)'
    BY <1>t, <2>2, CallGoodStays
  <2>4. QED
    BY <2>2, <2>3 DEF CallGood, GoodPanel, GoodQuestions, Successes
<1>2. MetricsGood' /\ DOMAIN metrics' \subseteq Tenants /\ \A t \in DOMAIN metrics' : metrics'[t] \in PanelType
  <2>1. SUFFICES ASSUME NEW t \in DOMAIN metrics'
                 PROVE  /\ metrics'[t] \in PanelType
                        /\ GoodPanel(t, metrics[t].at, metrics[t].month, metrics[t].read)'
    BY DEF MetricsMove, MetricsGood
  <2>2. PICK p \in PanelType : p = metrics'[t] /\ GoodPanel(t, p.at, p.month, p.read)
    BY DEF MetricsMove
  <2>3. PICK at \in Times, month \in Times, read \in [1..Queries -> SUBSET Rows] :
            at = p.at /\ month = p.month /\ read = p.read
    BY DEF PanelType
  <2>4. GoodPanel(t, at, month, read)'
    BY <1>t, <2>2, <2>3, GoodPanelStays
  <2>5. QED
    BY <2>2, <2>3, <2>4 DEF GoodPanel, Successes
<1>3. /\ SuggestionsGood' /\ DOMAIN suggestions' \subseteq Tenants \X Roles
      /\ \A k \in DOMAIN suggestions' : suggestions'[k] \in QuestionsType
  <2>1. ASSUME NEW t \in Tenants, NEW r \in Roles, Key(t, r) \in DOMAIN suggestions'
        PROVE  /\ suggestions'[Key(t, r)] \in QuestionsType
               /\ suggestions'[Key(t, r)].role = r
               /\ GoodQuestions(t, suggestions[Key(t, r)].at, suggestions[Key(t, r)].seen)'
    <3>1. PICK q \in QuestionsType :
              q = suggestions'[Key(t, r)] /\ q.role = r /\ GoodQuestions(t, q.at, q.seen)
      BY <2>1 DEF SuggestionsMove
    <3>2. PICK at \in Times, seen \in SUBSET Times : at = q.at /\ seen = q.seen
      BY DEF QuestionsType
    <3>3. GoodQuestions(t, at, seen)'
      BY <1>t, <3>1, <3>2, GoodQuestionsStay
    <3>4. QED
      BY <3>1, <3>2, <3>3 DEF GoodQuestions, Key
  <2>2. DOMAIN suggestions' \subseteq Tenants \X Roles
    BY DEF SuggestionsMove
  <2>3. ASSUME NEW k \in DOMAIN suggestions' PROVE suggestions'[k] \in QuestionsType
    <3>1. k[1] \in Tenants /\ k[2] \in Roles /\ k = Key(k[1], k[2])
      BY <2>2 DEF Key
    <3>2. QED
      BY <2>1, <2>3, <3>1
  <2>4. SuggestionsGood'
    BY <2>1 DEF SuggestionsGood, Key
  <2>5. QED
    BY <2>2, <2>3, <2>4
<1>4. TypeOK' /\ Dated'
  <2>1. /\ clock' \in Times /\ misses' \in 0..MaxMisses
        /\ audit' \in Seq(Row) /\ Len(audit') <= MaxRows
        /\ alerts' \in [Tenants -> Times]
    BY DEF EnvironmentOK
  <2>2. Dated'
    BY DEF EnvironmentOK
  <2>3. QED
    BY <1>1, <1>2, <1>3, <2>1, <2>2, Zenon
    DEF TypeOK, Row, PanelType, QuestionsType, CallTyped, Times, Rows, Idle, Key
<1>5. QED
  BY <1>1, <1>2, <1>3, <1>4 DEF IInv

-----------------------------------------------------------------------------
(* Steps.                                                                  *)

LEMMA EnvironmentSame ==
    ASSUME IInv, UNCHANGED environment
    PROVE  Passes /\ EnvironmentOK'
<1>1. clock' = clock /\ audit' = audit /\ alerts' = alerts
  BY DEF environment
<1>2. clock \in Nat /\ clock \in Times
  BY TypeParts, Positive DEF IInv, Times
<1>3. Passes
  BY <1>1, <1>2 DEF Passes
<1>4. EnvironmentOK
  BY TypeParts DEF IInv, EnvironmentOK
<1>5. EnvironmentOK'
  BY <1>1, <1>4 DEF EnvironmentOK, Dated
<1>6. QED
  BY <1>3, <1>5

LEMMA MetricsSame == ASSUME IInv, metrics' = metrics PROVE MetricsMove
  BY TypeParts DEF IInv, MetricsGood, MetricsMove

LEMMA SuggestionsSame == ASSUME IInv, suggestions' = suggestions PROVE SuggestionsMove
  BY TypeParts DEF IInv, SuggestionsGood, SuggestionsMove

LEMMA CallsSame == ASSUME IInv, call' = call PROVE CallsMove
  BY TypeParts DEF IInv, CallsGood, CallsMove

LEMMA OneCallMoves ==
    ASSUME IInv, NEW c \in Calls, NEW x, CallTyped(x), CallGood(x),
           call' = [call EXCEPT ![c] = x]
    PROVE  CallsMove
<1>1. DOMAIN call = Calls /\ \A d \in Calls : CallTyped(call[d]) /\ CallGood(call[d])
  BY TypeParts DEF IInv, CallsGood
<1>2. DOMAIN call' = Calls /\ \A d \in Calls : call'[d] = IF d = c THEN x ELSE call[d]
  BY <1>1
<1>3. QED
  BY <1>1, <1>2 DEF CallsMove

LEMMA IdleIsGood == CallTyped(Idle) /\ CallGood(Idle)
  BY DEF Idle, CallTyped, CallGood

\* A request for the metrics that misses.
LEMMA AskMetricsInv ==
    ASSUME IInv, NEW c \in Calls, NEW t \in Tenants, AskMetrics(c, t)
    PROVE  IInv'
<1> DEFINE y == [pc |-> "counting", tenant |-> t, now |-> clock, month |-> Month(clock),
                 read |-> <<>>]
<1>1. /\ call' = [call EXCEPT ![c] = y] /\ misses < MaxMisses /\ misses' = misses + 1
      /\ UNCHANGED environment /\ metrics' = metrics /\ suggestions' = suggestions
  BY DEF AskMetrics, Free
<1>2. clock \in Times /\ Month(clock) \in Times /\ misses \in 0..MaxMisses /\ clock \in Nat
  BY TypeParts, MonthSpec, Positive DEF IInv, Times
<1>3. PICK x : x = y
  OBVIOUS
<1>4. CallTyped(x)
  BY <1>2, <1>3, Positive DEF CallTyped
<1>5. CallGood(x)
  <2>1. GoodPanel(t, clock, Month(clock), <<>>)
    BY <1>2 DEF GoodPanel
  <2>2. x \in Counter
    BY <1>2, <1>3 DEF Counter
  <2>3. QED
    BY <1>3, <2>1, <2>2 DEF CallGood
<1>6. misses' \in 0..MaxMisses
  BY <1>1, <1>2, Positive
<1>7. CallsMove
  BY <1>1, <1>3, <1>4, <1>5, OneCallMoves
<1>8. QED
  BY <1>1, <1>6, <1>7, EnvironmentSame, MetricsSame, SuggestionsSame, StepInv

\* A coroutine that is counting, by its parts.
LEMMA CountingSpec ==
    ASSUME IInv, NEW c \in Calls, call[c].pc = "counting"
    PROVE  /\ call[c] \in Counter /\ Len(call[c].read) <= Queries
           /\ GoodPanel(call[c].tenant, call[c].now, call[c].month, call[c].read)
<1>1. CallTyped(call[c]) /\ CallGood(call[c])
  BY TypeParts DEF IInv, CallsGood
<1>2. call[c] # Idle
  BY DEF Idle
<1>3. QED
  BY <1>1, <1>2 DEF CallTyped, CallGood

\* The rows counted are rows.
LEMMA SuccessesAreRows ==
    ASSUME IInv, NEW t, NEW m
    PROVE  Successes(t, m) \in SUBSET Rows
<1>1. audit \in Seq(Row) /\ Len(audit) <= MaxRows
  BY TypeParts DEF IInv
<1>2. Len(audit) \in Nat /\ MaxRows \in Nat
  BY <1>1, LenProperties, Positive
<1>3. \A i \in DOMAIN audit : i \in 1..Len(audit)
  BY <1>1, LenProperties
<1>4. \A i \in 1..Len(audit) : i \in 1..MaxRows
  BY <1>1, <1>2
<1>5. QED
  BY <1>3, <1>4 DEF Successes, Rows

\* One more query over the same window agrees with those before it.
LEMMA CountedMore ==
    ASSUME NEW t, NEW at, NEW month, NEW read \in Seq(SUBSET Rows), NEW rows \in SUBSET Rows,
           GoodPanel(t, at, month, read), rows = Successes(t, month)
    PROVE  GoodPanel(t, at, month, Append(read, rows))
<1> DEFINE more == Append(read, rows)
<1>1. /\ more \in Seq(SUBSET Rows) /\ Len(more) = Len(read) + 1
      /\ \A n \in 1..Len(read) : more[n] = read[n]
      /\ more[Len(read) + 1] = rows
      /\ Len(read) \in Nat
  BY AppendProperties, LenProperties
<1>2. \A n \in DOMAIN read : n \in 1..Len(read)
  BY LenProperties
<1>3. \A n \in 1..Len(read) : n \in DOMAIN read
  BY LenProperties
<1>4. \A n \in DOMAIN more : n \in 1..Len(read) + 1
  BY <1>1, LenProperties
<1> HIDE DEF more
<1>5. \A n \in 1..Len(read) + 1 : n \in 1..Len(read) \/ n = Len(read) + 1
  BY <1>1
<1>6. \A n \in DOMAIN more : (n \in DOMAIN read /\ more[n] = read[n]) \/ (n = Len(read) + 1 /\ more[n] = rows)
  BY <1>1, <1>3, <1>4, <1>5
<1>7. ASSUME NEW n \in DOMAIN more \ {1} PROVE more[n - 1] \subseteq more[n]
  <2>1. CASE n \in DOMAIN read /\ more[n] = read[n]
    <3>1. n - 1 \in 1..Len(read)
      <4>1. n \in 1..Len(read) /\ n # 1
        BY <1>2, <2>1
      <4>2. \A k \in Nat : \A i \in 1..k : i # 1 => i - 1 \in 1..k
        OBVIOUS
      <4>3. QED
        BY <1>1, <4>1, <4>2
    <3>2. more[n - 1] = read[n - 1]
      BY <1>1, <3>1
    <3>3. read[n - 1] \subseteq read[n]
      BY <1>7, <2>1 DEF GoodPanel
    <3>4. QED
      BY <2>1, <3>2, <3>3
  <2>2. CASE n = Len(read) + 1 /\ more[n] = rows
    <3>1. n - 1 \in 1..Len(read)
      BY <1>1, <1>7, <2>2
    <3>2. more[n - 1] = read[n - 1] /\ n - 1 \in DOMAIN read
      BY <1>1, <1>3, <3>1
    <3>3. read[n - 1] \subseteq rows
      BY <3>2 DEF GoodPanel
    <3>4. QED
      BY <2>2, <3>2, <3>3
  <2>3. QED
    BY <1>6, <2>1, <2>2
<1>8. \A n \in DOMAIN more : more[n] \subseteq Successes(t, month)
  BY <1>6 DEF GoodPanel
<1>9. \A n \in DOMAIN more : \A i \in Successes(t, month) : audit[i].at < at => i \in more[n]
  BY <1>6 DEF GoodPanel
<1>10. GoodPanel(t, at, month, more)
  BY <1>7, <1>8, <1>9 DEF GoodPanel
<1>11. QED
  BY <1>10 DEF more

\* A query answers.
LEMMA CountInv ==
    ASSUME IInv, NEW c \in Calls, Count(c)
    PROVE  IInv'
<1>1. /\ call[c].pc = "counting" /\ Len(call[c].read) < Queries
      /\ call' = [call EXCEPT ![c].read = Append(@, Successes(call[c].tenant, call[c].month))]
      /\ UNCHANGED environment /\ metrics' = metrics /\ suggestions' = suggestions
      /\ misses' = misses
  BY DEF Count, Counting
<1>2. PICK old \in Counter : old = call[c]
  BY <1>1, CountingSpec
<1>3. GoodPanel(old.tenant, old.now, old.month, old.read) /\ old.read \in Seq(SUBSET Rows)
  BY <1>1, <1>2, CountingSpec DEF Counter
<1>4. PICK rows \in SUBSET Rows : rows = Successes(old.tenant, old.month)
  BY SuccessesAreRows
<1>5. GoodPanel(old.tenant, old.now, old.month, Append(old.read, rows))
  BY <1>3, <1>4, CountedMore
<1>6. PICK more \in Seq(SUBSET Rows) : more = Append(old.read, rows) /\ Len(more) = Len(old.read) + 1
  <2>1. PICK read \in Seq(SUBSET Rows) : read = old.read
    BY <1>3
  <2>2. Append(read, rows) \in Seq(SUBSET Rows) /\ Len(Append(read, rows)) = Len(read) + 1
    BY AppendProperties
  <2>3. QED
    BY <2>1, <2>2, Zenon
<1>7. PICK x \in Counter : x = [old EXCEPT !.read = more]
  BY DEF Counter
<1>8. /\ x.pc = "counting" /\ x.tenant = old.tenant /\ x.now = old.now /\ x.month = old.month
      /\ x.read = more
  BY <1>7 DEF Counter
<1>9. CallGood(x)
  BY <1>5, <1>6, <1>8 DEF CallGood
<1>10. CallTyped(x)
  <2>1. Len(old.read) \in Nat /\ Len(old.read) < Queries
    BY <1>1, <1>2, <1>3, LenProperties
  <2>2. Len(more) <= Queries
    BY <1>6, <2>1, Positive
  <2>3. x.tenant \in Tenants /\ x.now \in Times /\ x.month \in Times
    BY DEF Counter
  <2>4. QED
    BY <1>8, <2>2, <2>3 DEF CallTyped
<1>11. call' = [call EXCEPT ![c] = x]
  <2>1. call' = [call EXCEPT ![c] = [call[c] EXCEPT !.read = Append(call[c].read, Successes(call[c].tenant, call[c].month))]]
    BY <1>1
  <2>2. QED
    BY <1>2, <1>4, <1>6, <1>7, <2>1
<1>12. CallsMove
  BY <1>9, <1>10, <1>11, OneCallMoves
<1>13. misses' \in 0..MaxMisses
  BY <1>1, TypeParts DEF IInv
<1>14. QED
  BY <1>1, <1>12, <1>13, EnvironmentSame, MetricsSame, SuggestionsSame, StepInv

\* A query raises.
LEMMA CountFailsInv ==
    ASSUME IInv, NEW c \in Calls, CountFails(c)
    PROVE  IInv'
<1>1. /\ call' = [call EXCEPT ![c] = Idle]
      /\ UNCHANGED environment /\ metrics' = metrics /\ suggestions' = suggestions
      /\ misses' = misses
  BY DEF CountFails
<1>2. CallsMove
  BY <1>1, IdleIsGood, OneCallMoves
<1>3. misses' \in 0..MaxMisses
  BY <1>1, TypeParts DEF IInv
<1>4. QED
  BY <1>1, <1>2, <1>3, EnvironmentSame, MetricsSame, SuggestionsSame, StepInv

\* The panel is stored.
LEMMA StoreMetricsInv ==
    ASSUME IInv, NEW c \in Calls, StoreMetrics(c)
    PROVE  IInv'
<1>1. /\ call[c].pc = "counting" /\ Len(call[c].read) = Queries
      /\ metrics' = Put(metrics, call[c].tenant, Panel(c))
      /\ call' = [call EXCEPT ![c] = Idle]
      /\ UNCHANGED environment /\ suggestions' = suggestions /\ misses' = misses
  BY DEF StoreMetrics, Counted
<1>2. PICK old \in Counter : old = call[c]
  BY <1>1, CountingSpec
<1>3. GoodPanel(old.tenant, old.now, old.month, old.read)
  BY <1>1, <1>2, CountingSpec
<1>4. PICK t \in Tenants : t = old.tenant
  BY DEF Counter
<1>5. PICK read \in Seq(SUBSET Rows) : read = old.read
  BY DEF Counter
<1>6. read \in [1..Queries -> SUBSET Rows]
  <2>1. Len(read) = Queries
    BY <1>1, <1>2, <1>5
  <2>2. read \in [1..Len(read) -> SUBSET Rows]
    BY LenProperties
  <2>3. QED
    BY <2>1, <2>2
<1>7. PICK p \in PanelType : p = Panel(c) /\ p.at = old.now /\ p.month = old.month /\ p.read = old.read
  <2>1. Panel(c) = [at |-> old.now, month |-> old.month, read |-> read]
    BY <1>2, <1>5 DEF Panel
  <2>2. [at |-> old.now, month |-> old.month, read |-> read] \in PanelType
    BY <1>6 DEF PanelType, Counter
  <2>3. QED
    BY <1>5, <2>1, <2>2
<1>8. GoodPanel(t, p.at, p.month, p.read)
  BY <1>3, <1>4, <1>7
<1>9. /\ DOMAIN metrics' = DOMAIN metrics \cup {t} /\ metrics'[t] = p
      /\ \A key \in DOMAIN metrics \ {t} : metrics'[key] = metrics[key]
  <2>1. metrics' = Put(metrics, t, p)
    BY <1>1, <1>2, <1>4, <1>7
  <2>2. metrics' = [key \in DOMAIN metrics \cup {t} |-> IF key = t THEN p ELSE metrics[key]]
    BY <2>1 DEF Put
  <2>3. QED
    BY <2>2
<1>10. MetricsMove
  <2>1. DOMAIN metrics \subseteq Tenants
    BY TypeParts DEF IInv
  <2>2. \A key \in DOMAIN metrics : /\ metrics[key] \in PanelType
                                    /\ GoodPanel(key, metrics[key].at, metrics[key].month, metrics[key].read)
    BY TypeParts DEF IInv, MetricsGood
  <2>3. ASSUME NEW key \in DOMAIN metrics'
        PROVE  \E q \in PanelType : q = metrics'[key] /\ GoodPanel(key, q.at, q.month, q.read)
    <3>1. CASE key = t
      BY <1>8, <1>9, <3>1
    <3>2. CASE key # t
      BY <1>9, <2>2, <2>3, <3>2
    <3>3. QED
      BY <3>1, <3>2
  <2>4. QED
    BY <1>9, <2>1, <2>3 DEF MetricsMove
<1>11. CallsMove
  BY <1>1, IdleIsGood, OneCallMoves
<1>12. misses' \in 0..MaxMisses
  BY <1>1, TypeParts DEF IInv
<1>13. QED
  BY <1>1, <1>10, <1>11, <1>12, EnvironmentSame, SuggestionsSame, StepInv

\* A request for the suggestions that misses.
LEMMA AskSuggestionsInv ==
    ASSUME IInv, NEW c \in Calls, NEW t \in Tenants, NEW r \in Roles, AskSuggestions(c, t, r)
    PROVE  IInv'
<1> DEFINE y == [pc |-> "alerts", tenant |-> t, role |-> r, now |-> clock]
<1>1. /\ call' = [call EXCEPT ![c] = y] /\ misses < MaxMisses /\ misses' = misses + 1
      /\ UNCHANGED environment /\ metrics' = metrics /\ suggestions' = suggestions
  BY DEF AskSuggestions, Free
<1>2. clock \in Times /\ misses \in 0..MaxMisses /\ clock \in Nat
  BY TypeParts, Positive DEF IInv, Times
<1>3. PICK x : x = y
  OBVIOUS
<1>4. CallTyped(x)
  BY <1>2, <1>3 DEF CallTyped, Key
<1>5. CallGood(x)
  BY <1>2, <1>3 DEF CallGood
<1>6. misses' \in 0..MaxMisses
  BY <1>1, <1>2, Positive
<1>7. CallsMove
  BY <1>1, <1>3, <1>4, <1>5, OneCallMoves
<1>8. QED
  BY <1>1, <1>6, <1>7, EnvironmentSame, MetricsSame, SuggestionsSame, StepInv

\* A coroutine of the suggestions, by its parts.
LEMMA AskingSpec ==
    ASSUME IInv, NEW c \in Calls, call[c].pc \in {"alerts", "claude"}
    PROVE  /\ call[c].now \in Times /\ call[c].tenant \in Tenants /\ call[c].role \in Roles
           /\ call[c].now <= clock
           /\ call[c].pc = "claude" => /\ call[c].seen \subseteq Times
                                       /\ GoodQuestions(call[c].tenant, call[c].now, call[c].seen)
<1>1. CallTyped(call[c]) /\ CallGood(call[c])
  BY TypeParts DEF IInv, CallsGood
<1>2. call[c] # Idle
  BY DEF Idle
<1>3. QED
  BY <1>1, <1>2 DEF CallTyped, CallGood, Key, GoodQuestions

\* The alerts are read, or found to be none.
LEMMA ReadAlertsInv ==
    ASSUME IInv, NEW c \in Calls, ReadAlerts(c)
    PROVE  IInv'
<1>1. /\ call[c].pc = "alerts"
      /\ UNCHANGED environment /\ metrics' = metrics /\ suggestions' = suggestions
      /\ misses' = misses
  BY DEF ReadAlerts
<1>2. PICK seen \in {{alerts[call[c].tenant]}, {}} :
          call' = [call EXCEPT ![c] = [pc |-> "claude", tenant |-> call[c].tenant,
                                       role |-> call[c].role, now |-> call[c].now, seen |-> seen]]
  BY DEF ReadAlerts
<1>3. PICK t \in Tenants, r \in Roles, now \in Times :
          t = call[c].tenant /\ r = call[c].role /\ now = call[c].now /\ now <= clock
  BY <1>1, AskingSpec
<1>4. alerts[t] \in Times
  BY TypeParts DEF IInv
<1>5. seen \subseteq Times /\ GoodQuestions(t, now, seen)
  BY <1>2, <1>3, <1>4 DEF GoodQuestions
<1>6. PICK x : x = [pc |-> "claude", tenant |-> t, role |-> r, now |-> now, seen |-> seen]
  OBVIOUS
<1>7. CallTyped(x)
  BY <1>5, <1>6 DEF CallTyped, Key
<1>8. CallGood(x)
  BY <1>5, <1>6 DEF CallGood
<1>9. CallsMove
  BY <1>2, <1>3, <1>6, <1>7, <1>8, OneCallMoves
<1>10. misses' \in 0..MaxMisses
  BY <1>1, TypeParts DEF IInv
<1>11. QED
  BY <1>1, <1>9, <1>10, EnvironmentSame, MetricsSame, SuggestionsSame, StepInv

\* The questions are stored.
LEMMA StoreSuggestionsInv ==
    ASSUME IInv, NEW c \in Calls, StoreSuggestions(c)
    PROVE  IInv'
<1>1. /\ call[c].pc = "claude" /\ call' = [call EXCEPT ![c] = Idle]
      /\ UNCHANGED environment /\ metrics' = metrics /\ misses' = misses
  BY DEF StoreSuggestions
<1>2. PICK t \in Tenants, r \in Roles, now \in Times :
          t = call[c].tenant /\ r = call[c].role /\ now = call[c].now
  BY <1>1, AskingSpec
<1>3. PICK seen \in SUBSET Times : /\ seen \in {call[c].seen, {}} /\ GoodQuestions(t, now, seen)
                                   /\ suggestions' = Put(suggestions, Key(t, r),
                                                         [at |-> now, role |-> r, seen |-> seen])
  <2>1. PICK q \in Questions(c) : suggestions' = Put(suggestions, Key(t, r), q)
    BY <1>2 DEF StoreSuggestions
  <2>2. PICK s \in {call[c].seen, {}} : q = [at |-> now, role |-> r, seen |-> s]
    BY <1>2 DEF Questions
  <2>3. s \subseteq Times /\ GoodQuestions(t, now, s)
    BY <1>1, <1>2, <2>2, AskingSpec DEF GoodQuestions
  <2>4. QED
    BY <2>1, <2>2, <2>3
<1>4. PICK q \in QuestionsType : q = [at |-> now, role |-> r, seen |-> seen]
  BY DEF QuestionsType
<1>5. q.at = now /\ q.role = r /\ q.seen = seen
  BY <1>4
<1>6. /\ DOMAIN suggestions' = DOMAIN suggestions \cup {Key(t, r)} /\ suggestions'[Key(t, r)] = q
      /\ \A key \in DOMAIN suggestions \ {Key(t, r)} : suggestions'[key] = suggestions[key]
  <2>1. PICK k : k = Key(t, r)
    OBVIOUS
  <2>2. suggestions' = Put(suggestions, k, q)
    BY <1>3, <1>4, <2>1
  <2>3. suggestions' = [key \in DOMAIN suggestions \cup {k} |-> IF key = k THEN q ELSE suggestions[key]]
    BY <2>2 DEF Put
  <2>4. QED
    BY <2>1, <2>3
<1>7. SuggestionsMove
  <2>1. DOMAIN suggestions' \subseteq Tenants \X Roles
    BY <1>6, TypeParts DEF IInv, Key
  <2>2. ASSUME NEW u \in Tenants, NEW v \in Roles, Key(u, v) \in DOMAIN suggestions'
        PROVE  \E z \in QuestionsType :
                   z = suggestions'[Key(u, v)] /\ z.role = v /\ GoodQuestions(u, z.at, z.seen)
    <3>1. CASE Key(u, v) = Key(t, r)
      <4>1. u = t /\ v = r
        BY <3>1 DEF Key
      <4>2. QED
        BY <1>3, <1>5, <1>6, <4>1
    <3>2. CASE Key(u, v) # Key(t, r)
      <4>1. Key(u, v) \in DOMAIN suggestions /\ suggestions'[Key(u, v)] = suggestions[Key(u, v)]
        BY <1>6, <2>2, <3>2
      <4>2. suggestions[Key(u, v)] \in QuestionsType
        BY <4>1, TypeParts DEF IInv
      <4>3. /\ suggestions[Key(u, v)].role = v
            /\ GoodQuestions(u, suggestions[Key(u, v)].at, suggestions[Key(u, v)].seen)
        BY <4>1 DEF IInv, SuggestionsGood
      <4>4. QED
        BY <4>1, <4>2, <4>3
    <3>3. QED
      BY <3>1, <3>2
  <2>3. QED
    BY <2>1, <2>2 DEF SuggestionsMove
<1>8. CallsMove
  BY <1>1, IdleIsGood, OneCallMoves
<1>9. misses' \in 0..MaxMisses
  BY <1>1, TypeParts DEF IInv
<1>10. QED
  BY <1>1, <1>7, <1>8, <1>9, EnvironmentSame, MetricsSame, StepInv

\* The rows are dated with times.
LEMMA RowsAreDated ==
    ASSUME IInv
    PROVE  \A i \in DOMAIN audit : audit[i].at \in Nat
<1>1. PICK rows \in Seq(Row) : rows = audit
  BY TypeParts DEF IInv
<1>2. \A i \in DOMAIN rows : rows[i] \in Row
  <2>1. /\ \A i \in DOMAIN rows : i \in 1..Len(rows)
        /\ \A i \in 1..Len(rows) : rows[i] \in Row
    BY ElementOfSeq, LenProperties
  <2>2. QED
    BY <2>1
<1>3. \A row \in Row : row.at \in Nat
  BY Positive DEF Row, Times
<1>4. QED
  BY <1>1, <1>2, <1>3

\* The process restarts.
LEMMA RestartInv ==
    ASSUME IInv, Restart
    PROVE  IInv'
<1>1. /\ metrics' = <<>> /\ suggestions' = <<>> /\ call' = [c \in Calls |-> Idle]
      /\ UNCHANGED environment /\ misses' = misses
  BY DEF Restart
<1>2. MetricsMove /\ SuggestionsMove
  BY <1>1 DEF MetricsMove, SuggestionsMove
<1>3. CallsMove
  BY <1>1, IdleIsGood DEF CallsMove
<1>4. misses' \in 0..MaxMisses
  BY <1>1, TypeParts DEF IInv
<1>5. QED
  BY <1>1, <1>2, <1>3, <1>4, EnvironmentSame, StepInv

\* Time passes.
LEMMA TickInv ==
    ASSUME IInv, Tick
    PROVE  IInv'
<1>1. /\ clock < MaxClock /\ clock' = clock + 1 /\ audit' = audit /\ alerts' = alerts
      /\ metrics' = metrics /\ suggestions' = suggestions /\ call' = call /\ misses' = misses
  BY DEF Tick
<1>2. /\ clock \in Nat /\ audit \in Seq(Row) /\ Len(audit) <= MaxRows
      /\ alerts \in [Tenants -> Times] /\ misses \in 0..MaxMisses /\ Dated
  BY TypeParts, Positive DEF IInv, Times
<1>3. clock' \in Times /\ clock <= clock'
  BY <1>1, <1>2, Positive DEF Times
<1>4. Passes
  BY <1>1, <1>3 DEF Passes
<1>5. Dated'
  <2>1. \A i \in DOMAIN audit : audit[i].at \in Nat
    BY RowsAreDated
  <2>2. \A t \in Tenants : alerts[t] \in Nat
    BY <1>2 DEF Times
  <2>3. \A n \in Nat : n <= clock => n <= clock + 1
    BY <1>2
  <2>4. QED
    BY <1>1, <1>2, <2>1, <2>2, <2>3 DEF Dated
<1>6. EnvironmentOK'
  BY <1>1, <1>2, <1>3, <1>5 DEF EnvironmentOK
<1>7. QED
  BY <1>1, <1>2, <1>4, <1>6, MetricsSame, SuggestionsSame, CallsSame, StepInv

\* A turn is audited.
LEMMA AuditTurnInv ==
    ASSUME IInv, NEW t \in Tenants, NEW success \in BOOLEAN, AuditTurn(t, success)
    PROVE  IInv'
<1> DEFINE y == [tenant |-> t, at |-> clock, success |-> success]
<1>1. /\ Len(audit) < MaxRows /\ audit' = Append(audit, y)
      /\ clock' = clock /\ alerts' = alerts
      /\ metrics' = metrics /\ suggestions' = suggestions /\ call' = call /\ misses' = misses
  BY DEF AuditTurn
<1>2. /\ clock \in Nat /\ clock \in Times /\ audit \in Seq(Row)
      /\ alerts \in [Tenants -> Times] /\ misses \in 0..MaxMisses /\ Dated
  BY TypeParts, Positive DEF IInv, Times
<1>3. PICK row \in Row : row = y /\ row.at = clock
  <2>1. y \in Row /\ y.at = clock
    BY <1>2 DEF Row
  <2>2. QED
    BY <2>1
<1>4. PICK before \in Seq(Row) : before = audit
  BY <1>2
<1>5. PICK more \in Seq(Row) : more = Append(before, row)
  BY AppendProperties
<1>6. /\ Len(before) \in Nat /\ Len(more) = Len(before) + 1
      /\ \A i \in 1..Len(before) : more[i] = before[i]
      /\ more[Len(before) + 1] = row
  BY <1>5, AppendProperties, LenProperties
<1>7. audit' = more
  BY <1>1, <1>3, <1>4, <1>5
<1>8. /\ \A i \in DOMAIN before : i \in 1..Len(before)
      /\ \A i \in 1..Len(before) : i \in DOMAIN before
      /\ \A i \in DOMAIN more : i \in 1..Len(more)
      /\ \A i \in 1..Len(more) : i \in DOMAIN more
  BY LenProperties
<1>9. \A i \in 1..Len(before) : i \in 1..Len(more)
  BY <1>6
<1>10. \A i \in 1..Len(more) : i \in 1..Len(before) \/ i = Len(before) + 1
  BY <1>6
<1>11. \A i \in DOMAIN before : i \in DOMAIN more /\ more[i] = before[i]
  BY <1>6, <1>8, <1>9
<1>12. \A i \in DOMAIN more : i \in DOMAIN before \/ more[i].at = clock
  BY <1>3, <1>6, <1>8, <1>10
<1>13. Passes
  BY <1>1, <1>2, <1>4, <1>7, <1>11, <1>12 DEF Passes
<1>14. Dated'
  BY <1>1, <1>2, <1>4, <1>7, <1>11, <1>12 DEF Dated
<1>15. EnvironmentOK'
  <2>1. Len(more) <= MaxRows
    BY <1>1, <1>4, <1>6, Positive
  <2>2. QED
    BY <1>1, <1>2, <1>7, <1>14, <2>1 DEF EnvironmentOK
<1>16. QED
  BY <1>1, <1>2, <1>13, <1>15, MetricsSame, SuggestionsSame, CallsSame, StepInv

\* The alerts of a tenant change.
LEMMA ChangeAlertsInv ==
    ASSUME IInv, NEW t \in Tenants, ChangeAlerts(t)
    PROVE  IInv'
<1>1. /\ alerts' = [alerts EXCEPT ![t] = clock] /\ clock' = clock /\ audit' = audit
      /\ metrics' = metrics /\ suggestions' = suggestions /\ call' = call /\ misses' = misses
  BY DEF ChangeAlerts
<1>2. /\ clock \in Nat /\ clock \in Times /\ audit \in Seq(Row) /\ Len(audit) <= MaxRows
      /\ alerts \in [Tenants -> Times] /\ misses \in 0..MaxMisses /\ Dated
  BY TypeParts, Positive DEF IInv, Times
<1>3. /\ alerts' \in [Tenants -> Times]
      /\ \A u \in Tenants : alerts'[u] = alerts[u] \/ alerts'[u] = clock
  BY <1>1, <1>2
<1>4. Passes
  BY <1>1, <1>2, <1>3 DEF Passes
<1>5. EnvironmentOK'
  BY <1>1, <1>2, <1>3 DEF EnvironmentOK, Dated
<1>6. QED
  BY <1>1, <1>2, <1>4, <1>5, MetricsSame, SuggestionsSame, CallsSame, StepInv

-----------------------------------------------------------------------------
(* The invariant holds.                                                    *)

LEMMA InvInit == Init => IInv
<1> SUFFICES ASSUME Init PROVE IInv
  OBVIOUS
<1>1. /\ clock = 0 /\ audit = <<>> /\ alerts = [t \in Tenants |-> 0]
      /\ metrics = <<>> /\ suggestions = <<>> /\ call = [c \in Calls |-> Idle] /\ misses = 0
  BY DEF Init
<1>2. 0 \in Times /\ 0 \in 0..MaxMisses /\ Len(audit) <= MaxRows /\ audit \in Seq(Row)
  BY <1>1, Positive DEF Times
<1>3. CallsGood /\ \A c \in Calls : CallTyped(call[c])
  BY <1>1, IdleIsGood DEF CallsGood
<1>4. alerts \in [Tenants -> Times]
  BY <1>1, <1>2
<1>5. DOMAIN metrics = {} /\ DOMAIN suggestions = {} /\ DOMAIN audit = {}
  BY <1>1
<1>6. TypeOK
  BY <1>1, <1>2, <1>3, <1>4, <1>5, TypeParts
<1>7. Dated /\ MetricsGood /\ SuggestionsGood
  BY <1>1, <1>5 DEF Dated, MetricsGood, SuggestionsGood
<1>8. QED
  BY <1>3, <1>6, <1>7 DEF IInv

LEMMA InvNext == IInv /\ [Next]_vars => IInv'
<1> SUFFICES ASSUME IInv, [Next]_vars PROVE IInv'
  OBVIOUS
<1>1. CASE Environment
  BY <1>1, TickInv, AuditTurnInv, ChangeAlertsInv DEF Environment
<1>2. CASE Restart
  BY <1>2, RestartInv
<1>3. ASSUME NEW c \in Calls, Endpoint(c) PROVE IInv'
  BY <1>3, AskMetricsInv, AskSuggestionsInv, CountInv, CountFailsInv, StoreMetricsInv,
     ReadAlertsInv, StoreSuggestionsInv DEF Endpoint
<1>4. CASE UNCHANGED vars
  <2>1. /\ UNCHANGED environment /\ metrics' = metrics /\ suggestions' = suggestions
        /\ call' = call /\ misses' = misses
    BY <1>4 DEF vars
  <2>2. misses' \in 0..MaxMisses
    BY <2>1, TypeParts DEF IInv
  <2>3. QED
    BY <2>1, <2>2, EnvironmentSame, MetricsSame, SuggestionsSame, CallsSame, StepInv
<1>5. QED
  BY <1>1, <1>2, <1>3, <1>4 DEF Next

LEMMA InvHolds == Spec => []IInv
  BY InvInit, InvNext, PTL DEF Spec

-----------------------------------------------------------------------------
(* The properties.                                                         *)

\* The clock, the caches, the coroutines and their locals stay in their types.
THEOREM TypeCorrect == Spec => []TypeOK
<1>1. IInv => TypeOK
  BY DEF IInv
<1>2. QED
  BY <1>1, InvHolds, PTL

\* However the turns that are audited fall between the queries of a panel, its
\* figures count turns of its tenant and month only, each what those before it did.
THEOREM PanelsAgree == Spec => []MetricsAgree
<1>1. ASSUME IInv PROVE MetricsAgree
  <2>1. ASSUME NEW t \in DOMAIN metrics PROVE Agree(t, metrics[t])
    BY <1>1 DEF IInv, MetricsGood, GoodPanel, Agree
  <2>2. ASSUME NEW c \in Calls, call[c].pc = "counting" PROVE Agree(call[c].tenant, Panel(c))
    <3>1. GoodPanel(call[c].tenant, call[c].now, call[c].month, call[c].read)
      BY <1>1, <2>2, CountingSpec
    <3>2. Panel(c).month = call[c].month /\ Panel(c).read = call[c].read
      BY DEF Panel
    <3>3. QED
      BY <3>1, <3>2 DEF GoodPanel, Agree
  <2>3. QED
    BY <2>1, <2>2 DEF MetricsAgree
<1>2. QED
  BY <1>1, InvHolds, PTL

\* A panel that is kept counts what was over when it was asked for, in each figure.
LEMMA GoodPanelCounts ==
    ASSUME NEW t, NEW p, GoodPanel(t, p.at, p.month, p.read), 1..Queries \subseteq DOMAIN p.read
    PROVE  CountsAll(t, p, p.at)
  BY DEF GoodPanel, CountsAll

\* What the cache of the metrics answers counts every turn that is as old as an
\* entry may get, for a month that is not over for longer; what a miss answers
\* counts every turn before the request.
THEOREM CachedMetricsAreFresh == Spec => []MetricsAreFresh
<1>1. ASSUME IInv PROVE MetricsAreFresh
  <2>1. ASSUME NEW t \in Tenants, Live(metrics, t, MetricsTTL)
        PROVE  /\ \A age \in Times : clock = age + MetricsTTL => CountsAll(t, metrics[t], age + 1)
               /\ clock < MonthLength * (metrics[t].month + 1) + MetricsTTL
    <3>1. PICK p \in PanelType : p = metrics[t] /\ GoodPanel(t, p.at, p.month, p.read)
      BY <1>1, <2>1, TypeParts DEF IInv, MetricsGood, Live
    <3>2. PICK at \in Times : at = p.at /\ clock < at + MetricsTTL /\ p.month = Month(at)
      BY <2>1, <3>1 DEF PanelType, Live, GoodPanel
    <3>3. clock \in Nat /\ at \in Nat /\ MetricsTTL \in Nat
      BY <1>1, TypeParts, Positive DEF IInv, Times
    <3>4. CountsAll(t, p, at)
      <4>1. 1..Queries \subseteq DOMAIN p.read
        BY DEF PanelType
      <4>2. QED
        BY <3>1, <3>2, <4>1, GoodPanelCounts
    <3>5. ASSUME NEW age \in Times, clock = age + MetricsTTL
          PROVE  CountsAll(t, p, age + 1)
      <4>1. age \in Nat /\ age < at
        BY <3>2, <3>3, <3>5, Positive DEF Times
      <4>2. \A i \in Successes(t, p.month) : audit[i].at \in Nat
        BY <1>1, RowsAreDated DEF Successes
      <4>3. \A n \in Nat : n < age + 1 => n < at
        BY <3>3, <4>1
      <4>4. QED
        BY <3>4, <4>2, <4>3 DEF CountsAll
    <3>6. clock < MonthLength * (p.month + 1) + MetricsTTL
      <4>1. at < MonthLength * (Month(at) + 1) /\ Month(at) \in Nat
        BY MonthSpec, Positive DEF Times
      <4>2. PICK end \in Nat : end = MonthLength * (p.month + 1)
        BY <3>2, <4>1, Positive
      <4>3. at < end
        BY <3>2, <4>1, <4>2
      <4>4. clock < end + MetricsTTL
        BY <3>2, <3>3, <4>3
      <4>5. QED
        BY <4>2, <4>4
    <3>7. QED
      BY <3>1, <3>5, <3>6
  <2>2. ASSUME NEW c \in Calls, Counted(c)
        PROVE  CountsAll(call[c].tenant, Panel(c), call[c].now)
    <3>1. call[c].pc = "counting" /\ Len(call[c].read) = Queries
      BY <2>2 DEF Counted
    <3>2. PICK x \in Counter : /\ x = call[c]
                               /\ GoodPanel(x.tenant, x.now, x.month, x.read)
      BY <1>1, <3>1, CountingSpec
    <3>3. PICK read \in Seq(SUBSET Rows) : read = x.read
      BY DEF Counter
    <3>4. 1..Queries \subseteq DOMAIN read
      BY <3>1, <3>2, <3>3, LenProperties
    <3>5. PICK p : p = Panel(c) /\ p.at = x.now /\ p.month = x.month /\ p.read = x.read
      <4>1. /\ Panel(c).at = x.now /\ Panel(c).month = x.month /\ Panel(c).read = x.read
        BY <3>2 DEF Panel
      <4>2. QED
        BY <4>1
    <3>6. CountsAll(x.tenant, p, p.at)
      BY <3>2, <3>3, <3>4, <3>5, GoodPanelCounts
    <3>7. QED
      BY <3>2, <3>5, <3>6
  <2>3. QED
    BY <2>1, <2>2 DEF MetricsAreFresh
<1>2. QED
  BY <1>1, InvHolds, PTL

\* What the cache of the suggestions answers was written for the caller's role and,
\* unless it was written from no alerts, from those of the caller's tenant as they
\* were at most a time to live ago.
THEOREM CachedSuggestionsAreFresh == Spec => []SuggestionsAreFresh
<1>1. ASSUME IInv PROVE SuggestionsAreFresh
  <2>1. ASSUME NEW t \in Tenants, NEW r \in Roles, Live(suggestions, Key(t, r), SuggestionsTTL)
        PROVE  /\ suggestions[Key(t, r)].role = r
               /\ alerts[t] + SuggestionsTTL <= clock => suggestions[Key(t, r)].seen \subseteq {alerts[t]}
    <3>1. Key(t, r) \in DOMAIN suggestions
      BY <2>1 DEF Live
    <3>2. PICK q \in QuestionsType : /\ q = suggestions[Key(t, r)] /\ q.role = r
                                     /\ GoodQuestions(t, q.at, q.seen)
      BY <1>1, <3>1, TypeParts DEF IInv, SuggestionsGood
    <3>3. PICK at \in Times : at = q.at /\ clock < at + SuggestionsTTL
      BY <2>1, <3>2 DEF QuestionsType, Live
    <3>4. clock \in Nat /\ at \in Nat /\ SuggestionsTTL \in Nat /\ alerts[t] \in Nat
      BY <1>1, TypeParts, Positive DEF IInv, Times
    <3>5. alerts[t] + SuggestionsTTL <= clock => ~(at <= alerts[t])
      BY <3>3, <3>4
    <3>6. \A x \in q.seen : x = alerts[t] \/ at <= alerts[t]
      BY <3>2, <3>3 DEF GoodQuestions
    <3>7. QED
      BY <3>2, <3>5, <3>6
  <2>2. QED
    BY <2>1 DEF SuggestionsAreFresh
<1>2. QED
  BY <1>1, InvHolds, PTL

=============================================================================
