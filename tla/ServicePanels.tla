---------------------------- MODULE ServicePanels ----------------------------
(***************************************************************************)
(* The two read-only panels of api/v1/internal.py and their caches in the  *)
(* process: GET /metrics, queries over the audit log of the month, kept    *)
(* for five minutes per tenant, and GET /suggestions, three questions that *)
(* the LLM writes from the alerts, kept for an hour per tenant and role.   *)
(* Both read the clock, look the cache up, wait for the database or the    *)
(* LLM and store what they got under the time they started: requests that  *)
(* miss together all go on, and overwrite each other in any order.         *)
(*                                                                         *)
(* The answer of a query is the set of audit rows it counts, rows with     *)
(* tools and a conversation, which all five queries count; a list of       *)
(* questions is the role and the alerts it was written from.  The API and  *)
(* the database are taken to have one clock.                               *)
(***************************************************************************)
EXTENDS Naturals, Sequences

CONSTANTS
    Calls,           \* coroutines of the two endpoints
    Tenants, Roles,
    MetricsTTL,      \* _METRICS_TTL
    SuggestionsTTL,  \* _SUGGESTIONS_TTL
    MonthLength,
    Queries,         \* of one panel, one after the other: five in the code
    MaxClock, MaxRows,  \* bounds of the environment
    MaxMisses           \* bound of the requests that are not answered from a cache

ASSUME PanelsAssumption ==
    /\ {MetricsTTL, SuggestionsTTL, MonthLength, Queries} \subseteq Nat \ {0}
    /\ {MaxClock, MaxRows, MaxMisses} \subseteq Nat

VARIABLES
    clock,       \* time.time() and SYSUTCDATETIME()
    audit,       \* api_audit.ai_audit_log
    alerts,      \* per tenant, when its active alerts last changed
    metrics,     \* _METRICS_CACHE
    suggestions, \* _SUGGESTIONS_CACHE
    call,        \* the coroutines that missed: where they are, and their locals
    misses       \* how many requests missed

environment == <<clock, audit, alerts>>
vars == <<environment, metrics, suggestions, call, misses>>

-----------------------------------------------------------------------------
Month(c) == c \div MonthLength

\* status = 'SUCCESS' in the window of the month, the filter of all five queries.
Successes(t, m) ==
    {i \in DOMAIN audit : /\ audit[i].tenant = t
                          /\ audit[i].success
                          /\ Month(audit[i].at) = m}

\* A request that is not there.
Idle == [pc |-> "idle"]

\* The dictionaries: an entry keeps the time it was asked for.
Live(cache, k, ttl) == k \in DOMAIN cache /\ clock < cache[k].at + ttl
Put(cache, k, entry) ==
    [key \in DOMAIN cache \cup {k} |-> IF key = k THEN entry ELSE cache[key]]

\* f"{tenant_id}:{role}"
Key(t, r) == <<t, r>>

Init ==
    /\ clock = 0 /\ audit = <<>>
    /\ alerts = [t \in Tenants |-> 0]
    /\ metrics = <<>> /\ suggestions = <<>>
    /\ call = [c \in Calls |-> Idle] /\ misses = 0

\* A request may arrive: a coroutine that has answered stands for the next one too.
Free(c) == call[c] = Idle /\ misses < MaxMisses

-----------------------------------------------------------------------------
(* GET /metrics                                                            *)

\* A hit answers at once and changes nothing; a miss fixes the month.
AskMetrics(c, t) ==
    /\ Free(c)
    /\ ~Live(metrics, t, MetricsTTL)
    /\ call' = [call EXCEPT ![c] = [pc |-> "counting", tenant |-> t, now |-> clock,
                                    month |-> Month(clock), read |-> <<>>]]
    /\ misses' = misses + 1
    /\ UNCHANGED <<environment, metrics, suggestions>>

Counting(c) == call[c].pc = "counting" /\ Len(call[c].read) < Queries
Counted(c) == call[c].pc = "counting" /\ Len(call[c].read) = Queries

\* Wrong on purpose: each query computes the window of the month anew.
CountThisMonth(c) ==
    /\ Counting(c)
    /\ call' = [call EXCEPT ![c].read = Append(@, Successes(call[c].tenant, Month(clock)))]
    /\ UNCHANGED <<environment, metrics, suggestions, misses>>

\* Wrong on purpose: one query too many.
CountMore(c) ==
    /\ Counting(c) \/ Counted(c)
    /\ call' = [call EXCEPT ![c].read = Append(@, Successes(call[c].tenant, call[c].month))]
    /\ UNCHANGED <<environment, metrics, suggestions, misses>>

\* The database answers a query, and the coroutine asks the next one:
\* the aggregates, the tools, the roles, the days and the longest conversation.
Count(c) ==
    /\ Counting(c)
    /\ call' = [call EXCEPT ![c].read = Append(@, Successes(call[c].tenant, call[c].month))]
    /\ UNCHANGED <<environment, metrics, suggestions, misses>>

\* A query raises: the request fails and nothing is cached.
CountFails(c) ==
    /\ Counting(c)
    /\ call' = [call EXCEPT ![c] = Idle]
    /\ UNCHANGED <<environment, metrics, suggestions, misses>>

\* What the coroutine caches and answers.
Panel(c) == [at |-> call[c].now, month |-> call[c].month, read |-> call[c].read]

\* Wrong on purpose: the entry is dated when it is stored.
StoreMetricsNow(c) ==
    /\ Counted(c)
    /\ metrics' = Put(metrics, call[c].tenant, [Panel(c) EXCEPT !.at = clock])
    /\ call' = [call EXCEPT ![c] = Idle]
    /\ UNCHANGED <<environment, suggestions, misses>>

StoreMetrics(c) ==
    /\ Counted(c)
    /\ metrics' = Put(metrics, call[c].tenant, Panel(c))
    /\ call' = [call EXCEPT ![c] = Idle]
    /\ UNCHANGED <<environment, suggestions, misses>>

-----------------------------------------------------------------------------
(* GET /suggestions                                                        *)

AskSuggestions(c, t, r) ==
    /\ Free(c)
    /\ ~Live(suggestions, Key(t, r), SuggestionsTTL)
    /\ call' = [call EXCEPT ![c] = [pc |-> "alerts", tenant |-> t, role |-> r, now |-> clock]]
    /\ misses' = misses + 1
    /\ UNCHANGED <<environment, metrics, suggestions>>

\* fetch_active_alerts: when it raises the prompt says that there are none.
ReadAlerts(c) ==
    /\ call[c].pc = "alerts"
    /\ \E seen \in {{alerts[call[c].tenant]}, {}} :
          call' = [call EXCEPT ![c] = [pc |-> "claude", tenant |-> @.tenant, role |-> @.role,
                                       now |-> @.now, seen |-> seen]]
    /\ UNCHANGED <<environment, metrics, suggestions, misses>>

\* The questions: the LLM's, or the list of the role when it fails.
Questions(c) ==
    {[at |-> call[c].now, role |-> call[c].role, seen |-> s] : s \in {call[c].seen, {}}}

\* Wrong on purpose: the entry is dated when it is stored.
StoreSuggestionsNow(c) ==
    /\ call[c].pc = "claude"
    /\ \E q \in Questions(c) :
          suggestions' = Put(suggestions, Key(call[c].tenant, call[c].role), [q EXCEPT !.at = clock])
    /\ call' = [call EXCEPT ![c] = Idle]
    /\ UNCHANGED <<environment, metrics, misses>>

StoreSuggestions(c) ==
    /\ call[c].pc = "claude"
    /\ \E q \in Questions(c) :
          suggestions' = Put(suggestions, Key(call[c].tenant, call[c].role), q)
    /\ call' = [call EXCEPT ![c] = Idle]
    /\ UNCHANGED <<environment, metrics, misses>>

-----------------------------------------------------------------------------
\* The process restarts: both caches are gone, and so is every request.
Restart ==
    /\ metrics' = <<>> /\ suggestions' = <<>>
    /\ call' = [c \in Calls |-> Idle]
    /\ UNCHANGED <<environment, misses>>

Tick ==
    /\ clock < MaxClock /\ clock' = clock + 1
    /\ UNCHANGED <<audit, alerts, metrics, suggestions, call, misses>>

\* A chat turn of some process writes its audit row.
AuditTurn(t, success) ==
    /\ Len(audit) < MaxRows
    /\ audit' = Append(audit, [tenant |-> t, at |-> clock, success |-> success])
    /\ UNCHANGED <<clock, alerts, metrics, suggestions, call, misses>>

\* A refresh of the warehouse changes the alerts of a tenant.
ChangeAlerts(t) ==
    /\ alerts[t] # clock
    /\ alerts' = [alerts EXCEPT ![t] = clock]
    /\ UNCHANGED <<clock, audit, metrics, suggestions, call, misses>>

Endpoint(c) ==
    \/ \E t \in Tenants : AskMetrics(c, t) \/ \E r \in Roles : AskSuggestions(c, t, r)
    \/ Count(c) \/ CountFails(c) \/ StoreMetrics(c)
    \/ ReadAlerts(c) \/ StoreSuggestions(c)

Environment ==
    \/ Tick
    \/ \E t \in Tenants : ChangeAlerts(t) \/ \E success \in BOOLEAN : AuditTurn(t, success)

Next == Environment \/ Restart \/ \E c \in Calls : Endpoint(c)

Spec == Init /\ [][Next]_vars

-----------------------------------------------------------------------------
(* Properties.                                                             *)

Times == 0..MaxClock
Rows == 1..MaxRows

TypeOK ==
    /\ clock \in Times /\ misses \in 0..MaxMisses
    /\ audit \in Seq([tenant : Tenants, at : Times, success : BOOLEAN]) /\ Len(audit) <= MaxRows
    /\ alerts \in [Tenants -> Times]
    /\ DOMAIN metrics \subseteq Tenants
    /\ \A t \in DOMAIN metrics :
          metrics[t] \in [at : Times, month : Times, read : [1..Queries -> SUBSET Rows]]
    /\ DOMAIN suggestions \subseteq Tenants \X Roles
    /\ \A k \in DOMAIN suggestions :
          suggestions[k] \in [at : Times, role : Roles, seen : SUBSET Times]
    /\ \A c \in Calls :
          \/ call[c] = Idle
          \/ /\ call[c].pc = "counting" /\ call[c].tenant \in Tenants
             /\ {call[c].now, call[c].month} \subseteq Times
             /\ call[c].read \in Seq(SUBSET Rows) /\ Len(call[c].read) <= Queries
          \/ /\ call[c].pc \in {"alerts", "claude"} /\ call[c].now \in Times
             /\ Key(call[c].tenant, call[c].role) \in Tenants \X Roles
             /\ call[c].pc = "claude" => call[c].seen \subseteq Times

\* All five numbers of a panel count every turn of the caller's tenant and of the
\* month the panel names that was over by the time given.
CountsAll(t, panel, time) ==
    \A i \in Successes(t, panel.month) :
        audit[i].at < time => \A n \in 1..Queries : i \in panel.read[n]

\* "Cached in-process for 5 minutes": however many requests miss together, however
\* long they take and whichever stores last, what the cache answers counts every
\* turn that is five minutes old and is not of a month that has been over for five
\* minutes; what a miss answers counts every turn before the request.
MetricsAreFresh ==
    /\ \A t \in Tenants : Live(metrics, t, MetricsTTL) =>
          /\ \A age \in Times :
                clock = age + MetricsTTL => CountsAll(t, metrics[t], age + 1)
          /\ clock < MonthLength * (metrics[t].month + 1) + MetricsTTL
    /\ \A c \in Calls : Counted(c) => CountsAll(call[c].tenant, Panel(c), call[c].now)

\* The five numbers of a panel are read one after the other while turns go on
\* being audited: they count turns of the caller's tenant and of the month the panel
\* names only, and each counts what the ones before it did.
Agree(t, panel) ==
    /\ \A n \in DOMAIN panel.read : panel.read[n] \subseteq Successes(t, panel.month)
    /\ \A n \in DOMAIN panel.read \ {1} : panel.read[n - 1] \subseteq panel.read[n]

MetricsAgree ==
    /\ \A t \in DOMAIN metrics : Agree(t, metrics[t])
    /\ \A c \in Calls : call[c].pc = "counting" => Agree(call[c].tenant, Panel(c))

\* "Results are cached in-process for 1 hour per tenant+role": what the cache answers
\* was written for the caller's role and, when it was written from alerts, from
\* those of the caller's tenant as they were at most an hour ago.
SuggestionsAreFresh ==
    \A t \in Tenants, r \in Roles : Live(suggestions, Key(t, r), SuggestionsTTL) =>
      LET q == suggestions[Key(t, r)]
      IN  /\ q.role = r
          /\ alerts[t] + SuggestionsTTL <= clock => q.seen \subseteq {alerts[t]}
=============================================================================
