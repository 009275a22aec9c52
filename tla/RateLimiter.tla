---------------------------- MODULE RateLimiter ----------------------------
(***************************************************************************)
(* The in-memory sliding-window limiter of api/app/security/rate_limiter.py *)
(* together with the way the two chat endpoints drive it.                  *)
(*                                                                         *)
(* Both endpoints are coroutines of one event loop: a request checks its   *)
(* hourly quotas and the daily token budget without an await in between    *)
(* (one step here), then spends an arbitrary time in the LLM loop, and     *)
(* records the tokens it used only when it comes back.  Everything another *)
(* request does meanwhile interleaves with that gap.                       *)
(***************************************************************************)
EXTENDS Integers, Sequences, FiniteSets

CONSTANTS Tenants,        (* the tenants                                    *)
          Users,          (* user ids; a quota is keyed by <<tenant, user>> *)
          Slots,          (* coroutines that may be inside an endpoint      *)
          TenantPerHour,  (* tenant_per_hour                                *)
          UserPerHour,    (* user_per_hour                                  *)
          TokensPerDay,   (* tokens_per_day                                 *)
          Hour,           (* _HOUR_SECONDS, in clock ticks                  *)
          Day,            (* _DAY_SECONDS, in clock ticks                   *)
          Costs           (* the token totals a request may report          *)

ASSUME LimitsAssumption ==
    /\ TenantPerHour \in Nat \ {0}
    /\ UserPerHour \in Nat \ {0}
    /\ TokensPerDay \in Nat \ {0}
    /\ Hour \in Nat \ {0}
    /\ Day \in Nat \ {0}
    /\ Hour <= Day
    /\ Costs \subseteq Nat

VARIABLES now,           (* time.monotonic()                                *)
          tenantHits,    (* _tenant_hits                                    *)
          userHits,      (* _user_hits                                      *)
          tenantTokens,  (* _tenant_tokens                                  *)
          call,          (* what each coroutine is doing                    *)
          tenantLog,     (* history: every hit recorded for a tenant        *)
          userLog,       (* history: every hit recorded for a user          *)
          tokenLog       (* history: every charge recorded for a tenant     *)

vars == <<now, tenantHits, userHits, tenantTokens, call, tenantLog, userLog, tokenLog>>

Keys == Tenants \X Users
Scopes == {"tenant", "user", "tokens"}
Idle == [at |-> "idle"]
Running(t) == [at |-> "running", tenant |-> t]
Refused(t, u, scope) == [at |-> "refused", tenant |-> t, user |-> u, scope |-> scope]
Call == {Idle} \cup {Running(t) : t \in Tenants}
               \cup {Refused(t, u, sc) : t \in Tenants, u \in Users, sc \in Scopes}

-----------------------------------------------------------------------------
(* The helpers of the module.                                              *)

\* Wrong on purpose: an entry exactly as old as the window is dropped too.
ExpiredPrefixInclusive(q, cutoff) ==
    CHOOSE n \in 0..Len(q) : /\ \A i \in 1..n : q[i] <= cutoff
                             /\ n < Len(q) => q[n + 1] > cutoff

\* How many entries the while loop of _trim pops: it stops at the first one
\* that is not older than the cutoff.
ExpiredPrefix(q, cutoff) ==
    CHOOSE n \in 0..Len(q) : /\ \A i \in 1..n : q[i] < cutoff
                             /\ n < Len(q) => q[n + 1] >= cutoff

Trim(q, cutoff) == SubSeq(q, ExpiredPrefix(q, cutoff) + 1, Len(q))

\* _trim_pairs: the same loop over (time, tokens) pairs.
TrimPairs(q, cutoff) ==
    SubSeq(q, ExpiredPrefix([i \in DOMAIN q |-> q[i].time], cutoff) + 1, Len(q))

\* sum(n for _, n in q)
TokenSum(q) ==
    LET sum[i \in 0..Len(q)] == IF i = 0 THEN 0 ELSE sum[i - 1] + q[i].tokens
    IN  sum[Len(q)]

-----------------------------------------------------------------------------
Empty ==
    /\ tenantHits = [t \in Tenants |-> <<>>]
    /\ userHits = [k \in Keys |-> <<>>]
    /\ tenantTokens = [t \in Tenants |-> <<>>]
    /\ tenantLog = [t \in Tenants |-> <<>>]
    /\ userLog = [k \in Keys |-> <<>>]
    /\ tokenLog = [t \in Tenants |-> <<>>]
    /\ call = [s \in Slots |-> Idle]

Init == now = 0 /\ Empty

\* The entries both quota checks look at, after their trim.
LiveTenantHits(t) == Trim(tenantHits[t], now - Hour)
LiveUserHits(k) == Trim(userHits[k], now - Hour)

\* Wrong on purpose: the token deque is trimmed with the window of the hits.
LiveTokensHourly(t) == TrimPairs(tenantTokens[t], now - Hour)
LiveTokens(t) == TrimPairs(tenantTokens[t], now - Day)

\* Wrong on purpose: the tenant's hit is recorded before the user is checked.
RefuseRequestLate(s, t, u, scope) ==
    /\ scope = "tenant" => Len(LiveTenantHits(t)) >= TenantPerHour
    /\ scope = "user" => /\ Len(LiveTenantHits(t)) < TenantPerHour
                         /\ Len(LiveUserHits(<<t, u>>)) >= UserPerHour
    /\ tenantHits' = [tenantHits EXCEPT ![t] =
                         IF scope = "user" THEN Append(LiveTenantHits(t), now)
                         ELSE LiveTenantHits(t)]
    /\ userHits' = [userHits EXCEPT ![<<t, u>>] = LiveUserHits(<<t, u>>)]
    /\ call' = [call EXCEPT ![s] = Refused(t, u, scope)]
    /\ UNCHANGED <<now, tenantTokens, tenantLog, userLog, tokenLog>>

\* check_and_record_request refuses: both deques stay trimmed, nothing is
\* appended, and the token budget is never looked at.
RefuseRequest(s, t, u, scope) ==
    /\ scope = "tenant" => Len(LiveTenantHits(t)) >= TenantPerHour
    /\ scope = "user" => /\ Len(LiveTenantHits(t)) < TenantPerHour
                         /\ Len(LiveUserHits(<<t, u>>)) >= UserPerHour
    /\ tenantHits' = [tenantHits EXCEPT ![t] = LiveTenantHits(t)]
    /\ userHits' = [userHits EXCEPT ![<<t, u>>] = LiveUserHits(<<t, u>>)]
    /\ call' = [call EXCEPT ![s] = Refused(t, u, scope)]
    /\ UNCHANGED <<now, tenantTokens, tenantLog, userLog, tokenLog>>

Record(t, u) ==
    /\ tenantHits' = [tenantHits EXCEPT ![t] = Append(LiveTenantHits(t), now)]
    /\ userHits' = [userHits EXCEPT ![<<t, u>>] = Append(LiveUserHits(<<t, u>>), now)]
    /\ tenantLog' = [tenantLog EXCEPT ![t] = Append(@, now)]
    /\ userLog' = [userLog EXCEPT ![<<t, u>>] = Append(@, now)]

\* Wrong on purpose: off by one against the tenant's limit.
RecordRequestOffByOne(t, u) ==
    /\ Len(LiveTenantHits(t)) <= TenantPerHour
    /\ Len(LiveUserHits(<<t, u>>)) < UserPerHour
    /\ Record(t, u)

\* Wrong on purpose: only the tenant's quota is checked.
RecordRequestTenantOnly(t, u) == Len(LiveTenantHits(t)) < TenantPerHour /\ Record(t, u)

\* check_and_record_request accepts and records the hit in both deques.
RecordRequest(t, u) ==
    /\ Len(LiveTenantHits(t)) < TenantPerHour
    /\ Len(LiveUserHits(<<t, u>>)) < UserPerHour
    /\ Record(t, u)

\* check_token_budget: the verdict on a tenant whose hit was just recorded.
TokenVerdict(t, u) ==
    IF TokenSum(LiveTokens(t)) >= TokensPerDay THEN Refused(t, u, "tokens") ELSE Running(t)

\* An endpoint starts: the hit is recorded first, then the budget is checked,
\* so a request refused for tokens has already used up an hourly hit.
AcceptRequest(s, t, u) ==
    /\ RecordRequest(t, u)
    /\ tenantTokens' = [tenantTokens EXCEPT ![t] = LiveTokens(t)]
    /\ call' = [call EXCEPT ![s] = TokenVerdict(t, u)]
    /\ UNCHANGED <<now, tokenLog>>

StartRequest(s, t, u) ==
    /\ call[s] = Idle
    /\ \/ RefuseRequest(s, t, u, "tenant")
       \/ RefuseRequest(s, t, u, "user")
       \/ AcceptRequest(s, t, u)

\* Wrong on purpose: the charge is dated with the cutoff of the window.
ChargeAtCutoff(queues, t, n) ==
    [queues EXCEPT ![t] = Append(@, [time |-> now - Day, tokens |-> n])]

Charge(queues, t, n) == [queues EXCEPT ![t] = Append(@, [time |-> now, tokens |-> n])]

\* record_tokens after the LLM loop; a total of zero is ignored.  No trim here.
RecordTokens(s, n) ==
    /\ call[s].at = "running"
    /\ IF n <= 0
       THEN UNCHANGED <<tenantTokens, tokenLog>>
       ELSE /\ tenantTokens' = Charge(tenantTokens, call[s].tenant, n)
            /\ tokenLog' = Charge(tokenLog, call[s].tenant, n)
    /\ call' = [call EXCEPT ![s] = Idle]
    /\ UNCHANGED <<now, tenantHits, userHits, tenantLog, userLog>>

\* Any exception between the checks and record_tokens (a 404, an LLM or a
\* database failure): the request ends and its tokens are never recorded.
FailRequest(s) ==
    /\ call[s].at = "running"
    /\ call' = [call EXCEPT ![s] = Idle]
    /\ UNCHANGED <<now, tenantHits, userHits, tenantTokens, tenantLog, userLog, tokenLog>>

\* The 429 reaches the client.
AnswerRefusal(s) ==
    /\ call[s].at = "refused"
    /\ call' = [call EXCEPT ![s] = Idle]
    /\ UNCHANGED <<now, tenantHits, userHits, tenantTokens, tenantLog, userLog, tokenLog>>

\* snapshot trims what it reports on and changes nothing else.
Snapshot(t) ==
    /\ tenantHits' = [tenantHits EXCEPT ![t] = LiveTenantHits(t)]
    /\ tenantTokens' = [tenantTokens EXCEPT ![t] = LiveTokens(t)]
    /\ UNCHANGED <<now, userHits, call, tenantLog, userLog, tokenLog>>

\* The process is replaced: the module-level singleton is built again, empty,
\* and the coroutines are gone.  The histories start over with the process.
Restart ==
    /\ tenantHits' = [t \in Tenants |-> <<>>]
    /\ userHits' = [k \in Keys |-> <<>>]
    /\ tenantTokens' = [t \in Tenants |-> <<>>]
    /\ tenantLog' = [t \in Tenants |-> <<>>]
    /\ userLog' = [k \in Keys |-> <<>>]
    /\ tokenLog' = [t \in Tenants |-> <<>>]
    /\ call' = [s \in Slots |-> Idle]
    /\ UNCHANGED now

Tick ==
    /\ now' = now + 1
    /\ UNCHANGED <<tenantHits, userHits, tenantTokens, call, tenantLog, userLog, tokenLog>>

Next ==
    \/ \E s \in Slots, t \in Tenants, u \in Users : StartRequest(s, t, u)
    \/ \E s \in Slots, n \in Costs : RecordTokens(s, n)
    \/ \E s \in Slots : FailRequest(s) \/ AnswerRefusal(s)
    \/ \E t \in Tenants : Snapshot(t)
    \/ Restart
    \/ Tick

Spec == Init /\ [][Next]_vars

-----------------------------------------------------------------------------
(* Properties.                                                             *)

TypeOK ==
    /\ now \in Nat
    /\ tenantHits \in [Tenants -> Seq(Nat)]
    /\ userHits \in [Keys -> Seq(Nat)]
    /\ tenantTokens \in [Tenants -> Seq([time : Nat, tokens : Nat])]
    /\ call \in [Slots -> Call]
    /\ tenantLog \in [Tenants -> Seq(Nat)]
    /\ userLog \in [Keys -> Seq(Nat)]
    /\ tokenLog \in [Tenants -> Seq([time : Nat, tokens : Nat])]

\* `limit` hits of a log are never followed by one more within the same hour.
Spaced(log, limit) ==
    \A i \in 1..Len(log) : i + limit <= Len(log) => log[i + limit] - log[i] > Hour

\* However requests, refusals, snapshots and the passing of time interleave,
\* no window of one hour ever holds more than TenantPerHour recorded hits of a
\* tenant: dropping expired entries lazily never forgets one that still counts.
TenantQuota == \A t \in Tenants : Spaced(tenantLog[t], TenantPerHour)

\* The same for one user of a tenant.
UserQuota == \A k \in Keys : Spaced(userLog[k], UserPerHour)

Recent(q) == {i \in 1..Len(q) : q[i] >= now - Hour}

\* The two deques a hit goes to are trimmed at different moments and by
\* different callers, yet over the last hour they always tell the same story:
\* the tenant's hits are exactly its users' hits.
DequesAgree ==
    \A t \in Tenants :
        Cardinality(Recent(tenantHits[t])) =
            Cardinality(UNION {{u} \X Recent(userHits[<<t, u>>]) : u \in Users})

\* A log of charges with those more than a day old struck out.
LastDay(log, clock) ==
    [i \in DOMAIN log |->
        IF log[i].time >= clock - Day THEN log[i] ELSE [log[i] EXCEPT !.tokens = 0]]

\* Tokens recorded for a tenant in the day that ends now.
UsedLastDay(t) == TokenSum(LastDay(tokenLog[t], now))

MaxCost == CHOOSE n \in Costs : \A m \in Costs : m <= n

\* The budget is checked before the LLM runs and charged after it, so it can be
\* overshot, but only by the requests that were in flight together: the day's
\* usage never exceeds the budget by as much as one full request per coroutine.
TokenOvershootBounded ==
    \A t \in Tenants :
        UsedLastDay(t) < TokensPerDay + Cardinality(Slots) * MaxCost

\* The limiter keeps the promise of SlidingQuota: trimming the deques lazily and
\* in two places decides every request as if the whole history were consulted,
\* so a hit that counts is never forgotten and a refusal is never spurious
\* (being refused records nothing, so retrying does not extend the wait).
Quota == INSTANCE SlidingQuota WITH
    Tenants <- Tenants, Users <- Users, Slots <- Slots,
    TenantPerHour <- TenantPerHour, UserPerHour <- UserPerHour, Hour <- Hour,
    now <- now, tenantLog <- tenantLog, userLog <- userLog, call <- call
ImplementsQuota == Quota!Spec
=============================================================================
