---------------------------- MODULE SlidingQuota ----------------------------
(***************************************************************************)
(* What the hourly limiter promises, without its deques: a request is      *)
(* recorded exactly when both windows of one hour ending now have room,    *)
(* and it is turned away for a quota only when that quota's own window is  *)
(* full.  The whole history is remembered; nothing is ever dropped.        *)
(***************************************************************************)
EXTENDS Integers, Sequences, FiniteSets

CONSTANTS Tenants, Users, Slots, TenantPerHour, UserPerHour, Hour

VARIABLES now, tenantLog, userLog, call

qvars == <<now, tenantLog, userLog, call>>

Keys == Tenants \X Users
Scopes == {"tenant", "user", "tokens"}
Idle == [at |-> "idle"]
Running(t) == [at |-> "running", tenant |-> t]
Refused(t, u, scope) == [at |-> "refused", tenant |-> t, user |-> u, scope |-> scope]

NoHistory ==
    /\ tenantLog = [t \in Tenants |-> <<>>]
    /\ userLog = [k \in Keys |-> <<>>]
    /\ call = [s \in Slots |-> Idle]

Init == now = 0 /\ NoHistory

InLastHour(log) == {i \in 1..Len(log) : log[i] >= now - Hour}
TenantFull(t) == Cardinality(InLastHour(tenantLog[t])) >= TenantPerHour
UserFull(k) == Cardinality(InLastHour(userLog[k])) >= UserPerHour

Admit(s, t, u) ==
    /\ call[s] = Idle
    /\ ~TenantFull(t)
    /\ ~UserFull(<<t, u>>)
    /\ tenantLog' = [tenantLog EXCEPT ![t] = Append(@, now)]
    /\ userLog' = [userLog EXCEPT ![<<t, u>>] = Append(@, now)]
    /\ \E c \in {Running(t), Refused(t, u, "tokens")} : call' = [call EXCEPT ![s] = c]
    /\ UNCHANGED now

TurnAway(s, t, u) ==
    /\ call[s] = Idle
    /\ \/ TenantFull(t) /\ call' = [call EXCEPT ![s] = Refused(t, u, "tenant")]
       \/ UserFull(<<t, u>>) /\ call' = [call EXCEPT ![s] = Refused(t, u, "user")]
    /\ UNCHANGED <<now, tenantLog, userLog>>

Leave(s) ==
    /\ call[s] # Idle
    /\ call' = [call EXCEPT ![s] = Idle]
    /\ UNCHANGED <<now, tenantLog, userLog>>

Forget ==
    /\ tenantLog' = [t \in Tenants |-> <<>>]
    /\ userLog' = [k \in Keys |-> <<>>]
    /\ call' = [s \in Slots |-> Idle]
    /\ UNCHANGED now

Tick == now' = now + 1 /\ UNCHANGED <<tenantLog, userLog, call>>

Next ==
    \/ \E s \in Slots, t \in Tenants, u \in Users : Admit(s, t, u) \/ TurnAway(s, t, u)
    \/ \E s \in Slots : Leave(s)
    \/ Forget
    \/ Tick

Spec == Init /\ [][Next]_qvars
=============================================================================
