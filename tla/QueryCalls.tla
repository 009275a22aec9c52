----------------------------- MODULE QueryCalls -----------------------------
(***************************************************************************)
(* What execute_query promises the tools, without threads, connections or  *)
(* the lock: a call is answered only by a query that ran, once, and never  *)
(* after its caller gave up; at most Size queries run at a time, also when *)
(* nobody waits for them any more; and the server stops with no call       *)
(* pending.                                                                *)
(***************************************************************************)
EXTENDS Naturals, FiniteSets

CONSTANTS Calls, Size

VARIABLES
    call,      \* what the caller of each call knows
    busy,      \* the calls whose queries run
    stopped    \* the server has shut down

vars == <<call, busy, stopped>>

Init ==
    /\ call = [q \in Calls |-> "new"]
    /\ busy = {}
    /\ stopped = FALSE

Submit(q) ==
    /\ call[q] = "new" /\ ~stopped
    /\ call' = [call EXCEPT ![q] = "pending"]
    /\ UNCHANGED <<busy, stopped>>

\* What was abandoned before the stop is not counted after it.
Begin(q) ==
    /\ call[q] \in {"pending", "abandoned"} /\ q \notin busy
    /\ Cardinality(busy) < Size \/ stopped
    /\ busy' = busy \cup {q}
    /\ UNCHANGED <<call, stopped>>

\* The query ends; its caller, if there still is one, is told.
End(q) ==
    /\ q \in busy
    /\ busy' = busy \ {q}
    /\ \/ call[q] = "pending" /\ \E c \in {"answered", "failed"} : call' = [call EXCEPT ![q] = c]
       \/ call[q] = "abandoned" /\ UNCHANGED call
    /\ UNCHANGED stopped

\* There is no connection to be had.
Refuse(q) ==
    /\ call[q] = "pending" /\ q \notin busy
    /\ call' = [call EXCEPT ![q] = "failed"]
    /\ UNCHANGED <<busy, stopped>>

GiveUp(q) ==
    /\ call[q] = "pending"
    /\ call' = [call EXCEPT ![q] = "abandoned"]
    /\ UNCHANGED <<busy, stopped>>

Stop ==
    /\ ~stopped
    /\ \A q \in Calls : call[q] # "pending"
    /\ stopped' = TRUE
    /\ UNCHANGED <<call, busy>>

Next ==
    \/ \E q \in Calls : Submit(q) \/ Begin(q) \/ End(q) \/ Refuse(q) \/ GiveUp(q)
    \/ Stop

Spec == Init /\ [][Next]_vars
=============================================================================
