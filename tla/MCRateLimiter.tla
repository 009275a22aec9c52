--------------------------- MODULE MCRateLimiter ---------------------------
(* A small instance of RateLimiter: the clock stops at MaxTime.            *)
EXTENDS RateLimiter, TLC

CONSTANTS MaxTime,   \* bound on the clock
          MaxLog     \* bound on the hits recorded for a tenant

Bound == now <= MaxTime /\ \A t \in Tenants : Len(tenantLog[t]) <= MaxLog

Symmetric == Permutations(Tenants) \cup Permutations(Users) \cup Permutations(Slots)
=============================================================================
