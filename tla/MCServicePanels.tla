--------------------------- MODULE MCServicePanels ---------------------------
(* Small instances of ServicePanels: calls, tenants and roles are each        *)
(* interchangeable.                                                         *)
EXTENDS ServicePanels, TLC

Symmetric == Permutations(Calls) \cup Permutations(Tenants) \cup Permutations(Roles)
=============================================================================
