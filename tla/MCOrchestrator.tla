--------------------------- MODULE MCOrchestrator ---------------------------
(* A small registry: one tool for everyone, one for marca.                 *)
EXTENDS Orchestrator

MCRequired == [t \in Tools |-> IF t = "open" THEN {} ELSE {"marca"}]
MCLower == [r \in Roles |-> IF r = "Marca" THEN "marca" ELSE r]
=============================================================================
