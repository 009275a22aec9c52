---------------------------- MODULE MCGoldRefresh ----------------------------
(* Small instances of GoldRefresh: the runs are interchangeable.           *)
EXTENDS GoldRefresh, TLC

\* A sale that empties the shelf in time to be dead in the second week, a sale of
\* the second week, and a transfer that leaves a balance to fill forward.
Documents == {d \in Document :
    /\ d.valid /\ d.copies = 1
    /\ d.kind = "transfer" => d.week = 1 /\ ~d.empties
    /\ d.kind = "sale" => (d.empties <=> d.week < LastWeek)}

\* What the runs of gold_refresh leave aside: documents in an order that is like
\* another, two runs among edits and faults while there is no document, and edits
\* after both runs.
Pruned ==
    /\ Len(docs) = 2 => /\ docs[2].kind = "transfer" => docs[1].kind = "transfer"
                        /\ docs[1].week = 2 => docs[2].week = 1
    /\ docs = <<>> /\ events > 0 => \E r \in Runs : run[r].state = "idle"
    /\ \E r \in Runs : run[r].state \in {"idle", "running"}

Symmetric == Permutations(Runs)
=============================================================================
