---------------------------- MODULE MCBriefings ----------------------------
(* Two tenants whose stores, products and brands have the same numbers; three *)
(* weeks, of December and January; a brand of two active products that name   *)
(* it differently, one of a product that is not active, a product that is in  *)
(* no dimension, a service, and a store that is not active.  Product 1 is     *)
(* obsolete after a week without a sale: an invoice of the week before may    *)
(* raise two alerts.                                                          *)
EXTENDS Briefings

Sku(t, k, b, m, a) ==
    [tenant |-> t, sku |-> k, brand |-> b, name |-> m, active |-> a, service |-> t = 2]
Invoice(i, t, w, s, k, l) ==
    [id |-> i, tenant |-> t, week |-> w, store |-> s, sku |-> k, left |-> l]

MCDimSku   == {Sku(1, 1, 1, 1, TRUE), Sku(1, 2, 1, 2, TRUE), Sku(1, 3, 2, 3, FALSE),
               Sku(2, 1, 1, 4, TRUE)}
MCDimStore == {[tenant |-> x[1], store |-> x[2], active |-> x[1] = 1] : x \in {<<1, 1>>, <<1, 2>>, <<2, 1>>}}
MCPlanned  == {[tenant |-> 1, week |-> 3, brand |-> 1, n |-> 4]}
MCMonthOf  == <<202512, 202512, 202601>>
MCPrice    == <<2, 1, 3, 1>>
MCRule     == [k \in 1..4 |-> [min |-> 30, max |-> 90, idle |-> IF k = 1 THEN 0 ELSE 12]]
MCLimits   == [top |-> 1, brands |-> 2, listed |-> 2, critical |-> 1, covered |-> 2,
               moving |-> 4, counted |-> 2, page |-> 2]

One   == Invoice(1, 1, 2, 1, 1, -1)
Two   == Invoice(2, 1, 3, 2, 2, 0)
Three == Invoice(3, 1, 3, 1, 3, 4)
Four  == Invoice(5, 1, 3, 1, 1, 3)
Other == Invoice(4, 2, 3, 1, 1, 0)
Lost  == Invoice(6, 1, 3, 2, 4, 1)

MCIssuable  == {One, Two, Three, Four, Other, Lost}
MCInitially == {{One, Two, Other}, {One, Three, Four, Lost}}

\* A list of the coverage is asked for with at most two of its four filters.
FewFilters ==
    call.at # "idle" /\ call.req.tool = "get_sku_coverage_status" =>
        Cardinality({f \in {"status", "store", "brand", "sku"} : call.req[f] # None}) <= 2
=============================================================================
