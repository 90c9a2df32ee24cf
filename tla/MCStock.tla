------------------------------- MODULE MCStock -------------------------------
(* Two variants, of which the second has no stock level row yet, the drafts of *)
(* one browser and documents of another client.                                *)
EXTENDS Stock, TLC

CONSTANTS v1, v2

MCFirst == (v1 :> 1) @@ (v2 :> NoRow)
MCLine(v, q) == [v |-> v, qty |-> q, count |-> 0, seen |-> 0, times |-> 1]
MCElsewhere == {<<MCLine(v2, 1), MCLine(v1, 1), MCLine(v2, -1)>>}
=============================================================================
