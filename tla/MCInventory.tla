---------------------------- MODULE MCInventory ----------------------------
(***************************************************************************)
(* Small instances of Inventory: purchases of a variant at different costs *)
(* and expiry dates, sales that span batches, a write-off, documents with  *)
(* several lines.                                                          *)
(***************************************************************************)
EXTENDS Inventory

PLine(v, q, c, e) == [variant |-> v, qty |-> q, cost |-> c, expiry |-> e]
ILine(v, q) == [variant |-> v, qty |-> q]
Bought(i, cr, ls) == [id |-> i, credit |-> cr, lines |-> ls]
Issued(k, i, ls) == [kind |-> k, id |-> i, lines |-> ls]

Ids == {"p1", "p2", "p3", "o1", "o2", "w1", "a1"}

TwoCosts == {Bought("p1", FALSE, <<PLine("v1", 2, 1, 0)>>),
             Bought("p2", TRUE, <<PLine("v1", 1, 3, 1)>>)}
Spanning == {Issued("Order", "o1", <<ILine("v1", 2)>>),
             Issued("Order", "o2", <<ILine("v1", 1), ILine("v1", 1)>>),
             Issued("WriteOff", "w1", <<ILine("v1", 1)>>)}
Adjusted == {[id |-> "a1", lines |-> <<ILine("v1", -1)>>]}

TwoLines == {Bought("p1", FALSE, <<PLine("v1", 1, 1, 0), PLine("v2", 1, 2, 0)>>)}
Nothing == {}

LOCAL T == INSTANCE TLC
TxSymmetry == T!Permutations(Tx)
=============================================================================
