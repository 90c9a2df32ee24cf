--------------------------- MODULE MCCreditLimit ---------------------------
(* Small instances of CreditLimit: a customer and a supplier.              *)
EXTENDS CreditLimit, TLC

MCTotals == {1, 2}
MCLimits == {0, 2}

Symmetry == Permutations(Tx) \cup Permutations(Editors)
=============================================================================
