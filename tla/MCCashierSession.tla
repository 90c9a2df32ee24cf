-------------------------- MODULE MCCashierSession --------------------------
(* Small instances of CashierSession: two sessions, one or two requests.   *)
EXTENDS CashierSession, TLC

MCAmounts == {0, 1}

Symmetry == Permutations(Reqs) \cup Permutations(Sessions)
=============================================================================
