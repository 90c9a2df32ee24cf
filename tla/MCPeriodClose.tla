--------------------------- MODULE MCPeriodClose ---------------------------
(* Small instances of PeriodClose: reconciliations of the cash account     *)
(* that cover one day each, at most one cashier session.                   *)
EXTENDS PeriodClose, TLC

MCAmounts == {1}
MCRequired == {"CASH_ON_HAND"}
CashOn(d, e) == [scope |-> "method", ref |-> "CASH_ON_HAND", from |-> d, to |-> e]
Symmetry == Permutations(Closers)
DayByDay == {CashOn(d, d) : d \in 1..LastDay}
=============================================================================
