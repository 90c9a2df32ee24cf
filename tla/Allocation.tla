----------------------------- MODULE Allocation -----------------------------
(***************************************************************************)
(* calculatePaymentAllocation: a payment spread over what is owed, oldest  *)
(* first, for customer orders and supplier purchases alike.  Items are a   *)
(* sequence in creation order, so the sort is the order of the sequence.   *)
(***************************************************************************)
EXTENDS Integers, Sequences, SequencesExt

Least(a, b) == IF a < b THEN a ELSE b
Positive(n) == IF n > 0 THEN n ELSE 0

Owed(item) == item.total - item.paid

\* Mutant of AllocateTo: all that is left goes to the item, whatever it owes.
AllocateAllTo(acc, item, k) ==
    IF acc.left <= 0 \/ Owed(item) <= 0 THEN acc
    ELSE [left |-> 0, total |-> acc.total + acc.left,
          parts |-> Append(acc.parts, [item |-> k, amount |-> acc.left])]

\* One turn of the loop over the items: nothing is left, nothing is owed, or
\* as much as is left and owed is allocated to item k.
AllocateTo(acc, item, k) ==
    LET amount == Least(acc.left, Owed(item))
    IN  IF acc.left <= 0 \/ Owed(item) <= 0 THEN acc
        ELSE [left |-> acc.left - amount, total |-> acc.total + amount,
              parts |-> Append(acc.parts, [item |-> k, amount |-> amount])]

\* The allocations of a payment over the selected items (none = all of them).
Allocate(items, selected, payment) ==
    LET end == FoldLeft(LAMBDA acc, k : IF selected = {} \/ k \in selected
                                        THEN AllocateTo(acc, items[k], k) ELSE acc,
                        [left |-> payment, total |-> 0, parts |-> <<>>],
                        [k \in DOMAIN items |-> k])
    IN  [parts |-> end.parts, total |-> end.total, excess |-> Positive(end.left)]

\* calculateRemainingBalance
RemainingBalance(items) == FoldLeft(LAMBDA sum, i : sum + Positive(Owed(i)), 0, items)
=============================================================================
