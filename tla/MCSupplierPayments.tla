------------------------- MODULE MCSupplierPayments -------------------------
(* Small instances of SupplierPayments: up to two purchases of cost 2 or 4, *)
(* so that half of a cost and an odd payment differ; and the allocation     *)
(* itself, over them and one item more.                                     *)
EXTENDS SupplierPayments, FiniteSetsExt

AllStatuses == {"pending", "partial", "paid"}
MCCosts == {2, 4}
LOCAL T == INSTANCE TLC
PayerSymmetry == T!Permutations(Payers)
MCPayments == {1, 2, 3}
-----------------------------------------------------------------------------
\* What is really paid on each purchase, and possibly one item more.
Item == [total : 0 .. 2, paid : 0 .. 2]
ItemsNow == [k \in DOMAIN purchases |-> [total |-> purchases[k].cost, paid |-> paid[k]]]
ItemLists == {ItemsNow} \cup {Append(ItemsNow, item) : item \in Item}

AmountTo(result, k) ==
    MapThenSumSet(LAMBDA j : result.parts[j].amount,
                  {j \in DOMAIN result.parts : result.parts[j].item = k})

\* Wherever an allocation may begin, every item gets what is left of the payment
\* after the older selected items are paid in full, up to what it owes, and no
\* cent is lost: what is allocated, as reported and as listed, and the excess add
\* up to the payment, and the remaining balance falls by what is allocated
\* (calculatePaymentAllocation, calculateRemainingBalance; items may owe nothing
\* or be overpaid).
OldestPaidFirst ==
    (\A t \in Payers : ~run[t].open) =>
      \A items \in ItemLists, payment \in 0 .. 5 : \A selected \in SUBSET DOMAIN items :
        LET result   == Allocate(items, selected, payment)
            eligible == IF selected = {} THEN DOMAIN items ELSE selected
            before(k) == MapThenSumSet(LAMBDA j : Positive(Owed(items[j])),
                                       {j \in eligible : j < k})
        IN  /\ \A k \in DOMAIN items :
                  AmountTo(result, k) =
                      IF k \in eligible
                      THEN Least(Positive(Owed(items[k])), Positive(payment - before(k)))
                      ELSE 0
            /\ result.total = MapThenSumSet(LAMBDA k : AmountTo(result, k), DOMAIN items)
            /\ result.total + result.excess = payment
            /\ RemainingBalance([k \in DOMAIN items |->
                   [items[k] EXCEPT !.paid = @ + AmountTo(result, k)]])
                 = RemainingBalance(items) - result.total
=============================================================================
