-------------------------- MODULE SupplierPayments --------------------------
(***************************************************************************)
(* SupplierPaymentAllocationService: credit purchases of one supplier, the *)
(* payment status kept on each, and the payments posted to accounts        *)
(* payable.  What was paid on a purchase is not stored: it is estimated    *)
(* from the status, 'partial' counting as half.                            *)
(*                                                                         *)
(* An allocation reads the unpaid purchases without locking, computes      *)
(* every part from that read, then goes purchase by purchase.  What it     *)
(* posts belongs to one database transaction under READ COMMITTED.  The    *)
(* status does not: it is written through the context of the caller, which *)
(* has no transaction, so that everybody sees it at once and no rollback   *)
(* takes it back.                                                          *)
(***************************************************************************)
EXTENDS Allocation

CONSTANTS
    Payers,        \* allocations that may run at the same time
    Costs,         \* totals a purchase may have
    Payments,      \* amounts a user may pay
    Recorded,      \* statuses a user may record a purchase with
    MaxPurchases   \* bound on the purchases recorded

Statuses == {"pending", "partial", "paid"}

ASSUME SupplierAssumption ==
    /\ Recorded \subseteq Statuses
    /\ Costs \subseteq Nat \ {0} /\ Payments \subseteq Nat /\ MaxPurchases \in Nat

VARIABLES
    purchases,   \* stock_purchase rows in creation order: [cost, status]
    paid,        \* committed debits of accounts payable, by purchase
    run,         \* what each allocation is doing
    together     \* history: two allocations were open at once

supplierVars == <<purchases, paid, run, together>>

\* A transaction's own postings are kept apart until it commits.
Idle == [todo |-> <<>>, debits |-> <<>>, marked |-> FALSE, open |-> FALSE, seen |-> <<>>]

SupplierInit ==
    /\ purchases = <<>> /\ paid = <<>>
    /\ run = [t \in Payers |-> Idle]
    /\ together = FALSE
-----------------------------------------------------------------------------
\* createPurchaseRecord of a credit purchase, which credits accounts payable.
\* The user names the status; nothing is paid with it.
RecordPurchase(cost, status) ==
    /\ Len(purchases) < MaxPurchases
    /\ purchases' = Append(purchases, [cost |-> cost, status |-> status])
    /\ paid' = Append(paid, 0)
    /\ UNCHANGED <<run, together>>

\* Mutant of Estimate: a paid purchase counts as not paid at all.
EstimatePartialOnly(p) == IF p.status = "partial" THEN p.cost \div 2 ELSE 0

\* The paid amount of a purchase as the service estimates it.
Estimate(p) ==
    CASE p.status = "paid"    -> p.cost
      [] p.status = "partial" -> p.cost \div 2
      [] OTHER                -> 0

StatusFor(p, amount) ==
    LET sum == Estimate(p) + amount
    IN  IF sum >= p.cost THEN "paid" ELSE IF sum > 0 THEN "partial" ELSE "pending"

Unpaid == {k \in DOMAIN purchases : purchases[k].status # "paid"}

\* allocatePaymentToPurchases, up to the loop: a paid purchase is not read, so
\* it stands here as an item that owes nothing.
Begin(t, amount, selected) ==
    LET items == [k \in DOMAIN purchases |->
                     [total |-> purchases[k].cost, paid |-> Estimate(purchases[k])]]
    IN  /\ ~run[t].open
        /\ Unpaid # {}
        /\ run' = [run EXCEPT ![t] = [Idle EXCEPT !.open = TRUE, !.seen = purchases,
                                      !.todo = Allocate(items, selected, amount).parts]]
        /\ together' = (together \/ \E u \in Payers \ {t} : run[u].open)
        /\ UNCHANGED <<purchases, paid>>

Debit(t, k) == IF k \in DOMAIN run[t].debits THEN run[t].debits[k] ELSE 0

\* Mutant of Payable: no assertion.
PayableAlways(t, amount) == TRUE

\* assertAccountsPayableInvariant, as t sees the ledger with one more debit.
Payable(t, amount) ==
    LET debits  == FoldLeft(LAMBDA s, k : s + (paid[k] + Debit(t, k)), amount,
                            [k \in DOMAIN purchases |-> k])
        credits == FoldLeft(LAMBDA s, p : s + p.cost, 0, purchases)
    IN  debits <= credits

Changes(t, r) == run' = [run EXCEPT ![t] = r]

\* The statuses it has written stay.
RollBack(t) ==
    /\ Changes(t, Idle)
    /\ UNCHANGED <<purchases, paid, together>>

\* One turn of the loop.  First the status is overwritten, for everybody ...
Mark(t) ==
    LET part == Head(run[t].todo)
        status == StatusFor(run[t].seen[part.item], part.amount)
    IN  /\ run[t].todo # <<>> /\ ~run[t].marked
        /\ purchases' = [purchases EXCEPT ![part.item].status = status]
        /\ Changes(t, [run[t] EXCEPT !.marked = TRUE])
        /\ UNCHANGED <<paid, together>>

\* ... then the payment is posted, and the invariant asserted.
Pay(t) ==
    LET part == Head(run[t].todo)
    IN  /\ run[t].marked
        /\ IF ~Payable(t, part.amount)
           THEN RollBack(t)
           ELSE /\ Changes(t, [run[t] EXCEPT
                        !.todo = Tail(@), !.marked = FALSE,
                        !.debits = [j \in DOMAIN @ \cup {part.item} |->
                                       IF j = part.item THEN part.amount ELSE @[j]]])
                /\ UNCHANGED <<purchases, paid, together>>

CommitPayment(t) ==
    /\ run[t].open /\ run[t].todo = <<>>
    /\ paid' = [k \in DOMAIN paid |-> paid[k] + Debit(t, k)]
    /\ Changes(t, Idle)
    /\ UNCHANGED <<purchases, together>>

AbortPayment(t) == run[t].open /\ RollBack(t)

SupplierNext ==
    \/ \E c \in Costs, s \in Recorded : RecordPurchase(c, s)
    \/ \E t \in Payers :
         \/ \E a \in Payments, s \in SUBSET DOMAIN purchases : Begin(t, a, s)
         \/ Mark(t) \/ Pay(t) \/ CommitPayment(t) \/ AbortPayment(t)

SupplierSpec == SupplierInit /\ [][SupplierNext]_supplierVars
-----------------------------------------------------------------------------
(* Properties *)

SupplierTypeOK ==
    /\ \A k \in DOMAIN purchases :
          purchases[k].cost \in Costs /\ purchases[k].status \in Statuses
    /\ DOMAIN paid = DOMAIN purchases /\ \A k \in DOMAIN paid : paid[k] \in Nat
    /\ \A t \in Payers : run[t].marked => run[t].todo # <<>>
    /\ together \in BOOLEAN

\* Unless two allocations overlapped, the supplier is never paid more than all
\* its purchases cost, whatever the estimate of partial payments said: the
\* assertion after each posting rolls the whole allocation back.
SupplierNotOverpaid ==
    together \/ FoldLeft(LAMBDA s, n : s + n, 0, paid)
                    <= FoldLeft(LAMBDA s, p : s + p.cost, 0, purchases)

\* Unless two allocations overlapped, a settled purchase stays settled, and money
\* arrives only at a purchase whose status tells of it already, from an
\* allocation that found it unpaid: the status is written before the payment is
\* posted, and no allocation reads a settled purchase.  That a settled purchase
\* was paid for does not follow: a status stays when its payment is rolled back.
SettledIsFinal ==
    [][\A k \in DOMAIN purchases : ~together =>
           /\ purchases[k].status = "paid" => purchases'[k] = purchases[k]
           /\ paid'[k] # paid[k] =>
                /\ purchases[k].status # "pending"
                /\ \E t \in Payers : run[t].open /\ run[t].seen[k].status # "paid"]_supplierVars
=============================================================================
