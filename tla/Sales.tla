-------------------------------- MODULE Sales --------------------------------
(***************************************************************************)
(* Orders on the server: createOrder for the requests of Checkout, the     *)
(* allocation of a customer's payments to credit orders, and the adapter   *)
(* that posts every settled payment once more as a safety net.             *)
(*                                                                         *)
(* createOrder and an allocation are database transactions under READ      *)
(* COMMITTED.  Two orders share no row, so createOrder is one step (its    *)
(* race with the credit limit is in CreditLimit).  An allocation reads the *)
(* unpaid orders, then pays order by order; the only row it waits for is   *)
(* the order's own, which it updates after each payment.  Vendure is       *)
(* external: a new payment may come back unsettled, as the service expects *)
(* it, or already settled.                                                 *)
(***************************************************************************)
EXTENDS Checkout, Allocation, PostingPolicy

CONSTANTS
    Price,      \* catalogue price of every product
    Tx,         \* allocations that may run at the same time
    Payments    \* amounts a customer may pay

ASSUME SalesAssumption ==
    Price \in Nat \ {0} /\ IsFiniteSet(Tx) /\ Payments \subseteq Nat

VARIABLES
    orders,     \* committed orders, oldest first
    payments,   \* committed payments
    journal,    \* committed journal entries
    events,     \* payments whose settled event the adapter has not handled
    run,        \* what each allocation is doing
    missed,     \* history: orders whose payment nobody posted
    overlapped  \* history: two allocations were open at once

serverVars == <<orders, payments, journal, events, run, missed, overlapped>>
vars == <<clientVars, serverVars>>

Order   == [req : 1..MaxRequests, kind : SaleKinds, total : Nat, lines : Lines]
Payment == [order : Nat, n : Nat, amount : Nat, method : {"cash", "credit"}]

OrderId(o)   == <<o, 0>>
PaymentId(p) == <<p.order, p.n>>

Idle == [open |-> FALSE, todo |-> <<>>, payments |-> {}, entries |-> {},
         touch |-> 0, locked |-> {}]

Init ==
    /\ ClientInit
    /\ orders = <<>> /\ payments = {} /\ journal = {} /\ events = {}
    /\ run = [t \in Tx |-> Idle]
    /\ missed = {} /\ overlapped = FALSE
-----------------------------------------------------------------------------
(* createOrder *)

\* addItemToOrder prices the line at once, from the catalogue.  A price agreed by
\* hand becomes a custom field of the line afterwards, and nothing prices the
\* line again: it is recorded (the field agreed), and is not what is charged.
LineTotal(l) == Price * l.qty

TotalOf(lines) == MapThenSumSet(LAMBDA i : LineTotal(lines[i]),
                                {i \in Item : lines[i].qty > 0})

Post(kind, id, o, amount, method) ==
    EntryOf([kind |-> kind, id |-> id, party |-> o, amount |-> amount,
             method |-> method], 0)

Answer(r, state) == req' = [req EXCEPT ![r].state = state]

AddOrder(r) == orders' = Append(orders, [req |-> r, kind |-> req[r].kind,
                   total |-> TotalOf(req[r].lines), lines |-> req[r].lines])

\* validateInput, or an error anywhere: the transaction is rolled back.
RefuseOrder(r) ==
    /\ req[r].state = "sent"
    /\ Answer(r, "refused")
    /\ UNCHANGED <<cart, stored, basket, phase, drifted, serverVars>>

\* handleCreditSale: fulfilled without payment, and posted as a credit sale.
CreateCreditOrder(r) ==
    LET o == Len(orders) + 1
    IN  /\ req[r].state = "sent" /\ req[r].kind = "credit" /\ ~IsEmpty(req[r].lines)
        /\ AddOrder(r) /\ Answer(r, "created")
        /\ journal' = journal \cup
              {Post("CreditSale", OrderId(o), o, TotalOf(req[r].lines), "credit")}
        /\ UNCHANGED <<cart, stored, basket, phase, drifted,
                       payments, events, run, missed, overlapped>>

\* handleCashSale: addPayment, then the fulfilment.  addPayment posts the
\* payment, or returns without an error when the order it got back does not
\* list the payment ("unlisted") or the payment could not be settled.
CreateCashOrder(r, outcome) ==
    LET o == Len(orders) + 1
        p == [order |-> o, n |-> 1, amount |-> TotalOf(req[r].lines), method |-> "cash"]
    IN  /\ req[r].state = "sent" /\ req[r].kind = "cash" /\ ~IsEmpty(req[r].lines)
        /\ AddOrder(r) /\ Answer(r, "created")
        /\ payments' = IF outcome = "unsettled" THEN payments ELSE payments \cup {p}
        /\ events'   = IF outcome = "unsettled" THEN events ELSE events \cup {p}
        /\ missed'   = IF outcome = "unsettled" THEN missed \cup {o} ELSE missed
        /\ journal'  = IF outcome # "posted" THEN journal ELSE journal \cup
              {Post("Payment", PaymentId(p), o, p.amount, "cash")}
        /\ UNCHANGED <<cart, stored, basket, phase, drifted, run, overlapped>>
-----------------------------------------------------------------------------
(* PaymentEventsAdapter *)

\* Mutant of Handle: the safety net posts under the order, not the payment.
HandleByOrder(p) ==
    /\ events' = events \ {p}
    /\ journal' = journal \cup {Post("Payment", OrderId(p.order), p.order, p.amount, p.method)}
    /\ UNCHANGED <<clientVars, orders, payments, run, missed, overlapped>>

\* Mutant of Handle: the settled payment of a credit order is posted again, as
\* an allocation.
HandleAsAllocation(p) ==
    /\ events' = events \ {p}
    /\ journal' = journal \cup
          {Post("PaymentAllocation", PaymentId(p), p.order, p.amount, p.method)}
    /\ UNCHANGED <<clientVars, orders, payments, run, missed, overlapped>>

IsPosted(p) == \E e \in journal : Source(e) = <<"Payment", PaymentId(p)>>

\* recordPayment for a settled payment; post() returns the entry there is.
Handle(p) ==
    /\ p.amount > 0
    /\ events' = events \ {p}
    /\ journal' = IF IsPosted(p) THEN journal ELSE journal \cup
          {Post("Payment", PaymentId(p), p.order, p.amount, p.method)}
    /\ UNCHANGED <<clientVars, orders, payments, run, missed, overlapped>>

\* Any error, also that of an amount that is not positive, is logged and the
\* event is gone.
HandleFails(p) ==
    /\ events' = events \ {p}
    /\ missed' = IF IsPosted(p) THEN missed ELSE missed \cup {p.order}
    /\ UNCHANGED <<clientVars, orders, payments, journal, run, overlapped>>
-----------------------------------------------------------------------------
(* PaymentAllocationService *)

SumOf(S) == MapThenSumSet(LAMBDA p : p.amount, S)

\* Mutant of PaidOn: payments of this transaction are all that counts.
PaidOnOwn(t, o) == SumOf({p \in run[t].payments : p.order = o})

\* What is settled on an order, as transaction t sees it.
PaidOn(t, o) == SumOf({p \in payments \cup run[t].payments : p.order = o})

\* getUnpaidOrdersForCustomer.
Unpaid(t) == {o \in DOMAIN orders : orders[o].kind = "credit" /\ orders[o].total > PaidOn(t, o)}

\* Bound: payments come in when the checkouts are through and the cart is empty.
CheckoutsOver ==
    /\ ~MayEdit /\ phase = "ready" /\ IsEmpty(cart) /\ IsEmpty(stored)
    /\ \A r \in DOMAIN req : req[r].state \in {"created", "refused"}

\* allocatePaymentToOrders, up to the loop.  An order that is not read stands
\* here as an item that owes nothing.
BeginAllocation(t, amount, selected) ==
    LET items == [o \in DOMAIN orders |->
                     [total |-> IF o \in Unpaid(t) THEN orders[o].total ELSE 0,
                      paid  |-> IF o \in Unpaid(t) THEN PaidOn(t, o) ELSE 0]]
        read  == IF selected = {} THEN Unpaid(t) ELSE Unpaid(t) \cap selected
    IN  /\ CheckoutsOver /\ ~run[t].open /\ read # {}
        /\ run' = [run EXCEPT ![t] = [Idle EXCEPT !.open = TRUE,
                                      !.todo = Allocate(items, selected, amount).parts]]
        /\ overlapped' = (overlapped \/ \E u \in Tx \ {t} : run[u].open)
        /\ UNCHANGED <<clientVars, orders, payments, journal, events, missed>>

RollBack(t) ==
    /\ run' = [run EXCEPT ![t] = Idle]
    /\ UNCHANGED <<clientVars, orders, payments, journal, events, missed, overlapped>>

\* A number no payment of the order has, committed or not.
NextNumber(o) ==
    LET all == payments \cup UNION {run[u].payments : u \in Tx}
    IN  CHOOSE n \in 1..(Cardinality(all) + 1) :
            \A p \in all : p.order = o => p.n # n

\* assertAccountsReceivableInvariant, with one more entry of order o.
Receivable(t, o, e) ==
    LET seen == journal \cup run[t].entries \cup {e}
    IN  Total(Credits(seen, "ACCOUNTS_RECEIVABLE", o))
          <= Total(Debits(seen, "ACCOUNTS_RECEIVABLE", o))

\* One turn of the loop.  A payment recorded with the metadata of the request and
\* not yet settled is the one the service looks for: it is settled, and what was
\* allocated is posted and asserted.  (The metadata of the credit handler itself
\* would not match; Vendure decides whose it keeps.)
PayAuthorized(t) ==
    LET part == Head(run[t].todo)
        o    == part.item
        p    == [order |-> o, n |-> NextNumber(o), amount |-> orders[o].total,
                 method |-> "credit"]
        e    == Post("PaymentAllocation", PaymentId(p), o, part.amount, "credit")
    IN  /\ run[t].todo # <<>> /\ run[t].touch = 0
        /\ IF Receivable(t, o, e)
           THEN /\ run' = [run EXCEPT ![t].payments = @ \cup {p},
                                      ![t].entries = @ \cup {e}, ![t].touch = o]
                /\ UNCHANGED <<clientVars, orders, payments, journal, events,
                               missed, overlapped>>
           ELSE RollBack(t)

\* A payment that Vendure settled at once, for what is outstanding, is not
\* found among the payments to settle: nothing is posted.
PaySettled(t) ==
    LET o == Head(run[t].todo).item
        p == [order |-> o, n |-> NextNumber(o),
              amount |-> Positive(orders[o].total - PaidOn(t, o)), method |-> "credit"]
    IN  /\ run[t].todo # <<>> /\ run[t].touch = 0
        /\ run' = [run EXCEPT ![t].payments = @ \cup {p}, ![t].touch = o]
        /\ UNCHANGED <<clientVars, orders, payments, journal, events, missed, overlapped>>

\* updateOrderCustomFields: the update of the order's row waits for another
\* transaction that has updated it.
TouchOrder(t) ==
    LET o == run[t].touch
    IN  /\ o # 0 /\ \A u \in Tx \ {t} : o \notin run[u].locked
        /\ run' = [run EXCEPT ![t].touch = 0, ![t].locked = @ \cup {o}, ![t].todo = Tail(@)]
        /\ UNCHANGED <<clientVars, orders, payments, journal, events, missed, overlapped>>

\* The transaction commits, and its events reach their subscribers.
CommitAllocation(t) ==
    /\ run[t].open /\ run[t].todo = <<>> /\ run[t].touch = 0
    /\ payments' = payments \cup run[t].payments
    /\ journal'  = journal \cup run[t].entries
    /\ events'   = events \cup run[t].payments
    /\ run' = [run EXCEPT ![t] = Idle]
    /\ UNCHANGED <<clientVars, orders, missed, overlapped>>

\* An error of Vendure or of the credit handler rolls everything back.
AbortAllocation(t) == run[t].open /\ RollBack(t)
-----------------------------------------------------------------------------
ServerNext ==
    \/ \E r \in DOMAIN req :
         \/ RefuseOrder(r) \/ CreateCreditOrder(r)
         \/ \E outcome \in {"posted", "unlisted", "unsettled"} : CreateCashOrder(r, outcome)
    \/ \E p \in events : Handle(p) \/ HandleFails(p)
    \/ \E t \in Tx :
         \/ \E a \in Payments, s \in SUBSET DOMAIN orders : BeginAllocation(t, a, s)
         \/ PayAuthorized(t) \/ PaySettled(t) \/ TouchOrder(t)
         \/ CommitAllocation(t) \/ AbortAllocation(t)

Next == (ClientNext /\ UNCHANGED serverVars) \/ ServerNext

Spec == Init /\ [][Next]_vars
-----------------------------------------------------------------------------
(* Properties *)

TypeOK ==
    /\ ClientTypeOK
    /\ \A o \in DOMAIN orders : orders[o] \in Order
    /\ payments \subseteq Payment /\ events \subseteq payments
    /\ missed \subseteq DOMAIN orders /\ overlapped \in BOOLEAN

\* One basket is sold once: a second order for it means that the page gave up
\* on the first request (reload, broken connection) without hearing of it.
OneOrderPerBasket ==
    \A r, s \in DOMAIN req :
        r < s /\ req[r].state = "created" /\ req[s].state = "created"
          /\ req[r].basket = req[s].basket => Abandoned(r)

\* The price agreed by hand that an order records for a line (its customLinePrice,
\* a price for the whole line) was agreed for the quantity of that line, unless
\* the product was scanned again afterwards, its quantity entered in the sheet, or
\* an old cart loaded.
PriceAgreed ==
    drifted \/ \A o \in DOMAIN orders : \A i \in Item :
                   orders[o].lines[i].agreed \in {0, orders[o].lines[i].qty}

Revenue(o) == Total(Credits(journal, "SALES", o))

\* Each sale is in the books as revenue once, for its total: a cash order as
\* soon as its payment is posted (by createOrder or by the safety net, never by
\* both), a credit order until the safety net sees one of its payments settled.
RevenueOnce ==
    \A o \in DOMAIN orders :
        IF orders[o].kind = "cash"
        THEN \/ Revenue(o) = orders[o].total
             \/ Revenue(o) = 0 /\ (o \in missed \/ \E p \in events : p.order = o)
        ELSE Revenue(o) = orders[o].total
             \/ \E p \in payments \ events : p.order = o

Collected(o) == SumOf({p \in payments : p.order = o})

\* The ledger never says more was collected on a credit order than was settled
\* on it; and unless two allocations overlapped, an order is paid once.
PaidOnce ==
    \A o \in DOMAIN orders : orders[o].kind = "credit" =>
        /\ Total(Credits(journal, "ACCOUNTS_RECEIVABLE", o)) <= Collected(o)
        /\ overlapped \/ Collected(o) <= orders[o].total

\* The accounts that sales and their payments touch.
Accounts == {"SALES", "ACCOUNTS_RECEIVABLE", "CASH_ON_HAND", "CLEARING_MPESA",
             "CLEARING_CREDIT", "CLEARING_GENERIC"}

Entry == [kind : Kinds, id : Nat \X Nat, party : Nat, amount : Nat,
          dr : Accounts, cr : Accounts, date : {0}]

Book == INSTANCE Journal WITH Entry <- Entry, journal <- journal

\* Orders, allocations and the safety net together keep the promise of the
\* journal: append only, one entry per event.
ImplementsJournal == Book!AppendSpec
=============================================================================
