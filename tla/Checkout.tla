------------------------------ MODULE Checkout ------------------------------
(***************************************************************************)
(* The point of sale in the browser: the cart of the sell page, its copy   *)
(* in local storage, and the checkout that sends it to the server and      *)
(* clears it when the answer comes.  There is no idempotency key: the      *)
(* server cannot tell a repeated checkout from a new one.                  *)
(*                                                                         *)
(* A line keeps the quantity for which its price was agreed by hand (0:    *)
(* catalogue price), since an overridden price is one for the whole line.  *)
(***************************************************************************)
EXTENDS Integers, Sequences, FiniteSets

CONSTANTS
    Item,         \* products
    MaxQuantity,  \* bound on the quantity of a line
    MaxRequests,  \* bound on the checkouts sent; no cart is edited after them
    MaxOfKind,    \* bound on the checkouts of one kind
    MaxBaskets    \* bound on the baskets started

ASSUME CheckoutAssumption ==
    /\ IsFiniteSet(Item) /\ MaxQuantity \in Nat /\ MaxRequests \in Nat
    /\ MaxOfKind \in Nat /\ MaxBaskets \in Nat

Line  == [qty : 0..MaxQuantity, agreed : 0..MaxQuantity]
Lines == [Item -> Line]

NoLine  == [qty |-> 0, agreed |-> 0]
NoLines == [i \in Item |-> NoLine]
SaleKinds == {"cash", "credit"}

VARIABLES
    cart,      \* cartItems of the service, shared with the page
    stored,    \* the copy in local storage
    basket,    \* history: how many times the cart was emptied
    phase,     \* isProcessingCheckout, and what the handler awaits
    req,       \* the checkouts sent, in this order
    drifted    \* history: a hand-made price outlived its quantity

clientVars == <<cart, stored, basket, phase, req, drifted>>

Phases == {"ready", "validating", "waiting"}

\* A request as the server sees it, and what the page knows of it: it waits for
\* the answer, has heard it, or has given up on it.
Sent == [state : {"sent", "created", "refused"}, page : {"waits", "heard", "gone"},
         lines : Lines, kind : SaleKinds, basket : Nat]

ClientInit ==
    /\ cart = NoLines /\ stored = NoLines /\ basket = 0
    /\ phase = "ready" /\ req = <<>> /\ drifted = FALSE
-----------------------------------------------------------------------------
\* Bounds.
MaySend(kind) ==
    /\ Len(req) < MaxRequests
    /\ Cardinality({r \in DOMAIN req : req[r].kind = kind}) < MaxOfKind
MayEdit == Len(req) < MaxRequests

IsEmpty(lines) == \A i \in Item : lines[i].qty = 0

\* persistCart: the whole cart, with the prices overridden so far.
Persist(lines) == cart' = lines /\ stored' = lines

\* addItemLocal, from the scanner or the search: the quantity grows and the
\* overridden line price stays.
Scan(i) ==
    /\ MayEdit /\ cart[i].qty < MaxQuantity /\ basket < MaxBaskets
    /\ Persist([cart EXCEPT ![i].qty = @ + 1])
    /\ drifted' = (drifted \/ cart[i].agreed > 0)
    /\ UNCHANGED <<basket, phase, req>>

\* Mutant of ChangeQuantity: the overridden price is not reset.
ChangeQuantityKeepPrice(i, q) ==
    /\ MayEdit /\ cart[i].qty > 0 /\ q # cart[i].qty
    /\ Persist([cart EXCEPT ![i].qty = q])
    /\ UNCHANGED <<basket, phase, req, drifted>>

\* The quantity buttons of a line: updateItemQuantityLocal persists the cart,
\* then handlePriceOverrideChange resets the price, in memory only.
ChangeQuantity(i, q) ==
    /\ MayEdit /\ cart[i].qty > 0 /\ q # cart[i].qty
    /\ stored' = [cart EXCEPT ![i].qty = q]
    /\ cart'   = [cart EXCEPT ![i] = [qty |-> q, agreed |-> 0]]
    /\ UNCHANGED <<basket, phase, req, drifted>>

\* The quantity sheet of a product sold in fractions (onQuantityUpdated): the
\* line keeps its overridden price.
EnterQuantity(i, q) ==
    /\ MayEdit /\ cart[i].qty > 0 /\ q # cart[i].qty
    /\ Persist([cart EXCEPT ![i].qty = q])
    /\ drifted' = (drifted \/ cart[i].agreed > 0)
    /\ UNCHANGED <<basket, phase, req>>

RemoveItem(i) ==
    /\ MayEdit /\ cart[i].qty > 0
    /\ Persist([cart EXCEPT ![i] = NoLine])
    /\ UNCHANGED <<basket, phase, req, drifted>>

\* handlePriceOverrideChange with a price: not persisted.
OverridePrice(i) ==
    /\ MayEdit /\ cart[i].qty > 0 /\ cart[i].agreed # cart[i].qty
    /\ cart' = [cart EXCEPT ![i].agreed = cart[i].qty]
    /\ UNCHANGED <<stored, basket, phase, req, drifted>>

\* handleConfirmClearCart.
EmptyCart ==
    /\ MayEdit /\ ~IsEmpty(cart)
    /\ Persist(NoLines) /\ basket' = basket + 1
    /\ UNCHANGED <<phase, req, drifted>>

\* Nobody waits any more for the answer to what was sent.
GiveUp == req' = [r \in DOMAIN req |->
                    IF req[r].page = "waits" THEN [req[r] EXCEPT !.page = "gone"] ELSE req[r]]

\* The page is loaded again: the cart comes from local storage.
Reload ==
    /\ MayEdit
    /\ cart' = stored /\ phase' = "ready" /\ GiveUp
    /\ drifted' = (drifted \/ \E i \in Item : stored[i].agreed \notin {0, stored[i].qty})
    /\ UNCHANGED <<stored, basket>>
-----------------------------------------------------------------------------
\* Mutant of Ready: the buttons of the checkout are not disabled.
ReadyAlways == TRUE

\* The buttons of the checkout are disabled while one is processed.
Ready == phase = "ready"

\* createOrder of the page's OrderService maps the cart as it is now.
Send(kind) ==
    /\ MaySend(kind)
    /\ req' = Append(req, [state |-> "sent", page |-> "waits",
                           lines |-> cart, kind |-> kind, basket |-> basket])
    /\ phase' = "waiting"
    /\ UNCHANGED <<cart, stored, basket, drifted>>

\* handleCompleteCash and handleCompleteCashier, from a cart with items.
CompleteCash == Ready /\ ~IsEmpty(cart) /\ Send("cash")

\* handleCompleteCredit first awaits validateCustomerCredit.
CompleteCredit ==
    /\ Ready /\ ~IsEmpty(cart) /\ MaySend("credit")
    /\ phase' = "validating"
    /\ UNCHANGED <<cart, stored, basket, req, drifted>>

Validated == phase = "validating" /\ Send("credit")

ValidationFails ==
    /\ phase = "validating" /\ phase' = "ready"
    /\ UNCHANGED <<cart, stored, basket, req, drifted>>

\* The answer of the request the page awaits (the last one sent): clearCart on
\* success, and the cart is kept when the server refused.
HearCreated ==
    /\ phase = "waiting" /\ req[Len(req)].state = "created"
    /\ req' = [req EXCEPT ![Len(req)].page = "heard"]
    /\ Persist(NoLines) /\ basket' = basket + 1
    /\ phase' = "ready"
    /\ UNCHANGED drifted

HearRefused ==
    /\ phase = "waiting" /\ req[Len(req)].state = "refused"
    /\ req' = [req EXCEPT ![Len(req)].page = "heard"]
    /\ phase' = "ready"
    /\ UNCHANGED <<cart, stored, basket, drifted>>

\* The connection breaks: the page shows an error whatever the server did.
LoseAnswer ==
    /\ phase = "waiting" /\ phase' = "ready" /\ GiveUp
    /\ UNCHANGED <<cart, stored, basket, drifted>>

ClientNext ==
    \/ \E i \in Item :
         \/ Scan(i) \/ RemoveItem(i) \/ OverridePrice(i)
         \/ \E q \in 1..MaxQuantity : ChangeQuantity(i, q) \/ EnterQuantity(i, q)
    \/ EmptyCart \/ Reload
    \/ CompleteCash \/ CompleteCredit \/ Validated \/ ValidationFails
    \/ HearCreated \/ HearRefused \/ LoseAnswer
-----------------------------------------------------------------------------
ClientTypeOK ==
    /\ cart \in Lines /\ stored \in Lines
    /\ basket \in 0..(MaxBaskets + MaxRequests) /\ phase \in Phases
    /\ Len(req) <= MaxRequests /\ \A r \in DOMAIN req : req[r] \in Sent
    /\ phase = "waiting" => req # <<>>
    /\ drifted \in BOOLEAN

\* The page gave up on this request without hearing what became of it.
Abandoned(r) == req[r].page = "gone"
=============================================================================
