----------------------------- MODULE SalesProofs -----------------------------
(***************************************************************************)
(* Proofs about orders, their payments and their entries, for any number   *)
(* of products, requests and allocations.                                  *)
(***************************************************************************)
EXTENDS Sales, Sums, SequenceTheorems

USE CheckoutAssumption, SalesAssumption DEF CheckoutAssumption, SalesAssumption
-----------------------------------------------------------------------------
(* The checkout *)

Agreed(lines) == \A i \in Item : lines[i].agreed \in {0, lines[i].qty}

ClientTyped ==
    /\ cart \in Lines /\ stored \in Lines /\ basket \in Nat /\ phase \in Phases
    /\ req \in Seq(Sent) /\ Len(req) <= MaxRequests /\ drifted \in BOOLEAN

\* Only the last request may wait for its answer, and what was heard was decided.
Waiting ==
    /\ phase = "waiting" => req # <<>>
    /\ \A r \in DOMAIN req :
          /\ (req[r].page = "waits" => (r = Len(req) /\ phase = "waiting"))
          /\ (req[r].page = "heard" => req[r].state # "sent")

Sold(r) == req[r].page = "heard" /\ req[r].state = "created"

\* A basket whose order the page heard of is over.
BasketsEnd ==
    /\ \A r \in DOMAIN req :
          req[r].basket <= basket /\ (Sold(r) => req[r].basket < basket)
    /\ \A r, s \in DOMAIN req : (r < s /\ Sold(r)) => req[r].basket < req[s].basket

\* Unless a price outlived its quantity, it is not in what is sold.
AgreedAlways ==
    drifted \/ /\ Agreed(cart)
               /\ \A r \in DOMAIN req : Agreed(req[r].lines)
               /\ \A o \in DOMAIN orders : Agreed(orders[o].lines)

ClientInv == ClientTyped /\ Waiting /\ BasketsEnd
-----------------------------------------------------------------------------
(* The server *)

Part == [item : Nat, amount : Int]
Run  == [open : BOOLEAN, todo : Seq(Part), payments : SUBSET Payment,
         entries : SUBSET Entry, touch : Nat, locked : SUBSET Nat]

ServerTyped ==
    /\ orders \in Seq(Order)
    /\ payments \subseteq Payment /\ IsFiniteSet(payments) /\ events \subseteq payments
    /\ journal \subseteq Entry /\ IsFiniteSet(journal)
    /\ missed \subseteq DOMAIN orders /\ overlapped \in BOOLEAN
    /\ run \in [Tx -> Run]
    /\ \A t \in Tx : IsFiniteSet(run[t].payments) /\ IsFiniteSet(run[t].entries)

SaleOf(o)    == Post("CreditSale", OrderId(o), o, orders[o].total, "credit")
EntryFor(p)  == Post("Payment", PaymentId(p), p.order, p.amount, p.method)
Allocated(p, a) == Post("PaymentAllocation", PaymentId(p), p.order, a, "credit")
CashFor(o)   == [order |-> o, n |-> 1, amount |-> orders[o].total, method |-> "cash"]

\* A payment of a credit order, as an allocation makes it.
OfCredit(p) == p.order \in DOMAIN orders /\ orders[p.order].kind = "credit"

\* An entry that an allocation posts for a payment of S.
PaidFrom(S, e) == \E p \in S : e = Allocated(p, e.amount) /\ e.amount <= p.amount

\* What an allocation has before it and behind it.
RunOk(r) ==
    /\ (r.touch # 0 => (r.todo # <<>> /\ r.touch = Head(r.todo).item))
    /\ (r.todo # <<>> => r.open)
    /\ (~r.open => (r.payments = {} /\ r.entries = {}))
    /\ \A k \in DOMAIN r.todo :
          /\ r.todo[k].item \in DOMAIN orders /\ orders[r.todo[k].item].kind = "credit"
          /\ 0 <= r.todo[k].amount /\ r.todo[k].amount <= orders[r.todo[k].item].total
          /\ \A j \in 1..(k - 1) : r.todo[j].item # r.todo[k].item
    /\ \A p \in r.payments : OfCredit(p)
    /\ \A e \in r.entries : PaidFrom(r.payments, e)
    /\ \A e, f \in r.entries : e.id = f.id => e = f

Runs == \A t \in Tx : RunOk(run[t])

\* The payments of a run are new, and nobody else's.
Numbered ==
    /\ \A p, q \in payments : PaymentId(p) = PaymentId(q) => p = q
    /\ \A t \in Tx : \A p \in run[t].payments :
          /\ \A q \in payments : PaymentId(p) # PaymentId(q)
          /\ \A q \in run[t].payments : PaymentId(p) = PaymentId(q) => p = q
          /\ \A u \in Tx \ {t} : \A q \in run[u].payments : PaymentId(p) # PaymentId(q)

\* A cash order has one payment at most, made with the order.
Paid == \A p \in payments : OfCredit(p) \/ (p.order \in DOMAIN orders /\ p = CashFor(p.order))

\* Where an entry of the books comes from.
Origin(e) ==
    \/ \E o \in DOMAIN orders : orders[o].kind = "credit" /\ e = SaleOf(o)
    \/ \E p \in payments : e = EntryFor(p) /\ (OfCredit(p) => p \notin events)
    \/ PaidFrom(payments, e)

Explained == \A e \in journal : Origin(e)

OneEach == \A e, f \in journal : Source(e) = Source(f) => e = f

\* Every order is in the books, or its payment waits or was missed.
SalePosted(o) ==
    \/ orders[o].kind = "credit" /\ SaleOf(o) \in journal
    \/ /\ orders[o].kind = "cash"
       /\ EntryFor(CashFor(o)) \in journal \/ o \in missed \/ CashFor(o) \in events

SalesPosted == \A o \in DOMAIN orders : SalePosted(o)

\* The payments that transaction t sees.
Sees(t) == payments \cup run[t].payments

\* The orders that a run has still to pay.
DueOf(r) == {r.todo[k].item : k \in {j \in DOMAIN r.todo : j > 1 \/ r.touch = 0}}

\* The payments S pay every credit order of os once and for its total, and none of D.
Apart(os, S, D) ==
    /\ \A p \in S : os[p.order].kind = "credit" => p.amount = os[p.order].total
    /\ \A p, q \in S : (os[p.order].kind = "credit" /\ p.order = q.order) => p = q
    /\ \A o \in D : \A p \in S : p.order # o

\* One allocation at a time pays every order once, and for its total.
Alone ==
    /\ \A t, u \in Tx : (run[t].open /\ run[u].open) => t = u
    /\ Apart(orders, payments, {}) /\ \A t \in Tx : Apart(orders, Sees(t), DueOf(run[t]))

PaidApart == overlapped \/ Alone

BooksInv == Runs /\ Numbered /\ Paid /\ Explained /\ OneEach /\ SalesPosted /\ PaidApart

IInv == ClientInv /\ AgreedAlways /\ ServerTyped /\ BooksInv
-----------------------------------------------------------------------------
(* Steps of the checkout *)

LEMMA LinesTyped ==
    /\ NoLines \in Lines /\ Agreed(NoLines)
    /\ \A c \in Lines : \A i \in Item : \A l \in Line : [c EXCEPT ![i] = l] \in Lines
    /\ \A c \in Lines : \A i \in Item :
          c[i].qty \in 0..MaxQuantity /\ c[i].agreed \in 0..MaxQuantity
    /\ \A c \in Lines : \A i \in Item : \A q \in 0..MaxQuantity :
          /\ [c EXCEPT ![i].qty = q] \in Lines /\ [c EXCEPT ![i].agreed = q] \in Lines
  BY DEF Lines, Line, NoLines, NoLine, Agreed

\* What the requests are made of.
LEMMA Reqs ==
    ASSUME ClientTyped
    PROVE  /\ Len(req) \in Nat /\ DOMAIN req = 1..Len(req) /\ req \in [1..Len(req) -> Sent]
           /\ \A r \in DOMAIN req :
                 /\ req[r] \in Sent /\ req[r].page \in {"waits", "heard", "gone"}
                 /\ req[r].state \in {"sent", "created", "refused"}
                 /\ req[r].basket \in Nat /\ req[r].lines \in Lines
                 /\ req[r].kind \in SaleKinds
<1>1. Len(req) \in Nat /\ DOMAIN req = 1..Len(req) /\ req \in [1..Len(req) -> Sent]
  BY LenProperties DEF ClientTyped
<1> QED BY <1>1 DEF Sent

\* Only what the page knows of a request changes.
PagesChange(new) ==
    /\ req' \in Seq(Sent) /\ Len(req') = Len(req) /\ DOMAIN req' = DOMAIN req
    /\ \A r \in DOMAIN req :
          /\ req'[r].page = new[r] /\ req'[r].state = req[r].state
          /\ req'[r].lines = req[r].lines /\ req'[r].kind = req[r].kind
          /\ req'[r].basket = req[r].basket

LEMMA PagesMoved ==
    ASSUME ClientTyped, NEW new \in [DOMAIN req -> {"waits", "heard", "gone"}],
           req' = [r \in DOMAIN req |-> [req[r] EXCEPT !.page = new[r]]]
    PROVE  PagesChange(new)
<1>1. /\ Len(req) \in Nat /\ DOMAIN req = 1..Len(req)
      /\ \A r \in DOMAIN req : req[r] \in Sent
  BY Reqs
<1>2. \A r \in DOMAIN req : [req[r] EXCEPT !.page = new[r]] \in Sent
  BY <1>1 DEF Sent
<1>3. req' \in [1..Len(req) -> Sent]
  BY <1>1, <1>2
<1>4. req' \in Seq(Sent) /\ Len(req') = Len(req) /\ DOMAIN req' = DOMAIN req
  <2>1. req' \in Seq(Sent)
    BY <1>1, <1>3, SeqDef
  <2>2. DOMAIN req' = 1..Len(req') /\ Len(req') \in Nat
    BY <2>1, LenProperties
  <2> QED BY <1>1, <1>3, <2>1, <2>2
<1>5. \A r \in DOMAIN req :
         /\ req'[r].page = new[r] /\ req'[r].state = req[r].state
         /\ req'[r].lines = req[r].lines /\ req'[r].kind = req[r].kind
         /\ req'[r].basket = req[r].basket
  BY <1>1 DEF Sent
<1> QED BY <1>4, <1>5 DEF PagesChange

\* Nobody waits any more.
LEMMA GivenUp ==
    ASSUME ClientTyped, GiveUp
    PROVE  PagesChange([r \in DOMAIN req |->
                          IF req[r].page = "waits" THEN "gone" ELSE req[r].page])
<1> DEFINE new == [r \in DOMAIN req |-> IF req[r].page = "waits" THEN "gone" ELSE req[r].page]
<1>1. \A r \in DOMAIN req : req[r] \in Sent /\ req[r].page \in {"waits", "heard", "gone"}
  BY Reqs
<1>2. new \in [DOMAIN req -> {"waits", "heard", "gone"}]
  BY <1>1
<1>3. \A r \in DOMAIN req : [req[r] EXCEPT !.page = new[r]]
         = IF req[r].page = "waits" THEN [req[r] EXCEPT !.page = "gone"] ELSE req[r]
  BY <1>1 DEF Sent
<1>4. req' = [r \in DOMAIN req |-> [req[r] EXCEPT !.page = new[r]]]
  BY <1>3 DEF GiveUp
<1> HIDE DEF new
<1>5. PagesChange(new)
  BY <1>2, <1>4, PagesMoved
<1> QED BY <1>5 DEF new

\* The last request is heard of.
LEMMA LastHeard ==
    ASSUME ClientTyped, req # <<>>, req' = [req EXCEPT ![Len(req)].page = "heard"]
    PROVE  /\ Len(req) \in DOMAIN req
           /\ PagesChange([r \in DOMAIN req |-> IF r = Len(req) THEN "heard" ELSE req[r].page])
<1> DEFINE new == [r \in DOMAIN req |-> IF r = Len(req) THEN "heard" ELSE req[r].page]
<1>1. /\ Len(req) \in DOMAIN req
      /\ \A r \in DOMAIN req : req[r] \in Sent /\ req[r].page \in {"waits", "heard", "gone"}
  BY Reqs, EmptySeq DEF ClientTyped
<1>2. new \in [DOMAIN req -> {"waits", "heard", "gone"}]
  BY <1>1
<1>3. \A r \in DOMAIN req : [req[r] EXCEPT !.page = new[r]]
         = IF r = Len(req) THEN [req[r] EXCEPT !.page = "heard"] ELSE req[r]
  BY <1>1 DEF Sent
<1>4. req' = [r \in DOMAIN req |-> [req[r] EXCEPT !.page = new[r]]]
  <2>1. req = [r \in DOMAIN req |-> req[r]]
    BY Reqs
  <2> QED BY <1>1, <1>3, <2>1
<1> HIDE DEF new
<1>5. PagesChange(new)
  BY <1>2, <1>4, PagesMoved
<1> QED BY <1>1, <1>5 DEF new

\* One more request.
LEMMA OneSent ==
    ASSUME ClientTyped, NEW kind \in SaleKinds, Send(kind)
    PROVE  /\ req' \in Seq(Sent) /\ Len(req') = Len(req) + 1 /\ Len(req') <= MaxRequests
           /\ DOMAIN req' = 1..(Len(req) + 1)
           /\ \A r \in DOMAIN req : req'[r] = req[r]
           /\ req'[Len(req) + 1] = [state |-> "sent", page |-> "waits", lines |-> cart,
                                    kind |-> kind, basket |-> basket]
<1>1. PICK new \in Sent : new = [state |-> "sent", page |-> "waits", lines |-> cart,
                                 kind |-> kind, basket |-> basket]
  BY DEF ClientTyped, Sent
<1>2. req \in Seq(Sent) /\ req' = Append(req, new)
  BY <1>1 DEF ClientTyped, Send
<1>3. Len(req) \in Nat /\ DOMAIN req = 1..Len(req)
  BY Reqs
<1> QED BY <1>1, <1>2, <1>3, AppendProperties DEF Send, MaySend

\* A step that sends nothing and hears nothing.
LEMMA Quiet ==
    ASSUME ClientInv, req' = req, phase' \in Phases, phase = "waiting" <=> phase' = "waiting",
           basket' \in Nat, basket' >= basket,
           cart' \in Lines, stored' \in Lines, drifted' \in BOOLEAN
    PROVE  ClientInv'
<1>1. ClientTyped' /\ Waiting'
  BY DEF ClientInv, ClientTyped, Waiting
<1>2. BasketsEnd'
  <2>1. \A r \in DOMAIN req : req[r].basket \in Nat
    BY Reqs DEF ClientInv
  <2>2. basket \in Nat
    BY DEF ClientInv, ClientTyped
  <2> QED BY <2>1, <2>2 DEF ClientInv, BasketsEnd, Sold
<1> QED BY <1>1, <1>2 DEF ClientInv

\* A step after which nobody waits any more.
LEMMA NobodyWaits ==
    ASSUME ClientInv, GiveUp, phase' = "ready", basket' = basket,
           cart' \in Lines, stored' \in Lines, drifted' \in BOOLEAN
    PROVE  ClientInv' /\ \A r \in DOMAIN req' : r \in DOMAIN req /\ req'[r].lines = req[r].lines
<1> DEFINE new == [r \in DOMAIN req |-> IF req[r].page = "waits" THEN "gone" ELSE req[r].page]
<1>1. PagesChange(new)
  BY GivenUp DEF ClientInv
<1>2. ClientTyped'
  BY <1>1 DEF ClientInv, ClientTyped, PagesChange, Phases
<1>3. \A r \in DOMAIN req : new[r] # "waits" /\ (new[r] = "heard" => req[r].page = "heard")
  OBVIOUS
<1> HIDE DEF new
<1>4. Waiting'
  BY <1>1, <1>3 DEF PagesChange, ClientInv, Waiting
<1>5. BasketsEnd'
  BY <1>1, <1>3 DEF PagesChange, ClientInv, BasketsEnd, Sold
<1> QED BY <1>1, <1>2, <1>4, <1>5 DEF ClientInv, PagesChange

\* A request is sent while no other one is awaited.
LEMMA Sends ==
    ASSUME ClientInv, NEW kind \in SaleKinds, Send(kind), phase # "waiting"
    PROVE  /\ ClientInv'
           /\ \A r \in DOMAIN req' : req'[r].lines \in {req[q].lines : q \in DOMAIN req} \cup {cart}
<1>1. /\ req' \in Seq(Sent) /\ Len(req') = Len(req) + 1 /\ Len(req') <= MaxRequests
      /\ DOMAIN req' = 1..(Len(req) + 1)
      /\ \A r \in DOMAIN req : req'[r] = req[r]
      /\ req'[Len(req) + 1] = [state |-> "sent", page |-> "waits", lines |-> cart,
                               kind |-> kind, basket |-> basket]
  BY OneSent DEF ClientInv
<1>2. Len(req) \in Nat /\ DOMAIN req = 1..Len(req) /\ \A r \in DOMAIN req : req[r].basket \in Nat
  BY Reqs DEF ClientInv
<1>3. /\ req'[Len(req) + 1].page = "waits" /\ req'[Len(req) + 1].basket = basket
      /\ req'[Len(req) + 1].lines = cart
  BY <1>1
<1>4. \A r \in DOMAIN req' : r \in DOMAIN req \/ r = Len(req')
  BY <1>1, <1>2
<1>5. ClientTyped'
  BY <1>1 DEF ClientInv, ClientTyped, Send, Phases
<1>6. Waiting'
  <2>1. req' # <<>>
    BY <1>1, <1>2, EmptySeq
  <2>2. phase' = "waiting" /\ \A r \in DOMAIN req : req[r].page # "waits"
    BY DEF Send, ClientInv, Waiting
  <2> QED BY <1>1, <1>3, <1>4, <2>1, <2>2 DEF ClientInv, Waiting
<1>7. BasketsEnd'
  <2>1. basket' = basket /\ basket \in Nat
    BY DEF Send, ClientInv, ClientTyped
  <2>2. \A r \in DOMAIN req : r < Len(req')
    BY <1>1, <1>2
  <2>3. \A r \in DOMAIN req' : req'[r].basket <= basket' /\ (Sold(r)' => req'[r].basket < basket')
    BY <1>1, <1>3, <1>4, <2>1 DEF ClientInv, BasketsEnd, Sold
  <2>4. ASSUME NEW r \in DOMAIN req', NEW q \in DOMAIN req', r < q, Sold(r)'
        PROVE  req'[r].basket < req'[q].basket
    <3>1. r \in DOMAIN req
      BY <1>1, <1>2, <2>4
    <3>2. Sold(r)
      BY <1>1, <2>4, <3>1 DEF Sold
    <3>3. CASE q \in DOMAIN req
      BY <1>1, <2>4, <3>1, <3>2, <3>3 DEF ClientInv, BasketsEnd
    <3>4. CASE q = Len(req')
      BY <1>1, <1>3, <3>1, <3>2, <3>4 DEF ClientInv, BasketsEnd
    <3> QED BY <1>4, <3>3, <3>4
  <2> QED BY <2>3, <2>4 DEF BasketsEnd
<1> QED BY <1>1, <1>3, <1>4, <1>5, <1>6, <1>7 DEF ClientInv

\* The page hears of the request it awaits.
LEMMA Hears ==
    ASSUME ClientInv, phase = "waiting", phase' = "ready", drifted' = drifted,
           req' = [req EXCEPT ![Len(req)].page = "heard"],
           cart' \in Lines, stored' \in Lines,
           \/ req[Len(req)].state = "created" /\ basket' = basket + 1
           \/ req[Len(req)].state = "refused" /\ basket' = basket
    PROVE  ClientInv' /\ \A r \in DOMAIN req' : r \in DOMAIN req /\ req'[r].lines = req[r].lines
<1> DEFINE new == [r \in DOMAIN req |-> IF r = Len(req) THEN "heard" ELSE req[r].page]
<1>1. PagesChange(new) /\ Len(req) \in DOMAIN req
  BY LastHeard DEF ClientInv, Waiting
<1>2. Len(req) \in Nat /\ DOMAIN req = 1..Len(req) /\ \A r \in DOMAIN req : req[r].basket \in Nat
  BY Reqs DEF ClientInv
<1>3. basket \in Nat /\ basket' \in Nat /\ basket' >= basket
  BY DEF ClientInv, ClientTyped
<1>4. ClientTyped'
  BY <1>1, <1>3 DEF ClientInv, ClientTyped, PagesChange, Phases
<1>5. \A r \in DOMAIN req : /\ new[r] # "waits"
                            /\ (r # Len(req) => new[r] = req[r].page)
                            /\ new[Len(req)] = "heard"
  BY <1>1 DEF ClientInv, Waiting
<1> HIDE DEF new
<1>6. Waiting'
  BY <1>1, <1>5 DEF PagesChange, ClientInv, Waiting
<1>7. BasketsEnd'
  <2>1. ASSUME NEW r \in DOMAIN req, Sold(r)'
        PROVE  Sold(r) \/ (r = Len(req) /\ basket' = basket + 1)
    BY <1>1, <1>5, <2>1 DEF Sold, PagesChange
  <2>2. \A r \in DOMAIN req :
           req'[r].basket <= basket' /\ (Sold(r)' => req'[r].basket < basket')
    BY <1>1, <1>2, <1>3, <2>1 DEF PagesChange, ClientInv, BasketsEnd
  <2>3. \A r, q \in DOMAIN req : (r < q /\ Sold(r)') => Sold(r)
    BY <1>2, <2>1
  <2>4. \A r, q \in DOMAIN req : (r < q /\ Sold(r)') => req'[r].basket < req'[q].basket
    BY <1>1, <2>3 DEF PagesChange, ClientInv, BasketsEnd
  <2>5. DOMAIN req' = DOMAIN req
    BY <1>1 DEF PagesChange
  <2> QED BY <2>2, <2>4, <2>5 DEF BasketsEnd
<1> QED BY <1>1, <1>4, <1>6, <1>7 DEF ClientInv, PagesChange

\* The server decides a request.
LEMMA Answers ==
    ASSUME ClientInv, NEW r \in DOMAIN req, req[r].state = "sent",
           NEW state \in {"created", "refused"}, Answer(r, state),
           UNCHANGED <<cart, stored, basket, phase, drifted>>
    PROVE  /\ ClientInv'
           /\ DOMAIN req' = DOMAIN req /\ \A q \in DOMAIN req : req'[q].lines = req[q].lines
<1>1. /\ Len(req) \in Nat /\ DOMAIN req = 1..Len(req)
      /\ \A q \in DOMAIN req : req[q] \in Sent
  BY Reqs DEF ClientInv
<1>2. PICK new \in Sent : new = [req[r] EXCEPT !.state = state]
  BY <1>1 DEF Sent
<1>3. req' = [req EXCEPT ![r] = new]
  BY <1>2 DEF Answer
<1>4. r \in 1..Len(req) /\ req \in Seq(Sent)
  BY <1>1 DEF ClientInv, ClientTyped
<1>5. /\ req' \in Seq(Sent) /\ Len(req') = Len(req) /\ DOMAIN req' = DOMAIN req
      /\ \A q \in DOMAIN req : req'[q] = IF q = r THEN new ELSE req[q]
  BY <1>1, <1>3, <1>4, ExceptSeq
<1>6. /\ \A q \in DOMAIN req :
            /\ req'[q].page = req[q].page /\ req'[q].basket = req[q].basket
            /\ req'[q].lines = req[q].lines
            /\ (q # r => req'[q].state = req[q].state)
      /\ req'[r].state = state
  BY <1>1, <1>2, <1>5 DEF Sent
<1>7. ClientTyped'
  BY <1>5 DEF ClientInv, ClientTyped
<1>8. Waiting'
  <2>1. req # <<>> => req' # <<>>
    BY <1>5, <1>4
  <2> QED BY <1>5, <1>6, <2>1 DEF ClientInv, Waiting
<1>9. BasketsEnd'
  <2>1. \A q \in DOMAIN req : Sold(q)' => Sold(q)
    BY <1>6 DEF Sold, ClientInv, Waiting
  <2> QED BY <1>5, <1>6, <2>1 DEF ClientInv, BasketsEnd
<1> QED BY <1>5, <1>6, <1>7, <1>8, <1>9 DEF ClientInv

\* What the cart and its copy may become.
LEMMA CartSteps ==
    ASSUME ClientTyped, ClientNext
    PROVE  cart' \in Lines /\ stored' \in Lines /\ drifted' \in BOOLEAN
<1>1. cart \in Lines /\ stored \in Lines /\ drifted \in BOOLEAN /\ NoLine \in Line
  BY DEF ClientTyped, NoLine, Line
<1>2. \A i \in Item : Scan(i) => cart' \in Lines /\ stored' \in Lines /\ drifted' \in BOOLEAN
  <2> TAKE i \in Item
  <2> HAVE Scan(i)
  <2>1. cart[i].qty + 1 \in 0..MaxQuantity
    <3>1. cart[i].qty \in 0..MaxQuantity /\ cart[i].qty < MaxQuantity
      BY <1>1, LinesTyped DEF Scan
    <3> QED BY <3>1
  <2>2. PICK q \in 0..MaxQuantity : q = cart[i].qty + 1
    BY <2>1
  <2>3. cart' = [cart EXCEPT ![i].qty = q] /\ stored' = [cart EXCEPT ![i].qty = q]
    BY <2>2 DEF Scan, Persist
  <2> QED BY <1>1, <2>3, LinesTyped DEF Scan
<1>3. ASSUME NEW i \in Item, RemoveItem(i) \/ OverridePrice(i)
      PROVE  cart' \in Lines /\ stored' \in Lines /\ drifted' \in BOOLEAN
  <2>1. cart[i].qty \in 0..MaxQuantity
    BY <1>1, LinesTyped
  <2>2. PICK q \in 0..MaxQuantity : q = cart[i].qty
    BY <2>1
  <2>3. [cart EXCEPT ![i] = NoLine] \in Lines /\ [cart EXCEPT ![i].agreed = q] \in Lines
    BY <1>1, LinesTyped
  <2> QED BY <1>1, <1>3, <2>2, <2>3 DEF RemoveItem, OverridePrice, Persist
<1>4. ASSUME NEW i \in Item, NEW q \in 1..MaxQuantity, ChangeQuantity(i, q) \/ EnterQuantity(i, q)
      PROVE  cart' \in Lines /\ stored' \in Lines /\ drifted' \in BOOLEAN
  <2>1. q \in 0..MaxQuantity /\ [qty |-> q, agreed |-> 0] \in Line
    BY DEF Line
  <2>2. [cart EXCEPT ![i].qty = q] \in Lines
        /\ [cart EXCEPT ![i] = [qty |-> q, agreed |-> 0]] \in Lines
    BY <1>1, <2>1, LinesTyped
  <2> QED BY <1>1, <1>4, <2>2 DEF ChangeQuantity, EnterQuantity, Persist
<1>5. EmptyCart \/ Reload \/ HearCreated => cart' \in Lines /\ stored' \in Lines /\ drifted' \in BOOLEAN
  BY <1>1, LinesTyped DEF EmptyCart, Reload, HearCreated, Persist
<1>6. CompleteCash \/ CompleteCredit \/ Validated \/ ValidationFails \/ HearRefused \/ LoseAnswer
        => cart' \in Lines /\ stored' \in Lines /\ drifted' \in BOOLEAN
  BY <1>1 DEF CompleteCash, CompleteCredit, Validated, ValidationFails, HearRefused, LoseAnswer, Send
<1> QED BY <1>2, <1>3, <1>4, <1>5, <1>6 DEF ClientNext

\* Every line of the requests was there or is the cart's.
LEMMA ClientStep ==
    ASSUME ClientInv, ClientNext
    PROVE  /\ ClientInv'
           /\ \A r \in DOMAIN req' : req'[r].lines \in {req[q].lines : q \in DOMAIN req} \cup {cart}
<1>1. /\ cart' \in Lines /\ stored' \in Lines /\ drifted' \in BOOLEAN
      /\ basket \in Nat /\ phase \in Phases
  BY CartSteps DEF ClientInv, ClientTyped
<1>2. CASE \E i \in Item : \/ Scan(i) \/ RemoveItem(i) \/ OverridePrice(i)
                           \/ \E q \in 1..MaxQuantity : ChangeQuantity(i, q) \/ EnterQuantity(i, q)
  <2>1. UNCHANGED <<basket, phase, req>>
    BY <1>2 DEF Scan, RemoveItem, OverridePrice, ChangeQuantity, EnterQuantity
  <2>2. ClientInv'
    BY <1>1, <2>1, Quiet
  <2> QED BY <2>1, <2>2
<1>3. CASE EmptyCart \/ CompleteCredit \/ ValidationFails
  <2>1. /\ req' = req /\ phase' \in Phases /\ basket' \in Nat /\ basket' >= basket
        /\ phase = "waiting" <=> phase' = "waiting"
    BY <1>1, <1>3 DEF EmptyCart, CompleteCredit, ValidationFails, Ready, Phases
  <2>2. ClientInv'
    BY <1>1, <2>1, Quiet
  <2> QED BY <2>1, <2>2
<1>4. CASE Reload \/ LoseAnswer
  <2>1. GiveUp /\ phase' = "ready" /\ basket' = basket
    BY <1>4 DEF Reload, LoseAnswer
  <2> QED BY <1>1, <2>1, NobodyWaits
<1>5. CASE CompleteCash \/ Validated
  <2>1. PICK kind \in SaleKinds : Send(kind) /\ phase # "waiting"
    BY <1>5 DEF CompleteCash, Validated, Ready, SaleKinds
  <2> QED BY <2>1, Sends
<1>6. CASE HearCreated \/ HearRefused
  <2>1. /\ phase = "waiting" /\ phase' = "ready" /\ drifted' = drifted
        /\ req' = [req EXCEPT ![Len(req)].page = "heard"]
        /\ \/ req[Len(req)].state = "created" /\ basket' = basket + 1
           \/ req[Len(req)].state = "refused" /\ basket' = basket
    BY <1>6 DEF HearCreated, HearRefused
  <2>2. ClientInv' /\ \A r \in DOMAIN req' : r \in DOMAIN req /\ req'[r].lines = req[r].lines
    BY <1>1, <2>1, Hears
  <2> QED BY <2>2
<1> QED BY <1>2, <1>3, <1>4, <1>5, <1>6 DEF ClientNext

\* The cart and its copy, and how a price outlives its quantity.
LEMMA CartAgreed ==
    ASSUME ClientTyped, ClientNext, ~drifted', ~drifted => Agreed(cart)
    PROVE  ~drifted /\ Agreed(cart')
<1>1. cart \in Lines /\ stored \in Lines /\ \A i \in Item : cart[i] \in Line
  BY DEF ClientTyped, Lines
<1>2. ~drifted
  BY DEF ClientNext, Scan, RemoveItem, OverridePrice, ChangeQuantity, EnterQuantity, EmptyCart,
         Reload, CompleteCash, CompleteCredit, Validated, ValidationFails, HearCreated,
         HearRefused, LoseAnswer, Send
<1>3. Agreed(cart)
  BY <1>2
<1>4. ASSUME NEW i \in Item, Scan(i) \/ RemoveItem(i) \/ OverridePrice(i) PROVE Agreed(cart')
  <2>1. CASE Scan(i)
    <3>1. cart[i].agreed \in 0..MaxQuantity /\ ~(cart[i].agreed > 0)
      BY <1>1, <2>1, LinesTyped DEF Scan
    <3>2. cart[i].agreed = 0
      BY <3>1
    <3> QED BY <1>1, <1>3, <2>1, <3>2 DEF Scan, Persist, Agreed, Lines, Line
  <2> QED BY <1>1, <1>3, <1>4, <2>1 DEF RemoveItem, OverridePrice, Persist, Agreed, Lines, Line, NoLine
<1>5. ASSUME NEW i \in Item, NEW q \in 1..MaxQuantity, ChangeQuantity(i, q) \/ EnterQuantity(i, q)
      PROVE  Agreed(cart')
  <2>1. CASE EnterQuantity(i, q)
    <3>1. cart[i].agreed \in 0..MaxQuantity /\ ~(cart[i].agreed > 0)
      BY <1>1, <2>1, LinesTyped DEF EnterQuantity
    <3>2. cart[i].agreed = 0
      BY <3>1
    <3> QED BY <1>1, <1>3, <2>1, <3>2 DEF EnterQuantity, Persist, Agreed, Lines, Line
  <2>2. CASE ChangeQuantity(i, q)
    BY <1>1, <1>3, <2>2 DEF ChangeQuantity, Agreed, Lines, Line
  <2> QED BY <1>5, <2>1, <2>2
<1>6. CASE EmptyCart \/ HearCreated
  BY <1>6, LinesTyped DEF EmptyCart, HearCreated, Persist
<1>7. CASE Reload
  <2>1. \A i \in Item : stored[i].agreed \in {0, stored[i].qty}
    BY <1>7 DEF Reload
  <2> QED BY <1>7, <2>1 DEF Reload, Agreed
<1>8. CASE CompleteCash \/ CompleteCredit \/ Validated \/ ValidationFails \/ HearRefused \/ LoseAnswer
  <2>1. cart' = cart
    BY <1>8 DEF CompleteCash, CompleteCredit, Validated, ValidationFails, HearRefused, LoseAnswer, Send
  <2> QED BY <1>2, <1>3, <2>1 DEF Agreed
<1>9. Agreed(cart')
  BY <1>4, <1>5, <1>6, <1>7, <1>8 DEF ClientNext
<1> QED BY <1>2, <1>9

\* Nothing but what was agreed is in the orders.
LEMMA AgreedStep ==
    ASSUME ClientInv, AgreedAlways, ClientNext, orders' = orders PROVE AgreedAlways'
<1> SUFFICES ASSUME ~drifted' PROVE AgreedAlways'
  BY DEF AgreedAlways
<1>1. ~drifted => Agreed(cart)
  BY DEF AgreedAlways
<1>2. ~drifted /\ Agreed(cart')
  BY <1>1, CartAgreed DEF ClientInv
<1>3. \A r \in DOMAIN req' : req'[r].lines \in {req[q].lines : q \in DOMAIN req} \cup {cart}
  BY ClientStep
<1>4. Agreed(cart) /\ \A q \in DOMAIN req : Agreed(req[q].lines)
  BY <1>2 DEF AgreedAlways
<1>5. \A r \in DOMAIN req' : Agreed(req'[r].lines)
  BY <1>3, <1>4
<1>6. \A o \in DOMAIN orders' : Agreed(orders'[o].lines)
  BY <1>2 DEF AgreedAlways
<1> QED BY <1>2, <1>5, <1>6 DEF AgreedAlways, Agreed
-----------------------------------------------------------------------------
(* The sums of the model *)

\* What payments add up to (PaidOn, Collected).
LEMMA SumOfPayments ==
    ASSUME NEW S, IsFiniteSet(S), \A x \in S : x.amount \in Nat
    PROVE  /\ SumOf(S) = SumOver(Amounts(S), S) /\ SumOf(S) \in Nat
           /\ S = {} => SumOf(S) = 0
           /\ \A x : S = {x} => SumOf(S) = x.amount
<1>1. \A x \in S : x.amount \in Int
  OBVIOUS
<1>2. SumOf(S) = SumOver(Amounts(S), S)
  BY <1>1, AmountsSum DEF SumOf
<1> QED BY <1>2, AmountsNat

\* What entries add up to (the balance of an account).
LEMMA TotalOfEntries ==
    ASSUME NEW S, IsFiniteSet(S), \A x \in S : x.amount \in Nat
    PROVE  /\ Total(S) = SumOver(Amounts(S), S) /\ Total(S) \in Nat
           /\ S = {} => Total(S) = 0
           /\ \A x : S = {x} => Total(S) = x.amount
<1>1. \A x \in S : x.amount \in Int
  OBVIOUS
<1>2. Total(S) = SumOver(Amounts(S), S)
  BY <1>1, AmountsSum, AmountsNat DEF Total
<1> QED BY <1>2, AmountsNat

\* The total of an order is an amount.
LEMMA TotalOfLines == ASSUME NEW lines \in Lines PROVE TotalOf(lines) \in Nat
<1> DEFINE S == {i \in Item : lines[i].qty > 0}
           f == [i \in S |-> LineTotal(lines[i])]
           pick(s) == CHOOSE x \in s : TRUE
           Sum(h) == [s \in SUBSET S |-> IF s = {} THEN 0
                                         ELSE LineTotal(lines[pick(s)]) + h[s \ {pick(s)}]]
           total == CHOOSE h : h = Sum(h)
<1>1. TotalOf(lines) = total[S]
  BY DEF TotalOf, MapThenSumSet, MapThenFoldSet
<1>2. IsFiniteSet(S)
  BY FS_Subset
<1>3. ASSUME NEW i \in S PROVE f[i] = LineTotal(lines[i]) /\ f[i] \in Nat
  <2>1. PICK q \in Nat : q = lines[i].qty
    BY LinesTyped
  <2>2. Price * q \in Nat
    BY SalesAssumption
  <2> QED BY <2>1, <2>2 DEF LineTotal
<1>4. \A s \in SUBSET S : s = {} \/ pick(s) \in s
  OBVIOUS
<1>5. \A s : Some(s) = pick(s)
  BY DEF Some
<1> HIDE DEF pick, S, f
<1>6. PICK h : Adds(h, f, S)
  BY <1>2, SumExists
<1>7. \A g : Adds(g, f, S) <=> g = Sum(g)
  <2>1. ASSUME NEW g, NEW s \in SUBSET S
        PROVE  (IF s = {} THEN 0 ELSE f[Some(s)] + g[s \ {Some(s)}])
                 = (IF s = {} THEN 0 ELSE LineTotal(lines[pick(s)]) + g[s \ {pick(s)}])
    BY <1>3, <1>4, <1>5
  <2> QED BY <2>1 DEF Adds
<1>8. total = Sum(total)
  BY <1>6, <1>7
<1>9. Adds(total, f, S)
  BY <1>7, <1>8
<1> HIDE DEF total
<1>10. SumOver(f, S) = total[S]
  BY <1>2, <1>3, <1>9, SumIs
<1>11. SumOver(f, S) \in Nat
  BY <1>2, <1>3, SumOfPart
<1> QED BY <1>1, <1>10, <1>11
-----------------------------------------------------------------------------
(* Steps of the server *)

\* The entries that are posted here, and their accounts.
LEMMA PostIs ==
    ASSUME NEW id, NEW o, NEW amount, NEW method,
           NEW kind \in {"Payment", "CreditSale", "PaymentAllocation"}
    PROVE  LET e == Post(kind, id, o, amount, method)
           IN  /\ e.kind = kind /\ e.id = id /\ e.party = o /\ e.amount = amount
               /\ Source(e) = <<kind, id>>
               /\ e.cr = IF kind = "PaymentAllocation" THEN "ACCOUNTS_RECEIVABLE" ELSE "SALES"
               /\ (id \in Nat \X Nat /\ o \in Nat /\ amount \in Nat) => e \in Entry
<1> DEFINE r == [kind |-> kind, id |-> id, party |-> o, amount |-> amount, method |-> method]
           e == Post(kind, id, o, amount, method)
<1>1. r.kind = kind /\ r.method = method
  OBVIOUS
<1>2. MoneyAccount(method) \in Accounts
  BY DEF MoneyAccount, Accounts
<1>3. DebitAccount(r) \in Accounts
  BY <1>1, <1>2 DEF DebitAccount, Accounts
<1>4. CreditAccount(r) = IF kind = "PaymentAllocation" THEN "ACCOUNTS_RECEIVABLE" ELSE "SALES"
  BY <1>1 DEF CreditAccount
<1>5. e = [kind |-> kind, id |-> id, party |-> o, amount |-> amount,
           dr |-> DebitAccount(r), cr |-> CreditAccount(r), date |-> 0]
  BY DEF Post, EntryOf
<1>6. kind \in Kinds /\ CreditAccount(r) \in Accounts
  BY <1>4 DEF Kinds, Accounts
<1> HIDE DEF r, e
<1>7. Source(e) = <<kind, id>>
  BY <1>5 DEF Source
<1>8. (id \in Nat \X Nat /\ o \in Nat /\ amount \in Nat) => e \in Entry
  BY <1>3, <1>5, <1>6 DEF Entry
<1>9. e.kind = kind /\ e.id = id /\ e.party = o /\ e.amount = amount /\ e.cr = CreditAccount(r)
  BY <1>5
<1> QED BY <1>4, <1>7, <1>8, <1>9 DEF e

\* What is in an order, a payment and an entry.
LEMMA Fields ==
    /\ \A o \in Order : o.kind \in SaleKinds /\ o.total \in Nat /\ o.lines \in Lines
    /\ \A p \in Payment : /\ p.order \in Nat /\ p.n \in Nat /\ p.amount \in Nat
                          /\ PaymentId(p) \in Nat \X Nat
                          /\ PaymentId(p)[1] = p.order /\ PaymentId(p)[2] = p.n
    /\ \A e \in Entry : e.amount \in Nat /\ e.id \in Nat \X Nat /\ e.party \in Nat
    /\ \A k \in Part : k.item \in Nat /\ k.amount \in Int
    /\ \A r \in Run : /\ r.open \in BOOLEAN /\ r.todo \in Seq(Part) /\ r.payments \subseteq Payment
                      /\ r.entries \subseteq Entry /\ r.touch \in Nat /\ r.locked \subseteq Nat
                      /\ r = [open |-> r.open, todo |-> r.todo, payments |-> r.payments,
                              entries |-> r.entries, touch |-> r.touch, locked |-> r.locked]
  BY DEF Order, Payment, Entry, Part, Run, PaymentId

\* Transaction t changes to this.
Becomes(t, open, todo, paid, posted, touch, locked) ==
    run' = [run EXCEPT ![t] = [open |-> open, todo |-> todo, payments |-> paid,
                               entries |-> posted, touch |-> touch, locked |-> locked]]

RunsTo(t, open, todo, paid, posted, touch) ==
    /\ run' \in [Tx -> Run] /\ \A u \in Tx \ {t} : run'[u] = run[u]
    /\ run'[t].open = open /\ run'[t].todo = todo /\ run'[t].payments = paid
    /\ run'[t].entries = posted /\ run'[t].touch = touch

LEMMA Moves ==
    ASSUME ServerTyped, NEW t \in Tx, NEW open \in BOOLEAN, NEW todo \in Seq(Part),
           NEW paid \in SUBSET Payment, NEW posted \in SUBSET Entry, NEW touch \in Nat,
           NEW locked \in SUBSET Nat, Becomes(t, open, todo, paid, posted, touch, locked)
    PROVE  RunsTo(t, open, todo, paid, posted, touch)
<1>1. PICK k \in Run : k = [open |-> open, todo |-> todo, payments |-> paid,
                            entries |-> posted, touch |-> touch, locked |-> locked]
  BY DEF Run
<1>2. run' = [run EXCEPT ![t] = k] /\ run \in [Tx -> Run]
  BY <1>1 DEF Becomes, ServerTyped
<1>3. run' \in [Tx -> Run] /\ run'[t] = k /\ \A u \in Tx \ {t} : run'[u] = run[u]
  BY <1>2
<1>4. k.open = open /\ k.todo = todo /\ k.payments = paid /\ k.entries = posted /\ k.touch = touch
  BY <1>1
<1> QED BY <1>3, <1>4 DEF RunsTo

\* A function of a finite set has no more values than the set has elements.
LEMMA ImageFinite ==
    ASSUME NEW S, IsFiniteSet(S), NEW f
    PROVE  IsFiniteSet({f[x] : x \in S}) /\ Cardinality({f[x] : x \in S}) <= Cardinality(S)
<1> DEFINE g == [x \in S |-> f[x]]
           T == {f[x] : x \in S}
<1>1. g \in Surjection(S, T)
  BY DEF Surjection
<1> HIDE DEF g, T
<1>2. IsFiniteSet(T) /\ Cardinality(T) <= Cardinality(S)
  BY <1>1, FS_Surjection
<1> QED BY <1>2 DEF T

\* A number is left for the next payment.
LEMMA NumberLeft ==
    ASSUME ServerTyped, NEW o
    PROVE  /\ NextNumber(o) \in Nat
           /\ \A p \in payments : p.order = o => p.n # NextNumber(o)
           /\ \A u \in Tx : \A p \in run[u].payments : p.order = o => p.n # NextNumber(o)
<1> DEFINE runs == {run[u].payments : u \in Tx}
           all == payments \cup UNION runs
           size == Cardinality(all)
           used == {p.n : p \in all}
<1>1. IsFiniteSet(runs)
  <2> DEFINE f == [u \in Tx |-> run[u].payments]
  <2>1. runs = {f[u] : u \in Tx}
    OBVIOUS
  <2>2. IsFiniteSet({f[u] : u \in Tx})
    <3> HIDE DEF f
    <3> QED BY ImageFinite
  <2> QED BY <2>1, <2>2
<1>2. \A S \in runs : IsFiniteSet(S)
  BY DEF ServerTyped
<1>3. IsFiniteSet(UNION runs)
  <2> HIDE DEF runs
  <2> QED BY <1>1, <1>2, FS_UNION
<1>4. IsFiniteSet(all) /\ size \in Nat
  <2> HIDE DEF runs
  <2> QED BY <1>3, FS_Union, FS_CardinalityType DEF ServerTyped
<1>5. IsFiniteSet(used) /\ Cardinality(used) <= size /\ Cardinality(used) \in Nat
  <2> DEFINE f == [p \in all |-> p.n]
  <2>1. used = {f[p] : p \in all}
    OBVIOUS
  <2>2. IsFiniteSet({f[p] : p \in all}) /\ Cardinality({f[p] : p \in all}) <= size
    <3> HIDE DEF f, all
    <3> QED BY <1>4, ImageFinite DEF all
  <2> HIDE DEF f, all
  <2> QED BY <2>1, <2>2, FS_CardinalityType
<1>6. IsFiniteSet(1..(size + 1)) /\ Cardinality(1..(size + 1)) = size + 1
  <2> HIDE DEF size
  <2> QED BY <1>4, FS_Interval
<1>7. PICK n \in 1..(size + 1) : n \notin used
  <2> SUFFICES ASSUME 1..(size + 1) \subseteq used PROVE FALSE
    OBVIOUS
  <2> HIDE DEF size, used
  <2>1. Cardinality(1..(size + 1)) <= Cardinality(used)
    BY <1>5, FS_Subset
  <2> QED BY <1>4, <1>5, <1>6, <2>1
<1>8. \A p \in all : p.order = o => p.n # n
  BY <1>7
<1>9. NextNumber(o) = CHOOSE m \in 1..(size + 1) : \A p \in all : p.order = o => p.n # m
  BY DEF NextNumber
<1>10. NextNumber(o) \in 1..(size + 1) /\ \A p \in all : p.order = o => p.n # NextNumber(o)
  <2> HIDE DEF size, all
  <2> QED BY <1>8, <1>9
<1>11. NextNumber(o) \in Nat
  <2> HIDE DEF size
  <2> QED BY <1>10, <1>4
<1> QED BY <1>10, <1>11

\* The orders there are stay as they are.
OrdersGrow ==
    /\ DOMAIN orders \subseteq DOMAIN orders'
    /\ \A o \in DOMAIN orders : orders'[o] = orders[o]

\* What is known of one run.
LEMMA RunIs ==
    ASSUME ServerTyped, NEW t \in Tx
    PROVE  /\ run[t] \in Run /\ run[t].open \in BOOLEAN /\ run[t].todo \in Seq(Part)
           /\ run[t].payments \subseteq Payment /\ run[t].entries \subseteq Entry
           /\ run[t].touch \in Nat /\ run[t].locked \subseteq Nat
           /\ IsFiniteSet(run[t].payments) /\ IsFiniteSet(run[t].entries)
           /\ Len(run[t].todo) \in Nat /\ DOMAIN run[t].todo = 1..Len(run[t].todo)
           /\ run[t].todo # <<>> => /\ 1 \in DOMAIN run[t].todo
                                    /\ Head(run[t].todo) = run[t].todo[1]
                                    /\ Head(run[t].todo) \in Part
<1>1. run[t] \in Run /\ IsFiniteSet(run[t].payments) /\ IsFiniteSet(run[t].entries)
  BY DEF ServerTyped
<1>2. PICK todo \in Seq(Part) : todo = run[t].todo
  BY <1>1, Fields
<1>3. Len(todo) \in Nat /\ DOMAIN todo = 1..Len(todo)
  BY LenProperties
<1>4. todo # <<>> => (1 \in DOMAIN todo /\ Head(todo) = todo[1] /\ Head(todo) \in Part)
  <2> SUFFICES ASSUME todo # <<>> PROVE 1 \in DOMAIN todo /\ Head(todo) = todo[1] /\ Head(todo) \in Part
    OBVIOUS
  <2>1. Head(todo) \in Part /\ 1 \in DOMAIN todo
    BY <1>3, EmptySeq, HeadTailProperties
  <2> QED BY <2>1
<1> QED BY <1>1, <1>2, <1>3, <1>4, Fields

\* The orders there are.
LEMMA OrderIs ==
    ASSUME ServerTyped
    PROVE  /\ Len(orders) \in Nat /\ DOMAIN orders = 1..Len(orders)
           /\ \A o \in DOMAIN orders : /\ o \in Nat /\ orders[o] \in Order /\ orders[o].total \in Nat
                                       /\ orders[o].kind \in SaleKinds
<1>1. orders \in Seq(Order) /\ Len(orders) \in Nat /\ DOMAIN orders = 1..Len(orders)
  BY LenProperties DEF ServerTyped
<1>2. \A o \in DOMAIN orders : orders[o] \in Order
  BY <1>1, ElementOfSeq
<1> QED BY <1>1, <1>2, Fields

\* What a transaction sees of an order's payments.
LEMMA PaidOnIs ==
    ASSUME ServerTyped, NEW t \in Tx, NEW o
    PROVE  /\ PaidOn(t, o) \in Nat
           /\ (\A p \in Sees(t) : p.order # o) => PaidOn(t, o) = 0
           /\ \A x \in Sees(t) : (x.order = o /\ \A p \in Sees(t) : p.order = o => p = x)
                                   => PaidOn(t, o) = x.amount
<1> DEFINE S == {p \in payments \cup run[t].payments : p.order = o}
<1>1. payments \cup run[t].payments \subseteq Payment /\ IsFiniteSet(payments \cup run[t].payments)
  BY RunIs, FS_Union DEF ServerTyped
<1>2. IsFiniteSet(S) /\ \A x \in S : x.amount \in Nat
  BY <1>1, Fields, FS_Subset
<1>3. PaidOn(t, o) = SumOf(S)
  BY DEF PaidOn
<1>4. (\A p \in Sees(t) : p.order # o) => S = {}
  BY DEF Sees
<1>5. \A x \in Sees(t) : (x.order = o /\ \A p \in Sees(t) : p.order = o => p = x) => S = {x}
  BY DEF Sees
<1> HIDE DEF S
<1> QED BY <1>2, <1>3, <1>4, <1>5, SumOfPayments

\* What an allocation begins with.
Begins(t, todo) ==
    /\ ~run[t].open
    /\ Becomes(t, TRUE, todo, {}, {}, 0, {})
    /\ overlapped' = (overlapped \/ \E u \in Tx \ {t} : run[u].open)
    /\ UNCHANGED <<clientVars, orders, payments, journal, events, missed>>
    /\ \A k \in DOMAIN todo :
          /\ todo[k].item \in DOMAIN orders /\ orders[todo[k].item].kind = "credit"
          /\ 0 <= todo[k].amount /\ todo[k].amount <= orders[todo[k].item].total
          /\ PaidOn(t, todo[k].item) < orders[todo[k].item].total
          /\ \A j \in 1..(k - 1) : todo[j].item # todo[k].item

LEMMA BeginsSo ==
    ASSUME ServerTyped, NEW t \in Tx, NEW amount \in Payments, NEW s \in SUBSET DOMAIN orders,
           BeginAllocation(t, amount, s)
    PROVE  \E todo \in Seq(Part) : Begins(t, todo)
<1> DEFINE n == Len(orders)
           items == [o \in DOMAIN orders |->
                       [total |-> IF o \in Unpaid(t) THEN orders[o].total ELSE 0,
                        paid  |-> IF o \in Unpaid(t) THEN PaidOn(t, o) ELSE 0]]
           todo == Allocate(items, s, amount).parts
<1>1. n \in Nat /\ DOMAIN orders = 1..n /\ \A o \in 1..n : orders[o].total \in Nat
  BY OrderIs
<1>2. \A o \in 1..n : PaidOn(t, o) \in Nat
  BY PaidOnIs
<1>3. \A o \in 1..n : /\ items[o].total = IF o \in Unpaid(t) THEN orders[o].total ELSE 0
                      /\ items[o].paid = IF o \in Unpaid(t) THEN PaidOn(t, o) ELSE 0
  BY <1>1
<1>4. DOMAIN items = 1..n /\ amount \in Int
  BY <1>1
<1>5. /\ ~run[t].open
      /\ run' = [run EXCEPT ![t] = [Idle EXCEPT !.open = TRUE, !.todo = todo]]
      /\ overlapped' = (overlapped \/ \E u \in Tx \ {t} : run[u].open)
      /\ UNCHANGED <<clientVars, orders, payments, journal, events, missed>>
  BY DEF BeginAllocation
<1> HIDE DEF items
<1>6. \A o \in 1..n : items[o].total \in Int /\ items[o].paid \in Int
  BY <1>1, <1>2, <1>3
<1>7. PartsOf(todo, items, s, n)
  BY <1>1, <1>4, <1>6, AllocateParts
<1> HIDE DEF todo
<1>8. todo \in Seq([item : 1..n, amount : Int]) /\ \A k \in DOMAIN todo : todo[k].item \in 1..n /\ todo[k].amount \in Int
  <2>1. todo \in Seq([item : 1..n, amount : Int])
    BY <1>7 DEF PartsOf
  <2>2. \A k \in 1..Len(todo) : todo[k] \in [item : 1..n, amount : Int]
    BY <2>1, ElementOfSeq
  <2> QED BY <2>1, <2>2, LenProperties
<1>9. todo \in Seq(Part)
  <2>1. [item : 1..n, amount : Int] \subseteq Part
    BY <1>1 DEF Part
  <2> QED BY <1>8, <2>1, SeqMonotonic
<1>10. Becomes(t, TRUE, todo, {}, {}, 0, {})
  <2>1. [Idle EXCEPT !.open = TRUE, !.todo = todo]
          = [open |-> TRUE, todo |-> todo, payments |-> {}, entries |-> {}, touch |-> 0, locked |-> {}]
    <3> DEFINE r == [Idle EXCEPT !.open = TRUE, !.todo = todo]
    <3>1. Idle \in Run
      BY DEF Idle, Run
    <3>2. r \in Run
      BY <1>9, <3>1 DEF Run
    <3>3. /\ r.open = TRUE /\ r.todo = todo /\ r.payments = {} /\ r.entries = {}
          /\ r.touch = 0 /\ r.locked = {}
      BY DEF Idle
    <3> HIDE DEF r
    <3>4. r = [open |-> TRUE, todo |-> todo, payments |-> {}, entries |-> {}, touch |-> 0, locked |-> {}]
      BY <3>2, <3>3, Fields
    <3> QED BY <3>4 DEF r
  <2> QED BY <1>5, <2>1 DEF Becomes
<1>11. ASSUME NEW k \in DOMAIN todo
       PROVE  /\ todo[k].item \in DOMAIN orders /\ orders[todo[k].item].kind = "credit"
              /\ 0 <= todo[k].amount /\ todo[k].amount <= orders[todo[k].item].total
              /\ PaidOn(t, todo[k].item) < orders[todo[k].item].total
              /\ \A j \in 1..(k - 1) : todo[j].item # todo[k].item
  <2>1. PICK o \in 1..n, a \in Int : o = todo[k].item /\ a = todo[k].amount
    BY <1>8
  <2>2. a > 0 /\ a <= Owed(items[o]) /\ \A j \in 1..(k - 1) : todo[j].item < o
    BY <1>7, <2>1 DEF PartsOf
  <2>3. Owed(items[o]) = items[o].total - items[o].paid
    BY DEF Owed
  <2>4. o \in Unpaid(t)
    BY <1>3, <2>2, <2>3
  <2>5. a <= orders[o].total - PaidOn(t, o)
    BY <1>3, <2>2, <2>3, <2>4
  <2>6. orders[o].kind = "credit"
    BY <2>4 DEF Unpaid
  <2>7. \A j \in 1..(k - 1) : todo[j].item # o
    BY <2>2, <2>1
  <2> QED BY <1>1, <1>2, <2>1, <2>2, <2>5, <2>6, <2>7
<1> QED BY <1>5, <1>9, <1>10, <1>11 DEF Begins

\* A transaction is rolled back.
Leaves(t) ==
    /\ Becomes(t, FALSE, <<>>, {}, {}, 0, {})
    /\ UNCHANGED <<clientVars, orders, payments, journal, events, missed, overlapped>>

LEMMA LeavesSo == ASSUME NEW t \in Tx, RollBack(t) PROVE Leaves(t)
  BY DEF RollBack, Idle, Leaves, Becomes

\* One turn of the loop: payment p, and the entries E for it.
Pays(t, p, E) ==
    /\ run[t].todo # <<>> /\ run[t].touch = 0
    /\ p.order = run[t].todo[1].item /\ p.n = NextNumber(p.order)
    /\ PaidOn(t, p.order) = 0 => p.amount = orders[p.order].total
    /\ \A e \in E : e = Allocated(p, e.amount) /\ e.amount <= p.amount
    /\ \A e, f \in E : e = f
    /\ Becomes(t, run[t].open, run[t].todo, run[t].payments \cup {p}, run[t].entries \cup E,
               p.order, run[t].locked)
    /\ UNCHANGED <<clientVars, orders, payments, journal, events, missed, overlapped>>

\* Three fields of a run change.
LEMMA RunPays ==
    ASSUME ServerTyped, NEW t \in Tx, NEW paid \in SUBSET Payment, NEW posted \in SUBSET Entry,
           NEW o \in Nat,
           run' = [run EXCEPT ![t].payments = paid, ![t].entries = posted, ![t].touch = o]
    PROVE  Becomes(t, run[t].open, run[t].todo, paid, posted, o, run[t].locked)
<1> DEFINE r == [run[t] EXCEPT !.payments = paid, !.entries = posted, !.touch = o]
<1>1. run[t] \in Run
  BY RunIs
<1>2. r \in Run
  BY <1>1 DEF Run
<1>3. /\ r.open = run[t].open /\ r.todo = run[t].todo /\ r.payments = paid
      /\ r.entries = posted /\ r.touch = o /\ r.locked = run[t].locked
  BY <1>1 DEF Run
<1>4. run' = [run EXCEPT ![t] = r]
  OBVIOUS
<1> HIDE DEF r
<1>5. r = [open |-> run[t].open, todo |-> run[t].todo, payments |-> paid,
           entries |-> posted, touch |-> o, locked |-> run[t].locked]
  BY <1>2, <1>3, Fields
<1> QED BY <1>4, <1>5 DEF Becomes

LEMMA PaysSo ==
    ASSUME ServerTyped, Runs, NEW t \in Tx, PayAuthorized(t) \/ PaySettled(t)
    PROVE  Leaves(t) \/ \E p \in Payment, E \in SUBSET Entry : IsFiniteSet(E) /\ Pays(t, p, E)
<1> DEFINE part == Head(run[t].todo)
           o == part.item
<1>1. /\ run[t].todo # <<>> /\ run[t].touch = 0
      /\ 1 \in DOMAIN run[t].todo /\ part = run[t].todo[1]
      /\ run[t].payments \subseteq Payment /\ run[t].entries \subseteq Entry
  BY RunIs DEF PayAuthorized, PaySettled
<1>2. /\ o \in DOMAIN orders /\ o \in Nat /\ orders[o].total \in Nat
      /\ 0 <= part.amount /\ part.amount <= orders[o].total /\ part.amount \in Int
  <2>1. RunOk(run[t]) /\ part \in Part
    BY <1>1, RunIs DEF Runs
  <2>2. o \in DOMAIN orders /\ 0 <= part.amount /\ part.amount <= orders[o].total
    BY <1>1, <2>1 DEF RunOk
  <2> QED BY <2>1, <2>2, OrderIs, Fields
<1>3. NextNumber(o) \in Nat /\ PaidOn(t, o) \in Nat
  BY NumberLeft, PaidOnIs
<1>4. CASE PayAuthorized(t)
  <2> DEFINE p == [order |-> o, n |-> NextNumber(o), amount |-> orders[o].total, method |-> "credit"]
             e == Allocated(p, part.amount)
  <2>1. CASE ~Receivable(t, o, e)
    <3>1. RollBack(t)
      BY <1>4, <2>1 DEF PayAuthorized, Allocated
    <3> QED BY <3>1, LeavesSo
  <2>2. CASE Receivable(t, o, e)
    <3>1. p \in Payment /\ p.order = o /\ p.amount = orders[o].total /\ p.n = NextNumber(o)
      BY <1>2, <1>3 DEF Payment
    <3>2. /\ run' = [run EXCEPT ![t].payments = @ \cup {p}, ![t].entries = @ \cup {e}, ![t].touch = o]
          /\ UNCHANGED <<clientVars, orders, payments, journal, events, missed, overlapped>>
      BY <1>4, <2>2 DEF PayAuthorized, Allocated
    <3>3. e.amount = part.amount /\ e \in Entry
      <4>1. PaymentId(p) \in Nat \X Nat /\ part.amount \in Nat
        BY <1>2, <3>1, Fields
      <4> HIDE DEF p
      <4> QED BY <1>2, <3>1, <4>1, PostIs DEF Allocated
    <3> HIDE DEF p, o, part
    <3>4. e = Allocated(p, e.amount) /\ e.amount <= p.amount
      BY <1>2, <3>1, <3>3
    <3> HIDE DEF e
    <3>5. Becomes(t, run[t].open, run[t].todo, run[t].payments \cup {p}, run[t].entries \cup {e},
                  o, run[t].locked)
      <4>1. run[t].payments \cup {p} \in SUBSET Payment /\ run[t].entries \cup {e} \in SUBSET Entry
        BY <1>1, <3>1, <3>3
      <4>2. run' = [run EXCEPT ![t].payments = run[t].payments \cup {p},
                               ![t].entries = run[t].entries \cup {e}, ![t].touch = o]
        BY <3>2
      <4> QED BY <1>2, <4>1, <4>2, RunPays
    <3>6. o = run[t].todo[1].item
      BY <1>1 DEF o
    <3>7. Pays(t, p, {e})
      BY <1>1, <3>1, <3>2, <3>4, <3>5, <3>6 DEF Pays
    <3> QED BY <3>1, <3>3, <3>7, FS_Singleton
  <2> QED BY <2>1, <2>2
<1>5. CASE PaySettled(t)
  <2> DEFINE p == [order |-> o, n |-> NextNumber(o),
                   amount |-> Positive(orders[o].total - PaidOn(t, o)), method |-> "credit"]
  <2>1. PICK a \in Nat : /\ a = Positive(orders[o].total - PaidOn(t, o))
                         /\ PaidOn(t, o) = 0 => a = orders[o].total
    BY <1>2, <1>3 DEF Positive
  <2>2. p \in Payment /\ p.order = o /\ p.n = NextNumber(o) /\ p.amount = a
    BY <1>2, <1>3, <2>1 DEF Payment
  <2>3. /\ run' = [run EXCEPT ![t].payments = @ \cup {p}, ![t].touch = o]
        /\ UNCHANGED <<clientVars, orders, payments, journal, events, missed, overlapped>>
    BY <1>5 DEF PaySettled
  <2> HIDE DEF p, o, part
  <2>4. Becomes(t, run[t].open, run[t].todo, run[t].payments \cup {p}, run[t].entries,
                o, run[t].locked)
    <3>1. run[t].payments \cup {p} \in SUBSET Payment
      BY <1>1, <2>2
    <3>2. run' = [run EXCEPT ![t].payments = run[t].payments \cup {p},
                             ![t].entries = run[t].entries, ![t].touch = o]
      BY <2>3, RunIs DEF ServerTyped, Run
    <3> QED BY <1>1, <1>2, <3>1, <3>2, RunPays
  <2>5. run[t].entries \cup {} = run[t].entries
    OBVIOUS
  <2>6. o = run[t].todo[1].item
    BY <1>1 DEF o
  <2>7. Pays(t, p, {})
    BY <1>1, <2>1, <2>2, <2>3, <2>4, <2>5, <2>6 DEF Pays
  <2> QED BY <2>2, <2>7, FS_EmptySet
<1> QED BY <1>4, <1>5

\* The order is updated, and the next one's turn comes.
Turns(t) ==
    /\ run[t].todo # <<>> /\ run[t].touch # 0
    /\ \E locked \in SUBSET Nat :
          Becomes(t, run[t].open, Tail(run[t].todo), run[t].payments, run[t].entries, 0, locked)
    /\ UNCHANGED <<clientVars, orders, payments, journal, events, missed, overlapped>>

LEMMA TurnsSo == ASSUME ServerTyped, Runs, NEW t \in Tx, TouchOrder(t) PROVE Turns(t)
<1> DEFINE locked == run[t].locked \cup {run[t].touch}
           r == [run[t] EXCEPT !.touch = 0, !.locked = locked, !.todo = Tail(run[t].todo)]
<1>1. run[t] \in Run /\ run[t].touch \in Nat /\ run[t].locked \subseteq Nat
  BY RunIs
<1>2. run[t].touch # 0 /\ run[t].todo # <<>>
  BY DEF TouchOrder, Runs, RunOk
<1>3. Tail(run[t].todo) \in Seq(Part)
  BY <1>2, RunIs, HeadTailProperties
<1>4. r \in Run /\ locked \in SUBSET Nat
  BY <1>1, <1>3 DEF Run
<1>5. /\ r.open = run[t].open /\ r.todo = Tail(run[t].todo) /\ r.payments = run[t].payments
      /\ r.entries = run[t].entries /\ r.touch = 0 /\ r.locked = locked
  BY <1>1 DEF Run
<1>6. run' = [run EXCEPT ![t] = r]
  BY DEF TouchOrder
<1> HIDE DEF r, locked
<1>7. r = [open |-> run[t].open, todo |-> Tail(run[t].todo), payments |-> run[t].payments,
           entries |-> run[t].entries, touch |-> 0, locked |-> locked]
  BY <1>4, <1>5, Fields
<1> QED BY <1>2, <1>4, <1>6, <1>7 DEF Turns, Becomes, TouchOrder

\* The transaction commits.
Commits(t) ==
    /\ run[t].open
    /\ payments' = payments \cup run[t].payments
    /\ journal'  = journal \cup run[t].entries
    /\ events'   = events \cup run[t].payments
    /\ Becomes(t, FALSE, <<>>, {}, {}, 0, {})
    /\ UNCHANGED <<clientVars, orders, missed, overlapped>>

LEMMA CommitsSo == ASSUME NEW t \in Tx, CommitAllocation(t) PROVE Commits(t)
  BY DEF CommitAllocation, Idle, Commits, Becomes

\* What becomes of the runs.
LEMMA Begun ==
    ASSUME ServerTyped, NEW t \in Tx, NEW todo \in Seq(Part), Begins(t, todo)
    PROVE  RunsTo(t, TRUE, todo, {}, {}, 0)
<1>1. Becomes(t, TRUE, todo, {}, {}, 0, {})
  BY DEF Begins
<1>2. {} \in SUBSET Payment /\ {} \in SUBSET Entry /\ {} \in SUBSET Nat
  OBVIOUS
<1> QED BY <1>1, <1>2, Moves

LEMMA Ended ==
    ASSUME ServerTyped, NEW t \in Tx, Leaves(t) \/ Commits(t)
    PROVE  RunsTo(t, FALSE, <<>>, {}, {}, 0)
<1>1. Becomes(t, FALSE, <<>>, {}, {}, 0, {})
  BY DEF Leaves, Commits
<1>2. {} \in SUBSET Payment /\ {} \in SUBSET Entry /\ {} \in SUBSET Nat /\ <<>> \in Seq(Part)
  BY EmptySeq
<1> QED BY <1>1, <1>2, Moves

LEMMA HasPaid ==
    ASSUME ServerTyped, NEW t \in Tx, NEW p \in Payment, NEW E \in SUBSET Entry, Pays(t, p, E)
    PROVE  RunsTo(t, run[t].open, run[t].todo, run[t].payments \cup {p},
                  run[t].entries \cup E, p.order)
<1>1. run[t].payments \cup {p} \in SUBSET Payment /\ run[t].entries \cup E \in SUBSET Entry
      /\ run[t].open \in BOOLEAN /\ run[t].todo \in Seq(Part) /\ p.order \in Nat
      /\ run[t].locked \in SUBSET Nat
  BY RunIs, Fields
<1>2. Becomes(t, run[t].open, run[t].todo, run[t].payments \cup {p}, run[t].entries \cup E,
              p.order, run[t].locked)
  BY DEF Pays
<1> QED BY <1>1, <1>2, Moves

LEMMA Turned ==
    ASSUME ServerTyped, NEW t \in Tx, Turns(t)
    PROVE  RunsTo(t, run[t].open, Tail(run[t].todo), run[t].payments, run[t].entries, 0)
<1>1. PICK locked \in SUBSET Nat :
        Becomes(t, run[t].open, Tail(run[t].todo), run[t].payments, run[t].entries, 0, locked)
  BY DEF Turns
<1>2. Tail(run[t].todo) \in Seq(Part)
  BY RunIs, HeadTailProperties DEF Turns
<1>3. run[t].open \in BOOLEAN /\ run[t].payments \in SUBSET Payment /\ run[t].entries \in SUBSET Entry
  BY RunIs
<1> QED BY <1>1, <1>2, <1>3, Moves

\* An order is placed: a sale on credit, or one paid in cash.
Places(r, outcome) ==
    LET o   == Len(orders) + 1
        new == [req |-> r, kind |-> req[r].kind, total |-> TotalOf(req[r].lines),
                lines |-> req[r].lines]
        p   == [order |-> o, n |-> 1, amount |-> new.total, method |-> "cash"]
    IN  /\ req[r].state = "sent" /\ orders' = Append(orders, new) /\ Answer(r, "created")
        /\ (outcome = "credit") <=> (new.kind = "credit")
        /\ payments' = IF outcome \in {"posted", "unlisted"} THEN payments \cup {p} ELSE payments
        /\ events' = IF outcome \in {"posted", "unlisted"} THEN events \cup {p} ELSE events
        /\ missed' = IF outcome = "unsettled" THEN missed \cup {o} ELSE missed
        /\ journal' = CASE outcome = "posted" -> journal \cup {EntryFor(p)}
                        [] outcome = "credit" -> journal \cup
                              {Post("CreditSale", OrderId(o), o, new.total, "credit")}
                        [] OTHER -> journal
        /\ UNCHANGED <<cart, stored, basket, phase, drifted, run, overlapped>>

LEMMA PlacesSo ==
    ASSUME NEW r \in DOMAIN req,
           \/ CreateCreditOrder(r)
           \/ \E outcome \in {"posted", "unlisted", "unsettled"} : CreateCashOrder(r, outcome)
    PROVE  \E outcome \in {"credit", "posted", "unlisted", "unsettled"} : Places(r, outcome)
<1>1. CASE CreateCreditOrder(r)
  <2>1. Places(r, "credit")
    BY <1>1 DEF CreateCreditOrder, Places, AddOrder
  <2> QED BY <2>1
<1>2. CASE \E outcome \in {"posted", "unlisted", "unsettled"} : CreateCashOrder(r, outcome)
  <2>1. PICK outcome \in {"posted", "unlisted", "unsettled"} : CreateCashOrder(r, outcome)
    BY <1>2
  <2>2. Places(r, outcome)
    BY <2>1 DEF CreateCashOrder, Places, AddOrder, EntryFor
  <2> QED BY <2>2
<1> QED BY <1>1, <1>2

\* A run that moves leaves the rest well typed.
LEMMA RunsTyped ==
    ASSUME ServerTyped, NEW t \in Tx, NEW open \in BOOLEAN, NEW todo \in Seq(Part),
           NEW paid \in SUBSET Payment, NEW posted \in SUBSET Entry, NEW touch \in Nat,
           NEW locked \in SUBSET Nat, IsFiniteSet(paid), IsFiniteSet(posted),
           Becomes(t, open, todo, paid, posted, touch, locked)
    PROVE  /\ run' \in [Tx -> Run]
           /\ \A u \in Tx : IsFiniteSet(run'[u].payments) /\ IsFiniteSet(run'[u].entries)
<1>1. RunsTo(t, open, todo, paid, posted, touch)
  BY Moves
<1>2. /\ run' \in [Tx -> Run] /\ \A u \in Tx \ {t} : run'[u] = run[u]
      /\ run'[t].payments = paid /\ run'[t].entries = posted
  BY <1>1 DEF RunsTo
<1> QED BY <1>2 DEF ServerTyped

\* An entry for a payment.
LEMMA EntryOk ==
    ASSUME NEW p \in Payment
    PROVE  /\ EntryFor(p) \in Entry /\ EntryFor(p).kind = "Payment" /\ EntryFor(p).cr = "SALES"
           /\ EntryFor(p).party = p.order /\ EntryFor(p).amount = p.amount
           /\ EntryFor(p).id = PaymentId(p) /\ Source(EntryFor(p)) = <<"Payment", PaymentId(p)>>
  BY PostIs, Fields DEF EntryFor

\* An entry for a sale on credit.
LEMMA SaleOk ==
    ASSUME NEW o \in Nat, NEW amount \in Nat
    PROVE  LET e == Post("CreditSale", OrderId(o), o, amount, "credit")
           IN  /\ e \in Entry /\ e.kind = "CreditSale" /\ e.cr = "SALES" /\ e.party = o
               /\ e.amount = amount /\ e.id = <<o, 0>> /\ Source(e) = <<"CreditSale", <<o, 0>>>>
<1>1. OrderId(o) = <<o, 0>> /\ OrderId(o) \in Nat \X Nat
  BY DEF OrderId
<1> QED BY <1>1, PostIs

\* Order o is placed: with the payments P, the entries J, and M if its payment
\* was missed.
PlacedAs(o, p, sale, lines, P, J, M) ==
    /\ OrdersGrow /\ orders' \in Seq(Order)
    /\ o \notin DOMAIN orders /\ DOMAIN orders' = DOMAIN orders \cup {o}
    /\ orders'[o].lines = lines /\ orders'[o].total \in Nat
    /\ p = CashFor(o)' /\ p.order = o /\ p.amount = orders'[o].total /\ p.n = 1
    /\ sale = SaleOf(o)' /\ sale = Post("CreditSale", OrderId(o), o, orders'[o].total, "credit")
    /\ payments' = payments \cup P /\ events' = events \cup P
    /\ journal' = journal \cup J /\ missed' = missed \cup M
    /\ run' = run /\ overlapped' = overlapped
    /\ \/ orders'[o].kind = "credit" /\ P = {} /\ J = {sale} /\ M = {}
       \/ orders'[o].kind = "cash" /\ P = {p} /\ J = {EntryFor(p)} /\ M = {}
       \/ orders'[o].kind = "cash" /\ P = {p} /\ J = {} /\ M = {}
       \/ orders'[o].kind = "cash" /\ P = {} /\ J = {} /\ M = {o}

LEMMA Placed ==
    ASSUME ClientInv, ServerTyped, NEW r \in DOMAIN req,
           NEW outcome \in {"credit", "posted", "unlisted", "unsettled"}, Places(r, outcome)
    PROVE  \E o, p, sale, P, J, M :
              /\ o \in Nat /\ p \in Payment /\ sale \in Entry
              /\ PlacedAs(o, p, sale, req[r].lines, P, J, M)
<1>1. PICK o \in Nat : o = Len(orders) + 1
  BY OrderIs
<1> DEFINE new == [req |-> r, kind |-> req[r].kind, total |-> TotalOf(req[r].lines),
                   lines |-> req[r].lines]
<1>2. /\ orders \in Seq(Order) /\ Len(orders) \in Nat /\ DOMAIN orders = 1..Len(orders)
  BY OrderIs DEF ServerTyped
<1>3. req[r].kind \in SaleKinds /\ req[r].lines \in Lines /\ r \in 1..MaxRequests
  BY Reqs DEF ClientInv, ClientTyped
<1>4. TotalOf(req[r].lines) \in Nat
  BY <1>3, TotalOfLines
<1>5. PICK order \in Order : order = new
  BY <1>3, <1>4 DEF Order
<1>6. orders' = Append(orders, order)
  BY <1>5 DEF Places
<1>7. /\ orders' \in Seq(Order) /\ Len(orders') = Len(orders) + 1
      /\ \A k \in 1..Len(orders) : orders'[k] = orders[k]
      /\ orders'[Len(orders) + 1] = order
  BY <1>2, <1>6, AppendProperties
<1>8. DOMAIN orders' = 1..(Len(orders) + 1)
  BY <1>7, LenProperties
<1>9. /\ o \notin DOMAIN orders /\ DOMAIN orders' = DOMAIN orders \cup {o}
      /\ OrdersGrow /\ orders'[o] = order
  BY <1>1, <1>2, <1>7, <1>8 DEF OrdersGrow
<1>10. /\ order.kind = req[r].kind /\ order.total = TotalOf(req[r].lines)
       /\ order.lines = req[r].lines /\ order.total \in Nat
  BY <1>4, <1>5
<1>11. PICK p \in Payment : p = [order |-> o, n |-> 1, amount |-> order.total, method |-> "cash"]
  BY <1>10 DEF Payment
<1>12. p = CashFor(o)' /\ p.order = o /\ p.amount = order.total /\ p.n = 1
  BY <1>9, <1>11 DEF CashFor
<1>13. PICK sale \in Entry : sale = Post("CreditSale", OrderId(o), o, order.total, "credit")
  BY <1>10, SaleOk
<1>14. sale = SaleOf(o)'
  BY <1>9, <1>13 DEF SaleOf
<1>15. /\ (outcome = "credit") <=> (order.kind = "credit")
       /\ payments' = IF outcome \in {"posted", "unlisted"} THEN payments \cup {p} ELSE payments
       /\ events' = IF outcome \in {"posted", "unlisted"} THEN events \cup {p} ELSE events
       /\ missed' = IF outcome = "unsettled" THEN missed \cup {o} ELSE missed
       /\ journal' = CASE outcome = "posted" -> journal \cup {EntryFor(p)}
                       [] outcome = "credit" -> journal \cup {sale}
                       [] OTHER -> journal
       /\ run' = run /\ overlapped' = overlapped
  BY <1>1, <1>5, <1>10, <1>11, <1>13 DEF Places
<1>16. PICK P, J, M :
          /\ payments' = payments \cup P /\ events' = events \cup P
          /\ journal' = journal \cup J /\ missed' = missed \cup M
          /\ \/ order.kind = "credit" /\ P = {} /\ J = {sale} /\ M = {}
             \/ order.kind = "cash" /\ P = {p} /\ J = {EntryFor(p)} /\ M = {}
             \/ order.kind = "cash" /\ P = {p} /\ J = {} /\ M = {}
             \/ order.kind = "cash" /\ P = {} /\ J = {} /\ M = {o}
  <2>1. CASE outcome = "credit"
    <3>1. order.kind = "credit" /\ payments' = payments \cup {} /\ events' = events \cup {}
          /\ journal' = journal \cup {sale} /\ missed' = missed \cup {}
      BY <1>15, <2>1
    <3> QED BY <3>1
  <2>2. ASSUME outcome # "credit" PROVE order.kind = "cash"
    BY <1>3, <1>10, <1>15, <2>2 DEF SaleKinds
  <2>3. CASE outcome = "posted"
    <3>1. order.kind = "cash" /\ payments' = payments \cup {p} /\ events' = events \cup {p}
          /\ journal' = journal \cup {EntryFor(p)} /\ missed' = missed \cup {}
      BY <1>15, <2>2, <2>3
    <3> QED BY <3>1
  <2>4. CASE outcome = "unlisted"
    <3>1. order.kind = "cash" /\ payments' = payments \cup {p} /\ events' = events \cup {p}
          /\ journal' = journal \cup {} /\ missed' = missed \cup {}
      BY <1>15, <2>2, <2>4
    <3> QED BY <3>1
  <2>5. CASE outcome = "unsettled"
    <3>1. order.kind = "cash" /\ payments' = payments \cup {} /\ events' = events \cup {}
          /\ journal' = journal \cup {} /\ missed' = missed \cup {o}
      BY <1>15, <2>2, <2>5
    <3> QED BY <3>1
  <2> QED BY <2>1, <2>3, <2>4, <2>5
<1>17. PlacedAs(o, p, sale, req[r].lines, P, J, M)
  BY <1>7, <1>9, <1>10, <1>12, <1>13, <1>14, <1>15, <1>16 DEF PlacedAs
<1> QED BY <1>17

\* Every step of the server keeps the types.
LEMMA TypedStep ==
    ASSUME ClientInv, ServerTyped, Runs, Paid, ServerNext PROVE ServerTyped'
<1> USE DEF ServerTyped
<1>1. ASSUME NEW r \in DOMAIN req, NEW outcome \in {"credit", "posted", "unlisted", "unsettled"},
             Places(r, outcome)
      PROVE  ServerTyped'
  <2>1. PICK o, p, sale, P, J, M :
          /\ o \in Nat /\ p \in Payment /\ sale \in Entry
          /\ PlacedAs(o, p, sale, req[r].lines, P, J, M)
    <3> HIDE DEF ServerTyped
    <3> QED BY <1>1, Placed
  <2>2. EntryFor(p) \in Entry
    BY <2>1, EntryOk
  <2>3. P \subseteq Payment /\ IsFiniteSet(P) /\ J \subseteq Entry /\ IsFiniteSet(J)
        /\ M \subseteq {o}
    <3>1. /\ P = {} \/ P = {p}
          /\ J = {} \/ J = {sale} \/ J = {EntryFor(p)}
          /\ M = {} \/ M = {o}
      BY <2>1 DEF PlacedAs
    <3>2. IsFiniteSet({}) /\ IsFiniteSet({p}) /\ IsFiniteSet({sale}) /\ IsFiniteSet({EntryFor(p)})
      BY FS_EmptySet, FS_Singleton
    <3> QED BY <2>1, <2>2, <3>1, <3>2
  <2>4. IsFiniteSet(payments \cup P) /\ IsFiniteSet(journal \cup J)
    BY <2>3, FS_Union
  <2> QED BY <2>1, <2>3, <2>4 DEF PlacedAs
<1>2. ASSUME NEW r \in DOMAIN req, RefuseOrder(r) PROVE ServerTyped'
  BY <1>2 DEF RefuseOrder, serverVars
<1>3. ASSUME NEW p \in events, Handle(p) \/ HandleFails(p) PROVE ServerTyped'
  <2>1. p \in Payment /\ EntryFor(p) \in Entry
    BY EntryOk
  <2>2. IsFiniteSet(journal \cup {EntryFor(p)})
    BY FS_AddElement
  <2>3. CASE Handle(p)
    <3>1. UNCHANGED <<orders, payments, run, missed, overlapped>> /\ events' = events \ {p}
      BY <2>3 DEF Handle
    <3>2. journal' = journal \/ journal' = journal \cup {EntryFor(p)}
      BY <2>3 DEF Handle, EntryFor
    <3> QED BY <2>1, <2>2, <3>1, <3>2
  <2>4. CASE HandleFails(p)
    <3>1. /\ UNCHANGED <<orders, payments, run, journal, overlapped>> /\ events' = events \ {p}
          /\ missed' = IF IsPosted(p) THEN missed ELSE missed \cup {p.order}
      BY <2>4 DEF HandleFails
    <3>2. p.order \in DOMAIN orders
      BY DEF Paid, OfCredit
    <3> QED BY <3>1, <3>2
  <2> QED BY <1>3, <2>3, <2>4
<1>4. ASSUME NEW t \in Tx, NEW todo \in Seq(Part), Begins(t, todo) PROVE ServerTyped'
  <2>1. /\ run' \in [Tx -> Run]
        /\ \A u \in Tx : IsFiniteSet(run'[u].payments) /\ IsFiniteSet(run'[u].entries)
    <3>1. Becomes(t, TRUE, todo, {}, {}, 0, {})
      BY <1>4 DEF Begins
    <3>2. {} \in SUBSET Payment /\ {} \in SUBSET Entry /\ {} \in SUBSET Nat /\ IsFiniteSet({})
      BY FS_EmptySet
    <3> HIDE DEF ServerTyped
    <3> QED BY <3>1, <3>2, RunsTyped
  <2> QED BY <1>4, <2>1 DEF Begins
<1>5. ASSUME NEW t \in Tx, Leaves(t) PROVE ServerTyped'
  BY <1>5, RunsTyped, FS_EmptySet, EmptySeq DEF Leaves
<1>6. ASSUME NEW t \in Tx, NEW p \in Payment, NEW E \in SUBSET Entry, IsFiniteSet(E), Pays(t, p, E)
      PROVE  ServerTyped'
  <2>1. /\ run[t].payments \cup {p} \in SUBSET Payment /\ run[t].entries \cup E \in SUBSET Entry
        /\ IsFiniteSet(run[t].payments \cup {p}) /\ IsFiniteSet(run[t].entries \cup E)
        /\ run[t].open \in BOOLEAN /\ run[t].todo \in Seq(Part) /\ p.order \in Nat
        /\ run[t].locked \in SUBSET Nat
    BY <1>6, RunIs, FS_AddElement, FS_Union, Fields
  <2> QED BY <1>6, <2>1, RunsTyped DEF Pays
<1>7. ASSUME NEW t \in Tx, Turns(t) PROVE ServerTyped'
  <2>1. PICK locked \in SUBSET Nat :
          Becomes(t, run[t].open, Tail(run[t].todo), run[t].payments, run[t].entries, 0, locked)
    BY <1>7 DEF Turns
  <2>2. Tail(run[t].todo) \in Seq(Part)
    BY <1>7, RunIs, HeadTailProperties DEF Turns
  <2>3. run[t].open \in BOOLEAN /\ run[t].payments \in SUBSET Payment /\ run[t].entries \in SUBSET Entry
        /\ IsFiniteSet(run[t].payments) /\ IsFiniteSet(run[t].entries)
    BY RunIs
  <2> QED BY <1>7, <2>1, <2>2, <2>3, RunsTyped DEF Turns
<1>8. ASSUME NEW t \in Tx, Commits(t) PROVE ServerTyped'
  <2>1. /\ run' \in [Tx -> Run]
        /\ \A u \in Tx : IsFiniteSet(run'[u].payments) /\ IsFiniteSet(run'[u].entries)
    BY <1>8, RunsTyped, FS_EmptySet, EmptySeq DEF Commits
  <2>2. /\ run[t].payments \subseteq Payment /\ run[t].entries \subseteq Entry
        /\ IsFiniteSet(payments \cup run[t].payments) /\ IsFiniteSet(journal \cup run[t].entries)
    BY RunIs, FS_Union
  <2> QED BY <1>8, <2>1, <2>2 DEF Commits
<1> QED BY <1>1, <1>2, <1>3, <1>4, <1>5, <1>6, <1>7, <1>8, PlacesSo, BeginsSo, LeavesSo, PaysSo,
          TurnsSo, CommitsSo DEF ServerNext, AbortAllocation
-----------------------------------------------------------------------------
(* What the runs are about *)

\* A run is as good after an order was placed.
LEMMA RunStays == ASSUME OrdersGrow, NEW r, RunOk(r) PROVE RunOk(r)'
  BY DEF OrdersGrow, RunOk, OfCredit

\* Of a run that ended nothing is left.
LEMMA RunOver ==
    ASSUME NEW r, r.open = FALSE, r.todo = <<>>, r.payments = {}, r.entries = {}, r.touch = 0
    PROVE  RunOk(r)
  BY DEF RunOk

\* An entry for an allocated payment carries the payment's number.
LEMMA AllocatedId ==
    ASSUME NEW p \in Payment, NEW a
    PROVE  /\ Allocated(p, a).id = PaymentId(p) /\ Allocated(p, a).kind = "PaymentAllocation"
           /\ Allocated(p, a).party = p.order /\ Allocated(p, a).cr = "ACCOUNTS_RECEIVABLE"
           /\ Allocated(p, a).amount = a
           /\ Source(Allocated(p, a)) = <<"PaymentAllocation", PaymentId(p)>>
  BY PostIs DEF Allocated

\* A new payment has a number of its own.
LEMMA NewNumber ==
    ASSUME ServerTyped, NEW t \in Tx, NEW p \in Payment, NEW E, Pays(t, p, E)
    PROVE  /\ \A q \in payments : PaymentId(q) # PaymentId(p)
           /\ \A u \in Tx : \A q \in run[u].payments : PaymentId(q) # PaymentId(p)
<1>1. p.n = NextNumber(p.order)
  BY DEF Pays
<1>2. \A q \in payments : q.order = p.order => q.n # p.n
  BY <1>1, NumberLeft
<1>3. \A u \in Tx : \A q \in run[u].payments : q.order = p.order => q.n # p.n
  BY <1>1, NumberLeft
<1>4. ASSUME NEW q, PaymentId(q) = PaymentId(p) PROVE q.order = p.order /\ q.n = p.n
  BY <1>4 DEF PaymentId
<1> QED BY <1>2, <1>3, <1>4

\* After a payment.
LEMMA RunAfterPay ==
    ASSUME ServerTyped, Runs, NEW t \in Tx, NEW p \in Payment, NEW E \in SUBSET Entry,
           Pays(t, p, E), NEW r, r.open = run[t].open, r.todo = run[t].todo,
           r.payments = run[t].payments \cup {p}, r.entries = run[t].entries \cup E,
           r.touch = p.order
    PROVE  RunOk(r)
<1>1. RunOk(run[t]) /\ run[t].todo # <<>> /\ p.order = run[t].todo[1].item
      /\ 1 \in DOMAIN run[t].todo /\ Head(run[t].todo) = run[t].todo[1]
  BY RunIs DEF Runs, Pays
<1>2. OfCredit(p)
  BY <1>1 DEF RunOk, OfCredit
<1>3. run[t].open
  BY <1>1 DEF RunOk
<1>4. \A e \in r.entries : PaidFrom(r.payments, e)
  BY <1>1 DEF RunOk, PaidFrom, Pays
<1>5. \A e \in E : e.id = PaymentId(p)
  BY AllocatedId DEF Pays
<1>6. \A e \in run[t].entries : e.id # PaymentId(p)
  <2> TAKE e \in run[t].entries
  <2>1. PICK q \in run[t].payments : e = Allocated(q, e.amount)
    BY <1>1 DEF RunOk, PaidFrom
  <2>2. q \in Payment
    BY RunIs
  <2>3. e.id = PaymentId(q)
    BY <2>1, <2>2, AllocatedId
  <2> QED BY <2>3, NewNumber
<1>7. \A e, f \in r.entries : e.id = f.id => e = f
  <2>1. \A e, f \in run[t].entries : e.id = f.id => e = f
    BY <1>1 DEF RunOk
  <2>2. \A e, f \in E : e = f
    BY DEF Pays
  <2> QED BY <1>5, <1>6, <2>1, <2>2
<1>8. \A q \in r.payments : OfCredit(q)
  BY <1>1, <1>2 DEF RunOk
<1>9. r.touch = Head(r.todo).item /\ r.todo # <<>> /\ r.open
  BY <1>1, <1>3
<1>10. \A k \in DOMAIN r.todo :
          /\ r.todo[k].item \in DOMAIN orders /\ orders[r.todo[k].item].kind = "credit"
          /\ 0 <= r.todo[k].amount /\ r.todo[k].amount <= orders[r.todo[k].item].total
          /\ \A j \in 1..(k - 1) : r.todo[j].item # r.todo[k].item
  BY <1>1 DEF RunOk
<1> QED BY <1>4, <1>7, <1>8, <1>9, <1>10 DEF RunOk

\* After the update of an order.
LEMMA RunAfterTurn ==
    ASSUME ServerTyped, Runs, NEW t \in Tx, Turns(t), NEW r, r.open = run[t].open,
           r.todo = Tail(run[t].todo), r.payments = run[t].payments,
           r.entries = run[t].entries, r.touch = 0
    PROVE  RunOk(r)
<1>1. PICK todo \in Seq(Part) : todo = run[t].todo
  BY RunIs
<1>2. RunOk(run[t]) /\ todo # <<>>
  BY <1>1 DEF Runs, Turns
<1>3. /\ Len(todo) \in Nat /\ DOMAIN todo = 1..Len(todo) /\ Len(Tail(todo)) = Len(todo) - 1
      /\ DOMAIN Tail(todo) = 1..Len(Tail(todo))
      /\ \A k \in 1..Len(Tail(todo)) : Tail(todo)[k] = todo[k + 1]
  BY <1>2, HeadTailProperties, LenProperties
<1>4. ASSUME NEW k \in DOMAIN r.todo
      PROVE  /\ r.todo[k].item \in DOMAIN orders /\ orders[r.todo[k].item].kind = "credit"
             /\ 0 <= r.todo[k].amount /\ r.todo[k].amount <= orders[r.todo[k].item].total
             /\ \A j \in 1..(k - 1) : r.todo[j].item # r.todo[k].item
  <2>1. k + 1 \in DOMAIN todo /\ r.todo[k] = todo[k + 1]
    BY <1>1, <1>3
  <2>2. \A j \in 1..(k - 1) : j + 1 \in 1..((k + 1) - 1) /\ r.todo[j] = todo[j + 1]
    BY <1>1, <1>3
  <2>3. PICK m \in DOMAIN todo : m = k + 1
    BY <2>1
  <2>4. /\ todo[m].item \in DOMAIN orders /\ orders[todo[m].item].kind = "credit"
        /\ 0 <= todo[m].amount /\ todo[m].amount <= orders[todo[m].item].total
        /\ \A j \in 1..(m - 1) : todo[j].item # todo[m].item
    BY <1>1, <1>2 DEF RunOk
  <2> QED BY <2>1, <2>2, <2>3, <2>4
<1>5. run[t].open
  BY <1>1, <1>2 DEF RunOk
<1> QED BY <1>2, <1>4, <1>5 DEF RunOk

\* Every step of the server keeps the runs what they are.
LEMMA RunsStep ==
    ASSUME ClientInv, ServerTyped, Runs, ServerNext PROVE Runs'
<1>1. ASSUME OrdersGrow, run' = run PROVE Runs'
  <2> SUFFICES ASSUME NEW t \in Tx PROVE RunOk(run[t])'
    BY DEF Runs
  <2>1. PICK r : r = run[t] /\ r = run'[t]
    BY <1>1
  <2>2. RunOk(r)'
    BY <1>1, <2>1, RunStays DEF Runs
  <2> QED BY <2>1, <2>2 DEF RunOk
<1>2. ASSUME NEW t \in Tx, orders' = orders, \A u \in Tx \ {t} : run'[u] = run[u],
             NEW r, r = run'[t], RunOk(r)
      PROVE  Runs'
  <2>1. OrdersGrow
    BY <1>2 DEF OrdersGrow
  <2>2. RunOk(r)'
    BY <1>2, <2>1, RunStays
  <2>3. RunOk(run[t])'
    BY <1>2, <2>2 DEF RunOk
  <2>4. ASSUME NEW u \in Tx \ {t} PROVE RunOk(run[u])'
    <3>1. PICK k : k = run[u] /\ k = run'[u]
      BY <1>2
    <3>2. RunOk(k)'
      BY <2>1, <3>1, RunStays DEF Runs
    <3> QED BY <3>1, <3>2 DEF RunOk
  <2> QED BY <2>3, <2>4 DEF Runs
<1>3. ASSUME NEW r \in DOMAIN req, NEW outcome \in {"credit", "posted", "unlisted", "unsettled"},
             Places(r, outcome)
      PROVE  Runs'
  <2>1. PICK o, p, sale, P, J, M :
          /\ o \in Nat /\ p \in Payment /\ sale \in Entry
          /\ PlacedAs(o, p, sale, req[r].lines, P, J, M)
    BY <1>3, Placed
  <2>2. OrdersGrow /\ run' = run
    BY <2>1 DEF PlacedAs
  <2> QED BY <1>1, <2>2
<1>4. ASSUME orders' = orders, run' = run PROVE Runs'
  BY <1>1, <1>4 DEF OrdersGrow
<1>5. ASSUME NEW r \in DOMAIN req, RefuseOrder(r) PROVE Runs'
  BY <1>4, <1>5 DEF RefuseOrder, serverVars
<1>6. ASSUME NEW p \in events, Handle(p) \/ HandleFails(p) PROVE Runs'
  BY <1>4, <1>6 DEF Handle, HandleFails
<1>7. ASSUME NEW t \in Tx, NEW todo \in Seq(Part), Begins(t, todo) PROVE Runs'
  <2>1. /\ \A u \in Tx \ {t} : run'[u] = run[u]
        /\ run'[t].open = TRUE /\ run'[t].todo = todo /\ run'[t].payments = {}
        /\ run'[t].entries = {} /\ run'[t].touch = 0
    BY <1>7, Begun DEF RunsTo
  <2>2. PICK r : r = run'[t]
    OBVIOUS
  <2>3. RunOk(r)
    BY <1>7, <2>1, <2>2 DEF RunOk, Begins
  <2> QED BY <1>2, <1>7, <2>1, <2>2, <2>3 DEF Begins
<1>8. ASSUME NEW t \in Tx, Leaves(t) \/ Commits(t) PROVE Runs'
  <2>1. /\ \A u \in Tx \ {t} : run'[u] = run[u]
        /\ run'[t].open = FALSE /\ run'[t].todo = <<>> /\ run'[t].payments = {}
        /\ run'[t].entries = {} /\ run'[t].touch = 0
    BY <1>8, Ended DEF RunsTo
  <2>2. PICK r : r = run'[t]
    OBVIOUS
  <2>3. RunOk(r)
    BY <2>1, <2>2, RunOver
  <2> QED BY <1>2, <1>8, <2>1, <2>2, <2>3 DEF Leaves, Commits
<1>9. ASSUME NEW t \in Tx, NEW p \in Payment, NEW E \in SUBSET Entry, Pays(t, p, E) PROVE Runs'
  <2>1. /\ \A u \in Tx \ {t} : run'[u] = run[u]
        /\ run'[t].open = run[t].open /\ run'[t].todo = run[t].todo
        /\ run'[t].payments = run[t].payments \cup {p}
        /\ run'[t].entries = run[t].entries \cup E /\ run'[t].touch = p.order
    BY <1>9, HasPaid DEF RunsTo
  <2>2. PICK r : r = run'[t]
    OBVIOUS
  <2>3. RunOk(r)
    BY <1>9, <2>1, <2>2, RunAfterPay
  <2> QED BY <1>2, <1>9, <2>1, <2>2, <2>3 DEF Pays
<1>10. ASSUME NEW t \in Tx, Turns(t) PROVE Runs'
  <2>1. /\ \A u \in Tx \ {t} : run'[u] = run[u]
        /\ run'[t].open = run[t].open /\ run'[t].todo = Tail(run[t].todo)
        /\ run'[t].payments = run[t].payments /\ run'[t].entries = run[t].entries
        /\ run'[t].touch = 0
    BY <1>10, Turned DEF RunsTo
  <2>2. PICK r : r = run'[t]
    OBVIOUS
  <2>3. RunOk(r)
    BY <1>10, <2>1, <2>2, RunAfterTurn
  <2> QED BY <1>2, <1>10, <2>1, <2>2, <2>3 DEF Turns
<1> QED BY <1>3, <1>5, <1>6, <1>7, <1>8, <1>9, <1>10, PlacesSo, BeginsSo, LeavesSo, PaysSo,
          TurnsSo, CommitsSo DEF ServerNext, AbortAllocation
-----------------------------------------------------------------------------
(* Payments *)

\* Every payment is of an order there is.
LEMMA Owners ==
    ASSUME ServerTyped, Runs, Paid
    PROVE  /\ \A p \in payments : /\ p \in Payment /\ p.order \in DOMAIN orders
                                  /\ OfCredit(p) \/ p = CashFor(p.order)
           /\ \A t \in Tx : \A p \in run[t].payments :
                 p \in Payment /\ p.order \in DOMAIN orders /\ OfCredit(p)
<1>1. \A p \in payments : p \in Payment
  BY DEF ServerTyped
<1>2. \A p \in payments : p.order \in DOMAIN orders /\ (OfCredit(p) \/ p = CashFor(p.order))
  BY DEF Paid, OfCredit
<1>3. \A t \in Tx : \A p \in run[t].payments : p \in Payment
  BY RunIs
<1>4. \A t \in Tx : \A p \in run[t].payments : OfCredit(p)
  BY DEF Runs, RunOk
<1> QED BY <1>1, <1>2, <1>3, <1>4 DEF OfCredit

\* A payment on credit stays one, and a cash payment the one of its order.
LEMMA OwnerStays ==
    ASSUME OrdersGrow, NEW p, p.order \in DOMAIN orders
    PROVE  (OfCredit(p)' <=> OfCredit(p)) /\ CashFor(p.order)' = CashFor(p.order)
  BY DEF OrdersGrow, OfCredit, CashFor

\* The numbers when no payment is added.
LEMMA NumbersStay ==
    ASSUME Numbered, payments' = payments, \A u \in Tx : run'[u].payments \subseteq run[u].payments
    PROVE  Numbered'
<1>1. \A p, q \in payments' : PaymentId(p) = PaymentId(q) => p = q
  BY DEF Numbered
<1>2. ASSUME NEW t \in Tx, NEW p \in run'[t].payments
      PROVE  /\ \A q \in payments' : PaymentId(p) # PaymentId(q)
             /\ \A q \in run'[t].payments : PaymentId(p) = PaymentId(q) => p = q
             /\ \A u \in Tx \ {t} : \A q \in run'[u].payments : PaymentId(p) # PaymentId(q)
  BY <1>2 DEF Numbered
<1> QED BY <1>1, <1>2 DEF Numbered

\* Every step of the server keeps the numbers of payments apart.
LEMMA NumberedStep ==
    ASSUME ClientInv, ServerTyped, Runs, Paid, Numbered, ServerNext PROVE Numbered'
<1>1. ASSUME NEW r \in DOMAIN req, NEW outcome \in {"credit", "posted", "unlisted", "unsettled"},
             Places(r, outcome)
      PROVE  Numbered'
  <2>1. PICK o, p, sale, P, J, M :
          /\ o \in Nat /\ p \in Payment /\ sale \in Entry
          /\ PlacedAs(o, p, sale, req[r].lines, P, J, M)
    BY <1>1, Placed
  <2>2. run' = run /\ payments' = payments \cup P /\ P \subseteq {p}
        /\ p.order = o /\ o \notin DOMAIN orders
    BY <2>1 DEF PlacedAs
  <2>3. /\ \A q \in payments : PaymentId(q) # PaymentId(p)
        /\ \A t \in Tx : \A q \in run[t].payments : PaymentId(q) # PaymentId(p)
    <3>1. ASSUME NEW q \in Payment, q.order \in DOMAIN orders PROVE PaymentId(q) # PaymentId(p)
      BY <2>1, <2>2, <3>1, Fields
    <3> QED BY <3>1, Owners
  <2>4. \A q \in payments' : q \in payments \/ q = p
    BY <2>2
  <2> QED BY <2>2, <2>3, <2>4 DEF Numbered
<1>2. ASSUME payments' = payments, run' = run PROVE Numbered'
  BY <1>2, NumbersStay
<1>3. ASSUME NEW r \in DOMAIN req, RefuseOrder(r) PROVE Numbered'
  BY <1>2, <1>3 DEF RefuseOrder, serverVars
<1>4. ASSUME NEW p \in events, Handle(p) \/ HandleFails(p) PROVE Numbered'
  BY <1>2, <1>4 DEF Handle, HandleFails
<1>5. ASSUME NEW t \in Tx, NEW todo \in Seq(Part), Begins(t, todo) PROVE Numbered'
  <2>1. RunsTo(t, TRUE, todo, {}, {}, 0) /\ payments' = payments
    BY <1>5, Begun DEF Begins
  <2> QED BY <2>1, NumbersStay DEF RunsTo
<1>6. ASSUME NEW t \in Tx, Leaves(t) PROVE Numbered'
  <2>1. RunsTo(t, FALSE, <<>>, {}, {}, 0) /\ payments' = payments
    BY <1>6, Ended DEF Leaves
  <2> QED BY <2>1, NumbersStay DEF RunsTo
<1>7. ASSUME NEW t \in Tx, NEW p \in Payment, NEW E \in SUBSET Entry, Pays(t, p, E) PROVE Numbered'
  <2>1. /\ RunsTo(t, run[t].open, run[t].todo, run[t].payments \cup {p}, run[t].entries \cup E, p.order)
        /\ payments' = payments
    BY <1>7, HasPaid DEF Pays
  <2>2. /\ \A q \in payments : PaymentId(q) # PaymentId(p)
        /\ \A u \in Tx : \A q \in run[u].payments : PaymentId(q) # PaymentId(p)
    BY <1>7, NewNumber
  <2>3. /\ run'[t].payments = run[t].payments \cup {p}
        /\ \A u \in Tx \ {t} : run'[u].payments = run[u].payments
    BY <2>1 DEF RunsTo
  <2> QED BY <2>1, <2>2, <2>3 DEF Numbered
<1>8. ASSUME NEW t \in Tx, Turns(t) PROVE Numbered'
  <2>1. /\ RunsTo(t, run[t].open, Tail(run[t].todo), run[t].payments, run[t].entries, 0)
        /\ payments' = payments
    BY <1>8, Turned DEF Turns
  <2> QED BY <2>1, NumbersStay DEF RunsTo
<1>9. ASSUME NEW t \in Tx, Commits(t) PROVE Numbered'
  <2>1. RunsTo(t, FALSE, <<>>, {}, {}, 0) /\ payments' = payments \cup run[t].payments
    BY <1>9, Ended DEF Commits
  <2>2. run'[t].payments = {} /\ \A u \in Tx \ {t} : run'[u].payments = run[u].payments
    BY <2>1 DEF RunsTo
  <2>3. ASSUME NEW p \in payments', NEW q \in payments', PaymentId(p) = PaymentId(q) PROVE p = q
    BY <2>1, <2>3 DEF Numbered
  <2>4. ASSUME NEW u \in Tx, NEW p \in run'[u].payments
        PROVE  /\ \A q \in payments' : PaymentId(p) # PaymentId(q)
               /\ \A q \in run'[u].payments : PaymentId(p) = PaymentId(q) => p = q
               /\ \A v \in Tx \ {u} : \A q \in run'[v].payments : PaymentId(p) # PaymentId(q)
    <3>1. u # t /\ p \in run[u].payments
      BY <2>2
    <3> QED BY <2>1, <2>2, <3>1 DEF Numbered
  <2> QED BY <2>3, <2>4 DEF Numbered
<1> QED BY <1>1, <1>3, <1>4, <1>5, <1>6, <1>7, <1>8, <1>9, PlacesSo, BeginsSo, LeavesSo, PaysSo,
          TurnsSo, CommitsSo DEF ServerNext, AbortAllocation

\* Payments of a transaction, or of a new cash order, are as they must be.
LEMMA PaidGrows ==
    ASSUME ServerTyped, Runs, Paid, OrdersGrow, NEW P, payments' = payments \cup P,
           \A p \in P : OfCredit(p)' \/ (p.order \in DOMAIN orders' /\ p = CashFor(p.order)')
    PROVE  Paid'
<1>1. ASSUME NEW p \in payments
      PROVE  OfCredit(p)' \/ (p.order \in DOMAIN orders' /\ p = CashFor(p.order)')
  <2>1. p.order \in DOMAIN orders /\ (OfCredit(p) \/ p = CashFor(p.order))
    BY Owners
  <2> QED BY <2>1, OwnerStays DEF OrdersGrow
<1> QED BY <1>1 DEF Paid, CashFor

\* A cash order is paid at most once, and nothing is paid but orders.
LEMMA PaidStep ==
    ASSUME ClientInv, ServerTyped, Runs, Paid, ServerNext PROVE Paid'
<1>1. ASSUME NEW r \in DOMAIN req, NEW outcome \in {"credit", "posted", "unlisted", "unsettled"},
             Places(r, outcome)
      PROVE  Paid'
  <2>1. PICK o, p, sale, P, J, M :
          /\ o \in Nat /\ p \in Payment /\ sale \in Entry
          /\ PlacedAs(o, p, sale, req[r].lines, P, J, M)
    BY <1>1, Placed
  <2>2. /\ OrdersGrow /\ payments' = payments \cup P /\ P \subseteq {p}
        /\ p = CashFor(o)' /\ p.order = o /\ o \in DOMAIN orders'
    BY <2>1 DEF PlacedAs
  <2> QED BY <2>2, PaidGrows
<1>2. ASSUME orders' = orders, payments' = payments PROVE Paid'
  BY <1>2 DEF Paid, OfCredit, CashFor
<1>3. ASSUME NEW r \in DOMAIN req, RefuseOrder(r) PROVE Paid'
  BY <1>2, <1>3 DEF RefuseOrder, serverVars
<1>4. ASSUME NEW p \in events, Handle(p) \/ HandleFails(p) PROVE Paid'
  BY <1>2, <1>4 DEF Handle, HandleFails
<1>5. ASSUME NEW t \in Tx, \/ \E todo \in Seq(Part) : Begins(t, todo)
                           \/ Leaves(t) \/ Turns(t)
                           \/ \E p \in Payment, E \in SUBSET Entry : Pays(t, p, E)
      PROVE  Paid'
  BY <1>2, <1>5 DEF Begins, Leaves, Turns, Pays
<1>6. ASSUME NEW t \in Tx, Commits(t) PROVE Paid'
  <2>1. OrdersGrow /\ payments' = payments \cup run[t].payments /\ orders' = orders
    BY <1>6 DEF Commits, OrdersGrow
  <2>2. \A p \in run[t].payments : OfCredit(p)'
    BY <2>1, Owners DEF OfCredit
  <2> QED BY <2>1, <2>2, PaidGrows
<1> QED BY <1>1, <1>3, <1>4, <1>5, <1>6, PlacesSo, BeginsSo, LeavesSo, PaysSo,
          TurnsSo, CommitsSo DEF ServerNext, AbortAllocation
-----------------------------------------------------------------------------
(* The books *)

\* The entry for a sale stays what it is.
LEMMA SaleStays ==
    ASSUME OrdersGrow, NEW o \in DOMAIN orders
    PROVE  /\ o \in DOMAIN orders' /\ orders'[o] = orders[o]
           /\ SaleOf(o)' = SaleOf(o) /\ CashFor(o)' = CashFor(o)
  BY DEF OrdersGrow, SaleOf, CashFor

\* What explained an entry still does.
LEMMA OriginStays ==
    ASSUME ServerTyped, Runs, Paid, OrdersGrow, payments \subseteq payments',
           \A p \in payments : p \in events' => p \in events, NEW e, Origin(e)
    PROVE  Origin(e)'
<1>1. CASE \E o \in DOMAIN orders : orders[o].kind = "credit" /\ e = SaleOf(o)
  <2>1. PICK o \in DOMAIN orders : orders[o].kind = "credit" /\ e = SaleOf(o)
    BY <1>1
  <2>2. o \in DOMAIN orders' /\ orders'[o].kind = "credit" /\ e = SaleOf(o)'
    BY <2>1, SaleStays
  <2>3. \E k \in DOMAIN orders' : orders'[k].kind = "credit" /\ e = SaleOf(k)'
    BY <2>2
  <2> QED BY <2>3 DEF Origin
<1>2. CASE \E p \in payments : e = EntryFor(p) /\ (OfCredit(p) => p \notin events)
  <2>1. PICK p \in payments : e = EntryFor(p) /\ (OfCredit(p) => p \notin events)
    BY <1>2
  <2>2. p \in payments' /\ (OfCredit(p)' => p \notin events')
    BY <2>1, Owners, OwnerStays
  <2> QED BY <2>1, <2>2 DEF Origin, EntryFor
<1>3. CASE PaidFrom(payments, e)
  BY <1>3 DEF PaidFrom, Origin, Allocated
<1> QED BY <1>1, <1>2, <1>3 DEF Origin

\* Every step of the server posts what the orders and payments explain.
LEMMA ExplainedStep ==
    ASSUME ClientInv, ServerTyped, Runs, Paid, Numbered, Explained, ServerNext PROVE Explained'
<1>1. ASSUME NEW r \in DOMAIN req, NEW outcome \in {"credit", "posted", "unlisted", "unsettled"},
             Places(r, outcome)
      PROVE  Explained'
  <2>1. PICK o, p, sale, P, J, M :
          /\ o \in Nat /\ p \in Payment /\ sale \in Entry
          /\ PlacedAs(o, p, sale, req[r].lines, P, J, M)
    BY <1>1, Placed
  <2>2. /\ OrdersGrow /\ payments' = payments \cup P /\ events' = events \cup P /\ P \subseteq {p}
        /\ p.order = o /\ o \notin DOMAIN orders /\ o \in DOMAIN orders' /\ journal' = journal \cup J
        /\ sale = SaleOf(o)'
        /\ \/ orders'[o].kind = "credit" /\ J = {sale}
           \/ orders'[o].kind = "cash" /\ P = {p} /\ J = {EntryFor(p)}
           \/ J = {}
    BY <2>1 DEF PlacedAs
  <2>3. p \notin payments
    BY <2>2, Owners
  <2>4. ASSUME NEW e \in journal PROVE Origin(e)'
    <3>1. payments \subseteq payments' /\ \A q \in payments : q \in events' => q \in events
      BY <2>2, <2>3
    <3> QED BY <2>2, <3>1, OriginStays DEF Explained
  <2>5. ASSUME NEW e \in J PROVE Origin(e)'
    <3>1. CASE orders'[o].kind = "credit" /\ J = {sale}
      <4>1. \E k \in DOMAIN orders' : orders'[k].kind = "credit" /\ e = SaleOf(k)'
        BY <2>2, <3>1
      <4> QED BY <4>1 DEF Origin
    <3>2. CASE orders'[o].kind = "cash" /\ P = {p} /\ J = {EntryFor(p)}
      <4>1. p \in payments' /\ e = EntryFor(p) /\ ~OfCredit(p)'
        BY <2>2, <3>2 DEF OfCredit
      <4> QED BY <4>1 DEF Origin, EntryFor
    <3> QED BY <2>2, <3>1, <3>2
  <2>6. \A e \in journal' : e \in journal \/ e \in J
    BY <2>2
  <2> QED BY <2>4, <2>5, <2>6 DEF Explained
<1>2. ASSUME orders' = orders, payments' = payments, journal' = journal, events' \subseteq events
      PROVE  Explained'
  <2>1. OrdersGrow /\ payments \subseteq payments' /\ \A q \in payments : q \in events' => q \in events
    BY <1>2 DEF OrdersGrow
  <2>2. \A e \in journal' : Origin(e)'
    BY <1>2, <2>1, OriginStays DEF Explained
  <2> QED BY <2>2 DEF Explained
<1>3. ASSUME NEW r \in DOMAIN req, RefuseOrder(r) PROVE Explained'
  BY <1>2, <1>3 DEF RefuseOrder, serverVars
<1>4. ASSUME NEW p \in events, Handle(p) PROVE Explained'
  <2>1. /\ orders' = orders /\ payments' = payments /\ events' = events \ {p}
        /\ journal' \subseteq journal \cup {EntryFor(p)}
    BY <1>4 DEF Handle, EntryFor
  <2>2. OrdersGrow /\ payments \subseteq payments' /\ \A q \in payments : q \in events' => q \in events
    BY <2>1 DEF OrdersGrow
  <2>3. \A e \in journal : Origin(e)'
    BY <2>2, OriginStays DEF Explained
  <2>4. p \in payments' /\ p \notin events'
    BY <2>1 DEF ServerTyped
  <2>5. Origin(EntryFor(p))'
    <3>1. PICK e : e = EntryFor(p)
      OBVIOUS
    <3>2. Origin(e)'
      BY <2>4, <3>1 DEF Origin, EntryFor
    <3> QED BY <3>1, <3>2 DEF EntryFor
  <2> QED BY <2>1, <2>3, <2>5 DEF Explained
<1>5. ASSUME NEW p \in events, HandleFails(p) PROVE Explained'
  BY <1>2, <1>5 DEF HandleFails
<1>6. ASSUME NEW t \in Tx, \/ \E todo \in Seq(Part) : Begins(t, todo)
                           \/ Leaves(t) \/ Turns(t)
                           \/ \E p \in Payment, E \in SUBSET Entry : Pays(t, p, E)
      PROVE  Explained'
  BY <1>2, <1>6 DEF Begins, Leaves, Turns, Pays
<1>7. ASSUME NEW t \in Tx, Commits(t) PROVE Explained'
  <2>1. /\ OrdersGrow /\ orders' = orders /\ payments' = payments \cup run[t].payments
        /\ journal' = journal \cup run[t].entries /\ events' = events \cup run[t].payments
    BY <1>7 DEF Commits, OrdersGrow
  <2>2. \A q \in payments : q \notin run[t].payments
    BY DEF Numbered
  <2>3. \A e \in journal : Origin(e)'
    <3>1. payments \subseteq payments' /\ \A q \in payments : q \in events' => q \in events
      BY <2>1, <2>2
    <3> QED BY <2>1, <3>1, OriginStays DEF Explained
  <2>4. ASSUME NEW e \in run[t].entries PROVE Origin(e)'
    <3>1. PICK p \in run[t].payments : e = Allocated(p, e.amount) /\ e.amount <= p.amount
      BY DEF Runs, RunOk, PaidFrom
    <3>2. p \in payments'
      BY <2>1
    <3>3. PaidFrom(payments, e)'
      BY <3>1, <3>2 DEF PaidFrom, Allocated
    <3> QED BY <3>3 DEF Origin
  <2>5. \A e \in journal' : e \in journal \/ e \in run[t].entries
    BY <2>1
  <2> QED BY <2>3, <2>4, <2>5 DEF Explained
<1> QED BY <1>1, <1>3, <1>4, <1>5, <1>6, <1>7, PlacesSo, BeginsSo, LeavesSo, PaysSo,
          TurnsSo, CommitsSo DEF ServerNext, AbortAllocation

\* The source of an entry, by what explains it.
LEMMA Origins ==
    ASSUME ServerTyped, Explained, NEW e \in journal
    PROVE  \/ \E o \in DOMAIN orders : Source(e) = <<"CreditSale", <<o, 0>>>>
           \/ \E p \in payments : e = EntryFor(p) /\ Source(e) = <<"Payment", PaymentId(p)>>
           \/ \E p \in payments : Source(e) = <<"PaymentAllocation", PaymentId(p)>>
<1>1. Origin(e)
  BY DEF Explained
<1>2. CASE \E o \in DOMAIN orders : orders[o].kind = "credit" /\ e = SaleOf(o)
  <2>1. PICK o \in DOMAIN orders : orders[o].kind = "credit" /\ e = SaleOf(o)
    BY <1>2
  <2>2. o \in Nat /\ orders[o].total \in Nat
    BY OrderIs
  <2>3. Source(e) = <<"CreditSale", <<o, 0>>>>
    BY <2>1, <2>2, SaleOk DEF SaleOf
  <2> QED BY <2>3
<1>3. CASE \E p \in payments : e = EntryFor(p) /\ (OfCredit(p) => p \notin events)
  <2>1. PICK p \in payments : e = EntryFor(p)
    BY <1>3
  <2>2. p \in Payment
    BY DEF ServerTyped
  <2>3. Source(e) = <<"Payment", PaymentId(p)>>
    BY <2>1, <2>2, EntryOk
  <2> QED BY <2>1, <2>3
<1>4. CASE PaidFrom(payments, e)
  <2>1. PICK p \in payments : e = Allocated(p, e.amount)
    BY <1>4 DEF PaidFrom
  <2>2. PICK a : a = e.amount
    OBVIOUS
  <2>3. p \in Payment /\ e = Allocated(p, a)
    BY <2>1, <2>2 DEF ServerTyped
  <2>4. Source(e) = <<"PaymentAllocation", PaymentId(p)>>
    BY <2>3, AllocatedId
  <2> QED BY <2>4
<1> QED BY <1>1, <1>2, <1>3, <1>4 DEF Origin

\* A payment whose source is in the books has its entry there.
LEMMA PostedIs ==
    ASSUME ServerTyped, Numbered, Explained, NEW p \in payments, IsPosted(p)
    PROVE  EntryFor(p) \in journal
<1>1. PICK e \in journal : Source(e) = <<"Payment", PaymentId(p)>>
  BY DEF IsPosted
<1>2. PICK q \in payments : e = EntryFor(q) /\ Source(e) = <<"Payment", PaymentId(q)>>
  BY <1>1, Origins
<1>3. PaymentId(p) = PaymentId(q)
  BY <1>1, <1>2
<1>4. p = q
  BY <1>3 DEF Numbered
<1> QED BY <1>2, <1>4

\* Entries of new sources can be added.
LEMMA OneEachGrows ==
    ASSUME OneEach, NEW J, journal' = journal \cup J,
           \A e \in J : \A f \in journal : Source(e) # Source(f),
           \A e, f \in J : Source(e) = Source(f) => e = f
    PROVE  OneEach'
  BY DEF OneEach

\* The entries an allocation posts have new sources.
LEMMA AllocatedFresh ==
    ASSUME ServerTyped, Runs, Numbered, Explained, NEW t \in Tx
    PROVE  /\ \A e \in run[t].entries : \A f \in journal : Source(e) # Source(f)
           /\ \A e, f \in run[t].entries : Source(e) = Source(f) => e = f
<1>1. ASSUME NEW e \in run[t].entries
      PROVE  \E p \in run[t].payments : Source(e) = <<"PaymentAllocation", PaymentId(p)>>
                                        /\ e.id = PaymentId(p)
  <2>1. PICK p \in run[t].payments : e = Allocated(p, e.amount)
    BY DEF Runs, RunOk, PaidFrom
  <2>2. PICK a : a = e.amount
    OBVIOUS
  <2>3. p \in Payment /\ e = Allocated(p, a)
    BY <2>1, <2>2, RunIs
  <2>4. Source(e) = <<"PaymentAllocation", PaymentId(p)>> /\ e.id = PaymentId(p)
    BY <2>3, AllocatedId
  <2> QED BY <2>1, <2>4
<1>2. ASSUME NEW e \in run[t].entries, NEW f \in journal PROVE Source(e) # Source(f)
  <2>1. PICK p \in run[t].payments : Source(e) = <<"PaymentAllocation", PaymentId(p)>>
    BY <1>1
  <2>2. \A q \in payments : PaymentId(p) # PaymentId(q)
    BY DEF Numbered
  <2> QED BY <2>1, <2>2, Origins
<1>3. ASSUME NEW e \in run[t].entries, NEW f \in run[t].entries, Source(e) = Source(f) PROVE e = f
  <2>1. e.id = f.id
    BY <1>1, <1>3
  <2> QED BY <2>1 DEF Runs, RunOk
<1> QED BY <1>2, <1>3

\* No source is posted twice.
LEMMA OneEachStep ==
    ASSUME ClientInv, ServerTyped, Runs, Paid, Numbered, Explained, OneEach, ServerNext
    PROVE  OneEach'
<1>1. ASSUME NEW r \in DOMAIN req, NEW outcome \in {"credit", "posted", "unlisted", "unsettled"},
             Places(r, outcome)
      PROVE  OneEach'
  <2>1. PICK o, p, sale, P, J, M :
          /\ o \in Nat /\ p \in Payment /\ sale \in Entry
          /\ PlacedAs(o, p, sale, req[r].lines, P, J, M)
    BY <1>1, Placed
  <2>2. /\ o \notin DOMAIN orders /\ p.order = o /\ journal' = journal \cup J
        /\ orders'[o].total \in Nat
        /\ sale = Post("CreditSale", OrderId(o), o, orders'[o].total, "credit")
        /\ J = {} \/ J = {sale} \/ J = {EntryFor(p)}
    BY <2>1 DEF PlacedAs
  <2>3. Source(sale) = <<"CreditSale", <<o, 0>>>>
    BY <2>1, <2>2, SaleOk
  <2>4. Source(EntryFor(p)) = <<"Payment", PaymentId(p)>>
    BY <2>1, EntryOk
  <2>5. ASSUME NEW f \in journal PROVE Source(sale) # Source(f)
    BY <2>2, <2>3, Origins
  <2>6. ASSUME NEW f \in journal PROVE Source(EntryFor(p)) # Source(f)
    <3>1. \A q \in payments : PaymentId(q) # PaymentId(p)
      <4>1. ASSUME NEW q \in Payment, q.order \in DOMAIN orders PROVE PaymentId(q) # PaymentId(p)
        BY <2>1, <2>2, <4>1, Fields
      <4> QED BY <4>1, Owners
    <3> QED BY <2>4, <3>1, Origins
  <2>7. /\ \A e \in J : \A f \in journal : Source(e) # Source(f)
        /\ \A e, f \in J : Source(e) = Source(f) => e = f
    BY <2>2, <2>5, <2>6
  <2> QED BY <2>2, <2>7, OneEachGrows
<1>2. ASSUME journal' = journal PROVE OneEach'
  BY <1>2 DEF OneEach
<1>3. ASSUME NEW r \in DOMAIN req, RefuseOrder(r) PROVE OneEach'
  BY <1>2, <1>3 DEF RefuseOrder, serverVars
<1>4. ASSUME NEW p \in events, Handle(p) PROVE OneEach'
  <2>1. p \in Payment
    BY DEF ServerTyped
  <2>2. CASE IsPosted(p)
    BY <1>2, <1>4, <2>2 DEF Handle
  <2>3. CASE ~IsPosted(p)
    <3>1. journal' = journal \cup {EntryFor(p)}
      BY <1>4, <2>3 DEF Handle, EntryFor
    <3>2. \A f \in journal : Source(EntryFor(p)) # Source(f)
      BY <2>1, <2>3, EntryOk DEF IsPosted
    <3>3. PICK J : J = {EntryFor(p)}
      OBVIOUS
    <3>4. /\ \A e \in J : \A f \in journal : Source(e) # Source(f)
          /\ \A e, f \in J : Source(e) = Source(f) => e = f
      BY <3>2, <3>3
    <3> QED BY <3>1, <3>3, <3>4, OneEachGrows
  <2> QED BY <2>2, <2>3
<1>5. ASSUME NEW p \in events, HandleFails(p) PROVE OneEach'
  BY <1>2, <1>5 DEF HandleFails
<1>6. ASSUME NEW t \in Tx, \/ \E todo \in Seq(Part) : Begins(t, todo)
                           \/ Leaves(t) \/ Turns(t)
                           \/ \E p \in Payment, E \in SUBSET Entry : Pays(t, p, E)
      PROVE  OneEach'
  BY <1>2, <1>6 DEF Begins, Leaves, Turns, Pays
<1>7. ASSUME NEW t \in Tx, Commits(t) PROVE OneEach'
  <2>1. PICK J : J = run[t].entries
    OBVIOUS
  <2>2. journal' = journal \cup J
    BY <1>7, <2>1 DEF Commits
  <2>3. /\ \A e \in J : \A f \in journal : Source(e) # Source(f)
        /\ \A e, f \in J : Source(e) = Source(f) => e = f
    BY <2>1, AllocatedFresh
  <2> QED BY <2>2, <2>3, OneEachGrows
<1> QED BY <1>1, <1>3, <1>4, <1>5, <1>6, <1>7, PlacesSo, BeginsSo, LeavesSo, PaysSo,
          TurnsSo, CommitsSo DEF ServerNext, AbortAllocation

\* A sale that is in the books, waits or is missed still does, unless its event
\* is gone.
LEMMA SoldStays ==
    ASSUME OrdersGrow, journal \subseteq journal', missed \subseteq missed',
           NEW o \in DOMAIN orders, SalePosted(o),
           (CashFor(o) \in events /\ CashFor(o) \notin events')
              => (EntryFor(CashFor(o)) \in journal' \/ o \in missed')
    PROVE  SalePosted(o)'
<1>1. /\ orders'[o] = orders[o] /\ SaleOf(o)' = SaleOf(o) /\ CashFor(o)' = CashFor(o)
      /\ EntryFor(CashFor(o))' = EntryFor(CashFor(o))
  BY SaleStays DEF EntryFor
<1> QED BY <1>1 DEF SalePosted

\* Every order is in the books, or its payment waits or was missed.
LEMMA SalesPostedStep ==
    ASSUME ClientInv, ServerTyped, Runs, Paid, Numbered, Explained, SalesPosted, ServerNext
    PROVE  SalesPosted'
<1>1. ASSUME NEW r \in DOMAIN req, NEW outcome \in {"credit", "posted", "unlisted", "unsettled"},
             Places(r, outcome)
      PROVE  SalesPosted'
  <2>1. PICK o, p, sale, P, J, M :
          /\ o \in Nat /\ p \in Payment /\ sale \in Entry
          /\ PlacedAs(o, p, sale, req[r].lines, P, J, M)
    BY <1>1, Placed
  <2>2. /\ OrdersGrow /\ DOMAIN orders' = DOMAIN orders \cup {o}
        /\ events' = events \cup P /\ journal' = journal \cup J /\ missed' = missed \cup M
        /\ p = CashFor(o)' /\ sale = SaleOf(o)'
        /\ \/ orders'[o].kind = "credit" /\ P = {} /\ J = {sale} /\ M = {}
           \/ orders'[o].kind = "cash" /\ P = {p} /\ J = {EntryFor(p)} /\ M = {}
           \/ orders'[o].kind = "cash" /\ P = {p} /\ J = {} /\ M = {}
           \/ orders'[o].kind = "cash" /\ P = {} /\ J = {} /\ M = {o}
    BY <2>1 DEF PlacedAs
  <2>3. ASSUME NEW k \in DOMAIN orders PROVE SalePosted(k)'
    <3>1. journal \subseteq journal' /\ missed \subseteq missed' /\ events \subseteq events'
      BY <2>2
    <3> QED BY <2>2, <3>1, SoldStays DEF SalesPosted
  <2>4. EntryFor(CashFor(o))' = EntryFor(p)
    BY <2>2 DEF EntryFor
  <2>5. SalePosted(o)'
    BY <2>2, <2>4 DEF SalePosted
  <2>6. \A k \in DOMAIN orders' : k \in DOMAIN orders \/ k = o
    BY <2>2
  <2>7. ASSUME NEW k \in DOMAIN orders' PROVE SalePosted(k)'
    BY <2>3, <2>5, <2>6
  <2> QED BY <2>7 DEF SalesPosted
<1>2. ASSUME orders' = orders, journal \subseteq journal', missed \subseteq missed',
             events \subseteq events'
      PROVE  SalesPosted'
  <2>1. OrdersGrow
    BY <1>2 DEF OrdersGrow
  <2>2. \A o \in DOMAIN orders : SalePosted(o)'
    BY <1>2, <2>1, SoldStays DEF SalesPosted
  <2> QED BY <1>2, <2>2 DEF SalesPosted
<1>3. ASSUME NEW r \in DOMAIN req, RefuseOrder(r) PROVE SalesPosted'
  BY <1>2, <1>3 DEF RefuseOrder, serverVars
<1>4. ASSUME NEW p \in events, Handle(p) \/ HandleFails(p) PROVE SalesPosted'
  <2>1. /\ orders' = orders /\ journal \subseteq journal' /\ missed \subseteq missed'
        /\ events' = events \ {p}
        /\ EntryFor(p) \in journal' \/ p.order \in missed'
    <3>1. p \in payments
      BY DEF ServerTyped
    <3>2. CASE Handle(p)
      BY <3>1, <3>2, PostedIs DEF Handle, EntryFor
    <3>3. CASE HandleFails(p)
      BY <3>1, <3>3, PostedIs DEF HandleFails
    <3> QED BY <1>4, <3>2, <3>3
  <2>2. OrdersGrow
    BY <2>1 DEF OrdersGrow
  <2>3. ASSUME NEW o \in DOMAIN orders PROVE SalePosted(o)'
    <3>1. CashFor(o) = p => p.order = o
      BY DEF CashFor
    <3>2. (CashFor(o) \in events /\ CashFor(o) \notin events') => CashFor(o) = p
      BY <2>1
    <3> QED BY <2>1, <2>2, <3>1, <3>2, SoldStays DEF SalesPosted
  <2> QED BY <2>1, <2>3 DEF SalesPosted
<1>5. ASSUME NEW t \in Tx, \/ \E todo \in Seq(Part) : Begins(t, todo)
                           \/ Leaves(t) \/ Turns(t) \/ Commits(t)
                           \/ \E p \in Payment, E \in SUBSET Entry : Pays(t, p, E)
      PROVE  SalesPosted'
  BY <1>2, <1>5 DEF Begins, Leaves, Turns, Pays, Commits
<1> QED BY <1>1, <1>3, <1>4, <1>5, PlacesSo, BeginsSo, LeavesSo, PaysSo,
          TurnsSo, CommitsSo DEF ServerNext, AbortAllocation
-----------------------------------------------------------------------------
(* Paid once *)

\* Fewer payments, and fewer orders to pay.
LEMMA ApartLess ==
    ASSUME NEW os, NEW os2, NEW S, NEW S2 \in SUBSET S, NEW D, NEW D2 \in SUBSET D,
           Apart(os, S, D),
           \A p \in S2 : /\ p.order \in DOMAIN os /\ p.order \in DOMAIN os2
                         /\ os2[p.order] = os[p.order]
    PROVE  Apart(os2, S2, D2)
  BY DEF Apart

\* A new order, which is a cash order if it is paid.
LEMMA ApartCash ==
    ASSUME NEW os, NEW os2, NEW S, NEW D \in SUBSET (DOMAIN os), Apart(os, S, D),
           \A p \in S : /\ p.order \in DOMAIN os /\ p.order \in DOMAIN os2
                        /\ os2[p.order] = os[p.order],
           NEW x, NEW P \in SUBSET {x}, x.order \notin DOMAIN os,
           P # {} => os2[x.order].kind = "cash"
    PROVE  Apart(os2, S \cup P, D)
  BY DEF Apart

\* The first payment of an order that was due.
LEMMA ApartPaid ==
    ASSUME NEW os, NEW S, NEW D, Apart(os, S, D), NEW x, x.order \in D,
           x.amount = os[x.order].total, NEW D2 \in SUBSET D, x.order \notin D2
    PROVE  Apart(os, S \cup {x}, D2)
  BY DEF Apart

\* Nothing is due at the end.
LEMMA NothingDue == ASSUME NEW r, r.todo = <<>> PROVE DueOf(r) = {}
  BY DEF DueOf

\* Who is paid now is due no more.
LEMMA DueAfterPay ==
    ASSUME ServerTyped, Runs, NEW t \in Tx, run[t].todo # <<>>, run[t].touch = 0,
           NEW o, o = run[t].todo[1].item, NEW r, r.todo = run[t].todo, r.touch = o
    PROVE  o \in DueOf(run[t]) /\ DueOf(r) \subseteq DueOf(run[t]) /\ o \notin DueOf(r)
<1>1. 1 \in DOMAIN run[t].todo /\ DOMAIN run[t].todo = 1..Len(run[t].todo)
      /\ Len(run[t].todo) \in Nat
  BY RunIs
<1>2. \A k \in DOMAIN run[t].todo : \A j \in 1..(k - 1) : run[t].todo[j].item # run[t].todo[k].item
  BY DEF Runs, RunOk
<1>3. o # 0
  <2>1. o \in DOMAIN orders
    BY <1>1 DEF Runs, RunOk
  <2> QED BY <2>1, OrderIs
<1>4. o \in DueOf(run[t])
  BY <1>1 DEF DueOf
<1>5. DueOf(r) = {r.todo[k].item : k \in {j \in DOMAIN r.todo : j > 1}}
  BY <1>3 DEF DueOf
<1>6. \A k \in DOMAIN run[t].todo : k > 1 => run[t].todo[k].item # o
  <2> TAKE k \in DOMAIN run[t].todo
  <2> HAVE k > 1
  <2>1. 1 \in 1..(k - 1)
    BY <1>1
  <2> QED BY <1>2, <2>1
<1> QED BY <1>4, <1>5, <1>6 DEF DueOf

\* The turn of the next order.
LEMMA DueAfterTurn ==
    ASSUME ServerTyped, NEW t \in Tx, run[t].todo # <<>>, NEW r, r.todo = Tail(run[t].todo)
    PROVE  DueOf(r) \subseteq DueOf(run[t])
<1>1. PICK todo \in Seq(Part) : todo = run[t].todo
  BY RunIs
<1>2. /\ Len(todo) \in Nat /\ DOMAIN todo = 1..Len(todo) /\ Len(Tail(todo)) = Len(todo) - 1
      /\ DOMAIN Tail(todo) = 1..Len(Tail(todo))
      /\ \A k \in 1..Len(Tail(todo)) : Tail(todo)[k] = todo[k + 1]
  BY <1>1, HeadTailProperties, LenProperties
<1>3. \A k \in DOMAIN r.todo : k + 1 \in DOMAIN todo /\ k + 1 > 1 /\ r.todo[k] = todo[k + 1]
  BY <1>1, <1>2
<1>4. ASSUME NEW o \in DueOf(r) PROVE o \in DueOf(run[t])
  <2>1. PICK k \in DOMAIN r.todo : o = r.todo[k].item
    BY <1>4 DEF DueOf
  <2> QED BY <1>1, <1>3, <2>1 DEF DueOf
<1> QED BY <1>4

\* What is due is an order.
LEMMA DueIs == ASSUME Runs, NEW t \in Tx PROVE DueOf(run[t]) \subseteq DOMAIN orders
  BY DEF Runs, RunOk, DueOf

\* While t is open, nobody else is.
LEMMA OthersWait ==
    ASSUME Runs, Alone, NEW t \in Tx, run[t].open, NEW u \in Tx \ {t}
    PROVE  ~run[u].open /\ run[u].payments = {} /\ run[u].todo = <<>>
  BY DEF Alone, Runs, RunOk

\* Every step of the server keeps orders paid once while allocations are apart.
LEMMA PaidApartStep ==
    ASSUME ClientInv, ServerTyped, Runs, Paid, PaidApart, ServerNext PROVE PaidApart'
<1> SUFFICES ASSUME ~overlapped' PROVE Alone'
  BY DEF PaidApart
<1>1. \A t \in Tx : \A p \in Sees(t) : p.order \in DOMAIN orders
  BY Owners DEF Sees
<1>2. \A p \in payments : p.order \in DOMAIN orders
  BY Owners
<1>3. \A t \in Tx : DueOf(run[t]) \subseteq DOMAIN orders
  BY DueIs
<1>4. ASSUME NEW r \in DOMAIN req, NEW outcome \in {"credit", "posted", "unlisted", "unsettled"},
             Places(r, outcome)
      PROVE  Alone'
  <2>1. PICK o, p, sale, P, J, M :
          /\ o \in Nat /\ p \in Payment /\ sale \in Entry
          /\ PlacedAs(o, p, sale, req[r].lines, P, J, M)
    BY <1>4, Placed
  <2>2. /\ OrdersGrow /\ o \notin DOMAIN orders /\ p.order = o /\ payments' = payments \cup P
        /\ P \in SUBSET {p} /\ (P # {} => orders'[o].kind = "cash")
        /\ run' = run /\ overlapped' = overlapped
    BY <2>1 DEF PlacedAs
  <2>3. Alone
    BY <2>2 DEF PaidApart
  <2>4. \A q : q \in DOMAIN orders => (q \in DOMAIN orders' /\ orders'[q] = orders[q])
    BY <2>2 DEF OrdersGrow
  <2>5. Apart(orders', payments \cup P, {})
    <3>1. Apart(orders, payments, {}) /\ {} \in SUBSET (DOMAIN orders)
      BY <2>3 DEF Alone
    <3> QED BY <1>2, <2>2, <2>4, <3>1, ApartCash
  <2>6. ASSUME NEW t \in Tx PROVE Apart(orders', Sees(t) \cup P, DueOf(run[t]))
    <3>1. Apart(orders, Sees(t), DueOf(run[t])) /\ DueOf(run[t]) \in SUBSET (DOMAIN orders)
      BY <1>3, <2>3 DEF Alone
    <3> QED BY <1>1, <2>2, <2>4, <3>1, ApartCash
  <2>7. \A t \in Tx : Sees(t)' = Sees(t) \cup P
    BY <2>2 DEF Sees
  <2>8. \A t \in Tx : Apart(orders', Sees(t)', DueOf(run'[t]))
    BY <2>2, <2>6, <2>7
  <2> QED BY <2>2, <2>3, <2>5, <2>8 DEF Alone
<1>5. ASSUME UNCHANGED <<orders, payments, run, overlapped>> PROVE Alone'
  BY <1>5 DEF Alone, PaidApart, Sees
<1>6. ASSUME NEW r \in DOMAIN req, RefuseOrder(r) PROVE Alone'
  BY <1>5, <1>6 DEF RefuseOrder, serverVars
<1>7. ASSUME NEW p \in events, Handle(p) \/ HandleFails(p) PROVE Alone'
  BY <1>5, <1>7 DEF Handle, HandleFails
<1>8. ASSUME Alone, orders' = orders, payments' = payments, NEW t \in Tx,
             \A u \in Tx \ {t} : run'[u] = run[u],
             run'[t].open => \A u \in Tx \ {t} : ~run[u].open,
             Apart(orders, payments \cup run'[t].payments, DueOf(run'[t]))
      PROVE  Alone'
  <2>1. \A u, v \in Tx : (run'[u].open /\ run'[v].open) => u = v
    BY <1>8 DEF Alone
  <2>2. \A u \in Tx : Apart(orders', Sees(u)', DueOf(run'[u]))
    BY <1>8 DEF Alone, Sees
  <2> QED BY <1>8, <2>1, <2>2 DEF Alone
<1>9. ASSUME NEW t \in Tx, NEW todo \in Seq(Part), Begins(t, todo) PROVE Alone'
  <2>1. RunsTo(t, TRUE, todo, {}, {}, 0) /\ orders' = orders /\ payments' = payments
    BY <1>9, Begun DEF Begins
  <2>2. ~overlapped /\ \A u \in Tx \ {t} : ~run[u].open
    BY <1>9 DEF Begins
  <2>3. Alone
    BY <2>2 DEF PaidApart
  <2>4. Sees(t) = payments
    BY <1>9 DEF Begins, Sees, Runs, RunOk
  <2>5. ASSUME NEW o \in DueOf(run'[t]), NEW p \in payments, p.order = o PROVE FALSE
    <3>1. PICK k \in DOMAIN todo : o = todo[k].item
      BY <2>1, <2>5 DEF RunsTo, DueOf
    <3>2. o \in DOMAIN orders /\ orders[o].kind = "credit" /\ PaidOn(t, o) < orders[o].total
      BY <1>9, <3>1 DEF Begins
    <3>3. p.amount = orders[o].total /\ \A q \in payments : q.order = o => q = p
      BY <2>3, <2>5, <3>2 DEF Alone, Apart
    <3>4. PaidOn(t, o) = p.amount
      BY <2>4, <2>5, <3>3, PaidOnIs
    <3>5. PaidOn(t, o) \in Nat /\ orders[o].total \in Nat
      BY <3>2, OrderIs, PaidOnIs
    <3> QED BY <3>2, <3>3, <3>4, <3>5
  <2>6. Apart(orders, payments \cup run'[t].payments, DueOf(run'[t]))
    BY <2>1, <2>3, <2>5 DEF RunsTo, Alone, Apart
  <2> QED BY <1>8, <2>1, <2>2, <2>3, <2>6 DEF RunsTo
<1>10. ASSUME NEW t \in Tx, Leaves(t) PROVE Alone'
  <2>1. RunsTo(t, FALSE, <<>>, {}, {}, 0) /\ orders' = orders /\ payments' = payments
        /\ overlapped' = overlapped
    BY <1>10, Ended DEF Leaves
  <2>2. Alone
    BY <2>1 DEF PaidApart
  <2>3. DueOf(run'[t]) = {} /\ payments \cup run'[t].payments = payments
    BY <2>1, NothingDue DEF RunsTo
  <2> QED BY <1>8, <2>1, <2>2, <2>3 DEF RunsTo, Alone
<1>11. ASSUME NEW t \in Tx, NEW p \in Payment, NEW E \in SUBSET Entry, Pays(t, p, E) PROVE Alone'
  <2>1. /\ RunsTo(t, run[t].open, run[t].todo, run[t].payments \cup {p}, run[t].entries \cup E, p.order)
        /\ orders' = orders /\ payments' = payments /\ overlapped' = overlapped
        /\ run[t].todo # <<>> /\ run[t].touch = 0 /\ p.order = run[t].todo[1].item
        /\ PaidOn(t, p.order) = 0 => p.amount = orders[p.order].total
    BY <1>11, HasPaid DEF Pays
  <2>2. Alone
    BY <2>1 DEF PaidApart
  <2>3. run[t].open /\ \A u \in Tx \ {t} : ~run[u].open
    <3>1. run[t].open
      BY <2>1 DEF Runs, RunOk
    <3> QED BY <2>2, <3>1, OthersWait
  <2>4. PICK r : r = run'[t]
    OBVIOUS
  <2>5. r.todo = run[t].todo /\ r.touch = p.order /\ r.payments = run[t].payments \cup {p}
    BY <2>1, <2>4 DEF RunsTo
  <2>6. p.order \in DueOf(run[t]) /\ DueOf(r) \subseteq DueOf(run[t]) /\ p.order \notin DueOf(r)
    BY <2>1, <2>5, DueAfterPay
  <2>7. Apart(orders, Sees(t), DueOf(run[t]))
    BY <2>2 DEF Alone
  <2>8. p.amount = orders[p.order].total
    <3>1. \A q \in Sees(t) : q.order # p.order
      BY <2>6, <2>7 DEF Apart
    <3> QED BY <2>1, <3>1, PaidOnIs
  <2>9. Apart(orders, Sees(t) \cup {p}, DueOf(r))
    BY <2>6, <2>7, <2>8, ApartPaid
  <2>10. payments \cup r.payments = Sees(t) \cup {p}
    BY <2>5 DEF Sees
  <2> QED BY <1>8, <2>1, <2>2, <2>3, <2>4, <2>9, <2>10 DEF RunsTo
<1>12. ASSUME NEW t \in Tx, Turns(t) PROVE Alone'
  <2>1. /\ RunsTo(t, run[t].open, Tail(run[t].todo), run[t].payments, run[t].entries, 0)
        /\ orders' = orders /\ payments' = payments /\ overlapped' = overlapped
        /\ run[t].todo # <<>>
    BY <1>12, Turned DEF Turns
  <2>2. Alone
    BY <2>1 DEF PaidApart
  <2>3. run[t].open /\ \A u \in Tx \ {t} : ~run[u].open
    <3>1. run[t].open
      BY <2>1 DEF Runs, RunOk
    <3> QED BY <2>2, <3>1, OthersWait
  <2>4. PICK r : r = run'[t]
    OBVIOUS
  <2>5. r.todo = Tail(run[t].todo) /\ payments \cup r.payments = Sees(t)
    BY <2>1, <2>4 DEF RunsTo, Sees
  <2>6. DueOf(r) \subseteq DueOf(run[t])
    BY <2>1, <2>5, DueAfterTurn
  <2>7. Apart(orders, Sees(t), DueOf(r))
    BY <1>1, <2>2, <2>6, ApartLess DEF Alone
  <2> QED BY <1>8, <2>1, <2>2, <2>3, <2>4, <2>5, <2>7 DEF RunsTo
<1>13. ASSUME NEW t \in Tx, Commits(t) PROVE Alone'
  <2>1. RunsTo(t, FALSE, <<>>, {}, {}, 0) /\ orders' = orders /\ payments' = Sees(t)
        /\ overlapped' = overlapped /\ run[t].open
    BY <1>13, Ended DEF Commits, Sees
  <2>2. Alone
    BY <2>1 DEF PaidApart
  <2>3. Apart(orders, Sees(t), {})
    BY <1>1, <2>2, ApartLess DEF Alone
  <2>4. run'[t].open = FALSE /\ run'[t].payments = {} /\ DueOf(run'[t]) = {}
    BY <2>1, NothingDue DEF RunsTo
  <2>5. ASSUME NEW u \in Tx \ {t}
        PROVE  ~run'[u].open /\ run'[u].payments = {} /\ DueOf(run'[u]) = {}
    <3>1. run'[u] = run[u]
      BY <2>1 DEF RunsTo
    <3>2. ~run[u].open /\ run[u].payments = {} /\ DueOf(run[u]) = {}
      BY <2>1, <2>2, OthersWait, NothingDue
    <3> QED BY <3>1, <3>2
  <2>6. \A u \in Tx : ~run'[u].open /\ Sees(u)' = Sees(t) /\ DueOf(run'[u]) = {}
    BY <2>1, <2>4, <2>5 DEF Sees
  <2> QED BY <2>1, <2>3, <2>6 DEF Alone
<1> QED BY <1>4, <1>6, <1>7, <1>9, <1>10, <1>11, <1>12, <1>13, PlacesSo, BeginsSo, LeavesSo, PaysSo,
          TurnsSo, CommitsSo DEF ServerNext, AbortAllocation
-----------------------------------------------------------------------------
(* The invariant *)

\* The checkout leaves the server alone.
LEMMA ServerStays == ASSUME ServerTyped, BooksInv, UNCHANGED serverVars PROVE ServerTyped' /\ BooksInv'
<1> USE DEF serverVars
<1>1. ServerTyped'
  BY DEF ServerTyped
<1>2. Runs' /\ Numbered' /\ Paid'
  BY DEF BooksInv, Runs, RunOk, OfCredit, Numbered, Paid, CashFor
<1>3. Explained' /\ OneEach' /\ SalesPosted'
  BY DEF BooksInv, Explained, Origin, OfCredit, SaleOf, OneEach, SalesPosted, SalePosted, CashFor
<1>4. PaidApart'
  BY DEF BooksInv, PaidApart, Alone, Sees
<1> QED BY <1>1, <1>2, <1>3, <1>4 DEF BooksInv

\* The server answers requests and sells what is in them.
LEMMA ClientByServer ==
    ASSUME ClientInv, AgreedAlways, ServerTyped, Runs, ServerNext PROVE ClientInv' /\ AgreedAlways'
<1>1. ASSUME NEW r \in DOMAIN req, NEW outcome \in {"credit", "posted", "unlisted", "unsettled"},
             Places(r, outcome)
      PROVE  ClientInv' /\ AgreedAlways'
  <2>1. PICK o, p, sale, P, J, M :
          /\ o \in Nat /\ p \in Payment /\ sale \in Entry
          /\ PlacedAs(o, p, sale, req[r].lines, P, J, M)
    BY <1>1, Placed
  <2>2. /\ req[r].state = "sent" /\ Answer(r, "created")
        /\ UNCHANGED <<cart, stored, basket, phase, drifted>>
    BY <1>1 DEF Places
  <2>3. ClientInv' /\ DOMAIN req' = DOMAIN req /\ \A q \in DOMAIN req : req'[q].lines = req[q].lines
    BY <2>2, Answers
  <2>4. /\ OrdersGrow /\ DOMAIN orders' = DOMAIN orders \cup {o} /\ orders'[o].lines = req[r].lines
    BY <2>1 DEF PlacedAs
  <2>5. AgreedAlways'
    BY <2>2, <2>3, <2>4 DEF AgreedAlways, OrdersGrow, Agreed
  <2> QED BY <2>3, <2>5
<1>2. ASSUME NEW r \in DOMAIN req, RefuseOrder(r) PROVE ClientInv' /\ AgreedAlways'
  <2>1. /\ req[r].state = "sent" /\ Answer(r, "refused") /\ orders' = orders
        /\ UNCHANGED <<cart, stored, basket, phase, drifted>>
    BY <1>2 DEF RefuseOrder, serverVars
  <2>2. ClientInv' /\ DOMAIN req' = DOMAIN req /\ \A q \in DOMAIN req : req'[q].lines = req[q].lines
    BY <2>1, Answers
  <2>3. AgreedAlways'
    BY <2>1, <2>2 DEF AgreedAlways, Agreed
  <2> QED BY <2>2, <2>3
<1>3. ASSUME UNCHANGED clientVars, orders' = orders PROVE ClientInv' /\ AgreedAlways'
  BY <1>3 DEF clientVars, ClientInv, ClientTyped, Waiting, BasketsEnd, Sold, AgreedAlways, Agreed
<1>4. ASSUME NEW p \in events, Handle(p) \/ HandleFails(p) PROVE ClientInv' /\ AgreedAlways'
  BY <1>3, <1>4 DEF Handle, HandleFails
<1>5. ASSUME NEW t \in Tx, \/ \E todo \in Seq(Part) : Begins(t, todo)
                           \/ Leaves(t) \/ Turns(t) \/ Commits(t)
                           \/ \E p \in Payment, E \in SUBSET Entry : Pays(t, p, E)
      PROVE  ClientInv' /\ AgreedAlways'
  BY <1>3, <1>5 DEF Begins, Leaves, Turns, Pays, Commits
<1> QED BY <1>1, <1>2, <1>4, <1>5, PlacesSo, BeginsSo, LeavesSo, PaysSo,
          TurnsSo, CommitsSo DEF ServerNext, AbortAllocation

\* The invariant holds at first.
LEMMA Initially == ASSUME Init PROVE IInv
<1> USE DEF Init, ClientInit
<1>1. ClientInv
  <2>1. req \in Seq(Sent) /\ Len(req) = 0 /\ DOMAIN req = {}
    BY EmptySeq
  <2>2. ClientTyped
    <3>1. cart \in Lines /\ stored \in Lines /\ basket \in Nat /\ drifted \in BOOLEAN
      BY LinesTyped
    <3>2. phase \in Phases /\ Len(req) <= MaxRequests
      BY <2>1 DEF Phases
    <3> HIDE DEF Init, ClientInit
    <3> QED BY <2>1, <3>1, <3>2 DEF ClientTyped
  <2>3. Waiting /\ BasketsEnd
    BY <2>1 DEF Waiting, BasketsEnd
  <2> QED BY <2>2, <2>3 DEF ClientInv
<1>2. DOMAIN orders = {} /\ orders \in Seq(Order)
  BY EmptySeq
<1>3. AgreedAlways
  <2>1. DOMAIN req = {}
    BY EmptySeq
  <2> QED BY <1>2, <2>1, LinesTyped DEF AgreedAlways
<1>4. \A t \in Tx : /\ run[t].open = FALSE /\ run[t].todo = <<>> /\ run[t].payments = {}
                    /\ run[t].entries = {} /\ run[t].touch = 0
  BY DEF Idle
<1>5. ServerTyped
  <2>1. Idle \in Run
    BY EmptySeq DEF Idle, Run
  <2>2. run \in [Tx -> Run]
    BY <2>1
  <2> QED BY <1>2, <1>4, <2>2, FS_EmptySet DEF ServerTyped
<1>6. Runs
  BY <1>4, RunOver DEF Runs
<1>7. Numbered /\ Paid /\ Explained /\ OneEach /\ SalesPosted
  BY <1>2, <1>4 DEF Numbered, Paid, Explained, OneEach, SalesPosted
<1>8. PaidApart
  BY <1>4, NothingDue DEF PaidApart, Alone, Apart, Sees
<1> QED BY <1>1, <1>3, <1>5, <1>6, <1>7, <1>8 DEF IInv, BooksInv

\* Every step keeps it.
LEMMA Steps == ASSUME IInv, [Next]_vars PROVE IInv'
<1>1. ClientInv /\ AgreedAlways /\ ServerTyped /\ BooksInv
  BY DEF IInv
<1>2. CASE ClientNext /\ UNCHANGED serverVars
  <2>1. ClientInv'
    BY <1>1, <1>2, ClientStep
  <2>2. AgreedAlways'
    BY <1>1, <1>2, AgreedStep DEF serverVars
  <2> QED BY <1>1, <1>2, <2>1, <2>2, ServerStays DEF IInv
<1>3. CASE ServerNext
  <2>1. ClientInv' /\ AgreedAlways'
    BY <1>1, <1>3, ClientByServer DEF BooksInv
  <2>2. ServerTyped'
    BY <1>1, <1>3, TypedStep DEF BooksInv
  <2>3. Runs' /\ Numbered' /\ Paid'
    BY <1>1, <1>3, RunsStep, NumberedStep, PaidStep DEF BooksInv
  <2>4. Explained' /\ OneEach' /\ SalesPosted' /\ PaidApart'
    BY <1>1, <1>3, ExplainedStep, OneEachStep, SalesPostedStep, PaidApartStep DEF BooksInv
  <2> QED BY <2>1, <2>2, <2>3, <2>4 DEF IInv, BooksInv
<1>4. CASE UNCHANGED vars
  <2>1. UNCHANGED clientVars /\ UNCHANGED serverVars
    BY <1>4 DEF vars
  <2>2. ClientInv' /\ AgreedAlways'
    BY <1>1, <2>1 DEF clientVars, serverVars, ClientInv, ClientTyped, Waiting, BasketsEnd, Sold,
                      AgreedAlways, Agreed
  <2> QED BY <1>1, <2>1, <2>2, ServerStays DEF IInv
<1> QED BY <1>2, <1>3, <1>4 DEF Next

\* The inductive invariant of the checkout, the orders, the allocations and the
\* safety net.
THEOREM Invariance == Spec => []IInv
<1>1. Init => IInv
  BY Initially
<1>2. IInv /\ [Next]_vars => IInv'
  BY Steps
<1> QED BY <1>1, <1>2, PTL DEF Spec
\* One basket is sold twice only when the page gave up on the first request
\* without hearing of it: two decided checkouts of a basket mean a lost answer.
THEOREM BasketsSoldOnce == Spec => []OneOrderPerBasket
<1>1. ASSUME IInv PROVE OneOrderPerBasket
  <2>1. ClientInv
    BY <1>1 DEF IInv
  <2>2. ASSUME NEW r \in DOMAIN req, NEW s \in DOMAIN req, r < s, req[r].state = "created",
               req[s].state = "created", req[r].basket = req[s].basket
        PROVE  Abandoned(r)
    <3>1. /\ req[r].page \in {"waits", "heard", "gone"} /\ req[r].basket \in Nat
          /\ DOMAIN req = 1..Len(req) /\ Len(req) \in Nat
      BY <2>1, Reqs DEF ClientInv
    <3>2. req[r].page # "waits"
      BY <2>1, <2>2, <3>1 DEF ClientInv, Waiting
    <3>3. req[r].page # "heard"
      <4> SUFFICES ASSUME req[r].page = "heard" PROVE FALSE
        OBVIOUS
      <4>1. req[r].basket < req[s].basket
        BY <2>1, <2>2 DEF ClientInv, BasketsEnd, Sold
      <4> QED BY <2>2, <3>1, <4>1
    <3> QED BY <3>1, <3>2, <3>3 DEF Abandoned
  <2> QED BY <2>2 DEF OneOrderPerBasket
<1> QED BY <1>1, Invariance, PTL

\* A price agreed by hand is recorded with an order only for the quantity it was
\* agreed for, unless one of the three ways the code lets it outlive that quantity
\* was taken.
THEOREM PricesAreAgreed == Spec => []PriceAgreed
<1>1. ASSUME IInv PROVE PriceAgreed
  BY <1>1 DEF IInv, AgreedAlways, Agreed, PriceAgreed
<1> QED BY <1>1, Invariance, PTL

\* The sale of an order is in the books as revenue once, whether createOrder or
\* the safety net posted it.
THEOREM RevenueCountedOnce == Spec => []RevenueOnce
<1>1. ASSUME IInv PROVE RevenueOnce
  <2>1. /\ ServerTyped /\ Runs /\ Paid /\ Explained /\ SalesPosted
        /\ journal \subseteq Entry /\ IsFiniteSet(journal) /\ payments \subseteq Payment
    BY <1>1 DEF IInv, BooksInv, ServerTyped
  <2> SUFFICES ASSUME NEW o \in DOMAIN orders
               PROVE  IF orders[o].kind = "cash"
                      THEN \/ Revenue(o) = orders[o].total
                           \/ Revenue(o) = 0 /\ (o \in missed \/ \E p \in events : p.order = o)
                      ELSE Revenue(o) = orders[o].total
                           \/ \E p \in payments \ events : p.order = o
    BY DEF RevenueOnce
  <2> DEFINE S == Credits(journal, "SALES", o)
  <2>2. /\ IsFiniteSet(S) /\ \A e \in S : e \in journal /\ e.cr = "SALES" /\ e.party = o
        /\ \A e \in S : e.amount \in Nat
    <3>1. S \subseteq journal /\ \A e \in S : e.cr = "SALES" /\ e.party = o
      BY DEF Credits
    <3> HIDE DEF S
    <3> QED BY <2>1, <3>1, FS_Subset, Fields
  <2>3. \A e \in journal : (e.cr = "SALES" /\ e.party = o) => e \in S
    BY DEF Credits
  <2>4. Revenue(o) = Total(S)
    BY DEF Revenue
  <2> HIDE DEF S
  <2>5. /\ S = {} => Revenue(o) = 0
        /\ \A x : S = {x} => Revenue(o) = x.amount
    BY <2>2, <2>4, TotalOfEntries
  <2>6. o \in Nat /\ orders[o].total \in Nat /\ orders[o].kind \in {"cash", "credit"}
    BY <2>1, OrderIs DEF SaleKinds
  <2>7. ASSUME NEW e \in S
        PROVE  \/ orders[o].kind = "credit" /\ e = SaleOf(o)
               \/ \E p \in payments : p.order = o /\ e = EntryFor(p) /\ (OfCredit(p) => p \notin events)
    <3>1. Origin(e) /\ e.cr = "SALES" /\ e.party = o
      BY <2>1, <2>2 DEF Explained
    <3>2. CASE \E k \in DOMAIN orders : orders[k].kind = "credit" /\ e = SaleOf(k)
      <4>1. PICK k \in DOMAIN orders : orders[k].kind = "credit" /\ e = SaleOf(k)
        BY <3>2
      <4>2. k \in Nat /\ orders[k].total \in Nat
        BY <2>1, OrderIs
      <4>3. e.party = k
        BY <4>1, <4>2, SaleOk DEF SaleOf
      <4> QED BY <3>1, <4>1, <4>3
    <3>3. CASE \E p \in payments : e = EntryFor(p) /\ (OfCredit(p) => p \notin events)
      <4>1. PICK p \in payments : e = EntryFor(p) /\ (OfCredit(p) => p \notin events)
        BY <3>3
      <4>2. e.party = p.order
        BY <2>1, <4>1, EntryOk
      <4> QED BY <3>1, <4>1, <4>2
    <3>4. CASE PaidFrom(payments, e)
      <4>1. PICK p \in payments : e = Allocated(p, e.amount)
        BY <3>4 DEF PaidFrom
      <4>2. e.cr = "ACCOUNTS_RECEIVABLE"
        BY <2>1, <4>1, AllocatedId
      <4> QED BY <3>1, <4>2
    <3> QED BY <3>1, <3>2, <3>3, <3>4 DEF Origin
  <2>8. CASE orders[o].kind = "cash"
    <3>1. PICK p : p = CashFor(o)
      OBVIOUS
    <3>2. p \in Payment /\ p.order = o /\ p.amount = orders[o].total
      BY <2>6, <3>1 DEF CashFor, Payment
    <3>3. \A e \in S : e = EntryFor(p)
      <4> TAKE e \in S
      <4>1. PICK q \in payments : q.order = o /\ e = EntryFor(q)
        BY <2>7, <2>8
      <4>2. q = p
        BY <2>1, <2>8, <3>1, <4>1 DEF Paid, OfCredit
      <4> QED BY <4>1, <4>2
    <3>4. CASE EntryFor(p) \in journal
      <4>1. EntryFor(p).cr = "SALES" /\ EntryFor(p).party = o /\ EntryFor(p).amount = orders[o].total
        BY <3>2, EntryOk
      <4>2. S = {EntryFor(p)}
        BY <2>3, <3>3, <3>4, <4>1
      <4> QED BY <2>5, <2>8, <4>1, <4>2
    <3>5. CASE EntryFor(p) \notin journal
      <4>1. S = {}
        BY <2>2, <3>3, <3>5
      <4>2. o \in missed \/ p \in events
        BY <2>1, <2>8, <3>1, <3>5 DEF SalesPosted, SalePosted
      <4> QED BY <2>5, <2>8, <3>2, <4>1, <4>2
    <3> QED BY <3>4, <3>5
  <2>9. CASE orders[o].kind = "credit" /\ ~ \E p \in payments \ events : p.order = o
    <3>1. PICK e \in journal : e = SaleOf(o)
      BY <2>1, <2>9 DEF SalesPosted, SalePosted
    <3>2. e.cr = "SALES" /\ e.party = o /\ e.amount = orders[o].total
      BY <2>6, <3>1, SaleOk DEF SaleOf
    <3>3. \A f \in S : f = e
      BY <2>7, <2>9, <3>1 DEF OfCredit
    <3>4. S = {e}
      BY <2>3, <3>2, <3>3
    <3> QED BY <2>5, <2>9, <3>2, <3>4
  <2> QED BY <2>6, <2>8, <2>9
<1> QED BY <1>1, Invariance, PTL
\* The books never say more was collected on a credit order than was settled, and
\* an order is paid once unless two allocations were open at once.
THEOREM OrdersPaidOnce == Spec => []PaidOnce
<1>1. ASSUME IInv PROVE PaidOnce
  <2>1. /\ ServerTyped /\ Runs /\ Paid /\ Explained /\ OneEach /\ PaidApart
        /\ journal \subseteq Entry /\ IsFiniteSet(journal)
        /\ payments \subseteq Payment /\ IsFiniteSet(payments)
    BY <1>1 DEF IInv, BooksInv, ServerTyped
  <2> SUFFICES ASSUME NEW o \in DOMAIN orders, orders[o].kind = "credit"
               PROVE  /\ Total(Credits(journal, "ACCOUNTS_RECEIVABLE", o)) <= Collected(o)
                      /\ overlapped \/ Collected(o) <= orders[o].total
    BY DEF PaidOnce
  <2> DEFINE S == Credits(journal, "ACCOUNTS_RECEIVABLE", o)
             T == {p \in payments : p.order = o}
  <2>2. /\ IsFiniteSet(S) /\ \A e \in S : e.amount \in Nat
        /\ \A e \in S : e \in journal /\ e.cr = "ACCOUNTS_RECEIVABLE" /\ e.party = o
    <3>1. S \subseteq journal /\ \A e \in S : e.cr = "ACCOUNTS_RECEIVABLE" /\ e.party = o
      BY DEF Credits
    <3> HIDE DEF S
    <3> QED BY <2>1, <3>1, FS_Subset, Fields
  <2>3. /\ IsFiniteSet(T) /\ \A p \in T : p \in payments /\ p.amount \in Nat /\ p.order = o
        /\ \A p \in payments : p.order = o => p \in T
    BY <2>1, Fields, FS_Subset
  <2>4. Collected(o) = SumOf(T)
    BY DEF Collected
  <2> HIDE DEF S, T
  <2>5. ASSUME NEW e \in S
        PROVE  \E p \in T : Source(e) = <<"PaymentAllocation", PaymentId(p)>> /\ e.amount <= p.amount
    <3>1. Origin(e) /\ e.cr = "ACCOUNTS_RECEIVABLE" /\ e.party = o
      BY <2>1, <2>2 DEF Explained
    <3>2. CASE \E k \in DOMAIN orders : orders[k].kind = "credit" /\ e = SaleOf(k)
      <4>1. PICK k \in DOMAIN orders : e = SaleOf(k)
        BY <3>2
      <4>2. k \in Nat /\ orders[k].total \in Nat
        BY <2>1, OrderIs
      <4>3. e.cr = "SALES"
        BY <4>1, <4>2, SaleOk DEF SaleOf
      <4> QED BY <3>1, <4>3
    <3>3. CASE \E p \in payments : e = EntryFor(p) /\ (OfCredit(p) => p \notin events)
      <4>1. PICK p \in payments : e = EntryFor(p)
        BY <3>3
      <4>2. e.cr = "SALES"
        BY <2>1, <4>1, EntryOk
      <4> QED BY <3>1, <4>2
    <3>4. CASE PaidFrom(payments, e)
      <4>1. PICK p \in payments : e = Allocated(p, e.amount) /\ e.amount <= p.amount
        BY <3>4 DEF PaidFrom
      <4>2. PICK a : a = e.amount
        OBVIOUS
      <4>3. e = Allocated(p, a) /\ p \in Payment
        BY <2>1, <4>1, <4>2
      <4>4. e.party = p.order /\ Source(e) = <<"PaymentAllocation", PaymentId(p)>>
        BY <4>3, AllocatedId
      <4> QED BY <2>3, <3>1, <4>1, <4>4
    <3> QED BY <3>1, <3>2, <3>3, <3>4 DEF Origin
  <2>6. Total(S) <= Collected(o)
    <3> DEFINE m == [e \in S |-> CHOOSE p \in T : Source(e) = <<"PaymentAllocation", PaymentId(p)>>
                                                  /\ e.amount <= p.amount]
    <3>1. \A e \in S : /\ m[e] \in T /\ Source(e) = <<"PaymentAllocation", PaymentId(m[e])>>
                       /\ e.amount <= m[e].amount
      BY <2>5
    <3> HIDE DEF m
    <3>2. \A e, f \in S : m[e] = m[f] => e = f
      BY <2>1, <2>2, <3>1 DEF OneEach
    <3>3. PICK f, g : f = Amounts(S) /\ g = Amounts(T)
      OBVIOUS
    <3>4. SumOver(f, S) <= SumOver(g, T)
      <4>1. (\A e \in S : f[e] = e.amount) /\ (\A p \in T : g[p] = p.amount)
        BY <3>3 DEF Amounts
      <4>2. ASSUME NEW e \in S PROVE f[e] \in Nat /\ m[e] \in T /\ f[e] <= g[m[e]]
        <5>1. m[e] \in T /\ e.amount <= m[e].amount
          BY <3>1
        <5>2. f[e] = e.amount /\ g[m[e]] = m[e].amount /\ e.amount \in Nat
          BY <2>2, <4>1, <5>1
        <5> QED BY <5>1, <5>2
      <4>3. \A p \in T : g[p] \in Nat
        BY <2>3, <4>1
      <4> QED BY <2>2, <2>3, <3>2, <4>2, <4>3, SumInto
    <3>5. Total(S) = SumOver(Amounts(S), S) /\ SumOf(T) = SumOver(Amounts(T), T)
      BY <2>2, <2>3, TotalOfEntries, SumOfPayments
    <3> QED BY <2>4, <3>3, <3>4, <3>5
  <2>7. ASSUME ~overlapped PROVE Collected(o) <= orders[o].total
    <3>1. Apart(orders, payments, {}) /\ orders[o].total \in Nat
      BY <2>1, <2>7, OrderIs DEF PaidApart, Alone
    <3>2. CASE T = {}
      BY <2>3, <2>4, <3>1, <3>2, SumOfPayments
    <3>3. CASE T # {}
      <4>1. PICK p \in T : TRUE
        BY <3>3
      <4>2. p.amount = orders[o].total /\ \A q \in T : q = p
        BY <2>3, <3>1, <4>1 DEF Apart
      <4>3. T = {p}
        BY <4>1, <4>2
      <4> QED BY <2>3, <2>4, <3>1, <4>2, <4>3, SumOfPayments
    <3> QED BY <3>2, <3>3
  <2>8. overlapped \/ Collected(o) <= orders[o].total
    BY <2>7
  <2> QED BY <2>6, <2>8 DEF S
<1> QED BY <1>1, Invariance, PTL

\* Orders, allocations and the safety net keep the promise of the journal: they
\* only add entries, and none for an event that has one.
THEOREM Refinement == Spec => ImplementsJournal
<1> DEFINE Appended == journal' \subseteq Entry /\ Book!Publish(journal' \ journal)
<1>1. Init => Book!Init
  BY DEF Init, Book!Init
<1>2. ASSUME IInv, IInv', [Next]_vars PROVE [Appended]_journal
  <2>1. /\ OneEach' /\ journal' \subseteq Entry
    BY <1>2 DEF IInv, BooksInv, ServerTyped
  <2>2. journal \subseteq journal'
    <3>1. ASSUME NEW r \in DOMAIN req, NEW outcome \in {"credit", "posted", "unlisted", "unsettled"},
                 Places(r, outcome)
          PROVE  journal \subseteq journal'
      <4>1. PICK o, p, sale, P, J, M :
              /\ o \in Nat /\ p \in Payment /\ sale \in Entry
              /\ PlacedAs(o, p, sale, req[r].lines, P, J, M)
        BY <1>2, <3>1, Placed DEF IInv
      <4> QED BY <4>1 DEF PlacedAs
    <3>2. ASSUME NEW r \in DOMAIN req, RefuseOrder(r) PROVE journal \subseteq journal'
      BY <3>2 DEF RefuseOrder, serverVars
    <3>3. ASSUME NEW p \in events, Handle(p) \/ HandleFails(p) PROVE journal \subseteq journal'
      BY <3>3 DEF Handle, HandleFails
    <3>4. ASSUME NEW t \in Tx, \/ \E todo \in Seq(Part) : Begins(t, todo)
                               \/ Leaves(t) \/ Turns(t) \/ Commits(t)
                               \/ \E p \in Payment, E \in SUBSET Entry : Pays(t, p, E)
          PROVE  journal \subseteq journal'
      BY <3>4 DEF Begins, Leaves, Turns, Pays, Commits
    <3>5. CASE ServerNext
      <4>1. ServerTyped /\ Runs
        BY <1>2 DEF IInv, BooksInv
      <4> QED BY <3>1, <3>2, <3>3, <3>4, <3>5, <4>1, PlacesSo, BeginsSo, LeavesSo, PaysSo,
                 TurnsSo, CommitsSo DEF ServerNext, AbortAllocation
    <3>6. CASE (ClientNext /\ UNCHANGED serverVars) \/ UNCHANGED vars
      BY <3>6 DEF serverVars, vars
    <3> QED BY <1>2, <3>5, <3>6 DEF Next
  <2>3. Book!Fresh(journal' \ journal)
    BY <2>1, <2>2 DEF OneEach, Source, Book!Fresh, Book!Key
  <2> QED BY <2>1, <2>2, <2>3 DEF Book!Publish
<1>3. IInv /\ IInv' /\ [Next]_vars => [Appended]_journal
  BY <1>2
<1> QED BY <1>1, <1>3, Invariance, PTL DEF Spec, ImplementsJournal, Book!AppendSpec
=============================================================================
