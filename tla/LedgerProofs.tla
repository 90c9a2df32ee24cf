---------------------------- MODULE LedgerProofs ----------------------------
(***************************************************************************)
(* Proofs about Ledger, for any set of transactions, requests, accounts    *)
(* and any calendar.                                                       *)
(***************************************************************************)
EXTENDS Ledger, Sums

\* What the rows of open transactions look like: every source is held by one
\* transaction and is not committed.
PendingFresh ==
    /\ \A t \in Tx : \A e \in pending[t] : \A f \in journal : Source(e) # Source(f)
    /\ \A t, u \in Tx : \A e \in pending[t] : \A f \in pending[u] :
           Source(e) = Source(f) => t = u /\ e = f

\* Only the entry whose assertion is still to run may lack its credit sale.
PendingAllocationHasSale ==
    \A t \in Tx : \A e \in pending[t] :
        \/ e.kind # "PaymentAllocation"
        \/ Debits(Visible(t), "ACCOUNTS_RECEIVABLE", e.party) # {}
        \/ pc[t] = "assert" /\ e = EntryOf(req[t][1], req[t][2])

\* A transaction that may still write into a locked period is racing the lock.
LateIsRacing ==
    \A t \in Tx :
        /\ pc[t] = "unlocked" /\ req[t][2] <= lockEnd => t \in racing
        /\ \A e \in pending[t] : e.date <= lockEnd => t \in racing

IInv ==
    /\ TypeOK
    /\ OneEntryPerSource
    /\ PendingFresh
    /\ AllocationHasSale
    /\ PendingAllocationHasSale
    /\ LateIsRacing

\* Every reachable state is well typed.
THEOREM Typing == Spec => []TypeOK
<1>1. Init => TypeOK
  BY LastDayAssumption DEF Init, TypeOK, Day
<1>2. TypeOK /\ [Next]_vars => TypeOK'
  <2> SUFFICES ASSUME TypeOK, [Next]_vars PROVE TypeOK'
    OBVIOUS
  <2> USE LastDayAssumption DEF TypeOK
  <2>1. ASSUME NEW t \in Tx, RollBack(t) PROVE TypeOK'
    BY <2>1 DEF RollBack, Goto
  <2>2. ASSUME NEW t \in Tx, NEW r \in Requests, Check(t, r) PROVE TypeOK'
    BY <2>2 DEF Check, Goto, Posting, AfterPost
  <2>3. ASSUME NEW t \in Tx, NEW r \in Requests, Reject(t, r) PROVE TypeOK'
    BY <2>1, <2>3 DEF Reject
  <2>4. ASSUME NEW t \in Tx, ReadLock(t) PROVE TypeOK'
    BY <2>1, <2>4 DEF ReadLock, Goto
  <2>5. ASSUME NEW t \in Tx, Insert(t) PROVE TypeOK'
    <3>1. CASE RollBack(t)
      BY <2>1, <3>1
    <3>2. CASE ~RollBack(t)
      <4>1. EntryOf(req[t][1], req[t][2]) \in Entry
        BY <2>5 DEF Insert, Posting, Entry
      <4>2. SharedBy(t) \subseteq Party
        BY <2>5, RequestsAssumption DEF SharedBy, Insert, Posting, Request
      <4> QED BY <2>5, <3>2, <4>1, <4>2 DEF Insert, Goto, AfterPost
    <3> QED BY <3>1, <3>2
  <2>6. ASSUME NEW t \in Tx, AssertBalance(t) PROVE TypeOK'
    BY <2>1, <2>6 DEF AssertBalance, Goto
  <2>7. ASSUME NEW t \in Tx, Commit(t) PROVE TypeOK'
    BY <2>7 DEF Commit
  <2>8. ASSUME NEW t \in Tx, Abort(t) PROVE TypeOK'
    BY <2>1, <2>8 DEF Abort
  <2>9. ASSUME NEW d \in Day, CreatePeriodLock(d) PROVE TypeOK'
    BY <2>9 DEF CreatePeriodLock, Day
  <2>10. CASE NextDay
    BY <2>10 DEF NextDay, Day
  <2>11. CASE UNCHANGED vars
    BY <2>11 DEF vars
  <2> QED
    BY <2>2, <2>3, <2>4, <2>5, <2>6, <2>7, <2>8, <2>9, <2>10, <2>11 DEF Next, Step
<1> QED BY <1>1, <1>2, PTL DEF Spec
-----------------------------------------------------------------------------
\* Undoing a transaction disturbs no part of the invariant.
LEMMA RollBackKeeps ==
    ASSUME IInv, TypeOK', NEW t \in Tx, RollBack(t)
    PROVE  IInv'
<1> USE DEF IInv, RollBack, Goto, TypeOK
<1>1. OneEntryPerSource' /\ AllocationHasSale'
  BY DEF OneEntryPerSource, AllocationHasSale, Debits, Source
<1>2. PendingFresh'
  BY DEF PendingFresh, Source
<1>3. PendingAllocationHasSale'
  BY DEF PendingAllocationHasSale, Visible, Debits
<1>4. LateIsRacing'
  BY DEF LateIsRacing
<1> QED BY <1>1, <1>2, <1>3, <1>4

LEMMA CheckKeeps ==
    ASSUME IInv, TypeOK', NEW t \in Tx, NEW r \in Requests, Check(t, r)
    PROVE  IInv'
<1> USE DEF IInv, Check, Goto, TypeOK
<1>1. OneEntryPerSource' /\ AllocationHasSale'
  BY DEF OneEntryPerSource, AllocationHasSale, Debits, Source
<1>2. PendingFresh'
  BY DEF PendingFresh, Source
<1>3. PendingAllocationHasSale'
  BY DEF PendingAllocationHasSale, Visible, Debits
<1>4. LateIsRacing'
  BY DEF LateIsRacing, AfterPost
<1> QED BY <1>1, <1>2, <1>3, <1>4

LEMMA ReadLockKeeps ==
    ASSUME IInv, TypeOK', NEW t \in Tx, ReadLock(t)
    PROVE  IInv'
<1>1. CASE RollBack(t)
  BY <1>1, RollBackKeeps
<1>2. CASE ~RollBack(t)
  <2> USE <1>2 DEF IInv, ReadLock, Goto, TypeOK
  <2>1. OneEntryPerSource' /\ AllocationHasSale'
    BY DEF OneEntryPerSource, AllocationHasSale, Debits, Source
  <2>2. PendingFresh'
    BY DEF PendingFresh, Source
  <2>3. PendingAllocationHasSale'
    BY DEF PendingAllocationHasSale, Visible, Debits
  <2>4. LateIsRacing'
    BY DEF LateIsRacing
  <2> QED BY <2>1, <2>2, <2>3, <2>4
<1> QED BY <1>1, <1>2

\* The step the unique index makes safe: no other transaction holds the source
\* and no committed entry has it.
LEMMA InsertKeeps ==
    ASSUME IInv, TypeOK', NEW t \in Tx, Insert(t)
    PROVE  IInv'
<1>1. CASE RollBack(t)
  BY <1>1, RollBackKeeps
<1>2. CASE ~RollBack(t)
  <2> DEFINE r == req[t][1]
             e == EntryOf(req[t][1], req[t][2])
  <2> USE DEF IInv, TypeOK
  <2>1. /\ \A u \in Tx \ {t} : ~Has(pending[u], r)
        /\ ~Has(journal \cup pending[t], r)
        /\ pc[t] = "unlocked" /\ pc' = [pc EXCEPT ![t] = AfterPost(r)]
        /\ pending' = [pending EXCEPT ![t] = @ \cup {e}]
        /\ \A u \in Tx : pc'[u] = "assert" \/ u # t => req'[u] = req[u]
        /\ UNCHANGED <<journal, lockEnd, today, racing>>
    BY <1>2 DEF Insert, Goto, Visible
  <2>2. Source(e) = Source(r) /\ e.kind = r.kind /\ e.date = req[t][2]
    BY DEF EntryOf, Source
  <2>3. OneEntryPerSource' /\ AllocationHasSale'
    BY <2>1 DEF OneEntryPerSource, AllocationHasSale, Debits, Source
  <2>4. PendingFresh'
    <3>1. \A f \in journal : Source(e) # Source(f)
      BY <2>1, <2>2 DEF Has
    <3>2. \A u \in Tx : \A f \in pending[u] : Source(e) # Source(f)
      BY <2>1, <2>2 DEF Has
    <3>3. \A u \in Tx : \A f \in pending'[u] : f \in pending[u] \/ (u = t /\ f = e)
      BY <2>1
    <3>4. \A x, y : (Source(x))' = Source(x)
      BY DEF Source
    <3> HIDE DEF e
    <3> QED BY <2>1, <3>1, <3>2, <3>3 DEF PendingFresh, Source
  <2>5. PendingAllocationHasSale'
    <3> SUFFICES ASSUME NEW u \in Tx, NEW f \in pending'[u], f.kind = "PaymentAllocation"
                 PROVE  \/ (Debits(Visible(u), "ACCOUNTS_RECEIVABLE", f.party))' # {}
                        \/ pc'[u] = "assert" /\ f = (EntryOf(req[u][1], req[u][2]))'
      BY DEF PendingAllocationHasSale
    <3>1. CASE u = t /\ f = e
      BY <2>1, <2>2, <3>1 DEF AfterPost, Asserted
    <3>2. CASE ~(u = t /\ f = e)
      <4>1. f \in pending[u]
        BY <2>1, <3>2
      <4>2. Debits(Visible(u), "ACCOUNTS_RECEIVABLE", f.party)
               \subseteq (Debits(Visible(u), "ACCOUNTS_RECEIVABLE", f.party))'
        BY <2>1 DEF Debits, Visible
      <4>3. pc[u] = "assert" => pc'[u] = "assert" /\ req'[u] = req[u]
        BY <2>1
      <4> QED BY <4>1, <4>2, <4>3 DEF PendingAllocationHasSale
    <3> QED BY <3>1, <3>2
  <2>6. LateIsRacing'
    BY <2>1, <2>2 DEF LateIsRacing, AfterPost
  <2> QED BY <2>3, <2>4, <2>5, <2>6
<1> QED BY <1>1, <1>2

\* The step the assertion makes safe: an order it accepts has been debited.
LEMMA AssertKeeps ==
    ASSUME IInv, TypeOK', NEW t \in Tx, AssertBalance(t)
    PROVE  IInv'
<1>1. CASE RollBack(t)
  BY <1>1, RollBackKeeps
<1>2. CASE ~RollBack(t)
  <2> USE DEF IInv, TypeOK
  <2>1. /\ pc[t] = "assert" /\ pc' = [pc EXCEPT ![t] = "open"]
        /\ \A u \in Tx \ {t} : req'[u] = req[u]
        /\ UNCHANGED <<journal, lockEnd, today, pending, racing>>
        /\ req[t][1].kind = "PaymentAllocation" =>
               ReceivableOk(Visible(t), req[t][1].party)
    BY <1>2 DEF AssertBalance, Goto
  <2>2. OneEntryPerSource' /\ AllocationHasSale'
    BY <2>1 DEF OneEntryPerSource, AllocationHasSale, Debits, Source
  <2>3. PendingFresh'
    BY <2>1 DEF PendingFresh, Source
  <2>4. PendingAllocationHasSale'
    <3> SUFFICES ASSUME NEW u \in Tx, NEW f \in pending[u], f.kind = "PaymentAllocation"
                 PROVE  \/ Debits(Visible(u), "ACCOUNTS_RECEIVABLE", f.party) # {}
                        \/ u # t /\ pc[u] = "assert" /\ f = EntryOf(req[u][1], req[u][2])
      BY <2>1 DEF PendingAllocationHasSale, Debits, Visible, EntryOf
    <3>1. CASE u = t /\ f = EntryOf(req[t][1], req[t][2])
      <4>1. f.kind = req[t][1].kind /\ f.party = req[t][1].party
        BY <3>1 DEF EntryOf
      <4>2. Total(Debits(Visible(t), "ACCOUNTS_RECEIVABLE", f.party)) # 0
        BY <2>1, <4>1 DEF ReceivableOk
      <4> QED BY <3>1, <4>2 DEF Total
    <3>2. CASE ~(u = t /\ f = EntryOf(req[t][1], req[t][2]))
      BY <2>1, <3>2 DEF PendingAllocationHasSale
    <3> QED BY <3>1, <3>2
  <2>5. LateIsRacing'
    BY <2>1 DEF LateIsRacing
  <2> QED BY <2>2, <2>3, <2>4, <2>5
<1> QED BY <1>1, <1>2

LEMMA CommitKeeps ==
    ASSUME IInv, TypeOK', NEW t \in Tx, Commit(t)
    PROVE  IInv'
<1> USE DEF IInv, TypeOK
<1>1. /\ pc[t] = "open" /\ pc' = [pc EXCEPT ![t] = "idle"]
      /\ journal' = journal \cup pending[t]
      /\ pending' = [pending EXCEPT ![t] = {}]
      /\ racing' = racing \ {t}
      /\ UNCHANGED <<lockEnd, today, req>>
  BY DEF Commit
<1>2. OneEntryPerSource'
  BY <1>1 DEF OneEntryPerSource, PendingFresh, Source
<1>3. PendingFresh'
  BY <1>1 DEF PendingFresh, Source
<1>4. AllocationHasSale'
  BY <1>1 DEF AllocationHasSale, PendingAllocationHasSale, Debits, Visible
<1>5. PendingAllocationHasSale'
  BY <1>1 DEF PendingAllocationHasSale, Debits, Visible
<1>6. LateIsRacing'
  BY <1>1 DEF LateIsRacing
<1> QED BY <1>2, <1>3, <1>4, <1>5, <1>6

LEMMA EnvironmentKeeps ==
    ASSUME IInv, TypeOK',
           (\E d \in Day : CreatePeriodLock(d)) \/ NextDay \/ UNCHANGED vars
    PROVE  IInv'
<1> USE DEF IInv, TypeOK, CreatePeriodLock, NextDay, vars
<1>1. OneEntryPerSource' /\ AllocationHasSale'
  BY DEF OneEntryPerSource, AllocationHasSale, Debits, Source
<1>2. PendingFresh'
  BY DEF PendingFresh, Source
<1>3. PendingAllocationHasSale'
  BY DEF PendingAllocationHasSale, Visible, Debits
<1>4. LateIsRacing'
  BY DEF LateIsRacing
<1> QED BY <1>1, <1>2, <1>3, <1>4

\* The inductive invariant holds in every reachable state.
THEOREM Invariance == Spec => []IInv
<1>1. Init => IInv
  <2> SUFFICES ASSUME Init PROVE IInv
    OBVIOUS
  <2>1. TypeOK
    BY LastDayAssumption DEF Init, TypeOK, Day
  <2> QED BY <2>1 DEF IInv, Init, OneEntryPerSource, PendingFresh, AllocationHasSale,
                      PendingAllocationHasSale, LateIsRacing
<1>2. IInv /\ TypeOK' /\ [Next]_vars => IInv'
  <2> SUFFICES ASSUME IInv, TypeOK', [Next]_vars PROVE IInv'
    OBVIOUS
  <2>1. ASSUME NEW t \in Tx, NEW r \in Requests, Check(t, r) PROVE IInv'
    BY <2>1, CheckKeeps
  <2>2. ASSUME NEW t \in Tx, NEW r \in Requests, Reject(t, r) PROVE IInv'
    BY <2>2, RollBackKeeps DEF Reject
  <2>3. ASSUME NEW t \in Tx, ReadLock(t) PROVE IInv'
    BY <2>3, ReadLockKeeps
  <2>4. ASSUME NEW t \in Tx, Insert(t) PROVE IInv'
    BY <2>4, InsertKeeps
  <2>5. ASSUME NEW t \in Tx, AssertBalance(t) PROVE IInv'
    BY <2>5, AssertKeeps
  <2>6. ASSUME NEW t \in Tx, Commit(t) PROVE IInv'
    BY <2>6, CommitKeeps
  <2>7. ASSUME NEW t \in Tx, Abort(t) PROVE IInv'
    BY <2>7, RollBackKeeps DEF Abort
  <2>8. CASE (\E d \in Day : CreatePeriodLock(d)) \/ NextDay \/ UNCHANGED vars
    BY <2>8, EnvironmentKeeps
  <2> QED BY <2>1, <2>2, <2>3, <2>4, <2>5, <2>6, <2>7, <2>8 DEF Next, Step
<1> QED BY <1>1, <1>2, Typing, PTL DEF Spec

\* A business event is in the books at most once, for any number of racing
\* transactions.
THEOREM PostingIsIdempotent == Spec => []OneEntryPerSource
<1>1. IInv => OneEntryPerSource
  BY DEF IInv
<1> QED BY <1>1, Invariance, PTL

\* Every committed allocation has its credit sale in the books.
THEOREM AllocationsFollowSales == Spec => []AllocationHasSale
<1>1. IInv => AllocationHasSale
  BY DEF IInv
<1> QED BY <1>1, Invariance, PTL

\* Only a transaction that raced the lock commits into a closed period.
THEOREM ClosedPeriods == Spec => ClosedPeriodOnlyRaced
<1>1. IInv /\ [Next]_vars =>
        [\A e \in journal' \ journal : e.date <= lockEnd =>
            \E t \in racing : e \in pending[t]]_vars
  <2> SUFFICES ASSUME IInv, Next, NEW e \in journal' \ journal, e.date <= lockEnd
               PROVE  \E t \in racing : e \in pending[t]
    OBVIOUS
  <2>1. PICK t \in Tx : Commit(t)
    BY DEF Next, Step, Check, Reject, RollBack, ReadLock, Insert, AssertBalance, Abort,
           CreatePeriodLock, NextDay
  <2>2. e \in pending[t]
    BY <2>1 DEF Commit
  <2> QED BY <2>2 DEF IInv, LateIsRacing
<1> QED BY <1>1, Invariance, PTL DEF Spec, ClosedPeriodOnlyRaced

\* The transactions implement the append-only journal: a commit publishes a
\* batch of fresh entries, every other step leaves the books alone.
THEOREM Refinement == Spec => ImplementsJournal
<1>1. Init => Book!Init
  BY DEF Init, Book!Init
<1>2. IInv /\ [Next]_vars => [Book!Next]_journal
  <2> SUFFICES ASSUME IInv, Next, journal' # journal
               PROVE  Book!Next
    BY DEF vars
  <2>1. PICK t \in Tx : Commit(t)
    BY DEF Next, Step, Check, Reject, RollBack, ReadLock, Insert, AssertBalance, Abort,
           CreatePeriodLock, NextDay
  <2>2. pending[t] \in SUBSET Entry
    BY DEF IInv, TypeOK
  <2>3. Book!Fresh(pending[t])
    BY DEF IInv, PendingFresh, Book!Fresh, Book!Key, Source
  <2>4. Book!Publish(pending[t])
    BY <2>1, <2>3 DEF Book!Publish, Commit
  <2> QED BY <2>2, <2>4 DEF Book!Next
<1> QED BY <1>1, <1>2, Invariance, PTL DEF Spec, ImplementsJournal, Book!Spec
-----------------------------------------------------------------------------
(* The assertions are enough for an order or supplier that no two open      *)
(* transactions hold entries of: what they accepted is what is committed.  *)

Holds(t, p) == \E e \in pending[t] : e.party = p

\* The kinds of posting that an assertion follows, and what it sees to in S.
Guarded == {"PaymentAllocation", "SupplierPayment"}

Covered(k, S, p) ==
    IF k = "PaymentAllocation"
    THEN Credits(S, "ACCOUNTS_RECEIVABLE", p) # {} => ReceivableOk(S, p)
    ELSE PayableOk(S, p)

\* The assertion of a posting of kind k for p is still to run.
Asserting(t, k, p) ==
    pc[t] = "assert" /\ req[t][1].kind = k /\ req[t][1].party = p

\* A party that is not shared has one holder, its account is covered in the
\* books, and to whoever has not still to assert it.
CoverInv ==
    \A p \in Party \ shared :
        /\ \A t, u \in Tx : Holds(t, p) /\ Holds(u, p) => t = u
        /\ \A k \in Guarded : Covered(k, journal, p)
        /\ \A k \in Guarded, t \in Tx : Covered(k, Visible(t), p) \/ Asserting(t, k, p)

\* The books and what transactions add to them are finite.
FiniteBooks == IsFiniteSet(journal) /\ \A t \in Tx : IsFiniteSet(pending[t])

\* Which entries touch receivables, by the posting policy.
LEMMA ReceivableEntries ==
    ASSUME NEW e \in Entry
    PROVE  /\ e.dr = "ACCOUNTS_RECEIVABLE" <=> e.kind = "CreditSale"
           /\ e.cr = "ACCOUNTS_RECEIVABLE" <=> e.kind = "PaymentAllocation"
           /\ e.kind = "CreditSale" => e.id = e.party
<1>1. PICK r \in Requests, d \in Day : e = EntryOf(r, d)
  BY DEF Entry
<1>2. /\ e.kind = r.kind /\ e.id = r.id /\ e.party = r.party
      /\ e.dr = DebitAccount(r) /\ e.cr = CreditAccount(r)
  BY <1>1 DEF EntryOf
<1>3. r.kind \in Kinds
  BY RequestsAssumption DEF Request
<1>4. MoneyAccount(r.method) # "ACCOUNTS_RECEIVABLE"
  BY DEF MoneyAccount
<1>5. DebitAccount(r) = "ACCOUNTS_RECEIVABLE" <=> r.kind = "CreditSale"
  BY <1>3, <1>4 DEF DebitAccount, Kinds
<1>6. CreditAccount(r) = "ACCOUNTS_RECEIVABLE" <=> r.kind = "PaymentAllocation"
  BY <1>3, <1>4 DEF CreditAccount, Kinds
<1> QED BY <1>2, <1>5, <1>6, RequestsAssumption

\* Which entries touch payables, by the posting policy.
LEMMA PayableEntries ==
    ASSUME NEW e \in Entry
    PROVE  /\ e.dr = "ACCOUNTS_PAYABLE" <=> e.kind = "SupplierPayment"
           /\ e.amount \in Nat
<1>1. PICK r \in Requests, d \in Day : e = EntryOf(r, d)
  BY DEF Entry
<1>2. e.kind = r.kind /\ e.amount = r.amount /\ e.dr = DebitAccount(r)
  BY <1>1 DEF EntryOf
<1>3. r.kind \in Kinds /\ r.amount \in Nat
  BY RequestsAssumption DEF Request
<1>4. MoneyAccount(r.method) # "ACCOUNTS_PAYABLE"
  BY DEF MoneyAccount
<1>5. DebitAccount(r) = "ACCOUNTS_PAYABLE" <=> r.kind = "SupplierPayment"
  BY <1>3, <1>4 DEF DebitAccount, Kinds
<1> QED BY <1>2, <1>3, <1>5

\* The total of entries is an amount; one more entry adds its own.
LEMMA TotalWith ==
    ASSUME NEW S, IsFiniteSet(S), \A x \in S : x.amount \in Nat
    PROVE  /\ Total(S) \in Nat
           /\ \A x : x \notin S /\ x.amount \in Nat =>
                  Total(S \cup {x}) = Total(S) + x.amount
<1>1. ASSUME NEW U, IsFiniteSet(U), \A x \in U : x.amount \in Nat
      PROVE  Total(U) = SumOver(Amounts(U), U)
  <2>1. \A x \in U : x.amount \in Int
    BY <1>1
  <2> QED BY <1>1, <2>1, AmountsSum, AmountsNat DEF Total
<1>2. Total(S) \in Nat
  BY <1>1, AmountsNat
<1>3. ASSUME NEW x, x \notin S, x.amount \in Nat
      PROVE  Total(S \cup {x}) = Total(S) + x.amount
  <2>1. IsFiniteSet(S \cup {x}) /\ \A y \in S \cup {x} : y.amount \in Nat
    BY <1>3, FS_AddElement
  <2> QED BY <1>1, <1>3, <2>1, AmountsWith
<1> QED BY <1>2, <1>3

\* A set whose entries of p are those of another is covered alike.
LEMMA CoveredByParty ==
    ASSUME NEW k, NEW S, NEW T, NEW p, \A e : e.party = p => (e \in S <=> e \in T)
    PROVE  Covered(k, S, p) <=> Covered(k, T, p)
<1>1. \A a : Debits(S, a, p) = Debits(T, a, p) /\ Credits(S, a, p) = Credits(T, a, p)
  BY DEF Debits, Credits
<1> QED BY <1>1 DEF Covered, ReceivableOk, PayableOk

\* The invariant of the next state, with the primes on the variables.
LEMMA CoverInvNext ==
    ASSUME \A p \in Party \ shared' : \A t, u \in Tx :
               (\E e \in pending'[t] : e.party = p)
               /\ (\E e \in pending'[u] : e.party = p) => t = u,
           \A p \in Party \ shared', k \in Guarded : Covered(k, journal', p),
           \A p \in Party \ shared', k \in Guarded, t \in Tx :
               \/ Covered(k, journal' \cup pending'[t], p)
               \/ /\ pc'[t] = "assert"
                  /\ req'[t][1].kind = k
                  /\ req'[t][1].party = p
    PROVE  CoverInv'
  BY DEF CoverInv, Holds, Asserting, Visible, Covered, ReceivableOk, PayableOk

LEMMA RollBackCovers ==
    ASSUME IInv, CoverInv, NEW t \in Tx, RollBack(t)
    PROVE  CoverInv'
<1>1. /\ journal' = journal /\ shared' = shared
      /\ journal' \cup pending'[t] = journal /\ pending'[t] = {}
      /\ \A u \in Tx \ {t} : pending'[u] = pending[u] /\ pc'[u] = pc[u] /\ req'[u] = req[u]
  BY DEF RollBack, Goto, IInv, TypeOK
<1>2. \A p \in Party \ shared' : \A v, u \in Tx :
          (\E e \in pending'[v] : e.party = p)
          /\ (\E e \in pending'[u] : e.party = p) => v = u
  BY <1>1 DEF CoverInv, Holds
<1>3. \A p \in Party \ shared', k \in Guarded : Covered(k, journal', p)
  BY <1>1 DEF CoverInv
<1>4. \A p \in Party \ shared', k \in Guarded, u \in Tx :
          \/ Covered(k, journal' \cup pending'[u], p)
          \/ /\ pc'[u] = "assert"
             /\ req'[u][1].kind = k
             /\ req'[u][1].party = p
  <2> SUFFICES ASSUME NEW p \in Party \ shared, NEW k \in Guarded, NEW u \in Tx
               PROVE  \/ Covered(k, journal' \cup pending'[u], p)
                      \/ u # t /\ Asserting(u, k, p)
    BY <1>1 DEF Asserting
  <2>1. CASE u = t
    <3>1. Covered(k, journal, p)
      BY DEF CoverInv
    <3> QED BY <1>1, <2>1, <3>1
  <2>2. CASE u # t
    <3>1. journal' \cup pending'[u] = Visible(u)
      BY <1>1, <2>2 DEF Visible
    <3>2. Covered(k, Visible(u), p) \/ Asserting(u, k, p)
      BY DEF CoverInv
    <3> QED BY <2>2, <3>1, <3>2
  <2> QED BY <2>1, <2>2
<1> QED BY <1>2, <1>3, <1>4, CoverInvNext

\* Steps of t that write nothing keep every order covered, if t is not left
\* with an order it has still to assert.
LEMMA QuietCovers ==
    ASSUME IInv, CoverInv, NEW t \in Tx,
           UNCHANGED <<journal, pending, shared>>,
           \A u \in Tx \ {t} : pc'[u] = pc[u] /\ req'[u] = req[u],
           \A p \in Party \ shared, k \in Guarded : Covered(k, Visible(t), p)
    PROVE  CoverInv'
<1>1. \A p \in Party \ shared' : \A v, u \in Tx :
          (\E e \in pending'[v] : e.party = p)
          /\ (\E e \in pending'[u] : e.party = p) => v = u
  BY DEF CoverInv, Holds
<1>2. \A p \in Party \ shared', k \in Guarded : Covered(k, journal', p)
  BY DEF CoverInv
<1>3. \A p \in Party \ shared', k \in Guarded, u \in Tx :
          \/ Covered(k, journal' \cup pending'[u], p)
          \/ /\ pc'[u] = "assert"
             /\ req'[u][1].kind = k
             /\ req'[u][1].party = p
  <2> SUFFICES ASSUME NEW p \in Party \ shared, NEW k \in Guarded, NEW u \in Tx
               PROVE  \/ Covered(k, Visible(u), p)
                      \/ /\ pc'[u] = "assert"
                         /\ req'[u][1].kind = k
                         /\ req'[u][1].party = p
    BY DEF Visible
  <2>1. CASE u = t
    BY <2>1
  <2>2. CASE u # t
    <3>1. pc'[u] = pc[u] /\ req'[u] = req[u]
      BY <2>2
    <3>2. Covered(k, Visible(u), p) \/ Asserting(u, k, p)
      BY DEF CoverInv
    <3> QED BY <3>1, <3>2 DEF Asserting
  <2> QED BY <2>1, <2>2
<1> QED BY <1>1, <1>2, <1>3, CoverInvNext

\* What t inserts is covered, or still to be asserted: a second credit sale of
\* an order would have the source of the first.
LEMMA InsertReceivable ==
    ASSUME IInv, CoverInv, NEW t \in Tx, Insert(t), ~RollBack(t),
           NEW p \in Party \ shared
    PROVE  \/ Covered("PaymentAllocation", journal' \cup pending'[t], p)
           \/ /\ pc'[t] = "assert"
              /\ req'[t][1].kind = "PaymentAllocation"
              /\ req'[t][1].party = p
<1> DEFINE r == req[t][1]
           e == EntryOf(req[t][1], req[t][2])
           S == journal \cup pending[t]
           T == journal' \cup pending'[t]
<1>1. /\ pc[t] = "unlocked" /\ pc'[t] = AfterPost(r)
      /\ AfterPost(r) = "assert" => req'[t] = req[t]
      /\ T = S \cup {e} /\ ~Has(S, r)
  BY DEF Insert, Goto, Visible, IInv, TypeOK
<1>2. e \in Entry /\ S \subseteq Entry
  BY <1>1 DEF IInv, TypeOK, Posting, Entry
<1>3. e.kind = r.kind /\ e.party = r.party /\ Source(e) = Source(r)
  BY DEF EntryOf, Source
<1>5. Covered("PaymentAllocation", S, p)
  BY <1>1 DEF CoverInv, Asserting, Visible, Guarded
<1> HIDE DEF r, e, S, T
<1>6. CASE e.kind = "PaymentAllocation" /\ e.party = p
  BY <1>1, <1>3, <1>6 DEF AfterPost, Asserted, r
<1>7. CASE e.kind = "CreditSale" /\ e.party = p
  <2>1. Debits(S, "ACCOUNTS_RECEIVABLE", p) = {}
    <3> SUFFICES ASSUME NEW f \in S, f.dr = "ACCOUNTS_RECEIVABLE", f.party = p
                 PROVE  FALSE
      BY DEF Debits
    <3>1. f.kind = "CreditSale" /\ f.id = p /\ e.id = p
      BY <1>2, <1>7, ReceivableEntries
    <3>2. Source(f) = Source(r)
      BY <1>3, <1>7, <3>1 DEF Source
    <3> QED BY <1>1, <3>2 DEF Has
  <2>2. Credits(S, "ACCOUNTS_RECEIVABLE", p) = {}
    <3> SUFFICES ASSUME Credits(S, "ACCOUNTS_RECEIVABLE", p) # {} PROVE FALSE
      OBVIOUS
    <3>1. Total(Debits(S, "ACCOUNTS_RECEIVABLE", p)) # 0
      BY <1>5 DEF Covered, ReceivableOk
    <3> QED BY <2>1, <3>1 DEF Total
  <2>3. e.cr # "ACCOUNTS_RECEIVABLE"
    BY <1>2, <1>7, ReceivableEntries
  <2>4. Credits(T, "ACCOUNTS_RECEIVABLE", p) = {}
    BY <1>1, <2>2, <2>3 DEF Credits
  <2> QED BY <2>4 DEF Covered, T
<1>8. CASE ~(e.kind \in {"PaymentAllocation", "CreditSale"} /\ e.party = p)
  <2>1. ~(e.dr = "ACCOUNTS_RECEIVABLE" /\ e.party = p)
        /\ ~(e.cr = "ACCOUNTS_RECEIVABLE" /\ e.party = p)
    BY <1>2, <1>8, ReceivableEntries
  <2>2. Debits(S, "ACCOUNTS_RECEIVABLE", p) = Debits(T, "ACCOUNTS_RECEIVABLE", p)
    BY <1>1, <2>1 DEF Debits
  <2>3. Credits(S, "ACCOUNTS_RECEIVABLE", p) = Credits(T, "ACCOUNTS_RECEIVABLE", p)
    BY <1>1, <2>1 DEF Credits
  <2>4. Covered("PaymentAllocation", T, p)
    BY <1>5, <2>2, <2>3 DEF Covered, ReceivableOk
  <2> QED BY <2>4 DEF T
<1> QED BY <1>6, <1>7, <1>8

\* What a supplier is owed only grows by what is not a payment to it.
LEMMA InsertPayable ==
    ASSUME IInv, FiniteBooks, CoverInv, NEW t \in Tx, Insert(t), ~RollBack(t),
           NEW p \in Party \ shared
    PROVE  \/ Covered("SupplierPayment", journal' \cup pending'[t], p)
           \/ /\ pc'[t] = "assert"
              /\ req'[t][1].kind = "SupplierPayment"
              /\ req'[t][1].party = p
<1> DEFINE r == req[t][1]
           e == EntryOf(req[t][1], req[t][2])
           S == journal \cup pending[t]
           T == journal' \cup pending'[t]
           owed == Credits(S, "ACCOUNTS_PAYABLE", p)
<1>1. /\ pc[t] = "unlocked" /\ pc'[t] = AfterPost(r)
      /\ AfterPost(r) = "assert" => req'[t] = req[t]
      /\ T = S \cup {e} /\ ~Has(S, r)
  BY DEF Insert, Goto, Visible, IInv, TypeOK
<1>2. e \in Entry /\ S \subseteq Entry /\ IsFiniteSet(S)
  <2>1. e \in Entry /\ S \subseteq Entry
    BY <1>1 DEF IInv, TypeOK, Posting, Entry
  <2>2. IsFiniteSet(S)
    BY FS_Union DEF FiniteBooks
  <2> QED BY <2>1, <2>2
<1>3. e.kind = r.kind /\ e.party = r.party /\ Source(e) = Source(r)
  BY DEF EntryOf, Source
<1>4. Covered("SupplierPayment", S, p)
  BY <1>1 DEF CoverInv, Asserting, Visible, Guarded
<1> HIDE DEF r, e, S, T
<1>5. CASE e.kind = "SupplierPayment" /\ e.party = p
  BY <1>1, <1>3, <1>5 DEF AfterPost, Asserted, r
<1>6. CASE ~(e.kind = "SupplierPayment" /\ e.party = p)
  <2>1. Debits(T, "ACCOUNTS_PAYABLE", p) = Debits(S, "ACCOUNTS_PAYABLE", p)
    BY <1>1, <1>2, <1>6, PayableEntries DEF Debits
  <2>2. /\ owed \subseteq S /\ IsFiniteSet(owed) /\ \A f \in owed : f.amount \in Nat
        /\ e.amount \in Nat /\ e \notin owed
    <3>1. owed \subseteq S /\ e \notin S
      BY <1>1, <1>3 DEF Credits, Has
    <3> HIDE DEF owed
    <3> QED BY <1>2, <3>1, PayableEntries, FS_Subset
  <2>3. Credits(T, "ACCOUNTS_PAYABLE", p) \in {owed, owed \cup {e}}
    BY <1>1 DEF Credits
  <2> DEFINE paid == Total(Debits(S, "ACCOUNTS_PAYABLE", p))
             more == Total(Credits(T, "ACCOUNTS_PAYABLE", p))
  <2>4. /\ Total(owed) \in Nat
        /\ more \in {Total(owed), Total(owed) + e.amount}
    <3> HIDE DEF owed
    <3> QED BY <2>2, <2>3, TotalWith
  <2>5. paid <= Total(owed)
    BY <1>4 DEF Covered, PayableOk
  <2>6. paid \in Int
    <3>1. Debits(S, "ACCOUNTS_PAYABLE", p) \subseteq S
      BY DEF Debits
    <3> QED BY <1>2, <3>1, PayableEntries, FS_Subset, TotalWith
  <2>7. paid <= more
    <3> HIDE DEF paid, more, owed
    <3> QED BY <2>2, <2>4, <2>5, <2>6
  <2> QED BY <2>1, <2>7 DEF Covered, PayableOk, T
<1> QED BY <1>5, <1>6

\* A commit publishes what t was covered by; to another transaction the order
\* looks as it did to itself, or as it did to t.
LEMMA CommitCovers ==
    ASSUME IInv, CoverInv, NEW t \in Tx, Commit(t)
    PROVE  CoverInv'
<1>1. /\ journal' = journal \cup pending[t] /\ shared' = shared /\ pc[t] = "open"
      /\ pending'[t] = {}
      /\ \A u \in Tx \ {t} : pending'[u] = pending[u] /\ pc'[u] = pc[u]
      /\ req' = req
  BY DEF Commit, IInv, TypeOK
<1> SUFFICES ASSUME NEW p \in Party \ shared, NEW k \in Guarded
             PROVE  /\ Covered(k, journal', p)
                    /\ \A u \in Tx : \/ Covered(k, journal' \cup pending'[u], p)
                                     \/ u # t /\ Asserting(u, k, p)
  BY <1>1, CoverInvNext DEF CoverInv, Holds, Asserting
<1>2. Covered(k, journal \cup pending[t], p)
  BY <1>1 DEF CoverInv, Asserting, Visible
<1>3. ASSUME NEW u \in Tx
      PROVE  \/ Covered(k, journal' \cup pending'[u], p)
             \/ u # t /\ Asserting(u, k, p)
  <2>1. CASE u = t
    <3>1. journal' \cup pending'[u] = journal \cup pending[t]
      BY <1>1, <2>1
    <3> QED BY <1>2, <3>1
  <2>2. CASE u # t /\ Holds(t, p)
    <3>1. ~Holds(u, p)
      BY <2>2 DEF CoverInv
    <3>2. \A e : e.party = p =>
              (e \in journal' \cup pending'[u] <=> e \in journal \cup pending[t])
      BY <1>1, <2>2, <3>1 DEF Holds
    <3> QED BY <1>2, <3>2, CoveredByParty
  <2>3. CASE u # t /\ ~Holds(t, p)
    <3>1. \A e : e.party = p =>
              (e \in journal' \cup pending'[u] <=> e \in journal \cup pending[u])
      BY <1>1, <2>3 DEF Holds
    <3>2. Covered(k, journal \cup pending[u], p) \/ Asserting(u, k, p)
      BY DEF CoverInv, Visible
    <3> QED BY <2>3, <3>1, <3>2, CoveredByParty
  <2> QED BY <2>1, <2>2, <2>3
<1> QED BY <1>1, <1>2, <1>3

\* In every reachable state the books are finite.
THEOREM Finiteness == Spec => []FiniteBooks
<1>1. Init => FiniteBooks
  BY FS_EmptySet DEF Init, FiniteBooks
<1>2. TypeOK /\ FiniteBooks /\ [Next]_vars => FiniteBooks'
  <2> SUFFICES ASSUME TypeOK, FiniteBooks, [Next]_vars PROVE FiniteBooks'
    OBVIOUS
  <2>1. ASSUME NEW t \in Tx, RollBack(t) PROVE FiniteBooks'
    BY <2>1, FS_EmptySet DEF RollBack, FiniteBooks, TypeOK
  <2>2. ASSUME NEW t \in Tx, Insert(t), ~RollBack(t) PROVE FiniteBooks'
    <3>1. \A e : IsFiniteSet(pending[t] \cup {e})
      BY FS_AddElement DEF FiniteBooks
    <3> QED BY <2>2, <3>1 DEF Insert, FiniteBooks, TypeOK
  <2>3. ASSUME NEW t \in Tx, Commit(t) PROVE FiniteBooks'
    BY <2>3, FS_EmptySet, FS_Union DEF Commit, FiniteBooks, TypeOK
  <2>4. CASE UNCHANGED <<journal, pending>>
    BY <2>4 DEF FiniteBooks
  <2> QED
    BY <2>1, <2>2, <2>3, <2>4
    DEF Next, Step, Check, Reject, ReadLock, AssertBalance, Abort, CreatePeriodLock, NextDay, vars
<1> QED BY <1>1, <1>2, Typing, PTL DEF Spec

\* Whoever is not shared is covered in the books, for both kinds of account.
THEOREM Covers == Spec => []CoverInv
<1>1. Init => CoverInv
  <2> SUFFICES ASSUME Init PROVE CoverInv
    OBVIOUS
  <2>1. /\ journal = {} /\ \A t \in Tx : pending[t] = {}
    BY DEF Init
  <2>2. \A p, k : Covered(k, {}, p)
    <3>1. \A p, a : Debits({}, a, p) = {} /\ Credits({}, a, p) = {}
      BY DEF Debits, Credits
    <3> QED BY <3>1 DEF Covered, PayableOk, Total
  <2>3. \A t \in Tx : Visible(t) = {}
    BY <2>1 DEF Visible
  <2> QED BY <2>1, <2>2, <2>3 DEF CoverInv, Holds
<1>2. IInv /\ FiniteBooks /\ CoverInv /\ [Next]_vars => CoverInv'
  <2> SUFFICES ASSUME IInv, FiniteBooks, CoverInv, [Next]_vars PROVE CoverInv'
    OBVIOUS
  <2>1. ASSUME NEW t \in Tx, RollBack(t) PROVE CoverInv'
    BY <2>1, RollBackCovers
  <2>2. ASSUME NEW t \in Tx, NEW r \in Requests, Check(t, r) PROVE CoverInv'
    <3>1. /\ UNCHANGED <<journal, pending, shared>> /\ pc[t] # "assert"
          /\ \A u \in Tx \ {t} : pc'[u] = pc[u] /\ req'[u] = req[u]
      BY <2>2 DEF Check, Goto, IInv, TypeOK
    <3>2. \A p \in Party \ shared, k \in Guarded : Covered(k, Visible(t), p)
      BY <3>1 DEF CoverInv, Asserting
    <3> QED BY <3>1, <3>2, QuietCovers
  <2>3. ASSUME NEW t \in Tx, ReadLock(t), ~RollBack(t) PROVE CoverInv'
    <3>1. /\ UNCHANGED <<journal, pending, shared>> /\ pc[t] # "assert"
          /\ \A u \in Tx \ {t} : pc'[u] = pc[u] /\ req'[u] = req[u]
      BY <2>3 DEF ReadLock, Goto, IInv, TypeOK
    <3>2. \A p \in Party \ shared, k \in Guarded : Covered(k, Visible(t), p)
      BY <3>1 DEF CoverInv, Asserting
    <3> QED BY <3>1, <3>2, QuietCovers
  <2>4. ASSUME NEW t \in Tx, Insert(t), ~RollBack(t) PROVE CoverInv'
    <3>1. /\ journal' = journal /\ shared' = shared \cup SharedBy(t)
          /\ \A u \in Tx \ {t} : pending'[u] = pending[u] /\ pc'[u] = pc[u] /\ req'[u] = req[u]
          /\ \A e \in pending'[t] : e \in pending[t] \/ e.party = req[t][1].party
      BY <2>4 DEF Insert, Goto, IInv, TypeOK, EntryOf
    <3>2. ASSUME NEW p \in Party \ shared', NEW u \in Tx, u # t,
                 \E e \in pending'[t] : e.party = p, Holds(u, p)
          PROVE  FALSE
      BY <3>1, <3>2 DEF CoverInv, Holds, SharedBy
    <3>3. \A p \in Party \ shared', k \in Guarded, u \in Tx \ {t} :
              Covered(k, journal' \cup pending'[u], p) \/ Asserting(u, k, p)
      BY <3>1 DEF CoverInv, Visible
    <3>4. \A p \in Party \ shared', k \in Guarded :
              \/ Covered(k, journal' \cup pending'[t], p)
              \/ /\ pc'[t] = "assert"
                 /\ req'[t][1].kind = k
                 /\ req'[t][1].party = p
      BY <2>4, <3>1, InsertReceivable, InsertPayable DEF Guarded
    <3>5. \A p \in Party \ shared', k \in Guarded : Covered(k, journal', p)
      BY <3>1 DEF CoverInv
    <3>6. \A p \in Party \ shared' : \A u, v \in Tx :
              (\E e \in pending'[u] : e.party = p)
              /\ (\E e \in pending'[v] : e.party = p) => u = v
      BY <3>1, <3>2 DEF CoverInv, Holds
    <3>7. \A p \in Party \ shared', k \in Guarded, u \in Tx :
              \/ Covered(k, journal' \cup pending'[u], p)
              \/ /\ pc'[u] = "assert"
                 /\ req'[u][1].kind = k
                 /\ req'[u][1].party = p
      <4> SUFFICES ASSUME NEW p \in Party \ shared', NEW k \in Guarded, NEW u \in Tx
                   PROVE  \/ Covered(k, journal' \cup pending'[u], p)
                          \/ /\ pc'[u] = "assert"
                             /\ req'[u][1].kind = k
                             /\ req'[u][1].party = p
        OBVIOUS
      <4>1. CASE u = t
        BY <3>4, <4>1
      <4>2. CASE u # t
        BY <3>1, <3>3, <4>2 DEF Asserting
      <4> QED BY <4>1, <4>2
    <3> QED BY <3>5, <3>6, <3>7, CoverInvNext
  <2>5. ASSUME NEW t \in Tx, AssertBalance(t), ~RollBack(t) PROVE CoverInv'
    <3>1. /\ UNCHANGED <<journal, pending, shared>>
          /\ \A u \in Tx \ {t} : pc'[u] = pc[u] /\ req'[u] = req[u]
          /\ IF req[t][1].kind = "PaymentAllocation"
             THEN ReceivableOk(Visible(t), req[t][1].party)
             ELSE PayableOk(Visible(t), req[t][1].party)
      BY <2>5 DEF AssertBalance, Goto, IInv, TypeOK
    <3>2. \A p \in Party \ shared, k \in Guarded : Covered(k, Visible(t), p)
      BY <3>1 DEF CoverInv, Asserting, Covered, Guarded
    <3> QED BY <3>1, <3>2, QuietCovers
  <2>6. ASSUME NEW t \in Tx, Commit(t) PROVE CoverInv'
    BY <2>6, CommitCovers
  <2>7. CASE (\E d \in Day : CreatePeriodLock(d)) \/ NextDay \/ UNCHANGED vars
    <3>1. UNCHANGED <<journal, pending, shared, pc, req>>
      BY <2>7 DEF CreatePeriodLock, NextDay, vars
    <3> QED BY <3>1, CoverInvNext DEF CoverInv, Holds, Asserting, Visible
  <2> QED
    BY <2>1, <2>2, <2>3, <2>4, <2>5, <2>6, <2>7 DEF Next, Step, Reject, Abort
<1> QED BY <1>1, <1>2, Invariance, Finiteness, PTL DEF Spec

\* No order is allocated more than its credit sale debited, unless two open
\* transactions held entries of it at once.
THEOREM Receivables == Spec => []ReceivablesCovered
<1>1. CoverInv => ReceivablesCovered
  BY DEF CoverInv, ReceivablesCovered, Covered, Guarded
<1> QED BY <1>1, Covers, PTL

\* No supplier is paid more than its purchases credited, unless two open
\* transactions held entries of it at once.
THEOREM Payables == Spec => []PayablesCovered
<1>1. CoverInv => PayablesCovered
  BY DEF CoverInv, PayablesCovered, Covered, Guarded
<1> QED BY <1>1, Covers, PTL
=============================================================================
