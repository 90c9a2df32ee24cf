------------------------------- MODULE Ledger -------------------------------
(***************************************************************************)
(* The posting engine: PostingService.post, the LedgerPostingService       *)
(* methods that call it, and PeriodLockService.createPeriodLock, run by    *)
(* concurrent database transactions under READ COMMITTED isolation.        *)
(*                                                                         *)
(* A transaction posts one or more requests and then commits or rolls      *)
(* back.  post() awaits between its reads and its insert, so each await is *)
(* a step here: findOne by source (Check), the account and period-lock     *)
(* reads (ReadLock), the insert against the unique index on                *)
(* (channelId, sourceType, sourceId) (Insert), and the receivable and      *)
(* payable assertions that follow some kinds (AssertBalance).  Other       *)
(* transactions see only the committed journal; one sees its own pending   *)
(* entries too.                                                            *)
(***************************************************************************)
EXTENDS PostingPolicy

CONSTANTS
    Tx,         \* database transactions that may be open at the same time
    Requests,   \* the postings callers may ask for
    Accounts,   \* codes of the channel's postable (leaf) accounts
    LastDay     \* bound on the calendar

ASSUME RequestsAssumption ==
    /\ Requests \subseteq Request
    \* recordSale passes the order both as source id and as the meta order
    /\ \A r \in Requests : r.kind = "CreditSale" => r.id = r.party

ASSUME LastDayAssumption == LastDay \in Nat \ {0}

VARIABLES
    journal,    \* committed entries
    lockEnd,    \* period_lock.lockEndDate; 0 when no period is locked
    today,
    pc,         \* where each transaction is
    pending,    \* entries it has inserted and not committed
    req,        \* the request it is posting and the date it stamped on it
    racing,     \* history: transactions past their lock check when a lock came
    shared      \* history: parties two open transactions had entries of at once

vars == <<journal, lockEnd, today, pc, pending, req, racing, shared>>

Day == 1..LastDay
Entry == {EntryOf(r, d) : r \in Requests, d \in Day}
Posting == Requests \X Day
NoPosting == <<>>

TypeOK ==
    /\ journal \in SUBSET Entry
    /\ lockEnd \in 0..LastDay
    /\ today \in Day
    /\ pc \in [Tx -> {"idle", "open", "checked", "unlocked", "assert"}]
    /\ pending \in [Tx -> SUBSET Entry]
    /\ \A t \in Tx : pc[t] \in {"checked", "unlocked", "assert"} => req[t] \in Posting
    /\ DOMAIN req = Tx
    /\ racing \in SUBSET Tx
    /\ shared \in SUBSET Party

Init ==
    /\ journal = {}
    /\ lockEnd = 0
    /\ today = 1
    /\ pc = [t \in Tx |-> "idle"]
    /\ pending = [t \in Tx |-> {}]
    /\ req = [t \in Tx |-> NoPosting]
    /\ racing = {}
    /\ shared = {}
-----------------------------------------------------------------------------
\* What t's queries return: committed rows and its own.
Visible(t) == journal \cup pending[t]

Has(S, r) == \E e \in S : Source(e) = Source(r)

\* Mutant of Asserted: the receivable assertion after an allocation is forgotten.
AssertedForSuppliersOnly(r) == r.kind = "SupplierPayment"

Asserted(r) == r.kind \in {"PaymentAllocation", "SupplierPayment"}
AfterPost(r) == IF Asserted(r) THEN "assert" ELSE "open"

\* t goes on to a step; its request is kept only while it is being posted.
Goto(t, step, posting) ==
    /\ pc' = [pc EXCEPT ![t] = step]
    /\ req' = [req EXCEPT ![t] = IF step \in {"idle", "open"} THEN NoPosting ELSE posting]

\* An error thrown inside the transaction, or by the caller after a post,
\* undoes everything the transaction wrote.
RollBack(t) ==
    /\ Goto(t, "idle", NoPosting)
    /\ pending' = [pending EXCEPT ![t] = {}]
    /\ racing' = racing \ {t}
    /\ UNCHANGED <<journal, lockEnd, today, shared>>

\* FinancialService.record* and the first half of post(): the amount guard,
\* the idempotency lookup, the account checks.  entryDate is fixed here.
Check(t, r) ==
    /\ pc[t] \in {"idle", "open"}
    /\ r.kind \in MustBePositive => r.amount > 0
    /\ {DebitAccount(r), CreditAccount(r)} \subseteq Accounts
    /\ Goto(t, IF Has(Visible(t), r) THEN AfterPost(r) ELSE "checked", <<r, today>>)
    /\ UNCHANGED <<journal, lockEnd, today, pending, racing, shared>>

\* A bad amount, or an account that is missing or a parent: throw.
Reject(t, r) ==
    /\ pc[t] = "open"
    /\ \/ r.kind \in MustBePositive /\ r.amount <= 0
       \/ ~({DebitAccount(r), CreditAccount(r)} \subseteq Accounts)
    /\ RollBack(t)

\* Mutant of ReadLock: the lock date itself is let through.
ReadLockExclusive(t) ==
    /\ pc[t] = "checked"
    /\ IF req[t][2] < lockEnd
       THEN RollBack(t)
       ELSE /\ Goto(t, "unlocked", req[t])
            /\ UNCHANGED <<journal, lockEnd, today, pending, racing, shared>>

\* The period-lock read: deny when entryDate <= lockEndDate.
ReadLock(t) ==
    /\ pc[t] = "checked"
    /\ IF req[t][2] <= lockEnd
       THEN RollBack(t)
       ELSE /\ Goto(t, "unlocked", req[t])
            /\ UNCHANGED <<journal, lockEnd, today, pending, racing, shared>>

\* The party t is about to insert an entry of, when another open transaction
\* holds one of the same party.
SharedBy(t) ==
    {p \in {req[t][1].party} : \E u \in Tx \ {t} : \E e \in pending[u] : e.party = p}

\* Mutant of Insert: no unique index, only the lookup before it.
InsertUnindexed(t) ==
    /\ pc[t] = "unlocked"
    /\ pending' = [pending EXCEPT ![t] = @ \cup {EntryOf(req[t][1], req[t][2])}]
    /\ Goto(t, AfterPost(req[t][1]), req[t])
    /\ UNCHANGED <<journal, lockEnd, today, racing, shared>>

\* The insert waits for another transaction's uncommitted row with the same
\* source; a committed one makes it fail.
Insert(t) ==
    /\ pc[t] = "unlocked"
    /\ \A u \in Tx \ {t} : ~Has(pending[u], req[t][1])
    /\ IF Has(Visible(t), req[t][1])
       THEN RollBack(t)
       ELSE /\ pending' = [pending EXCEPT ![t] = @ \cup {EntryOf(req[t][1], req[t][2])}]
            /\ Goto(t, AfterPost(req[t][1]), req[t])
            /\ shared' = shared \cup SharedBy(t)
            /\ UNCHANGED <<journal, lockEnd, today, racing>>

\* assertAccountsReceivableInvariant: some debit, and credits do not exceed it.
ReceivableOk(S, order) ==
    LET owed == Total(Debits(S, "ACCOUNTS_RECEIVABLE", order))
        paid == Total(Credits(S, "ACCOUNTS_RECEIVABLE", order))
    IN  owed # 0 /\ paid <= owed

\* assertAccountsPayableInvariant: debits do not exceed credits.
PayableOk(S, supplier) ==
    Total(Debits(S, "ACCOUNTS_PAYABLE", supplier))
        <= Total(Credits(S, "ACCOUNTS_PAYABLE", supplier))

\* Mutant of AssertBalance: it reads outside the transaction that posted.
AssertOutside(t) ==
    LET r  == req[t][1]
        ok == IF r.kind = "PaymentAllocation" THEN ReceivableOk(journal, r.party)
                                              ELSE PayableOk(journal, r.party)
    IN  /\ pc[t] = "assert"
        /\ IF ok
           THEN /\ Goto(t, "open", NoPosting)
                /\ UNCHANGED <<journal, lockEnd, today, pending, racing, shared>>
           ELSE RollBack(t)

AssertBalance(t) ==
    LET r  == req[t][1]
        ok == IF r.kind = "PaymentAllocation" THEN ReceivableOk(Visible(t), r.party)
                                              ELSE PayableOk(Visible(t), r.party)
    IN  /\ pc[t] = "assert"
        /\ IF ok
           THEN /\ Goto(t, "open", NoPosting)
                /\ UNCHANGED <<journal, lockEnd, today, pending, racing, shared>>
           ELSE RollBack(t)

Commit(t) ==
    /\ pc[t] = "open"
    /\ journal' = journal \cup pending[t]
    /\ pending' = [pending EXCEPT ![t] = {}]
    /\ pc' = [pc EXCEPT ![t] = "idle"]
    /\ racing' = racing \ {t}
    /\ UNCHANGED <<lockEnd, today, req, shared>>

\* The caller fails after a post, the process dies, or the database aborts the
\* transaction to break a deadlock of waiting inserts.
Abort(t) == pc[t] # "idle" /\ RollBack(t)

\* createPeriodLock overwrites the lock date, whatever it was.
CreatePeriodLock(d) ==
    /\ d <= today
    /\ lockEnd' = d
    /\ racing' = {t \in Tx : pc[t] = "unlocked" \/ pending[t] # {}}
    /\ UNCHANGED <<journal, today, pc, pending, req, shared>>

NextDay ==
    /\ today < LastDay
    /\ today' = today + 1
    /\ UNCHANGED <<journal, lockEnd, pc, pending, req, racing, shared>>

Step(t) ==
    \/ \E r \in Requests : Check(t, r) \/ Reject(t, r)
    \/ ReadLock(t) \/ Insert(t) \/ AssertBalance(t) \/ Commit(t) \/ Abort(t)

Next ==
    \/ \E t \in Tx : Step(t)
    \/ \E d \in Day : CreatePeriodLock(d)
    \/ NextDay

Spec == Init /\ [][Next]_vars
-----------------------------------------------------------------------------
(* Properties *)

\* A business event is in the books at most once, whichever transactions race
\* to post it and however often it is retried (the unique index behind the
\* idempotency lookup, journal-entry.entity.ts).
OneEntryPerSource ==
    \A e, f \in journal : Source(e) = Source(f) => e = f

\* A committed allocation of a customer payment always has the credit sale it
\* pays in the books: the assertion after the post refuses an order that was
\* never debited, and the books only grow.
AllocationHasSale ==
    \A e \in journal : e.kind = "PaymentAllocation" =>
        Debits(journal, "ACCOUNTS_RECEIVABLE", e.party) # {}

\* An order that has been allocated a payment was debited by a credit sale, and
\* not allocated more than that, unless two open transactions held entries of
\* the order at once: assertAccountsReceivableInvariant sums what its own
\* transaction can see.
ReceivablesCovered ==
    \A p \in Party \ shared :
        Credits(journal, "ACCOUNTS_RECEIVABLE", p) # {} => ReceivableOk(journal, p)

\* Likewise no supplier is paid more than its purchases credited
\* (assertAccountsPayableInvariant).
PayablesCovered == \A p \in Party \ shared : PayableOk(journal, p)

\* An entry dated in a closed period is committed only by a transaction that
\* had already passed its lock check when the lock was created; every other
\* posting into the period is refused (PeriodLock check of post()).
ClosedPeriodOnlyRaced ==
    [][\A e \in journal' \ journal : e.date <= lockEnd =>
           \E t \in racing : e \in pending[t]]_vars

\* The transactions implement the append-only journal of Journal.tla.
Book == INSTANCE Journal
ImplementsJournal == Book!Spec
=============================================================================
