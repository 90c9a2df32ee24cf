---------------------------- MODULE PeriodClose ----------------------------
(***************************************************************************)
(* ReconciliationService, PeriodEndClosingService and its validator, on    *)
(* top of the sessions of CashierSession: a period is closed by reading    *)
(* the last closed period, validating the reconciliations, moving the      *)
(* period lock and recording the period, with an await between each and no *)
(* database transaction around them.  The calendar is one month, so the    *)
(* first period starts on day 1, and cash control is on.                   *)
(***************************************************************************)
EXTENDS CashierSession

CONSTANTS
    Closers,   \* period-end requests that may be in flight at the same time
    Required,  \* accounts of the payment methods that must be reconciled
    Manual     \* [scope, ref, from, to]: what createReconciliation is asked for

ASSUME PeriodAssumption == \A m \in Manual : m.from \in Nat /\ m.to \in Nat

VARIABLES
    recs,      \* reconciliation rows
    periods,   \* accounting_period rows, and whether a close or an open made them
    lockEnd,   \* period_lock.lockEndDate, 0 when there is none
    closing,   \* the locals of each period-end request
    overlapped \* history: two period-end requests were in flight at once

periodVars == <<periods, lockEnd, closing, overlapped>>
vars == <<tillVars, recs, periodVars>>

Resting == [at |-> "idle", date |-> 0, last |-> 0]

PeriodTypeOK ==
    /\ TypeOK
    /\ \A x \in recs : x.status \in {"draft", "verified"} /\ x.from \in Nat /\ x.to \in Nat
    /\ overlapped \in BOOLEAN
    /\ periods \subseteq [start : 1..LastDay + 1, end : Day, by : {"close", "open"}]
    /\ lockEnd \in 0..LastDay
    /\ closing \in [Closers -> [at : {"idle", "validate", "lock", "record", "open"},
                                date : 0..LastDay, last : 0..LastDay]]

PeriodInit ==
    /\ Init
    /\ recs = {} /\ periods = {} /\ lockEnd = 0
    /\ closing = [c \in Closers |-> Resting]
    /\ overlapped = FALSE
-----------------------------------------------------------------------------
\* createReconciliation saves a draft.
Draft(m) ==
    recs' = recs \cup {[scope |-> m.scope, ref |-> m.ref, from |-> m.from, to |-> m.to,
                        status |-> "draft"]}

CreateReconciliation(m) == Draft(m) /\ UNCHANGED <<tillVars, periodVars>>

\* createSessionReconciliation: a closed session, over the days it was open.
ReconcileSession(s) ==
    /\ Status(s) = "closed"
    /\ Draft([scope |-> "cash-session", ref |-> s, from |-> session[s].opened,
              to |-> session[s].closed])
    /\ UNCHANGED <<tillVars, periodVars>>

VerifyReconciliation(x) ==
    /\ recs' = (recs \ {x}) \cup {[x EXCEPT !.status = "verified"]}
    /\ UNCHANGED <<tillVars, periodVars>>
-----------------------------------------------------------------------------
\* getLastClosedPeriod: every row has status "closed".
LastEnd == IF periods = {} THEN 0
           ELSE CHOOSE e \in {p.end : p \in periods} : \A p \in periods : p.end <= e

\* findReconciliation: some row (no order is given) covering the date.
Covering(scope, ref, date) ==
    {x \in recs : x.scope = scope /\ x.ref = ref /\ x.from <= date /\ date <= x.to}

\* The sessions validateCashierSessionReconciliations looks at: closed by the
\* date, since the first day.
SessionsUpTo(date) == {s \in Sessions : Status(s) = "closed" /\ session[s].closed <= date}

Scopes(date) == ({"method"} \X Required) \cup ({"cash-session"} \X SessionsUpTo(date))

\* Mutant of MayPass: a draft is as good as a verified reconciliation.
MayPassWithDrafts(date) == \A k \in Scopes(date) : Covering(k[1], k[2], date) # {}

\* validatePeriodReconciliation may answer yes, or no.
MayPass(date) ==
    \A k \in Scopes(date) : \E x \in Covering(k[1], k[2], date) : x.status = "verified"
MayFail(date) ==
    \E k \in Scopes(date) : \/ Covering(k[1], k[2], date) = {}
                            \/ \E x \in Covering(k[1], k[2], date) : x.status = "draft"

To(c, at) == closing' = [closing EXCEPT ![c].at = at]
Rest(c) == closing' = [closing EXCEPT ![c] = Resting]

NoteOverlap(c) ==
    overlapped' = (overlapped \/ \E d \in Closers \ {c} : closing[d] # Resting)

\* Mutant of BeginClose: the last closed period is not compared.
BeginCloseAnytime(c, date) ==
    /\ closing[c] = Resting
    /\ date <= today
    /\ closing' = [closing EXCEPT ![c] = [at |-> "validate", date |-> date, last |-> LastEnd]]
    /\ NoteOverlap(c)
    /\ UNCHANGED <<periods, lockEnd, recs, tillVars>>

\* closeAccountingPeriod: not in the future, after the last closed period.
BeginClose(c, date) ==
    /\ closing[c] = Resting
    /\ date <= today /\ date > LastEnd
    /\ closing' = [closing EXCEPT ![c] = [at |-> "validate", date |-> date, last |-> LastEnd]]
    /\ NoteOverlap(c)
    /\ UNCHANGED <<periods, lockEnd, recs, tillVars>>

Validate(c) ==
    /\ closing[c].at = "validate"
    /\ \/ MayPass(closing[c].date) /\ To(c, "lock")
       \/ MayFail(closing[c].date) /\ Rest(c)
    /\ UNCHANGED <<periods, lockEnd, overlapped, recs, tillVars>>

\* createPeriodLock overwrites the lock date.
Lock(c) ==
    /\ closing[c].at = "lock"
    /\ lockEnd' = closing[c].date
    /\ To(c, "record")
    /\ UNCHANGED <<periods, overlapped, recs, tillVars>>

\* Mutant of Row: the new period starts on the last day of the one before.
RowOverlapping(c, by) == [start |-> closing[c].last, end |-> closing[c].date, by |-> by]

\* createAccountingPeriod: from the day after the last period that was READ.
Row(c, by) == [start |-> closing[c].last + 1, end |-> closing[c].date, by |-> by]

Record(c) ==
    /\ closing[c].at = "record"
    /\ periods' = periods \cup {Row(c, "close")}
    /\ Rest(c)
    /\ UNCHANGED <<lockEnd, overlapped, recs, tillVars>>

\* openAccountingPeriod: a closed period exists and the start is after it...
BeginOpen(c, date) ==
    /\ closing[c] = Resting
    /\ periods # {} /\ date > LastEnd
    /\ closing' = [closing EXCEPT ![c] = [at |-> "open", date |-> date, last |-> LastEnd]]
    /\ NoteOverlap(c)
    /\ UNCHANGED <<periods, lockEnd, recs, tillVars>>

\* ... and the new row ENDS on the start date and is closed, like any other.
RecordOpen(c) ==
    /\ closing[c].at = "open"
    /\ periods' = periods \cup {Row(c, "open")}
    /\ Rest(c)
    /\ UNCHANGED <<lockEnd, overlapped, recs, tillVars>>

\* A query fails or the process stops.
FailClose(c) ==
    /\ closing[c] # Resting
    /\ Rest(c)
    /\ UNCHANGED <<periods, lockEnd, overlapped, recs, tillVars>>

EndPeriod(c) ==
    \/ \E d \in Day : BeginClose(c, d) \/ BeginOpen(c, d)
    \/ Validate(c) \/ Lock(c) \/ Record(c) \/ RecordOpen(c) \/ FailClose(c)

PeriodNext ==
    \/ Next /\ UNCHANGED <<recs, periodVars>>
    \/ \E m \in Manual : CreateReconciliation(m)
    \/ \E s \in Sessions : ReconcileSession(s)
    \/ \E x \in recs : VerifyReconciliation(x)
    \/ \E c \in Closers : EndPeriod(c)

PeriodSpec == PeriodInit /\ [][PeriodNext]_vars
-----------------------------------------------------------------------------
(* Properties *)

\* The books are locked up to a date only when every required account has a
\* verified reconciliation covering that date, however closes interleave and
\* fail (the validation before createPeriodLock).
LockCovered ==
    lockEnd # 0 => \A a \in Required :
        \E x \in Covering("method", a, lockEnd) : x.status = "verified"

\* Periods follow each other without a gap or an overlap, unless two period-end
\* requests overlapped: a row starts after the last period its request READ.
PeriodsTile == ~overlapped =>
    /\ \A p, q \in periods : p # q => p.end < q.start \/ q.end < p.start
    /\ \A p \in periods : p.start = 1 \/ \E q \in periods : q.end + 1 = p.start

\* What a close has recorded is behind the lock, also when a later close died
\* half way, unless two period-end requests overlapped: the lock date is
\* overwritten, not raised.
ClosedPeriodsLocked ==
    ~overlapped => \A p \in periods : p.by = "close" => p.end <= lockEnd
=============================================================================
