-------------------------- MODULE PeriodTeamProofs --------------------------
(***************************************************************************)
(* Proofs about CashierSession and about PeriodClose on top of it, for any *)
(* requests, sessions, amounts, accounts and calendar.  Spec is the till   *)
(* alone, PeriodSpec the till with its reconciliations and periods.  Then, *)
(* sharing nothing with them, about Team on top of Registration and Otp,   *)
(* for any people, requests, limits and companies that are there already.  *)
(***************************************************************************)
EXTENDS PeriodClose, Team, FiniteSetTheorems, WellFoundedInduction, TLAPS

USE CashierAssumption DEF CashierAssumption

\* A cashier_session row.
SessionRow == [status : {"none", "open", "closed"}, float : Amounts \cup {0},
               declared : Amounts \cup {0}, opened : 0..LastDay, closed : 0..LastDay]

\* The locals of a request.
JobLocals == [at : {"idle", "start", "opening", "closing", "close"},
              s : Sessions \cup {Untagged}, amount : Amounts \cup {0}]

\* A request past its first await names a session and an amount.
JobsWellFormed == \A r \in Reqs :
    /\ job[r].at # "idle" => job[r].amount \in Amounts
    /\ job[r].at \in {"opening", "closing", "close"} => job[r].s \in Sessions

\* Nothing is received into a session that is not in the drawer.
TakenIsCash == \A s \in Sessions : taken[s] <= cash[Untagged]

Backed(s, declared) ==
    \E c \in counts : c.s = s /\ c.type = "closing" /\ c.declared = declared

\* A request about to save a closed row has saved its count.
CloserHasCounted == \A r \in Reqs : job[r].at = "close" => Backed(job[r].s, job[r].amount)

\* While a start is under way, a session that opens was saved beside it.
StarterSawNone == \A r \in Reqs, s \in Sessions :
    job[r].at = "start" /\ Status(s) = "open" => s \in doubled

IsClosing(r, s) == job[r].at \in {"closing", "close"} /\ job[r].s = s

\* A session has one closer at most, and none once it is closed.
OneCloser == \A s \in Sessions \ doubled :
    /\ \A q, r \in Reqs : IsClosing(q, s) /\ IsClosing(r, s) => q = r
    /\ Status(s) = "closed" => \A r \in Reqs : ~IsClosing(r, s)

TillInv ==
    /\ TypeOK /\ JobsWellFormed /\ TakenIsCash
    /\ ClosedHasItsCount /\ CloserHasCounted
    /\ OneOpenSession /\ StarterSawNone /\ OneCloser
-----------------------------------------------------------------------------
\* An amount, or the zero of a row that names none yet, is a number.
LEMMA AmountIsNat == ASSUME NEW n \in Amounts \cup {0} PROVE n \in Nat
<1>1. CASE n \in Amounts
  BY <1>1
<1>2. CASE n = 0
  BY <1>2
<1> QED BY <1>1, <1>2

\* The locals of a request that has saved its session, and of one that has ended.
LEMMA OpeningLocals ==
    ASSUME NEW x \in JobLocals, NEW s \in Sessions
    PROVE  [x EXCEPT !.at = "opening", !.s = s] \in JobLocals
  BY DEF JobLocals

LEMMA IdleLocals ==
    ASSUME NEW f \in [Reqs -> JobLocals], NEW r
    PROVE  [f EXCEPT ![r] = Idle] \in [Reqs -> JobLocals]
<1>1. Idle \in JobLocals
  BY DEF Idle, JobLocals
<1> QED BY <1>1

\* The parts of the invariant that type the till.
LEMMA TillTyping ==
    ASSUME TypeOK, JobsWellFormed, TakenIsCash, [Next]_tillVars
    PROVE  (TypeOK /\ JobsWellFormed /\ TakenIsCash)'
<1> USE DEF TypeOK, JobsWellFormed, TakenIsCash
<1> DEFINE Goal == (TypeOK /\ JobsWellFormed /\ TakenIsCash)'
<1>1. ASSUME NEW r \in Reqs, NEW f \in Floats, Start(r, f) PROVE Goal
  BY <1>1 DEF Start, Idle
<1>2. ASSUME NEW r \in Reqs, NEW s \in Sessions, SaveSession(r, s) PROVE Goal
  <2>1. job[r].amount \in Amounts
    BY <1>2 DEF SaveSession
  <2> DEFINE row == [None EXCEPT !.status = "open", !.float = job[r].amount, !.opened = today]
  <2>2. today \in 0..LastDay
    BY DEF Day
  <2>3. None \in SessionRow
    BY DEF None, SessionRow
  <2>4. row \in SessionRow
    BY <2>1, <2>2, <2>3 DEF SessionRow
  <2>5. session' = [session EXCEPT ![s] = row]
    BY <1>2 DEF SaveSession
  <2> HIDE DEF row
  <2>6. session' \in [Sessions -> SessionRow]
    BY <2>4, <2>5 DEF SessionRow
  <2>7. [job[r] EXCEPT !.at = "opening", !.s = s] \in JobLocals
    <3>1. job[r] \in JobLocals
      BY DEF JobLocals
    <3> QED BY <3>1, OpeningLocals
  <2>8. job' = [job EXCEPT ![r] = [job[r] EXCEPT !.at = "opening", !.s = s]]
    BY <1>2 DEF SaveSession
  <2>9. job' \in [Reqs -> JobLocals]
    BY <2>7, <2>8 DEF JobLocals
  <2>10. doubled' \subseteq Sessions
    BY <1>2 DEF SaveSession
  <2>11. TypeOK'
    BY <1>2, <2>6, <2>9, <2>10 DEF SaveSession, SessionRow, JobLocals
  <2>12. JobsWellFormed' /\ TakenIsCash'
    BY <1>2, <2>1 DEF SaveSession
  <2> QED BY <2>11, <2>12
<1>3. ASSUME NEW r \in Reqs, NEW s \in Sessions, NEW a \in Amounts, Close(r, s, a) PROVE Goal
  BY <1>3 DEF Close, Idle
<1>4. ASSUME NEW s \in Sessions, NEW type \in {"opening", "interim", "closing"},
             NEW a \in Amounts
      PROVE  LET c == CountOf(s, type, a)
             IN  /\ c.s \in Sessions /\ c.type \in {"opening", "interim", "closing"}
                 /\ c.declared \in Amounts /\ c.expected \in Nat /\ c.taken \in Nat
  <2>1. session[s].float \in Nat
    BY AmountIsNat
  <2>2. cash[s] \in Nat /\ taken[s] \in Nat
    OBVIOUS
  <2>3. session[s].float + cash[s] \in Nat
    BY <2>1, <2>2
  <2> QED BY <2>2, <2>3 DEF CountOf, ExpectedCash
<1>5. ASSUME NEW r \in Reqs, SaveOpeningCount(r) PROVE Goal
  <2>1. job[r].s \in Sessions /\ job[r].amount \in Amounts
    BY <1>5 DEF SaveOpeningCount
  <2>2. PICK n : n = CountOf(job[r].s, "opening", job[r].amount)
    OBVIOUS
  <2>3. /\ n.s \in Sessions /\ n.type \in {"opening", "interim", "closing"}
        /\ n.declared \in Amounts /\ n.expected \in Nat /\ n.taken \in Nat
    BY <1>4, <2>1, <2>2
  <2>4. counts' = counts \cup {n} /\ job' = [job EXCEPT ![r] = Idle]
        /\ UNCHANGED <<session, cash, taken, today, doubled>>
    BY <1>5, <2>2 DEF SaveOpeningCount, Finish
  <2> QED BY <2>3, <2>4 DEF Idle
<1>6. ASSUME NEW r \in Reqs, SaveClosingCount(r) PROVE Goal
  BY <1>4, <1>6 DEF SaveClosingCount, Goto
<1>7. ASSUME NEW r \in Reqs, SaveClosed(r) PROVE Goal
  <2>1. job[r].s \in Sessions /\ job[r].amount \in Amounts
    BY <1>7 DEF SaveClosed
  <2>2. session' \in [Sessions -> SessionRow]
    <3>1. PICK x : x = [session[job[r].s] EXCEPT !.status = "closed", !.closed = today,
                                                 !.declared = job[r].amount]
      OBVIOUS
    <3>2. session[job[r].s] \in SessionRow /\ today \in 0..LastDay
      BY <2>1 DEF Day, SessionRow
    <3>3. x \in SessionRow
      BY <2>1, <3>1, <3>2 DEF SessionRow
    <3>4. session' = [session EXCEPT ![job[r].s] = x]
      BY <1>7, <3>1 DEF SaveClosed
    <3> QED BY <3>3, <3>4 DEF SessionRow
  <2>3. TypeOK'
    <3>1. job \in [Reqs -> JobLocals]
      BY DEF JobLocals
    <3>2. job' \in [Reqs -> JobLocals]
      BY <1>7, <3>1, IdleLocals DEF SaveClosed, Finish
    <3>3. UNCHANGED <<counts, cash, taken, today, doubled>>
      BY <1>7 DEF SaveClosed
    <3> QED BY <2>2, <3>2, <3>3 DEF SessionRow, JobLocals
  <2>4. JobsWellFormed' /\ TakenIsCash'
    BY <1>7 DEF SaveClosed, Finish, Idle
  <2> QED BY <2>3, <2>4
<1>8. ASSUME NEW r \in Reqs, Fail(r) PROVE Goal
  BY <1>8 DEF Fail, Finish, Idle
<1>9. ASSUME NEW s \in Sessions, NEW a \in Amounts, InterimCount(s, a) PROVE Goal
  BY <1>4, <1>9 DEF InterimCount
<1>10. ASSUME NEW a \in Amounts, RecordPayment(a) PROVE Goal
  BY <1>10 DEF RecordPayment
<1>11. CASE NextDay
  BY <1>11 DEF NextDay, Day
<1>12. CASE UNCHANGED tillVars
  BY <1>12 DEF tillVars
<1> QED
  BY <1>1, <1>2, <1>3, <1>5, <1>6, <1>7, <1>8, <1>9, <1>10, <1>11, <1>12 DEF Next, Handle

\* The closing count of a session is saved before its row, and counts are
\* never removed.
LEMMA CountedKept ==
    ASSUME TypeOK, JobsWellFormed, ClosedHasItsCount, CloserHasCounted, [Next]_tillVars
    PROVE  (ClosedHasItsCount /\ CloserHasCounted)'
<1> USE DEF TypeOK, JobsWellFormed, ClosedHasItsCount, CloserHasCounted, Backed, Status
<1> DEFINE Goal == (ClosedHasItsCount /\ CloserHasCounted)'
<1>1. ASSUME NEW r \in Reqs, NEW f \in Floats, Start(r, f) PROVE Goal
  BY <1>1 DEF Start, Idle
<1>2. ASSUME NEW r \in Reqs, NEW s \in Sessions, SaveSession(r, s) PROVE Goal
  BY <1>2 DEF SaveSession, None
<1>3. ASSUME NEW r \in Reqs, NEW s \in Sessions, NEW a \in Amounts, Close(r, s, a) PROVE Goal
  BY <1>3 DEF Close, Idle
<1>4. ASSUME NEW r \in Reqs, SaveOpeningCount(r) PROVE Goal
  BY <1>4 DEF SaveOpeningCount, Finish, Idle
<1>5. ASSUME NEW r \in Reqs, SaveClosingCount(r) PROVE Goal
  <2> DEFINE c == CountOf(job[r].s, "closing", job[r].amount)
  <2>1. c.s = job[r].s /\ c.type = "closing" /\ c.declared = job[r].amount
    BY DEF CountOf
  <2>2. c \in counts' /\ counts \subseteq counts' /\ session' = session
    BY <1>5 DEF SaveClosingCount
  <2>3. ClosedHasItsCount'
    BY <2>2
  <2>4. \A q \in Reqs : job'[q].s = job[q].s /\ job'[q].amount = job[q].amount
                          /\ (q # r => job'[q].at = job[q].at)
    BY <1>5 DEF SaveClosingCount, Goto
  <2> HIDE DEF c
  <2>5. CloserHasCounted'
    BY <2>1, <2>2, <2>4
  <2> QED BY <2>3, <2>5
<1>6. ASSUME NEW r \in Reqs, SaveClosed(r) PROVE Goal
  BY <1>6 DEF SaveClosed, Finish, Idle
<1>7. ASSUME NEW r \in Reqs, Fail(r) PROVE Goal
  BY <1>7 DEF Fail, Finish, Idle
<1>8. ASSUME NEW s \in Sessions, NEW a \in Amounts, InterimCount(s, a) PROVE Goal
  BY <1>8 DEF InterimCount
<1>9. ASSUME NEW a \in Amounts, RecordPayment(a) PROVE Goal
  BY <1>9 DEF RecordPayment
<1>10. CASE NextDay \/ UNCHANGED tillVars
  BY <1>10 DEF NextDay, tillVars
<1> QED
  BY <1>1, <1>2, <1>3, <1>4, <1>5, <1>6, <1>7, <1>8, <1>9, <1>10 DEF Next, Handle

\* Steps that leave the sessions alone and only end requests.
LEMMA EndingKeeps ==
    ASSUME TypeOK, OneOpenSession, StarterSawNone, OneCloser,
           UNCHANGED <<session, doubled>>,
           \A r \in Reqs : \/ job'[r] = job[r] \/ job'[r] = Idle
                           \/ job[r].at = "closing" /\ job'[r] = [job[r] EXCEPT !.at = "close"]
    PROVE  (OneOpenSession /\ StarterSawNone /\ OneCloser)'
<1>1. \A r \in Reqs, s \in Sessions : IsClosing(r, s)' => IsClosing(r, s)
  <2> SUFFICES ASSUME NEW r \in Reqs, NEW s \in Sessions, IsClosing(r, s)' PROVE IsClosing(r, s)
    OBVIOUS
  <2>1. CASE job[r].at = "closing" /\ job'[r] = [job[r] EXCEPT !.at = "close"]
    BY <2>1 DEF TypeOK, IsClosing
  <2>2. CASE job'[r] = job[r] \/ job'[r] = Idle
    BY <2>2 DEF IsClosing, Idle
  <2> QED BY <2>1, <2>2
<1>2. \A r \in Reqs : job'[r].at = "start" => job[r].at = "start"
  <2> SUFFICES ASSUME NEW r \in Reqs, job'[r].at = "start" PROVE job[r].at = "start"
    OBVIOUS
  <2>1. CASE job'[r] = [job[r] EXCEPT !.at = "close"]
    BY <2>1 DEF TypeOK
  <2>2. CASE job'[r] = job[r] \/ job'[r] = Idle
    BY <2>2 DEF Idle
  <2> QED BY <2>1, <2>2
<1>3. (OneOpenSession /\ StarterSawNone)'
  BY <1>2 DEF OneOpenSession, StarterSawNone, Status
<1>4. OneCloser'
  BY <1>1 DEF OneCloser, Status
<1> QED BY <1>3, <1>4

\* One open session, and one closer of each, but for those that doubled notes.
LEMMA DoubledNotes ==
    ASSUME TypeOK, JobsWellFormed, OneOpenSession, StarterSawNone, OneCloser, [Next]_tillVars
    PROVE  (OneOpenSession /\ StarterSawNone /\ OneCloser)'
<1> DEFINE Goal == (OneOpenSession /\ StarterSawNone /\ OneCloser)'
<1>1. ASSUME NEW r \in Reqs, NEW f \in Floats, Start(r, f) PROVE Goal
  <2>1. \A q \in Reqs, s \in Sessions : IsClosing(q, s)' => IsClosing(q, s)
    BY <1>1 DEF Start, TypeOK, IsClosing
  <2> QED BY <1>1, <2>1 DEF Start, TypeOK, OneOpenSession, StarterSawNone, OneCloser, Status
<1>2. ASSUME NEW r \in Reqs, NEW s \in Sessions, SaveSession(r, s) PROVE Goal
  <2>1. \A q \in Reqs, u \in Sessions : IsClosing(q, u)' => IsClosing(q, u)
    BY <1>2 DEF SaveSession, TypeOK, IsClosing
  <2>2. /\ \A u \in Sessions : Status(u)' = IF u = s THEN "open" ELSE Status(u)
        /\ doubled \subseteq doubled'
        /\ \A u \in doubled' : u = s \/ u \in doubled
    BY <1>2 DEF SaveSession, TypeOK, Status, None
  <2>3. OneOpenSession'
    BY <1>2, <2>2 DEF SaveSession, OneOpenSession, StarterSawNone
  <2>4. StarterSawNone'
    BY <1>2, <2>2 DEF SaveSession, TypeOK, StarterSawNone
  <2>5. OneCloser'
    BY <1>2, <2>1, <2>2 DEF SaveSession, OneCloser
  <2> QED BY <2>3, <2>4, <2>5
<1>3. ASSUME NEW r \in Reqs, NEW s \in Sessions, NEW a \in Amounts, Close(r, s, a) PROVE Goal
  <2>1. \A q \in Reqs, u \in Sessions :
            IsClosing(q, u)' => IsClosing(q, u) \/ (q = r /\ u = s)
    BY <1>3 DEF Close, TypeOK, IsClosing
  <2>2. /\ doubled \subseteq doubled'
        /\ \A q \in Reqs : IsClosing(q, s) => s \in doubled'
        /\ session' = session /\ Status(s) = "open"
    BY <1>3 DEF Close, IsClosing
  <2>3. OneOpenSession' /\ StarterSawNone'
    BY <1>3, <2>2 DEF Close, TypeOK, OneOpenSession, StarterSawNone, Status
  <2>4. OneCloser'
    BY <2>1, <2>2 DEF OneCloser, Status
  <2> QED BY <2>3, <2>4
<1>4. ASSUME NEW r \in Reqs, SaveOpeningCount(r) \/ SaveClosingCount(r) \/ Fail(r) PROVE Goal
  BY <1>4, EndingKeeps DEF SaveOpeningCount, SaveClosingCount, Fail, Finish, Goto, TypeOK
<1>5. ASSUME NEW r \in Reqs, SaveClosed(r) PROVE Goal
  <2> DEFINE s == job[r].s
  <2>1. s \in Sessions /\ IsClosing(r, s) /\ doubled' = doubled
    BY <1>5 DEF SaveClosed, JobsWellFormed, IsClosing
  <2>2. \A q \in Reqs, u \in Sessions : IsClosing(q, u)' => q # r /\ IsClosing(q, u)
    BY <1>5 DEF SaveClosed, Finish, Idle, TypeOK, IsClosing
  <2>3. \A u \in Sessions : Status(u)' = IF u = s THEN "closed" ELSE Status(u)
    BY <1>5 DEF SaveClosed, TypeOK, Status
  <2>4. OneOpenSession' /\ StarterSawNone'
    BY <1>5, <2>1, <2>3 DEF SaveClosed, Finish, Idle, TypeOK, OneOpenSession, StarterSawNone
  <2>5. OneCloser'
    BY <2>1, <2>2, <2>3 DEF OneCloser
  <2> QED BY <2>4, <2>5
<1>6. ASSUME NEW s \in Sessions, NEW a \in Amounts, InterimCount(s, a) PROVE Goal
  BY <1>6, EndingKeeps DEF InterimCount
<1>7. ASSUME NEW a \in Amounts, RecordPayment(a) PROVE Goal
  BY <1>7, EndingKeeps DEF RecordPayment
<1>8. CASE NextDay \/ UNCHANGED tillVars
  BY <1>8, EndingKeeps DEF NextDay, tillVars
<1> QED
  BY <1>1, <1>2, <1>3, <1>4, <1>5, <1>6, <1>7, <1>8 DEF Next, Handle
-----------------------------------------------------------------------------
\* The invariant of the till: every reachable state satisfies it.
LEMMA TillInit == Init => TillInv
  BY DEF Init, TillInv, TypeOK, JobsWellFormed, TakenIsCash, ClosedHasItsCount,
         CloserHasCounted, OneOpenSession, StarterSawNone, OneCloser, IsClosing, Status,
         None, Idle, Day

\* Every step of the till keeps it.
LEMMA TillStep == TillInv /\ [Next]_tillVars => TillInv'
  BY TillTyping, CountedKept, DoubledNotes DEF TillInv

\* Every reachable state of the till satisfies the invariant, TypeOK with it.
THEOREM TillInvariant == Spec => []TillInv
  BY TillInit, TillStep, PTL DEF Spec

\* A closed session has the closing count it declares, wherever a close failed
\* (closeSession saves the count first).
THEOREM ClosesAreCounted == Spec => []ClosedHasItsCount
<1>1. TillInv => ClosedHasItsCount
  BY DEF TillInv
<1> QED BY <1>1, TillInvariant, PTL

\* Only one session is open, unless two starts overlapped (startSession).
THEOREM OneIsOpen == Spec => []OneOpenSession
<1>1. TillInv => OneOpenSession
  BY DEF TillInv
<1> QED BY <1>1, TillInvariant, PTL

\* No step changes a closed session, unless two closes of it overlapped.
LEMMA ClosedStays ==
    ASSUME TillInv, [Next]_tillVars, NEW s \in Sessions \ doubled, Status(s) = "closed"
    PROVE  session'[s] = session[s]
<1>1. ASSUME NEW r \in Reqs, NEW u \in Sessions, SaveSession(r, u) PROVE u # s
  BY <1>1 DEF SaveSession
<1>2. ASSUME NEW r \in Reqs, SaveClosed(r) PROVE job[r].s # s
  BY <1>2 DEF SaveClosed, TillInv, OneCloser, IsClosing
<1> QED
  BY <1>1, <1>2 DEF Next, Handle, tillVars, TillInv, TypeOK, Start, SaveSession, Close,
         SaveOpeningCount, SaveClosingCount, SaveClosed, Fail, InterimCount, RecordPayment,
         NextDay

\* What the cashier declared at the close, and its day, are final.
THEOREM ClosedStaysClosed == Spec => ClosedIsFinal
<1> DEFINE Step == \A s \in Sessions \ doubled :
                       Status(s) = "closed" => session'[s] = session[s]
<1>1. TillInv /\ [Next]_tillVars => [Step]_tillVars
  BY ClosedStays
<1> QED BY <1>1, TillInvariant, PTL DEF Spec, ClosedIsFinal
-----------------------------------------------------------------------------
\* Every required account has a verified reconciliation covering the date.
Covered(date) == \A a \in Required :
    \E x \in Covering("method", a, date) : x.status = "verified"

\* What a reconciliation row holds.
RecsWellFormed == \A x \in recs :
    x = [scope |-> x.scope, ref |-> x.ref, from |-> x.from, to |-> x.to, status |-> x.status]

\* A request that may move the lock has been told that its date is covered.
LockerSawCover == \A c \in Closers : closing[c].at = "lock" => Covered(closing[c].date)

\* The locals of a period-end request.
CloserLocals == [at : {"idle", "validate", "lock", "record", "open"},
                 date : 0..LastDay, last : 0..LastDay]

\* A period ends on a day.
CloserDates == \A c \in Closers : closing[c].at # "idle" => closing[c].date \in Day

\* Some period is the last one.
HasLast == periods # {} => \E p \in periods : \A q \in periods : q.end <= p.end

\* Alone, a request's last period is still the last one when it records.
Alone == ~overlapped =>
    /\ \A c, d \in Closers : closing[c].at # "idle" /\ closing[d].at # "idle" => c = d
    /\ \A c \in Closers : closing[c].at # "idle" =>
           /\ closing[c].date > closing[c].last
           /\ \A p \in periods : p.end <= closing[c].last
           /\ IF periods = {} THEN closing[c].last = 0
              ELSE \E p \in periods : p.end = closing[c].last
           /\ closing[c].at = "record" => lockEnd = closing[c].date

PeriodsForward == ~overlapped => \A p \in periods : p.start <= p.end

PeriodInv ==
    /\ PeriodTypeOK /\ RecsWellFormed /\ CloserDates
    /\ LockCovered /\ LockerSawCover
    /\ HasLast /\ Alone /\ PeriodsForward /\ PeriodsTile /\ ClosedPeriodsLocked

\* LastEnd is the end of the last period, and 0 before the first.
LEMMA LastEndIsLast ==
    ASSUME PeriodTypeOK, HasLast
    PROVE  /\ LastEnd \in 0..LastDay
           /\ \A p \in periods : p.end <= LastEnd
           /\ IF periods = {} THEN LastEnd = 0 ELSE \E p \in periods : p.end = LastEnd
<1>1. CASE periods = {}
  BY <1>1 DEF LastEnd
<1>2. CASE periods # {}
  <2>1. \E e \in {p.end : p \in periods} : \A p \in periods : p.end <= e
    BY <1>2 DEF HasLast
  <2>2. LastEnd \in {p.end : p \in periods} /\ \A p \in periods : p.end <= LastEnd
    BY <1>2, <2>1 DEF LastEnd
  <2>3. \A p \in periods : p.end \in 0..LastDay
    BY DEF PeriodTypeOK, Day
  <2> QED BY <1>2, <2>2, <2>3
<1> QED BY <1>1, <1>2

\* A reconciliation is never lost: verifying one keeps what it covers.
LEMMA CoverKept ==
    ASSUME RecsWellFormed, NEW date, Covered(date),
           \/ recs' = recs
           \/ \E y : recs' = recs \cup {y}
           \/ \E x \in recs : VerifyReconciliation(x)
    PROVE  Covered(date)'
<1>1. CASE recs \subseteq recs'
  BY <1>1 DEF Covered, Covering
<1>2. ASSUME NEW x \in recs, VerifyReconciliation(x) PROVE Covered(date)'
  <2> DEFINE v == [x EXCEPT !.status = "verified"]
  <2>1. /\ v.scope = x.scope /\ v.ref = x.ref /\ v.from = x.from /\ v.to = x.to
        /\ v.status = "verified"
    BY DEF RecsWellFormed
  <2>2. v \in recs' /\ \A y \in recs : y # x => y \in recs'
    BY <1>2 DEF VerifyReconciliation
  <2> HIDE DEF v
  <2> SUFFICES ASSUME NEW a \in Required
               PROVE  \E y \in Covering("method", a, date)' : y.status = "verified"
    BY DEF Covered
  <2>3. PICK y \in Covering("method", a, date) : y.status = "verified"
    BY DEF Covered
  <2>4. CASE y = x
    BY <2>1, <2>2, <2>3, <2>4 DEF Covering
  <2>5. CASE y # x
    BY <2>2, <2>3, <2>5 DEF Covering
  <2> QED BY <2>4, <2>5
<1> QED BY <1>1, <1>2

\* A validation that passes has seen every required account covered.
LEMMA MayPassCovers == ASSUME NEW date, MayPass(date) PROVE Covered(date)
<1>1. \A a \in Required : <<"method", a>> \in Scopes(date)
  BY DEF Scopes
<1> QED BY <1>1 DEF MayPass, Covered
-----------------------------------------------------------------------------
\* The till below steps as it does alone, or not at all.
LEMMA PeriodStepsTill == PeriodNext => [Next]_tillVars
  BY DEF PeriodNext, CreateReconciliation, ReconcileSession, VerifyReconciliation, EndPeriod,
         BeginClose, Validate, Lock, Record, BeginOpen, RecordOpen, FailClose

\* So what holds of the till alone holds of it under the period's requests.
LEMMA PeriodIsTill == PeriodSpec => Spec
<1>1. PeriodInit => Init
  BY DEF PeriodInit
<1>2. [PeriodNext]_vars => [Next]_tillVars
  BY PeriodStepsTill DEF vars
<1> QED BY <1>1, <1>2, PTL DEF PeriodSpec, Spec

\* A step that leaves the periods, the lock and their requests alone keeps the
\* invariant when it keeps the reconciliations.
LEMMA RecsStep ==
    ASSUME PeriodInv, TypeOK', UNCHANGED periodVars,
           RecsWellFormed', \A x \in recs' : x.status \in {"draft", "verified"}
                                             /\ x.from \in Nat /\ x.to \in Nat,
           \/ recs' = recs
           \/ \E y : recs' = recs \cup {y}
           \/ \E x \in recs : VerifyReconciliation(x)
    PROVE  PeriodInv'
<1>1. \A date : Covered(date) => Covered(date)'
  BY CoverKept DEF PeriodInv
<1>2. LockCovered' /\ LockerSawCover'
  BY <1>1 DEF PeriodInv, periodVars, LockCovered, LockerSawCover, Covered
<1>3. PeriodTypeOK'
  BY DEF PeriodInv, PeriodTypeOK, periodVars
<1>4. (CloserDates /\ HasLast /\ Alone /\ PeriodsForward /\ PeriodsTile /\ ClosedPeriodsLocked)'
  BY DEF PeriodInv, periodVars, CloserDates, HasLast, Alone, PeriodsForward, PeriodsTile,
         ClosedPeriodsLocked
<1> QED BY <1>2, <1>3, <1>4 DEF PeriodInv

\* A request reads the last period and begins: it is after it.
LEMMA BeginStep ==
    ASSUME PeriodInv, NEW c \in Closers, NEW date \in Day, NEW at \in {"validate", "open"},
           closing[c] = Resting, date > LastEnd,
           closing' = [closing EXCEPT ![c] = [at |-> at, date |-> date, last |-> LastEnd]],
           NoteOverlap(c), UNCHANGED <<periods, lockEnd, recs, tillVars>>
    PROVE  PeriodInv'
<1>1. /\ LastEnd \in 0..LastDay /\ \A p \in periods : p.end <= LastEnd
      /\ IF periods = {} THEN LastEnd = 0 ELSE \E p \in periods : p.end = LastEnd
  BY LastEndIsLast DEF PeriodInv
<1>2. PeriodTypeOK'
  <2>1. [at |-> at, date |-> date, last |-> LastEnd] \in CloserLocals
    BY <1>1 DEF CloserLocals, Day
  <2>2. closing' \in [Closers -> CloserLocals]
    BY <2>1 DEF PeriodInv, PeriodTypeOK, CloserLocals
  <2>3. overlapped' \in BOOLEAN
    BY DEF PeriodInv, PeriodTypeOK, NoteOverlap
  <2>4. TypeOK'
    BY DEF PeriodInv, PeriodTypeOK, TypeOK, tillVars, Day
  <2> QED BY <2>2, <2>3, <2>4 DEF PeriodInv, PeriodTypeOK, CloserLocals, Day
<1>3. closing'[c] = [at |-> at, date |-> date, last |-> LastEnd]
      /\ \A d \in Closers \ {c} : closing'[d] = closing[d]
  BY DEF PeriodInv, PeriodTypeOK
<1>4. RecsWellFormed' /\ LockCovered' /\ HasLast'
  BY DEF PeriodInv, RecsWellFormed, LockCovered, Covering, HasLast
<1>5. LockerSawCover' /\ CloserDates'
  BY <1>3 DEF CloserDates, PeriodInv, LockerSawCover, Covered, Covering
<1>6. ~overlapped' => ~overlapped /\ \A d \in Closers \ {c} : closing'[d].at = "idle"
  <2>1. overlapped' \/ ~(overlapped \/ \E d \in Closers \ {c} : closing[d] # Resting)
    BY DEF NoteOverlap
  <2> QED BY <1>3, <2>1 DEF Resting
<1>7. Alone'
  BY <1>1, <1>3, <1>6 DEF Alone
<1>8. PeriodsForward' /\ PeriodsTile' /\ ClosedPeriodsLocked'
  BY <1>6 DEF PeriodInv, PeriodsForward, PeriodsTile, ClosedPeriodsLocked
<1> QED BY <1>2, <1>4, <1>5, <1>7, <1>8 DEF PeriodInv

\* A request that ends, or moves on with its date, while the periods stay.
LEMMA MoveStep ==
    ASSUME PeriodInv, NEW c \in Closers, Rest(c) \/ Validate(c) \/ Lock(c),
           UNCHANGED <<periods, overlapped, recs, tillVars>>, Rest(c) => UNCHANGED lockEnd
    PROVE  PeriodInv'
<1>1. closing[c] \in CloserLocals /\ Resting \in CloserLocals
  BY DEF PeriodInv, PeriodTypeOK, CloserLocals, Resting
<1>2. /\ \A d \in Closers \ {c} : closing'[d] = closing[d]
      /\ \/ closing'[c] = Resting
         \/ closing'[c].at = "lock" /\ Validate(c) /\ MayPass(closing[c].date)
         \/ closing'[c].at = "record" /\ Lock(c)
      /\ closing'[c] # Resting => /\ closing'[c].date = closing[c].date
                                  /\ closing'[c].last = closing[c].last
                                  /\ closing[c].at # "idle"
      /\ closing' \in [Closers -> CloserLocals]
  BY <1>1 DEF PeriodInv, PeriodTypeOK, Rest, Validate, Lock, To, CloserLocals
<1>3. lockEnd' = lockEnd \/ (Lock(c) /\ lockEnd' = closing[c].date /\ closing[c].at = "lock")
  BY DEF Rest, Validate, Lock
<1>4. PeriodTypeOK'
  <2>1. TypeOK'
    BY DEF PeriodInv, PeriodTypeOK, TypeOK, tillVars, Day
  <2>2. lockEnd' \in 0..LastDay
    BY <1>1, <1>3 DEF PeriodInv, PeriodTypeOK, CloserLocals
  <2> QED BY <1>2, <2>1, <2>2 DEF PeriodInv, PeriodTypeOK, CloserLocals, Day
<1>5. RecsWellFormed' /\ HasLast'
  BY DEF PeriodInv, RecsWellFormed, HasLast
<1>6. \A date : Covered(date)' <=> Covered(date)
  BY DEF Covered, Covering
<1>7. LockCovered'
  BY <1>3, <1>6 DEF PeriodInv, LockCovered, LockerSawCover, Covered
<1>8. LockerSawCover'
  <2>1. MayPass(closing[c].date) => Covered(closing[c].date)
    BY MayPassCovers
  <2>2. closing'[c].at = "lock" => MayPass(closing[c].date) /\ closing'[c].date = closing[c].date
    BY <1>2 DEF Resting
  <2>3. ASSUME NEW d \in Closers, closing'[d].at = "lock" PROVE Covered(closing'[d].date)
    <3>1. CASE d = c
      BY <2>1, <2>2, <2>3, <3>1
    <3>2. CASE d # c
      BY <1>2, <2>3, <3>2 DEF PeriodInv, LockerSawCover
    <3> QED BY <3>1, <3>2
  <2> QED BY <2>3 DEF LockerSawCover, Covered, Covering
<1>9. Alone' /\ CloserDates'
  BY <1>2, <1>3 DEF PeriodInv, CloserDates, Alone, Resting, Lock
<1>10. PeriodsForward' /\ PeriodsTile'
  BY DEF PeriodInv, PeriodsForward, PeriodsTile
<1>11. ClosedPeriodsLocked'
  BY <1>1, <1>3 DEF PeriodInv, PeriodTypeOK, CloserLocals, Day, Alone, ClosedPeriodsLocked
<1> QED BY <1>4, <1>5, <1>7, <1>8, <1>9, <1>10, <1>11 DEF PeriodInv

\* The new row starts on the day after the last period, unless requests overlap.
LEMMA RecordStep ==
    ASSUME PeriodInv, NEW c \in Closers, NEW by \in {"close", "open"},
           closing[c].at = IF by = "close" THEN "record" ELSE "open",
           periods' = periods \cup {Row(c, by)}, Rest(c),
           UNCHANGED <<lockEnd, overlapped, recs, tillVars>>
    PROVE  PeriodInv'
<1> DEFINE row == Row(c, by)
<1>1. closing[c] \in CloserLocals /\ Resting \in CloserLocals
  BY DEF PeriodInv, PeriodTypeOK, CloserLocals, Resting
<1>2. row.start = closing[c].last + 1 /\ row.end = closing[c].date /\ row.by = by
  BY DEF Row
<1>3. /\ closing'[c].at = "idle" /\ \A d \in Closers \ {c} : closing'[d] = closing[d]
      /\ closing' \in [Closers -> CloserLocals]
  BY <1>1 DEF PeriodInv, PeriodTypeOK, Rest, Resting, CloserLocals
<1>4. closing[c].date \in Day /\ closing[c].last \in 0..LastDay
  BY <1>1 DEF PeriodInv, CloserDates, CloserLocals
<1>5. PeriodTypeOK'
  <2>1. TypeOK'
    BY DEF PeriodInv, PeriodTypeOK, TypeOK, tillVars, Day
  <2>2. row \in [start : 1..LastDay + 1, end : Day, by : {"close", "open"}]
    BY <1>4 DEF Row, Day
  <2> QED BY <1>3, <2>1, <2>2 DEF PeriodInv, PeriodTypeOK, CloserLocals, Day
<1>6. RecsWellFormed' /\ LockCovered' /\ LockerSawCover' /\ CloserDates'
  BY <1>3 DEF PeriodInv, RecsWellFormed, LockCovered, LockerSawCover, CloserDates, Covered,
              Covering
<1>7. \A p \in periods : p.end \in Nat /\ p.start \in Nat
  BY DEF PeriodInv, PeriodTypeOK, Day
<1>8. ~overlapped =>
          /\ \A d \in Closers : closing'[d].at = "idle"
          /\ closing[c].date > closing[c].last
          /\ \A p \in periods : p.end <= closing[c].last
          /\ IF periods = {} THEN closing[c].last = 0
             ELSE \E p \in periods : p.end = closing[c].last
          /\ by = "close" => lockEnd = closing[c].date
  BY <1>3 DEF PeriodInv, Alone
<1>9. periods' = periods \cup {row}
  OBVIOUS
<1> HIDE DEF row
<1>10. HasLast'
  <2>1. CASE \A q \in periods : q.end <= closing[c].date
    BY <1>9, <1>2, <1>4, <2>1 DEF HasLast, Day
  <2>2. CASE \E q \in periods : ~(q.end <= closing[c].date)
    <3>1. PICK p \in periods : \A q \in periods : q.end <= p.end
      BY <2>2 DEF PeriodInv, HasLast
    <3>2. closing[c].date <= p.end
      BY <1>4, <1>7, <2>2, <3>1 DEF Day
    <3> QED BY <1>9, <1>2, <3>1, <3>2 DEF HasLast
  <2> QED BY <2>1, <2>2
<1>11. Alone'
  BY <1>8 DEF Alone
<1>12. PeriodsForward'
  BY <1>9, <1>2, <1>4, <1>8 DEF PeriodInv, PeriodsForward, Day
<1>13. PeriodsTile'
  <2> SUFFICES ASSUME ~overlapped PROVE PeriodsTile'
    BY DEF PeriodsTile
  <2>1. \A p \in periods : p.end < row.start
    BY <1>2, <1>4, <1>7, <1>8
  <2>2. row.start = 1 \/ \E q \in periods : q.end + 1 = row.start
    BY <1>2, <1>8
  <2>3. /\ \A p, q \in periods : p # q => p.end < q.start \/ q.end < p.start
        /\ \A p \in periods : p.start = 1 \/ \E q \in periods : q.end + 1 = p.start
    BY DEF PeriodInv, PeriodsTile
  <2> QED BY <1>9, <2>1, <2>2, <2>3 DEF PeriodsTile
<1>14. ClosedPeriodsLocked'
  BY <1>9, <1>2, <1>4, <1>8 DEF PeriodInv, ClosedPeriodsLocked, Day
<1> QED
  BY <1>5, <1>6, <1>10, <1>11, <1>12, <1>13, <1>14 DEF PeriodInv
-----------------------------------------------------------------------------
\* Every step keeps the invariant.
LEMMA PeriodStep == PeriodInv /\ TypeOK' /\ [PeriodNext]_vars => PeriodInv'
<1> SUFFICES ASSUME PeriodInv, TypeOK', [PeriodNext]_vars PROVE PeriodInv'
  OBVIOUS
<1>1. CASE UNCHANGED <<recs, periodVars>>
  BY <1>1, RecsStep DEF PeriodInv, PeriodTypeOK, RecsWellFormed
<1>2. ASSUME NEW scope, NEW ref, NEW from \in Nat, NEW to \in Nat, UNCHANGED periodVars,
             Draft([scope |-> scope, ref |-> ref, from |-> from, to |-> to])
      PROVE  PeriodInv'
  <2> DEFINE y == [scope |-> scope, ref |-> ref, from |-> from, to |-> to, status |-> "draft"]
  <2>1. recs' = recs \cup {y}
    BY <1>2 DEF Draft
  <2>2. RecsWellFormed'
    BY <2>1 DEF PeriodInv, RecsWellFormed
  <2>3. y.status = "draft" /\ y.from \in Nat /\ y.to \in Nat
    OBVIOUS
  <2> HIDE DEF y
  <2>4. \A x \in recs' : x.status \in {"draft", "verified"} /\ x.from \in Nat /\ x.to \in Nat
    BY <2>1, <2>3 DEF PeriodInv, PeriodTypeOK
  <2> QED BY <1>2, <2>1, <2>2, <2>4, RecsStep
<1>3. ASSUME NEW m \in Manual, CreateReconciliation(m) PROVE PeriodInv'
  <2>1. Draft([scope |-> m.scope, ref |-> m.ref, from |-> m.from, to |-> m.to])
    BY <1>3 DEF CreateReconciliation, Draft
  <2> QED BY <1>2, <1>3, <2>1, PeriodAssumption DEF CreateReconciliation, PeriodAssumption
<1>4. ASSUME NEW s \in Sessions, ReconcileSession(s) PROVE PeriodInv'
  <2>1. session[s].opened \in Nat /\ session[s].closed \in Nat
    BY DEF PeriodInv, PeriodTypeOK, TypeOK
  <2> QED BY <1>2, <1>4, <2>1 DEF ReconcileSession
<1>5. ASSUME NEW x \in recs, VerifyReconciliation(x) PROVE PeriodInv'
  <2> DEFINE v == [x EXCEPT !.status = "verified"]
  <2>1. /\ v = [scope |-> x.scope, ref |-> x.ref, from |-> x.from, to |-> x.to,
                status |-> "verified"]
        /\ v.from = x.from /\ v.to = x.to /\ v.status = "verified"
    BY DEF PeriodInv, RecsWellFormed
  <2>2. recs' = (recs \ {x}) \cup {v}
    BY <1>5 DEF VerifyReconciliation
  <2>3. RecsWellFormed'
    BY <2>1, <2>2 DEF PeriodInv, RecsWellFormed
  <2> HIDE DEF v
  <2>4. \A y \in recs' : y.status \in {"draft", "verified"} /\ y.from \in Nat /\ y.to \in Nat
    BY <2>1, <2>2 DEF PeriodInv, PeriodTypeOK
  <2> QED BY <1>5, <2>3, <2>4, RecsStep DEF VerifyReconciliation
<1>6. ASSUME NEW c \in Closers, NEW d \in Day, BeginClose(c, d) \/ BeginOpen(c, d)
      PROVE  PeriodInv'
  BY <1>6, BeginStep DEF BeginClose, BeginOpen
<1>7. ASSUME NEW c \in Closers, Validate(c) \/ Lock(c) \/ FailClose(c) PROVE PeriodInv'
  <2>1. Rest(c) => UNCHANGED lockEnd
    BY <1>7 DEF PeriodInv, PeriodTypeOK, Rest, Validate, Lock, FailClose, To, Resting
  <2> QED BY <1>7, <2>1, MoveStep DEF Validate, Lock, FailClose
<1>8. ASSUME NEW c \in Closers, Record(c) \/ RecordOpen(c) PROVE PeriodInv'
  BY <1>8, RecordStep DEF Record, RecordOpen
<1> QED
  BY <1>1, <1>3, <1>4, <1>5, <1>6, <1>7, <1>8 DEF PeriodNext, EndPeriod, vars

\* Every reachable state satisfies the invariant of the periods.
THEOREM PeriodInvariant == PeriodSpec => []PeriodInv
<1>1. PeriodInit => PeriodInv
  <2> SUFFICES ASSUME PeriodInit PROVE PeriodInv
    OBVIOUS
  <2>1. TypeOK /\ \A c \in Closers : closing[c].at = "idle"
    BY TillInit DEF PeriodInit, TillInv, Resting
  <2>2. PeriodTypeOK
    <3>1. 0 \in 0..LastDay
      OBVIOUS
    <3>2. closing \in [Closers -> CloserLocals]
      BY <3>1 DEF PeriodInit, Resting, CloserLocals
    <3> QED BY <2>1, <3>1, <3>2 DEF PeriodInit, PeriodTypeOK, CloserLocals
  <2>3. RecsWellFormed /\ CloserDates /\ LockCovered /\ LockerSawCover
    BY <2>1 DEF PeriodInit, RecsWellFormed, CloserDates, LockCovered, LockerSawCover
  <2>4. HasLast /\ Alone /\ PeriodsForward /\ PeriodsTile /\ ClosedPeriodsLocked
    BY <2>1 DEF PeriodInit, HasLast, Alone, PeriodsForward, PeriodsTile, ClosedPeriodsLocked
  <2> QED BY <2>2, <2>3, <2>4 DEF PeriodInv
<1>2. TillInv => TypeOK
  BY DEF TillInv
<1> QED
  BY <1>1, <1>2, PeriodStep, PeriodIsTill, TillInvariant, PTL DEF PeriodSpec

\* The books are locked up to a date only when every required account has a
\* verified reconciliation covering it (closeAccountingPeriod validates first).
THEOREM LocksAreCovered == PeriodSpec => []LockCovered
<1>1. PeriodInv => LockCovered
  BY DEF PeriodInv
<1> QED BY <1>1, PeriodInvariant, PTL

\* Period-end requests that do not overlap tile the calendar
\* (createAccountingPeriod starts after the last closed period).
THEOREM PeriodsDoTile == PeriodSpec => []PeriodsTile
<1>1. PeriodInv => PeriodsTile
  BY DEF PeriodInv
<1> QED BY <1>1, PeriodInvariant, PTL

\* And what they closed stays behind the lock (createPeriodLock).
THEOREM ClosedStaysLocked == PeriodSpec => []ClosedPeriodsLocked
<1>1. PeriodInv => ClosedPeriodsLocked
  BY DEF PeriodInv
<1> QED BY <1>1, PeriodInvariant, PTL
-----------------------------------------------------------------------------
(* Team, Registration and Otp *)

HIDE CashierAssumption DEF CashierAssumption

Person == Phone \cup Colleague
Mail   == Person \cup {NoEmail, NoAdministrator} \cup {x.email : x \in Inputs}
Codes  == {<<>>} \cup {<<n>> : n \in STRING \cup Person} \cup (STRING \X Call \X Nat)

\* The stages of a request: those of OtpService, the answers, those of a
\* registration that holds its data and of its transaction, and those of a team.
Asking      == {"rate", "store", "sms", "read", "tries", "wrong", "spend", "verified"}
Answering   == {"refused", "asked", "done"}
Founding    == {"channel", "role", "save", "attach", "link", "commit"}
Registering == {"lookup"} \cup Founding
Inviting    == {"count", "create", "roles", "join", "clear", "remove"}
Signing     == {"askRegister", "askLogin", "register", "login"}

\* Rows and locals where there are n users, m companies and k registrations.
UserRow(m) ==
    [phone : Person, email : Mail, auth : {"unset", "PENDING", "REJECTED"},
     roles : SUBSET (1..m)]
CompanyRow ==
    [code : Codes, session : Int, phone : Person, status : {"UNAPPROVED", "APPROVED", "DISABLED"}]
Locals(n, m, k) ==
    [op : Signing \cup {"invite", "disable"},
     at : Asking \cup Answering \cup {"drop", "pend", "token"} \cup Registering \cup Inviting,
     phone : Person, session : 0..k, data : Inputs \cup {Gone}, guess : Int,
     stored : Int, wrong : Int, user : 0..n, code : Codes,
     seen : SUBSET (1..m), dropped : SUBSET (1..m), roles : SUBSET (1..m),
     unlinked : SUBSET (1..m), raced : BOOLEAN, company : 0..m]

\* What a request holds at each stage.
Sound(r) ==
    /\ r.op \in Signing <=> r.at \notin Inviting
    /\ r.at \in Asking => r.phone \in Phone
    /\ r.op \in {"register", "askRegister"} => r.session # 0
    /\ r.at \in {"drop", "pend"} \cup Registering => r.op = "register"
    /\ r.at \in {"drop"} \cup Registering => r.data \in Inputs
    /\ r.at \in {"attach", "link", "pend", "roles", "join", "clear", "remove"} => r.user # 0
    /\ r.at \in {"token"} \cup Inviting => r.company # 0
    /\ r.at \notin {"commit", "pend"} => r.unlinked = {}

Fine(r, n, m, k) == r = NoRequest \/ (r \in Locals(n, m, k) /\ Sound(r))

OtpTyped ==
    /\ code \in [Phone -> Nat] /\ tries \in [Phone -> Nat] /\ issued \in Nat
    /\ sent \in [Phone -> SUBSET Int]

RowsTyped ==
    /\ stored \in Seq(Inputs \cup {Gone})
    /\ users \in Seq(UserRow(Len(companies))) /\ companies \in Seq(CompanyRow)
    /\ managed \subseteq 1..Len(companies) /\ inside \subseteq 1..Len(companies)
    /\ form \in [session : 0..Len(stored), loading : BOOLEAN, login : BOOLEAN]

CallsTyped ==
    /\ DOMAIN call = Call
    /\ \A c \in Call : Fine(call[c], Len(users), Len(companies), Len(stored))

TeamTyped == OtpTyped /\ RowsTyped /\ CallsTyped
-----------------------------------------------------------------------------
\* An answer is fine.
LEMMA AnswerFine ==
    ASSUME NEW n \in Nat, NEW m \in Nat, NEW k \in Nat, NEW c \in Call,
           call[c] \in Locals(n, m, k), Sound(call[c]), call[c].op \in Signing,
           NEW at \in Answering \cup {"verified"}, at = "verified" => call[c].phone \in Phone
    PROVE  Fine(Answered(c, at), n, m, k)
<1>1. <<>> \in Codes
  BY DEF Codes
<1>2. Answered(c, at) \in Locals(n, m, k)
  BY <1>1 DEF Answered, NewCall, Locals, NoCode, Answering, Asking
<1> QED BY <1>2 DEF Fine, Sound, Answered, NewCall, Answering, Asking, Registering, Founding, Inviting, Signing

\* Moving on to another stage of OtpService is.
LEMMA GoesFine ==
    ASSUME NEW n \in Nat, NEW m \in Nat, NEW k \in Nat,
           NEW r, r \in Locals(n, m, k), Sound(r), r.at \in Asking, NEW at \in Asking
    PROVE  Fine([r EXCEPT !.at = at], n, m, k)
<1>2. [r EXCEPT !.at = at] \in Locals(n, m, k)
  BY DEF Locals, Asking
<1> QED BY <1>2 DEF Fine, Sound, Locals, Answering, Asking, Registering, Founding, Inviting, Signing

Lens == Len(users) \in Nat /\ Len(companies) \in Nat /\ Len(stored) \in Nat

Grows == Len(users) <= Len(users') /\ Len(companies) <= Len(companies') /\ Len(stored) <= Len(stored')

LEMMA LensTyped == RowsTyped => Lens
  BY DEF RowsTyped, Lens

\* A step that changes one request, for a fine one, keeps the types.
LEMMA CallsKeep ==
    ASSUME TeamTyped, OtpTyped', RowsTyped', Grows, NEW c \in Call,
           DOMAIN call' = Call, \A d \in Call \ {c} : call'[d] = call[d],
           Fine(call'[c], Len(users'), Len(companies'), Len(stored'))
    PROVE  TeamTyped'
<1>1. Lens /\ Lens'
  BY LensTyped DEF TeamTyped, RowsTyped, Lens
<1>2. \A d \in Call : Fine(call'[d], Len(users'), Len(companies'), Len(stored'))
  <2> TAKE d \in Call
  <2>1. CASE d = c
    BY <2>1
  <2>2. CASE d # c
    <3>1. call'[d] = call[d] /\ Fine(call[d], Len(users), Len(companies), Len(stored))
      BY <2>2 DEF TeamTyped, CallsTyped
    <3>2. PICK n \in Nat, m \in Nat, k \in Nat :
            n = Len(users) /\ m = Len(companies) /\ k = Len(stored)
      BY <1>1 DEF Lens
    <3>3. PICK nn \in Nat, mm \in Nat, kk \in Nat :
            nn = Len(users') /\ mm = Len(companies') /\ kk = Len(stored')
      BY <1>1 DEF Lens
    <3>4. n <= nn /\ m <= mm /\ k <= kk
      BY <3>2, <3>3 DEF Grows
    <3>5. PICK r : r = call[d]
      OBVIOUS
    <3>6. Fine(r, n, m, k)
      BY <3>1, <3>2, <3>5
    <3>7. 0..n \subseteq 0..nn /\ 0..m \subseteq 0..mm /\ 0..k \subseteq 0..kk /\ 1..m \subseteq 1..mm
      BY <3>4
    <3>8. Fine(r, nn, mm, kk)
      BY <3>6, <3>7 DEF Fine, Locals
    <3> QED BY <3>3, <3>5, <3>8
  <2> QED BY <2>1, <2>2
<1> QED BY <1>2 DEF TeamTyped, CallsTyped

\* A step that moves a request only.
LEMMA CallMoves ==
    ASSUME TeamTyped, NEW c \in Call, NEW v, Fine(v, Len(users), Len(companies), Len(stored)),
           call' = [call EXCEPT ![c] = v], UNCHANGED <<users, companies, stored>>,
           OtpTyped', managed' = managed, inside' \subseteq 1..Len(companies),
           form' \in [session : 0..Len(stored), loading : BOOLEAN, login : BOOLEAN]
    PROVE  TeamTyped'
<1>1. DOMAIN call' = Call /\ call'[c] = v /\ \A d \in Call \ {c} : call'[d] = call[d]
  BY DEF TeamTyped, CallsTyped
<1>2. Lens
  BY LensTyped DEF TeamTyped
<1>3. RowsTyped'
  BY <1>2 DEF TeamTyped, RowsTyped, Lens
<1> QED BY <1>1, <1>2, <1>3, CallsKeep DEF Lens, Grows

\* A request that is at some stage has its locals.
LEMMA AtStage ==
    ASSUME TeamTyped, NEW c \in Call, call[c].at # "idle"
    PROVE  /\ call[c] \in Locals(Len(users), Len(companies), Len(stored)) /\ Sound(call[c])
           /\ Lens /\ DOMAIN call = Call
<1>1. Fine(call[c], Len(users), Len(companies), Len(stored)) /\ DOMAIN call = Call
  BY DEF TeamTyped, CallsTyped
<1>2. call[c] # NoRequest
  BY DEF NoRequest
<1> QED BY <1>1, <1>2, LensTyped DEF Fine, TeamTyped

LEMMA OtpTypes ==
    ASSUME TeamTyped, NEW c \in Call, OtpStep(c), UNCHANGED regVars
    PROVE  TeamTyped'
<1> DEFINE r == call[c]
<1>1. r.at \in Asking
  BY DEF OtpStep, CheckRate, StoreCode, SendCode, ReadCode, ReadTries, RejectCode, SpendCode, Asking
<1>2. r \in Locals(Len(users), Len(companies), Len(stored)) /\ Sound(r) /\ Lens /\ DOMAIN call = Call
  BY <1>1, AtStage DEF Asking
<1>3. r.phone \in Phone /\ r.op \in Signing /\ r.guess \in Int
  BY <1>1, <1>2 DEF Sound, Asking, Inviting, Locals
<1>4. \A at \in Answering \cup {"verified"} :
        Fine(Answered(c, at), Len(users), Len(companies), Len(stored))
  BY <1>2, <1>3, AnswerFine DEF Lens
<1>5. \A at \in Asking : Fine([r EXCEPT !.at = at], Len(users), Len(companies), Len(stored))
  BY <1>1, <1>2, GoesFine DEF Lens
<1>6. OtpTyped'
  <2>1. CASE CheckRate(c)
    BY <2>1 DEF CheckRate, TeamTyped, OtpTyped
  <2>2. CASE StoreCode(c)
    BY <2>2, <1>3 DEF StoreCode, TeamTyped, OtpTyped
  <2>3. CASE SendCode(c)
    BY <2>3, <1>2, <1>3 DEF SendCode, TeamTyped, OtpTyped, Locals
  <2>4. CASE ReadCode(c)
    BY <2>4 DEF ReadCode, TeamTyped, OtpTyped
  <2>5. CASE ReadTries(c) \/ RejectCode(c) \/ SpendCode(c)
    BY <2>5, <1>3 DEF ReadTries, RejectCode, SpendCode, DeleteCode, NoCode, TeamTyped, OtpTyped
  <2> QED BY <2>1, <2>2, <2>3, <2>4, <2>5 DEF OtpStep
<1>7. /\ DOMAIN call' = Call /\ \A d \in Call \ {c} : call'[d] = call[d]
      /\ Fine(call'[c], Len(users), Len(companies), Len(stored))
  <2>1. CASE CheckRate(c)
    BY <2>1, <1>2, <1>4, <1>5 DEF CheckRate, Refuse, Answer, Goes, Asking, Answering
  <2>2. CASE StoreCode(c)
    <3>1. issued + 1 \in Int
      BY DEF TeamTyped, OtpTyped
    <3>2. PICK q : q = [r EXCEPT !.at = "sms", !.stored = issued + 1]
      OBVIOUS
    <3>3. q \in Locals(Len(users), Len(companies), Len(stored)) /\ Sound(q)
      <4>1. q \in Locals(Len(users), Len(companies), Len(stored))
        BY <1>1, <1>2, <3>1, <3>2 DEF Locals, Asking
      <4>2. Sound(q)
        BY <1>1, <1>2, <3>1, <3>2 DEF Locals, Sound, Asking, Inviting, Registering, Founding
      <4> QED BY <4>1, <4>2
    <3>4. call' = [call EXCEPT ![c] = q]
      BY <2>2, <3>2, <1>2 DEF StoreCode
    <3> QED BY <1>2, <3>3, <3>4 DEF Fine
  <2>3. CASE SendCode(c) \/ RejectCode(c) \/ SpendCode(c)
    BY <2>3, <1>2, <1>4 DEF SendCode, RejectCode, SpendCode, Refuse, Answer, Answering
  <2>4. CASE ReadCode(c)
    <3>1. CASE code[r.phone] = NoCode
      BY <2>4, <3>1, <1>2, <1>4 DEF ReadCode, Refuse, Answer, Answering
    <3>2. CASE code[r.phone] # NoCode
      <4>1. code[r.phone] \in Int
        BY <1>3 DEF TeamTyped, OtpTyped
      <4>2. PICK q : q = [r EXCEPT !.at = "tries", !.stored = code[r.phone]]
        OBVIOUS
      <4>3. q \in Locals(Len(users), Len(companies), Len(stored)) /\ Sound(q)
        <5>1. q \in Locals(Len(users), Len(companies), Len(stored))
          BY <1>1, <1>2, <4>1, <4>2 DEF Locals, Asking
        <5>2. Sound(q)
          BY <1>1, <1>2, <4>1, <4>2 DEF Locals, Sound, Asking, Inviting, Registering, Founding
        <5> QED BY <5>1, <5>2
      <4>4. call' = [call EXCEPT ![c] = q]
        BY <2>4, <3>2, <4>2, <1>2 DEF ReadCode
      <4> QED BY <1>2, <4>3, <4>4 DEF Fine
    <3> QED BY <3>1, <3>2
  <2>5. CASE ReadTries(c)
    <3>1. CASE tries[r.phone] >= MaxAttempts
      BY <2>5, <3>1, <1>2, <1>4 DEF ReadTries, Refuse, Answer, Answering
    <3>2. CASE ~(tries[r.phone] >= MaxAttempts)
      <4>1. tries[r.phone] \in Int
        BY <1>3 DEF TeamTyped, OtpTyped
      <4>2. PICK at : at = IF r.guess = r.stored THEN "spend" ELSE "wrong"
        OBVIOUS
      <4>3. PICK q : q = [r EXCEPT !.wrong = tries[r.phone], !.at = at]
        OBVIOUS
      <4>4. q \in Locals(Len(users), Len(companies), Len(stored)) /\ Sound(q)
        <5>1. q \in Locals(Len(users), Len(companies), Len(stored))
          BY <1>1, <1>2, <4>1, <4>2, <4>3 DEF Locals, Asking
        <5>2. Sound(q)
          BY <1>1, <1>2, <4>1, <4>2, <4>3 DEF Locals, Sound, Asking, Inviting, Registering, Founding
        <5> QED BY <5>1, <5>2
      <4>5. call' = [call EXCEPT ![c] = q]
        BY <2>5, <3>2, <4>2, <4>3, <1>2 DEF ReadTries
      <4> QED BY <1>2, <4>4, <4>5 DEF Fine
    <3> QED BY <3>1, <3>2
  <2> QED BY <2>1, <2>2, <2>3, <2>4, <2>5 DEF OtpStep
<1>8. RowsTyped' /\ Grows /\ UNCHANGED <<users, companies, stored>>
  BY <1>2 DEF regVars, TeamTyped, RowsTyped, Grows, Lens
<1> QED BY <1>6, <1>7, <1>8, CallsKeep

\* A step that moves a request, and touches nothing else the types are about.
LEMMA OneMoves ==
    ASSUME TeamTyped, NEW c \in Call, NEW v, Fine(v, Len(users), Len(companies), Len(stored)),
           call' = [call EXCEPT ![c] = v],
           UNCHANGED <<code, tries, sent, issued, stored, users, companies, managed, inside, form>>
    PROVE  TeamTyped'
<1>1. OtpTyped'
  BY DEF TeamTyped, OtpTyped
<1>2. managed' = managed /\ inside' \subseteq 1..Len(companies) /\ UNCHANGED <<users, companies, stored>>
      /\ form' \in [session : 0..Len(stored), loading : BOOLEAN, login : BOOLEAN]
  BY DEF TeamTyped, RowsTyped
<1> QED BY <1>1, <1>2, CallMoves

\* The call of a mutation that asks for a code, or submits one, is fine.
LEMMA NewFine ==
    ASSUME NEW n \in Nat, NEW m \in Nat, NEW k \in Nat, NEW op \in Signing,
           NEW at \in {"rate", "read"}, NEW p \in Phone, NEW s \in 0..k, NEW guess \in Int,
           NEW data \in Inputs \cup {Gone}, op \in {"register", "askRegister"} => s # 0
    PROVE  Fine(NewCall(op, at, p, s, data, guess), n, m, k)
<1>1. <<>> \in Codes
  BY DEF Codes
<1> DEFINE r == NewCall(op, at, p, s, data, guess)
<1>2. r \in Locals(n, m, k)
  BY <1>1 DEF NewCall, Locals, NoCode, Asking, Person
<1>3. r.op = op /\ r.at = at /\ r.phone = p /\ r.session = s /\ r.unlinked = {}
  BY DEF NewCall
<1>4. Sound(r)
  BY <1>3 DEF Sound, Answering, Asking, Registering, Founding, Inviting, Signing
<1> QED BY <1>2, <1>4 DEF Fine

LEMMA NoRequestFine == \A n, m, k : Fine(NoRequest, n, m, k)
  BY DEF Fine

LEMMA AskToRegisterTypes ==
    ASSUME TeamTyped, NEW c \in Call, NEW p \in Phone, NEW input \in Inputs, AskToRegister(c, p, input)
    PROVE  TeamTyped'
<1>1. Lens
  BY LensTyped DEF TeamTyped
<1>2. stored' \in Seq(Inputs \cup {Gone}) /\ Len(stored') = Len(stored) + 1
  BY DEF AskToRegister, TeamTyped, RowsTyped
<1>3. UNCHANGED <<code, tries, sent, issued, users, companies, managed, inside>>
  BY DEF AskToRegister
<1>4. form' \in [session : 0..Len(stored'), loading : BOOLEAN, login : BOOLEAN]
  <2>1. form' = [form EXCEPT !.loading = TRUE]
    BY DEF AskToRegister
  <2>2. form \in [session : 0..Len(stored), loading : BOOLEAN, login : BOOLEAN]
    BY DEF TeamTyped, RowsTyped
  <2>3. 0..Len(stored) \subseteq 0..Len(stored')
    BY <1>1, <1>2 DEF Lens
  <2> QED BY <2>1, <2>2, <2>3
<1>5. RowsTyped' /\ Grows /\ OtpTyped'
  BY <1>1, <1>2, <1>3, <1>4 DEF TeamTyped, RowsTyped, OtpTyped, Grows, Lens
<1>6. PICK s : s = Len(stored) + 1
  OBVIOUS
<1>7. call' = [call EXCEPT ![c] = NewCall("askRegister", "rate", p, s, input, NoCode)]
  BY <1>6 DEF AskToRegister
<1>8. s \in 0..Len(stored') /\ s # 0
  BY <1>1, <1>2, <1>6 DEF Lens
<1>9. Fine(NewCall("askRegister", "rate", p, s, input, NoCode), Len(users'), Len(companies'), Len(stored'))
  <2>1. PICK n \in Nat, m \in Nat, k \in Nat : n = Len(users') /\ m = Len(companies') /\ k = Len(stored')
    BY <1>1, <1>2, <1>3 DEF Lens
  <2>2. s \in 0..k
    BY <1>8, <2>1
  <2>3. Fine(NewCall("askRegister", "rate", p, s, input, NoCode), n, m, k)
    BY <1>8, <2>2, NewFine DEF Signing, NoCode
  <2> QED BY <2>1, <2>3
<1>10. /\ DOMAIN call' = Call /\ \A d \in Call \ {c} : call'[d] = call[d]
       /\ Fine(call'[c], Len(users'), Len(companies'), Len(stored'))
  BY <1>7, <1>9 DEF TeamTyped, CallsTyped
<1> QED BY <1>5, <1>10, CallsKeep

LEMMA AskToLoginTypes ==
    ASSUME TeamTyped, NEW c \in Call, NEW p \in Phone, AskToLogin(c, p)
    PROVE  TeamTyped'
<1>1. Lens
  BY LensTyped DEF TeamTyped
<1>2. Fine(NewCall("askLogin", "rate", p, NoSession, Gone, NoCode), Len(users), Len(companies), Len(stored))
  BY <1>1, NewFine DEF Lens, NoSession, NoCode, Signing
<1>3. call' = [call EXCEPT ![c] = NewCall("askLogin", "rate", p, NoSession, Gone, NoCode)]
      /\ UNCHANGED <<code, tries, sent, issued, stored, users, companies, managed, inside, form>>
  BY DEF AskToLogin, OnlyCalls, regVars
<1> QED BY <1>2, <1>3, OneMoves

LEMMA SubmitCodeTypes ==
    ASSUME TeamTyped, NEW c \in Call, NEW p \in Phone, NEW guess \in Guesses(p), SubmitCode(c, p, guess)
    PROVE  TeamTyped'
<1>1. Lens /\ guess \in Int
  BY LensTyped DEF TeamTyped, OtpTyped, Guesses, WrongCode
<1>2. PICK s : s = form.session
  OBVIOUS
<1>3. s \in 0..Len(stored) /\ s # 0
  BY <1>2 DEF TeamTyped, RowsTyped, SubmitCode, NoSession
<1>4. Fine(NewCall("register", "read", p, s, Gone, guess), Len(users), Len(companies), Len(stored))
  BY <1>1, <1>3, NewFine DEF Lens, Signing
<1>5. call' = [call EXCEPT ![c] = NewCall("register", "read", p, s, Gone, guess)]
  BY <1>2 DEF SubmitCode
<1>6. OtpTyped' /\ UNCHANGED <<users, companies, stored, managed, inside>>
  BY DEF SubmitCode, TeamTyped, OtpTyped
<1>7. form' \in [session : 0..Len(stored), loading : BOOLEAN, login : BOOLEAN]
  BY DEF SubmitCode, TeamTyped, RowsTyped
<1>8. inside' \subseteq 1..Len(companies)
  BY <1>6 DEF TeamTyped, RowsTyped
<1> QED BY <1>4, <1>5, <1>6, <1>7, <1>8, CallMoves

LEMMA SubmitLoginTypes ==
    ASSUME TeamTyped, NEW c \in Call, NEW p \in Phone, NEW guess \in Guesses(p), SubmitLogin(c, p, guess)
    PROVE  TeamTyped'
<1>1. Lens /\ guess \in Int
  BY LensTyped DEF TeamTyped, OtpTyped, Guesses, WrongCode
<1>2. Fine(NewCall("login", "read", p, NoSession, Gone, guess), Len(users), Len(companies), Len(stored))
  BY <1>1, NewFine DEF Lens, NoSession, Signing
<1>3. call' = [call EXCEPT ![c] = NewCall("login", "read", p, NoSession, Gone, guess)]
      /\ UNCHANGED <<code, tries, sent, issued, stored, users, companies, managed, inside, form>>
  BY DEF SubmitLogin, OnlyCalls, regVars
<1> QED BY <1>2, <1>3, OneMoves

\* Whatever refuses a request and does nothing else.
LEMMA RefusalTypes ==
    ASSUME TeamTyped, NEW c \in Call, call[c].at # "idle", call[c].op \in Signing,
           NEW at \in Answering, Answer(c, at),
           UNCHANGED <<code, tries, sent, issued, stored, users, companies, managed, inside, form>>
    PROVE  TeamTyped'
<1>1. call[c] \in Locals(Len(users), Len(companies), Len(stored)) /\ Sound(call[c]) /\ Lens
  BY AtStage
<1>2. Fine(Answered(c, at), Len(users), Len(companies), Len(stored))
  BY <1>1, AnswerFine DEF Lens, Answering
<1> QED BY <1>2, OneMoves DEF Answer
-----------------------------------------------------------------------------
UserIn(U, p) ==
    LET mine == {u \in DOMAIN U : U[u].phone = p}
    IN  IF mine = {} THEN 0 ELSE CHOOSE u \in mine : \A w \in mine : u <= w

\* A set of numbers that is not empty has a least element.
LEMMA LeastNumber == ASSUME NEW T \in SUBSET Nat, T # {} PROVE \E n \in T : \A m \in T : n <= m
<1> DEFINE R == {ss \in Nat \X Nat : ss[1] < ss[2]}
<1>1. IsWellFoundedOn(R, Nat)
  BY NatLessThanWellFounded DEF OpToRel
<1>2. \E n \in T : \A m \in T : <<m, n>> \notin R
  <2> HIDE DEF R
  <2> QED BY <1>1, WFMin
<1>3. PICK n \in T : \A m \in T : <<m, n>> \notin R
  BY <1>2
<1>4. \A m \in T : ~(m < n)
  BY <1>3
<1> QED BY <1>4

\* UserOf finds the first user of a phone, if there is one.
LEMMA UserFound ==
    ASSUME NEW S, NEW U \in Seq(S), NEW p
    PROVE  /\ UserIn(U, p) \in 0..Len(U)
           /\ UserIn(U, p) = 0 => \A u \in DOMAIN U : U[u].phone # p
           /\ UserIn(U, p) # 0 => /\ UserIn(U, p) \in DOMAIN U /\ U[UserIn(U, p)].phone = p
                                  /\ \A w \in DOMAIN U : U[w].phone = p => UserIn(U, p) <= w
<1> DEFINE mine == {u \in DOMAIN U : U[u].phone = p}
<1>1. DOMAIN U = 1..Len(U) /\ Len(U) \in Nat
  OBVIOUS
<1>2. CASE mine = {}
  BY <1>1, <1>2 DEF UserIn
<1>3. CASE mine # {}
  <2>1. mine \in SUBSET Nat
    BY <1>1
  <2>2. \E u \in mine : \A w \in mine : u <= w
    BY <1>3, <2>1, LeastNumber
  <2>3. UserIn(U, p) \in mine /\ \A w \in mine : UserIn(U, p) <= w
    BY <1>3, <2>2 DEF UserIn
  <2> QED BY <1>1, <2>3
<1> QED BY <1>2, <1>3

LEMMA UserOfIs == \A p : UserOf(p) = UserIn(users, p)
  BY DEF UserOf, UserIn

LEMMA RolesTyped ==
    RowsTyped => \A u \in 1..Len(users) : /\ users[u] \in UserRow(Len(companies))
                                          /\ users[u].roles \in SUBSET (1..Len(companies))
<1> SUFFICES ASSUME RowsTyped, NEW u \in 1..Len(users)
             PROVE  users[u] \in UserRow(Len(companies)) /\ users[u].roles \in SUBSET (1..Len(companies))
  OBVIOUS
<1>1. users[u] \in UserRow(Len(companies))
  BY DEF RowsTyped
<1> QED BY <1>1 DEF UserRow

LEMMA LoadDataTypes ==
    ASSUME TeamTyped, NEW c \in Call, LoadData(c)
    PROVE  TeamTyped'
<1> DEFINE r == call[c]
<1>1. r \in Locals(Len(users), Len(companies), Len(stored)) /\ Sound(r) /\ Lens
  BY AtStage DEF LoadData
<1>2. UNCHANGED <<code, tries, sent, issued, stored, users, companies, managed, inside, form>>
  BY DEF LoadData
<1>3. CASE stored[r.session] = Gone
  BY <1>2, <1>3, RefusalTypes DEF LoadData, Refuse, Signing, Answering
<1>4. CASE stored[r.session] # Gone
  <2>1. r.session \in 1..Len(stored)
    BY <1>1 DEF LoadData, Sound, Locals, Lens
  <2>2. stored[r.session] \in Inputs
    BY <1>4, <2>1 DEF TeamTyped, RowsTyped
  <2>3. PICK q : q = [r EXCEPT !.at = "drop", !.data = stored[r.session]]
    OBVIOUS
  <2>4. q \in Locals(Len(users), Len(companies), Len(stored)) /\ Sound(q)
    BY <1>1, <2>2, <2>3 DEF LoadData, Locals, Sound, Asking, Inviting, Registering, Founding, Signing
  <2>5. call' = [call EXCEPT ![c] = q]
    BY <1>4, <2>3, AtStage DEF LoadData
  <2>6. Fine(q, Len(users), Len(companies), Len(stored))
    BY <2>4 DEF Fine
  <2> QED BY <1>2, <2>5, <2>6, OneMoves
<1> QED BY <1>3, <1>4

LEMMA DropDataTypes ==
    ASSUME TeamTyped, NEW c \in Call, DropData(c)
    PROVE  TeamTyped'
<1> DEFINE r == call[c]
<1>1. r \in Locals(Len(users), Len(companies), Len(stored)) /\ Sound(r) /\ Lens /\ DOMAIN call = Call
  BY AtStage DEF DropData
<1>2. UNCHANGED <<code, tries, sent, issued, users, companies, managed, inside, form>>
  BY DEF DropData
<1>3. stored' \in Seq(Inputs \cup {Gone}) /\ Len(stored') = Len(stored)
  <2>1. PICK s : s = r.session
    OBVIOUS
  <2>2. s \in 1..Len(stored)
    BY <1>1, <2>1 DEF DropData, Locals, Sound, Lens
  <2>3. stored' = [stored EXCEPT ![s] = Gone] /\ stored \in Seq(Inputs \cup {Gone})
    BY <2>1 DEF DropData, TeamTyped, RowsTyped
  <2> QED BY <2>2, <2>3
<1>4. PICK q : q = [r EXCEPT !.at = "lookup"]
  OBVIOUS
<1>5. q \in Locals(Len(users), Len(companies), Len(stored)) /\ Sound(q)
  BY <1>1, <1>4 DEF DropData, Locals, Sound, Asking, Inviting, Registering, Founding, Signing
<1>6. call' = [call EXCEPT ![c] = q]
  BY <1>4 DEF DropData, Goes
<1>7. Fine(q, Len(users'), Len(companies'), Len(stored'))
  BY <1>2, <1>3, <1>5 DEF Fine
<1>8. RowsTyped' /\ Grows /\ OtpTyped'
  BY <1>1, <1>2, <1>3 DEF TeamTyped, RowsTyped, OtpTyped, Grows, Lens
<1>9. /\ DOMAIN call' = Call /\ \A d \in Call \ {c} : call'[d] = call[d]
      /\ Fine(call'[c], Len(users'), Len(companies'), Len(stored'))
  BY <1>1, <1>6, <1>7
<1> QED BY <1>8, <1>9, CallsKeep

\* The steps of a registration's transaction before its commit.
LEMMA FoundingTypes ==
    ASSUME TeamTyped, NEW c \in Call,
           \/ LookUpUser(c) \/ CreateChannel(c) \/ ReadSuperAdminRole(c) \/ SaveSuperAdminRole(c)
           \/ ReadUserRoles(c) \/ LinkUserRole(c)
    PROVE  TeamTyped'
<1> DEFINE r == call[c]
           Kept(q) == q \in Locals(Len(users), Len(companies), Len(stored)) /\ Sound(q)
<1>1. r.at \in Registering
  BY DEF LookUpUser, CreateChannel, ReadSuperAdminRole, SaveSuperAdminRole, ReadUserRoles,
         LinkUserRole, Registering, Founding
<1>2. r \in Locals(Len(users), Len(companies), Len(stored)) /\ Sound(r) /\ Lens /\ DOMAIN call = Call
  BY <1>1, AtStage DEF Registering, Founding
<1>3. UNCHANGED <<code, tries, sent, issued, stored, users, companies, managed, inside, form>>
  BY DEF LookUpUser, CreateChannel, ReadSuperAdminRole, SaveSuperAdminRole, ReadUserRoles,
         LinkUserRole, OnlyCalls, regVars
<1>4. ASSUME NEW q, Kept(q), call' = [call EXCEPT ![c] = q]
      PROVE  TeamTyped'
  BY <1>3, <1>4, OneMoves DEF Fine
<1>5. CASE LookUpUser(c)
  <2>1. PICK u : u = UserOf(r.phone)
    OBVIOUS
  <2>2. u \in 0..Len(users)
    BY <2>1, UserOfIs, UserFound DEF TeamTyped, RowsTyped
  <2>3. PICK q : q = [r EXCEPT !.at = "channel", !.user = u]
    OBVIOUS
  <2>4. Kept(q)
    BY <1>2, <1>5, <2>2, <2>3
       DEF LookUpUser, Locals, Sound, Asking, Inviting, Registering, Founding, Signing
  <2>5. call' = [call EXCEPT ![c] = q]
    BY <1>2, <1>5, <2>1, <2>3 DEF LookUpUser
  <2> QED BY <2>4, <2>5, <1>4
<1>6. CASE CreateChannel(c)
  <2>1. CASE EmailIsUsed(r.data.email)
    <3>1. r.op \in Signing /\ Answer(c, "refused")
      BY <1>2, <1>6, <2>1 DEF CreateChannel, Refuse, Sound, Registering, Founding, Signing
    <3> QED BY <1>1, <1>3, <3>1, RefusalTypes DEF Answering, Registering, Founding
  <2>2. CASE ~EmailIsUsed(r.data.email)
    <3>1. PICK w : w = CodeFor(r.data.name, c)
      OBVIOUS
    <3>2. r.data.name \in STRING /\ Len(companies) \in Nat
      BY <1>2, <1>6, RegistrationAssumption DEF CreateChannel, Sound, Registering, Founding,
         RegistrationAssumption, Lens
    <3>3. w \in Codes
      BY <3>1, <3>2 DEF CodeFor, Codes
    <3>4. PICK q : q = [r EXCEPT !.at = "role", !.code = w]
      OBVIOUS
    <3>5. Kept(q)
      BY <1>2, <1>6, <3>3, <3>4
         DEF CreateChannel, Locals, Sound, Asking, Inviting, Registering, Founding, Signing
    <3>6. call' = [call EXCEPT ![c] = q]
      BY <1>2, <1>6, <2>2, <3>1, <3>4 DEF CreateChannel
    <3> QED BY <3>5, <3>6, <1>4
  <2> QED BY <2>1, <2>2
<1>7. CASE ReadSuperAdminRole(c)
  <2>1. managed \in SUBSET (1..Len(companies))
    BY DEF TeamTyped, RowsTyped
  <2>2. PICK q : q = [r EXCEPT !.at = "save", !.seen = managed]
    OBVIOUS
  <2>3. Kept(q)
    BY <1>2, <1>7, <2>1, <2>2
       DEF ReadSuperAdminRole, Locals, Sound, Asking, Inviting, Registering, Founding, Signing
  <2>4. call' = [call EXCEPT ![c] = q]
    BY <1>2, <1>7, <2>2 DEF ReadSuperAdminRole
  <2> QED BY <2>3, <2>4, <1>4
<1>8. CASE SaveSuperAdminRole(c)
  <2>1. PICK at, dropped : at = (IF r.user = 0 THEN "commit" ELSE "attach") /\ dropped = managed \ r.seen
    OBVIOUS
  <2>2. dropped \in SUBSET (1..Len(companies)) /\ {} \in SUBSET (1..Len(companies))
    BY <2>1 DEF TeamTyped, RowsTyped
  <2>3. PICK q : q = [r EXCEPT !.at = at, !.dropped = dropped, !.seen = {}]
    OBVIOUS
  <2>4. q \in Locals(Len(users), Len(companies), Len(stored))
    <3>1. at \in Registering
      BY <2>1 DEF Registering, Founding
    <3> HIDE DEF Registering
    <3>2. [r EXCEPT !.at = at, !.dropped = dropped] \in Locals(Len(users), Len(companies), Len(stored))
      BY <1>2, <2>2, <3>1 DEF Locals
    <3>3. PICK b : b = [r EXCEPT !.at = at, !.dropped = dropped]
      OBVIOUS
    <3>4. [b EXCEPT !.seen = {}] \in Locals(Len(users), Len(companies), Len(stored))
      BY <2>2, <3>2, <3>3 DEF Locals
    <3> QED BY <2>3, <3>3, <3>4
  <2>5. /\ q.at = at /\ q.op = r.op /\ q.session = r.session /\ q.data = r.data
        /\ q.user = r.user /\ q.unlinked = r.unlinked
    BY <1>2, <2>3 DEF Locals
  <2>6. at \in {"commit", "attach"} /\ (at = "attach" => r.user # 0)
    BY <2>1
  <2>7. r.op = "register" /\ r.session # 0 /\ r.data \in Inputs /\ r.unlinked = {}
    BY <1>2, <1>8 DEF SaveSuperAdminRole, Sound, Registering, Founding
  <2>8. Kept(q)
    BY <2>4, <2>5, <2>6, <2>7
       DEF Sound, Asking, Inviting, Registering, Founding, Signing
  <2>9. call' = [call EXCEPT ![c] = q]
    BY <1>2, <1>8, <2>1, <2>3 DEF SaveSuperAdminRole
  <2> QED BY <2>8, <2>9, <1>4
<1>9. CASE ReadUserRoles(c)
  <2>1. r.user \in 1..Len(users)
    BY <1>2, <1>9 DEF ReadUserRoles, Locals, Sound, Lens
  <2>2. PICK roles : roles = users[r.user].roles
    OBVIOUS
  <2>3. roles \in SUBSET (1..Len(companies))
    BY <2>1, <2>2, RolesTyped DEF TeamTyped
  <2>4. PICK q : q = [r EXCEPT !.at = "link", !.roles = roles]
    OBVIOUS
  <2>5. Kept(q)
    BY <1>2, <1>9, <2>3, <2>4
       DEF ReadUserRoles, Locals, Sound, Asking, Inviting, Registering, Founding, Signing
  <2>6. call' = [call EXCEPT ![c] = q]
    BY <1>2, <1>9, <2>2, <2>4 DEF ReadUserRoles
  <2> QED BY <2>5, <2>6, <1>4
<1>10. CASE LinkUserRole(c)
  <2>1. r.user \in 1..Len(users)
    BY <1>2, <1>10 DEF LinkUserRole, Locals, Sound, Lens
  <2>2. PICK roles : roles = users[r.user].roles
    OBVIOUS
  <2>3. roles \in SUBSET (1..Len(companies)) /\ r.roles \in SUBSET (1..Len(companies))
    BY <1>2, <2>1, <2>2, RolesTyped DEF TeamTyped, Locals
  <2>4. PICK q : q = [r EXCEPT !.at = "commit", !.unlinked = roles \ r.roles, !.roles = r.roles \ roles]
    OBVIOUS
  <2>5. roles \ r.roles \in SUBSET (1..Len(companies)) /\ r.roles \ roles \in SUBSET (1..Len(companies))
    BY <2>3
  <2>6. Kept(q)
    <3>1. q \in Locals(Len(users), Len(companies), Len(stored))
      BY <1>2, <2>4, <2>5 DEF Locals, Registering, Founding
    <3>2. Sound(q)
      BY <1>2, <1>10, <2>4
         DEF LinkUserRole, Locals, Sound, Asking, Inviting, Registering, Founding, Signing
    <3> QED BY <3>1, <3>2
  <2>7. call' = [call EXCEPT ![c] = q]
    BY <1>2, <1>10, <2>2, <2>4 DEF LinkUserRole
  <2> QED BY <2>6, <2>7, <1>4
<1> QED BY <1>5, <1>6, <1>7, <1>8, <1>9, <1>10

LEMMA NotedIs ==
    ASSUME DOMAIN call = Call, NEW c \in Call, NEW answer, call' = Noted(c, answer)
    PROVE  /\ DOMAIN call' = Call /\ call'[c] = answer
           /\ \A d \in Call \ {c} : IF d \in Beside(c) THEN call'[d] = [call[d] EXCEPT !.raced = TRUE]
                                    ELSE call'[d] = call[d]
  BY DEF Noted, Beside

\* A request that is told that its person became a user stays as it is, but for that.
LEMMA RacedFine ==
    ASSUME NEW n \in Nat, NEW m \in Nat, NEW k \in Nat, NEW r \in Locals(n, m, k), Sound(r),
           NEW q, q = [r EXCEPT !.raced = TRUE]
    PROVE  /\ q \in Locals(n, m, k) /\ Sound(q) /\ q.raced = TRUE
           /\ q.op = r.op /\ q.at = r.at /\ q.phone = r.phone /\ q.session = r.session
           /\ q.user = r.user /\ q.seen = r.seen /\ q.dropped = r.dropped
           /\ q.roles = r.roles /\ q.unlinked = r.unlinked /\ q.company = r.company
<1>1. q \in Locals(n, m, k)
  BY DEF Locals
<1>2. /\ q.op = r.op /\ q.at = r.at /\ q.phone = r.phone /\ q.session = r.session
      /\ q.user = r.user /\ q.data = r.data /\ q.unlinked = r.unlinked /\ q.company = r.company
      /\ q.raced = TRUE /\ q.seen = r.seen /\ q.dropped = r.dropped /\ q.roles = r.roles
  BY DEF Locals
<1>3. Sound(q)
  BY <1>2 DEF Sound
<1> QED BY <1>1, <1>2, <1>3

\* A step after which c is fine and which tells others that their person is a user.
LEMMA NotedTypes ==
    ASSUME TeamTyped, OtpTyped', RowsTyped', Grows, NEW c \in Call, NEW answer,
           call' = Noted(c, answer), Fine(answer, Len(users'), Len(companies'), Len(stored'))
    PROVE  TeamTyped'
<1>1. Lens /\ Lens' /\ DOMAIN call = Call
  BY LensTyped DEF TeamTyped, RowsTyped, Lens, CallsTyped
<1>2. PICK n \in Nat, m \in Nat, k \in Nat :
        n = Len(users) /\ m = Len(companies) /\ k = Len(stored)
  BY <1>1 DEF Lens
<1>3. PICK nn \in Nat, mm \in Nat, kk \in Nat :
        nn = Len(users') /\ mm = Len(companies') /\ kk = Len(stored')
  BY <1>1 DEF Lens
<1>4. 0..n \subseteq 0..nn /\ 0..m \subseteq 0..mm /\ 0..k \subseteq 0..kk /\ 1..m \subseteq 1..mm
  BY <1>2, <1>3 DEF Grows
<1>5. ASSUME NEW d \in Call PROVE Fine(call'[d], nn, mm, kk)
  <2>1. CASE d = c
    BY <1>1, <1>3, <2>1, NotedIs
  <2>2. CASE d # c
    <3>1. PICK r : r = call[d]
      OBVIOUS
    <3>2. Fine(r, n, m, k)
      BY <1>2, <3>1 DEF TeamTyped, CallsTyped
    <3>3. Fine(r, nn, mm, kk)
      BY <1>4, <3>2 DEF Fine, Locals
    <3>4. CASE d \notin Beside(c)
      BY <1>1, <2>2, <3>1, <3>3, <3>4, NotedIs
    <3>5. CASE d \in Beside(c)
      <4>1. call'[d] = [r EXCEPT !.raced = TRUE]
        BY <1>1, <2>2, <3>1, <3>5, NotedIs
      <4>2. PICK q : q = [r EXCEPT !.raced = TRUE]
        OBVIOUS
      <4>3. r # NoRequest
        BY <3>1, <3>5 DEF Beside, InTransaction, NoRequest
      <4>4. q \in Locals(nn, mm, kk) /\ Sound(q)
        BY <3>3, <4>2, <4>3, RacedFine DEF Fine
      <4> QED BY <4>1, <4>2, <4>4 DEF Fine
    <3> QED BY <3>4, <3>5
  <2> QED BY <2>1, <2>2
<1>6. DOMAIN call' = Call
  BY <1>1, NotedIs
<1> QED BY <1>3, <1>5, <1>6 DEF TeamTyped, CallsTyped

LEMMA EmailTyped ==
    ASSUME TeamTyped, NEW c \in Call, call[c].at \in Registering
    PROVE  EmailFor(c) \in Mail /\ EmailFor(c) # NoAdministrator
<1>1. call[c].data \in Inputs /\ call[c].phone \in Person
  BY AtStage DEF Sound, Locals, Registering, Founding
<1> QED BY <1>1, TeamAssumption DEF TeamAssumption, EmailFor, Mail, Person

\* What a commit does to the rows.
LEMMA CommitRows ==
    ASSUME TeamTyped, NEW c \in Call, Commit(c)
    PROVE  /\ RowsTyped' /\ Grows
           /\ Len(companies') = Len(companies) + 1
           /\ Len(users') = IF call[c].user = 0 THEN Len(users) + 1 ELSE Len(users)
           /\ \A i \in 1..Len(companies) : companies'[i] = companies[i]
           /\ companies'[Len(companies) + 1].session = call[c].session
           /\ companies'[Len(companies) + 1].phone = call[c].phone
           /\ \A u \in 1..Len(users) : u # call[c].user => users'[u] = users[u]
           /\ call[c].user = 0 => /\ users'[Len(users) + 1].phone = call[c].phone
                                  /\ users'[Len(users) + 1].email # NoAdministrator
                                  /\ users'[Len(users) + 1].roles = {Len(companies) + 1}
           /\ call[c].user # 0 =>
                /\ call[c].user \in 1..Len(users)
                /\ users'[call[c].user].phone = users[call[c].user].phone
                /\ users'[call[c].user].email # NoAdministrator
                /\ users'[call[c].user].roles =
                     (users[call[c].user].roles \ call[c].unlinked) \cup call[c].roles
                       \cup {Len(companies) + 1}
<1> DEFINE r == call[c]
<1>1. r.at = "commit" /\ r \in Locals(Len(users), Len(companies), Len(stored)) /\ Sound(r) /\ Lens
  BY AtStage DEF Commit
<1>2. PICK m \in Nat, n \in Nat, k \in Nat : m = Len(companies) /\ n = Len(users) /\ k = Len(stored)
  BY <1>1 DEF Lens
<1>3. PICK email : email = EmailFor(c) /\ email \in Mail /\ email # NoAdministrator
  BY <1>1, EmailTyped DEF Registering, Founding
<1>4. PICK u \in 0..n, p \in Person, s \in 0..k, w \in Codes, unlinked \in SUBSET (1..m), roles \in SUBSET (1..m) :
        u = r.user /\ p = r.phone /\ s = r.session /\ w = r.code /\ unlinked = r.unlinked /\ roles = r.roles
  BY <1>1, <1>2 DEF Locals
<1>5. PICK U \in Seq(UserRow(m)), C \in Seq(CompanyRow) : U = users /\ C = companies
  BY <1>2 DEF TeamTyped, RowsTyped
<1>6. PICK b : b = [code |-> w, session |-> s, phone |-> p, status |-> "UNAPPROVED"]
  OBVIOUS
<1>7. b \in CompanyRow /\ b.session = s /\ b.phone = p
  <2>1. s \in Int
    OBVIOUS
  <2>2. [code |-> w, session |-> s, phone |-> p, status |-> "UNAPPROVED"] \in CompanyRow
    BY <2>1 DEF CompanyRow
  <2> QED BY <2>2, <1>6
<1>8. companies' = Append(C, b)
  BY <1>4, <1>5, <1>6 DEF Commit
<1>9. /\ companies' \in Seq(CompanyRow) /\ Len(companies') = m + 1
      /\ \A i \in 1..m : companies'[i] = C[i]
      /\ companies'[m + 1] = b
  BY <1>2, <1>5, <1>7, <1>8
<1>10. \A x \in UserRow(m) : x \in UserRow(m + 1)
  <2>1. 1..m \subseteq 1..(m + 1)
    OBVIOUS
  <2> QED BY <2>1 DEF UserRow
<1>11. U \in Seq(UserRow(m + 1)) /\ Len(U) = n /\ DOMAIN U = 1..n
  BY <1>2, <1>5, <1>10
<1>12. users' = UsersAfter(c, m + 1)
  BY <1>2 DEF Commit
<1>13. /\ users' \in Seq(UserRow(m + 1))
       /\ Len(users') = IF u = 0 THEN n + 1 ELSE n
       /\ \A v \in 1..n : v # u => users'[v] = U[v]
       /\ u = 0 => /\ users'[n + 1].phone = p /\ users'[n + 1].email # NoAdministrator
                   /\ users'[n + 1].roles = {m + 1}
       /\ u # 0 => /\ u \in 1..n /\ users'[u].phone = U[u].phone /\ users'[u].email # NoAdministrator
                   /\ users'[u].roles = (U[u].roles \ unlinked) \cup roles \cup {m + 1}
  <2>1. CASE u = 0
    <3>1. PICK x : x = [phone |-> p, email |-> email, auth |-> "unset", roles |-> {m + 1}]
      OBVIOUS
    <3>2. {m + 1} \in SUBSET (1..(m + 1))
      OBVIOUS
    <3>3. x \in UserRow(m + 1)
      BY <1>3, <3>1, <3>2 DEF UserRow
    <3>4. x.phone = p /\ x.email = email /\ x.roles = {m + 1}
      BY <3>1
    <3>5. users' = Append(U, x)
      BY <1>3, <1>4, <1>5, <1>12, <2>1, <3>1 DEF UsersAfter
    <3> QED BY <1>3, <1>11, <2>1, <3>3, <3>4, <3>5
  <2>2. CASE u # 0
    <3>1. u \in 1..n /\ U[u] \in UserRow(m)
      BY <1>5, <1>11, <2>2
    <3>2. PICK all : all = (U[u].roles \ unlinked) \cup roles \cup {m + 1}
      OBVIOUS
    <3>3. all \in SUBSET (1..(m + 1))
      <4>1. U[u].roles \in SUBSET (1..m)
        BY <3>1 DEF UserRow
      <4>2. 1..m \subseteq 1..(m + 1) /\ m + 1 \in 1..(m + 1)
        OBVIOUS
      <4> QED BY <3>2, <4>1, <4>2
    <3>4. PICK x : x = [U[u] EXCEPT !.roles = all, !.email = email]
      OBVIOUS
    <3>5. x \in UserRow(m + 1) /\ x.phone = U[u].phone /\ x.email = email /\ x.roles = all
      BY <1>3, <1>10, <3>1, <3>3, <3>4 DEF UserRow
    <3>6. users' = [U EXCEPT ![u] = x]
      BY <1>3, <1>4, <1>5, <1>11, <1>12, <2>2, <3>1, <3>2, <3>4 DEF UsersAfter
    <3> QED BY <1>3, <1>11, <2>2, <3>1, <3>2, <3>5, <3>6
  <2> QED BY <2>1, <2>2
<1>14. managed' \subseteq 1..(m + 1) /\ inside' \subseteq 1..(m + 1) /\ UNCHANGED <<stored, form>>
  BY <1>2 DEF Commit, TeamTyped, RowsTyped
<1>15. RowsTyped'
  BY <1>9, <1>13, <1>14 DEF TeamTyped, RowsTyped
<1>16. Grows
  BY <1>2, <1>9, <1>13, <1>14 DEF Grows
<1> QED BY <1>2, <1>4, <1>5, <1>7, <1>9, <1>13, <1>15, <1>16

LEMMA CommitTypes ==
    ASSUME TeamTyped, NEW c \in Call, Commit(c)
    PROVE  TeamTyped'
<1> DEFINE r == call[c]
           answer == IF r.user = 0 THEN [r EXCEPT !.at = "pend", !.user = Len(users) + 1]
                     ELSE Answered(c, "done")
<1>1. r.at = "commit" /\ r \in Locals(Len(users), Len(companies), Len(stored)) /\ Sound(r) /\ Lens
  BY AtStage DEF Commit
<1>2. OtpTyped' /\ call' = Noted(c, answer)
  BY DEF Commit, TeamTyped, OtpTyped
<1>3. RowsTyped' /\ Grows /\ Len(companies') = Len(companies) + 1
      /\ Len(users') = IF r.user = 0 THEN Len(users) + 1 ELSE Len(users)
  BY CommitRows
<1>4. PICK n \in Nat, m \in Nat, k \in Nat :
        n = Len(users) /\ m = Len(companies) /\ k = Len(stored)
  BY <1>1 DEF Lens
<1>5. PICK nn \in Nat, mm \in Nat, kk \in Nat :
        nn = Len(users') /\ mm = Len(companies') /\ kk = Len(stored')
  BY <1>1, <1>3, LensTyped DEF Lens, RowsTyped
<1>6. 0..n \subseteq 0..nn /\ 0..m \subseteq 0..mm /\ 0..k \subseteq 0..kk /\ 1..m \subseteq 1..mm
  BY <1>3, <1>4, <1>5 DEF Grows
<1>7. r \in Locals(nn, mm, kk)
  BY <1>1, <1>4, <1>6 DEF Locals
<1>8. Fine(answer, nn, mm, kk)
  <2>1. CASE r.user = 0
    <3>1. PICK q : q = [r EXCEPT !.at = "pend", !.user = n + 1]
      OBVIOUS
    <3>2. n + 1 \in 0..nn
      BY <1>3, <1>4, <1>5, <2>1
    <3>3. PICK at, u : at = "pend" /\ u = n + 1
      OBVIOUS
    <3>4. q = [r EXCEPT !.at = at, !.user = u] /\ u \in 0..nn /\ u # 0
      BY <3>1, <3>2, <3>3
    <3>5. q \in Locals(nn, mm, kk) /\ q.user = u /\ q.op = r.op /\ q.at = at /\ q.session = r.session
      BY <1>7, <3>3, <3>4 DEF Locals
    <3>6. Sound(q)
      BY <1>1, <3>3, <3>4, <3>5 DEF Sound, Registering, Founding, Inviting, Asking, Signing
    <3> QED BY <1>4, <2>1, <3>1, <3>5, <3>6 DEF Fine
  <2>2. CASE r.user # 0
    <3>1. r.op \in Signing
      BY <1>1 DEF Sound, Registering, Founding, Signing
    <3>2. Fine(Answered(c, "done"), nn, mm, kk)
      BY <1>1, <1>7, <3>1, AnswerFine DEF Answering
    <3> QED BY <2>2, <3>2
  <2> QED BY <2>1, <2>2
<1>9. PICK a : a = answer
  OBVIOUS
<1> HIDE DEF answer
<1> QED BY <1>2, <1>3, <1>5, <1>8, <1>9, NotedTypes

\* A step that changes rows only.
LEMMA RowsMove ==
    ASSUME TeamTyped, OtpTyped', RowsTyped', call' = call,
           Len(users') = Len(users), Len(companies') = Len(companies), Len(stored') = Len(stored)
    PROVE  TeamTyped'
  BY DEF TeamTyped, CallsTyped

LEMMA FailureTypes ==
    ASSUME TeamTyped, NEW c \in Call, RollBackCompany(c) \/ SetPendingFails(c) \/ ExpireToken(c)
    PROVE  TeamTyped'
<1>1. call[c].at \in Founding \cup {"pend", "token"} /\ Answer(c, "refused") /\ OnlyCalls
  BY DEF RollBackCompany, SetPendingFails, ExpireToken, InTransaction, Refuse, Founding
<1>2. call[c].op \in Signing
  BY <1>1, AtStage DEF Sound, Founding, Inviting
<1> QED BY <1>1, <1>2, RefusalTypes DEF OnlyCalls, regVars, Founding, Answering

LEMMA SetPendingTypes ==
    ASSUME TeamTyped, NEW c \in Call, SetPending(c)
    PROVE  /\ TeamTyped' /\ Len(users') = Len(users)
           /\ \A v \in 1..Len(users) : /\ users'[v].phone = users[v].phone
                                       /\ users'[v].email = users[v].email
                                       /\ users'[v].roles = users[v].roles
<1> DEFINE r == call[c]
<1>1. r.at = "pend" /\ r \in Locals(Len(users), Len(companies), Len(stored)) /\ Sound(r) /\ Lens
  BY AtStage DEF SetPending
<1>2. PICK u : u = r.user
  OBVIOUS
<1>3. u \in 1..Len(users)
  BY <1>1, <1>2 DEF Locals, Sound, Lens
<1>4. PICK x : x = [users[u] EXCEPT !.auth = "PENDING"]
  OBVIOUS
<1>5. x \in UserRow(Len(companies)) /\ x.phone = users[u].phone /\ x.email = users[u].email
      /\ x.roles = users[u].roles
  BY <1>3, <1>4, RolesTyped DEF TeamTyped, UserRow
<1>6. users' = [users EXCEPT ![u] = x] /\ users \in Seq(UserRow(Len(companies)))
  BY <1>2, <1>3, <1>4 DEF SetPending, TeamTyped, RowsTyped
<1>7. users' \in Seq(UserRow(Len(companies))) /\ Len(users') = Len(users) /\ users'[u] = x
      /\ \A v \in 1..Len(users) : v # u => users'[v] = users[v]
  BY <1>3, <1>5, <1>6
<1>8. RowsTyped' /\ OtpTyped' /\ Grows
  BY <1>1, <1>7 DEF SetPending, TeamTyped, OtpTyped, RowsTyped, Grows, Lens
<1>9. r.op \in Signing
  BY <1>1 DEF Sound, Inviting
<1>10. Fine(Answered(c, "done"), Len(users), Len(companies), Len(stored))
  BY <1>1, <1>9, AnswerFine DEF Lens, Answering
<1>11. /\ DOMAIN call' = Call /\ \A d \in Call \ {c} : call'[d] = call[d]
       /\ Fine(call'[c], Len(users'), Len(companies'), Len(stored'))
  BY <1>7, <1>10 DEF SetPending, Answer, TeamTyped, CallsTyped
<1>12. TeamTyped'
  BY <1>8, <1>11, CallsKeep
<1> QED BY <1>5, <1>7, <1>12

LEMMA GrantTokenTypes ==
    ASSUME TeamTyped, NEW c \in Call, GrantToken(c)
    PROVE  TeamTyped'
<1> DEFINE r == call[c]
<1>1. /\ r.at = "verified" /\ r.op = "login" /\ Lens
      /\ r \in Locals(Len(users), Len(companies), Len(stored)) /\ Sound(r)
  BY AtStage DEF GrantToken
<1>2. UNCHANGED <<code, tries, sent, issued, stored, users, companies, managed, inside, form>>
  BY DEF GrantToken, OnlyCalls, regVars
<1>3. PICK u : u = UserOf(r.phone)
  OBVIOUS
<1>4. CASE ~MayLogIn(u)
  BY <1>1, <1>2, <1>3, <1>4, RefusalTypes DEF GrantToken, Refuse, Signing, Answering
<1>5. CASE MayLogIn(u)
  <2>1. u \in 1..Len(users)
    BY <1>1, <1>3, <1>5, UserOfIs, UserFound DEF MayLogIn, TeamTyped, RowsTyped, Lens
  <2>2. PICK i : i = CHOOSE j \in users[u].roles : companies[j].status = "APPROVED"
    OBVIOUS
  <2>3. \E j \in users[u].roles : companies[j].status = "APPROVED"
    BY <1>5 DEF MayLogIn, StatusesOf
  <2>4. i \in users[u].roles
    BY <2>2, <2>3
  <2>5. i \in 1..Len(companies)
    BY <2>1, <2>4, RolesTyped DEF TeamTyped
  <2>6. PICK q : q = [r EXCEPT !.at = "token", !.company = i]
    OBVIOUS
  <2>7. q \in Locals(Len(users), Len(companies), Len(stored)) /\ Sound(q)
    <3>1. i \in 0..Len(companies) /\ i # 0
      BY <1>1, <2>5 DEF Lens
    <3>2. q \in Locals(Len(users), Len(companies), Len(stored))
      BY <1>1, <2>6, <3>1 DEF Locals
    <3>3. q.op = "login" /\ q.at = "token" /\ q.company = i /\ q.unlinked = r.unlinked
      BY <1>1, <2>6 DEF Locals
    <3>4. r.unlinked = {}
      BY <1>1 DEF Sound
    <3> QED BY <3>1, <3>2, <3>3, <3>4
            DEF Sound, Asking, Inviting, Registering, Founding, Signing
  <2>8. call' = [call EXCEPT ![c] = q]
    BY <1>3, <1>5, <2>2, <2>6 DEF GrantToken
  <2>9. Fine(q, Len(users), Len(companies), Len(stored))
    BY <2>7 DEF Fine
  <2> QED BY <1>2, <2>8, <2>9, OneMoves
<1> QED BY <1>4, <1>5

LEMMA LogInTypes ==
    ASSUME TeamTyped, NEW c \in Call, LogIn(c)
    PROVE  TeamTyped'
<1>1. /\ call[c] \in Locals(Len(users), Len(companies), Len(stored)) /\ Sound(call[c]) /\ Lens
      /\ call[c].at = "token"
  BY AtStage DEF LogIn
<1>2. call[c].company \in 1..Len(companies)
  BY <1>1 DEF Locals, Sound, Lens
<1>3. inside' \subseteq 1..Len(companies)
  BY <1>2 DEF LogIn, TeamTyped, RowsTyped
<1>4. /\ call' = [call EXCEPT ![c] = NoRequest] /\ OtpTyped'
      /\ UNCHANGED <<users, companies, stored>> /\ managed' = managed
      /\ form' \in [session : 0..Len(stored), loading : BOOLEAN, login : BOOLEAN]
  BY DEF LogIn, TeamTyped, OtpTyped, RowsTyped
<1>5. Fine(NoRequest, Len(users), Len(companies), Len(stored))
  BY NoRequestFine
<1> QED BY <1>3, <1>4, <1>5, CallMoves

LEMMA HearTypes ==
    ASSUME TeamTyped, NEW c \in Call, Hear(c)
    PROVE  TeamTyped'
<1> DEFINE r == call[c]
<1>1. /\ r \in Locals(Len(users), Len(companies), Len(stored)) /\ Sound(r) /\ Lens
      /\ r.at \in Answering
  BY AtStage DEF Hear, Answering
<1>2. r.op \in Signing /\ r.session \in 0..Len(stored)
  BY <1>1 DEF Sound, Answering, Inviting, Locals
<1>3. form \in [session : 0..Len(stored), loading : BOOLEAN, login : BOOLEAN]
  BY DEF TeamTyped, RowsTyped
<1>4. FormAfter(c) \in [session : 0..Len(stored), loading : BOOLEAN, login : BOOLEAN]
  <2>1. 0 \in 0..Len(stored)
    BY <1>1 DEF Lens
  <2>2. CASE r.op = "askLogin"
    BY <1>3, <2>2 DEF FormAfter
  <2>3. CASE r.op = "login"
    BY <1>3, <2>3 DEF FormAfter
  <2>4. CASE r.op = "askRegister"
    <3>1. PICK s \in 0..Len(stored) : s = IF r.at = "asked" THEN r.session ELSE form.session
      BY <1>2, <1>3
    <3>2. FormAfter(c) = [form EXCEPT !.loading = FALSE, !.session = s]
      BY <1>3, <2>4, <3>1 DEF FormAfter
    <3> QED BY <1>3, <3>1, <3>2
  <2>5. CASE r.op = "register"
    <3>1. PICK s \in 0..Len(stored) : s = IF r.at = "done" THEN NoSession ELSE form.session
      BY <1>3, <2>1 DEF NoSession
    <3>2. FormAfter(c) = [form EXCEPT !.loading = FALSE, !.session = s]
      BY <1>3, <2>5, <3>1 DEF FormAfter
    <3> QED BY <1>3, <3>1, <3>2
  <2> QED BY <1>2, <2>2, <2>3, <2>4, <2>5 DEF Signing
<1>5. /\ call' = [call EXCEPT ![c] = NoRequest] /\ OtpTyped'
      /\ UNCHANGED <<users, companies, stored>> /\ managed' = managed
      /\ form' = FormAfter(c)
      /\ inside' \subseteq 1..Len(companies)
  BY DEF Hear, TeamTyped, OtpTyped, RowsTyped
<1>6. Fine(NoRequest, Len(users), Len(companies), Len(stored))
  BY NoRequestFine
<1> QED BY <1>4, <1>5, <1>6, CallMoves

LEMMA OutsideTypes ==
    ASSUME TeamTyped, \/ \E p \in Phone : Forget(p) /\ UNCHANGED regVars
                      \/ \E s \in 1..MaxSessions : ExpireData(s)
                      \/ \E i \in DOMAIN companies, status \in {"APPROVED", "DISABLED"} : Decide(i, status)
                      \/ \E u \in DOMAIN users : RejectUser(u)
    PROVE  /\ TeamTyped' /\ Grows /\ call' = call
           /\ Len(users') = Len(users) /\ Len(companies') = Len(companies) /\ Len(stored') = Len(stored)
           /\ \A v \in 1..Len(users) : /\ users'[v].phone = users[v].phone
                                       /\ users'[v].email = users[v].email
                                       /\ users'[v].roles = users[v].roles
           /\ \A i \in 1..Len(companies) : /\ companies'[i].phone = companies[i].phone
                                           /\ companies'[i].session = companies[i].session
           /\ \A s \in 1..Len(stored) : stored'[s] = stored[s] \/ stored'[s] = Gone
<1>1. Lens
  BY LensTyped DEF TeamTyped
<1>2. /\ stored \in Seq(Inputs \cup {Gone}) /\ users \in Seq(UserRow(Len(companies)))
      /\ companies \in Seq(CompanyRow)
  BY DEF TeamTyped, RowsTyped
<1>3. CASE \E p \in Phone : Forget(p) /\ UNCHANGED regVars
  <2>1. PICK p \in Phone : Forget(p) /\ UNCHANGED regVars
    BY <1>3
  <2>2. OtpTyped' /\ call' = call
    BY <2>1 DEF Forget, ExpireCode, EndRateWindow, DeleteCode, NoCode, TeamTyped, OtpTyped
  <2>3. RowsTyped' /\ UNCHANGED <<stored, users, companies>>
    BY <2>1 DEF regVars, TeamTyped, RowsTyped
  <2> QED BY <1>1, <2>2, <2>3, RowsMove DEF Grows, Lens
<1>4. CASE \E s \in 1..MaxSessions : ExpireData(s)
  <2>1. PICK s \in 1..MaxSessions : ExpireData(s)
    BY <1>4
  <2>2. s \in 1..Len(stored) /\ stored' = [stored EXCEPT ![s] = Gone]
    BY <1>2, <2>1 DEF ExpireData
  <2>3. stored' \in Seq(Inputs \cup {Gone}) /\ Len(stored') = Len(stored)
        /\ \A t \in 1..Len(stored) : stored'[t] = stored[t] \/ stored'[t] = Gone
    BY <1>2, <2>2
  <2>4. UNCHANGED <<code, tries, sent, issued, call, users, companies, managed, form, inside>>
    BY <2>1 DEF ExpireData
  <2>5. OtpTyped' /\ RowsTyped' /\ call' = call
    BY <2>3, <2>4 DEF TeamTyped, OtpTyped, RowsTyped
  <2> QED BY <1>1, <2>3, <2>4, <2>5, RowsMove DEF Grows, Lens
<1>5. CASE \E i \in DOMAIN companies, status \in {"APPROVED", "DISABLED"} : Decide(i, status)
  <2>1. PICK i \in DOMAIN companies, status \in {"APPROVED", "DISABLED"} : Decide(i, status)
    BY <1>5
  <2>2. PICK b : b = [companies[i] EXCEPT !.status = status]
    OBVIOUS
  <2>3. i \in 1..Len(companies) /\ companies[i] \in CompanyRow
    BY <1>2, <2>1
  <2>4. b \in CompanyRow /\ b.phone = companies[i].phone /\ b.session = companies[i].session
    BY <2>1, <2>2, <2>3 DEF CompanyRow
  <2>5. companies' = [companies EXCEPT ![i] = b]
    BY <2>1, <2>2 DEF Decide
  <2>6. /\ companies' \in Seq(CompanyRow) /\ Len(companies') = Len(companies) /\ companies'[i] = b
        /\ \A j \in 1..Len(companies) : j # i => companies'[j] = companies[j]
    BY <1>2, <2>3, <2>4, <2>5
  <2>7. UNCHANGED <<code, tries, sent, issued, call, users, stored, managed, form, inside>>
    BY <2>1 DEF Decide
  <2>8. OtpTyped' /\ RowsTyped' /\ call' = call
    BY <2>6, <2>7 DEF TeamTyped, OtpTyped, RowsTyped
  <2> QED BY <1>1, <2>4, <2>6, <2>7, <2>8, RowsMove DEF Grows, Lens
<1>6. CASE \E u \in DOMAIN users : RejectUser(u)
  <2>1. PICK u \in DOMAIN users : RejectUser(u)
    BY <1>6
  <2>2. PICK x : x = [users[u] EXCEPT !.auth = "REJECTED"]
    OBVIOUS
  <2>3. u \in 1..Len(users) /\ users[u] \in UserRow(Len(companies))
    BY <1>2, <2>1
  <2>4. x \in UserRow(Len(companies)) /\ x.phone = users[u].phone /\ x.email = users[u].email
        /\ x.roles = users[u].roles
    BY <2>2, <2>3 DEF UserRow
  <2>5. users' = [users EXCEPT ![u] = x]
    BY <2>1, <2>2 DEF RejectUser
  <2>6. /\ users' \in Seq(UserRow(Len(companies))) /\ Len(users') = Len(users) /\ users'[u] = x
        /\ \A v \in 1..Len(users) : v # u => users'[v] = users[v]
    BY <1>2, <2>3, <2>4, <2>5
  <2>7. UNCHANGED <<code, tries, sent, issued, call, companies, stored, managed, form, inside>>
    BY <2>1 DEF RejectUser
  <2>8. OtpTyped' /\ RowsTyped' /\ call' = call
    BY <2>6, <2>7 DEF TeamTyped, OtpTyped, RowsTyped
  <2> QED BY <1>1, <2>4, <2>6, <2>7, <2>8, RowsMove DEF Grows, Lens
<1> QED BY <1>3, <1>4, <1>5, <1>6
-----------------------------------------------------------------------------
LEMMA BeginTypes ==
    ASSUME TeamTyped, NEW c \in Call, NEW op \in {"invite", "disable"},
           NEW at \in {"count", "roles", "clear"}, NEW i, NEW p \in Person, NEW u \in 0..Len(users),
           at # "count" => u # 0, Begin(c, op, at, i, p, u)
    PROVE  TeamTyped'
<1>1. Lens /\ i \in 1..Len(companies)
  BY LensTyped DEF TeamTyped, RowsTyped, Begin
<1>2. PICK n \in Nat, m \in Nat, k \in Nat :
        n = Len(users) /\ m = Len(companies) /\ k = Len(stored)
  BY <1>1 DEF Lens
<1>3. PICK r : r = NewCall(op, at, p, NoSession, Gone, NoCode)
  OBVIOUS
<1>4. <<>> \in Codes
  BY DEF Codes
<1>5. r \in Locals(n, m, k)
  BY <1>3, <1>4 DEF NewCall, Locals, NoCode, NoSession, Inviting
<1>6. r.op = op /\ r.at = at /\ r.unlinked = {}
  BY <1>3 DEF NewCall
<1>7. PICK q : q = [r EXCEPT !.company = i, !.user = u]
  OBVIOUS
<1>8. i \in 0..m /\ u \in 0..n /\ i # 0
  BY <1>1, <1>2
<1>9. /\ q \in Locals(n, m, k) /\ q.op = op /\ q.at = at /\ q.unlinked = {}
      /\ q.company = i /\ q.user = u
  BY <1>5, <1>6, <1>7, <1>8 DEF Locals
<1>10. Sound(q)
  BY <1>8, <1>9 DEF Sound, Asking, Inviting, Registering, Founding, Signing
<1>11. Fine(q, Len(users), Len(companies), Len(stored))
  BY <1>2, <1>9, <1>10 DEF Fine
<1>12. call' = [call EXCEPT ![c] = q]
       /\ UNCHANGED <<code, tries, sent, issued, stored, users, companies, managed, inside, form>>
  BY <1>3, <1>7 DEF Begin, OnlyUsers
<1> QED BY <1>11, <1>12, OneMoves

LEMMA InviteTypes ==
    ASSUME TeamTyped, NEW c \in Call, NEW i, NEW p \in Phone \cup Colleague, Invite(c, i, p)
    PROVE  TeamTyped'
<1>1. PICK u : u = UserOf(p)
  OBVIOUS
<1>2. u \in 0..Len(users)
  BY <1>1, UserOfIs, UserFound DEF TeamTyped, RowsTyped
<1>3. \/ Begin(c, "invite", "count", i, p, u)
      \/ u # 0 /\ Begin(c, "invite", "roles", i, p, u)
  BY <1>1 DEF Invite
<1> QED BY <1>2, <1>3, BeginTypes DEF Person

LEMMA DisableTypes ==
    ASSUME TeamTyped, NEW c \in Call, NEW i, NEW u \in DOMAIN users, Disable(c, i, u)
    PROVE  TeamTyped'
<1>1. u \in 1..Len(users) /\ u \in 0..Len(users) /\ u # 0 /\ Lens
  BY LensTyped DEF TeamTyped, RowsTyped, Lens
<1>2. users[u].phone \in Person
  BY <1>1, RolesTyped DEF TeamTyped, UserRow
<1> QED BY <1>1, <1>2, BeginTypes DEF Disable

\* A team request that ends, or goes on to another stage.
LEMMA TeamMoves ==
    ASSUME TeamTyped, NEW c \in Call,
           \/ call[c].at = "count" /\ (Ends(c) \/ Goes(c, "create"))
           \/ TeamFails(c),
           UNCHANGED <<code, tries, sent, issued, stored, users, companies, managed, inside, form>>
    PROVE  TeamTyped'
<1>1. Fine(NoRequest, Len(users), Len(companies), Len(stored))
  BY NoRequestFine
<1>2. CASE Ends(c)
  BY <1>1, <1>2, OneMoves DEF Ends
<1>3. CASE call[c].at = "count" /\ Goes(c, "create")
  <2>1. call[c] \in Locals(Len(users), Len(companies), Len(stored)) /\ Sound(call[c])
    BY <1>3, AtStage
  <2>2. PICK q : q = [call[c] EXCEPT !.at = "create"]
    OBVIOUS
  <2>3. q \in Locals(Len(users), Len(companies), Len(stored)) /\ Sound(q)
    BY <1>3, <2>1, <2>2 DEF Locals, Sound, Asking, Inviting, Registering, Founding, Signing
  <2>4. call' = [call EXCEPT ![c] = q] /\ Fine(q, Len(users), Len(companies), Len(stored))
    BY <1>3, <2>2, <2>3 DEF Goes, Fine
  <2> QED BY <2>4, OneMoves
<1> QED BY <1>2, <1>3 DEF TeamFails

LEMMA CreateMemberTypes ==
    ASSUME TeamTyped, NEW c \in Call, CreateMember(c)
    PROVE  /\ TeamTyped' /\ Len(users') = Len(users) + 1
           /\ \A v \in 1..Len(users) : users'[v] = users[v]
           /\ users'[Len(users) + 1].phone = call[c].phone
           /\ users'[Len(users) + 1].email # NoAdministrator
           /\ users'[Len(users) + 1].roles = {call[c].company}
<1> DEFINE r == call[c]
<1>1. r \in Locals(Len(users), Len(companies), Len(stored)) /\ Sound(r) /\ Lens /\ DOMAIN call = Call
      /\ r.at = "create"
  BY AtStage DEF CreateMember
<1>2. PICK m \in Nat, n \in Nat : m = Len(companies) /\ n = Len(users)
  BY <1>1 DEF Lens
<1>3. PICK i \in 1..m, p \in Person : i = r.company /\ p = r.phone
  BY <1>1, <1>2 DEF Locals, Sound, Inviting
<1>4. PICK x : x = [phone |-> p, email |-> NoEmail, auth |-> "unset", roles |-> {i}]
  OBVIOUS
<1>5. {i} \in SUBSET (1..m) /\ NoEmail \in Mail
  BY DEF Mail
<1>6. x \in UserRow(m)
  BY <1>4, <1>5 DEF UserRow
<1>7. x.phone = p /\ x.email = NoEmail /\ x.roles = {i} /\ NoEmail # NoAdministrator
  BY <1>4, TeamAssumption DEF TeamAssumption
<1>8. users' = Append(users, x) /\ users \in Seq(UserRow(m))
  BY <1>2, <1>3, <1>4 DEF CreateMember, TeamTyped, RowsTyped
<1>9. /\ users' \in Seq(UserRow(m)) /\ Len(users') = n + 1 /\ users'[n + 1] = x
      /\ \A v \in 1..n : users'[v] = users[v]
  BY <1>2, <1>6, <1>8
<1>10. OtpTyped' /\ RowsTyped' /\ Grows
  BY <1>1, <1>2, <1>9 DEF CreateMember, OnlyUsers, TeamTyped, OtpTyped, RowsTyped, Grows, Lens
<1>11. Fine(NoRequest, Len(users'), Len(companies'), Len(stored'))
  BY NoRequestFine
<1>12. TeamTyped'
  BY <1>10, <1>11, NotedTypes DEF CreateMember
<1> QED BY <1>2, <1>3, <1>7, <1>9, <1>12

LEMMA ReadInvitedTypes ==
    ASSUME TeamTyped, NEW c \in Call, ReadInvited(c)
    PROVE  TeamTyped'
<1> DEFINE r == call[c]
<1>1. r \in Locals(Len(users), Len(companies), Len(stored)) /\ Sound(r) /\ Lens /\ r.at = "roles"
  BY AtStage DEF ReadInvited
<1>2. r.user \in 1..Len(users)
  BY <1>1 DEF Locals, Sound, Lens
<1>3. PICK roles : roles = users[r.user].roles
  OBVIOUS
<1>4. roles \in SUBSET (1..Len(companies))
  BY <1>2, <1>3, RolesTyped DEF TeamTyped
<1>5. PICK q : q = [r EXCEPT !.at = "join", !.roles = roles]
  OBVIOUS
<1>6. q \in Locals(Len(users), Len(companies), Len(stored))
  BY <1>1, <1>4, <1>5 DEF Locals, Inviting
<1>7. /\ q.op = r.op /\ q.at = "join" /\ q.session = r.session /\ q.user = r.user
      /\ q.company = r.company /\ q.unlinked = r.unlinked
  BY <1>1, <1>5 DEF Locals
<1>8. Sound(q)
  BY <1>1, <1>7 DEF Sound, Asking, Inviting, Registering, Founding, Signing
<1>9. call' = [call EXCEPT ![c] = q]
      /\ UNCHANGED <<code, tries, sent, issued, stored, users, companies, managed, inside, form>>
  BY <1>3, <1>5 DEF ReadInvited, OnlyUsers
<1>10. Fine(q, Len(users), Len(companies), Len(stored))
  BY <1>6, <1>8 DEF Fine
<1> QED BY <1>9, <1>10, OneMoves

LEMMA RowReplaced ==
    ASSUME NEW S, NEW U \in Seq(S), NEW u \in 1..Len(U), NEW x \in S, NEW W, W = [U EXCEPT ![u] = x]
    PROVE  /\ W \in Seq(S) /\ Len(W) = Len(U) /\ W[u] = x
           /\ \A w \in 1..Len(U) : w # u => W[w] = U[w]
  OBVIOUS

\* The saves of users by a team, each of one user.
LEMMA SaveTypes ==
    ASSUME TeamTyped, NEW c \in Call, NEW u \in 1..Len(users), NEW x \in UserRow(Len(companies)),
           users' = [users EXCEPT ![u] = x], NEW v, call' = [call EXCEPT ![c] = v],
           Fine(v, Len(users), Len(companies), Len(stored)),
           UNCHANGED <<code, tries, sent, issued, stored, companies, managed, inside, form>>
    PROVE  /\ TeamTyped' /\ Len(users') = Len(users) /\ users'[u] = x
           /\ \A w \in 1..Len(users) : w # u => users'[w] = users[w]
<1>1. Lens /\ DOMAIN call = Call
  BY LensTyped DEF TeamTyped, CallsTyped
<1>2. PICK m, U : m \in Nat /\ m = Len(companies) /\ U \in Seq(UserRow(m)) /\ U = users
  BY <1>1 DEF Lens, TeamTyped, RowsTyped
<1>3. x \in UserRow(m) /\ u \in 1..Len(U) /\ users' = [U EXCEPT ![u] = x] /\ U \in Seq(UserRow(m))
  BY <1>2
<1>4. /\ users' \in Seq(UserRow(m)) /\ Len(users') = Len(U) /\ users'[u] = x
      /\ \A w \in 1..Len(U) : w # u => users'[w] = U[w]
  <2>1. PICK W : W = [U EXCEPT ![u] = x]
    OBVIOUS
  <2>2. W \in Seq(UserRow(m)) /\ Len(W) = Len(U) /\ W[u] = x
        /\ \A w \in 1..Len(U) : w # u => W[w] = U[w]
    BY <1>3, <2>1, RowReplaced
  <2> QED BY <1>3, <2>1, <2>2
<1>5. OtpTyped' /\ RowsTyped' /\ Grows
  BY <1>1, <1>2, <1>4 DEF TeamTyped, OtpTyped, RowsTyped, Grows, Lens
<1>6. /\ DOMAIN call' = Call /\ \A d \in Call \ {c} : call'[d] = call[d]
      /\ Fine(call'[c], Len(users'), Len(companies'), Len(stored'))
  BY <1>1, <1>2, <1>4
<1>7. TeamTyped'
  BY <1>5, <1>6, CallsKeep
<1> QED BY <1>2, <1>4, <1>7

LEMMA SaveInvitedTypes ==
    ASSUME TeamTyped, NEW c \in Call, SaveInvited(c)
    PROVE  /\ TeamTyped' /\ Len(users') = Len(users) /\ call[c].user \in 1..Len(users)
           /\ \A w \in 1..Len(users) : w # call[c].user => users'[w] = users[w]
           /\ users'[call[c].user].phone = users[call[c].user].phone
           /\ users'[call[c].user].email = users[call[c].user].email
           /\ users'[call[c].user].roles = call[c].roles \cup {call[c].company}
<1> DEFINE r == call[c]
<1>1. r \in Locals(Len(users), Len(companies), Len(stored)) /\ Sound(r) /\ Lens /\ r.at = "join"
  BY AtStage DEF SaveInvited
<1>2. PICK u \in 1..Len(users) : u = r.user
  BY <1>1 DEF Locals, Sound, Lens
<1>3. PICK roles \in SUBSET (1..Len(companies)) : roles = r.roles \cup {r.company}
  <2>1. r.roles \in SUBSET (1..Len(companies)) /\ r.company \in 0..Len(companies)
    BY <1>1 DEF Locals
  <2>2. r.company \in 1..Len(companies)
    BY <1>1, <2>1 DEF Sound, Lens, Inviting
  <2> QED BY <2>1, <2>2
<1>4. users[u] \in UserRow(Len(companies))
  BY RolesTyped DEF TeamTyped
<1>5. PICK email \in Mail : email = users[u].email
  BY <1>4 DEF UserRow
<1>6. PICK x : x = [users[u] EXCEPT !.roles = roles]
  OBVIOUS
<1>7. x \in UserRow(Len(companies)) /\ x.phone = users[u].phone /\ x.email = email /\ x.roles = roles
  BY <1>4, <1>5, <1>6 DEF UserRow
<1>8. users' = [users EXCEPT ![u] = x]
  BY <1>2, <1>3, <1>6 DEF SaveInvited
<1>9. call' = [call EXCEPT ![c] = NoRequest]
      /\ UNCHANGED <<code, tries, sent, issued, stored, companies, managed, inside, form>>
  BY DEF SaveInvited, OnlyUsers, Ends
<1>10. Fine(NoRequest, Len(users), Len(companies), Len(stored))
  BY NoRequestFine
<1>11. /\ TeamTyped' /\ Len(users') = Len(users) /\ users'[u] = x
       /\ \A w \in 1..Len(users) : w # u => users'[w] = users[w]
  BY <1>7, <1>8, <1>9, <1>10, SaveTypes
<1> QED BY <1>2, <1>3, <1>5, <1>7, <1>11

LEMMA ClearRolesTypes ==
    ASSUME TeamTyped, NEW c \in Call, ClearRoles(c)
    PROVE  /\ TeamTyped' /\ Len(users') = Len(users) /\ call[c].user \in 1..Len(users)
           /\ \A w \in 1..Len(users) : w # call[c].user => users'[w] = users[w]
           /\ users'[call[c].user].phone = users[call[c].user].phone
           /\ users'[call[c].user].email = users[call[c].user].email
           /\ users'[call[c].user].roles = {}
<1> DEFINE r == call[c]
<1>1. r \in Locals(Len(users), Len(companies), Len(stored)) /\ Sound(r) /\ Lens /\ r.at = "clear"
  BY AtStage DEF ClearRoles
<1>2. PICK u \in 1..Len(users) : u = r.user
  BY <1>1 DEF Locals, Sound, Lens
<1>3. PICK roles \in SUBSET (1..Len(companies)) : roles = {}
  OBVIOUS
<1>4. users[u] \in UserRow(Len(companies))
  BY RolesTyped DEF TeamTyped
<1>5. PICK email \in Mail : email = users[u].email
  BY <1>4 DEF UserRow
<1>6. PICK x : x = [users[u] EXCEPT !.roles = roles]
  OBVIOUS
<1>7. x \in UserRow(Len(companies)) /\ x.phone = users[u].phone /\ x.email = email /\ x.roles = roles
  BY <1>4, <1>5, <1>6 DEF UserRow
<1>8. users' = [users EXCEPT ![u] = x]
  BY <1>2, <1>3, <1>6 DEF ClearRoles
<1>9. PICK q : q = [r EXCEPT !.at = "remove"]
  OBVIOUS
<1>10. q \in Locals(Len(users), Len(companies), Len(stored)) /\ Sound(q)
  BY <1>1, <1>9 DEF Locals, Sound, Asking, Inviting, Registering, Founding, Signing
<1>11. call' = [call EXCEPT ![c] = q]
       /\ UNCHANGED <<code, tries, sent, issued, stored, companies, managed, inside, form>>
  BY <1>9 DEF ClearRoles, OnlyUsers, Goes
<1>12. Fine(q, Len(users), Len(companies), Len(stored))
  BY <1>10 DEF Fine
<1>13. /\ TeamTyped' /\ Len(users') = Len(users) /\ users'[u] = x
       /\ \A w \in 1..Len(users) : w # u => users'[w] = users[w]
  BY <1>7, <1>8, <1>11, <1>12, SaveTypes
<1> QED BY <1>2, <1>3, <1>5, <1>7, <1>13

LEMMA RemoveTypes ==
    ASSUME TeamTyped, NEW c \in Call, RemoveAdministrator(c)
    PROVE  /\ TeamTyped' /\ Len(users') = Len(users) /\ call[c].user \in 1..Len(users)
           /\ \A w \in 1..Len(users) : w # call[c].user => users'[w] = users[w]
           /\ users'[call[c].user].phone = users[call[c].user].phone
           /\ users'[call[c].user].roles = users[call[c].user].roles
<1> DEFINE r == call[c]
<1>1. r \in Locals(Len(users), Len(companies), Len(stored)) /\ Sound(r) /\ Lens /\ r.at = "remove"
  BY AtStage DEF RemoveAdministrator
<1>2. PICK u \in 1..Len(users) : u = r.user
  BY <1>1 DEF Locals, Sound, Lens
<1>3. users[u] \in UserRow(Len(companies))
  BY RolesTyped DEF TeamTyped
<1>4. PICK roles \in SUBSET (1..Len(companies)) : roles = users[u].roles
  BY <1>3 DEF UserRow
<1>5. PICK email \in Mail : email = NoAdministrator
  BY DEF Mail
<1>6. PICK x : x = [users[u] EXCEPT !.email = email]
  OBVIOUS
<1>7. x \in UserRow(Len(companies)) /\ x.phone = users[u].phone /\ x.roles = roles
  BY <1>3, <1>4, <1>6 DEF UserRow
<1>8. users' = [users EXCEPT ![u] = x]
  BY <1>2, <1>5, <1>6 DEF RemoveAdministrator
<1>9. call' = [call EXCEPT ![c] = NoRequest]
      /\ UNCHANGED <<code, tries, sent, issued, stored, companies, managed, inside, form>>
  BY DEF RemoveAdministrator, OnlyUsers, Ends
<1>10. Fine(NoRequest, Len(users), Len(companies), Len(stored))
  BY NoRequestFine
<1>11. /\ TeamTyped' /\ Len(users') = Len(users) /\ users'[u] = x
       /\ \A w \in 1..Len(users) : w # u => users'[w] = users[w]
  BY <1>7, <1>8, <1>9, <1>10, SaveTypes
<1> QED BY <1>2, <1>4, <1>7, <1>11
-----------------------------------------------------------------------------
\* Requests that hold the data of a registration, and those the invariant is about.
Held == {"drop"} \cup Registering
Busy == Held \cup {"create"}

\* The companies that the properties except.
Lost == raced \cup left
Excepted == unchecked \cup rushed \cup restored \cup crossed

\* The companies are managed, and what a save of the role drops is not.
ManagedInv ==
    /\ 1..Len(companies) \subseteq managed \cup crossed
    /\ \A c \in Call : call[c].at = "save" => 1..Len(companies) \subseteq call[c].seen \cup crossed
    /\ \A c \in Call : call[c].at \in {"attach", "link", "commit"} => call[c].dropped \subseteq crossed

\* The owner of a company has it, and what a registration has read of its owner's
\* roles, and found of its owner, still stands.
OwnersInv ==
    /\ \A i \in 1..Len(companies) :
          \/ i \in Lost
          \/ /\ UserIn(users, companies[i].phone) # 0
             /\ i \in users[UserIn(users, companies[i].phone)].roles
    /\ \A c \in Call : call[c].at \in Founding =>
          \/ call[c].user = UserIn(users, call[c].phone)
          \/ call[c].user = 0 /\ call[c].raced
    /\ \A c \in Call : call[c].at = "link" =>
          \A i \in 1..Len(companies) :
             companies[i].phone = call[c].phone => i \in call[c].roles \cup Lost
    /\ \A c \in Call : call[c].at = "commit" =>
          \A i \in call[c].unlinked : companies[i].phone = call[c].phone => i \in Lost

\* The data of a registration is with one request, or in one company, and is gone
\* by then, but for the shared ones.
SessionsInv ==
    /\ \A c, d \in Call : c # d /\ call[c].at \in Held /\ call[d].at \in Held
                            /\ call[c].session = call[d].session => call[c].session \in shared
    /\ \A c \in Call, i \in 1..Len(companies) :
          call[c].at \in Held /\ companies[i].session = call[c].session => call[c].session \in shared
    /\ \A c \in Call : call[c].at \in Registering => stored[call[c].session] = Gone
    /\ \A i \in 1..Len(companies) : /\ companies[i].session <= Len(stored)
                                    /\ companies[i].session > 0 => stored[companies[i].session] = Gone
    /\ OneCompanyPerRegistration

\* The limit leaves a seat to the owner: nothing checks it when a company is made.
OwnerHasSeat == 1 + Platform <= MaxAdmins

\* Where the limit holds, every member is an administrator, so all are counted; one
\* request has counted, and found a seat that is still free.
SeatsInv ==
    /\ \A c, d \in Call : c # d /\ call[c].at = "create" /\ call[d].at = "create"
                            /\ call[c].company = call[d].company => call[c].company \in rushed
    /\ \A c \in Call : call[c].at = "create" /\ call[c].company \notin Excepted =>
          Cardinality(Members(call[c].company)) + Platform < MaxAdmins
    /\ \A i \in 1..Len(companies) \ Excepted : \A u \in 1..Len(users) :
          i \in users[u].roles => users[u].email # NoAdministrator
    /\ OwnerHasSeat => SeatsWithinLimit
-----------------------------------------------------------------------------
\* A step that changes nothing the invariant speaks of in the users and companies.
SameRows ==
    /\ Len(users') = Len(users) /\ Len(companies') = Len(companies)
    /\ \A v \in 1..Len(users) : /\ users'[v].phone = users[v].phone
                                /\ users'[v].email = users[v].email
                                /\ users'[v].roles = users[v].roles
    /\ \A i \in 1..Len(companies) : /\ companies'[i].phone = companies[i].phone
                                    /\ companies'[i].session = companies[i].session

DataGoes ==
    /\ Len(stored) <= Len(stored')
    /\ \A s \in 1..Len(stored) : stored'[s] = stored[s] \/ stored'[s] = Gone

SameNotes == UNCHANGED <<managed, shared, crossed, raced, unchecked, rushed, restored, left>>

\* A step after which nobody holds more than before.
Quiet ==
    /\ SameRows /\ DataGoes /\ SameNotes
    /\ \A d \in Call : call'[d] = call[d] \/ call'[d].at \notin Busy

\* What keeps each part.

LEMMA ManagedKeeps ==
    ASSUME ManagedInv, UNCHANGED <<managed, crossed>>, Len(companies') = Len(companies),
           \A d \in Call : call'[d].at = "save" => call[d].at = "save" /\ call'[d].seen = call[d].seen,
           \A d \in Call : call'[d].at \in {"attach", "link", "commit"} =>
              call[d].at \in {"attach", "link", "commit"} /\ call'[d].dropped = call[d].dropped
    PROVE  ManagedInv'
  BY DEF ManagedInv

LEMMA SameUserFound ==
    ASSUME NEW S, NEW T, NEW U \in Seq(S), NEW W \in Seq(T), Len(W) = Len(U),
           \A v \in 1..Len(U) : W[v].phone = U[v].phone, NEW p
    PROVE  UserIn(W, p) = UserIn(U, p)
<1>1. DOMAIN U = DOMAIN W /\ \A v \in DOMAIN U : W[v].phone = U[v].phone
  OBVIOUS
<1>2. /\ UserIn(U, p) \in Nat /\ UserIn(W, p) \in Nat
      /\ UserIn(U, p) = 0 => \A u \in DOMAIN U : U[u].phone # p
      /\ UserIn(W, p) = 0 => \A u \in DOMAIN U : U[u].phone # p
  BY <1>1, UserFound
<1>3. UserIn(U, p) # 0 => /\ UserIn(U, p) \in DOMAIN U /\ U[UserIn(U, p)].phone = p
                          /\ \A w \in DOMAIN U : U[w].phone = p => UserIn(U, p) <= w
  BY UserFound
<1>4. UserIn(W, p) # 0 => /\ UserIn(W, p) \in DOMAIN U /\ U[UserIn(W, p)].phone = p
                          /\ \A w \in DOMAIN U : U[w].phone = p => UserIn(W, p) <= w
  BY <1>1, UserFound
<1> QED BY <1>2, <1>3, <1>4

LEMMA OwnersKeeps ==
    ASSUME TeamTyped, TeamTyped', OwnersInv, raced \subseteq raced', left \subseteq left',
           Len(users') = Len(users), Len(companies') = Len(companies),
           \A v \in 1..Len(users) : /\ users'[v].phone = users[v].phone
                                   /\ users[v].roles \subseteq users'[v].roles \cup left',
           \A i \in 1..Len(companies) : companies'[i].phone = companies[i].phone,
           \A d \in Call : call'[d].at \in Founding =>
              /\ call[d].at \in Founding /\ call'[d].phone = call[d].phone
              /\ call'[d].user = call[d].user /\ (call[d].raced => call'[d].raced),
           \A d \in Call : call'[d].at = "link" => call[d].at = "link" /\ call'[d].roles = call[d].roles,
           \A d \in Call : call'[d].at = "commit" /\ call'[d].unlinked # {} =>
              call[d].at = "commit" /\ call'[d].unlinked = call[d].unlinked
    PROVE  OwnersInv'
<1>1. \A p : UserIn(users', p) = UserIn(users, p)
  <2>1. PICK S, T, U, W : S = UserRow(Len(companies)) /\ T = UserRow(Len(companies')) /\ U = users /\ W = users'
    OBVIOUS
  <2>2. U \in Seq(S) /\ W \in Seq(T) /\ Len(W) = Len(U) /\ \A v \in 1..Len(U) : W[v].phone = U[v].phone
    BY <2>1 DEF TeamTyped, RowsTyped
  <2>3. \A p : UserIn(W, p) = UserIn(U, p)
    BY <2>2, SameUserFound
  <2> QED BY <2>1, <2>3
<1>2. Lost \subseteq Lost' /\ left' \subseteq Lost'
  BY DEF Lost
<1>3. \A p : UserIn(users, p) # 0 => UserIn(users, p) \in 1..Len(users)
  BY UserFound, LensTyped DEF TeamTyped, RowsTyped, Lens
<1>4. ASSUME NEW i \in 1..Len(companies'), i \notin Lost'
      PROVE  /\ UserIn(users', companies'[i].phone) # 0
             /\ i \in users'[UserIn(users', companies'[i].phone)].roles
  <2>1. PICK u : u = UserIn(users, companies[i].phone)
    OBVIOUS
  <2>2. u # 0 /\ i \in users[u].roles
    BY <1>2, <1>4, <2>1 DEF OwnersInv
  <2>3. i \in users'[u].roles
    BY <1>2, <1>3, <1>4, <2>1, <2>2
  <2>4. u = UserIn(users', companies'[i].phone)
    BY <1>1, <2>1
  <2> QED BY <2>2, <2>3, <2>4
<1>5. \A c \in Call : call'[c].at \in Founding =>
          \/ call'[c].user = UserIn(users', call'[c].phone)
          \/ call'[c].user = 0 /\ call'[c].raced
  BY <1>1 DEF OwnersInv
<1>6. \A c \in Call : call'[c].at = "link" =>
          \A i \in 1..Len(companies') :
             companies'[i].phone = call'[c].phone => i \in call'[c].roles \cup Lost'
  <2> SUFFICES ASSUME NEW c \in Call, call'[c].at = "link", NEW i \in 1..Len(companies'),
                      companies'[i].phone = call'[c].phone
               PROVE  i \in call'[c].roles \cup Lost'
    OBVIOUS
  <2>1. call[c].at = "link" /\ call'[c].roles = call[c].roles
    OBVIOUS
  <2>2. call'[c].phone = call[c].phone
    BY DEF Founding
  <2> QED BY <1>2, <2>1, <2>2 DEF OwnersInv
<1>7. \A c \in Call : call'[c].at = "commit" =>
          \A i \in call'[c].unlinked : companies'[i].phone = call'[c].phone => i \in Lost'
  <2> SUFFICES ASSUME NEW c \in Call, call'[c].at = "commit", NEW i \in call'[c].unlinked,
                      companies'[i].phone = call'[c].phone
               PROVE  i \in Lost'
    OBVIOUS
  <2>1. call[c].at = "commit" /\ call'[c].unlinked = call[c].unlinked
    OBVIOUS
  <2>2. call'[c].phone = call[c].phone
    BY DEF Founding
  <2>3. i \in 1..Len(companies)
    BY <2>1, AtStage DEF Locals
  <2> QED BY <1>2, <2>1, <2>2, <2>3 DEF OwnersInv
<1> QED BY <1>4, <1>5, <1>6, <1>7 DEF OwnersInv

LEMMA SessionsKeeps ==
    ASSUME TeamTyped, SessionsInv, shared \subseteq shared', DataGoes, Len(companies') = Len(companies),
           \A i \in 1..Len(companies) : companies'[i].session = companies[i].session, DOMAIN companies' = DOMAIN companies,
           \A d \in Call : call'[d].at \in Held =>
              /\ call[d].at \in Held /\ call'[d].session = call[d].session
              /\ call'[d].at \in Registering =>
                   call[d].at \in Registering \/ stored'[call[d].session] = Gone
    PROVE  SessionsInv'
<1>1. \A c, d \in Call : c # d /\ call'[c].at \in Held /\ call'[d].at \in Held
                            /\ call'[c].session = call'[d].session => call'[c].session \in shared'
  BY DEF SessionsInv
<1>2. \A c \in Call, i \in 1..Len(companies') :
          call'[c].at \in Held /\ companies'[i].session = call'[c].session => call'[c].session \in shared'
  BY DEF SessionsInv
<1>3. \A c \in Call : call'[c].at \in Registering => stored'[call'[c].session] = Gone
  <2> SUFFICES ASSUME NEW c \in Call, call'[c].at \in Registering
               PROVE  stored'[call'[c].session] = Gone
    OBVIOUS
  <2>1. /\ call[c].at \in Registering \/ stored'[call[c].session] = Gone
        /\ call'[c].session = call[c].session
    BY DEF Held
  <2>2. CASE call[c].at \in Registering
    <3>1. call[c].session \in 1..Len(stored)
      BY <2>2, AtStage DEF Sound, Locals, Lens, Registering, Founding
    <3> QED BY <2>1, <2>2, <3>1 DEF SessionsInv, DataGoes
  <2> QED BY <2>1, <2>2
<1>4. \A i \in 1..Len(companies') : /\ companies'[i].session <= Len(stored')
                                    /\ companies'[i].session > 0 => stored'[companies'[i].session] = Gone
  <2> SUFFICES ASSUME NEW i \in 1..Len(companies)
               PROVE  /\ companies'[i].session <= Len(stored')
                      /\ companies'[i].session > 0 => stored'[companies'[i].session] = Gone
    OBVIOUS
  <2>1. companies[i] \in CompanyRow
    BY DEF TeamTyped, RowsTyped
  <2>2. PICK s \in Int : s = companies[i].session /\ s = companies'[i].session
    BY <2>1 DEF CompanyRow
  <2>3. s <= Len(stored) /\ (s > 0 => stored[s] = Gone)
    BY <2>2 DEF SessionsInv
  <2>4. Len(stored) \in Nat /\ Len(stored) <= Len(stored') /\ Len(stored') \in Int
    BY LensTyped DEF TeamTyped, Lens, DataGoes
  <2> QED BY <2>2, <2>3, <2>4 DEF DataGoes
<1>5. OneCompanyPerRegistration'
  <2>1. DOMAIN companies = 1..Len(companies)
    BY DEF TeamTyped, RowsTyped
  <2> QED BY <2>1 DEF SessionsInv, OneCompanyPerRegistration
<1> QED BY <1>1, <1>2, <1>3, <1>4, <1>5 DEF SessionsInv

LEMMA MembersFinite ==
    ASSUME TeamTyped, NEW i
    PROVE  IsFiniteSet(Members(i)) /\ Cardinality(Members(i)) \in Nat
<1>1. Members(i) \in SUBSET (1..Len(users)) /\ Len(users) \in Nat
  BY LensTyped DEF Members, TeamTyped, RowsTyped, Lens
<1>2. IsFiniteSet(1..Len(users))
  BY <1>1, FS_Interval
<1> QED BY <1>1, <1>2, FS_Subset, FS_CardinalityType

LEMMA FewerMembers ==
    ASSUME TeamTyped, NEW i, Len(users') = Len(users), TeamTyped',
           \A u \in 1..Len(users) : i \in users'[u].roles => i \in users[u].roles
    PROVE  Cardinality(Members(i))' <= Cardinality(Members(i))
<1>1. Members(i)' \in SUBSET Members(i)
  BY DEF Members, TeamTyped, RowsTyped
<1>2. IsFiniteSet(Members(i))
  BY MembersFinite
<1> QED BY <1>1, <1>2, FS_Subset

LEMMA SeatsKeeps ==
    ASSUME TeamTyped, TeamTyped', SeatsInv, Excepted \subseteq Excepted', rushed \subseteq rushed',
           Len(users') = Len(users), Len(companies') = Len(companies),
           \A i \in 1..Len(companies) \ Excepted', u \in 1..Len(users) :
              i \in users'[u].roles => i \in users[u].roles /\ users'[u].email = users[u].email,
           \A d \in Call : call'[d].at = "create" =>
              call[d].at = "create" /\ call'[d].company = call[d].company
    PROVE  SeatsInv'
<1>1. \A i \in 1..Len(companies) \ Excepted' : Cardinality(Members(i))' <= Cardinality(Members(i))
  BY FewerMembers
<1>2. \A i : Cardinality(Members(i)) \in Nat /\ Cardinality(Members(i))' \in Nat
  <2> TAKE i
  <2>1. Cardinality(Members(i)) \in Nat
    BY MembersFinite
  <2>2. Cardinality(Members(i))' \in Nat
    <3>1. Members(i)' \in SUBSET (1..Len(users'))
      BY DEF Members, TeamTyped, RowsTyped
    <3>2. Len(users') \in Nat
      BY LensTyped DEF TeamTyped, Lens
    <3>3. PICK M, n : M = Members(i)' /\ n = Len(users')
      OBVIOUS
    <3>4. M \in SUBSET (1..n) /\ n \in Nat
      BY <3>1, <3>2, <3>3
    <3>5. IsFiniteSet(1..n)
      BY <3>4, FS_Interval
    <3>6. Cardinality(M) \in Nat
      BY <3>4, <3>5, FS_Subset, FS_CardinalityType
    <3> QED BY <3>3, <3>6
  <2> QED BY <2>1, <2>2
<1>3. Platform \in Nat /\ MaxAdmins \in Nat
  BY TeamAssumption DEF TeamAssumption
<1>4. \A c, d \in Call : c # d /\ call'[c].at = "create" /\ call'[d].at = "create"
                            /\ call'[c].company = call'[d].company => call'[c].company \in rushed'
  BY DEF SeatsInv
<1>5. ASSUME NEW c \in Call, call'[c].at = "create", call'[c].company \notin Excepted'
      PROVE  (Cardinality(Members(call[c].company)) + Platform < MaxAdmins)'
  <2>1. PICK i : i = call[c].company
    OBVIOUS
  <2>2. call[c].at = "create" /\ i = call'[c].company /\ i \notin Excepted
    BY <1>5, <2>1
  <2>3. Cardinality(Members(i)) + Platform < MaxAdmins
    BY <2>1, <2>2 DEF SeatsInv
  <2>4. i \in 1..Len(companies)
    <3>1. call[c] \in Locals(Len(users), Len(companies), Len(stored)) /\ Sound(call[c]) /\ Lens
      BY <2>2, AtStage
    <3>2. i \in 0..Len(companies)
      BY <2>1, <3>1 DEF Locals
    <3>3. i # 0
      BY <2>1, <2>2, <3>1 DEF Sound, Inviting
    <3> QED BY <3>1, <3>2, <3>3 DEF Lens
  <2>5. Cardinality(Members(i))' <= Cardinality(Members(i))
    BY <1>1, <1>5, <2>2, <2>4
  <2>6. Cardinality(Members(i))' + Platform < MaxAdmins
    <3>1. PICK a \in Nat, b \in Nat : a = Cardinality(Members(i)) /\ b = Cardinality(Members(i))'
      BY <1>2
    <3> QED BY <1>3, <2>3, <2>5, <3>1
  <2> QED BY <2>2, <2>6 DEF Members
<1>6. \A i \in 1..Len(companies') \ Excepted' : \A u \in 1..Len(users') :
          i \in users'[u].roles => users'[u].email # NoAdministrator
  BY DEF SeatsInv
<1>7. OwnerHasSeat => SeatsWithinLimit'
  <2> SUFFICES ASSUME OwnerHasSeat, NEW i \in DOMAIN companies' \ Excepted'
               PROVE  Cardinality(Members(i))' + Platform <= MaxAdmins
    BY DEF SeatsWithinLimit, Excepted
  <2>1. i \in DOMAIN companies \ Excepted /\ i \in 1..Len(companies) \ Excepted'
    BY DEF TeamTyped, RowsTyped
  <2>2. Cardinality(Members(i)) + Platform <= MaxAdmins
    BY <2>1 DEF SeatsInv, SeatsWithinLimit, Excepted
  <2>3. PICK a \in Nat, b \in Nat : a = Cardinality(Members(i)) /\ b = Cardinality(Members(i))'
    BY <1>2
  <2> QED BY <1>1, <1>3, <2>1, <2>2, <2>3
<1> QED BY <1>4, <1>5, <1>6, <1>7 DEF SeatsInv, OwnerHasSeat

TeamInv == ManagedInv /\ OwnersInv /\ SessionsInv /\ SeatsInv

LEMMA QuietKeeps == ASSUME TeamTyped, TeamTyped', TeamInv, Quiet PROVE TeamInv'
<1>1. \A d \in Call : call'[d].at \in Busy => call'[d] = call[d]
  BY DEF Quiet
<1>2. /\ Founding \subseteq Busy /\ Held \subseteq Busy /\ Registering \subseteq Held
      /\ {"save", "attach", "link", "commit"} \subseteq Founding /\ "create" \in Busy
  BY DEF Busy, Held, Registering, Founding
<1>3. ManagedInv'
  BY <1>1, <1>2, ManagedKeeps DEF TeamInv, Quiet, SameRows, SameNotes
<1>4. OwnersInv'
  BY <1>1, <1>2, OwnersKeeps DEF TeamInv, Quiet, SameRows, SameNotes
<1>5. SessionsInv'
  <2>1. DOMAIN companies' = DOMAIN companies
    BY DEF Quiet, SameRows, TeamTyped, RowsTyped
  <2> QED BY <1>1, <1>2, <2>1, SessionsKeeps DEF TeamInv, Quiet, SameRows, SameNotes
<1>6. SeatsInv'
  BY <1>1, <1>2, SeatsKeeps DEF TeamInv, Quiet, SameRows, SameNotes, Excepted
<1> QED BY <1>3, <1>4, <1>5, <1>6 DEF TeamInv
-----------------------------------------------------------------------------
\* What else a step of a registration changes.
Alongside == Regains /\ UNCHANGED <<unchecked, rushed, left>>

LEMMA NothingRegained == ASSUME TeamTyped, SameRows, Alongside PROVE restored' = restored
<1>1. DOMAIN users = 1..Len(users)
  BY DEF TeamTyped, RowsTyped
<1>2. \A u \in DOMAIN users : users'[u].roles \ users[u].roles = {}
  BY <1>1 DEF SameRows
<1>3. {i \in DOMAIN companies : \E u \in DOMAIN users : i \in users'[u].roles \ users[u].roles} = {}
  BY <1>2
<1> QED BY <1>3 DEF Alongside, Regains

\* A request goes to a stage that the invariant is not about.
LEMMA QuietCall ==
    ASSUME TeamTyped, NEW c \in Call, NEW v, v.at \notin Busy, call' = [call EXCEPT ![c] = v],
           SameRows, DataGoes, UNCHANGED <<managed, shared, crossed, raced>>,
           Alongside \/ UNCHANGED <<unchecked, rushed, restored, left>>
    PROVE  Quiet
<1>1. \A d \in Call : call'[d] = call[d] \/ call'[d].at \notin Busy
  BY DEF TeamTyped, CallsTyped
<1>2. SameNotes
  BY NothingRegained DEF SameNotes, Alongside
<1> QED BY <1>1, <1>2 DEF Quiet

LEMMA RowsStay == ASSUME UNCHANGED <<users, companies>> PROVE SameRows
  BY DEF SameRows

LEMMA DataStays == ASSUME TeamTyped, UNCHANGED stored PROVE DataGoes
  BY LensTyped DEF DataGoes, TeamTyped, Lens

LEMMA NotBusy ==
    /\ \A at \in Asking \cup Answering \cup {"idle", "pend", "token"} : at \notin Busy
    /\ \A at \in Inviting \ {"create"} : at \notin Busy
  BY DEF Asking, Answering, Busy, Held, Registering, Founding, Inviting

LEMMA OtpQuiet ==
    ASSUME TeamTyped, NEW c \in Call, OtpStep(c), UNCHANGED regVars, Alongside
    PROVE  Quiet
<1>1. \A d \in Call : call'[d] = call[d] \/ call'[d].at \in Asking \cup Answering
  <2>1. ASSUME NEW v, v.at \in Asking \cup Answering, call' = [call EXCEPT ![c] = v]
        PROVE  \A d \in Call : call'[d] = call[d] \/ call'[d].at \in Asking \cup Answering
    BY <2>1 DEF TeamTyped, CallsTyped
  <2>2. ASSUME NEW at \in Asking \cup Answering, Answer(c, at)
        PROVE  \A d \in Call : call'[d] = call[d] \/ call'[d].at \in Asking \cup Answering
    <3>1. Answered(c, at).at = at
      BY DEF Answered, NewCall
    <3> QED BY <2>1, <2>2, <3>1 DEF Answer
  <2>3. ASSUME NEW v, v \in Locals(Len(users), Len(companies), Len(stored)), NEW at \in Asking, v = call[c]
        PROVE  [v EXCEPT !.at = at].at = at
    BY <2>3 DEF Locals
  <2>4. call[c].at \in Asking
    BY DEF OtpStep, CheckRate, StoreCode, SendCode, ReadCode, ReadTries, RejectCode, SpendCode, Asking
  <2>5. call[c] \in Locals(Len(users), Len(companies), Len(stored))
    BY <2>4, AtStage DEF Asking
  <2>6. CASE CheckRate(c)
    BY <2>1, <2>2, <2>5, <2>6, <2>3 DEF CheckRate, Refuse, Goes, Asking, Answering
  <2>7. CASE StoreCode(c)
    <3>1. PICK v : v = [call[c] EXCEPT !.at = "sms", !.stored = issued + 1]
      OBVIOUS
    <3>2. v.at = "sms"
      BY <2>5, <3>1 DEF Locals
    <3>3. call' = [call EXCEPT ![c] = v]
      BY <2>7, <3>1 DEF StoreCode
    <3> QED BY <2>1, <3>2, <3>3 DEF Asking
  <2>8. CASE SendCode(c) \/ RejectCode(c) \/ SpendCode(c)
    BY <2>2, <2>8 DEF SendCode, RejectCode, SpendCode, Refuse, Asking, Answering
  <2>9. CASE ReadCode(c)
    <3>1. PICK v : v = [call[c] EXCEPT !.at = "tries", !.stored = code[call[c].phone]]
      OBVIOUS
    <3>2. v.at = "tries"
      BY <2>5, <3>1 DEF Locals
    <3>3. Answer(c, "refused") \/ call' = [call EXCEPT ![c] = v]
      BY <2>9, <3>1 DEF ReadCode, Refuse
    <3> QED BY <2>1, <2>2, <3>2, <3>3 DEF Asking, Answering
  <2>10. CASE ReadTries(c)
    <3>1. PICK at : at = IF call[c].guess = call[c].stored THEN "spend" ELSE "wrong"
      OBVIOUS
    <3>2. PICK v : v = [call[c] EXCEPT !.wrong = tries[call[c].phone], !.at = at]
      OBVIOUS
    <3>3. v.at = at /\ at \in Asking
      BY <2>5, <3>1, <3>2 DEF Locals, Asking
    <3>4. Answer(c, "refused") \/ call' = [call EXCEPT ![c] = v]
      BY <2>10, <3>1, <3>2 DEF ReadTries, Refuse
    <3> QED BY <2>1, <2>2, <3>3, <3>4 DEF Answering
  <2> QED BY <2>6, <2>7, <2>8, <2>9, <2>10 DEF OtpStep
<1>2. \A d \in Call : call'[d] = call[d] \/ call'[d].at \notin Busy
  BY <1>1, NotBusy
<1>3. SameRows /\ DataGoes
  BY RowsStay, DataStays DEF regVars
<1>4. SameNotes
  BY <1>3, NothingRegained DEF SameNotes, regVars, Alongside
<1> QED BY <1>2, <1>3, <1>4 DEF Quiet

LEMMA AskingQuiet ==
    ASSUME TeamTyped, NEW c \in Call, NEW p \in Phone, Alongside,
           \/ \E input \in Inputs : AskToRegister(c, p, input)
           \/ AskToLogin(c, p)
           \/ \E guess \in Guesses(p) : SubmitCode(c, p, guess) \/ SubmitLogin(c, p, guess)
    PROVE  TeamTyped' /\ Quiet
<1>1. \A op, at, s, data, guess : NewCall(op, at, p, s, data, guess).at = at
  BY DEF NewCall
<1>2. "rate" \notin Busy /\ "read" \notin Busy
  BY DEF Busy, Held, Registering, Founding
<1>3. CASE \E input \in Inputs : AskToRegister(c, p, input)
  <2>1. PICK input \in Inputs : AskToRegister(c, p, input)
    BY <1>3
  <2>2. stored \in Seq(Inputs \cup {Gone}) /\ stored' = Append(stored, input)
    BY <2>1 DEF AskToRegister, TeamTyped, RowsTyped
  <2>3. DataGoes
    BY <2>2 DEF DataGoes
  <2>4. PICK v : v = NewCall("askRegister", "rate", p, Len(stored) + 1, input, NoCode)
    OBVIOUS
  <2>5. v.at \notin Busy /\ call' = [call EXCEPT ![c] = v]
    BY <1>1, <1>2, <2>1, <2>4 DEF AskToRegister
  <2>6. SameRows /\ UNCHANGED <<managed, shared, crossed, raced>>
    BY <2>1, RowsStay DEF AskToRegister
  <2>7. Quiet
    BY <2>3, <2>5, <2>6, QuietCall
  <2> QED BY <2>1, <2>7, AskToRegisterTypes
<1>4. CASE AskToLogin(c, p)
  <2>1. PICK v : v = NewCall("askLogin", "rate", p, NoSession, Gone, NoCode)
    OBVIOUS
  <2>2. v.at \notin Busy /\ call' = [call EXCEPT ![c] = v]
    BY <1>1, <1>2, <1>4, <2>1 DEF AskToLogin
  <2>3. SameRows /\ DataGoes /\ UNCHANGED <<managed, shared, crossed, raced>>
    BY <1>4, RowsStay, DataStays DEF AskToLogin, OnlyCalls, regVars
  <2> QED BY <1>4, <2>2, <2>3, QuietCall, AskToLoginTypes
<1>5. CASE \E guess \in Guesses(p) : SubmitCode(c, p, guess)
  <2>1. PICK guess \in Guesses(p) : SubmitCode(c, p, guess)
    BY <1>5
  <2>2. PICK v : v = NewCall("register", "read", p, form.session, Gone, guess)
    OBVIOUS
  <2>3. v.at \notin Busy /\ call' = [call EXCEPT ![c] = v]
    BY <1>1, <1>2, <2>1, <2>2 DEF SubmitCode
  <2>4. SameRows /\ DataGoes /\ UNCHANGED <<managed, shared, crossed, raced>>
    BY <2>1, RowsStay, DataStays DEF SubmitCode
  <2> QED BY <2>1, <2>3, <2>4, QuietCall, SubmitCodeTypes
<1>6. CASE \E guess \in Guesses(p) : SubmitLogin(c, p, guess)
  <2>1. PICK guess \in Guesses(p) : SubmitLogin(c, p, guess)
    BY <1>6
  <2>2. PICK v : v = NewCall("login", "read", p, NoSession, Gone, guess)
    OBVIOUS
  <2>3. v.at \notin Busy /\ call' = [call EXCEPT ![c] = v]
    BY <1>1, <1>2, <2>1, <2>2 DEF SubmitLogin
  <2>4. SameRows /\ DataGoes /\ UNCHANGED <<managed, shared, crossed, raced>>
    BY <2>1, RowsStay, DataStays DEF SubmitLogin, OnlyCalls, regVars
  <2> QED BY <2>1, <2>3, <2>4, QuietCall, SubmitLoginTypes
<1> QED BY <1>3, <1>4, <1>5, <1>6

LEMMA AnswerQuiet ==
    ASSUME TeamTyped, NEW c \in Call, NEW at \in Answering, Answer(c, at), SameRows, UNCHANGED stored,
           UNCHANGED <<managed, shared, crossed, raced>>, Alongside
    PROVE  Quiet
<1>1. Answered(c, at).at \notin Busy
  BY NotBusy DEF Answered, NewCall
<1> QED BY <1>1, DataStays, QuietCall DEF Answer

LEMMA LateQuiet ==
    ASSUME TeamTyped, NEW c \in Call, Alongside,
           \/ RollBackCompany(c) \/ SetPending(c) \/ SetPendingFails(c)
           \/ GrantToken(c) \/ LogIn(c) \/ ExpireToken(c) \/ Hear(c)
    PROVE  TeamTyped' /\ Quiet
<1>1. CASE RollBackCompany(c) \/ SetPendingFails(c) \/ ExpireToken(c)
  <2>1. Answer(c, "refused") /\ SameRows /\ UNCHANGED <<stored, managed, shared, crossed, raced>>
    BY <1>1, RowsStay
       DEF RollBackCompany, SetPendingFails, ExpireToken, Refuse, OnlyCalls, regVars
  <2> QED BY <1>1, <2>1, AnswerQuiet, FailureTypes DEF Answering
<1>2. CASE SetPending(c)
  <2>1. TeamTyped' /\ SameRows
    BY <1>2, SetPendingTypes DEF SameRows, SetPending
  <2>2. Answer(c, "done") /\ UNCHANGED <<stored, managed, shared, crossed, raced>>
    BY <1>2 DEF SetPending
  <2> QED BY <2>1, <2>2, AnswerQuiet DEF Answering
<1>3. CASE GrantToken(c)
  <2>1. PICK u : u = UserOf(call[c].phone)
    OBVIOUS
  <2>2. PICK v : v = [call[c] EXCEPT !.at = "token",
                        !.company = CHOOSE i \in users[u].roles : companies[i].status = "APPROVED"]
    OBVIOUS
  <2>3. Answer(c, "refused") \/ call' = [call EXCEPT ![c] = v]
    BY <1>3, <2>1, <2>2 DEF GrantToken, Refuse
  <2>4. call[c] \in Locals(Len(users), Len(companies), Len(stored))
    BY <1>3, AtStage DEF GrantToken
  <2>5. v.at \notin Busy
    BY <2>2, <2>4, NotBusy DEF Locals
  <2>6. SameRows /\ DataGoes /\ UNCHANGED <<stored, managed, shared, crossed, raced>>
    BY <1>3, RowsStay, DataStays DEF GrantToken, OnlyCalls, regVars
  <2> QED BY <1>3, <2>3, <2>5, <2>6, AnswerQuiet, QuietCall, GrantTokenTypes DEF Answering
<1>4. CASE LogIn(c) \/ Hear(c)
  <2>1. call' = [call EXCEPT ![c] = NoRequest] /\ NoRequest.at \notin Busy
    BY <1>4, NotBusy DEF LogIn, Hear, NoRequest
  <2>2. SameRows /\ DataGoes /\ UNCHANGED <<stored, managed, shared, crossed, raced>>
    BY <1>4, RowsStay, DataStays DEF LogIn, Hear
  <2> QED BY <1>4, <2>1, <2>2, QuietCall, LogInTypes, HearTypes
<1> QED BY <1>1, <1>2, <1>3, <1>4

LEMMA OutsideQuiet ==
    ASSUME TeamTyped, Alongside,
           \/ \E p \in Phone : Forget(p) /\ UNCHANGED regVars
           \/ \E s \in 1..MaxSessions : ExpireData(s)
           \/ \E i \in DOMAIN companies, status \in {"APPROVED", "DISABLED"} : Decide(i, status)
           \/ \E u \in DOMAIN users : RejectUser(u)
    PROVE  TeamTyped' /\ Quiet
<1>1. TeamTyped' /\ SameRows /\ DataGoes /\ call' = call
  BY OutsideTypes DEF SameRows, DataGoes, Grows
<1>2. UNCHANGED <<managed, shared, crossed, raced>>
  BY DEF regVars, ExpireData, Decide, RejectUser
<1> QED BY <1>1, <1>2, NothingRegained DEF Quiet, SameNotes, Alongside

LEMMA TeamQuiet ==
    ASSUME TeamTyped, NEW c \in Call,
           \/ CountAdmins(c) /\ ~SeatIsFree(call[c].company)
           \/ ReadInvited(c) \/ TeamFails(c)
           \/ \E i \in DOMAIN companies, p \in Phone \cup Colleague : Invite(c, i, p)
           \/ \E i \in DOMAIN companies, u \in DOMAIN users : Disable(c, i, u)
    PROVE  TeamTyped' /\ Quiet
<1>1. NoRequest.at \notin Busy
  BY NotBusy DEF NoRequest
<1>2. ASSUME NEW v, v.at \notin Busy, call' = [call EXCEPT ![c] = v], UNCHANGED users, OnlyUsers,
             UNCHANGED <<unchecked, rushed, restored, left>>
      PROVE  Quiet
  BY <1>2, QuietCall, RowsStay, DataStays DEF OnlyUsers
<1>3. CASE CountAdmins(c) /\ ~SeatIsFree(call[c].company)
  <2>1. /\ call' = [call EXCEPT ![c] = NoRequest] /\ UNCHANGED users /\ OnlyUsers
        /\ UNCHANGED <<unchecked, rushed, restored, left>>
    BY <1>3 DEF CountAdmins, Ends
  <2>2. TeamTyped'
    BY <1>3, <2>1, TeamMoves DEF CountAdmins, Ends, OnlyUsers
  <2> QED BY <1>1, <1>2, <2>1, <2>2
<1>4. CASE TeamFails(c)
  <2>1. /\ call' = [call EXCEPT ![c] = NoRequest] /\ UNCHANGED users /\ OnlyUsers
        /\ UNCHANGED <<unchecked, rushed, restored, left>>
    BY <1>4 DEF TeamFails, Ends, teamVars
  <2>2. TeamTyped'
    BY <1>4, <2>1, TeamMoves DEF OnlyUsers
  <2> QED BY <1>1, <1>2, <2>1, <2>2
<1>5. CASE ReadInvited(c)
  <2>1. PICK v : v = [call[c] EXCEPT !.at = "join", !.roles = users[call[c].user].roles]
    OBVIOUS
  <2>2. call[c] \in Locals(Len(users), Len(companies), Len(stored))
    BY <1>5, AtStage DEF ReadInvited
  <2>3. v.at \notin Busy
    BY <2>1, <2>2, NotBusy DEF Locals, Inviting
  <2>4. /\ call' = [call EXCEPT ![c] = v] /\ UNCHANGED users /\ OnlyUsers
        /\ UNCHANGED <<unchecked, rushed, restored, left>>
    BY <1>5, <2>1 DEF ReadInvited, teamVars
  <2> QED BY <1>2, <1>5, <2>3, <2>4, ReadInvitedTypes
<1>6. ASSUME NEW op, NEW at \in {"count", "roles", "clear"}, NEW i, NEW p, NEW u,
             Begin(c, op, at, i, p, u)
      PROVE  Quiet
  <2>1. PICK r : r = NewCall(op, at, p, NoSession, Gone, NoCode)
    OBVIOUS
  <2>2. PICK v : v = [r EXCEPT !.company = i, !.user = u]
    OBVIOUS
  <2>3. v.at = at
    BY <2>1, <2>2 DEF NewCall
  <2>4. v.at \notin Busy
    BY <2>3, NotBusy DEF Inviting
  <2>5. /\ call' = [call EXCEPT ![c] = v] /\ UNCHANGED users /\ OnlyUsers
        /\ UNCHANGED <<unchecked, rushed, restored, left>>
    BY <1>6, <2>1, <2>2 DEF Begin
  <2> QED BY <1>2, <2>4, <2>5
<1>7. CASE \E i \in DOMAIN companies, p \in Phone \cup Colleague : Invite(c, i, p)
  <2>1. PICK i \in DOMAIN companies, p \in Phone \cup Colleague : Invite(c, i, p)
    BY <1>7
  <2>2. Begin(c, "invite", "count", i, p, UserOf(p)) \/ Begin(c, "invite", "roles", i, p, UserOf(p))
    BY <2>1 DEF Invite
  <2> QED BY <1>6, <2>1, <2>2, InviteTypes
<1>8. CASE \E i \in DOMAIN companies, u \in DOMAIN users : Disable(c, i, u)
  <2>1. PICK i \in DOMAIN companies, u \in DOMAIN users : Disable(c, i, u)
    BY <1>8
  <2>2. Begin(c, "disable", "clear", i, users[u].phone, u)
    BY <2>1 DEF Disable
  <2> QED BY <1>6, <2>1, <2>2, DisableTypes
<1> QED BY <1>3, <1>4, <1>5, <1>7, <1>8
-----------------------------------------------------------------------------
\* A request moves on; nothing else changes but the data in Redis, and what is shared.
Moves(c) ==
    /\ DOMAIN call' = Call /\ \A d \in Call \ {c} : call'[d] = call[d]
    /\ SameRows /\ DataGoes /\ shared \subseteq shared'
    /\ UNCHANGED <<users, companies, managed, crossed, raced, unchecked, rushed, restored, left>>
    /\ call'[c].phone = call[c].phone /\ call'[c].session = call[c].session
    /\ call'[c].raced = call[c].raced

\* What each step of a registration before its commit does to its locals.
LEMMA LoadedIs ==
    ASSUME TeamTyped, NEW c \in Call, LoadData(c), stored[call[c].session] # Gone, Alongside
    PROVE  /\ Moves(c) /\ call[c].at = "verified" /\ call'[c].at = "drop"
           /\ UNCHANGED stored /\ call[c].session \in 1..Len(stored)
           /\ shared' = IF Holding(call[c].session) = {} THEN shared
                        ELSE shared \cup {call[c].session}
<1> DEFINE r == call[c]
<1>1. r.at = "verified" /\ r \in Locals(Len(users), Len(companies), Len(stored)) /\ Sound(r)
      /\ Lens /\ DOMAIN call = Call
  BY AtStage DEF LoadData
<1>2. PICK q : q = [r EXCEPT !.at = "drop", !.data = stored[r.session]]
  OBVIOUS
<1>3. q.at = "drop" /\ q.phone = r.phone /\ q.session = r.session /\ q.raced = r.raced
  BY <1>1, <1>2 DEF Locals
<1>4. call' = [call EXCEPT ![c] = q]
  BY <1>1, <1>2 DEF LoadData
<1>5. UNCHANGED <<stored, users, companies, managed, crossed, raced>>
  BY DEF LoadData
<1>6. SameRows /\ DataGoes /\ restored' = restored
  BY <1>5, RowsStay, DataStays, NothingRegained
<1>7. shared' = IF Holding(r.session) = {} THEN shared ELSE shared \cup {r.session}
  BY DEF LoadData
<1>8. r.session \in 1..Len(stored)
  BY <1>1 DEF LoadData, Sound, Locals, Lens
<1> QED BY <1>1, <1>3, <1>4, <1>5, <1>6, <1>7, <1>8 DEF Moves, Alongside

LEMMA DroppedIs ==
    ASSUME TeamTyped, NEW c \in Call, DropData(c), Alongside
    PROVE  /\ Moves(c) /\ call[c].at = "drop" /\ call'[c].at = "lookup"
           /\ shared' = shared /\ stored'[call[c].session] = Gone
<1> DEFINE r == call[c]
<1>1. r.at = "drop" /\ r \in Locals(Len(users), Len(companies), Len(stored)) /\ Sound(r)
      /\ Lens /\ DOMAIN call = Call
  BY AtStage DEF DropData
<1>2. PICK q : q = [r EXCEPT !.at = "lookup"]
  OBVIOUS
<1>3. q.at = "lookup" /\ q.phone = r.phone /\ q.session = r.session /\ q.raced = r.raced
  BY <1>1, <1>2 DEF Locals
<1>4. call' = [call EXCEPT ![c] = q]
  BY <1>1, <1>2 DEF DropData, Goes
<1>5. UNCHANGED <<users, companies, managed, crossed, raced, shared>>
  BY DEF DropData
<1>6. PICK s : s = r.session
  OBVIOUS
<1>7. s \in 1..Len(stored) /\ stored \in Seq(Inputs \cup {Gone}) /\ stored' = [stored EXCEPT ![s] = Gone]
  BY <1>1, <1>6 DEF DropData, Sound, Locals, Lens, TeamTyped, RowsTyped
<1>8. stored'[s] = Gone /\ DataGoes
  BY <1>7 DEF DataGoes
<1>9. SameRows /\ restored' = restored
  BY <1>5, RowsStay, NothingRegained
<1> QED BY <1>1, <1>3, <1>4, <1>5, <1>6, <1>8, <1>9 DEF Moves, Alongside

LEMMA FoundIs ==
    ASSUME TeamTyped, NEW c \in Call, LookUpUser(c), Alongside
    PROVE  /\ Moves(c) /\ call[c].at = "lookup" /\ call'[c].at = "channel"
           /\ UNCHANGED <<shared, stored>> /\ call'[c].user = UserIn(users, call[c].phone)
<1> DEFINE r == call[c]
<1>1. r.at = "lookup" /\ r \in Locals(Len(users), Len(companies), Len(stored)) /\ Sound(r)
      /\ Lens /\ DOMAIN call = Call
  BY AtStage DEF LookUpUser
<1>2. PICK u : u = UserOf(r.phone) /\ u = UserIn(users, r.phone)
  BY UserOfIs
<1>3. PICK q : q = [r EXCEPT !.at = "channel", !.user = u]
  OBVIOUS
<1>4. q.at = "channel" /\ q.phone = r.phone /\ q.session = r.session /\ q.raced = r.raced /\ q.user = u
  BY <1>1, <1>3 DEF Locals
<1>5. call' = [call EXCEPT ![c] = q]
  BY <1>1, <1>2, <1>3 DEF LookUpUser
<1>6. UNCHANGED <<stored, users, companies, managed, crossed, raced, shared>>
  BY DEF LookUpUser, OnlyCalls, regVars
<1>7. SameRows /\ DataGoes /\ restored' = restored
  BY <1>6, RowsStay, DataStays, NothingRegained
<1> QED BY <1>1, <1>2, <1>4, <1>5, <1>6, <1>7 DEF Moves, Alongside

LEMMA ChannelIs ==
    ASSUME TeamTyped, NEW c \in Call, CreateChannel(c), ~EmailIsUsed(call[c].data.email), Alongside
    PROVE  /\ Moves(c) /\ call[c].at = "channel" /\ call'[c].at = "role"
           /\ UNCHANGED <<shared, stored>> /\ call'[c].user = call[c].user
<1> DEFINE r == call[c]
<1>1. r.at = "channel" /\ r \in Locals(Len(users), Len(companies), Len(stored)) /\ Sound(r)
      /\ Lens /\ DOMAIN call = Call
  BY AtStage DEF CreateChannel
<1>2. PICK w : w = CodeFor(r.data.name, c)
  OBVIOUS
<1>3. PICK q : q = [r EXCEPT !.at = "role", !.code = w]
  OBVIOUS
<1>4. q.at = "role" /\ q.phone = r.phone /\ q.session = r.session /\ q.raced = r.raced /\ q.user = r.user
  BY <1>1, <1>3 DEF Locals
<1>5. call' = [call EXCEPT ![c] = q]
  BY <1>1, <1>2, <1>3 DEF CreateChannel
<1>6. UNCHANGED <<stored, users, companies, managed, crossed, raced, shared>>
  BY DEF CreateChannel, OnlyCalls, regVars
<1>7. SameRows /\ DataGoes /\ restored' = restored
  BY <1>6, RowsStay, DataStays, NothingRegained
<1> QED BY <1>1, <1>4, <1>5, <1>6, <1>7 DEF Moves, Alongside

LEMMA RoleReadIs ==
    ASSUME TeamTyped, NEW c \in Call, ReadSuperAdminRole(c), Alongside
    PROVE  /\ Moves(c) /\ call[c].at = "role" /\ call'[c].at = "save"
           /\ UNCHANGED <<shared, stored>> /\ call'[c].user = call[c].user
           /\ call'[c].seen = managed
<1> DEFINE r == call[c]
<1>1. r.at = "role" /\ r \in Locals(Len(users), Len(companies), Len(stored)) /\ Sound(r)
      /\ Lens /\ DOMAIN call = Call
  BY AtStage DEF ReadSuperAdminRole
<1>2. PICK q : q = [r EXCEPT !.at = "save", !.seen = managed]
  OBVIOUS
<1>3. /\ q.at = "save" /\ q.phone = r.phone /\ q.session = r.session /\ q.raced = r.raced
      /\ q.user = r.user /\ q.seen = managed
  BY <1>1, <1>2 DEF Locals
<1>4. call' = [call EXCEPT ![c] = q]
  BY <1>1, <1>2 DEF ReadSuperAdminRole
<1>5. UNCHANGED <<stored, users, companies, managed, crossed, raced, shared>>
  BY DEF ReadSuperAdminRole, OnlyCalls, regVars
<1>6. SameRows /\ DataGoes /\ restored' = restored
  BY <1>5, RowsStay, DataStays, NothingRegained
<1> QED BY <1>1, <1>3, <1>4, <1>5, <1>6 DEF Moves, Alongside

LEMMA RoleSavedIs ==
    ASSUME TeamTyped, NEW c \in Call, SaveSuperAdminRole(c), Alongside
    PROVE  /\ Moves(c) /\ call[c].at = "save" /\ call'[c].at \in {"commit", "attach"}
           /\ UNCHANGED <<shared, stored>> /\ call'[c].user = call[c].user
           /\ call'[c].dropped = managed \ call[c].seen /\ call'[c].unlinked = {}
<1> DEFINE r == call[c]
<1>1. r.at = "save" /\ r \in Locals(Len(users), Len(companies), Len(stored)) /\ Sound(r)
      /\ Lens /\ DOMAIN call = Call
  BY AtStage DEF SaveSuperAdminRole
<1>2. PICK at, dropped : at = (IF r.user = 0 THEN "commit" ELSE "attach") /\ dropped = managed \ r.seen
  OBVIOUS
<1>3. PICK b : b = [r EXCEPT !.at = at, !.dropped = dropped]
  OBVIOUS
<1>4. PICK q : q = [b EXCEPT !.seen = {}]
  OBVIOUS
<1>5. /\ q.at = at /\ q.phone = r.phone /\ q.session = r.session /\ q.raced = r.raced
      /\ q.user = r.user /\ q.dropped = dropped /\ q.unlinked = r.unlinked
  BY <1>1, <1>3, <1>4 DEF Locals
<1>6. r.unlinked = {} /\ at \in {"commit", "attach"}
  BY <1>1, <1>2 DEF Sound
<1>7. call' = [call EXCEPT ![c] = q]
  BY <1>1, <1>2, <1>3, <1>4 DEF SaveSuperAdminRole, Locals
<1>8. UNCHANGED <<stored, users, companies, managed, crossed, raced, shared>>
  BY DEF SaveSuperAdminRole, OnlyCalls, regVars
<1>9. SameRows /\ DataGoes /\ restored' = restored
  BY <1>8, RowsStay, DataStays, NothingRegained
<1> QED BY <1>1, <1>2, <1>5, <1>6, <1>7, <1>8, <1>9 DEF Moves, Alongside

LEMMA RolesReadIs ==
    ASSUME TeamTyped, NEW c \in Call, ReadUserRoles(c), Alongside
    PROVE  /\ Moves(c) /\ call[c].at = "attach" /\ call'[c].at = "link"
           /\ UNCHANGED <<shared, stored>> /\ call'[c].user = call[c].user /\ call[c].user # 0
           /\ call'[c].dropped = call[c].dropped /\ call'[c].roles = users[call[c].user].roles
<1> DEFINE r == call[c]
<1>1. r.at = "attach" /\ r \in Locals(Len(users), Len(companies), Len(stored)) /\ Sound(r)
      /\ Lens /\ DOMAIN call = Call
  BY AtStage DEF ReadUserRoles
<1>2. PICK roles : roles = users[r.user].roles
  OBVIOUS
<1>3. PICK q : q = [r EXCEPT !.at = "link", !.roles = roles]
  OBVIOUS
<1>4. /\ q.at = "link" /\ q.phone = r.phone /\ q.session = r.session /\ q.raced = r.raced
      /\ q.user = r.user /\ q.dropped = r.dropped /\ q.roles = roles /\ r.user # 0
  BY <1>1, <1>3 DEF Locals, Sound
<1>5. call' = [call EXCEPT ![c] = q]
  BY <1>1, <1>2, <1>3 DEF ReadUserRoles
<1>6. UNCHANGED <<stored, users, companies, managed, crossed, raced, shared>>
  BY DEF ReadUserRoles, OnlyCalls, regVars
<1>7. SameRows /\ DataGoes /\ restored' = restored
  BY <1>6, RowsStay, DataStays, NothingRegained
<1> QED BY <1>1, <1>2, <1>4, <1>5, <1>6, <1>7 DEF Moves, Alongside

LEMMA RoleLinkedIs ==
    ASSUME TeamTyped, NEW c \in Call, LinkUserRole(c), Alongside
    PROVE  /\ Moves(c) /\ call[c].at = "link" /\ call'[c].at = "commit"
           /\ UNCHANGED <<shared, stored>> /\ call'[c].user = call[c].user
           /\ call'[c].dropped = call[c].dropped
           /\ call'[c].unlinked = users[call[c].user].roles \ call[c].roles
           /\ call'[c].unlinked \subseteq 1..Len(companies)
<1> DEFINE r == call[c]
<1>1. r.at = "link" /\ r \in Locals(Len(users), Len(companies), Len(stored)) /\ Sound(r)
      /\ Lens /\ DOMAIN call = Call
  BY AtStage DEF LinkUserRole
<1>2. PICK roles : roles = users[r.user].roles
  OBVIOUS
<1>3. PICK x, y : x = roles \ r.roles /\ y = r.roles \ roles
  OBVIOUS
<1>4. PICK b : b = [r EXCEPT !.at = "commit", !.unlinked = x]
  OBVIOUS
<1>5. PICK q : q = [b EXCEPT !.roles = y]
  OBVIOUS
<1>6. /\ q.at = "commit" /\ q.phone = r.phone /\ q.session = r.session /\ q.raced = r.raced
      /\ q.user = r.user /\ q.dropped = r.dropped /\ q.unlinked = x
  BY <1>1, <1>4, <1>5 DEF Locals
<1>7. call' = [call EXCEPT ![c] = q]
  BY <1>1, <1>2, <1>3, <1>4, <1>5 DEF LinkUserRole, Locals
<1>8. UNCHANGED <<stored, users, companies, managed, crossed, raced, shared>>
  BY DEF LinkUserRole, OnlyCalls, regVars
<1>9. SameRows /\ DataGoes /\ restored' = restored
  BY <1>8, RowsStay, DataStays, NothingRegained
<1>10. r.user \in 1..Len(users)
  BY <1>1 DEF Locals, Sound, Lens
<1>11. x \subseteq 1..Len(companies)
  BY <1>2, <1>3, <1>10, RolesTyped DEF TeamTyped
<1> QED BY <1>1, <1>2, <1>3, <1>6, <1>7, <1>8, <1>9, <1>11 DEF Moves, Alongside

\* What a registration that moves on has to show for the owners of companies.
LEMMA OwnersMove ==
    ASSUME OwnersInv, NEW c \in Call, Moves(c),
           call'[c].at \in Founding => \/ call'[c].user = UserIn(users, call[c].phone)
                                       \/ call'[c].user = 0 /\ call[c].raced,
           call'[c].at = "link" =>
              \A i \in 1..Len(companies) :
                 companies[i].phone = call[c].phone => i \in call'[c].roles \cup Lost,
           call'[c].at = "commit" =>
              \A i \in call'[c].unlinked : companies[i].phone = call[c].phone => i \in Lost
    PROVE  OwnersInv'
<1>1. UNCHANGED <<users, companies, Lost>>
  BY DEF Moves, Lost
<1>2. call'[c].phone = call[c].phone /\ call'[c].raced = call[c].raced
      /\ \A d \in Call \ {c} : call'[d] = call[d]
  BY DEF Moves
<1>3. \A i \in 1..Len(companies') :
          \/ i \in Lost'
          \/ /\ UserIn(users', companies'[i].phone) # 0
             /\ i \in users'[UserIn(users', companies'[i].phone)].roles
  BY <1>1 DEF OwnersInv
<1>4. \A d \in Call : call'[d].at \in Founding =>
          \/ call'[d].user = UserIn(users', call'[d].phone)
          \/ call'[d].user = 0 /\ call'[d].raced
  BY <1>1, <1>2 DEF OwnersInv
<1>5. \A d \in Call : call'[d].at = "link" =>
          \A i \in 1..Len(companies') :
             companies'[i].phone = call'[d].phone => i \in call'[d].roles \cup Lost'
  BY <1>1, <1>2 DEF OwnersInv
<1>6. \A d \in Call : call'[d].at = "commit" =>
          \A i \in call'[d].unlinked : companies'[i].phone = call'[d].phone => i \in Lost'
  BY <1>1, <1>2 DEF OwnersInv
<1> QED BY <1>3, <1>4, <1>5, <1>6 DEF OwnersInv

LEMMA SeatsMove ==
    ASSUME TeamTyped, TeamTyped', SeatsInv, NEW c \in Call, Moves(c), call'[c].at # "create"
    PROVE  SeatsInv'
<1>1. \A d \in Call : call'[d].at = "create" => call[d].at = "create" /\ call'[d].company = call[d].company
  BY DEF Moves
<1>2. UNCHANGED <<users, companies, rushed, Excepted>>
  BY DEF Moves, Excepted
<1> QED BY <1>1, <1>2, SeatsKeeps

LEMMA SessionsMove ==
    ASSUME TeamTyped, SessionsInv, NEW c \in Call, Moves(c),
           call'[c].at \in Held =>
              /\ call[c].at \in Held
              /\ call'[c].at \in Registering =>
                   call[c].at \in Registering \/ stored'[call[c].session] = Gone
    PROVE  SessionsInv'
<1>1. \A d \in Call : call'[d].at \in Held =>
              /\ call[d].at \in Held /\ call'[d].session = call[d].session
              /\ call'[d].at \in Registering =>
                   call[d].at \in Registering \/ stored'[call[d].session] = Gone
  BY DEF Moves
<1>2. UNCHANGED <<companies>> /\ shared \subseteq shared' /\ DataGoes
  BY DEF Moves
<1> QED BY <1>1, <1>2, SessionsKeeps

LEMMA ManagedMove ==
    ASSUME TeamTyped, ManagedInv, NEW c \in Call, Moves(c),
           call'[c].at = "save" => 1..Len(companies) \subseteq call'[c].seen \cup crossed,
           call'[c].at \in {"attach", "link", "commit"} => call'[c].dropped \subseteq crossed
    PROVE  ManagedInv'
  BY DEF ManagedInv, Moves
-----------------------------------------------------------------------------
LEMMA StageNames ==
    /\ {"save", "attach", "link", "commit", "channel", "role"} = Founding
    /\ Founding \subseteq Registering /\ Registering \subseteq Held /\ "lookup" \in Registering
    /\ "drop" \in Held /\ "drop" \notin Registering /\ "lookup" \notin Founding
    /\ "create" \notin Held /\ "verified" \notin Held
  BY DEF Held, Registering, Founding

\* The steps of a registration, from its data to its commit, keep the invariant.
LEMMA LoadDataKeeps ==
    ASSUME TeamTyped, TeamInv, NEW c \in Call, LoadData(c), Alongside
    PROVE  TeamTyped' /\ TeamInv'
<1>1. TeamTyped'
  BY LoadDataTypes
<1>2. CASE stored[call[c].session] = Gone
  <2>1. Answer(c, "refused") /\ SameRows /\ UNCHANGED <<stored, managed, shared, crossed, raced>>
    BY <1>2, RowsStay DEF LoadData, Refuse
  <2>2. Quiet
    BY <2>1, AnswerQuiet DEF Answering
  <2> QED BY <1>1, <2>2, QuietKeeps
<1>3. CASE stored[call[c].session] # Gone
  <2> DEFINE s == call[c].session
  <2>1. /\ Moves(c) /\ call[c].at = "verified" /\ call'[c].at = "drop"
        /\ UNCHANGED stored /\ s \in 1..Len(stored)
        /\ shared' = IF Holding(s) = {} THEN shared ELSE shared \cup {s}
    BY <1>3, LoadedIs
  <2>2. ManagedInv'
    BY <2>1, ManagedMove DEF TeamInv
  <2>3. OwnersInv'
    BY <2>1, OwnersMove, StageNames DEF TeamInv
  <2>4. SeatsInv'
    BY <1>1, <2>1, SeatsMove DEF TeamInv
  <2>5. SessionsInv'
    <3>1. \A d \in Call \ {c} : call'[d] = call[d]
      BY <2>1 DEF Moves
    <3>2. call'[c].session = s /\ UNCHANGED <<users, companies>> /\ shared \subseteq shared'
      BY <2>1 DEF Moves
    <3>3. ASSUME NEW d \in Call \ {c}, call[d].at \in Held, call[d].session = s PROVE s \in shared'
      <4>1. call[d].at \notin Registering
        BY <1>3, <3>3 DEF TeamInv, SessionsInv
      <4>2. call[d].at = "drop"
        BY <3>3, <4>1 DEF Held
      <4>3. d \in Holding(s)
        BY <3>3, <4>2 DEF Holding
      <4> QED BY <2>1, <4>3
    <3>4. \A a, b \in Call : a # b /\ call'[a].at \in Held /\ call'[b].at \in Held
                            /\ call'[a].session = call'[b].session => call'[a].session \in shared'
      <4> SUFFICES ASSUME NEW a \in Call, NEW b \in Call, a # b, call'[a].at \in Held, call'[b].at \in Held,
                          call'[a].session = call'[b].session
                   PROVE  call'[a].session \in shared'
        OBVIOUS
      <4>1. CASE a = c \/ b = c
        BY <3>1, <3>2, <3>3, <4>1
      <4>2. CASE a # c /\ b # c
        BY <3>1, <3>2, <4>2 DEF TeamInv, SessionsInv
      <4> QED BY <4>1, <4>2
    <3>5. \A i \in 1..Len(companies) : companies[i].session # s
      <4> SUFFICES ASSUME NEW i \in 1..Len(companies), companies[i].session = s PROVE FALSE
        OBVIOUS
      <4>1. s > 0
        BY <2>1, LensTyped DEF TeamTyped, Lens
      <4> QED BY <1>3, <4>1 DEF TeamInv, SessionsInv
    <3>6. \A d \in Call, i \in 1..Len(companies') :
          call'[d].at \in Held /\ companies'[i].session = call'[d].session => call'[d].session \in shared'
      <4> SUFFICES ASSUME NEW d \in Call, NEW i \in 1..Len(companies), call'[d].at \in Held,
                          companies[i].session = call'[d].session
                   PROVE  call'[d].session \in shared'
        BY <3>2
      <4>1. d # c
        BY <3>2, <3>5
      <4> QED BY <3>1, <3>2, <4>1 DEF TeamInv, SessionsInv
    <3>7. \A d \in Call : call'[d].at \in Registering => stored'[call'[d].session] = Gone
      BY <2>1, <3>1, StageNames DEF TeamInv, SessionsInv
    <3>8. \A i \in 1..Len(companies') : /\ companies'[i].session <= Len(stored')
                                        /\ companies'[i].session > 0 => stored'[companies'[i].session] = Gone
      BY <2>1, <3>2 DEF TeamInv, SessionsInv
    <3>9. OneCompanyPerRegistration'
      BY <3>2 DEF TeamInv, SessionsInv, OneCompanyPerRegistration
    <3> QED BY <3>4, <3>6, <3>7, <3>8, <3>9 DEF SessionsInv
  <2> QED BY <1>1, <2>2, <2>3, <2>4, <2>5 DEF TeamInv
<1> QED BY <1>2, <1>3

LEMMA ProvisionKeeps ==
    ASSUME TeamTyped, TeamInv, NEW c \in Call, Alongside,
           \/ DropData(c) \/ LookUpUser(c) \/ CreateChannel(c)
           \/ ReadSuperAdminRole(c) \/ SaveSuperAdminRole(c) \/ ReadUserRoles(c) \/ LinkUserRole(c)
    PROVE  TeamTyped' /\ TeamInv'
<1>1. TeamTyped'
  BY DropDataTypes, FoundingTypes
<1>2. ManagedInv /\ OwnersInv /\ SessionsInv /\ SeatsInv
  BY DEF TeamInv
<1>3. /\ 1..Len(companies) \subseteq managed \cup crossed /\ managed \subseteq 1..Len(companies)
      /\ call[c].at = "save" => 1..Len(companies) \subseteq call[c].seen \cup crossed
      /\ call[c].at \in {"attach", "link", "commit"} => call[c].dropped \subseteq crossed
  BY <1>2 DEF ManagedInv, TeamTyped, RowsTyped
<1>4. /\ call[c].at \in Founding => \/ call[c].user = UserIn(users, call[c].phone)
                                    \/ call[c].user = 0 /\ call[c].raced
      /\ call[c].at = "link" =>
           \A i \in 1..Len(companies) : companies[i].phone = call[c].phone => i \in call[c].roles \cup Lost
      /\ \A i \in 1..Len(companies) :
          \/ i \in Lost
          \/ i \in users[UserIn(users, companies[i].phone)].roles
  BY <1>2 DEF OwnersInv
<1>5. CASE DropData(c)
  <2>1. /\ Moves(c) /\ call[c].at = "drop" /\ call'[c].at = "lookup"
        /\ shared' = shared /\ stored'[call[c].session] = Gone
    BY <1>5, DroppedIs
  <2>2. ManagedInv'
    BY <1>2, <2>1, ManagedMove
  <2>3. OwnersInv'
    BY <1>2, <2>1, OwnersMove, StageNames
  <2>4. SeatsInv'
    BY <1>1, <1>2, <2>1, SeatsMove
  <2>5. SessionsInv'
    BY <1>2, <2>1, SessionsMove, StageNames
  <2> QED BY <1>1, <2>2, <2>3, <2>4, <2>5 DEF TeamInv
<1>6. CASE LookUpUser(c)
  <2>1. /\ Moves(c) /\ call[c].at = "lookup" /\ call'[c].at = "channel"
        /\ UNCHANGED <<shared, stored>> /\ call'[c].user = UserIn(users, call[c].phone)
    BY <1>6, FoundIs
  <2>2. ManagedInv'
    BY <1>2, <2>1, ManagedMove
  <2>3. OwnersInv'
    BY <1>2, <2>1, OwnersMove
  <2>4. SeatsInv'
    BY <1>1, <1>2, <2>1, SeatsMove
  <2>5. SessionsInv'
    BY <1>2, <2>1, SessionsMove, StageNames
  <2> QED BY <1>1, <2>2, <2>3, <2>4, <2>5 DEF TeamInv
<1>7. CASE CreateChannel(c)
  <2>1. CASE EmailIsUsed(call[c].data.email)
    <3>1. Answer(c, "refused") /\ SameRows /\ UNCHANGED <<stored, managed, shared, crossed, raced>>
      BY <1>7, <2>1, RowsStay DEF CreateChannel, Refuse, OnlyCalls, regVars
    <3>2. Quiet
      BY <3>1, AnswerQuiet DEF Answering
    <3> QED BY <1>1, <3>2, QuietKeeps
  <2>2. CASE ~EmailIsUsed(call[c].data.email)
    <3>1. /\ Moves(c) /\ call[c].at = "channel" /\ call'[c].at = "role"
          /\ UNCHANGED <<shared, stored>> /\ call'[c].user = call[c].user
      BY <1>7, <2>2, ChannelIs
    <3>2. ManagedInv'
      BY <1>2, <3>1, ManagedMove
    <3>3. OwnersInv'
      BY <1>2, <1>4, <3>1, OwnersMove, StageNames
    <3>4. SeatsInv'
      BY <1>1, <1>2, <3>1, SeatsMove
    <3>5. SessionsInv'
      BY <1>2, <3>1, SessionsMove, StageNames
    <3> QED BY <1>1, <3>2, <3>3, <3>4, <3>5 DEF TeamInv
  <2> QED BY <2>1, <2>2
<1>8. CASE ReadSuperAdminRole(c)
  <2>1. /\ Moves(c) /\ call[c].at = "role" /\ call'[c].at = "save"
        /\ UNCHANGED <<shared, stored>> /\ call'[c].user = call[c].user
        /\ call'[c].seen = managed
    BY <1>8, RoleReadIs
  <2>2. ManagedInv'
    BY <1>2, <1>3, <2>1, ManagedMove
  <2>3. OwnersInv'
    BY <1>2, <1>4, <2>1, OwnersMove, StageNames
  <2>4. SeatsInv'
    BY <1>1, <1>2, <2>1, SeatsMove
  <2>5. SessionsInv'
    BY <1>2, <2>1, SessionsMove, StageNames
  <2> QED BY <1>1, <2>2, <2>3, <2>4, <2>5 DEF TeamInv
<1>9. CASE SaveSuperAdminRole(c)
  <2>1. /\ Moves(c) /\ call[c].at = "save" /\ call'[c].at \in {"commit", "attach"}
        /\ UNCHANGED <<shared, stored>> /\ call'[c].user = call[c].user
        /\ call'[c].dropped = managed \ call[c].seen /\ call'[c].unlinked = {}
    BY <1>9, RoleSavedIs
  <2>2. call'[c].dropped \subseteq crossed
    BY <1>3, <2>1
  <2>3. ManagedInv'
    BY <1>2, <2>1, <2>2, ManagedMove
  <2>4. OwnersInv'
    BY <1>2, <1>4, <2>1, OwnersMove, StageNames
  <2>5. SeatsInv'
    BY <1>1, <1>2, <2>1, SeatsMove
  <2>6. SessionsInv'
    BY <1>2, <2>1, SessionsMove, StageNames
  <2> QED BY <1>1, <2>3, <2>4, <2>5, <2>6 DEF TeamInv
<1>10. CASE ReadUserRoles(c)
  <2>1. /\ Moves(c) /\ call[c].at = "attach" /\ call'[c].at = "link"
        /\ UNCHANGED <<shared, stored>> /\ call'[c].user = call[c].user /\ call[c].user # 0
        /\ call'[c].dropped = call[c].dropped /\ call'[c].roles = users[call[c].user].roles
    BY <1>10, RolesReadIs
  <2>2. ManagedInv'
    BY <1>2, <1>3, <2>1, ManagedMove
  <2>3. call[c].user = UserIn(users, call[c].phone)
    BY <1>4, <2>1, StageNames
  <2>4. \A i \in 1..Len(companies) : companies[i].phone = call[c].phone => i \in call'[c].roles \cup Lost
    BY <1>4, <2>1, <2>3
  <2>5. OwnersInv'
    BY <1>2, <2>1, <2>3, <2>4, OwnersMove
  <2>6. SeatsInv'
    BY <1>1, <1>2, <2>1, SeatsMove
  <2>7. SessionsInv'
    BY <1>2, <2>1, SessionsMove, StageNames
  <2> QED BY <1>1, <2>2, <2>5, <2>6, <2>7 DEF TeamInv
<1>11. CASE LinkUserRole(c)
  <2>1. /\ Moves(c) /\ call[c].at = "link" /\ call'[c].at = "commit"
        /\ UNCHANGED <<shared, stored>> /\ call'[c].user = call[c].user
        /\ call'[c].dropped = call[c].dropped
        /\ call'[c].unlinked = users[call[c].user].roles \ call[c].roles
        /\ call'[c].unlinked \subseteq 1..Len(companies)
    BY <1>11, RoleLinkedIs
  <2>2. ManagedInv'
    BY <1>2, <1>3, <2>1, ManagedMove
  <2>3. \A i \in call'[c].unlinked : companies[i].phone = call[c].phone => i \in Lost
    BY <1>4, <2>1
  <2>4. OwnersInv'
    BY <1>2, <1>4, <2>1, <2>3, OwnersMove, StageNames
  <2>5. SeatsInv'
    BY <1>1, <1>2, <2>1, SeatsMove
  <2>6. SessionsInv'
    BY <1>2, <2>1, SessionsMove, StageNames
  <2> QED BY <1>1, <2>2, <2>4, <2>5, <2>6 DEF TeamInv
<1> QED BY <1>5, <1>6, <1>7, <1>8, <1>9, <1>10, <1>11
-----------------------------------------------------------------------------
\* Users are added at the end, so that whoever is found stays the one that is found.
LEMMA UserStays ==
    ASSUME NEW S, NEW T, NEW U \in Seq(S), NEW W \in Seq(T), Len(U) <= Len(W),
           \A v \in 1..Len(U) : W[v].phone = U[v].phone, NEW p, UserIn(U, p) # 0
    PROVE  UserIn(W, p) = UserIn(U, p)
<1>1. DOMAIN U = 1..Len(U) /\ DOMAIN W = 1..Len(W) /\ Len(U) \in Nat /\ Len(W) \in Nat
  OBVIOUS
<1>2. PICK u \in 1..Len(U) : u = UserIn(U, p) /\ U[u].phone = p /\ \A w \in 1..Len(U) : U[w].phone = p => u <= w
  BY <1>1, UserFound
<1>3. u \in 1..Len(W) /\ W[u].phone = p
  BY <1>1, <1>2
<1>4. PICK x : x = UserIn(W, p)
  OBVIOUS
<1>5. x \in 1..Len(W) /\ W[x].phone = p /\ x <= u
  BY <1>1, <1>3, <1>4, UserFound
<1>6. x \in 1..Len(U) /\ U[x].phone = p
  BY <1>1, <1>2, <1>5
<1>7. x = u
  BY <1>1, <1>2, <1>5, <1>6
<1> QED BY <1>2, <1>4, <1>7

LEMMA UserAdded ==
    ASSUME NEW S, NEW T, NEW U \in Seq(S), NEW W \in Seq(T), Len(W) = Len(U) + 1,
           \A v \in 1..Len(U) : W[v].phone = U[v].phone, NEW p
    PROVE  /\ UserIn(U, p) # 0 => UserIn(W, p) = UserIn(U, p)
           /\ UserIn(U, p) = 0 => UserIn(W, p) = IF W[Len(W)].phone = p THEN Len(W) ELSE 0
<1>1. DOMAIN U = 1..Len(U) /\ DOMAIN W = 1..Len(W) /\ Len(U) \in Nat /\ Len(W) \in Nat
  OBVIOUS
<1>2. CASE UserIn(U, p) # 0
  <2>1. Len(U) <= Len(W)
    BY <1>1
  <2> QED BY <1>2, <2>1, UserStays
<1>3. CASE UserIn(U, p) = 0
  <2>1. \A v \in 1..Len(U) : W[v].phone # p
    BY <1>1, <1>3, UserFound
  <2>2. \A v \in 1..Len(W) : W[v].phone = p => v = Len(W)
    BY <1>1, <2>1
  <2>3. PICK x : x = UserIn(W, p)
    OBVIOUS
  <2>4. /\ UserIn(W, p) = 0 => \A v \in DOMAIN W : W[v].phone # p
        /\ UserIn(W, p) # 0 => UserIn(W, p) \in DOMAIN W /\ W[UserIn(W, p)].phone = p
    BY UserFound
  <2>5. /\ x = 0 => \A v \in 1..Len(W) : W[v].phone # p
        /\ x # 0 => x \in 1..Len(W) /\ W[x].phone = p
    BY <1>1, <2>3, <2>4
  <2>6. Len(W) \in 1..Len(W)
    BY <1>1
  <2> QED BY <1>3, <2>2, <2>3, <2>5, <2>6
<1> QED BY <1>2, <1>3

\* A note that its person is a user is all that another request gets.
LEMMA NotedFields ==
    ASSUME TeamTyped, NEW c \in Call, NEW answer, call' = Noted(c, answer)
    PROVE  /\ call'[c] = answer
           /\ \A d \in Call \ {c} :
                /\ call'[d].at = call[d].at /\ call'[d].phone = call[d].phone
                /\ call'[d].session = call[d].session /\ call'[d].user = call[d].user
                /\ call'[d].seen = call[d].seen /\ call'[d].dropped = call[d].dropped
                /\ call'[d].roles = call[d].roles /\ call'[d].unlinked = call[d].unlinked
                /\ call'[d].company = call[d].company
                /\ call[d].at # "idle" /\ call[d].raced => call'[d].raced
                /\ d \in Beside(c) => call'[d].raced
<1>1. DOMAIN call = Call
  BY DEF TeamTyped, CallsTyped
<1>2. call'[c] = answer
  BY <1>1, NotedIs
<1>3. ASSUME NEW d \in Call \ {c}
      PROVE  /\ call'[d].at = call[d].at /\ call'[d].phone = call[d].phone
             /\ call'[d].session = call[d].session /\ call'[d].user = call[d].user
             /\ call'[d].seen = call[d].seen /\ call'[d].dropped = call[d].dropped
             /\ call'[d].roles = call[d].roles /\ call'[d].unlinked = call[d].unlinked
             /\ call'[d].company = call[d].company
             /\ call[d].at # "idle" /\ call[d].raced => call'[d].raced
             /\ d \in Beside(c) => call'[d].raced
  <2>1. CASE d \notin Beside(c)
    BY <1>1, <2>1, NotedIs
  <2>2. CASE d \in Beside(c)
    <3>1. call'[d] = [call[d] EXCEPT !.raced = TRUE]
      BY <1>1, <2>2, NotedIs
    <3>2. call[d] \in Locals(Len(users), Len(companies), Len(stored)) /\ Sound(call[d]) /\ Lens
      BY <2>2, AtStage DEF Beside, InTransaction
    <3>3. PICK q : q = [call[d] EXCEPT !.raced = TRUE]
      OBVIOUS
    <3>4. PICK n \in Nat, m \in Nat, k \in Nat : n = Len(users) /\ m = Len(companies) /\ k = Len(stored)
      BY <3>2 DEF Lens
    <3>5. PICK r : r = call[d]
      OBVIOUS
    <3>6. r \in Locals(n, m, k) /\ Sound(r) /\ q = [r EXCEPT !.raced = TRUE]
      BY <3>2, <3>3, <3>4, <3>5
    <3>7. /\ q.raced = TRUE
          /\ q.op = r.op /\ q.at = r.at /\ q.phone = r.phone /\ q.session = r.session
          /\ q.user = r.user /\ q.seen = r.seen /\ q.dropped = r.dropped
          /\ q.roles = r.roles /\ q.unlinked = r.unlinked /\ q.company = r.company
      BY <3>6, RacedFine
    <3> QED BY <3>1, <3>3, <3>5, <3>7
  <2> QED BY <2>1, <2>2
<1> QED BY <1>2, <1>3

\* What other registrations know of their owners outlives a new user and a new company.
LEMMA OthersOwn ==
    ASSUME TeamTyped, OwnersInv, NEW c \in Call, NEW answer, call' = Noted(c, answer),
           answer.at \notin Founding, raced \subseteq raced', left \subseteq left',
           Len(companies) <= Len(companies'), Len(companies') \in Nat,
           \A i \in 1..Len(companies) : companies'[i].phone = companies[i].phone,
           \A p : \/ UserIn(users', p) = UserIn(users, p)
                  \/ UserIn(users, p) = 0 /\ p = call[c].phone,
           \A i \in 1..Len(companies') :
              i \in 1..Len(companies) \/ (companies'[i].phone = call[c].phone
                                            /\ (Beside(c) # {} => i \in raced'))
    PROVE  /\ \A d \in Call : call'[d].at \in Founding =>
                \/ call'[d].user = UserIn(users', call'[d].phone)
                \/ call'[d].user = 0 /\ call'[d].raced
           /\ \A d \in Call : call'[d].at = "link" =>
                \A i \in 1..Len(companies') :
                   companies'[i].phone = call'[d].phone => i \in call'[d].roles \cup Lost'
           /\ \A d \in Call : call'[d].at = "commit" =>
                \A i \in call'[d].unlinked : companies'[i].phone = call'[d].phone => i \in Lost'
<1>1. Lost \subseteq Lost' /\ raced' \subseteq Lost'
  BY DEF Lost
<1>2. call'[c] = answer
  BY NotedFields
<1>3. "link" \in Founding /\ "commit" \in Founding /\ "idle" \notin Founding
  BY DEF Founding
<1>4. ASSUME NEW d \in Call, call'[d].at \in Founding
      PROVE  /\ d # c /\ call[d].at \in Founding
             /\ call'[d].at = call[d].at /\ call'[d].phone = call[d].phone
             /\ call'[d].user = call[d].user /\ call'[d].roles = call[d].roles
             /\ call'[d].unlinked = call[d].unlinked /\ (call[d].raced => call'[d].raced)
             /\ (call[d].phone = call[c].phone => d \in Beside(c) /\ call'[d].raced)
  <2>1. d # c
    BY <1>2, <1>4
  <2>2. call'[d].at = call[d].at /\ call[d].at # "idle"
    BY <1>3, <1>4, <2>1, NotedFields
  <2>3. call[d].phone = call[c].phone => d \in Beside(c)
    BY <1>4, <2>1, <2>2 DEF Beside, InTransaction, Founding
  <2> QED BY <1>4, <2>1, <2>2, <2>3, NotedFields
<1>5. ASSUME NEW d \in Call, call'[d].at \in Founding
      PROVE  \/ call'[d].user = UserIn(users', call'[d].phone)
             \/ call'[d].user = 0 /\ call'[d].raced
  <2>1. \/ call[d].user = UserIn(users, call[d].phone)
        \/ call[d].user = 0 /\ call[d].raced
    BY <1>4, <1>5 DEF OwnersInv
  <2>2. CASE UserIn(users', call[d].phone) = UserIn(users, call[d].phone)
    BY <1>4, <1>5, <2>1, <2>2
  <2>3. CASE UserIn(users, call[d].phone) = 0 /\ call[d].phone = call[c].phone
    BY <1>4, <1>5, <2>1, <2>3
  <2> QED BY <2>2, <2>3
<1>6. ASSUME NEW d \in Call, call'[d].at = "link", NEW i \in 1..Len(companies'),
             companies'[i].phone = call'[d].phone
      PROVE  i \in call'[d].roles \cup Lost'
  <2>1. CASE i \in 1..Len(companies)
    BY <1>1, <1>3, <1>4, <1>6, <2>1 DEF OwnersInv
  <2>2. CASE i \notin 1..Len(companies)
    BY <1>1, <1>3, <1>4, <1>6, <2>2
  <2> QED BY <2>1, <2>2
<1>7. ASSUME NEW d \in Call, call'[d].at = "commit", NEW i \in call'[d].unlinked,
             companies'[i].phone = call'[d].phone
      PROVE  i \in Lost'
  <2>1. call[d].at = "commit" /\ i \in call[d].unlinked
    BY <1>3, <1>4, <1>7
  <2>2. i \in 1..Len(companies)
    BY <2>1, AtStage DEF Locals
  <2> QED BY <1>1, <1>3, <1>4, <1>7, <2>1, <2>2 DEF OwnersInv
<1> QED BY <1>5, <1>6, <1>7

LEMMA AddedMember ==
    ASSUME TeamTyped, TeamTyped', Len(users') = Len(users) + 1, NEW i,
           \A v \in 1..Len(users) : users'[v] = users[v], users'[Len(users) + 1].roles = {i}
    PROVE  /\ Members(i)' = Members(i) \cup {Len(users) + 1}
           /\ \A j : j # i => Members(j)' = Members(j)
<1>1. Len(users) \in Nat /\ DOMAIN users = 1..Len(users) /\ DOMAIN users' = 1..(Len(users) + 1)
  BY LensTyped DEF TeamTyped, RowsTyped, Lens
<1>2. 1..(Len(users) + 1) = 1..Len(users) \cup {Len(users) + 1}
  BY <1>1
<1> QED BY <1>1, <1>2 DEF Members
-----------------------------------------------------------------------------
LEMMA CreateMemberKeeps ==
    ASSUME TeamTyped, TeamInv, NEW c \in Call, CreateMember(c)
    PROVE  TeamTyped' /\ TeamInv'
<1> DEFINE P == call[c].phone
           n == Len(users)
<1>0. PICK i : i = call[c].company
  OBVIOUS
<1>1. /\ TeamTyped' /\ Len(users') = n + 1
      /\ \A v \in 1..n : users'[v] = users[v]
      /\ users'[n + 1].phone = P
      /\ users'[n + 1].email # NoAdministrator
      /\ users'[n + 1].roles = {i}
  BY <1>0, CreateMemberTypes
<1>2. ManagedInv /\ OwnersInv /\ SessionsInv /\ SeatsInv
  BY DEF TeamInv
<1>3. /\ call' = Noted(c, NoRequest) /\ call[c].at = "create"
      /\ UNCHANGED <<stored, companies, managed, shared, crossed, raced, unchecked, rushed, restored, left>>
  BY DEF CreateMember, OnlyUsers, teamVars
<1>4. NoRequest.at = "idle" /\ "idle" \notin Held /\ "idle" \notin Founding /\ n \in Nat
  BY LensTyped DEF NoRequest, Held, Registering, Founding, TeamTyped, Lens
<1>5. call'[c].at = "idle"
  BY <1>3, <1>4, NotedFields
<1>6. \A d \in Call \ {c} :
         /\ call'[d].at = call[d].at /\ call'[d].phone = call[d].phone
         /\ call'[d].session = call[d].session /\ call'[d].user = call[d].user
         /\ call'[d].seen = call[d].seen /\ call'[d].dropped = call[d].dropped
         /\ call'[d].company = call[d].company
  BY <1>3, NotedFields
<1>7. ManagedInv'
  BY <1>2, <1>3, <1>5, <1>6, ManagedKeeps
<1>8. SessionsInv'
  BY <1>2, <1>3, <1>4, <1>5, <1>6, DataStays, SessionsKeeps
<1>9. \A p : \/ UserIn(users', p) = UserIn(users, p)
             \/ UserIn(users, p) = 0 /\ p = P
  <2>1. PICK S, T, U, W : S = UserRow(Len(companies)) /\ T = UserRow(Len(companies')) /\ U = users /\ W = users'
    OBVIOUS
  <2>2. /\ U \in Seq(S) /\ W \in Seq(T) /\ Len(W) = Len(U) + 1 /\ W[Len(W)].phone = P
        /\ \A v \in 1..Len(U) : W[v].phone = U[v].phone
    BY <1>1, <2>1 DEF TeamTyped, RowsTyped
  <2>3. \A p : \/ UserIn(W, p) = UserIn(U, p)
               \/ UserIn(U, p) = 0 /\ p = P
    BY <2>2, UserAdded
  <2> QED BY <2>1, <2>3
<1>10. OwnersInv'
  <2>1. /\ \A d \in Call : call'[d].at \in Founding =>
             \/ call'[d].user = UserIn(users', call'[d].phone)
             \/ call'[d].user = 0 /\ call'[d].raced
        /\ \A d \in Call : call'[d].at = "link" =>
             \A j \in 1..Len(companies') :
                companies'[j].phone = call'[d].phone => j \in call'[d].roles \cup Lost'
        /\ \A d \in Call : call'[d].at = "commit" =>
             \A j \in call'[d].unlinked : companies'[j].phone = call'[d].phone => j \in Lost'
    <3>1. Len(companies') \in Nat /\ Len(companies) <= Len(companies')
      BY <1>3, LensTyped DEF TeamTyped, Lens
    <3> QED BY <1>2, <1>3, <1>4, <1>9, <3>1, OthersOwn
  <2>2. \A j \in 1..Len(companies') :
          \/ j \in Lost'
          \/ /\ UserIn(users', companies'[j].phone) # 0
             /\ j \in users'[UserIn(users', companies'[j].phone)].roles
    <3> SUFFICES ASSUME NEW j \in 1..Len(companies), j \notin Lost
                 PROVE  /\ UserIn(users', companies[j].phone) # 0
                        /\ j \in users'[UserIn(users', companies[j].phone)].roles
      BY <1>3 DEF Lost
    <3>1. PICK u : u = UserIn(users, companies[j].phone)
      OBVIOUS
    <3>2. u # 0 /\ j \in users[u].roles
      BY <1>2, <3>1 DEF OwnersInv
    <3>3. u \in 1..n
      BY <3>1, <3>2, <1>4, UserFound DEF TeamTyped, RowsTyped
    <3>4. UserIn(users', companies[j].phone) = u
      BY <1>9, <3>1, <3>2
    <3> QED BY <1>1, <3>2, <3>3, <3>4
  <2> QED BY <2>1, <2>2 DEF OwnersInv
<1>11. SeatsInv'
  <2>1. /\ Members(i)' = Members(i) \cup {n + 1}
        /\ \A j : j # i => Members(j)' = Members(j)
    BY <1>1, AddedMember
  <2>2. Excepted' = Excepted
    BY <1>3 DEF Excepted
  <2>3. i \in Nat \ {0} /\ Platform \in Nat /\ MaxAdmins \in Nat
    <3>1. call[c] \in Locals(Len(users), Len(companies), Len(stored)) /\ Sound(call[c])
      BY <1>3, AtStage
    <3> QED BY <1>0, <1>3, <3>1, TeamAssumption DEF Locals, Sound, Inviting, TeamAssumption
  <2>4. \A a, b \in Call : a # b /\ call'[a].at = "create" /\ call'[b].at = "create"
                            /\ call'[a].company = call'[b].company => call'[a].company \in rushed'
    BY <1>2, <1>3, <1>5, <1>6 DEF SeatsInv
  <2>5. ASSUME NEW d \in Call, call'[d].at = "create", call'[d].company \notin Excepted'
        PROVE  (Cardinality(Members(call[d].company)) + Platform < MaxAdmins)'
    <3>1. PICK j : j = call[d].company
      OBVIOUS
    <3>2. d # c /\ j = call'[d].company /\ call[d].at = "create" /\ j \notin Excepted
      BY <1>5, <1>6, <2>2, <2>5, <3>1
    <3>3. j # i
      BY <1>0, <1>2, <1>3, <3>1, <3>2 DEF SeatsInv, Excepted
    <3>4. Cardinality(Members(j)) + Platform < MaxAdmins
      BY <1>2, <3>1, <3>2 DEF SeatsInv
    <3>5. Members(j)' = Members(j)
      BY <2>1, <3>3
    <3> QED BY <3>2, <3>4, <3>5 DEF Members
  <2>6. \A j \in 1..Len(companies') \ Excepted' : \A u \in 1..Len(users') :
          j \in users'[u].roles => users'[u].email # NoAdministrator
    <3> SUFFICES ASSUME NEW j \in 1..Len(companies) \ Excepted, NEW u \in 1..(n + 1), j \in users'[u].roles
                 PROVE  users'[u].email # NoAdministrator
      BY <1>1, <1>3, <2>2
    <3>1. CASE u \in 1..n
      BY <1>1, <1>2, <3>1 DEF SeatsInv
    <3>2. CASE u = n + 1
      BY <1>1, <3>2
    <3> QED BY <1>4, <3>1, <3>2
  <2>7. OwnerHasSeat => SeatsWithinLimit'
    <3> SUFFICES ASSUME OwnerHasSeat, NEW j \in DOMAIN companies \ Excepted
                 PROVE  Cardinality(Members(j)') + Platform <= MaxAdmins
      BY <1>3, <2>2 DEF SeatsWithinLimit, Excepted
    <3>1. CASE j # i
      BY <1>2, <2>1, <3>1 DEF SeatsInv, SeatsWithinLimit, Excepted
    <3>2. CASE j = i
      <4>1. Cardinality(Members(i)) + Platform < MaxAdmins
        BY <1>0, <1>2, <1>3, <3>2 DEF SeatsInv
      <4>2. IsFiniteSet(Members(i)) /\ Cardinality(Members(i)) \in Nat
        BY MembersFinite
      <4>3. n + 1 \notin Members(i)
        BY <1>4 DEF Members, TeamTyped, RowsTyped
      <4>4. Cardinality(Members(i) \cup {n + 1}) = Cardinality(Members(i)) + 1
        BY <4>2, <4>3, FS_AddElement
      <4>5. PICK a \in Nat : a = Cardinality(Members(i))
        BY <4>2
      <4>6. Cardinality(Members(i)') = a + 1
        BY <2>1, <4>4, <4>5
      <4> QED BY <2>3, <3>2, <4>1, <4>5, <4>6
    <3> QED BY <3>1, <3>2
  <2> QED BY <2>4, <2>5, <2>6, <2>7 DEF SeatsInv, OwnerHasSeat
<1> QED BY <1>1, <1>7, <1>8, <1>10, <1>11 DEF TeamInv
-----------------------------------------------------------------------------
\* A team request ends, or goes where the invariant is not about it.
Settles(c) ==
    /\ DOMAIN call' = Call /\ \A d \in Call \ {c} : call'[d] = call[d]
    /\ call'[c].at \notin Busy
    /\ Len(users') = Len(users)
    /\ UNCHANGED <<stored, companies, managed, shared, crossed, raced>>

LEMMA SettlesKeeps ==
    ASSUME TeamTyped, TeamTyped', TeamInv, NEW c \in Call, Settles(c),
           Excepted \subseteq Excepted', rushed \subseteq rushed', left \subseteq left',
           \A v \in 1..Len(users) : /\ users'[v].phone = users[v].phone
                                    /\ users[v].roles \subseteq users'[v].roles \cup left',
           \A i \in 1..Len(companies) \ Excepted', u \in 1..Len(users) :
              i \in users'[u].roles => i \in users[u].roles /\ users'[u].email = users[u].email
    PROVE  TeamInv'
<1>1. \A d \in Call : call'[d].at \in Busy => call'[d] = call[d]
  BY DEF Settles
<1>2. /\ Founding \subseteq Busy /\ Held \subseteq Busy /\ Registering \subseteq Held
      /\ {"save", "attach", "link", "commit"} \subseteq Founding /\ "create" \in Busy
  BY DEF Busy, Held, Registering, Founding
<1>3. ManagedInv'
  BY <1>1, <1>2, ManagedKeeps DEF TeamInv, Settles
<1>4. OwnersInv'
  BY <1>1, <1>2, OwnersKeeps DEF TeamInv, Settles
<1>5. SessionsInv'
  BY <1>1, <1>2, SessionsKeeps, DataStays DEF TeamInv, Settles
<1>6. SeatsInv'
  BY <1>1, <1>2, SeatsKeeps DEF TeamInv, Settles
<1> QED BY <1>3, <1>4, <1>5, <1>6 DEF TeamInv

LEMMA SaveInvitedKeeps ==
    ASSUME TeamTyped, TeamInv, NEW c \in Call, SaveInvited(c)
    PROVE  TeamTyped' /\ TeamInv'
<1>1. PICK u : u = call[c].user
  OBVIOUS
<1>2. /\ TeamTyped' /\ Len(users') = Len(users) /\ u \in 1..Len(users)
      /\ \A w \in 1..Len(users) : w # u => users'[w] = users[w]
      /\ users'[u].phone = users[u].phone /\ users'[u].email = users[u].email
      /\ users'[u].roles = call[c].roles \cup {call[c].company}
  BY <1>1, SaveInvitedTypes
<1>3. Settles(c)
  BY <1>2, NotBusy DEF SaveInvited, OnlyUsers, Ends, Settles, NoRequest, TeamTyped, CallsTyped
<1>4. /\ unchecked' = unchecked \cup {call[c].company}
      /\ restored' = restored \cup (call[c].roles \ users[u].roles)
      /\ left' = left \cup (users[u].roles \ call[c].roles)
      /\ UNCHANGED <<rushed, crossed>>
  BY <1>1 DEF SaveInvited, OnlyUsers
<1>5. Excepted \subseteq Excepted' /\ unchecked' \subseteq Excepted' /\ restored' \subseteq Excepted'
  BY <1>4 DEF Excepted
<1>6. \A v \in 1..Len(users) : /\ users'[v].phone = users[v].phone
                               /\ users[v].roles \subseteq users'[v].roles \cup left'
  BY <1>2, <1>4
<1>7. \A i \in 1..Len(companies) \ Excepted', w \in 1..Len(users) :
              i \in users'[w].roles => i \in users[w].roles /\ users'[w].email = users[w].email
  BY <1>2, <1>4, <1>5
<1> QED BY <1>2, <1>3, <1>4, <1>5, <1>6, <1>7, SettlesKeeps

LEMMA ClearRolesKeeps ==
    ASSUME TeamTyped, TeamInv, NEW c \in Call, ClearRoles(c)
    PROVE  TeamTyped' /\ TeamInv'
<1>1. PICK u : u = call[c].user
  OBVIOUS
<1>2. /\ TeamTyped' /\ Len(users') = Len(users) /\ u \in 1..Len(users)
      /\ \A w \in 1..Len(users) : w # u => users'[w] = users[w]
      /\ users'[u].phone = users[u].phone /\ users'[u].email = users[u].email
      /\ users'[u].roles = {}
  BY <1>1, ClearRolesTypes
<1>3. Settles(c)
  <2>1. call[c] \in Locals(Len(users), Len(companies), Len(stored)) /\ DOMAIN call = Call
    BY AtStage DEF ClearRoles
  <2>2. PICK q : q = [call[c] EXCEPT !.at = "remove"]
    OBVIOUS
  <2>3. q.at \notin Busy
    BY <2>1, <2>2, NotBusy DEF Locals, Inviting
  <2>4. call' = [call EXCEPT ![c] = q]
    BY <2>2 DEF ClearRoles, Goes
  <2> QED BY <1>2, <2>1, <2>3, <2>4 DEF ClearRoles, OnlyUsers, Settles
<1>4. left' = left \cup users[u].roles /\ UNCHANGED <<unchecked, rushed, restored, crossed>>
  BY <1>1 DEF ClearRoles, OnlyUsers
<1>5. Excepted \subseteq Excepted'
  BY <1>4 DEF Excepted
<1>6. \A v \in 1..Len(users) : /\ users'[v].phone = users[v].phone
                               /\ users[v].roles \subseteq users'[v].roles \cup left'
  BY <1>2, <1>4
<1>7. \A i \in 1..Len(companies) \ Excepted', w \in 1..Len(users) :
              i \in users'[w].roles => i \in users[w].roles /\ users'[w].email = users[w].email
  BY <1>2
<1> QED BY <1>2, <1>3, <1>4, <1>5, <1>6, <1>7, SettlesKeeps

LEMMA RemoveKeeps ==
    ASSUME TeamTyped, TeamInv, NEW c \in Call, RemoveAdministrator(c)
    PROVE  TeamTyped' /\ TeamInv'
<1>1. PICK u : u = call[c].user
  OBVIOUS
<1>2. /\ TeamTyped' /\ Len(users') = Len(users) /\ u \in 1..Len(users)
      /\ \A w \in 1..Len(users) : w # u => users'[w] = users[w]
      /\ users'[u].phone = users[u].phone /\ users'[u].roles = users[u].roles
  BY <1>1, RemoveTypes
<1>3. Settles(c)
  BY <1>2, NotBusy DEF RemoveAdministrator, OnlyUsers, Ends, Settles, NoRequest, TeamTyped, CallsTyped
<1>4. restored' = restored \cup users[u].roles /\ UNCHANGED <<unchecked, rushed, left, crossed>>
  BY <1>1 DEF RemoveAdministrator, OnlyUsers
<1>5. Excepted \subseteq Excepted' /\ restored' \subseteq Excepted'
  BY <1>4 DEF Excepted
<1>6. \A v \in 1..Len(users) : /\ users'[v].phone = users[v].phone
                               /\ users[v].roles \subseteq users'[v].roles \cup left'
  BY <1>2
<1>7. \A i \in 1..Len(companies) \ Excepted', w \in 1..Len(users) :
              i \in users'[w].roles => i \in users[w].roles /\ users'[w].email = users[w].email
  BY <1>2, <1>4, <1>5
<1> QED BY <1>2, <1>3, <1>4, <1>5, <1>6, <1>7, SettlesKeeps

\* Where the limit holds every member has a seat, so that a free one is one below the limit.
LEMMA CountAdminsKeeps ==
    ASSUME TeamTyped, TeamInv, NEW c \in Call, CountAdmins(c), SeatIsFree(call[c].company)
    PROVE  TeamTyped' /\ TeamInv'
<1>0. PICK i : i = call[c].company
  OBVIOUS
<1>1. /\ call[c] \in Locals(Len(users), Len(companies), Len(stored)) /\ Sound(call[c]) /\ Lens
      /\ DOMAIN call = Call /\ call[c].at = "count"
  BY AtStage DEF CountAdmins
<1>2. PICK q : q = [call[c] EXCEPT !.at = "create"]
  OBVIOUS
<1>3. q.at = "create" /\ q.company = i
  BY <1>0, <1>1, <1>2 DEF Locals
<1>4. /\ call' = [call EXCEPT ![c] = q] /\ Goes(c, "create")
      /\ rushed' = IF \E d \in Call : call[d].at = "create" /\ call[d].company = i
                   THEN rushed \cup {i} ELSE rushed
      /\ UNCHANGED <<code, tries, sent, issued, stored, users, companies, managed, inside, form,
                     shared, crossed, raced, unchecked, restored, left>>
  BY <1>0, <1>2 DEF CountAdmins, OnlyUsers, Goes
<1>5. TeamTyped'
  BY <1>1, <1>4, TeamMoves
<1>6. /\ call'[c].at = "create" /\ call'[c].company = i /\ \A d \in Call \ {c} : call'[d] = call[d]
  BY <1>1, <1>3, <1>4
<1>7. ManagedInv /\ OwnersInv /\ SessionsInv /\ SeatsInv
  BY DEF TeamInv
<1>8. "create" \notin Held /\ "create" \notin Founding
  BY DEF Held, Registering, Founding
<1>9. ManagedInv'
  BY <1>4, <1>6, <1>7, ManagedKeeps
<1>10. OwnersInv'
  <2>1. "link" \in Founding /\ "commit" \in Founding
    BY DEF Founding
  <2> QED BY <1>4, <1>5, <1>6, <1>7, <1>8, <2>1, OwnersKeeps
<1>11. SessionsInv'
  BY <1>4, <1>6, <1>7, <1>8, DataStays, SessionsKeeps
<1>12. SeatsInv'
  <2>1. rushed \subseteq rushed' /\ Excepted \subseteq Excepted' /\ crossed \subseteq Excepted'
        /\ rushed' \subseteq Excepted'
    BY <1>4 DEF Excepted
  <2>2. Platform \in Nat /\ MaxAdmins \in Nat
    BY TeamAssumption DEF TeamAssumption
  <2>3. i \in 1..Len(companies)
    BY <1>0, <1>1 DEF Sound, Locals, Lens, Inviting
  <2>4. \A a, b \in Call : a # b /\ call'[a].at = "create" /\ call'[b].at = "create"
                            /\ call'[a].company = call'[b].company => call'[a].company \in rushed'
    <3> SUFFICES ASSUME NEW a \in Call, NEW b \in Call, a # b,
                        call'[a].at = "create", call'[b].at = "create",
                        call'[a].company = call'[b].company
                 PROVE  call'[a].company \in rushed'
      OBVIOUS
    <3>1. CASE a = c \/ b = c
      BY <1>4, <1>6, <3>1
    <3>2. CASE a # c /\ b # c
      BY <1>6, <1>7, <2>1, <3>2 DEF SeatsInv
    <3> QED BY <3>1, <3>2
  <2>5. ASSUME NEW d \in Call, call'[d].at = "create", call'[d].company \notin Excepted'
        PROVE  (Cardinality(Members(call[d].company)) + Platform < MaxAdmins)'
    <3>1. CASE d # c
      <4>1. PICK j : j = call[d].company
        OBVIOUS
      <4>2. j = call'[d].company /\ call[d].at = "create" /\ j \notin Excepted
        BY <1>6, <2>1, <2>5, <3>1, <4>1
      <4>3. Cardinality(Members(j)) + Platform < MaxAdmins
        BY <1>7, <4>1, <4>2 DEF SeatsInv
      <4> QED BY <1>4, <4>2, <4>3 DEF Members
    <3>2. CASE d = c
      <4>1. i \notin Excepted /\ i \notin crossed
        BY <1>6, <2>1, <2>5, <3>2 DEF Excepted
      <4>2. i \in managed
        BY <1>7, <2>3, <4>1 DEF ManagedInv
      <4>3. {u \in DOMAIN users : i \in users[u].roles /\ users[u].email # NoAdministrator} = Members(i)
        <5>1. \A u \in DOMAIN users : i \in users[u].roles => users[u].email # NoAdministrator
          BY <1>7, <2>3, <4>1 DEF SeatsInv, TeamTyped, RowsTyped
        <5> QED BY <5>1 DEF Members
      <4>4. Cardinality(Members(i)) + Platform < MaxAdmins
        BY <1>0, <4>2, <4>3 DEF SeatIsFree, Seats
      <4> QED BY <1>4, <1>6, <3>2, <4>4 DEF Members
    <3> QED BY <3>1, <3>2
  <2>6. \A j \in 1..Len(companies') \ Excepted' : \A u \in 1..Len(users') :
          j \in users'[u].roles => users'[u].email # NoAdministrator
    BY <1>4, <1>7, <2>1 DEF SeatsInv
  <2>7. OwnerHasSeat => SeatsWithinLimit'
    <3> SUFFICES ASSUME OwnerHasSeat, NEW j \in DOMAIN companies' \ Excepted'
                 PROVE  Cardinality(Members(j)') + Platform <= MaxAdmins
      BY DEF SeatsWithinLimit, Excepted
    <3>1. j \in DOMAIN companies \ Excepted /\ Members(j)' = Members(j)
      BY <1>4, <2>1 DEF Members
    <3> QED BY <1>7, <3>1 DEF SeatsInv, SeatsWithinLimit, Excepted
  <2> QED BY <2>4, <2>5, <2>6, <2>7 DEF SeatsInv, OwnerHasSeat
<1> QED BY <1>5, <1>9, <1>10, <1>11, <1>12 DEF TeamInv
-----------------------------------------------------------------------------
\* What a commit does to the requests and to what the invariant excepts.
LEMMA CommitNotes ==
    ASSUME TeamTyped, NEW c \in Call, Commit(c), Alongside
    PROVE  /\ call[c].at = "commit" /\ call[c] \in Locals(Len(users), Len(companies), Len(stored))
           /\ Sound(call[c]) /\ Lens
           /\ call'[c].at \in {"pend", "done"}
           /\ \E answer : call' = Noted(c, answer) /\ answer = call'[c]
           /\ managed' = (managed \ call[c].dropped) \cup {Len(companies) + 1}
           /\ crossed' = IF \E d \in Call \ {c} : call[d].at = "save"
                         THEN crossed \cup {Len(companies) + 1} ELSE crossed
           /\ raced' = IF Beside(c) # {} \/ call[c].raced
                       THEN raced \cup {Len(companies) + 1} ELSE raced
           /\ UNCHANGED <<stored, shared, unchecked, rushed, left>>
           /\ restored \subseteq restored'
           /\ \A i \in 1..Len(companies), u \in 1..Len(users) :
                i \in users'[u].roles \ users[u].roles => i \in restored'
<1> DEFINE r == call[c]
           answer == IF r.user = 0 THEN [r EXCEPT !.at = "pend", !.user = Len(users) + 1]
                     ELSE Answered(c, "done")
<1>1. r.at = "commit" /\ r \in Locals(Len(users), Len(companies), Len(stored)) /\ Sound(r) /\ Lens
  BY AtStage DEF Commit
<1>2. call' = Noted(c, answer)
  BY DEF Commit
<1>3. PICK a : a = answer
  OBVIOUS
<1>4. a.at \in {"pend", "done"}
  <2>1. CASE r.user = 0
    <3>1. [r EXCEPT !.at = "pend", !.user = Len(users) + 1].at = "pend"
      BY <1>1 DEF Locals
    <3> QED BY <1>3, <2>1, <3>1
  <2>2. CASE r.user # 0
    <3>1. Answered(c, "done").at = "done"
      BY DEF Answered, NewCall
    <3> QED BY <1>3, <2>2, <3>1
  <2> QED BY <2>1, <2>2
<1> HIDE DEF answer
<1>5. call' = Noted(c, a) /\ call'[c] = a
  BY <1>2, <1>3, NotedFields
<1>6. restored' = restored \cup {i \in DOMAIN companies :
                                 \E u \in DOMAIN users : i \in users'[u].roles \ users[u].roles}
  BY DEF Alongside, Regains
<1>7. DOMAIN companies = 1..Len(companies) /\ DOMAIN users = 1..Len(users)
  BY DEF TeamTyped, RowsTyped
<1>8. /\ managed' = (managed \ r.dropped) \cup {Len(companies) + 1}
      /\ crossed' = IF \E d \in Call \ {c} : call[d].at = "save"
                    THEN crossed \cup {Len(companies) + 1} ELSE crossed
      /\ raced' = IF Beside(c) # {} \/ r.raced THEN raced \cup {Len(companies) + 1} ELSE raced
      /\ UNCHANGED <<stored, shared, unchecked, rushed, left>>
  BY DEF Commit, Alongside
<1> QED BY <1>1, <1>4, <1>5, <1>6, <1>7, <1>8

LEMMA CommitManaged ==
    ASSUME TeamTyped, ManagedInv, NEW c \in Call, Commit(c), Alongside
    PROVE  ManagedInv'
<1>1. PICK m \in Nat : m = Len(companies) /\ Len(companies') = m + 1
  BY CommitRows, CommitNotes DEF Lens
<1>2. /\ call[c].at = "commit" /\ call'[c].at \in {"pend", "done"}
      /\ managed' = (managed \ call[c].dropped) \cup {m + 1}
      /\ crossed' = IF \E d \in Call \ {c} : call[d].at = "save" THEN crossed \cup {m + 1} ELSE crossed
  BY <1>1, CommitNotes
<1>3. \A d \in Call \ {c} : call'[d].at = call[d].at /\ call'[d].seen = call[d].seen
                            /\ call'[d].dropped = call[d].dropped
  <2>1. PICK answer : call' = Noted(c, answer)
    BY CommitNotes
  <2> QED BY <2>1, NotedFields
<1>4. 1..(m + 1) = 1..m \cup {m + 1}
  BY <1>1
<1>5. call[c].dropped \subseteq crossed /\ crossed \subseteq crossed' /\ 1..m \subseteq managed \cup crossed
  BY <1>1, <1>2 DEF ManagedInv
<1>6. 1..(m + 1) \subseteq managed' \cup crossed'
  BY <1>2, <1>4, <1>5
<1>7. ASSUME NEW d \in Call, call'[d].at = "save"
      PROVE  1..(m + 1) \subseteq call'[d].seen \cup crossed'
  <2>1. d # c /\ call[d].at = "save" /\ call'[d].seen = call[d].seen
    BY <1>2, <1>3, <1>7
  <2>2. m + 1 \in crossed' /\ 1..m \subseteq call[d].seen \cup crossed
    BY <1>1, <1>2, <2>1 DEF ManagedInv
  <2> QED BY <1>4, <1>5, <2>1, <2>2
<1>8. ASSUME NEW d \in Call, call'[d].at \in {"attach", "link", "commit"}
      PROVE  call'[d].dropped \subseteq crossed'
  <2>1. d # c /\ call'[d].dropped = call[d].dropped /\ call[d].at \in {"attach", "link", "commit"}
    BY <1>2, <1>3, <1>8
  <2> QED BY <1>5, <2>1 DEF ManagedInv
<1> QED BY <1>1, <1>6, <1>7, <1>8 DEF ManagedInv

LEMMA CommitSessions ==
    ASSUME TeamTyped, TeamTyped', SessionsInv, NEW c \in Call, Commit(c), Alongside
    PROVE  SessionsInv'
<1>1. PICK m, s : /\ m \in Nat /\ m = Len(companies) /\ s = call[c].session
  BY CommitNotes DEF Lens
<1>2. /\ Len(companies') = m + 1 /\ \A i \in 1..m : companies'[i] = companies[i]
      /\ companies'[m + 1].session = s
  BY <1>1, CommitRows
<1>3. /\ call[c].at = "commit" /\ call'[c].at \in {"pend", "done"} /\ UNCHANGED <<stored, shared>>
      /\ s \in 0..Len(stored) /\ Len(stored) \in Nat
  BY <1>1, CommitNotes DEF Locals, Lens
<1>4. call'[c].at \notin Held /\ call[c].at \in Held /\ call[c].at \in Registering
      /\ Registering \subseteq Held
  BY <1>3 DEF Held, Registering, Founding
<1>5. \A d \in Call \ {c} : call'[d].at = call[d].at /\ call'[d].session = call[d].session
  <2>1. PICK answer : call' = Noted(c, answer)
    BY CommitNotes
  <2> QED BY <2>1, NotedFields
<1>6. 1..(m + 1) = 1..m \cup {m + 1}
  BY <1>1
<1>7. \A a, b \in Call : a # b /\ call'[a].at \in Held /\ call'[b].at \in Held
                            /\ call'[a].session = call'[b].session => call'[a].session \in shared'
  BY <1>3, <1>4, <1>5 DEF SessionsInv
<1>8. \A d \in Call, i \in 1..(m + 1) :
          call'[d].at \in Held /\ companies'[i].session = call'[d].session => call'[d].session \in shared'
  <2> SUFFICES ASSUME NEW d \in Call, NEW i \in 1..(m + 1), call'[d].at \in Held,
                      companies'[i].session = call'[d].session
               PROVE  call'[d].session \in shared'
    OBVIOUS
  <2>1. d # c /\ call[d].at \in Held /\ call'[d].session = call[d].session
    BY <1>4, <1>5
  <2>2. CASE i \in 1..m
    BY <1>1, <1>2, <1>3, <2>1, <2>2 DEF SessionsInv
  <2>3. CASE i = m + 1
    BY <1>1, <1>2, <1>3, <1>4, <2>1, <2>3 DEF SessionsInv
  <2> QED BY <1>6, <2>2, <2>3
<1>9. \A d \in Call : call'[d].at \in Registering => stored'[call'[d].session] = Gone
  BY <1>3, <1>4, <1>5 DEF SessionsInv
<1>10. \A i \in 1..(m + 1) : /\ companies'[i].session <= Len(stored')
                             /\ companies'[i].session > 0 => stored'[companies'[i].session] = Gone
  <2>1. s <= Len(stored') /\ stored'[s] = Gone
    BY <1>1, <1>3, <1>4 DEF SessionsInv
  <2>2. \A i \in 1..m : /\ companies'[i].session <= Len(stored')
                        /\ companies'[i].session > 0 => stored'[companies'[i].session] = Gone
    BY <1>1, <1>2, <1>3 DEF SessionsInv
  <2> QED BY <1>2, <1>6, <2>1, <2>2
<1>11. OneCompanyPerRegistration'
  <2>1. DOMAIN companies = 1..m /\ DOMAIN companies' = 1..(m + 1)
    BY <1>1, <1>2 DEF TeamTyped, RowsTyped
  <2>2. \A i \in 1..m : companies[i].session = s => s \in shared
    BY <1>1, <1>4 DEF SessionsInv
  <2>3. \A i, j \in 1..m : i # j /\ companies[i].session = companies[j].session => companies[i].session \in shared
    BY <2>1 DEF SessionsInv, OneCompanyPerRegistration
  <2> SUFFICES ASSUME NEW i \in 1..(m + 1), NEW j \in 1..(m + 1), i # j,
                      companies'[i].session = companies'[j].session
               PROVE  companies'[i].session \in shared'
    BY <2>1 DEF OneCompanyPerRegistration
  <2>4. CASE i \in 1..m /\ j \in 1..m
    BY <1>2, <1>3, <2>3, <2>4
  <2>5. CASE i = m + 1 \/ j = m + 1
    BY <1>2, <1>3, <1>6, <2>2, <2>5
  <2> QED BY <1>6, <2>4, <2>5
<1> QED BY <1>1, <1>2, <1>7, <1>8, <1>9, <1>10, <1>11 DEF SessionsInv

LEMMA CommitOwners ==
    ASSUME TeamTyped, TeamTyped', OwnersInv, NEW c \in Call, Commit(c), Alongside
    PROVE  OwnersInv'
<1>1. PICK m, n, P, u : /\ m \in Nat /\ m = Len(companies) /\ n \in Nat /\ n = Len(users)
                        /\ P = call[c].phone /\ u = call[c].user
  BY CommitNotes DEF Lens
<1>2. /\ Len(companies') = m + 1 /\ \A i \in 1..m : companies'[i] = companies[i]
      /\ companies'[m + 1].phone = P
      /\ Len(users') = IF u = 0 THEN n + 1 ELSE n
      /\ \A v \in 1..n : v # u => users'[v] = users[v]
      /\ u = 0 => users'[n + 1].phone = P /\ users'[n + 1].roles = {m + 1}
      /\ u # 0 => /\ u \in 1..n /\ users'[u].phone = users[u].phone
                  /\ users'[u].roles = (users[u].roles \ call[c].unlinked) \cup call[c].roles \cup {m + 1}
  BY <1>1, CommitRows
<1>3. /\ call[c].at = "commit" /\ call'[c].at \in {"pend", "done"}
      /\ raced' = IF Beside(c) # {} \/ call[c].raced THEN raced \cup {m + 1} ELSE raced
      /\ left' = left
  BY <1>1, CommitNotes
<1>4. PICK answer : call' = Noted(c, answer) /\ answer.at \notin Founding
  BY CommitNotes DEF Founding
<1>5. 1..(m + 1) = 1..m \cup {m + 1}
  BY <1>1
<1>6. Lost \subseteq Lost'
  BY <1>3 DEF Lost
<1>7. u = UserIn(users, P) \/ (u = 0 /\ call[c].raced)
  BY <1>1, <1>3 DEF OwnersInv, Founding
<1>8. /\ \A p : \/ UserIn(users', p) = UserIn(users, p)
                \/ UserIn(users, p) = 0 /\ p = P
      /\ \A p : UserIn(users, p) # 0 => UserIn(users, p) \in 1..n /\ users[UserIn(users, p)].phone = p
      /\ u = 0 /\ UserIn(users, P) = 0 => UserIn(users', P) = n + 1
  <2>1. PICK S, T, U, W : S = UserRow(Len(companies)) /\ T = UserRow(Len(companies')) /\ U = users /\ W = users'
    OBVIOUS
  <2>2. /\ U \in Seq(S) /\ W \in Seq(T) /\ Len(U) = n /\ DOMAIN U = 1..n
        /\ \A v \in 1..Len(U) : W[v].phone = U[v].phone
    <3>1. \A v \in 1..n : users'[v].phone = users[v].phone
      <4> TAKE v \in 1..n
      <4>1. v # 0
        BY <1>1
      <4>2. CASE v = u
        BY <1>2, <4>1, <4>2
      <4>3. CASE v # u
        BY <1>2, <4>3
      <4> QED BY <4>2, <4>3
    <3>2. U \in Seq(S) /\ W \in Seq(T) /\ Len(U) = n /\ DOMAIN U = 1..n
      BY <1>1, <2>1 DEF TeamTyped, RowsTyped
    <3> QED BY <2>1, <3>1, <3>2
  <2>3. \A p : UserIn(U, p) # 0 => UserIn(U, p) \in 1..n /\ U[UserIn(U, p)].phone = p
    BY <2>2, UserFound
  <2>4. CASE u = 0
    <3>1. Len(W) = Len(U) + 1 /\ W[Len(W)].phone = P
      BY <1>1, <1>2, <2>1, <2>2, <2>4
    <3>2. \A p : /\ UserIn(U, p) # 0 => UserIn(W, p) = UserIn(U, p)
                 /\ UserIn(U, p) = 0 => UserIn(W, p) = IF W[Len(W)].phone = p THEN Len(W) ELSE 0
      BY <2>2, <3>1, UserAdded
    <3> QED BY <2>1, <2>2, <2>3, <3>1, <3>2
  <2>5. CASE u # 0
    <3>1. Len(W) = Len(U)
      BY <1>2, <2>1, <2>2, <2>5
    <3>2. \A p : UserIn(W, p) = UserIn(U, p)
      BY <2>2, <3>1, SameUserFound
    <3> QED BY <2>1, <2>3, <2>5, <3>2
  <2> QED BY <2>4, <2>5
<1>9. /\ \A d \in Call : call'[d].at \in Founding =>
           \/ call'[d].user = UserIn(users', call'[d].phone)
           \/ call'[d].user = 0 /\ call'[d].raced
      /\ \A d \in Call : call'[d].at = "link" =>
           \A j \in 1..Len(companies') :
              companies'[j].phone = call'[d].phone => j \in call'[d].roles \cup Lost'
      /\ \A d \in Call : call'[d].at = "commit" =>
           \A j \in call'[d].unlinked : companies'[j].phone = call'[d].phone => j \in Lost'
  <2>1. Len(companies') \in Nat /\ Len(companies) <= Len(companies')
    BY <1>1, <1>2
  <2>2. \A p : \/ UserIn(users', p) = UserIn(users, p)
               \/ UserIn(users, p) = 0 /\ p = call[c].phone
    BY <1>1, <1>8
  <2>3. \A i \in 1..Len(companies') :
              i \in 1..Len(companies) \/ (companies'[i].phone = call[c].phone
                                            /\ (Beside(c) # {} => i \in raced'))
    BY <1>1, <1>2, <1>3, <1>5
  <2>4. \A i \in 1..Len(companies) : companies'[i].phone = companies[i].phone
    BY <1>1, <1>2
  <2>5. raced \subseteq raced' /\ left \subseteq left'
    BY <1>3
  <2> QED BY <1>4, <2>1, <2>2, <2>3, <2>4, <2>5, OthersOwn
<1>10. ASSUME NEW i \in 1..Len(companies'), i \notin Lost'
       PROVE  /\ UserIn(users', companies'[i].phone) # 0
              /\ i \in users'[UserIn(users', companies'[i].phone)].roles
  <2>1. CASE i \in 1..m
    <3>1. PICK w : w = UserIn(users, companies[i].phone)
      OBVIOUS
    <3>2. w # 0 /\ i \in users[w].roles
      BY <1>1, <1>6, <1>10, <2>1, <3>1 DEF OwnersInv
    <3>3. w \in 1..n /\ users[w].phone = companies[i].phone
      BY <1>8, <3>1, <3>2
    <3>4. w = UserIn(users', companies'[i].phone)
      BY <1>2, <1>8, <2>1, <3>1, <3>2
    <3>5. i \in users'[w].roles
      <4>1. CASE w # u
        BY <1>2, <3>2, <3>3, <4>1
      <4>2. CASE w = u
        <5>1. companies[i].phone = P
          BY <1>7, <1>8, <3>2, <3>3, <4>2
        <5>2. i \notin call[c].unlinked
          BY <1>1, <1>3, <1>6, <1>10, <5>1 DEF OwnersInv
        <5> QED BY <1>2, <3>2, <4>2, <5>2
      <4> QED BY <4>1, <4>2
    <3> QED BY <3>2, <3>4, <3>5
  <2>2. CASE i = m + 1
    <3>1. ~call[c].raced /\ u = UserIn(users, P)
      BY <1>3, <1>7, <1>10, <2>2 DEF Lost
    <3>2. CASE u = 0
      BY <1>1, <1>2, <1>8, <2>2, <3>1, <3>2
    <3>3. CASE u # 0
      BY <1>1, <1>2, <1>8, <2>2, <3>1, <3>3
    <3> QED BY <3>2, <3>3
  <2> QED BY <1>2, <1>5, <2>1, <2>2
<1> QED BY <1>9, <1>10 DEF OwnersInv

LEMMA CommitSeats ==
    ASSUME TeamTyped, TeamTyped', SeatsInv, NEW c \in Call, Commit(c), Alongside
    PROVE  SeatsInv'
<1>1. PICK m, n, u : /\ m \in Nat /\ m = Len(companies) /\ n \in Nat /\ n = Len(users) /\ u = call[c].user
  BY CommitNotes DEF Lens
<1>2. /\ Len(companies') = m + 1
      /\ Len(users') = IF u = 0 THEN n + 1 ELSE n
      /\ \A v \in 1..n : v # u => users'[v] = users[v]
      /\ u = 0 => users'[n + 1].email # NoAdministrator /\ users'[n + 1].roles = {m + 1}
      /\ u # 0 => /\ u \in 1..n /\ users'[u].email # NoAdministrator /\ m + 1 \in users'[u].roles
  BY <1>1, CommitRows
<1>3. /\ call[c].at = "commit" /\ call'[c].at \in {"pend", "done"} /\ rushed' = rushed
      /\ Excepted \subseteq Excepted' /\ restored' \subseteq Excepted'
  BY CommitNotes DEF Excepted
<1>4. \A d \in Call \ {c} : call'[d].at = call[d].at /\ call'[d].company = call[d].company
  <2>1. PICK answer : call' = Noted(c, answer)
    BY CommitNotes
  <2> QED BY <2>1, NotedFields
<1>5. /\ 1..(m + 1) = 1..m \cup {m + 1} /\ m + 1 \notin 1..m
      /\ 1..(n + 1) = 1..n \cup {n + 1} /\ 0 \notin 1..n /\ n + 1 \notin 1..n
  BY <1>1
<1>6. /\ DOMAIN users = 1..n /\ DOMAIN companies = 1..m /\ DOMAIN companies' = 1..(m + 1)
      /\ DOMAIN users' = IF u = 0 THEN 1..(n + 1) ELSE 1..n
  BY <1>1, <1>2 DEF TeamTyped, RowsTyped
<1>7. \A v \in 1..n : users[v].roles \subseteq 1..m
  BY <1>1, RolesTyped DEF TeamTyped
<1>8. Platform \in Nat /\ MaxAdmins \in Nat
  BY TeamAssumption DEF TeamAssumption
<1>9. \A i \in 1..m \ Excepted', v \in 1..n : i \in users'[v].roles => i \in users[v].roles
  <2>1. \A i \in 1..m, v \in 1..n : i \in users'[v].roles \ users[v].roles => i \in restored'
    BY <1>1, CommitNotes
  <2> QED BY <1>3, <2>1
<1>10. PICK x : x = (IF u = 0 THEN n + 1 ELSE u) /\ Members(m + 1)' = {x}
  BY <1>2, <1>5, <1>6, <1>7 DEF Members
<1>11. \A i \in 1..m \ Excepted' : Members(i)' \subseteq Members(i)
  <2> SUFFICES ASSUME NEW i \in 1..m \ Excepted', NEW v \in DOMAIN users', i \in users'[v].roles
               PROVE  v \in DOMAIN users /\ i \in users[v].roles
    BY DEF Members
  <2>1. CASE v \in 1..n
    BY <1>6, <1>9, <2>1
  <2>2. CASE v \notin 1..n
    BY <1>2, <1>5, <1>6, <2>2
  <2> QED BY <2>1, <2>2
<1>12. \A i \in 1..m \ Excepted' : /\ Cardinality(Members(i)) \in Nat /\ Cardinality(Members(i)') \in Nat
                                   /\ Cardinality(Members(i)') <= Cardinality(Members(i))
  <2> SUFFICES ASSUME NEW i \in 1..m \ Excepted'
               PROVE  /\ Cardinality(Members(i)) \in Nat /\ Cardinality(Members(i)') \in Nat
                      /\ Cardinality(Members(i)') <= Cardinality(Members(i))
    OBVIOUS
  <2>1. PICK A, B : A = Members(i)' /\ B = Members(i)
    OBVIOUS
  <2>2. IsFiniteSet(B) /\ A \in SUBSET B
    BY <1>11, <2>1, MembersFinite
  <2>3. Cardinality(A) \in Nat /\ Cardinality(B) \in Nat /\ Cardinality(A) <= Cardinality(B)
    BY <2>2, FS_Subset, FS_CardinalityType
  <2> QED BY <2>1, <2>3
<1>13. \A a, b \in Call : a # b /\ call'[a].at = "create" /\ call'[b].at = "create"
                            /\ call'[a].company = call'[b].company => call'[a].company \in rushed'
  BY <1>3, <1>4 DEF SeatsInv
<1>14. ASSUME NEW d \in Call, call'[d].at = "create", call'[d].company \notin Excepted'
       PROVE  (Cardinality(Members(call[d].company)) + Platform < MaxAdmins)'
  <2>1. PICK j : j = call[d].company
    OBVIOUS
  <2>2. j = call'[d].company /\ call[d].at = "create" /\ j \notin Excepted /\ j \notin Excepted'
    BY <1>3, <1>4, <1>14, <2>1
  <2>3. j \in 1..m
    <3>1. call[d] \in Locals(Len(users), Len(companies), Len(stored)) /\ Sound(call[d])
      BY <2>2, AtStage
    <3>2. j \in 0..m
      BY <1>1, <2>1, <3>1 DEF Locals
    <3>3. j # 0
      BY <2>1, <2>2, <3>1 DEF Sound, Inviting
    <3> QED BY <1>1, <3>2, <3>3
  <2>4. Cardinality(Members(j)) + Platform < MaxAdmins
    BY <2>1, <2>2 DEF SeatsInv
  <2>5. PICK a \in Nat, b \in Nat : a = Cardinality(Members(j)') /\ b = Cardinality(Members(j)) /\ a <= b
    BY <1>12, <2>2, <2>3
  <2>6. a + Platform < MaxAdmins
    BY <1>8, <2>4, <2>5
  <2> QED BY <2>2, <2>5, <2>6 DEF Members
<1>15. ASSUME NEW j \in 1..(m + 1) \ Excepted', NEW v \in DOMAIN users', j \in users'[v].roles
       PROVE  users'[v].email # NoAdministrator
  <2>1. CASE v = u \/ v \notin 1..n
    BY <1>2, <1>5, <1>6, <2>1
  <2>2. CASE v # u /\ v \in 1..n
    <3>1. users'[v] = users[v] /\ j \in 1..m \ Excepted
      BY <1>2, <1>3, <1>5, <1>7, <1>15, <2>2
    <3> QED BY <1>1, <1>15, <2>2, <3>1 DEF SeatsInv
  <2> QED BY <2>1, <2>2
<1>16. OwnerHasSeat => SeatsWithinLimit'
  <2> SUFFICES ASSUME OwnerHasSeat, NEW j \in 1..(m + 1) \ Excepted'
               PROVE  Cardinality(Members(j)') + Platform <= MaxAdmins
    BY <1>6 DEF SeatsWithinLimit, Excepted
  <2>1. CASE j \in 1..m
    <3>1. Cardinality(Members(j)) + Platform <= MaxAdmins
      BY <1>3, <1>6, <2>1 DEF SeatsInv, SeatsWithinLimit, Excepted
    <3>2. PICK a \in Nat, b \in Nat : a = Cardinality(Members(j)') /\ b = Cardinality(Members(j)) /\ a <= b
      BY <1>12, <2>1
    <3> QED BY <1>8, <3>1, <3>2
  <2>2. CASE j = m + 1
    <3>1. Cardinality({x}) = 1
      BY FS_Singleton
    <3>2. Cardinality(Members(m + 1)') = 1
      BY <1>10, <3>1
    <3> QED BY <2>2, <3>2 DEF OwnerHasSeat
  <2> QED BY <1>5, <2>1, <2>2
<1>17. \A j \in 1..Len(companies') \ Excepted' : \A v \in 1..Len(users') :
          j \in users'[v].roles => users'[v].email # NoAdministrator
  BY <1>2, <1>6, <1>15
<1> QED BY <1>13, <1>14, <1>16, <1>17 DEF SeatsInv, OwnerHasSeat

LEMMA CommitKeeps ==
    ASSUME TeamTyped, TeamInv, NEW c \in Call, Commit(c), Alongside
    PROVE  TeamTyped' /\ TeamInv'
<1>1. TeamTyped'
  BY CommitTypes
<1> QED BY <1>1, CommitManaged, CommitOwners, CommitSessions, CommitSeats DEF TeamInv
-----------------------------------------------------------------------------
LEMMA TeamStepKeeps ==
    ASSUME TeamTyped, TeamInv, [TeamNext]_<<otpVars, regVars, teamVars>>
    PROVE  TeamTyped' /\ TeamInv'
<1>1. ASSUME TeamTyped', Quiet PROVE TeamInv'
  BY <1>1, QuietKeeps
<1>2. CASE UNCHANGED <<otpVars, regVars, teamVars>>
  <2>1. TeamTyped'
    BY <1>2 DEF otpVars, regVars, TeamTyped, OtpTyped, RowsTyped, CallsTyped
  <2>2. Quiet
    BY <1>2, RowsStay, DataStays DEF otpVars, regVars, teamVars, Quiet, SameNotes
  <2> QED BY <1>1, <2>1, <2>2
<1>3. CASE RegistrationNext /\ Alongside
  <2>1. CASE \E c \in Call : OtpStep(c) /\ UNCHANGED regVars
    BY <1>1, <1>3, <2>1, OtpTypes, OtpQuiet
  <2>2. CASE \E c \in Call : Provision(c)
    <3>1. PICK c \in Call : Provision(c)
      BY <2>2
    <3>2. CASE LoadData(c)
      BY <1>3, <3>2, LoadDataKeeps
    <3>3. CASE \/ DropData(c) \/ LookUpUser(c) \/ CreateChannel(c)
               \/ ReadSuperAdminRole(c) \/ SaveSuperAdminRole(c) \/ ReadUserRoles(c) \/ LinkUserRole(c)
      BY <1>3, <3>3, ProvisionKeeps
    <3>4. CASE Commit(c)
      BY <1>3, <3>4, CommitKeeps
    <3>5. CASE RollBackCompany(c) \/ SetPending(c) \/ SetPendingFails(c)
      BY <1>1, <1>3, <3>5, LateQuiet
    <3> QED BY <3>1, <3>2, <3>3, <3>4, <3>5 DEF Provision
  <2>3. CASE \E c \in Call : LoginStep(c) \/ Hear(c)
    BY <1>1, <1>3, <2>3, LateQuiet DEF LoginStep
  <2>4. CASE \E c \in Call, p \in Phone :
               \/ \E input \in Inputs : AskToRegister(c, p, input)
               \/ AskToLogin(c, p)
               \/ \E guess \in Guesses(p) : SubmitCode(c, p, guess) \/ SubmitLogin(c, p, guess)
    BY <1>1, <1>3, <2>4, AskingQuiet
  <2>5. CASE \/ \E p \in Phone : Forget(p) /\ UNCHANGED regVars
             \/ \E s \in 1..MaxSessions : ExpireData(s)
             \/ \E i \in DOMAIN companies, status \in {"APPROVED", "DISABLED"} : Decide(i, status)
             \/ \E u \in DOMAIN users : RejectUser(u)
    BY <1>1, <1>3, <2>5, OutsideQuiet
  <2> QED BY <1>3, <2>1, <2>2, <2>3, <2>4, <2>5 DEF RegistrationNext
<1>4. CASE \E c \in Call :
             \/ TeamStep(c)
             \/ \E i \in DOMAIN companies, p \in Phone \cup Colleague : Invite(c, i, p)
             \/ \E i \in DOMAIN companies, u \in DOMAIN users : Disable(c, i, u)
  <2>1. PICK c \in Call :
             \/ TeamStep(c)
             \/ \E i \in DOMAIN companies, p \in Phone \cup Colleague : Invite(c, i, p)
             \/ \E i \in DOMAIN companies, u \in DOMAIN users : Disable(c, i, u)
    BY <1>4
  <2>2. CASE CountAdmins(c) /\ SeatIsFree(call[c].company)
    BY <2>2, CountAdminsKeeps
  <2>3. CASE CreateMember(c)
    BY <2>3, CreateMemberKeeps
  <2>4. CASE SaveInvited(c) \/ ClearRoles(c) \/ RemoveAdministrator(c)
    BY <2>4, SaveInvitedKeeps, ClearRolesKeeps, RemoveKeeps
  <2>5. CASE \/ CountAdmins(c) /\ ~SeatIsFree(call[c].company)
             \/ ReadInvited(c) \/ TeamFails(c)
             \/ \E i \in DOMAIN companies, p \in Phone \cup Colleague : Invite(c, i, p)
             \/ \E i \in DOMAIN companies, u \in DOMAIN users : Disable(c, i, u)
    BY <1>1, <2>5, TeamQuiet
  <2> QED BY <2>1, <2>2, <2>3, <2>4, <2>5 DEF TeamStep
<1> QED BY <1>2, <1>3, <1>4 DEF TeamNext, Alongside

LEMMA TeamInitKeeps == ASSUME TeamInit PROVE TeamTyped /\ TeamInv
<1>1. PICK start \in Founded :
        /\ code = [p \in Phone |-> NoCode] /\ tries = [p \in Phone |-> 0]
        /\ sent = [p \in Phone |-> {}]
        /\ issued = start.issued /\ call = [c \in Call |-> NoRequest]
        /\ stored = <<>>
        /\ users = [u \in DOMAIN start.owners |-> [phone |-> start.owners[u], email |-> start.owners[u],
                                                   auth |-> "PENDING", roles |-> {u}]]
        /\ companies = [i \in DOMAIN start.owners |-> [code |-> <<start.owners[i]>>, session |-> -i,
                                                       phone |-> start.owners[i], status |-> "APPROVED"]]
        /\ managed = DOMAIN start.owners /\ inside = DOMAIN start.owners
        /\ form = [session |-> NoSession, loading |-> FALSE, login |-> FALSE]
  BY DEF TeamInit
<1>2. PICK owners, n : owners = start.owners /\ n = Len(owners)
  OBVIOUS
<1>3. /\ owners \in Seq(Person) /\ start.issued \in Nat /\ n \in Nat /\ DOMAIN owners = 1..n
      /\ \A i \in 1..n : owners[i] \in Person /\ owners[i] # NoAdministrator
      /\ \A i, j \in 1..n : owners[i] = owners[j] => i = j
  <2>1. start \in [owners : Seq(Phone \cup Colleague), issued : Nat, teamwork : Nat]
    BY TeamAssumption DEF TeamAssumption
  <2>2. owners \in Seq(Person) /\ start.issued \in Nat
    BY <1>2, <2>1 DEF Person
  <2>3. n \in Nat /\ DOMAIN owners = 1..n /\ \A i \in 1..n : owners[i] \in Person
    BY <1>2, <2>2
  <2>4. \A p \in Person : p # NoAdministrator
    BY TeamAssumption DEF TeamAssumption, Person
  <2>5. \A i, j \in DOMAIN start.owners : start.owners[i] = start.owners[j] => i = j
    BY TeamAssumption DEF TeamAssumption
  <2> QED BY <1>2, <2>2, <2>3, <2>4, <2>5
<1>4. /\ users = [u \in 1..n |-> [phone |-> owners[u], email |-> owners[u],
                                  auth |-> "PENDING", roles |-> {u}]]
      /\ companies = [i \in 1..n |-> [code |-> <<owners[i]>>, session |-> -i,
                                      phone |-> owners[i], status |-> "APPROVED"]]
      /\ managed = 1..n /\ inside = 1..n
  BY <1>1, <1>2, <1>3
<1>5. /\ \A u \in 1..n : [phone |-> owners[u], email |-> owners[u],
                          auth |-> "PENDING", roles |-> {u}] \in UserRow(n)
      /\ \A i \in 1..n : [code |-> <<owners[i]>>, session |-> -i,
                          phone |-> owners[i], status |-> "APPROVED"] \in CompanyRow
  <2>1. ASSUME NEW u \in 1..n
        PROVE  [phone |-> owners[u], email |-> owners[u],
                auth |-> "PENDING", roles |-> {u}] \in UserRow(n)
    <3>1. owners[u] \in Person /\ owners[u] \in Mail
      BY <1>3 DEF Mail
    <3> QED BY <3>1 DEF UserRow
  <2>2. ASSUME NEW i \in 1..n
        PROVE  [code |-> <<owners[i]>>, session |-> -i,
                phone |-> owners[i], status |-> "APPROVED"] \in CompanyRow
    <3>1. PICK p \in Person : p = owners[i]
      BY <1>3
    <3>2. <<p>> \in Codes
      BY DEF Codes
    <3>3. -i \in Int
      BY <1>3
    <3> QED BY <3>1, <3>2, <3>3 DEF CompanyRow
  <2> QED BY <2>1, <2>2
<1>6. /\ users \in Seq(UserRow(n)) /\ Len(users) = n /\ DOMAIN users = 1..n
      /\ companies \in Seq(CompanyRow) /\ Len(companies) = n /\ DOMAIN companies = 1..n
  <2>1. ASSUME NEW S, NEW f, f \in [1..n -> S] PROVE f \in Seq(S) /\ Len(f) = n /\ DOMAIN f = 1..n
    BY <1>3, <2>1
  <2>2. users \in [1..n -> UserRow(n)] /\ companies \in [1..n -> CompanyRow]
    BY <1>4, <1>5
  <2>3. PICK S, T, U, C : S = UserRow(n) /\ T = CompanyRow /\ U = users /\ C = companies
    OBVIOUS
  <2> QED BY <2>1, <2>2, <2>3
<1>7. \A u \in 1..n : /\ users[u].phone = owners[u] /\ users[u].email = owners[u] /\ users[u].roles = {u}
                      /\ companies[u].phone = owners[u] /\ companies[u].session = -u
  BY <1>4
<1>8. \A c \in Call : call[c] = NoRequest /\ call[c].at = "idle"
  BY <1>1 DEF NoRequest
<1>9. "idle" \notin Held /\ "idle" \notin Founding /\ "idle" \notin Registering
  BY DEF Held, Registering, Founding
<1>10. Len(stored) = 0 /\ stored \in Seq(Inputs \cup {Gone})
  BY <1>1
<1>11. TeamTyped
  <2>1. OtpTyped
    BY <1>1, <1>3 DEF OtpTyped, NoCode
  <2>2. RowsTyped
    <3>1. users \in Seq(UserRow(Len(companies)))
      BY <1>6
    <3>2. managed \subseteq 1..Len(companies) /\ inside \subseteq 1..Len(companies)
      BY <1>4, <1>6
    <3>3. form \in [session : 0..Len(stored), loading : BOOLEAN, login : BOOLEAN]
      BY <1>1, <1>10 DEF NoSession
    <3> QED BY <1>6, <1>10, <3>1, <3>2, <3>3 DEF RowsTyped
  <2>3. CallsTyped
    BY <1>1, <1>8 DEF CallsTyped, Fine
  <2> QED BY <2>1, <2>2, <2>3 DEF TeamTyped
<1>12. ManagedInv
  BY <1>4, <1>6, <1>8 DEF ManagedInv
<1>13. OwnersInv
  <2>1. ASSUME NEW i \in 1..n
        PROVE  UserIn(users, owners[i]) = i
    <3>1. PICK S, U : S = UserRow(n) /\ U = users /\ U \in Seq(S) /\ DOMAIN U = 1..n
      BY <1>6
    <3>2. PICK u : u = UserIn(U, owners[i])
      OBVIOUS
    <3>3. u # 0
      <4>1. U[i].phone = owners[i] /\ i \in DOMAIN U
        BY <1>7, <3>1
      <4>2. u = 0 => \A v \in DOMAIN U : U[v].phone # owners[i]
        BY <3>1, <3>2, UserFound
      <4> QED BY <4>1, <4>2
    <3>4. u \in 1..n /\ U[u].phone = owners[i]
      BY <3>1, <3>2, <3>3, UserFound
    <3>5. u = i
      BY <1>3, <1>7, <3>1, <3>4
    <3> QED BY <3>1, <3>2, <3>5
  <2>2. \A i \in 1..n : i # 0 /\ i \in {i}
    BY <1>3
  <2>3. ASSUME NEW i \in 1..n
        PROVE  /\ UserIn(users, companies[i].phone) # 0
               /\ i \in users[UserIn(users, companies[i].phone)].roles
    BY <1>7, <2>1, <2>2
  <2> QED BY <1>6, <1>8, <1>9, <2>3 DEF OwnersInv
<1>14. SessionsInv
  <2>1. ASSUME NEW i \in 1..n
        PROVE  companies[i].session <= Len(stored) /\ ~(companies[i].session > 0)
    BY <1>3, <1>7, <1>10
  <2>2. OneCompanyPerRegistration
    <3> SUFFICES ASSUME NEW i \in 1..n, NEW j \in 1..n, i # j, companies[i].session = companies[j].session
                 PROVE  FALSE
      BY <1>6 DEF OneCompanyPerRegistration
    <3> QED BY <1>3, <1>7
  <2> QED BY <1>6, <1>8, <1>9, <2>1, <2>2 DEF SessionsInv
<1>15. SeatsInv
  <2>1. ASSUME NEW i \in 1..n PROVE Members(i) = {i}
    BY <1>6, <1>7 DEF Members
  <2>2. ASSUME OwnerHasSeat, NEW i \in 1..n PROVE Cardinality(Members(i)) + Platform <= MaxAdmins
    <3>1. Cardinality({i}) = 1
      BY FS_Singleton
    <3> QED BY <2>1, <2>2, <3>1 DEF OwnerHasSeat
  <2>3. \A i \in 1..n : \A u \in 1..n : users[u].email # NoAdministrator
    BY <1>3, <1>7
  <2> QED BY <1>6, <1>8, <2>2, <2>3 DEF SeatsInv, SeatsWithinLimit
<1> QED BY <1>11, <1>12, <1>13, <1>14, <1>15 DEF TeamInv

\* Every state of the registrations, logins, invitations and removals has the
\* types, and the four parts of the invariant.
THEOREM TeamInvariant == TeamSpec => [](TeamTyped /\ TeamInv)
<1>1. TeamInit => TeamTyped /\ TeamInv
  BY TeamInitKeeps
<1>2. TeamTyped /\ TeamInv /\ [TeamNext]_<<otpVars, regVars, teamVars>> => (TeamTyped /\ TeamInv)'
  BY TeamStepKeeps
<1> QED BY <1>1, <1>2, PTL DEF TeamSpec

\* Two companies of one registration come only from two requests that had both
\* read its data before either deleted it (retrieveRegistrationData).
THEOREM OneCompanyEach == TeamSpec => []OneCompanyPerRegistration
<1>1. TeamTyped /\ TeamInv => OneCompanyPerRegistration
  BY DEF TeamInv, SessionsInv
<1> QED BY <1>1, TeamInvariant, PTL

\* Every company is managed by the platform, and its owner reaches it.
THEOREM CompaniesAreReachable == TeamSpec => []CompaniesReachable
<1>1. ASSUME TeamTyped, TeamInv PROVE CompaniesReachable
  <2> SUFFICES ASSUME NEW i \in 1..Len(companies)
               PROVE  /\ i \in managed \cup crossed
                      /\ i \in users[UserOf(companies[i].phone)].roles \cup raced \cup left
    BY <1>1 DEF CompaniesReachable, TeamTyped, RowsTyped
  <2>1. i \in managed \cup crossed
    BY <1>1 DEF TeamInv, ManagedInv
  <2>2. i \in Lost \/ i \in users[UserIn(users, companies[i].phone)].roles
    BY <1>1 DEF TeamInv, OwnersInv
  <2> QED BY <2>1, <2>2, UserOfIs DEF Lost
<1> QED BY <1>1, TeamInvariant, PTL

\* Where the limit leaves a seat to the owner, no more people get into a company
\* than it allows.
THEOREM SeatsAreWithinLimit == ASSUME OwnerHasSeat PROVE TeamSpec => []SeatsWithinLimit
<1>1. TeamTyped /\ TeamInv => SeatsWithinLimit
  BY DEF TeamInv, SeatsInv
<1> QED BY <1>1, TeamInvariant, PTL
=============================================================================
