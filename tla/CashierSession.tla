--------------------------- MODULE CashierSession ---------------------------
(***************************************************************************)
(* CashierSessionService: the cashier sessions of one channel and their    *)
(* blind cash counts.                                                      *)
(*                                                                         *)
(* None of the mutations of period-management.resolver.ts runs in a        *)
(* database transaction, so every save is visible at once, a failure keeps *)
(* what was saved before it, and two requests interleave at each await: a  *)
(* request is a job that moves from one read or save to the next.  The     *)
(* channel keeps requireOpeningCount at its default, TRUE.                 *)
(***************************************************************************)
EXTENDS Integers, FiniteSets

CONSTANTS
    Reqs,      \* requests that may be in flight at the same time
    Sessions,  \* ids of session rows
    Floats,    \* opening floats
    Amounts,   \* amounts a cashier declares and a customer pays
    MaxCash,   \* bound on the cash taken in a run
    LastDay,   \* bound on the calendar
    MaxCounts  \* bound on the counts, after which no count is asked for

ASSUME CashierAssumption ==
    /\ Floats \subseteq Amounts /\ Amounts \subseteq Nat
    /\ MaxCash \in Nat /\ MaxCounts \in Nat /\ LastDay \in Nat \ {0}

VARIABLES
    session,  \* cashier_session rows
    counts,   \* cash_drawer_count rows
    cash,     \* CASH_ON_HAND by the cashierSessionId its journal lines carry
    taken,    \* history: cash received while the session was open
    today,
    job,      \* the locals of each request
    doubled   \* history: sessions two overlapping requests started, or closed

tillVars == <<session, counts, cash, taken, today, job, doubled>>

Untagged == "untagged"
None == [status |-> "none", float |-> 0, declared |-> 0, opened |-> 0, closed |-> 0]
Idle == [at |-> "idle", s |-> Untagged, amount |-> 0]

Day == 1..LastDay
Status(s) == session[s].status

TypeOK ==
    /\ session \in [Sessions -> [status : {"none", "open", "closed"}, float : Amounts \cup {0},
                                 declared : Amounts \cup {0}, opened : 0..LastDay,
                                 closed : 0..LastDay]]
    /\ \A c \in counts : c.s \in Sessions /\ c.type \in {"opening", "interim", "closing"}
                           /\ c.declared \in Amounts /\ c.expected \in Nat /\ c.taken \in Nat
    /\ cash \in [Sessions \cup {Untagged} -> 0..MaxCash]
    /\ taken \in [Sessions -> 0..MaxCash]
    /\ today \in Day
    /\ job \in [Reqs -> [at : {"idle", "start", "opening", "closing", "close"},
                         s : Sessions \cup {Untagged}, amount : Amounts \cup {0}]]
    /\ doubled \in SUBSET Sessions

Init ==
    /\ session = [s \in Sessions |-> None]
    /\ counts = {}
    /\ cash = [x \in Sessions \cup {Untagged} |-> 0]
    /\ taken = [s \in Sessions |-> 0]
    /\ today = 1
    /\ job = [r \in Reqs |-> Idle]
    /\ doubled = {}
-----------------------------------------------------------------------------
\* calculateExpectedCash: opening float plus the lines tagged with the session.
ExpectedCash(s) == session[s].float + cash[s]

\* recordCashCount: whatever the status of the session.
CountOf(s, type, declared) ==
    [s |-> s, type |-> type, declared |-> declared, expected |-> ExpectedCash(s),
     taken |-> taken[s]]

Goto(r, at) == job' = [job EXCEPT ![r].at = at]
Finish(r) == job' = [job EXCEPT ![r] = Idle]

\* Mutant of Start: the open session is not looked for.
StartUnchecked(r, float) ==
    /\ job[r] = Idle
    /\ job' = [job EXCEPT ![r] = [at |-> "start", s |-> Untagged, amount |-> float]]
    /\ UNCHANGED <<session, counts, cash, taken, today, doubled>>

\* startSession: no open session was found...
Start(r, float) ==
    /\ job[r] = Idle
    /\ \A s \in Sessions : Status(s) # "open"
    /\ job' = [job EXCEPT ![r] = [at |-> "start", s |-> Untagged, amount |-> float]]
    /\ UNCHANGED <<session, counts, cash, taken, today, doubled>>

\* ... so the row is saved ...
SaveSession(r, s) ==
    /\ job[r].at = "start" /\ Status(s) = "none"
    /\ session' = [session EXCEPT ![s] =
          [None EXCEPT !.status = "open", !.float = job[r].amount, !.opened = today]]
    /\ job' = [job EXCEPT ![r].at = "opening", ![r].s = s]
    /\ doubled' = IF \E q \in Reqs \ {r} : job[q].at = "start" THEN doubled \cup {s} ELSE doubled
    /\ UNCHANGED <<counts, cash, taken, today>>

\* ... and then the opening count.
SaveOpeningCount(r) ==
    /\ job[r].at = "opening"
    /\ counts' = counts \cup {CountOf(job[r].s, "opening", job[r].amount)}
    /\ Finish(r)
    /\ UNCHANGED <<session, cash, taken, today, doubled>>

\* Mutant of Close: a closed session may be closed again.
CloseAgain(r, s, declared) ==
    /\ job[r] = Idle /\ Status(s) # "none" /\ Cardinality(counts) < MaxCounts
    /\ job' = [job EXCEPT ![r] = [at |-> "closing", s |-> s, amount |-> declared]]
    /\ UNCHANGED <<session, counts, cash, taken, today, doubled>>

\* Mutant of Close: the row is saved without a closing count.
CloseUncounted(r, s, declared) ==
    /\ job[r] = Idle /\ Status(s) = "open" /\ Cardinality(counts) < MaxCounts
    /\ job' = [job EXCEPT ![r] = [at |-> "close", s |-> s, amount |-> declared]]
    /\ UNCHANGED <<session, counts, cash, taken, today, doubled>>

\* closeSession: the session was read and is not closed...
Close(r, s, declared) ==
    /\ job[r] = Idle /\ Status(s) = "open" /\ Cardinality(counts) < MaxCounts
    /\ job' = [job EXCEPT ![r] = [at |-> "closing", s |-> s, amount |-> declared]]
    /\ doubled' = IF \E q \in Reqs : job[q].at \in {"closing", "close"} /\ job[q].s = s
                  THEN doubled \cup {s} ELSE doubled
    /\ UNCHANGED <<session, counts, cash, taken, today>>

\* ... the closing count is saved ...
SaveClosingCount(r) ==
    /\ job[r].at = "closing"
    /\ counts' = counts \cup {CountOf(job[r].s, "closing", job[r].amount)}
    /\ Goto(r, "close")
    /\ UNCHANGED <<session, cash, taken, today, doubled>>

\* ... and the row as it was read, now closed, is saved over what is there.
SaveClosed(r) ==
    LET s == job[r].s
    IN  /\ job[r].at = "close"
        /\ session' = [session EXCEPT ![s].status = "closed", ![s].closed = today,
                                      ![s].declared = job[r].amount]
        /\ Finish(r)
        /\ UNCHANGED <<counts, cash, taken, today, doubled>>

\* A query fails or the process stops: earlier saves stay.
Fail(r) ==
    /\ job[r] # Idle
    /\ Finish(r)
    /\ UNCHANGED <<session, counts, cash, taken, today, doubled>>

InterimCount(s, declared) ==
    /\ Status(s) # "none" /\ Cardinality(counts) < MaxCounts
    /\ counts' = counts \cup {CountOf(s, "interim", declared)}
    /\ UNCHANGED <<session, cash, taken, today, job, doubled>>

\* A cash payment is settled: FinancialService.recordPayment builds a posting
\* context that names no session, so the line carries no cashierSessionId.
RecordPayment(amount) ==
    /\ amount > 0 /\ cash[Untagged] + amount <= MaxCash
    /\ cash' = [cash EXCEPT ![Untagged] = @ + amount]
    /\ taken' = [s \in Sessions |-> IF Status(s) = "open" THEN taken[s] + amount ELSE taken[s]]
    /\ UNCHANGED <<session, counts, today, job, doubled>>

NextDay ==
    /\ today < LastDay /\ today' = today + 1
    /\ UNCHANGED <<session, counts, cash, taken, job, doubled>>

Handle(r) ==
    \/ \E f \in Floats : Start(r, f)
    \/ \E s \in Sessions : SaveSession(r, s) \/ \E a \in Amounts : Close(r, s, a)
    \/ SaveOpeningCount(r) \/ SaveClosingCount(r) \/ SaveClosed(r) \/ Fail(r)

Next ==
    \/ \E r \in Reqs : Handle(r)
    \/ \E s \in Sessions, a \in Amounts : InterimCount(s, a)
    \/ \E a \in Amounts : RecordPayment(a)
    \/ NextDay

Spec == Init /\ [][Next]_tillVars
-----------------------------------------------------------------------------
(* Properties *)

\* The declaration of a closed session is backed by a closing count that says
\* the same, wherever a close failed and however two closes interleaved:
\* closeSession saves the count before the row.
ClosedHasItsCount ==
    \A s \in Sessions : Status(s) = "closed" =>
        \E c \in counts : c.s = s /\ c.type = "closing" /\ c.declared = session[s].declared

\* "Only one session can be open per channel", unless one of the two was saved
\* while another start was under way: startSession looks for an open session
\* and saves its own in two steps.
OneOpenSession ==
    \A s, u \in Sessions : Status(s) = "open" /\ Status(u) = "open" /\ s # u
                              => {s, u} \cap doubled # {}

\* A closed session is not closed again, so its declaration and closing day
\* stay, unless two closes of it overlapped.
ClosedIsFinal ==
    [][\A s \in Sessions \ doubled : Status(s) = "closed" => session'[s] = session[s]]_tillVars
=============================================================================
