---------------------------- MODULE BalanceCache ----------------------------
(***************************************************************************)
(* LedgerQueryService's in-process cache of account balances, the rollup   *)
(* of AccountBalanceService that fills it, and the invalidations           *)
(* FinancialService makes when it posts.                                   *)
(*                                                                         *)
(* Two plugins list the service among their providers, so a process has    *)
(* two instances of it, each with a map of its own: "ledger" answers the   *)
(* dashboard, the ledger viewer and the inventory reconciliation; "credit" *)
(* is FinancialService's, and the only one it invalidates.                 *)
(*                                                                         *)
(* A fill awaits one query per (sub-)account and stores what it summed     *)
(* whenever it finishes.  A posting made inside a caller's transaction     *)
(* invalidates the two accounts it touches BEFORE that transaction         *)
(* commits; one that opens its own transaction invalidates after; the      *)
(* postings of InventoryService never invalidate.  Only the key of an      *)
(* unfiltered query is kept: a filtered query stores an entry nobody reads.*)
(* The substring test of invalidateCache also drops keys of accounts whose *)
(* code extends the given one; dropping more keys is not modelled.         *)
(***************************************************************************)
EXTENDS Integers, FiniteSetsExt

CONSTANTS
    Writers,     \* requests that post
    Readers,     \* requests that query a balance
    Leaves,      \* postable accounts
    Parents,     \* rollup accounts
    Children,    \* the sub-accounts of each parent
    Asked,       \* bound: the accounts whose balance is asked for
    Postings,    \* [dr, cr, by]: accounts moved, and which caller posts
    TTL,         \* CACHE_TTL in ticks
    MaxPosts     \* bound on the postings made

Callers == {"nested", "standalone", "inventory"}

ASSUME CacheAssumption ==
    /\ Leaves \cap Parents = {}
    /\ Children \in [Parents -> SUBSET Leaves]
    /\ Asked \subseteq Leaves \cup Parents
    /\ Postings \subseteq [dr : Leaves, cr : Leaves, by : Callers]
    /\ TTL \in Nat \ {0}
    /\ MaxPosts \in Nat

Accounts == Leaves \cup Parents

Instances == {"credit", "ledger"}

VARIABLES
    books,     \* committed balance of each leaf account, debit - credit
    posts,     \* postings begun
    wpc, posting,
    cache,     \* balanceCache of each instance: balance and age of each key,
               \* age TTL = expired
    rpc, job,  \* a query and its locals: instance, account, leaves left, sum
    overlapped,\* history: fills during which a posting to the account was open
    exposed    \* history: keys of each instance that such a fill stored, or under
               \* which a posting was committed that this instance is not told of

vars == <<books, posts, wpc, posting, cache, rpc, job, overlapped, exposed>>

NoPosting == [by |-> "none"]
NoJob == [at |-> "none", want |-> "none", left |-> {}, sum |-> 0]
Sums == -2 * MaxPosts..2 * MaxPosts

None == [bal |-> 0, age |-> TTL]      \* absent and expired entries read alike

TypeOK ==
    /\ books \in [Leaves -> -MaxPosts..MaxPosts]
    /\ posts \in 0..MaxPosts
    /\ wpc \in [Writers -> {"idle", "posted", "invalidated", "committed"}]
    /\ posting \in [Writers -> Postings \cup {NoPosting}]
    /\ cache \in [Instances -> [Accounts -> [bal : Sums, age : 0..TTL]]]
    /\ rpc \in [Readers -> {"idle", "reading", "answered"}]
    /\ job \in [Readers -> [at : Instances, want : Accounts, left : SUBSET Leaves, sum : Sums]
                           \cup {NoJob}]
    /\ overlapped \in SUBSET Readers
    /\ exposed \in [Instances -> SUBSET Accounts]

Init ==
    /\ books = [a \in Leaves |-> 0]
    /\ posts = 0
    /\ wpc = [w \in Writers |-> "idle"]
    /\ posting = [w \in Writers |-> NoPosting]
    /\ cache = [i \in Instances |-> [a \in Accounts |-> None]]
    /\ rpc = [r \in Readers |-> "idle"]
    /\ job = [r \in Readers |-> NoJob]
    /\ overlapped = {}
    /\ exposed = [i \in Instances |-> {}]
-----------------------------------------------------------------------------
LeavesOf(a) == IF a \in Parents THEN Children[a] ELSE {a}

Touches(p, a) == {p.dr, p.cr} \cap LeavesOf(a) # {}

Fresh(i, a) == cache[i][a].age < TTL

After(p) == [books EXCEPT ![p.dr] = @ + 1, ![p.cr] = @ - 1]

readerVars == <<rpc, job>>

\* PostingService.post inserts the entry; nobody else sees it yet.
Post(w, p) ==
    /\ wpc[w] = "idle" /\ posts < MaxPosts
    /\ posts' = posts + 1
    /\ wpc' = [wpc EXCEPT ![w] = "posted"]
    /\ posting' = [posting EXCEPT ![w] = p]
    /\ overlapped' = overlapped \cup
                       {r \in Readers : rpc[r] = "reading" /\ Touches(p, job[r].want)}
    /\ UNCHANGED <<books, cache, readerVars, exposed>>

Return(w) ==
    /\ wpc' = [wpc EXCEPT ![w] = "idle"]
    /\ posting' = [posting EXCEPT ![w] = NoPosting]

\* Mutant of Invalidate: only the debited account is dropped.
InvalidateDebitOnly(w) ==
    LET p == posting[w]
    IN  /\ \/ wpc[w] = "posted" /\ p.by = "nested"
           \/ wpc[w] = "committed"
        /\ cache' = [cache EXCEPT !["credit"][p.dr] = None]
        /\ exposed' = [exposed EXCEPT !["credit"] = @ \ {p.dr, p.cr}]
        /\ IF wpc[w] = "posted"
           THEN wpc' = [wpc EXCEPT ![w] = "invalidated"] /\ UNCHANGED posting
           ELSE Return(w)
        /\ UNCHANGED <<books, posts, readerVars, overlapped>>

\* FinancialService.record* calls invalidateCache for both accounts, with no
\* await between: in its own instance the keys of those accounts go; a parent's
\* key stays, and so does everything the other instance holds.
Invalidate(w) ==
    LET p == posting[w]
    IN  /\ \/ wpc[w] = "posted" /\ p.by = "nested"
           \/ wpc[w] = "committed"
        /\ cache' = [cache EXCEPT !["credit"] =
                        [a \in Accounts |-> IF a \in {p.dr, p.cr} THEN None ELSE @[a]]]
        /\ exposed' = [exposed EXCEPT !["credit"] = @ \ {p.dr, p.cr}]
        /\ IF wpc[w] = "posted"
           THEN wpc' = [wpc EXCEPT ![w] = "invalidated"] /\ UNCHANGED posting
           ELSE Return(w)
        /\ UNCHANGED <<books, posts, readerVars, overlapped>>

\* The instances that are not told of a posting by this caller.
Untold(by) == IF by = "inventory" THEN Instances ELSE {"ledger"}

\* The transaction commits: the caller's, after the invalidation; post()'s
\* own, before it; or InventoryService's, with none.
Commit(w) ==
    LET by == posting[w].by
    IN  /\ \/ wpc[w] = "invalidated"
           \/ wpc[w] = "posted" /\ by # "nested"
        /\ books' = After(posting[w])
        /\ IF by = "standalone"
           THEN wpc' = [wpc EXCEPT ![w] = "committed"] /\ UNCHANGED posting
           ELSE Return(w)
        /\ exposed' = [i \in Instances |-> IF i \in Untold(by)
                                           THEN exposed[i] \cup {posting[w].dr, posting[w].cr}
                                           ELSE exposed[i]]
        /\ UNCHANGED <<posts, cache, readerVars, overlapped>>

Abort(w) ==
    /\ wpc[w] \in {"posted", "invalidated"}
    /\ Return(w)
    /\ UNCHANGED <<books, posts, cache, readerVars, overlapped, exposed>>

\* Mutant of Hit: a hit renews the entry (a sliding TTL).
HitRenewing(r, i, a) ==
    /\ rpc[r] # "reading" /\ Fresh(i, a)
    /\ rpc' = [rpc EXCEPT ![r] = "answered"]
    /\ cache' = [cache EXCEPT ![i][a].age = 0]
    /\ UNCHANGED <<books, posts, wpc, posting, job, overlapped, exposed>>

\* getAccountBalance, unfiltered: an unexpired entry is the answer.
Hit(r, i, a) ==
    /\ rpc[r] # "reading" /\ Fresh(i, a)
    /\ rpc' = [rpc EXCEPT ![r] = "answered"]
    /\ UNCHANGED <<books, posts, wpc, posting, cache, job, overlapped, exposed>>

\* Otherwise it asks AccountBalanceService...
Miss(r, i, a) ==
    /\ rpc[r] # "reading" /\ ~Fresh(i, a)
    /\ rpc' = [rpc EXCEPT ![r] = "reading"]
    /\ job' = [job EXCEPT ![r] = [at |-> i, want |-> a, left |-> LeavesOf(a), sum |-> 0]]
    /\ overlapped' = IF \E w \in Writers : wpc[w] # "idle" /\ Touches(posting[w], a)
                     THEN overlapped \cup {r} ELSE overlapped
    /\ UNCHANGED <<books, posts, wpc, posting, cache, exposed>>

\* ... which awaits one query per sub-account ...
ReadLeaf(r, l) ==
    /\ rpc[r] = "reading" /\ l \in job[r].left
    /\ job' = [job EXCEPT ![r].sum = @ + books[l], ![r].left = @ \ {l}]
    /\ UNCHANGED <<books, posts, wpc, posting, cache, rpc, overlapped, exposed>>

\* ... and stores the result with the time of storing.
Fill(r) ==
    LET i == job[r].at
        a == job[r].want
    IN  /\ rpc[r] = "reading" /\ job[r].left = {}
        /\ cache' = [cache EXCEPT ![i][a] = [bal |-> job[r].sum, age |-> 0]]
        /\ rpc' = [rpc EXCEPT ![r] = "answered"]
        /\ job' = [job EXCEPT ![r] = NoJob]
        /\ exposed' = [exposed EXCEPT ![i] = IF r \in overlapped THEN @ \cup {a} ELSE @ \ {a}]
        /\ overlapped' = overlapped \ {r}
        /\ UNCHANGED <<books, posts, wpc, posting>>

Tick ==
    /\ \E i \in Instances, a \in Accounts : Fresh(i, a)
    /\ cache' = [i \in Instances |-> [a \in Accounts |->
                    IF cache[i][a].age + 1 < TTL THEN [cache[i][a] EXCEPT !.age = @ + 1]
                                                 ELSE None]]
    /\ UNCHANGED <<books, posts, wpc, posting, readerVars, overlapped, exposed>>

Write(w) == (\E p \in Postings : Post(w, p)) \/ Invalidate(w) \/ Commit(w) \/ Abort(w)
Query(r) == \/ \E i \in Instances, a \in Asked : Hit(r, i, a) \/ Miss(r, i, a)
            \/ \E l \in Leaves : ReadLeaf(r, l)
            \/ Fill(r)

Next == (\E w \in Writers : Write(w)) \/ (\E r \in Readers : Query(r)) \/ Tick

Spec == Init /\ [][Next]_vars

\* Time passes, and a request that has begun runs to its end; nobody is obliged
\* to post or to query.
Fairness ==
    /\ WF_vars(Tick)
    /\ \A w \in Writers : WF_vars(Invalidate(w) \/ Commit(w))
    /\ \A r \in Readers : WF_vars(Fill(r) \/ \E l \in Leaves : ReadLeaf(r, l))

FairSpec == Spec /\ Fairness
-----------------------------------------------------------------------------
(* Properties *)

Balance(a) == MapThenSumSet(LAMBDA l : books[l], LeavesOf(a))

Accurate(i, a) == Fresh(i, a) => cache[i][a].bal = Balance(a)

\* A fresh entry of either instance is wrong only if the fill that stored it
\* overlapped a posting to the account, or if a posting has committed since that
\* its instance is not told of (any at all for "ledger", InventoryService's for
\* "credit"), or, in "credit", if a standalone posting has committed and is about
\* to invalidate it: there an entry stored before FinancialService posts never
\* outlives the posting, nested or standalone.
StaleOnlyByOverlap ==
    \A i \in Instances, a \in Leaves :
        \/ Accurate(i, a)
        \/ a \in exposed[i]
        \/ i = "credit" /\ \E w \in Writers : wpc[w] = "committed" /\ Touches(posting[w], a)

\* Whatever raced, and whether or not the instance is ever told, once postings
\* stop every fresh entry is right again: the TTL runs from the fill, and a hit
\* does not extend it.
CacheHeals == <>[](\A i \in Instances, a \in Accounts : Accurate(i, a))
=============================================================================
