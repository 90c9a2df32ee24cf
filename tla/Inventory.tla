------------------------------ MODULE Inventory ------------------------------
(***************************************************************************)
(* InventoryService with its store, costing strategy and expiry policy:    *)
(* cost batches created by purchases and consumed by sales and write-offs, *)
(* the movement audit trail, and the INVENTORY postings of the ledger.     *)
(*                                                                         *)
(* A purchase only inserts, so it is one step.  A sale reads the stock     *)
(* without a lock, then locks, allocates and rewrites batch rows line by   *)
(* line, and others see its writes when it commits: each await at which    *)
(* another transaction can change what it saw is a step.  One stock        *)
(* location of one channel is modelled.                                    *)
(***************************************************************************)
EXTENDS PostingPolicy, Sequences, SequencesExt

CONSTANTS
    Tx,           \* transactions that may consume stock at the same time
    Variants,
    Purchases,    \* [id, credit, lines]: lines of [variant, qty, cost, expiry]
    Issues,       \* [kind, id, lines]: sales ("Order") and write-offs
    Adjustments,  \* [id, lines]: lines of [variant, qty], qty signed
    LastDay,      \* bound on the calendar; expiry 0 = no expiry date
    MaxAttempts   \* how often a caller may run the same sale or write-off

\* createBatch accepts no negative quantity, the validation of a purchase no negative
\* cost; a negative quantity never adds up in allocateCost.
PurchaseLine == [variant : Variants, qty : Nat, cost : Nat, expiry : Nat]
IssueLine    == [variant : Variants, qty : Nat]

ASSUME InventoryAssumption ==
    /\ \A p \in Purchases : p.lines \in Seq(PurchaseLine) /\ p.lines # <<>> /\ p.id \in Id
    /\ \A d \in Issues : /\ d.lines \in Seq(IssueLine) /\ d.lines # <<>> /\ d.id \in Id
                         /\ d.kind \in {"Order", "WriteOff"}
    /\ \A a \in Adjustments : /\ a.lines \in Seq([variant : Variants, qty : Int])
                              /\ a.id \in Id
    /\ LastDay \in Nat \ {0} /\ MaxAttempts \in Nat

VARIABLES
    batches,   \* committed inventory_batch rows, in creation order
    moves,     \* committed inventory_movement rows
    journal,   \* the committed ledger entries of these documents
    today,
    attempts,
    run,       \* what each transaction is doing, or AtRest
    rerun      \* history: a sale or write-off committed a second time

inventoryVars == <<batches, moves, journal, today, attempts, run, rerun>>

AtRest == [stage |-> "idle", locks |-> {}, moves |-> {}]

InventoryInit ==
    /\ batches = <<>>
    /\ moves = {}
    /\ journal = {}
    /\ today = 1
    /\ attempts = [d \in Issues |-> 0]
    /\ run = [t \in Tx |-> AtRest]
    /\ rerun = FALSE
-----------------------------------------------------------------------------
\* createMovement: at most one movement per source (the unique index).
CreateMovement(ms, src, variant, qty) ==
    IF \E m \in ms : m.src = src THEN ms
    ELSE ms \cup {[src |-> src, variant |-> variant, qty |-> qty]}

\* createBatch: an existing movement of the source means the batch exists.
CreateBatch(bs, ms, src, line) ==
    IF \E m \in ms : m.src = src THEN bs
    ELSE Append(bs, [variant |-> line.variant, qty |-> line.qty, cost |-> line.cost,
                     expiry |-> line.expiry, src |-> src])

\* Mutant of Cost: the unit costs are summed, the quantities forgotten.
CostPerUnit(lines) == FoldLeft(LAMBDA s, l : s + l.cost, 0, lines)

Cost(lines) == FoldLeft(LAMBDA s, l : s + l.qty * l.cost, 0, lines)

PostTo(book, kind, id, amount, method) ==
    LET r == [kind |-> kind, id |-> id, party |-> id, amount |-> amount, method |-> method]
    IN  IF \E e \in book : Source(e) = Source(r) THEN book
        ELSE book \cup {EntryOf(r, today)}

\* recordPurchase: batch and movement for each line, then one ledger entry.
RecordPurchase(p) ==
    LET src == <<"Purchase", p.id>>
        Line(s, l) == [bs |-> CreateBatch(s.bs, s.ms, src, l),
                       ms |-> CreateMovement(s.ms, src, l.variant, l.qty)]
        end == FoldLeft(Line, [bs |-> batches, ms |-> moves], p.lines)
    IN  /\ batches' = end.bs
        /\ moves' = end.ms
        /\ journal' = PostTo(journal, "InventoryPurchase", p.id, Cost(p.lines),
                             IF p.credit THEN "credit" ELSE "cash")
        /\ UNCHANGED <<today, attempts, run, rerun>>

\* recordAdjustment: movements only; batches and ledger are not touched.
RecordAdjustment(a) ==
    /\ moves' = FoldLeft(LAMBDA ms, l :
                    CreateMovement(ms, <<"Adjustment", a.id>>, l.variant, l.qty), moves, a.lines)
    /\ UNCHANGED <<batches, journal, today, attempts, run, rerun>>
-----------------------------------------------------------------------------
Line(t) == run[t].doc.lines[run[t].line]
SourceOf(t) == <<run[t].doc.kind, run[t].doc.id>>

\* A batch's quantity as t's queries see it.
Qty(t, i) == IF i \in DOMAIN run[t].own THEN run[t].own[i] ELSE batches[i].qty

Open(t) == {i \in DOMAIN batches : batches[i].variant = Line(t).variant /\ Qty(t, i) > 0}

\* A sum over batches.
Summed(f, S) == MapThenSumSet(LAMBDA i : f[i], S)

SumQty(t, S) == Summed([i \in S |-> Qty(t, i)], S)

\* ORDER BY expiryDate ASC NULLS FIRST, createdAt ASC
Before(i, j) ==
    \/ batches[i].expiry < batches[j].expiry
    \/ batches[i].expiry = batches[j].expiry /\ i < j

\* FifoCostingStrategy.allocateCost: what is taken from open batch i.
TakenFrom(t, i) ==
    LET need == Line(t).qty - SumQty(t, {j \in Open(t) : Before(j, i)})
    IN  IF need <= 0 THEN 0 ELSE IF need < Qty(t, i) THEN need ELSE Qty(t, i)

Expired(i) == batches[i].expiry # 0 /\ batches[i].expiry < today

RollBack(t) ==
    /\ run' = [run EXCEPT ![t] = AtRest]
    /\ UNCHANGED <<batches, moves, journal, today, attempts, rerun>>

FirstStage(d) == IF d.kind = "Order" THEN "verify" ELSE "allocate"

Started(d) ==
    [stage |-> FirstStage(d), doc |-> d, line |-> 1, locks |-> {}, own |-> <<>>,
     moves |-> {}, cost |-> 0]

\* recordSale and recordWriteOff begin.
Begin(t, d) ==
    /\ run[t] = AtRest /\ attempts[d] < MaxAttempts
    /\ attempts' = [attempts EXCEPT ![d] = @ + 1]
    /\ run' = [run EXCEPT ![t] = Started(d)]
    /\ UNCHANGED <<batches, moves, journal, today, rerun>>

\* verifyStockLevel: an unlocked read (sales only).
Verify(t) ==
    /\ run[t].stage = "verify"
    /\ IF SumQty(t, Open(t)) < Line(t).qty
       THEN RollBack(t)
       ELSE /\ run' = [run EXCEPT ![t].stage = "allocate"]
            /\ UNCHANGED <<batches, moves, journal, today, attempts, rerun>>

\* Mutant of Blockers: open batches are read without FOR UPDATE.
BlockersUnlocked(t) ==
    {u \in Tx \ {t} : \E m \in run[u].moves : m.src = SourceOf(t)}

\* Rows another transaction has locked, or inserted under the same source.
Blockers(t) ==
    {u \in Tx \ {t} :
        \/ run[u].locks \cap Open(t) # {}
        \/ \E m \in run[u].moves : m.src = SourceOf(t)}

\* The movement of a line names its first batch.
FirstOf(open) == CHOOSE i \in open : \A j \in open \ {i} : Before(i, j)

\* What t has once it has taken its line: locks, quantities, movement and cost.
WithLine(t) ==
    LET open == Open(t)
        used == {i \in open : TakenFrom(t, i) > 0}
        d    == run[t].doc
        last == run[t].line = Len(d.lines)
    IN  [run[t] EXCEPT
            !.stage = IF last THEN "commit" ELSE FirstStage(d),
            !.line  = IF last THEN @ ELSE @ + 1,
            !.locks = @ \cup open,
            !.own   = [i \in DOMAIN @ \cup used |->
                           Qty(t, i) - IF i \in used THEN TakenFrom(t, i) ELSE 0],
            !.moves = IF used = {} THEN @
                      ELSE CreateMovement(moves \cup @, SourceOf(t), Line(t).variant,
                                          -TakenFrom(t, FirstOf(open))) \ moves,
            !.cost  = @ + Summed([i \in used |-> TakenFrom(t, i) * batches[i].cost], used)]

\* getOpenBatchesForConsumption locks the open batches (FOR UPDATE, waiting for
\* whoever holds one); then the allocation, the expiry check of a sale, the new
\* quantities and the movement, and on to the next line.
Consume(t) ==
    LET open == Open(t)
    IN  /\ run[t].stage = "allocate"
        /\ Blockers(t) = {}
        /\ IF \/ open = {} \/ SumQty(t, open) < Line(t).qty
              \/ /\ run[t].doc.kind = "Order"
                 /\ \E i \in open : TakenFrom(t, i) > 0 /\ Expired(i)
           THEN RollBack(t)
           ELSE /\ run' = [run EXCEPT ![t] = WithLine(t)]
                /\ UNCHANGED <<batches, moves, journal, today, attempts, rerun>>

\* The COGS or write-off entry is posted and the transaction commits.
Commit(t) ==
    LET d == run[t].doc
    IN  /\ run[t].stage = "commit"
        /\ batches' = [i \in DOMAIN batches |-> [batches[i] EXCEPT !.qty = Qty(t, i)]]
        /\ moves' = moves \cup run[t].moves
        /\ journal' = PostTo(journal, IF d.kind = "Order" THEN "InventorySaleCogs"
                                      ELSE "InventoryWriteOff", d.id, run[t].cost, "other")
        /\ run' = [run EXCEPT ![t] = AtRest]
        /\ rerun' = (rerun \/ journal' = journal)
        /\ UNCHANGED <<today, attempts>>

\* A later failure in the caller, or the victim of a database deadlock.
Abort(t) == run[t] # AtRest /\ RollBack(t)

NextDay ==
    /\ today < LastDay /\ today' = today + 1
    /\ UNCHANGED <<batches, moves, journal, attempts, run, rerun>>

InventoryNext ==
    \/ \E p \in Purchases : RecordPurchase(p)
    \/ \E a \in Adjustments : RecordAdjustment(a)
    \/ \E t \in Tx : \/ \E d \in Issues : Begin(t, d)
                     \/ Verify(t) \/ Consume(t) \/ Commit(t) \/ Abort(t)
    \/ NextDay

InventorySpec == InventoryInit /\ [][InventoryNext]_inventoryVars
-----------------------------------------------------------------------------
(* Properties *)

TypeOK ==
    /\ \A i \in DOMAIN batches : batches[i].variant \in Variants /\ batches[i].qty \in Nat
    /\ \A m \in moves : m.variant \in Variants /\ m.qty \in Int
    /\ \A e \in journal : e.kind \in Kinds /\ e.amount \in Nat
    /\ today \in 1..LastDay
    /\ attempts \in [Issues -> 0..MaxAttempts]
    /\ rerun \in BOOLEAN
    /\ \A t \in Tx : run[t].stage \in {"idle", "verify", "allocate", "commit"}
    /\ \A t \in Tx : run[t].stage # "idle" => \A i \in DOMAIN run[t].own : run[t].own[i] \in Nat

Valuation == Summed([i \in DOMAIN batches |-> batches[i].qty * batches[i].cost], DOMAIN batches)

LedgerInventory == Total({e \in journal : e.dr = "INVENTORY"})
                     - Total({e \in journal : e.cr = "INVENTORY"})

\* The value of the open batches is the balance of the INVENTORY account,
\* whatever sales and write-offs interleave or fail and are tried again (what
\* the valuation reconciliation compares), as long as purchases have one line
\* and no document commits twice: a second commit takes stock again and finds
\* its ledger entry already there.
ValuationMatchesLedger == ~rerun => Valuation = LedgerInventory

\* Two transactions never both rewrite a batch: the row lock is exclusive from
\* the read the new quantity is computed from until the commit, so no sale's
\* consumption is lost.
NoLostUpdate ==
    \A t, u \in Tx : t # u /\ run[t] # AtRest /\ run[u] # AtRest =>
        DOMAIN run[t].own \cap DOMAIN run[u].own = {}
=============================================================================
