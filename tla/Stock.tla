-------------------------------- MODULE Stock --------------------------------
(***************************************************************************)
(* StockManagementService: purchases and stock adjustments, submitted from *)
(* the browser of Drafts or from another client, each in a database        *)
(* transaction that moves the stock level line by line under row locks.    *)
(* (What a purchase posts is in Ledger.  Its shadow recording needs an     *)
(* InventoryService, which no plugin gives the service: it does not run.)  *)
(*                                                                         *)
(* adjustStockLevel locks the row of the variant, and then, with a join,   *)
(* the rows of the stock level, of the variant and of the stock location,  *)
(* when there is such a stock level.  One location.  Vendure, external,    *)
(* takes sold goods off the stock level by a read and a write.             *)
(***************************************************************************)
EXTENDS Drafts, SequencesExt

CONSTANTS
    Location,    \* the stock location, as a row
    MaxDocs,     \* bound on the documents submitted
    MaxSold,     \* bound on the goods sold
    FirstLevel,  \* the stock levels at the start; NoRow where there is none
    Counted,     \* the variants whose stock is counted
    Elsewhere    \* the line lists another client may submit

NoRow == -1

\* The stock a level stands for.
Units(n) == IF n = NoRow THEN 0 ELSE n

SumAt(f, S) == MapThenSumSet(LAMBDA x : f[x], S)

ASSUME StockAssumption ==
    /\ IsFiniteSet(Variant) /\ MaxDocs \in Nat /\ MaxSold \in Nat
    /\ FirstLevel \in [Variant -> Nat \cup {NoRow}]
    /\ Counted \subseteq Variant /\ Elsewhere \subseteq Seq(DraftLine)

VARIABLES
    level,    \* committed stock levels
    docs,     \* what became of each document submitted
    sale,     \* the sale Vendure is taking off a stock level
    sold,     \* history: what was sold of each variant
    lost      \* history: variants of which such a sale overwrote a change

stockVars == <<level, docs, sale, sold, lost>>
vars == <<draftVars, stockVars>>

\* moves are the stock movements made so far, as the audit log and the lines of
\* an adjustment keep them.
Doc == [draft : Nat, kind : DocKinds, lines : Seq(DraftLine),
        at : {"variant", "level", "commit", "recorded", "failed"},
        moves : Seq([previous : Nat, new : Nat]), held : SUBSET (Variant \cup {Location})]

Running(d)  == docs[d].at \in {"variant", "level", "commit"}
Answered(d) == ~Running(d)

NoSale == [v |-> Location, read |-> 0]

Init ==
    /\ DraftInit
    /\ level = FirstLevel /\ docs = <<>>
    /\ sale = NoSale /\ sold = [v \in Variant |-> 0] /\ lost = {}
-----------------------------------------------------------------------------
(* recordPurchase and recordStockAdjustment, up to the loop over the lines *)

NewDoc(from, kind, lines) ==
    docs' = Append(docs, [draft |-> from, kind |-> kind, lines |-> lines,
                          at |-> "variant", moves |-> <<>>, held |-> {}])

\* From the browser.
SubmitDraft ==
    /\ Len(docs) < MaxDocs
    /\ Submit(Len(docs) + 1)
    /\ NewDoc(draft.n, draft.kind, draft.lines)
    /\ UNCHANGED <<level, sale, sold, lost>>

\* From another client of the API.
SubmitElsewhere(kind, lines) ==
    /\ Len(docs) < MaxDocs
    /\ ValidLines(kind, lines)
    /\ NewDoc(0, kind, lines)
    /\ UNCHANGED <<draftVars, level, sale, sold, lost>>
-----------------------------------------------------------------------------
(* adjustStockLevel, for the next line of the document *)

Pos(d)  == Len(docs[d].moves) + 1
NextLine(d) == docs[d].lines[Pos(d)]

HeldByOthers(d) == UNION {docs[e].held : e \in DOMAIN docs \ {d}}

UnchangedButDocs == UNCHANGED <<draftVars, level, sale, sold, lost>>

\* Mutant of LockVariant: the variant is not locked first.
LockVariantNever(d) ==
    /\ docs[d].at = "variant"
    /\ docs' = [docs EXCEPT ![d].at = "level"]
    /\ UnchangedButDocs

\* SELECT ... FOR UPDATE of the variant.
LockVariant(d) ==
    /\ docs[d].at = "variant" /\ NextLine(d).v \notin HeldByOthers(d)
    /\ docs' = [docs EXCEPT ![d].held = @ \cup {NextLine(d).v}, ![d].at = "level"]
    /\ UnchangedButDocs

\* Mutant of RollBack: the transaction is left open with its locks.
RollBackNotReleased(d) == docs' = [docs EXCEPT ![d].at = "failed"]

\* Everything the transaction did is undone, and its locks are released.
RollBack(d) == docs' = [docs EXCEPT ![d].at = "failed", ![d].held = {}]

\* The level of a variant as document d sees it, which sees its own changes.
MovedTo(d, v) ==
    LET of == {i \in DOMAIN docs[d].moves : docs[d].lines[i].v = v}
    IN  IF of = {} THEN level[v] ELSE docs[d].moves[Max(of)].new

\* What the second query locks: nothing when there is no row to join.
LevelLocks(d) ==
    IF MovedTo(d, NextLine(d).v) = NoRow THEN {} ELSE {NextLine(d).v, Location}

\* Where the loop goes after a line.
AfterLine(d) == IF Pos(d) < Len(docs[d].lines) THEN "variant" ELSE "commit"

\* The level is read under its lock and saved, unless it would fall below zero.
MoveStock(d) ==
    LET previous == Units(MovedTo(d, NextLine(d).v))
        new == previous + NextLine(d).qty
    IN  /\ docs[d].at = "level" /\ LevelLocks(d) \cap HeldByOthers(d) = {}
        /\ IF new < 0
           THEN RollBack(d)
           ELSE docs' = [docs EXCEPT ![d].held = @ \cup LevelLocks(d), ![d].at = AfterLine(d),
                             ![d].moves = Append(@, [previous |-> previous, new |-> new])]
        /\ UnchangedButDocs

\* What document d waits for, and who holds it.
Waiting(d) ==
    LET wanted == CASE docs[d].at = "variant" -> {NextLine(d).v}
                    [] docs[d].at = "level"   -> LevelLocks(d)
                    [] OTHER -> {}
    IN  {e \in DOMAIN docs \ {d} : docs[e].held \cap wanted # {}}

\* The database finds a cycle of waiting transactions and aborts one of them.
BreakDeadlock(d) ==
    /\ \E S \in SUBSET DOMAIN docs : d \in S /\ \A e \in S : Waiting(e) \cap S # {}
    /\ RollBack(d) /\ UnchangedButDocs

\* Any other error before the commit: a supplier or a variant that is not found,
\* no credit, a posting that is refused, the record or its audit event.
FailDocument(d) ==
    /\ Running(d)
    /\ RollBack(d) /\ UnchangedButDocs

Commit(d) ==
    /\ docs[d].at = "commit"
    /\ docs' = [docs EXCEPT ![d].held = {}, ![d].at = "recorded"]
    /\ level' = [v \in Variant |-> MovedTo(d, v)]
    /\ UNCHANGED <<draftVars, sale, sold, lost>>
-----------------------------------------------------------------------------
(* The browser hears, and Vendure sells *)

Hear ==
    /\ loading # 0 /\ Answered(loading)
    /\ IF docs[loading].at = "failed" THEN HearFailed ELSE HearRecorded(docs[loading].kind)
    /\ UNCHANGED stockVars

\* The level is read without a lock ...
SaleReads(v) ==
    /\ sale = NoSale /\ level[v] > 0 /\ SumAt(sold, Variant) < MaxSold
    /\ sale' = [v |-> v, read |-> level[v]]
    /\ UNCHANGED <<draftVars, level, docs, sold, lost>>

\* ... and written, one less, once no document holds the row.
SaleWrites ==
    LET v == sale.v
    IN  /\ sale # NoSale
        /\ \A d \in DOMAIN docs : \A i \in DOMAIN docs[d].moves :
              Running(d) => docs[d].lines[i].v # v
        /\ level' = [level EXCEPT ![v] = sale.read - 1]
        /\ lost'  = IF level[v] # sale.read THEN lost \cup {v} ELSE lost
        /\ sold'  = [sold EXCEPT ![v] = @ + 1]
        /\ sale'  = NoSale
        /\ UNCHANGED <<draftVars, docs>>

\* Bound: no draft is edited that can no longer be submitted or cleared.
MayEdit == loading # 0 \/ Len(docs) < MaxDocs

Edit ==
    \/ \E kind \in DocKinds : NewDraft(kind)
    \/ \E v \in Variant, q \in 1..MaxQty : AddPurchased(v, q)
    \/ \E v \in Counted, c \in 0..MaxQty :
          AddCounted(v, c, Units(level[v]))
    \/ \E i \in DOMAIN draft.lines : RemoveLine(i) \/ \E q \in 1..MaxQty : SetQuantity(i, q)
    \/ \E i \in DOMAIN draft.lines : SetChange(i, -1)    \* Bound: one unit is missing

Work(d) ==
    \/ LockVariant(d) \/ MoveStock(d) \/ BreakDeadlock(d) \/ FailDocument(d) \/ Commit(d)

Next ==
    \/ MayEdit /\ Edit /\ UNCHANGED stockVars
    \/ (LoseAnswer \/ Reload \/ TimerFires) /\ UNCHANGED stockVars
    \/ SubmitDraft
    \/ \E kind \in DocKinds, lines \in Elsewhere : SubmitElsewhere(kind, lines)
    \/ \E d \in DOMAIN docs : Work(d)
    \/ Hear
    \/ \E v \in Variant : SaleReads(v)
    \/ SaleWrites

\* The requests are promises on the event loop, and the database grants a lock
\* that is free and breaks cycles; no error is ever due.
Progress(d) ==
    d \in DOMAIN docs /\ (LockVariant(d) \/ MoveStock(d) \/ BreakDeadlock(d) \/ Commit(d))

Spec == Init /\ [][Next]_vars /\ \A d \in 1..MaxDocs : WF_vars(Progress(d))
-----------------------------------------------------------------------------
(* Properties *)

TypeOK ==
    /\ DraftTypeOK /\ loading <= Len(docs)
    /\ level \in [Variant -> Nat \cup {NoRow}]
    /\ \A d \in DOMAIN docs : docs[d] \in Doc
    /\ lost \subseteq Variant

Recorded == {d \in DOMAIN docs : docs[d].at = "recorded"}

\* What lines ask of a variant, and what the recorded documents did.
Change(lines, v) == SumAt([i \in DOMAIN lines |-> lines[i].qty],
                          {i \in DOMAIN lines : lines[i].v = v})
Moved(v) == SumAt([d \in DOMAIN docs |-> Change(docs[d].lines, v)], Recorded)

\* Every stock level is what the recorded documents and the sales make of the
\* first one, however the documents interleave; a sale of Vendure that read the
\* level before a document changed it is what may lose a change.
LevelExplained ==
    \A v \in Variant \ lost :
        Units(level[v]) = Units(FirstLevel[v]) + Moved(v) - sold[v]

\* An adjustment leaves the stock that was counted, if the stock is still what
\* the page showed when it was counted and the variant was counted once: the
\* page sends the difference, through a draft that outlives reloads.
CountReached ==
    \A d \in Recorded : docs[d].kind = "adjustment" /\ docs[d].draft # 0 =>
        \A i \in DOMAIN docs[d].lines :
            LET line == docs[d].lines[i] move == docs[d].moves[i]
            IN  line.times = 1 /\ line.seen = move.previous => move.new = line.count

\* A draft is recorded once, unless the page stopped waiting for the first
\* answer; and a draft that is gone from the browser was recorded, unless it was
\* edited while an answer was awaited (the answer clears it whatever it holds) or
\* begun within the three seconds of the timer that replaces it.
RecordedOnce ==
    /\ \A d, e \in Recorded :
          d < e /\ docs[d].draft = docs[e].draft /\ docs[d].draft # 0 => d \in gaveUp
    /\ \A n \in (1..drafts) \ ({draft.n} \cup hasty) :
          \E d \in Recorded : docs[d].draft = n

\* Every document that is submitted is answered: documents that lock the rows of
\* each other's lines, or the location, do not wait for ever.
EveryDocumentEnds ==
    \A d \in 1..MaxDocs : d \in DOMAIN docs ~> (d \in DOMAIN docs /\ Answered(d))
=============================================================================
