-------------------------------- MODULE Drafts --------------------------------
(***************************************************************************)
(* The draft of a purchase or of a stock adjustment in the browser: the    *)
(* DraftBaseService with its two subclasses, and the services that submit  *)
(* a draft and clear it when it was recorded.                              *)
(*                                                                         *)
(* Every edit persists the draft, so a reload restores it; what a reload   *)
(* forgets is the loading flag, which keeps the submit button disabled.    *)
(* Nothing else on the page is disabled: the lines can be edited while the *)
(* answer is awaited, and a timer started by the answer replaces the draft *)
(* of the adjustment page.  One draft at a time, of either page.           *)
(***************************************************************************)
EXTENDS Integers, Sequences, FiniteSets

CONSTANTS
    Variant,     \* product variants
    MaxQty,      \* bound on quantities and on counted stock
    MaxDrafts    \* bound on the drafts started

ASSUME DraftsAssumption == MaxQty \in Nat \ {0} /\ MaxDrafts \in Nat

DocKinds == {"purchase", "adjustment"}

\* A line: qty is the quantity bought, or the change that is sent.  For an
\* adjustment, count is the new stock the user entered and seen the stock it was
\* computed from; times is a history: how often the variant was added.
DraftLine == [v : Variant, qty : Int, count : Int, seen : Int, times : Nat]

NoDraft == [kind |-> "none", lines |-> <<>>, n |-> 0]

VARIABLES
    draft,    \* the draft signal, and its copy in local storage
    drafts,   \* history: how many drafts were started
    loading,  \* the document whose answer the page awaits, 0 for none
    timer,    \* an adjustment was recorded: a new draft follows in three seconds
    gaveUp,   \* history: documents whose answer it stopped waiting for
    hasty     \* history: drafts edited while an answer was awaited, or begun
              \* while an answer was awaited or the timer ran

draftVars == <<draft, drafts, loading, timer, gaveUp, hasty>>

DraftInit ==
    /\ draft = NoDraft /\ drafts = 0 /\ loading = 0 /\ timer = FALSE
    /\ gaveUp = {} /\ hasty = {}
-----------------------------------------------------------------------------
LineOf(v) == {i \in DOMAIN draft.lines : draft.lines[i].v = v}

SetLines(lines) ==
    /\ draft' = [draft EXCEPT !.lines = lines]
    /\ hasty' = IF loading # 0 THEN hasty \cup {draft.n} ELSE hasty
    /\ UNCHANGED <<drafts, loading, timer, gaveUp>>

\* createNewDraft: an empty draft, whatever there is.
Create(kind, ishasty) ==
    /\ drafts < MaxDrafts
    /\ draft'  = [kind |-> kind, lines |-> <<>>, n |-> drafts + 1]
    /\ drafts' = drafts + 1
    /\ hasty'  = IF ishasty THEN hasty \cup {drafts + 1} ELSE hasty

\* initialize, when one of the two pages is opened and nothing is in local storage.
NewDraft(kind) ==
    /\ draft = NoDraft /\ Create(kind, timer)
    /\ UNCHANGED <<loading, timer, gaveUp>>

\* The timer of the adjustment page, which also runs after the page was left: the
\* draft of an adjustment that was begun meanwhile is replaced.
TimerFires ==
    /\ timer /\ timer' = FALSE
    /\ IF draft.kind = "purchase" THEN UNCHANGED <<draft, drafts, hasty>>
       ELSE Create("adjustment", loading # 0)
    /\ UNCHANGED <<loading, gaveUp>>

\* addLineItem adds to the quantity (or change) of the variant's line; all else
\* that the line shows stays as it was.
AddLine(v, qty, count, seen) ==
    SetLines(IF LineOf(v) = {}
             THEN Append(draft.lines,
                    [v |-> v, qty |-> qty, count |-> count, seen |-> seen, times |-> 1])
             ELSE [i \in DOMAIN draft.lines |->
                     IF draft.lines[i].v = v
                     THEN [draft.lines[i] EXCEPT !.qty = @ + qty, !.times = @ + 1]
                     ELSE draft.lines[i]])

\* handleAddLineItem of the purchase page.
AddPurchased(v, qty) ==
    /\ draft.kind = "purchase"
    /\ \A i \in LineOf(v) : draft.lines[i].qty + qty <= MaxQty
    /\ AddLine(v, qty, 0, 0)

\* Mutant of AddCounted: the count itself is sent as the change.
AddCountedAsChange(v, count, stock) ==
    /\ draft.kind = "adjustment"
    /\ \A i \in LineOf(v) : draft.lines[i].times = 1
    /\ AddLine(v, count, count, stock)

\* handleProductSelect reads the stock, the user enters what was counted, and
\* handleAddLineItem sends the difference (Bound: a variant is added twice).
AddCounted(v, count, stock) ==
    /\ draft.kind = "adjustment"
    /\ \A i \in LineOf(v) : draft.lines[i].times = 1
    /\ AddLine(v, count - stock, count, stock)

RemoveLine(i) ==
    /\ i \in DOMAIN draft.lines
    /\ SetLines(SubSeq(draft.lines, 1, i - 1) \o SubSeq(draft.lines, i + 1, Len(draft.lines)))

\* handleUpdateLineItem of the adjustment page: the change is edited, and the
\* stock shown follows it.
SetChange(i, change) ==
    /\ draft.kind = "adjustment" /\ i \in DOMAIN draft.lines /\ draft.lines[i].qty # change
    /\ SetLines([draft.lines EXCEPT ![i].qty = change, ![i].count = draft.lines[i].seen + change,
                                    ![i].times = 1])

\* updateLineItem of the purchase page.
SetQuantity(i, qty) ==
    /\ draft.kind = "purchase" /\ i \in DOMAIN draft.lines /\ draft.lines[i].qty # qty
    /\ SetLines([draft.lines EXCEPT ![i].qty = qty])
-----------------------------------------------------------------------------
\* What the page and the server ask of the lines of a document.
ValidLines(kind, lines) ==
    /\ lines # <<>>
    /\ \A i \in DOMAIN lines :
          IF kind = "purchase" THEN lines[i].qty > 0 ELSE lines[i].qty # 0

\* Mutant of Submittable: the button stays enabled while loading.
SubmittableTwice == ValidLines(draft.kind, draft.lines)

\* validateDraft of the two services, and the submit button.
Submittable == loading = 0 /\ ValidLines(draft.kind, draft.lines)

\* submitPurchase, submitStockAdjustment: d is the document that is requested.
Submit(d) ==
    /\ Submittable
    /\ loading' = d
    /\ UNCHANGED <<draft, drafts, timer, gaveUp, hasty>>

\* The answer says recorded: the draft is cleared, whatever it holds by now, and
\* the adjustment page starts its timer.
HearRecorded(kind) ==
    /\ draft' = NoDraft /\ loading' = 0
    /\ timer' = (timer \/ kind = "adjustment")
    /\ UNCHANGED <<drafts, gaveUp, hasty>>

HearFailed ==
    /\ loading' = 0
    /\ UNCHANGED <<draft, drafts, timer, gaveUp, hasty>>

\* The connection breaks: loading ends, the draft stays.
LoseAnswer ==
    /\ loading # 0 /\ loading' = 0 /\ gaveUp' = gaveUp \cup {loading}
    /\ UNCHANGED <<draft, drafts, timer, hasty>>

\* The page is reloaded: loading and the timer end, the draft is restored.
Reload ==
    /\ loading # 0 \/ timer
    /\ loading' = 0 /\ timer' = FALSE /\ gaveUp' = gaveUp \cup ({loading} \ {0})
    /\ UNCHANGED <<draft, drafts, hasty>>

DraftTypeOK ==
    /\ draft.kind \in DocKinds \cup {"none"} /\ draft.n \in 0..MaxDrafts
    /\ \A i \in DOMAIN draft.lines : draft.lines[i] \in DraftLine
    /\ drafts \in 0..MaxDrafts /\ loading \in Nat /\ timer \in BOOLEAN
    /\ hasty \subseteq 1..drafts
=============================================================================
