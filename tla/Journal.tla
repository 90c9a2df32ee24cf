------------------------------- MODULE Journal -------------------------------
(***************************************************************************)
(* What the ledger promises its callers: an append-only book of balanced   *)
(* entries in which a business event appears at most once, however often   *)
(* and from however many transactions it is posted.  A transaction's       *)
(* entries appear together or not at all.                                  *)
(***************************************************************************)
CONSTANT Entry         \* every journal entry that may be posted

VARIABLE journal

\* The business event an entry records.
Key(e) == <<e.kind, e.id>>

Fresh(S) ==
    /\ \A e \in S : \A f \in journal : Key(e) # Key(f)
    /\ \A e, f \in S : Key(e) = Key(f) => e = f

Init == journal = {}

\* A committed transaction adds a batch of entries for events not yet posted.
Publish(S) == Fresh(S) /\ journal' = journal \cup S

Next == \E S \in SUBSET Entry : Publish(S)

Spec == Init /\ [][Next]_journal

\* The same without enumerating Entry: what a step adds is what it publishes.
AppendSpec == Init /\ [][journal' \subseteq Entry /\ Publish(journal' \ journal)]_journal
=============================================================================
