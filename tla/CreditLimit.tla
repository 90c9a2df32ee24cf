----------------------------- MODULE CreditLimit -----------------------------
(***************************************************************************)
(* Selling and buying on credit: the approval and limit that CreditService *)
(* and SupplierCreditService keep on a customer or supplier, and the two   *)
(* checks that createOrder and recordPurchase make against the ledger      *)
(* balance before they post.  The balance is read on a connection outside  *)
(* the transaction, so only committed postings count.  Amounts are in one  *)
(* unit here; the code divides cents by 100 on both sides.                 *)
(*                                                                         *)
(* A party's custom fields are loaded, changed and saved as one object, by *)
(* the approval and limit mutations and by the tracking of a repayment.    *)
(***************************************************************************)
EXTENDS Integers, FiniteSets

CONSTANTS
    Tx,         \* orders and purchases that may be in progress together
    Editors,    \* requests that edit a party's fields
    Parties,
    Suppliers,  \* the parties whose balance is in accounts payable
    Totals,     \* order and purchase totals, and amounts repaid
    Limits,     \* credit limits an editor may set
    MaxDebt     \* bound on the balance of a party

ASSUME CreditAssumption ==
    /\ Suppliers \subseteq Parties /\ Tx \cap Editors = {}
    /\ Totals \subseteq Nat \ {0} /\ Limits \subseteq Nat /\ MaxDebt \in Nat

VARIABLES
    fields,   \* approved and limit of each party, as committed
    debt,     \* committed balance: what a customer owes, what a supplier is owed
    tx, edit, \* the locals of each order and each edit
    stale     \* history: those whose read of a party another has since changed

creditVars == <<fields, debt, tx, edit, stale>>

Fields == [approved : BOOLEAN, limit : Limits \cup {0}]
NoTx == [at |-> "idle"]
NoEdit == [op |-> "none"]

CreditTypeOK ==
    /\ fields \in [Parties -> Fields]
    /\ debt \in [Parties -> 0..MaxDebt]
    /\ \A t \in Tx : tx[t] = NoTx \/ /\ tx[t].at \in {"limit", "post"}
                                     /\ tx[t].party \in Parties /\ tx[t].total \in Totals
    /\ \A e \in Editors : edit[e] = NoEdit \/ /\ edit[e].party \in Parties
                                              /\ edit[e].copy \in Fields
    /\ stale \in SUBSET (Tx \cup Editors)

CreditInit ==
    /\ fields = [p \in Parties |-> [approved |-> FALSE, limit |-> 0]]
    /\ debt = [p \in Parties |-> 0]
    /\ tx = [t \in Tx |-> NoTx]
    /\ edit = [e \in Editors |-> NoEdit]
    /\ stale = {}
-----------------------------------------------------------------------------
Abs(n) == IF n < 0 THEN -n ELSE n

\* getCustomerBalance clamps at zero, getSupplierBalance takes the absolute value.
Outstanding(p) == IF p \in Suppliers THEN Abs(debt[p])
                  ELSE IF debt[p] > 0 THEN debt[p] ELSE 0

Quit(t) ==
    /\ tx' = [tx EXCEPT ![t] = NoTx]
    /\ stale' = stale \ {t}
    /\ UNCHANGED <<fields, debt, edit>>

\* createOrder / recordPurchase: the party is approved...
CheckApproval(t, p, total) ==
    /\ tx[t] = NoTx
    /\ fields[p].approved
    /\ tx' = [tx EXCEPT ![t] = [at |-> "limit", party |-> p, total |-> total, limit |-> 0]]
    /\ UNCHANGED <<fields, debt, edit, stale>>

\* Mutant of CheckLimit: what is outstanding is not taken off the limit.
CheckLimitAlone(t) ==
    LET p == tx[t].party
    IN  /\ tx[t].at = "limit"
        /\ IF tx[t].total > fields[p].limit
           THEN Quit(t)
           ELSE /\ tx' = [tx EXCEPT ![t].at = "post", ![t].limit = fields[p].limit]
                /\ UNCHANGED <<fields, debt, edit, stale>>

\* ... and the total fits what is left of the limit...
CheckLimit(t) ==
    LET p == tx[t].party
    IN  /\ tx[t].at = "limit"
        /\ IF tx[t].total > fields[p].limit - Outstanding(p)
           THEN Quit(t)
           ELSE /\ tx' = [tx EXCEPT ![t].at = "post", ![t].limit = fields[p].limit]
                /\ UNCHANGED <<fields, debt, edit, stale>>

\* ... so recordSale or recordPurchase posts it, and the transaction commits.
CommitOnCredit(t) ==
    /\ tx[t].at = "post"
    /\ debt[tx[t].party] + tx[t].total <= MaxDebt
    /\ debt' = [debt EXCEPT ![tx[t].party] = @ + tx[t].total]
    /\ tx' = [tx EXCEPT ![t] = NoTx]
    /\ stale' = (stale \ {t}) \cup
                   {u \in Tx \ {t} : tx[u].at = "post" /\ tx[u].party = tx[t].party}
    /\ UNCHANGED <<fields, edit>>

Abandon(t) == tx[t] # NoTx /\ Quit(t)

\* A payment is allocated: not more than is owed (the ledger's assertion).
Repay(p, amount) ==
    /\ amount <= debt[p]
    /\ debt' = [debt EXCEPT ![p] = @ - amount]
    /\ UNCHANGED <<fields, tx, edit, stale>>

\* getCustomerOrThrow: the fields as they are now.
Load(e, p, op) ==
    /\ edit[e] = NoEdit
    /\ edit' = [edit EXCEPT ![e] = [op |-> op, party |-> p, copy |-> fields[p]]]
    /\ UNCHANGED <<fields, debt, tx, stale>>

Save(e, new) ==
    /\ fields' = [fields EXCEPT ![edit[e].party] = new]
    /\ edit' = [edit EXCEPT ![e] = NoEdit]
    /\ stale' = (stale \ {e}) \cup {f \in Editors \ {e} : edit[f] # NoEdit
                                                      /\ edit[f].party = edit[e].party}
    /\ UNCHANGED <<debt, tx>>

\* approveCustomerCredit: approve or revoke, and perhaps set a limit.
SaveApproval(e, approved) ==
    /\ edit[e].op = "approve"
    /\ \E limit \in Limits \cup {edit[e].copy.limit} :
          Save(e, [edit[e].copy EXCEPT !.approved = approved, !.limit = limit])

\* Mutant of SaveLimit: setting a limit approves the party as well.
SaveLimitApproving(e, limit) ==
    /\ edit[e].op = "limit"
    /\ Save(e, [approved |-> TRUE, limit |-> limit])

\* updateCustomerCreditLimit
SaveLimit(e, limit) ==
    /\ edit[e].op = "limit"
    /\ Save(e, [edit[e].copy EXCEPT !.limit = limit])

\* releaseCreditCharge, recordSupplierRepayment, update*CreditDuration: other
\* fields change, these two are written back as they were loaded.
SaveOther(e) == edit[e].op = "other" /\ Save(e, edit[e].copy)

Edit(e) ==
    \/ \E p \in Parties, op \in {"approve", "limit", "other"} : Load(e, p, op)
    \/ \E b \in BOOLEAN : SaveApproval(e, b)
    \/ \E l \in Limits : SaveLimit(e, l)
    \/ SaveOther(e)

CreditNext ==
    \/ \E t \in Tx : \/ \E p \in Parties, n \in Totals : CheckApproval(t, p, n)
                     \/ CheckLimit(t) \/ CommitOnCredit(t) \/ Abandon(t)
    \/ \E p \in Parties, n \in Totals : Repay(p, n)
    \/ \E e \in Editors : Edit(e)

CreditSpec == CreditInit /\ [][CreditNext]_creditVars
-----------------------------------------------------------------------------
(* Properties *)

\* A committed sale or purchase leaves the party within the limit its check
\* read, whatever is edited or repaid meanwhile, unless another sale to the
\* party was committed between that check and the commit.
WithinLimit ==
    [][\A t \in Tx \ stale : debt' # debt /\ tx[t] # NoTx /\ tx'[t] = NoTx =>
           debt'[tx[t].party] <= tx[t].limit]_creditVars

\* A party whose credit was revoked buys again only after somebody approves it:
\* no other edit brings the approval back, unless the party was saved between
\* that edit's read and its save.
RevocationHolds ==
    [][\A p \in Parties : ~fields[p].approved /\ fields'[p].approved =>
           \E e \in Editors : /\ edit'[e] # edit[e] /\ edit[e].party = p
                              /\ edit[e].op = "approve" \/ e \in stale]_creditVars
=============================================================================
