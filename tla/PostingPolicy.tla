---------------------------- MODULE PostingPolicy ----------------------------
(***************************************************************************)
(* Which account each business event debits and which it credits           *)
(* (services/financial/posting-policy.ts and payment-method-mapping).      *)
(*                                                                         *)
(* Every template of the policy has exactly two lines, one debit and one   *)
(* credit of the same amount, so an entry is kept as ONE record: the two   *)
(* accounts, the amount and the party its lines are tagged with (meta      *)
(* orderId for receivables, supplierId for payables).                      *)
(***************************************************************************)
EXTENDS Integers, FiniteSetsExt

CONSTANTS
    Id,      \* ids of payments, orders, purchases, refunds...
    Party    \* orders and suppliers, as the meta of journal lines names them

Kinds == {"Payment", "CreditSale", "PaymentAllocation", "Refund",
          "SupplierPurchase", "SupplierPayment",
          "InventoryPurchase", "InventorySaleCogs", "InventoryWriteOff"}

Methods == {"cash", "mpesa", "credit", "other", "expiry"}

MoneyAccount(method) ==
    CASE method = "cash"   -> "CASH_ON_HAND"
      [] method = "mpesa"  -> "CLEARING_MPESA"
      [] method = "credit" -> "CLEARING_CREDIT"
      [] OTHER             -> "CLEARING_GENERIC"

\* A request to post: the arguments of LedgerPostingService.post*().  For an
\* inventory purchase, method "credit" stands for isCreditPurchase; for a
\* write-off, "expiry" stands for a reason that mentions expiry.
Request == [kind : Kinds, id : Id, party : Party, amount : Nat, method : Methods]

DebitAccount(r) ==
    CASE r.kind \in {"Payment", "PaymentAllocation"} -> MoneyAccount(r.method)
      [] r.kind = "CreditSale"        -> "ACCOUNTS_RECEIVABLE"
      [] r.kind = "Refund"            -> "SALES_RETURNS"
      [] r.kind = "SupplierPurchase"  -> "PURCHASES"
      [] r.kind = "SupplierPayment"   -> "ACCOUNTS_PAYABLE"
      [] r.kind = "InventoryPurchase" -> "INVENTORY"
      [] r.kind = "InventorySaleCogs" -> "COGS"
      [] OTHER -> IF r.method = "expiry" THEN "EXPIRY_LOSS" ELSE "INVENTORY_WRITE_OFF"

CreditAccount(r) ==
    CASE r.kind \in {"Payment", "CreditSale"} -> "SALES"
      [] r.kind = "PaymentAllocation" -> "ACCOUNTS_RECEIVABLE"
      [] r.kind \in {"Refund", "SupplierPayment"} -> MoneyAccount(r.method)
      [] r.kind = "SupplierPurchase"  -> "ACCOUNTS_PAYABLE"
      [] r.kind = "InventoryPurchase" ->
             IF r.method = "credit" THEN "ACCOUNTS_PAYABLE" ELSE "CASH_ON_HAND"
      [] OTHER                        -> "INVENTORY"

\* The idempotency key of a journal entry (channel, sourceType, sourceId).
Source(x) == <<x.kind, x.id>>

\* The journal entry a request posts on a given day.
EntryOf(r, day) ==
    [kind |-> r.kind, id |-> r.id, party |-> r.party, amount |-> r.amount,
     dr |-> DebitAccount(r), cr |-> CreditAccount(r), date |-> day]

\* SUM(amount) over a set of entries; entries are distinct by their source.
Total(S) == IF S = {} THEN 0 ELSE MapThenSumSet(LAMBDA e : e.amount, S)

Debits(S, account, p)  == {e \in S : e.dr = account /\ e.party = p}
Credits(S, account, p) == {e \in S : e.cr = account /\ e.party = p}

\* FinancialService rejects a non-positive amount for these kinds; refunds and
\* the inventory postings are not checked.
MustBePositive == {"Payment", "CreditSale", "PaymentAllocation",
                   "SupplierPurchase", "SupplierPayment"}
=============================================================================
