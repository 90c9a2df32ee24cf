------------------------------ MODULE MCLedger ------------------------------
(***************************************************************************)
(* Small instances of Ledger: one order sold on credit and paid by two     *)
(* payments that together exceed it, one supplier bought from and paid,    *)
(* and a payment method whose account the channel lacks.                   *)
(***************************************************************************)
EXTENDS Ledger

LOCAL T == INSTANCE TLC
TxSymmetry == T!Permutations(Tx)

Req(k, i, p, a, m) == [kind |-> k, id |-> i, party |-> p, amount |-> a, method |-> m]

SaleRequests == {Req("CreditSale", "o1", "o1", 2, "credit"),
                 Req("PaymentAllocation", "p1", "o1", 1, "cash"),
                 Req("PaymentAllocation", "p2", "o1", 2, "mpesa")}

SupplierRequests == {Req("SupplierPurchase", "q1", "s1", 1, "credit"),
                     Req("SupplierPayment", "v1", "s1", 1, "cash")}

\* A zero amount, and a method without an account.
Rejected == {Req("Payment", "p1", "o1", 0, "cash"),
             Req("Refund", "r1", "o1", 0, "other")}

MCRequests == SaleRequests \cup SupplierRequests \cup Rejected

\* The chart of accounts of a channel without CLEARING_GENERIC.
Chart == {"CASH_ON_HAND", "CLEARING_MPESA", "CLEARING_CREDIT", "ACCOUNTS_RECEIVABLE",
          "INVENTORY", "ACCOUNTS_PAYABLE", "SALES", "SALES_RETURNS", "PURCHASES",
          "COGS", "INVENTORY_WRITE_OFF", "EXPIRY_LOSS"}

Ids == {"o1", "p1", "p2", "q1", "v1", "r1"}
Parties == {"o1", "s1"}
=============================================================================
