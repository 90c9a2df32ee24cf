--------------------------- MODULE MCBalanceCache ---------------------------
(***************************************************************************)
(* Cash on hand rolls up into CASH.  A supplier payment credits it inside  *)
(* its caller's transaction, the payment event adapter debits it in a      *)
(* transaction of its own, and InventoryService posts a cash purchase.     *)
(***************************************************************************)
EXTENDS BalanceCache

MCLeaves == {"CASH_ON_HAND", "SALES", "ACCOUNTS_PAYABLE", "INVENTORY"}
MCParents == {"CASH"}
MCChildren == [p \in MCParents |-> {"CASH_ON_HAND"}]
MCAsked == {"CASH_ON_HAND", "CASH"}

MCPostings ==
    {[dr |-> "ACCOUNTS_PAYABLE", cr |-> "CASH_ON_HAND", by |-> "nested"],
     [dr |-> "CASH_ON_HAND", cr |-> "SALES", by |-> "standalone"],
     [dr |-> "INVENTORY", cr |-> "CASH_ON_HAND", by |-> "inventory"]}
=============================================================================
