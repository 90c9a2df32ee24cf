SPECIFICATION SupplierSpec
CONSTANTS
    t1 = t1
    t2 = t2
    Payers = {t1, t2}
    Costs <- MCCosts
    Payments <- MCPayments
    Recorded <- AllStatuses
    MaxPurchases = 2
SYMMETRY PayerSymmetry
INVARIANTS SupplierNotOverpaid OldestPaidFirst
PROPERTY SettledIsFinal
CHECK_DEADLOCK FALSE
