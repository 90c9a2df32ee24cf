SPECIFICATION Spec
CONSTANTS
    i1 = i1
    t1 = t1
    t2 = t2
    Item = {i1}
    MaxQuantity = 2
    MaxRequests = 2
    MaxBaskets = 2
    MaxOfKind = 1
    Price = 2
    Tx = {t1, t2}
    Payments <- MCPayments
    Id <- MCId
    Party <- MCParty
SYMMETRY TxSymmetry
INVARIANTS OneOrderPerBasket PriceAgreed RevenueOnce PaidOnce
PROPERTY ImplementsJournal
CHECK_DEADLOCK FALSE
