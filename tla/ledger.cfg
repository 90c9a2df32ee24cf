SPECIFICATION Spec
CONSTANTS
    Tx = {t1, t2}
    Id <- Ids
    Party <- Parties
    Requests <- MCRequests
    Accounts <- Chart
    LastDay = 2
    t1 = t1
    t2 = t2
SYMMETRY TxSymmetry
INVARIANTS OneEntryPerSource AllocationHasSale ReceivablesCovered PayablesCovered
PROPERTIES ClosedPeriodOnlyRaced ImplementsJournal
