SPECIFICATION InventorySpec
CONSTANTS
    t1 = t1
    t2 = t2
    Tx = {t1, t2}
    Id <- Ids
    Party <- Ids
    Variants = {"v1", "v2"}
    Purchases <- TwoCosts
    Issues <- Spanning
    Adjustments <- Adjusted
    LastDay = 2
    MaxAttempts = 2
SYMMETRY TxSymmetry
INVARIANTS ValuationMatchesLedger NoLostUpdate
