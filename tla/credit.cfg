SPECIFICATION CreditSpec
CONSTANTS
    t1 = t1
    t2 = t2
    e1 = e1
    e2 = e2
    c = c
    s = s
    Tx = {t1, t2}
    Editors = {e1, e2}
    Parties = {c, s}
    Suppliers = {s}
    Totals <- MCTotals
    Limits <- MCLimits
    MaxDebt = 3
SYMMETRY Symmetry
PROPERTIES WithinLimit RevocationHolds
