SPECIFICATION Spec
CONSTANTS
    r1 = r1
    r2 = r2
    s1 = s1
    s2 = s2
    Reqs = {r1, r2}
    Sessions = {s1, s2}
    Floats = {1}
    Amounts <- MCAmounts
    MaxCash = 1
    LastDay = 2
    MaxCounts = 3
SYMMETRY Symmetry
INVARIANTS ClosedHasItsCount OneOpenSession
PROPERTY ClosedIsFinal
CHECK_DEADLOCK FALSE
