SPECIFICATION PeriodSpec
CONSTANTS
    c1 = c1
    c2 = c2
    r1 = r1
    s1 = s1
    Closers = {c1, c2}
    Required <- MCRequired
    Reqs = {r1}
    Sessions = {s1}
    Floats = {1}
    Amounts <- MCAmounts
    MaxCash = 0
    MaxCounts = 3
    LastDay = 2
    Manual <- DayByDay
SYMMETRY Symmetry
INVARIANTS LockCovered PeriodsTile ClosedPeriodsLocked
CHECK_DEADLOCK FALSE
