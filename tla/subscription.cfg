SPECIFICATION Spec
CONSTANTS
    Start <- MCStart
    Call = {c1, c2}
    Cycle = 2
    MaxPolls = 2
    MaxNow = 2
    MaxCharges = 2
    Polled = {2}
    MaxRepeats = 1
    MaxTracked = 1
SYMMETRY CallSymmetry
INVARIANTS PaidTimeKept CountedOnceByPolls
PROPERTY ToldPaid
CHECK_DEADLOCK FALSE
