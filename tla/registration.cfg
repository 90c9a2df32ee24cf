SPECIFICATION TeamSpec
CONSTANTS
    p1 = p1
    q1 = q1
    q2 = q2
    Phone = {p1}
    Colleague = {q1, q2}
    Founded <- MCFounded
    Call = {c1, c2}
    MaxCodes = 2
    RateLimit = 2
    MaxAttempts = 2
    MaxOutside = 1
    Inputs <- MCInputs
    NoEmail = ""
    MaxSessions = 2
    Platform = 1
    MaxAdmins = 3
    MaxTeamwork = 2
SYMMETRY CallSymmetry
INVARIANTS OneCompanyPerRegistration SeatsWithinLimit CompaniesReachable
CHECK_DEADLOCK FALSE
