SPECIFICATION Spec
CONSTANTS
    None = None
    States = {st1}
    Sids = {s1}
    Requests = {r1, r2, r3}
    SESSION_LIFETIME = 3
    OAUTH_STATE_TTL = 1
    EXPIRES_IN = 1
    Rotating = TRUE
    MaxTime = 4
    MaxRotations = 1
    MaxFailures = 1
    MaxRenewals = 3
SYMMETRY Symmetry
CHECK_DEADLOCK FALSE
INVARIANTS AbsoluteLifetime SpentStaysSpent KeptUnlessDisturbed
PROPERTIES EndedIsFinal
