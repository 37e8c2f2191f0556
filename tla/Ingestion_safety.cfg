SPECIFICATION Spec
CONSTANTS
    Docs = {d1}
    Workers = {w1, w2}
    Replicas = {r1}
    Msgs = {m1, m2, m3}
    None = None
    MAX_DELIVERY_ATTEMPTS = 3
    MaxFaults = 3
    AckWaitBoundsAttempt = TRUE
    AmbiguousCommits = TRUE
SYMMETRY Symmetry
INVARIANTS NotLost MarkerMeansDurable ReviewHasChunks OriginalKept
CHECK_DEADLOCK FALSE
