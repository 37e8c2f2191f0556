SPECIFICATION PSpec
CONSTANTS
    old = old
    new = new
    None = None
    Docs = {new}
    Curators = {c1}
    Classes = {k1, k2}
    Tags = {t1}
    Supersedes <- Versions
    Faults = {"purge"}
    MaxFaults = 1
    Purgers = {p1, p2}
    Reqs = {r1}
SYMMETRY Symmetry
CHECK_DEADLOCK FALSE
INVARIANTS PurgedIsGone ConfirmedIsDestroyed NobodyPurgesAlone
PROPERTIES NeverReexposed
