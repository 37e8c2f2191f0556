SPECIFICATION MilvusSpec
CONSTANTS
    old = old
    new = new
    k3 = k3
    None = None
    Docs = {old, new}
    Curators = {c1}
    Classes = {k1, k2, k3}
    Tags = {t1}
    Supersedes <- Versions
    Faults = {"refused", "sweep", "commit", "ambiguous", "cleanup", "crash", "migration"}
    Workers = {w1}
    MaxFaults = 2
SYMMETRY Symmetry
CONSTRAINT FewFaults
INVARIANTS RowsKept RevertsHoldInBoth MigrationAgrees
