SPECIFICATION RetrievalSpec
CONSTANTS
    old = old
    new = new
    None = None
    Docs = {old, new}
    Curators = {c1}
    Classes = {k1, k2}
    Tags = {t1, t2}
    Supersedes <- Lineage
    Faults = {"provenance", "query"}
    MaxFaults = 1
    Searches = {s1}
    Earlier = {old}
SYMMETRY Symmetry
CONSTRAINT UpToAnswer
INVARIANTS ServedWasReleased VersionsAreFound ForeignIsRefused
