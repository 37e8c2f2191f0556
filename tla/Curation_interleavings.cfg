SPECIFICATION FairSpec
CONSTANTS
    old = old
    new = new
    None = None
    Docs = {old, new}
    Curators = {c1, c2}
    Classes = {k1, k2}
    Tags = {t1}
    Supersedes <- Versions
    Faults = {"sweep", "commit", "crash"}
    MaxFaults = 1
INVARIANTS DecisionsAreFresh AgreeUnlessFailed ServedUnlessFailed
PROPERTIES SupersededIsFinal DecisionsEnd
