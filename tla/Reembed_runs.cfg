SPECIFICATION RSpec
CONSTANTS
    old = old
    new = new
    None = None
    Docs = {old, new}
    Curators = {c1}
    Classes = {k1, k2}
    Tags = {t1, t2}
    Supersedes <- Versions
    Faults = {"reembed"}
    MaxFaults = 2
SYMMETRY Symmetry
CONSTRAINT UpToOverlap
INVARIANTS ChunksKept CarriedUnlessOverlapped RunRebuilds
