SPECIFICATION AccessSpec
CONSTANTS
    low = low high = high noforn = noforn none = none all = all org = org bob = bob
    u1 = u1 u2 = u2 d1 = d1 d2 = d2 None = None
    Docs = {d1, d2}
    Levels = {low, high}
    Caveats = {none, noforn}
    Unrestricted = none
    Scopes = {all, org, bob}
    Everyone = all
    Users = {u1, u2}
    Token <- TwoPeople
    Seeded <- TwoLevels
    Labels <- SomeLabels
    MaxRank = 1
    MaxChanges = 0
INVARIANT SuspensionIsReversible
CHECK_DEADLOCK FALSE
SYMMETRY Symmetry
