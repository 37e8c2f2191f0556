SPECIFICATION PartsSpec
CONSTANTS
    low = low high = high noforn = noforn none = none all = all org = org bob = bob
    u1 = u1 u2 = u2 d1 = d1 d2 = d2 None = None
    Docs = {d1, d2}
    Levels = {low, high}
    Caveats = {none, noforn}
    Unrestricted = none
    Scopes = {all, org, bob}
    Everyone = all
    Users = {u1, u2}
    Token <- TwoPeople
    Seeded <- TwoLevels
    Labels <- SomeLabels
    MaxRank = 1
    MaxChanges = 1
    p1 = p1 p2 = p2 a1 = a1 a2 = a2 c1 = c1 x = x blank = blank
    Replicas = {p1, p2}
    Configs <- TwoConfigs
    Added = {c1}
    Admins = {a1, a2}
    Texts = {x, blank}
    Blank = blank
    MaxRequests = 3
INVARIANTS ApprovedWasSigned QueueIsDecidable PagesShowTheLog
PROPERTY StartsKeepTheVocabulary
CHECK_DEADLOCK FALSE
SYMMETRY Symmetry
