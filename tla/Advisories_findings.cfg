SPECIFICATION AdvisoriesSpec
CONSTANTS
    None = None low = low high = high
    Levels = {low, high}
    Assigned = low
    Seeded <- TwoRanks
    Texts <- TwoTexts
    Attempts = {a1, a2}
    Models = {"classification", "pii"}
    MaxFindings = 1
    MaxVerdicts = 2
    MaxChanges = 1
    MaxFaults = 1
INVARIANTS FindingsAddUp FlagsAreAudited
PROPERTY DecisionsNameFlags
SYMMETRY Symmetry
CHECK_DEADLOCK FALSE
