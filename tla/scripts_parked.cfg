SPECIFICATION ScriptsSpec
CONSTANTS
    Ids = {alpha}
    Intervals = {2}
    Stored <- EveryOther
    MaxMinute = 2
    MaxEdits = 2
    MaxOtherRuns = 1
    Crashes = FALSE
    d1 = d1
    d2 = d2
    SyncsOverlap = FALSE
CHECK_DEADLOCK FALSE
INVARIANTS
    SaveTakesEffect
