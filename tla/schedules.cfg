SPECIFICATION SchedulesSpec
CONSTANTS
    Ids = {alpha}
    Intervals = {2}
    Stored <- EveryOther
    MaxMinute = 2
    MaxEdits = 3
    MaxOtherRuns = 1
    Crashes = TRUE
    d1 = d1
    d2 = d2
    SyncsOverlap = FALSE
CHECK_DEADLOCK FALSE
INVARIANTS
    NoLostWakeup
    InFlightIsTheRun
PROPERTIES
    ArmedTicks
    Converges
