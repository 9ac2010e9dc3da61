SPECIFICATION FairSpec
CONSTANTS
    Callers = {c1, c2}
    Commands <- AllCommands
    MaxCommands = 2
    MaxInstances = 2
CHECK_DEADLOCK FALSE
INVARIANTS
    BuiltSinceIsCurrent
PROPERTIES
    FreshInstanceKept
    InvocationsReturn
