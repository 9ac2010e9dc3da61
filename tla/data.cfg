SPECIFICATION DataSpec
CONSTANTS
    c1 = c1
    c2 = c2
    Users = {c1, c2}
    Ways = {"generation first"}
    MaxUpdates = 2
    Batches = {c1, c2}
    Values = {1, 2}
    None = None
    Garbled = Garbled
    MaxFailures = 2
    Callers = {c1, c2}
    Pages = 2
    NoEntry = NoEntry
    Ttl = 1
    StaleKept = 0
    MaxNow = 2
    MaxChanges = 2
    MaxMishaps = 1
    Roster <- TwoCharacters
    Jobs = {"j1", "j2"}
    Installer <- JobOfEach
    Corporate = {"j2"}
    Inventions = {"j2"}
    Directors = {"c1", "c2"}
    Runs = 1
    Retention = 0
    EsiWindow = 0
    Calls = {c1, c2}
    MaxTime = 2
    MaxFaults = 1
    NoRecipe = NoRecipe
    NoPrice = NoPrice
    NoInvention = NoInvention
    NoChance = NoChance
    NoCap = NoCap
    Unknown = Unknown
SYMMETRY ThreadSymmetry
CHECK_DEADLOCK FALSE
INVARIANTS
    MarkerVouches
    ConditionalHonest
    PlansSound
    SlotsHeld
PROPERTIES
    VersionedReadsFresh
