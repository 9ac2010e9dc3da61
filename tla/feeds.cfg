SPECIFICATION FeedsSpec
CONSTANTS
    Features = {kills, intel}
    GraceChecks = 2
    MaxMounts = 4
    MaxLost = 1
    MaxReloads = 1
    MaxBreaks = 2
    Window = 2
    MaxEvents = 3
    MaxNow = 6
    Delays = {0, 2, 4}
    Ahead = {2}
    u1 = u1
    Updates = {u1, u2}
    Files = {f1, f2, f3}
    MaxDumps = 3
    MaxFaults = 3
    Forced = TRUE
    pilot = pilot
    Characters = {pilot}
    Tokens = {k1, k2, k3, k4}
    NoToken = NoToken
    Main = main
    AuthStates = {main}
    Callers = {t1, t2, t3}
    Via <- OneStateVia
    For <- OnePilotFor
    LoginChars = {}
    Faults = {"keychain", "sso", "grace"}
    MaxForgets = 0
    Readers = {r1, r2}
    MaxVersion = 2
    Nodes = {1, 2, 3, 4, 5, 6}
    Gates <- Graphs
    Chains <- SomeChains
    HiSec = {{1, 2, 3, 4}}
    Candidates = {{3, 4}, {2, 4, 6}}
    HullMasses = {0, 2}
    Dangerous = 50
    SteinerMax = 3
    Ranges = {2, 3}
    Nowhere = 0
CHECK_DEADLOCK FALSE
INVARIANTS
    NeverMissing
    DatabaseSound
    WaysSound
    ScanSound
    RefreshSound
    PoolSelfSizes
PROPERTIES
    StreamServes
    StaysCurrent
    RecentKept
    ReadsFresh
