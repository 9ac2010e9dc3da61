SPECIFICATION ToolsSpec
CONSTANTS
    pilot = pilot
    NoFile = NoFile
    Torn = Torn
    BucketSecs = 2
    AmendWindow = 1
    NoCharacter = NoCharacter
    Owner <- TwoSessions
    Character = pilot
    Grace = 1
    RescanTicks = 2
    MaxReplay = 2
    Lags = {0, 4}
    MaxStep = 2
    MaxLines = 2
    MaxTime = 4
    MaxCaptures = 1
    MaxGen = 2
    Ports = {0, 1}
    AutoPort = 0
    MaxServers = 3
    MaxFaults = 1
    Gated = {1, 2, 3}
    Wspace = {9}
    Links <- Lane
    Polls = {p, q}
    Feeds <- KnownHoles
    Cap = 2
    Far = 1
    MaxMoves = 2
    MaxPolls = 3
    MaxEdits = 1
    Types <- ModuleTypes
    Slots <- SlotKinds
    Kinds <- SlotsOf
    Pool <- Market
    Polarized = {"polarized"}
    Bonused = {"blaster", "rail"}
    Capacity <- HullSlots
    Hardpoints <- HullHardpoints
    ClassOf <- WeaponClass
    GroupOf <- Group
    UniqueGroups = {"damage control"}
    Metric <- Worth
    Valid <- OnHull
    CapStable <- Lasts
    Price <- Cost
    Flight = "drone"
    Takes <- IsWeapon
    NoDrones = "none"
    NoBudget = 999
    Starts <- UserFits
    Objectives = {"damage", "tank"}
    Budgets = {2, 5, 8, 999}
    Recharge <- Gained
    CapSize = 40
    Fine = 4
    TickMs = 1
    Horizon = 30
    MaxPeriod = 100
    Cycles <- ModuleCycles
    Neuts = {0, 1, 3}
    NoCharge = 0
CHECK_DEADLOCK FALSE
INVARIANTS
    MeterHonest
    BridgeHonest
    TrailHonest
    FittingSound
PROPERTIES
    SupersededEnds
    StopReturns
    SearchEnds
