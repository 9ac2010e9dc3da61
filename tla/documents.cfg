SPECIFICATION DocumentsSpec
CONSTANTS
    pilot = pilot
    shared = shared
    t1 = t1
    fetch1 = fetch1
    fetch2 = fetch2
    NoToken = 0
    Main = main
    Characters = {pilot}
    Tokens = {1, 2, 3}
    AuthStates = {main, shared}
    Callers = {t1, t2, t3}
    Via <- TwoStatesVia
    For <- OnePilotFor
    LoginChars = {pilot}
    Faults = {"keychain", "disk", "sso", "lost", "grace", "crash"}
    MaxForgets = 1
    Bases = {"default"}
    Targets <- TheChatList
    Types = {"ore"}
    Senders = {"buyer"}
    Channels = {"corp", "fleet"}
    Logs <- TwoLogs
    LogOf <- CorpLogs
    MaxQuantity = 100
    Cooldown = 2
    Lookback = 2
    MaxTime = 3
    MaxMessages = 2
    MaxCommands = 2
    MaxMishaps = 1
    Pairs = {"ab", "ac"}
    Sigs = {"p", "q", "r"}
    NoSig = "none"
    Masses = {"fresh", "critical"}
    FeedAnswers <- ScoutFeeds
    Manual <- UserHoles
    Relabels <- UserLabels
    MaxAge = 3
    EolGrace = 1
    NoEnd = 99
    MaxHour = 2
    MaxChanges = 2
    MaxImports = 2
    Systems <- Lane
    Edges <- LaneGates
    Warzone <- WarzoneOf
    Owner <- OwnerOf
    Factions <- OccupiersOf
    Plexed = {"b"}
    Threshold = 1
    VpWindow = 1
    MaxSamples = 3
    Ttl = 1
    Fetchers <- Fetching
    MaxClock = 2
    Reports = {1, 2}
    Interval = 1
    Day = 3
    MaxPerDay = 3
    HistoryCap = 2
    MaxRetries = 1
    Faulty = TRUE
    LastTime = 1
    MaxVisits = 2
CHECK_DEADLOCK FALSE
INVARIANTS
    CaptureHonest
    OneRowPerHole
    WarSound
    QueueSound
PROPERTIES
    NeverStoresRetiredToken
    MovesConserve
    EolClockRuns
