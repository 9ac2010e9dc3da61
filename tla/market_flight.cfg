SPECIFICATION MarketSpec
CONSTANTS
    trit = trit
    pye = pye
    tritHist = tritHist
    pyeHist = pyeHist
    hub = hub
    Types = {trit, pye, tritHist, pyeHist}
    CacheOf <- TwoCaches
    Callers = {c1, c2}
    Lookups <- AllLookups
    Ttl = 1
    Jitter <- UnevenJitter
    MaxStale <- StaleHistory
    MaxTime = 3
    Calls = {get, post}
    Once = {post}
    Limit = 5
    Window = 2
    LowBudget = 5
    MaxAttempts = 2
    MaxLost = 1
INVARIANTS
    FetchedOnce
    MarginHolds
PROPERTIES
    StaleBeatsError
    LookupsReturn
