SPECIFICATION Spec
CONSTANTS
    None = None
    Engine = "engine"
    FeedCapacity = 8
    MaxAttempts = 3
    Chains <- MCChains
    Refs <- MCRefs
    DSN = DSN
    TOKEN = TOKEN
    GONE = GONE
    NAME = NAME
    KIND = KIND
    CHAIN = CHAIN
    MOD = MOD
    GRANT = GRANT
    Wasms <- MCWasms
    Processes <- MCProcesses
    Scenarios <- MCScenarios
    Families = {"topologies", "sourcing", "loadings", "flows", "failures", "lakes", "heads", "skips",
                "fanin", "reorgs", "pauses", "debugs", "caches", "diamonds", "references"}
INVARIANTS
    PTypeOK
    OnlyNamedSecretsAreShown
    AcceptedIsRunnable
    CacheServesWhole
    DiskNotAhead
    PNoLoss
    CompleteIsExact
    FinishedIsComplete
    DrainedIsCaughtUp
    NoStaleRows
PROPERTIES
    RowsLeaveByRollback
