SPECIFICATION Spec
CONSTANTS
    None = None
    Engine = "engine"
    FeedCapacity = 8
    MaxAttempts = 3
    Chains <- MCChains
    Refs <- MCRefs
    DSN = DSN
    TOKEN = TOKEN
    GONE = GONE
    NAME = NAME
    KIND = KIND
    CHAIN = CHAIN
    MOD = MOD
    GRANT = GRANT
    Wasms <- MCWasms
    Processes <- MCProcesses
    Scenarios <- MCScenarios
    Families = {"diamonds"}
INVARIANT
    AckedMeansAllUpToBlock
