\* A buffering sink, one crash, and nothing else goes wrong.
SPECIFICATION DSpec
CONSTANTS
    Src = "src"
    Sources = {"src"}
    s1 = s1
    s2 = s2
    Sinks = {s1}
    FromBlock = 0
    ToBlock = 2
    Blocks <- MCBlocks
    Rows = {0, 1}
    MaxPage = 2
    FeedCapacity = 1
    Capacity = 1
    Instances = 1
    MaxAttempts = 1
    Buffering = {s1}
    PutMayFail = FALSE
    MayTrap = FALSE
    MaySignal = FALSE
    Ticks = TRUE
    Keys = {}
    SerialKeys = {}
    MaxVersion = 0
    MaxRewinds = 0
    MaxCrashes = 1
    SqlMayFail = FALSE
INVARIANT
    NothingEverLost
CHECK_DEADLOCK FALSE
