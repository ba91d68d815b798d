\* A buffering sink with two instances, in every kind of trouble.
SPECIFICATION DSpec
CONSTANTS
    Src = "src"
    Sources = {"src"}
    s1 = s1
    s2 = s2
    Sinks = {s1}
    FromBlock = 0
    ToBlock = 2
    Blocks <- MCBlocks
    Rows = {0, 1}
    MaxPage = 2
    FeedCapacity = 1
    Capacity = 1
    Instances = 2
    MaxAttempts = 2
    Buffering = {s1}
    PutMayFail = TRUE
    MayTrap = TRUE
    MaySignal = TRUE
    Ticks = TRUE
    Keys = {}
    SerialKeys = {}
    MaxVersion = 0
    MaxRewinds = 0
    MaxCrashes = 1
    SqlMayFail = TRUE
INVARIANTS
    NoLoss
PROPERTY
    DeliversAtLeastOnce
