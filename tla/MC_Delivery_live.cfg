\* Progress of two sinks, of which either may pause.
SPECIFICATION FairDSpec
CONSTANTS
    Src = "src"
    Sources = {"src"}
    s1 = s1
    s2 = s2
    Sinks = {s1, s2}
    FromBlock = 0
    ToBlock = 4
    Blocks <- MCBlocks
    Rows = {0, 2, 3}
    MaxPage = 2
    FeedCapacity = 1
    Capacity = 1
    Instances = 1
    MaxAttempts = 1
    Buffering = {}
    PutMayFail = FALSE
    MayTrap = FALSE
    MaySignal = FALSE
    Ticks = FALSE
    Keys = {}
    SerialKeys = {}
    MaxVersion = 0
    MaxRewinds = 0
    MaxCrashes = 0
    SqlMayFail = FALSE
PROPERTY
    BackfillEnds
CHECK_DEADLOCK FALSE
