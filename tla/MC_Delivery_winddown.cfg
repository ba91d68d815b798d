\* One sink that pauses: does the process wind down?
SPECIFICATION FairDSpec
CONSTANTS
    Src = "src"
    Sources = {"src"}
    s1 = s1
    s2 = s2
    Sinks = {s1}
    FromBlock = 0
    ToBlock = 3
    Blocks <- MCBlocks
    Rows = {0, 1, 2}
    MaxPage = 2
    FeedCapacity = 1
    Capacity = 1
    Instances = 1
    MaxAttempts = 1
    Buffering = {}
    PutMayFail = FALSE
    MayTrap = FALSE
    MaySignal = FALSE
    Ticks = TRUE
    Keys = {}
    SerialKeys = {}
    MaxVersion = 0
    MaxRewinds = 0
    MaxCrashes = 0
    SqlMayFail = FALSE
PROPERTY
    WindsDown
CHECK_DEADLOCK FALSE
