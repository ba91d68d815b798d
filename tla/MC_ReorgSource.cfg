\* One sink, blocks 2 and 3, one reorg, two crashes, with and without a lag.
SPECIFICATION RSpec
CONSTANTS
    Src = "src"
    Sources = {"src"}
    s1 = s1
    Sinks = {s1}
    Hashes = "reorg_hashes"
    Keys = {"reorg_hashes"}
    SerialKeys = {"reorg_hashes"}
    FromBlock = 2
    StartHeight = 2
    MaxHeight = 3
    MaxReorgs = 1
    Blocks <- MCBlocks
    Logs <- MCLogs
    Lags = {0, 1}
    MaxPage = 2
    Window = 3
    Capacity = 1
    MaxVersion = 3
    MaxRewinds = 1
    MaxCrashes = 2
    SqlMayFail = FALSE
CONSTRAINT
    SecondCrashWithoutLag
INVARIANTS
    RTypeOK
    SinkMatchesChain
    Confirmed
    
CHECK_DEADLOCK FALSE
