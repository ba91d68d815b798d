\* A crash while a reorg is being handled.
SPECIFICATION RSpec
CONSTANTS
    Src = "src"
    Sources = {"src"}
    s1 = s1
    Sinks = {s1}
    Hashes = "reorg_hashes"
    Keys = {"reorg_hashes"}
    SerialKeys = {"reorg_hashes"}
    FromBlock = 1
    StartHeight = 2
    MaxHeight = 3
    MaxReorgs = 1
    Blocks <- MCBlocks
    Logs <- MCLogs
    Lags = {0}
    MaxPage = 2
    Window = 3
    Capacity = 1
    MaxVersion = 4
    MaxRewinds = 1
    MaxCrashes = 1
    SqlMayFail = FALSE
INVARIANT
    NoCorrectedBlockSkipped
CHECK_DEADLOCK FALSE
