\* A source that lags one block behind, and a reorg deeper than that.
SPECIFICATION RSpec
CONSTANTS
    Src = "src"
    Sources = {"src"}
    s1 = s1
    Sinks = {s1}
    Hashes = "reorg_hashes"
    Keys = {"reorg_hashes"}
    SerialKeys = {"reorg_hashes"}
    FromBlock = 1
    StartHeight = 2
    MaxHeight = 4
    MaxReorgs = 1
    Blocks <- MCBlocks
    Logs <- MCLogs
    Lags = {1}
    MaxPage = 2
    Window = 3
    Capacity = 1
    MaxVersion = 4
    MaxRewinds = 1
    MaxCrashes = 0
    SqlMayFail = FALSE
INVARIANT
    DeepReorgIsNoticed
CHECK_DEADLOCK FALSE
