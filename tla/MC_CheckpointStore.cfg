SPECIFICATION Spec
CONSTANTS
    Sources = {"src"}
    s1 = s1
    s2 = s2
    Sinks = {s1, s2}
    Blocks = {1, 2}
    Keys = {"k"}
    SerialKeys = {"k"}
    MaxVersion = 2
    MaxRewinds = 1
    MaxCrashes = 1
    SqlMayFail = TRUE
SYMMETRY SinkSymmetry
INVARIANTS
    TypeOK
    RewindSticks
    
PROPERTY
    KvNotBehind
