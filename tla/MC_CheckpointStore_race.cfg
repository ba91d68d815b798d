\* A rewind against a tick: no statement fails, nothing crashes.
SPECIFICATION Spec
CONSTANTS
    Sources = {"src"}
    s1 = s1
    s2 = s2
    Sinks = {s1}
    Blocks = {1, 2}
    Keys = {}
    SerialKeys = {}
    MaxVersion = 0
    MaxRewinds = 1
    MaxCrashes = 0
    SqlMayFail = FALSE
INVARIANT
    RewindIsDurable
