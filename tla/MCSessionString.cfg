CONSTANTS
    Simple <- MCSimple
    Callbacks <- MCCallbacks
    Leftover <- MCLeftover
    Files = {"exe", "file"}
    Exe = "exe"
    Sources = {"s", "t"}
    Names = {"x"}
    Signatures <- MCSignatures
    HostTypes <- MCHostTypes
    Elements <- MCElements
    Counts = {2}
    Chunks = {1, 3}
    PAGESIZE = 4
    MaxTypes = 2
    MaxLibraries = 1
    MaxSize = 3
SPECIFICATION Spec
INVARIANTS
    StringCompiled
CHECK_DEADLOCK FALSE
