CONSTANTS
    Simple <- MCSimple
    Callbacks <- MCCallbacks
    Leftover <- MCLeftover
    Files = {"exe", "file"}
    Exe = "exe"
    Sources = {"text"}
    Names = {"x"}
    Signatures <- MCSignatures
    HostTypes <- MCHostTypes
    Elements <- MCElements
    Counts = {2}
    Chunks = {1, 3}
    PAGESIZE = 4
    MaxTypes = 5
    MaxLibraries = 1
    MaxSize = 5
SPECIFICATION Spec
INVARIANTS
    TypeOK
    AnswerIsAsked
    OnePointerEach
    CompiledOnce
    PagesKept
    RunsAccepted
CHECK_DEADLOCK FALSE
