CONSTANTS
    Scratch <- MCScratch
    Saved <- MCSaved
    ArgRegs <- MCArgRegs
    ImmMax = 20
    SlotBytes = 8
    Word = 4096
    Variables = {1024}
    Text = 2000
    Data = 3000
    Functions = {7}
    Languages <- MCLanguages
    MaxTurns = 4
    DestFirst = TRUE
SPECIFICATION Spec
INVARIANTS
    Faithful
    AlignedCalls
    KeepsSaved
    Balanced
CHECK_DEADLOCK FALSE
