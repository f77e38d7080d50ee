CONSTANTS
    a = a
    b = b
    this = this
    Names <- MCNames
    This <- this
    HashSlot <- MCHashSlot
    HostTypes = {"void", "some"}
    InitSlots = 1
    MaxVars = 3
    MaxScopes = 4
    MaxDepth = 2
SPECIFICATION Spec
INVARIANTS
    TypeOK
    ProbePath
    ScopeBalanced
PROPERTIES
    ImplementsDict
    Terminates
