CONSTANTS
    a = a
    b = b
    this = this
    Names <- MCNames
    This <- this
    MaxVars = 4
    MaxScopes = 5
    MaxNodes = 4
    MaxModules = 2
SPECIFICATION Spec
INVARIANTS
    TypeOK
    FreshModuleBinds
    PassesAgree
SYMMETRY Symmetry
CHECK_DEADLOCK FALSE
