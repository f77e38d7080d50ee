CONSTANTS
    a = a
    b = b
    this = this
    Names <- MCNames
    This <- this
    MaxVars = 3
    MaxScopes = 4
SPECIFICATION Spec
INVARIANTS
    DictTypeOK
    AnswerHolds
    NoLateShadow
PROPERTY
    BindingStable
SYMMETRY Symmetry
CHECK_DEADLOCK FALSE
