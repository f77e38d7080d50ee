CONSTANTS
    Texts <- MCTexts
    Letters = {1, 2}
    SlotBytes = 2
    MaxData = 6
    MaxMoves = 1
    MaxModules = 2
SPECIFICATION Spec
INVARIANTS
    Disjoint
    TextInPlace
    OwnAddressesLive
PROPERTIES
    AppendOnly
CHECK_DEADLOCK FALSE
