SPECIFICATION FairSpec
CONSTANTS
    Capacity = 2
    MaxSize = 6
INVARIANTS
    TypeOK
    ClassIsWholeOrCallFails
    OnlyQuittersAreLeft
PROPERTIES
    EveryCallReturns
    EveryChildEnds
CHECK_DEADLOCK FALSE
