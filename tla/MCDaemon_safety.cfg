SPECIFICATION Spec
CONSTANTS
    Clients = {c1, c2}
    Databases = {d1, d2}
    NoClient = NoClient
    NumEvents = 2
    Workers = 2
    MaxBoots = 3
SYMMETRY Symm
INVARIANTS
    TypeOK
    AckedIsStored
    StoredOnceInOrder
    OneBootPerLog
    ConnectionIsExclusive
PROPERTIES
    ImplementsEventLog
    PoisonIsForever
CHECK_DEADLOCK FALSE
