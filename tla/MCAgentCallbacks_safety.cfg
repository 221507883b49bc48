SPECIFICATION Spec
CONSTANTS
    Threads = {t1, t2}
    Classes = {Object, Rt, App, Odd}
    Object = Object
    RtClasses = {Rt}
    BadNames = {Odd}
    Path = Path
    NoPath = NoPath
    Garbage = Garbage
CHECK_DEADLOCK FALSE
SYMMETRY Symm
INVARIANTS
    TypeOK
    HooksReadConfiguration
    AbortHasCause
    EnabledIffAmended
