SPECIFICATION FairSpec
CONSTANTS
    Threads = {t1, t2}
    Classes = {Object, Rt, App, App2}
    Object = Object
    RtClasses = {Rt}
    BadNames = {}
    Path = Path
    NoPath = NoPath
    Garbage = Garbage
    Monitors = {m1}
    NoThread = NoThread
    NumLoops = 1
    MaxInt = 1
INVARIANT
    RuntimeIsLoadedAfterVMStart
PROPERTIES
    ImplementsForwarding
    EveryBlockEnds
CHECK_DEADLOCK FALSE
