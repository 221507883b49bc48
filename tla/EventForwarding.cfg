SPECIFICATION FairSpec
CONSTANTS
    Threads = {t1, t2, t3}
    Monitors = {m1}
    NoThread = NoThread
    NumLoops = 2
    MaxInt = 3
INVARIANTS
    TypeOK
    RuntimeIsReady
    SenderIsExclusive
    EveryEnterIsCounted
    NoEventIsLost
    ExitsFollowEnters
PROPERTIES
    EventsAreReceived
    ThreadsProceed
CHECK_DEADLOCK FALSE
