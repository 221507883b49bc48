SPECIFICATION FairSpec
CONSTANTS
    Jvms = {j1, j2, j3}
    NumBlocks = 2
INVARIANTS
    TypeOK
    QuietFileIsComplete
PROPERTIES
    SettledJarStays
    JarIsCompletedEventually
