SPECIFICATION Spec
CONSTANTS
    Jvms = {j1, j2}
    NumBlocks = 2
INVARIANT OpenedJarIsComplete
