SPECIFICATION Spec
CONSTANTS
    Classes <- MCClasses
    ClassToAmend = "Object"
    AmendWithName = "JavaLangObjectAmendment"
    AmendWithClass <- MCAmendWithClass
    Prefixed <- MCPrefixed
    MaxHeld = 2
INVARIANTS
    MembersAreDistinct
    UsesResolve
PROPERTIES
    ImplementsOriginal
    EveryMonitorInsnIsAnnounced
CHECK_DEADLOCK FALSE
