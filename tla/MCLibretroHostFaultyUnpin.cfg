SPECIFICATION Spec
CONSTANTS
    e1 = e1
    e2 = e2
    Null = Null
    Environments <- MCEnvironments
    Regions <- MCRegions
    StateSizes <- MCStateSizes
    RequirementSets <- MCRequirementSets
    LogShim = FALSE
    FaultyUnpin <- AllRegions
    ReentrantCalls <- HostExports
INVARIANTS
    NoUseAfterUnload
    UnboundLoggerNeverInUse
