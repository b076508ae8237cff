SPECIFICATION Spec
CONSTANTS
    e1 = e1
    e2 = e2
    Null = Null
    Environments <- MCEnvironments
    Regions <- MCRegions
    StateSizes <- MCStateSizes
    RequirementSets <- MCRequirementSets
    LogShim = TRUE
    FaultyUnpin <- NoRegions
    ReentrantCalls <- HostExports
INVARIANTS
    CoreFollowsState
    ResourcesFollowContent
    CapabilitiesFromEnvironment
    CoreFailureLatched
    FrameServed
PROPERTIES
    FailureClearedByTeardown
    SessionResourcesStable
    ImplementsContract
