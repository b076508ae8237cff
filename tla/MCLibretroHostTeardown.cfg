SPECIFICATION Spec
CONSTANTS
    e1 = e1
    e2 = e2
    Null = Null
    Environments <- MCEnvironments
    Regions <- MCRegions
    StateSizes <- MCStateSizes
    RequirementSets <- MCRequirementSets
    LogShim = TRUE
    FaultyUnpin <- FirstRegion
    ReentrantCalls <- HostExports
PROPERTY
    TeardownCompletes
