SPECIFICATION MCSpec
CONSTANTS
    Node <- MCNode
    Paths <- MCPaths
    Addrs <- MCAddrs
    Sizes <- MCSizes
    Types <- MCTypes
    COVERAGE_PER_BIT = 4
    PREFIX_LEVELS = 2
    U64 = 32
    MaxOps = 3
INVARIANTS
    UsageIsDu
    CoverageIsUnionOfClaims
    ProgressAgreesWithReport
    ReportIsATree
CHECK_DEADLOCK FALSE
