CONSTANTS
    k1 = k1
    k2 = k2
    k3 = k3
    Trees <- MCTrees
    MaxItems = 5
    Keys = {k1, k2, k3}
    Buckets <- TableSizes
    Ctrl <- CtrlAt
    ItemSize = 3
    EmptyGroup = 5
    EmptyGroupDumped = FALSE
    ListNodes <- NodeAddrs
    DataOfs = 8
    ItemSizes <- SizesOf
    TornKinds <- AllKinds
    Blocks = {200, 400}
    Texts = {0, 3, 9}
    Inline = 1
    Limit = 4
    OverflowChecks = TRUE
    Capacities = {2, 3, 5}
    B = 2
    Enums <- SmallEnums
SPECIFICATION ContainersSpec
INVARIANTS
    ContainerTypeOK
    InKeyOrder
    ClaimsAreExact
    StopsOnlyWithCause
    VariantFound
PROPERTIES
    ImplementsIteration
    VisitEnds
CHECK_DEADLOCK FALSE
