SPECIFICATION FairSpec
CONSTANTS
    Cells <- MCCells
    Null = Null
    FieldNames <- MCNames
    Types <- MCTypes
    Dumps <- GivenDumps
    COVERAGE_PER_BIT = 16
    PREFIX_LEVELS = 4
    U64 = 4096
INVARIANTS
    SharedClaimedOnce
    EveryObjectOnce
    NoReentry
    TotalIsSumOfObjects
    EnumCountsExact
    PanicsOnlyWithCause
PROPERTIES
    Terminates
CHECK_DEADLOCK FALSE
