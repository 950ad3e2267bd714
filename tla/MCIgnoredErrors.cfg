SPECIFICATION Spec
CONSTANTS
    Cells <- MCCells
    Null = Null
    FieldNames <- MCNames
    Types <- MCTypes
    Dumps <- Graphs
    COVERAGE_PER_BIT = 16
    PREFIX_LEVELS = 4
    U64 = 4096
INVARIANTS
    IgnoredErrorsLoseNothing
CHECK_DEADLOCK FALSE
