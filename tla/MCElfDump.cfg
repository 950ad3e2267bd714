CONSTANTS
    Top = 5
    MaxSegments = 3
    MaxNotes = 3
    Paths = {"a", "b"}
    Addrs = {0, 1, 2, 3, 4, 5}
    Lens = {0, 1, 2, 3}
    Registers <- MCRegisters
    Cores <- MCCores
SPECIFICATION MCSpec
INVARIANTS ModulesAtLowest AnonMeansNoFile NumberedByDwarf
PROPERTY ImplementsMemory
CHECK_DEADLOCK FALSE
