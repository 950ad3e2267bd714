CONSTANTS
    NoSymbol = NoSymbol
    Registers <- RegistersUsed
    Unwind <- UnwindTables
    Functions <- FunctionRecords
    Symbols <- SymbolTable
    Processes <- StackCases
SPECIFICATION FairSpec
INVARIANTS
    StackTypeOK
    FramesAreCallers
PROPERTIES
    ImplementsBacktrace
    Unwinds
CHECK_DEADLOCK FALSE
