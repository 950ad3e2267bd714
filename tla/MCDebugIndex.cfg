CONSTANTS
    x = x
    y = y
    p = p
    Names = {x, y, p}
    NoName = NoName
    None = None
    MaxTypes = 4
    MaxSymbols = 3
    Addrs = {0, 1, 2, 3, 4, 5, 6}
    Inputs <- MCInputs
SPECIFICATION Spec
INVARIANTS FullyDefined OneTypePerName TargetsAgree VtableIsDynamicType
CHECK_DEADLOCK FALSE
