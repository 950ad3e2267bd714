CONSTANTS
    x = x
    y = y
    Names = {x, y}
    NoName = NoName
    None = None
    MaxScopes = 4
    MaxTypes = 3
    MaxEnums = 5
    Dwarfs <- NestedCases
SPECIFICATION Spec
INVARIANT VariablesOfCurrentFunction
