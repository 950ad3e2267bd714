SPECIFICATION MCSpec
CONSTANTS
    Maps <- MCMaps
    Names <- MCNames
    AnonNames = {"", "[heap]"}
    FileNames = {"/bin"}
    Addrs = {0, 1, 2, 3, 4, 5, 6, 7}
    Lens = {1, 2}
    chunk_size = 2
    HeaderSize = 9
    MaxChunks = 4
    CACHE_BYTES = 2
    MIN_ENTS = 1
    Top = 8
    MaxUses = 2
INVARIANTS
    NeverRejected
PROPERTY ImplementsMemory
CHECK_DEADLOCK FALSE
