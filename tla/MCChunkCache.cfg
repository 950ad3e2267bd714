SPECIFICATION MCSpec
CONSTANTS
    Offsets <- MCOffsets
    Chunks <- MCChunks
    Zeroes = 0
    chunk_size = 4
    CACHE_BYTES = 12
    MIN_ENTS = 2
    MaxUses = 7
INVARIANTS
    TypeOK
    DeliversTheFile
    NoChunkTwice
    KeepsMostRecent
CHECK_DEADLOCK FALSE
