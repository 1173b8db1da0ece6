INIT ChunksInit
NEXT ChunksNext
CONSTANTS
    WordBits = 4
    ByteBits = 3
    VarintBase = 4
    LenMarker = 2
    MaxValueCells = 60
    MaxDictEntries = 4
    MinCeiling = 5
    MaxBlockCells = 80
    MaxColumnValue = 4
    MaxVarint = 3
    MaxLenFraming = 2
    ChunkShapes <- ChunkSamples
    ChunkRows = 3
    MaxField = 4
    MaxStoredBody = 9
    MaxRecord = 60
    BitpackDict = 3
    QueryTexts <- QuerySamples
INVARIANTS SealedRowsReadable
CHECK_DEADLOCK FALSE
