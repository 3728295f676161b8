CONSTANTS
    TargetChunk = 3
    MaxLine = 4
    MaxLines = 4
    MaxTail = 5
SPECIFICATION FairSpec
INVARIANTS
    ChunksContiguous
    ChunksFit
    ChunksFilled
    DoneIsSent
PROPERTY ReaderEnds
CHECK_DEADLOCK FALSE
