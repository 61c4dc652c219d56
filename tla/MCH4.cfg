CONSTANTS
    Streams <- MCStreams
    BufLen = 8
    MaxChunk = 7
SPECIFICATION FairSpec
INVARIANTS
    FramesExact
    CopyInRange
PROPERTIES
    ChunkConsumed
