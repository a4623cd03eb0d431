SPECIFICATION Spec
CONSTANTS
    MaxSize = 4
    ChunkSizes = {1, 2, 3}
    DefaultChunkSize = 2
    Rendezvous = FALSE
    None = None
    MaxTransfers = 2
INVARIANTS
    TypeOK
    WrittenChunksIntact
PROPERTIES
    SourceDelivered
    ExactWithoutLeftover
CHECK_DEADLOCK FALSE
