SPECIFICATION LinkSpec
CHECK_DEADLOCK FALSE
CONSTANTS
    SyncMod = 4
    Body <- MCBody
    SyncBody <- MCSyncBody
    Text <- MCText
    StrayOk <- MCStrayOk
    SsNumber = {0, 1, 2, 3}
    BlockSize = {0, 2}
    ResponseTimeout = 2
    TotalTimeout = 4
    MaxQueued = 1
    MaxOutbound = 1
    MaxEvents = 3
    None = None
    Chunk <- MCChunk
    Params <- MCParams
    ResetAfterFailure = TRUE
    Iterations = 4
    Requests <- MCRequests
    ChunkSizeOption = {0, 3}
    FallbackChunkSize = 3
    PayloadLen = {0, 3}
    InitialSync = 3
    MaxFrames = 2
    MaxLines = 3
INVARIANTS
    SilenceIsTimeout
