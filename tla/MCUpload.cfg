SPECIFICATION FairLinkSpec
CHECK_DEADLOCK FALSE
CONSTANTS
    SyncMod = 4
    Body <- MCBody
    SyncBody <- MCSyncBody
    Text <- MCText
    StrayOk <- MCStrayOk
    SsNumber = {0, 1, 2, 3}
    BlockSize = {0, 2}
    ResponseTimeout = 1
    TotalTimeout = 2
    MaxQueued = 1
    MaxOutbound = 1
    MaxEvents = 3
    None = None
    Chunk <- MCChunk
    Params <- MCParams
    ResetAfterFailure = TRUE
    Iterations = 3
    Requests <- MCRequests
    ChunkSizeOption = {0, 3}
    FallbackChunkSize = 3
    PayloadLen = {0, 3}
    InitialSync = 3
    MaxFrames = 2
    MaxLines = 3
INVARIANTS
    UploadTypeOK
    OkMeansUploaded
    IdleOnSuccess
    ChunksFit
    SilenceIsTimeout
PROPERTIES
    KeepsPromise
