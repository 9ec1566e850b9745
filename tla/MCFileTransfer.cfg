SPECIFICATION FileSpec
CONSTANTS
    SyncMod = 2
    Body <- MCBody
    SyncBody <- MCSyncBody
    Chunk = {c1}
    Text <- MCText
    StrayOk <- MCStrayOk
    SsNumber = {0, 3}
    BlockSize = {512}
    ResponseTimeout = 1
    TotalTimeout = 2
    MaxQueued = 1
    MaxOutbound = 1
    MaxEvents = 2
    None = None
    Params = {p1, p2}
    ResetAfterFailure = TRUE
INVARIANTS
    FileTypeOK
    PendingMatchesState
    OneAnswerOwed
    CompressionAgreed
PROPERTIES
    NothingSwallowed
    FailureIsFinal
