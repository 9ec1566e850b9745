SPECIFICATION LinkSpec
CONSTANTS
    SyncMod = 2
    Body <- MCBody
    SyncBody = 0
    Text = {"ok"}
    StrayOk = "ok"
    SsNumber = {0, 1}
    BlockSize = {512}
    ResponseTimeout = 1
    TotalTimeout = 3
    MaxQueued = 2
    MaxOutbound = 2
    MaxEvents = 2
    None = None
    Last = 2
    Window = 2
    MaxFrames = 3
    MaxLines = 3
INVARIANTS
    AckedWasReceived
CHECK_DEADLOCK FALSE
