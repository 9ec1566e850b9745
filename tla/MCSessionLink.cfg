SPECIFICATION FairLinkSpec
CONSTANTS
    SyncMod = 2
    Body <- MCBody
    SyncBody = 0
    Text = {"ok"}
    StrayOk = "ok"
    SsNumber = {0, 1}
    BlockSize = {512}
    ResponseTimeout = 1
    TotalTimeout = 3
    MaxQueued = 1
    MaxOutbound = 2
    MaxEvents = 2
    None = None
    Last = 4
    Window = 1
    MaxFrames = 3
    MaxLines = 3
INVARIANTS
    LinkTypeOK
    AckedWasReceived
    ReceivedInOrder
    InStepUnlessRewritten
PROPERTIES
    ImplementsChannel
CHECK_DEADLOCK FALSE
