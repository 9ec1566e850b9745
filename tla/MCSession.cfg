SPECIFICATION CountedFairSpec
CONSTANTS
    SyncMod = 3
    Body = {b1, b2}
    SyncBody = SyncBody
    Text = {StrayOk, other}
    StrayOk = StrayOk
    SsNumber = {0, 4}
    BlockSize = {512}
    ResponseTimeout = 2
    TotalTimeout = 3
    MaxQueued = 2
    MaxOutbound = 2
    MaxEvents = 2
    None = None
INVARIANTS
    TypeOK
    NoStrandedPacket
    LastFrameIsInFlight
    NoDataBeforeHandshake
    AttemptBudget
PROPERTIES
    NoPacketStuck
