SPECIFICATION CodecSpec
CHECK_DEADLOCK FALSE
CONSTANTS
    Nibble = 2
    Token <- MCToken
    Streams <- MCStreams
INVARIANTS
    CodecTypeOK
    StreamSurvivesFragmentation
    WaitsForItsPacket
    DamageNoticed
