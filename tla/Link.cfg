SPECIFICATION Spec
CONSTANTS
    RX_RING_SIZE = 2
    MAX_BLOCK_IDX = 2
    SEQ_MODULUS = 4096
    CHANNEL_ID = 7
    EPOCH = 1
    NoKey = 0
    FecSettings <- MCFecSettings
    InitialFec <- MCInitialFec
    Sizes = {1, 2}
    MaxPackets = 3
    MaxSessions = 3
INVARIANTS
    NonceNeverReused
    DeliveredIntact
    SameCodeAsSender
CHECK_DEADLOCK FALSE
