SPECIFICATION Spec
CONSTANTS
    RX_RING_SIZE = 3
    MAX_BLOCK_IDX = 100
    SEQ_MODULUS = 4096
    CHANNEL_ID = 7
    EPOCH = 1
    Blocks = 5
    K = 2
    N = 3
    k1 = k1
    k2 = k2
    NoKey = NoKey
    Packets <- MCPackets
INVARIANTS
    OutputInOrder
    RingInvariant
    RingAssertions
    NoCompleteBlockWaits
    LossReportedExactly
PROPERTIES
    NothingReceivedIsDropped
CHECK_DEADLOCK FALSE
