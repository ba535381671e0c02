SPECIFICATION FairSpec
CONSTANTS
    QUEUE_CAPACITY = 2
    dynamic_limit = 2
    batch_size = 2
    kMaxConsecutiveErrors = 2
    kMaxTokenDuration = 2
    Durations <- MCDurations
    MaxTime = 2
    MaxPackets = 3
PROPERTIES ShutdownTerminates
CHECK_DEADLOCK FALSE
