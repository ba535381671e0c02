SPECIFICATION Spec
CONSTANTS
    GC_LIMIT = 12
    Heartbeat <- MCHeartbeat
    Others <- MCOthers
    Noise <- MCNoise
    Writes <- MCWrites
    Chunks = {6, 20}
    AGG_MAX_SIZE = 31
    Commands = {"armed", "disarmed"}
    LINE_MAX = 30
    MaxSwitches = 2
INVARIANTS
    FramesInOrder
    SplitUndoesJoin
    OneCommandAtATime
PROPERTIES
    ArmFollowed
