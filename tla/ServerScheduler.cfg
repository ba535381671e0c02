SPECIFICATION Spec
CONSTANTS
    Nodes = {n1, n2, n3}
    INVALID_NODE = none
    INTERLEAVE_RATIO = 2
    MIN_WINDOW = 50
    STEP_UP = 100
    ELASTIC_MARGIN = 50
    MICRO_PROBE_DURATION_MS = 15
    num_nodes = 10
    SilenceWrap = 5
    Windows <- MCWindows
INVARIANTS
    SchedulerAgreesWithQueues
    SleepersProbed
PROPERTIES
    WatchdogNeedsThreeSilences
