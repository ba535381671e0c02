SPECIFICATION FairSpec
CONSTANTS
    Nodes = {n1, n2, n3}
    INVALID_NODE = none
    INTERLEAVE_RATIO = 4
    MIN_WINDOW = 50
    STEP_UP = 100
    ELASTIC_MARGIN = 50
    MICRO_PROBE_DURATION_MS = 15
    num_nodes = 10
    SilenceWrap = 256
    min_window_ms = 50
    max_window_ms = 300
    manager_attached = FALSE
PROPERTIES
    EveryNodeGetsTokens
CHECK_DEADLOCK FALSE
