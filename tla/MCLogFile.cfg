SPECIFICATION Spec
CONSTANTS
    Producers = {p1, p2}
    log_max = 1
    MaxWrites = 5
    MaxFailures = 2
INVARIANTS
    DropsCountedOnce
    ItemsInOrder
    WrittenAtExit
PROPERTIES
    ExitTerminates
CHECK_DEADLOCK FALSE
