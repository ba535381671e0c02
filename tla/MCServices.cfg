SPECIFICATION Spec
CONSTANTS
    Names = {"a", "b"}
    Profiles <- MCProfiles
    Wlans <- MCWlans
    Nodes = {"node"}
    Modes = {"primary", "secondary", "ssh"}
INVARIANTS
    CardsPreparedFirst
    ReceiverHasOutlet
    ExitStatusTells
PROPERTIES
    FailureStopsServer
    ServicesComeUp
CHECK_DEADLOCK FALSE
