SPECIFICATION Spec
CONSTANTS
    ground = ground
    vehicle = vehicle
    Ends = {ground, vehicle}
    RADIO_MTU = 7
    Sizes = {1, 5}
    MaxReads <- MCMaxReads
    Faults = TRUE
INVARIANTS
    QueueTimed
    DatagramsFit
    PacketsIntact
    NoBroadcastWhileHeard
PROPERTIES
    EveryPacketArrives
