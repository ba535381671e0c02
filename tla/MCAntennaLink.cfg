SPECIFICATION Spec
CONSTANTS
    tx_sel_rssi_delta = 3
    tx_sel_counter_abs_delta = 0
    tx_sel_counter_rel_delta = 10
    Station <- MCStation
    Antennas = 1
    RssiAt <- MCRssi
    Pairs <- MCPairs
    Bursts = {0, 1}
    MaxChanges = 1
INVARIANTS
    PeersFollowSelection
PROPERTIES
    WorkingCardFound
    LostLinkReported
