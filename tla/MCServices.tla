------------------------------ MODULE MCServices ------------------------------
(***************************************************************************)
(* Three profiles of two services, which have every kind of service, two   *)
(* cards and a node.                                                       *)
(***************************************************************************)
EXTENDS Services

Service(type, streams, asks) == [type |-> type, streams |-> streams, asks |-> asks]

MCProfiles ==
    {[a |-> Service("mavlink", {"tx", "rx"}, TRUE), b |-> Service("udp_proxy", {"tx", "rx"}, TRUE)],
     [a |-> Service("tunnel", {"tx", "rx"}, FALSE), b |-> Service("udp_direct_tx", {"tx"}, TRUE)],
     [a |-> Service("udp_direct_rx", {"rx"}, FALSE), b |-> Service("udp_proxy", {"rx"}, FALSE)]}

MCWlans == <<"wlan0", "wlan1">>

=============================================================================
