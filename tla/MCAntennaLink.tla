------------------------------ MODULE MCAntennaLink ------------------------------
(***************************************************************************)
(* The ground has two cards and a receive-only one, the vehicle has two;   *)
(* the cards are on different channels, but for the receive-only one.      *)
(***************************************************************************)
EXTENDS AntennaLink

MCStation ==
    [e \in {"ground", "vehicle"} |->
        IF e = "ground" THEN [cards |-> {0, 1, 2}, rx_only |-> {0}, services |-> {"tunnel", "mavlink"}]
                        ELSE [cards |-> {0, 1}, rx_only |-> {}, services |-> {"tunnel"}]]

Pair(g, v) == [e \in {"ground", "vehicle"} |-> IF e = "ground" THEN g ELSE v]
MCPairs == {Pair(0, 1), Pair(1, 0), Pair(2, 1)}

MCRssi(e, a) == -60 - 5 * a[1] - a[2]

=============================================================================
