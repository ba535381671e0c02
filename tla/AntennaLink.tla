------------------------------ MODULE AntennaLink ------------------------------
(***************************************************************************)
(* Two stations, each with an antenna selector, and the keepalives of the  *)
(* tunnel (TUNTAPProtocol.send_keepalive), by which they find each other.  *)
(*                                                                         *)
(* A pair of cards, one of each station, hears each other or not, in both  *)
(* directions; pairs come and go.  A station transmits on the card that    *)
(* the tunnel's peer points to; while it has heard nothing for two         *)
(* keepalive intervals it also sends a keepalive on every card.            *)
(*                                                                         *)
(* A round is one log_interval: wfb_rx reports the packets that it counted *)
(* for each antenna once, the selector aggregates the reports once, and    *)
(* send_keepalive fires twice, the ticks of the two ends alternating.      *)
(* Otherwise the timers are not synchronised.  At one end either the       *)
(* report or the aggregation comes first, and now and then the two drift   *)
(* past each other, so that a report is superseded or an aggregation finds *)
(* none.  The statistics are those of the tunnel's wfb_rx.                 *)
(***************************************************************************)
EXTENDS AntennaSelector

CONSTANTS
    Station,     \* for each end: its cards, which of them are rx_only, and its services
    Antennas,    \* how many antennas a card has
    RssiAt(_, _), \* the RSSI at an antenna of an end
    Pairs,       \* the pairs of cards that may hear each other
    Bursts,      \* how many data packets the tunnel may send in a keepalive interval
    MaxChanges   \* bound: how often pairs come or go, or timers slip

Ends == DOMAIN Station

ASSUME AntennaAssumption ==
    /\ Cardinality(Ends) = 2
    /\ \A e \in Ends : "tunnel" \in Station[e].services /\ TxMap(Station[e]) # {}
    /\ Pairs \subseteq [Ends -> UNION {Station[e].cards : e \in Ends}]

VARIABLES
    sel,         \* the AntStatsAndSelector of each end
    ant,         \* RXAntennaProtocol.ant of the tunnel's wfb_rx
    count,       \* the packets that the tunnel's wfb_rx counted, for each end and card
    pkt_in_sem,  \* TUNTAPProtocol.pkt_in_sem
    lost,        \* what the autopilot was told last: LINK_LOST or not
    due,         \* the timers that have not fired in this round
    first,       \* which of an end's report and aggregation comes first in a round
    up,          \* the pairs that hear each other
    changes      \* how often pairs came or went, or timers slipped

vars == <<sel, ant, count, pkt_in_sem, lost, due, first, up, changes>>

Other(e) == CHOOSE o \in Ends : o # e

Ticks == {"keepalive1", "keepalive2"}
Timers == Ends \X (Ticks \cup {"report", "aggregate"})

NoPackets == [e \in Ends |-> [w \in Station[e].cards |-> 0]]

Init ==
    /\ sel = [e \in Ends |-> NewSelector]
    /\ ant = [e \in Ends |-> << >>]
    /\ count = NoPackets
    /\ pkt_in_sem = [e \in Ends |-> 0]
    /\ lost = [e \in Ends |-> FALSE]
    /\ due = Timers
    /\ first = [e \in Ends |-> "report"]
    /\ up \in {{}, Pairs}
    /\ changes = 0

-----------------------------------------------------------------------------
(* The order within a round.  The ticks of the two ends, which have one    *)
(* period, alternate.                                                      *)
Precedes(t, u) ==
    \/ t[2] = "keepalive1" /\ u[2] = "keepalive2"
    \/ t[2] = u[2] /\ t[2] \in Ticks /\ u[1] = Other(t[1]) /\ t[1] = CHOOSE e \in Ends : TRUE
    \/ t[1] = u[1] /\ t[2] = first[t[1]] /\ u[2] \in {"report", "aggregate"} \ {t[2]}

Fires(timer) ==
    /\ timer \in due
    /\ \A t \in due : ~Precedes(t, timer)
    /\ due' = IF due = {timer} THEN Timers ELSE due \ {timer}

(* A service whose wfb_tx has announced its sockets registers. *)
Join(e) ==
    /\ \E service \in Station[e].services \ DOMAIN sel[e].peers :
          sel' = [sel EXCEPT ![e] = add_ant_sel_cb(@, service, Station[e])]
    /\ UNCHANGED <<ant, count, pkt_in_sem, lost, due, first, up, changes>>

(* init_tunnel has set the peers and started wfb_rx. *)
Joined(e) == "tunnel" \in DOMAIN sel[e].peers

(* The packets that the other end's cards hear when n packets are sent to  *)
(* the tunnel's peer and, if all, a keepalive to every peer.               *)
Heard(e, n, all) ==
    [w \in Station[Other(e)].cards |->
        LET On(v) == \E p \in up : p[e] = v /\ p[Other(e)] = w
        IN  IF ~Joined(e) \/ ~Joined(Other(e)) THEN 0
            ELSE (IF On(sel[e].peers["tunnel"]) THEN n ELSE 0)
                 + (IF all THEN Cardinality({v \in TxMap(Station[e]) : On(v)}) ELSE 0)]

(* The other end's TUNTAPProtocol.write: every packet renews pkt_in_sem.   *)
Send(e, n, all) ==
    \E heard \in {Heard(e, n, all)} :
        /\ count' = [count EXCEPT ![Other(e)] = [w \in DOMAIN @ |-> @[w] + heard[w]]]
        /\ pkt_in_sem' = [pkt_in_sem EXCEPT
              ![e] = IF @ > 0 THEN @ - 1 ELSE 0,
              ![Other(e)] = IF \E w \in DOMAIN heard : heard[w] > 0 THEN 2 ELSE @]

(* Mutant: keepalives are sent on the current card only. *)
Tick_current(e) ==
    /\ \E tick \in Ticks : Fires(<<e, tick>>)
    /\ \E n \in Bursts : Send(e, Max({n, 1}), FALSE)
    /\ UNCHANGED <<sel, ant, lost, first, up, changes>>

(* The data packets of a keepalive interval, and send_keepalive at its     *)
(* end: to all peers if nothing was heard, otherwise to the present one if *)
(* there was no data (pkt_out_sem = 0).                                    *)
Tick(e) ==
    /\ \E tick \in Ticks : Fires(<<e, tick>>)
    /\ \E n \in Bursts :
          IF pkt_in_sem[e] = 0 THEN Send(e, n, TRUE) ELSE Send(e, Max({n, 1}), FALSE)
    /\ UNCHANGED <<sel, ant, lost, first, up, changes>>

(* wfb_rx reports what it counted since its last report.  A report that    *)
(* was not aggregated is superseded: its counts are lost.                  *)
Report(e) ==
    LET cards == {w \in Station[e].cards : count[e][w] > 0}
        lines == [a \in cards \X (0 .. Antennas - 1) |-> [pkts |-> count[e][a[1]], rssi |-> RssiAt(e, a)]]
    IN  /\ Fires(<<e, "report">>)
        /\ IF Joined(e)
           THEN \E r \in {lineReceived(ant[e], lines)} :
                   /\ sel' = [sel EXCEPT ![e] = update_rx_stats(@, "tunnel", r.stats)]
                   /\ ant' = [ant EXCEPT ![e] = r.ant]
           ELSE UNCHANGED <<sel, ant>>
        /\ count' = [count EXCEPT ![e] = NoPackets[e]]
        /\ UNCHANGED <<pkt_in_sem, lost, first, up, changes>>

(* The LoopingCall of aggregate_stats; the RSSI callback is the mavlink    *)
(* service's.                                                              *)
Aggregate(e) ==
    /\ Fires(<<e, "aggregate">>)
    /\ sel' = [sel EXCEPT ![e] = aggregate_stats(@, Station[e])]
    /\ lost' = [lost EXCEPT ![e] = IF "mavlink" \in DOMAIN sel[e].peers THEN LinkLost(sel[e]) ELSE @]
    /\ UNCHANGED <<ant, count, pkt_in_sem, first, up, changes>>

(* Pairs of cards come into range or go out of it. *)
Change ==
    /\ changes < MaxChanges
    /\ changes' = changes + 1
    /\ \E u \in (SUBSET Pairs) \ {up} : up' = u
    /\ UNCHANGED <<sel, ant, count, pkt_in_sem, lost, due, first>>

(* The report and the aggregation of an end drift past each other. *)
Slip ==
    /\ changes < MaxChanges
    /\ changes' = changes + 1
    /\ \E e \in Ends :
          /\ {<<e, "report">>, <<e, "aggregate">>} \subseteq due
          /\ first' = [first EXCEPT ![e] = IF @ = "report" THEN "aggregate" ELSE "report"]
    /\ UNCHANGED <<sel, ant, count, pkt_in_sem, lost, due, up>>

Next == (\E e \in Ends : Join(e) \/ Tick(e) \/ Report(e) \/ Aggregate(e)) \/ Change \/ Slip

(* The reactor's loops tick, wfb_rx reports, and services come up. *)
Fairness == WF_due(\E timer \in Timers : Fires(timer)) /\ \A e \in Ends : WF_vars(Join(e))

Spec == Init /\ [][Next]_vars /\ Fairness

-----------------------------------------------------------------------------
(* Whenever a service registered, before or after a switch, it transmits   *)
(* on the selected card, and that card is not RX-only (add_ant_sel_cb,     *)
(* select_tx_antenna).                                                     *)
PeersFollowSelection ==
    \A e \in Ends : \A s \in DOMAIN sel[e].peers :
        /\ sel[e].tx_sel # None => sel[e].peers[s] = sel[e].tx_sel
        /\ sel[e].peers[s] \in TxMap(Station[e])

(* If in the end the working pairs stay and one of them joins two cards    *)
(* that may transmit, then in the end both stations transmit on a card     *)
(* that the other one hears: "This allow to use multiple directed antennas *)
(* on the both ends" (send_keepalive with select_tx_antenna).              *)
Works(p) == \A e \in Ends : p[e] \in TxMap(Station[e])
Reaches(e) ==
    Joined(e) /\ \E p \in up : p[e] = sel[e].peers["tunnel"]
WorkingCardFound ==
    <>[](\E p \in up : Works(p)) => \A e \in Ends : <>[]Reaches(e)

(* When the last pair is gone for good, the autopilot is told in the end,  *)
(* and not told otherwise afterwards (aggregate_stats).                    *)
LostLinkReported ==
    <>[](up = {}) => \A e \in Ends : "mavlink" \in Station[e].services => <>[](lost[e])

=============================================================================
