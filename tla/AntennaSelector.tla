------------------------------ MODULE AntennaSelector ------------------------------
(***************************************************************************)
(* AntStatsAndSelector of wfb_ng/protocols.py, which adds up the antenna   *)
(* statistics of all wfb_rx processes of a profile and selects the card    *)
(* that transmits, and RXAntennaProtocol, which reads the statistics from  *)
(* wfb_rx.  The selector is a record:                                      *)
(*   tx_sel     the selected card, or None                                 *)
(*   cur_stats  what each wfb_rx reported since the last aggregation       *)
(*   peers      the services that called add_ant_sel_cb, and the card to   *)
(*              which their callback points p_in.peer                      *)
(* An antenna is a pair <<card, number>> (ant_id is card << 8 | number);   *)
(* its statistics are the packets and the average RSSI.                    *)
(***************************************************************************)
EXTENDS Integers, FiniteSets, FiniteSetsExt, Functions

CONSTANTS
    tx_sel_rssi_delta,         \* [dB]
    tx_sel_counter_abs_delta,  \* [packets]
    tx_sel_counter_rel_delta   \* [percent]

None == -1

NewSelector == [tx_sel |-> None, cur_stats |-> << >>, peers |-> << >>]

(* One function overrides and extends another (a dict update). *)
Updated(f, x, v) == [y \in DOMAIN f \cup {x} |-> IF y = x THEN v ELSE f[y]]

-----------------------------------------------------------------------------
(* RXAntennaProtocol.  wfb_rx prints an RX_ANT line for every antenna that *)
(* heard a packet of its stream, and a PKT line after them.                *)

lineReceived(ant, lines) ==
    [stats |-> [a \in DOMAIN ant \cup DOMAIN lines |->
                   IF a \in DOMAIN lines THEN lines[a] ELSE ant[a]],
     ant |-> << >>]

update_rx_stats(s, rx_id, ant_stats) ==
    [s EXCEPT !.cur_stats = Updated(@, rx_id, ant_stats)]

-----------------------------------------------------------------------------
(* AntStatsAndSelector *)

(* station.cards are the cards that wfb_tx announced, station.rx_only the  *)
(* rx_only_wlan_ids; p_tx_map has the cards that may transmit.             *)
TxMap(station) == station.cards \ station.rx_only

(* ant_sel_cb: p_in.peer = p_tx_map[wlan_id], or the first for None.  An   *)
(* unknown card is a KeyError, which the caller logs.                      *)
ant_sel_cb(peer, wlan, station) ==
    IF wlan = None THEN Min(TxMap(station))
    ELSE IF wlan \in TxMap(station) THEN wlan ELSE peer

(* Mutant: the new callback is first called at the next switch. *)
add_ant_sel_cb_later(s, service, station) ==
    [s EXCEPT !.peers = Updated(@, service, Min(TxMap(station)))]

add_ant_sel_cb(s, service, station) ==
    [s EXCEPT !.peers = Updated(@, service, ant_sel_cb(None, s.tx_sel, station))]

_stats_agg_by_freq_and_rxid(ant_stats_by_rx) ==
    LET ants == UNION {DOMAIN ant_stats_by_rx[r] : r \in DOMAIN ant_stats_by_rx}
        By(a) == {r \in DOMAIN ant_stats_by_rx : a \in DOMAIN ant_stats_by_rx[r]}
        Pkts(a) == MapThenSumSet(LAMBDA r : ant_stats_by_rx[r][a].pkts, By(a))
        Weighted(a) == MapThenSumSet(LAMBDA r : ant_stats_by_rx[r][a].pkts * ant_stats_by_rx[r][a].rssi, By(a))
    IN  [a \in ants |-> [pkts |-> Pkts(a), rssi |-> Weighted(a) \div Pkts(a)]]

(* The cards in the vote: heard, and not RX-only. *)
Candidates(agg, station) == {a[1] : a \in DOMAIN agg} \ station.rx_only

(* Of the cards with a near-maximum packet counter the one with the best   *)
(* RSSI, unless the present one is among them and hardly worse.            *)
select_tx_antenna(tx_sel, agg, station) ==
    LET wlans == Candidates(agg, station)
        Rssi(w) == Max({agg[a].rssi : a \in {b \in DOMAIN agg : b[1] = w}})
        Pkts(w) == Max({agg[a].pkts : a \in {b \in DOMAIN agg : b[1] = w}})
        max_pkts == Max({Pkts(w) : w \in wlans})
        margin == Max({100 * tx_sel_counter_abs_delta, max_pkts * tx_sel_counter_rel_delta})
        near == {w \in wlans : 100 * Pkts(w) >= 100 * max_pkts - margin}
        new == CHOOSE w \in near : \A v \in near :
                   Rssi(v) < Rssi(w) \/ (Rssi(v) = Rssi(w) /\ v <= w)
    IN  IF wlans = {} THEN tx_sel
        ELSE IF tx_sel \in near /\ Rssi(new) - Rssi(tx_sel) < tx_sel_rssi_delta THEN tx_sel
        ELSE new

(* The statistics are taken, the card is selected, and on a switch every   *)
(* callback is called.                                                     *)
aggregate_stats(s, station) ==
    LET agg == _stats_agg_by_freq_and_rxid(s.cur_stats)
        new == IF DOMAIN agg # {} /\ DOMAIN s.peers # {}
               THEN select_tx_antenna(s.tx_sel, agg, station) ELSE s.tx_sel
    IN  [s EXCEPT !.cur_stats = << >>, !.tx_sel = new,
                  !.peers = IF new = s.tx_sel THEN @ ELSE [p \in DOMAIN @ |-> ant_sel_cb(s.peers[p], new, station)]]

(* Mutant: the link is lost only when no wfb_rx reports at all. *)
LinkLost_silent(s) == DOMAIN s.cur_stats = {}

(* What the RSSI callbacks are told: is the link lost? *)
LinkLost(s) == \A r \in DOMAIN s.cur_stats : DOMAIN s.cur_stats[r] = {}

=============================================================================
