------------------------------ MODULE Tunnel ------------------------------
(***************************************************************************)
(* The IP tunnel between two stations (wfb_ng/tuntap.py on top of          *)
(* wfb_ng/proxy.py; wired up by init_tunnel of wfb_ng/services.py).        *)
(*                                                                         *)
(* TUNTAPProtocol.dataReceived puts a two-byte length before every packet  *)
(* that it reads from the TUN device and hands it to the aggregation       *)
(* queue; the queue sends batches to wfb_tx.  What arrives from wfb_rx is  *)
(* taken apart by TUNTAPProtocol.write and queued for the TUN device.      *)
(* A LoopingCall sends keepalives.                                         *)
(*                                                                         *)
(* air[e] holds the datagrams between the two processes (wfb_tx, radio,    *)
(* wfb_rx): it keeps their order, and may lose one or cut one short (a     *)
(* station with a smaller radio_mtu).  An interval of the keepalive loop   *)
(* (500 ms) is long against agg_timeout (5 ms) and the radio's latency:    *)
(* a tick happens when no timer and no datagram is pending.  The loops of  *)
(* both stations have the same period, so their ticks alternate.           *)
(***************************************************************************)
EXTENDS AggQueue

CONSTANTS
    Ends,       \* the two stations
    RADIO_MTU,  \* settings.common.radio_mtu
    Sizes,      \* the sizes of IP packets: the kernel keeps them to the TUN's MTU
    MaxReads,   \* bound: packets read by a station
    Faults      \* whether the air loses and cuts datagrams, and TUN writes fail

ASSUME TunnelAssumption ==
    /\ \E a, b \in Ends : a # b /\ Ends = {a, b}
    /\ RADIO_MTU \in Nat
    /\ RADIO_MTU < 65536
    /\ Sizes \subseteq 1 .. (RADIO_MTU - 2)
    /\ MaxReads \in [Ends -> Nat]
    /\ Faults \in BOOLEAN

VARIABLES
    agg,          \* ProxyProtocol: the aggregation queue
    pkt_in_sem,   \* TUNTAPProtocol.pkt_in_sem
    pkt_out_sem,  \* TUNTAPProtocol.pkt_out_sem
    queue,        \* TUNTAPTransport.queue: packets for the TUN device
    connected,    \* TUNTAPTransport.connected
    air,          \* the datagrams on the way to a station
    turn,         \* the station whose keepalive loop ticks next
    read,         \* history: the sizes of the packets read from the TUN device
    written,      \* history: the packets written to the TUN device
    heard,        \* history: has the station heard its peer, with no loss since?
    faulty        \* history: has anything towards the station failed?

vars == <<agg, pkt_in_sem, pkt_out_sem, queue, connected, air, turn, read, written, heard, faulty>>

Peer(e) == CHOOSE p \in Ends : p # e

(* struct.pack('!H', n), and the content of the n-th packet of a station. *)
Length2(n) == <<n \div 256, n % 256>>
Body(n, size) == [k \in 1 .. size |-> n]

-----------------------------------------------------------------------------
Init ==
    /\ agg = [e \in Ends |-> EmptyQueue]
    /\ pkt_in_sem = [e \in Ends |-> 0]
    /\ pkt_out_sem = [e \in Ends |-> 0]
    /\ queue = [e \in Ends |-> << >>]
    /\ connected = [e \in Ends |-> TRUE]
    /\ air = [e \in Ends |-> << >>]
    /\ turn \in Ends
    /\ read = [e \in Ends |-> << >>]
    /\ written = [e \in Ends |-> << >>]
    /\ heard = [e \in Ends |-> FALSE]
    /\ faulty = [e \in Ends |-> FALSE]

(* doRead, dataReceived and messageReceived *)
Read(e) ==
    /\ connected[e]
    /\ Len(read[e]) < MaxReads[e]
    /\ \E size \in Sizes :
          LET data == Length2(size) \o Body(Len(read[e]) + 1, size)
              r == messageReceived(agg[e], data, RADIO_MTU)
          IN  /\ agg' = [agg EXCEPT ![e] = r.queue]
              /\ air' = [air EXCEPT ![Peer(e)] = @ \o r.sent]
              /\ read' = [read EXCEPT ![e] = Append(@, size)]
    /\ pkt_out_sem' = [pkt_out_sem EXCEPT ![e] = 1]
    /\ UNCHANGED <<pkt_in_sem, queue, connected, turn, written, heard, faulty>>

(* The aggregation timer fires. *)
Flush(e) ==
    /\ agg[e].timer = "pending"
    /\ LET r == flush_queue(agg[e])
       IN  /\ agg' = [agg EXCEPT ![e] = r.queue]
           /\ air' = [air EXCEPT ![Peer(e)] = @ \o r.sent]
    /\ UNCHANGED <<pkt_in_sem, pkt_out_sem, queue, connected, turn, read, written, heard, faulty>>

(* Mutant: only the first packet of a batch is taken. *)
UnbatchFirst(msg) ==
    IF Len(msg) < 2 \/ Len(msg) - 2 < 256 * msg[1] + msg[2] THEN << >>
    ELSE <<SubSeq(msg, 3, 2 + 256 * msg[1] + msg[2])>>

(* The loop of write, from the i-th byte of the batch: a packet is cut off *)
(* until fewer than two bytes are left, or a body is incomplete.           *)
Unbatch(msg) ==
    LET from[i \in 1 .. Len(msg) + 1] ==
            IF Len(msg) + 1 - i < 2 THEN << >>
            ELSE LET size == 256 * msg[i] + msg[i + 1]
                 IN  IF Len(msg) - (i + 1) < size THEN << >>
                     ELSE <<SubSeq(msg, i + 2, i + 1 + size)>> \o from[i + 2 + size]
    IN  from[1]

(* Mutant: a keepalive is recognised before it is counted. *)
DeliverUncounted(e) ==
    /\ air[e] # << >>
    /\ air' = [air EXCEPT ![e] = Tail(@)]
    /\ pkt_in_sem' = [pkt_in_sem EXCEPT ![e] = IF Head(air[e]) = << >> THEN @ ELSE 2]
    /\ queue' = [queue EXCEPT ![e] = IF connected[e] THEN @ \o Unbatch(Head(air[e])) ELSE @]
    /\ heard' = [heard EXCEPT ![e] = TRUE]
    /\ UNCHANGED <<agg, pkt_out_sem, connected, turn, read, written, faulty>>

(* UDPProxyProtocol.datagramReceived passes the datagram on to             *)
(* TUNTAPProtocol.write; TUNTAPTransport.write drops what comes after the  *)
(* TUN device is gone.                                                     *)
Deliver(e) ==
    /\ air[e] # << >>
    /\ air' = [air EXCEPT ![e] = Tail(@)]
    /\ pkt_in_sem' = [pkt_in_sem EXCEPT ![e] = 2]
    /\ queue' = [queue EXCEPT ![e] = IF connected[e] THEN @ \o Unbatch(Head(air[e])) ELSE @]
    /\ heard' = [heard EXCEPT ![e] = TRUE]
    /\ UNCHANGED <<agg, pkt_out_sem, connected, turn, read, written, faulty>>

(* Mutant: what the device took before it refused stays in the queue. *)
TunWriteKeeps(e) ==
    /\ connected[e]
    /\ \E n \in 1 .. Len(queue[e]) :
          /\ written' = [written EXCEPT ![e] = @ \o SubSeq(queue[e], 1, n)]
          /\ queue' = [queue EXCEPT ![e] = IF n = Len(@) THEN << >> ELSE @]
    /\ UNCHANGED <<agg, pkt_in_sem, pkt_out_sem, connected, air, turn, read, heard, faulty>>

(* doWrite: the device takes the first n packets; then the queue is empty, *)
(* or os.write took nothing and the rest waits.                            *)
TunWrite(e) ==
    /\ connected[e]
    /\ \E n \in 1 .. Len(queue[e]) :
          /\ written' = [written EXCEPT ![e] = @ \o SubSeq(queue[e], 1, n)]
          /\ queue' = [queue EXCEPT ![e] = SubSeq(@, n + 1, Len(@))]
    /\ UNCHANGED <<agg, pkt_in_sem, pkt_out_sem, connected, air, turn, read, heard, faulty>>

(* os.write or os.read raises: the reactor disconnects the transport,      *)
(* connectionLost closes the device, and nobody opens it again.            *)
TunFails(e) ==
    /\ Faults
    /\ connected[e]
    /\ connected' = [connected EXCEPT ![e] = FALSE]
    /\ faulty' = [faulty EXCEPT ![e] = TRUE]
    /\ UNCHANGED <<agg, pkt_in_sem, pkt_out_sem, queue, air, turn, read, written, heard>>

Lose(e) ==
    /\ Faults
    /\ air[e] # << >>
    /\ air' = [air EXCEPT ![e] = Tail(@)]
    /\ heard' = [heard EXCEPT ![e] = FALSE]
    /\ faulty' = [faulty EXCEPT ![e] = TRUE]
    /\ UNCHANGED <<agg, pkt_in_sem, pkt_out_sem, queue, connected, turn, read, written>>

Cut(e) ==
    /\ Faults
    /\ air[e] # << >>
    /\ \E n \in 1 .. Len(Head(air[e])) - 1 :
          air' = [air EXCEPT ![e] = <<SubSeq(Head(@), 1, n)>> \o Tail(@)]
    /\ faulty' = [faulty EXCEPT ![e] = TRUE]
    /\ UNCHANGED <<agg, pkt_in_sem, pkt_out_sem, queue, connected, turn, read, written, heard>>

(* The LoopingCall of station e is due: see the header for why then nothing *)
(* is under way.                                                            *)
Due(e) ==
    /\ turn = e
    /\ \A p \in Ends : agg[p].timer # "pending" /\ air[p] = << >>

(* send_keepalive: b'' goes to all antennas or to the current one, which   *)
(* is one datagram on this single path.                                    *)
Keepalive(e) ==
    /\ Due(e)
    /\ air' = [air EXCEPT ![Peer(e)] =
                  IF pkt_in_sem[e] = 0 \/ pkt_out_sem[e] = 0 THEN << << >> >> ELSE << >>]
    /\ pkt_in_sem' = [pkt_in_sem EXCEPT ![e] = IF @ > 0 THEN @ - 1 ELSE @]
    /\ pkt_out_sem' = [pkt_out_sem EXCEPT ![e] = IF @ > 0 THEN @ - 1 ELSE @]
    /\ turn' = Peer(e)
    /\ UNCHANGED <<agg, queue, connected, read, written, heard, faulty>>

Next ==
    \E e \in Ends : \/ Read(e) \/ Flush(e) \/ Deliver(e) \/ TunWrite(e) \/ Keepalive(e)
                    \/ TunFails(e) \/ Lose(e) \/ Cut(e)

(* The reactor fires timers that are due and serves descriptors that are   *)
(* ready; the device does not refuse packets for ever.                     *)
Fairness ==
    \A e \in Ends : WF_vars(Flush(e)) /\ WF_vars(Deliver(e)) /\ WF_vars(TunWrite(e))

Spec == Init /\ [][Next]_vars /\ Fairness

-----------------------------------------------------------------------------
Bytes == Seq(Nat)
QueueType == [bytes : Bytes, size : Nat, timer : {"none", "pending", "called"}]
TypeOK ==
    /\ agg \in [Ends -> QueueType]
    /\ pkt_in_sem \in [Ends -> 0 .. 2]
    /\ pkt_out_sem \in [Ends -> 0 .. 1]
    /\ air \in [Ends -> Seq(Bytes)]
    /\ connected \in [Ends -> BOOLEAN]
    /\ turn \in Ends
    /\ read \in [Ends -> Seq(Sizes)]

(* The aggregation queue never passes radio_mtu, and something waits in it *)
(* exactly while its timer is pending: no packet can be stranded, and no   *)
(* cancel() can raise AlreadyCalled (messageReceived, flush_queue).        *)
Timed(q) == /\ q.size = Len(q.bytes)
            /\ q.size <= RADIO_MTU
            /\ q.timer = IF q.size > 0 THEN "pending" ELSE "none"
QueueTimed == \A e \in Ends : Timed(agg[e])

(* No datagram is longer than radio_mtu, and no packet is refused as       *)
(* "Message too big": the two bytes that TUNTAPTransport takes off the     *)
(* TUN's MTU leave room for the header that dataReceived adds.             *)
Fits(datagrams) == \A k \in DOMAIN datagrams : Len(datagrams[k]) <= RADIO_MTU
DatagramsFit ==
    /\ \A e \in Ends : Fits(air[e])
    /\ \A e \in Ends : \A size \in Sizes :
           messageReceived(agg[e], Length2(size) \o Body(1, size), RADIO_MTU).outcome = "ok"

(* What a station writes to its TUN device are packets that the other one  *)
(* read, whole, in the order of reading and at most once, whatever the air *)
(* loses or cuts and wherever the device refuses (Unbatch undoes the       *)
(* framing of dataReceived; doWrite pops what was written).                *)
PacketsIntact ==
    \A e \in Ends :
        LET from == read[Peer(e)]
        IN  /\ \A k \in DOMAIN written[e] :
                   \E n \in DOMAIN from : written[e][k] = Body(n, from[n])
            /\ \A j, k \in DOMAIN written[e] : j < k => written[e][j][1] < written[e][k][1]

(* While a station hears its peer and nothing is lost, it never falls back *)
(* to the keepalive on all antennas: the peer is silent for less than two  *)
(* intervals, whatever mix of data and keepalives it sends                 *)
(* (send_keepalive, pkt_in_sem and pkt_out_sem of both stations).          *)
NoBroadcastWhileHeard ==
    \A e \in Ends : Due(e) /\ pkt_in_sem[e] = 0 => ~heard[e]

(* Every packet that a station reads is written to the TUN device of the   *)
(* other one, unless the air or the device failed.                         *)
EveryPacketArrives ==
    \A e \in Ends : \A n \in 1 .. MaxReads[Peer(e)] :
        Len(read[Peer(e)]) >= n ~> Len(written[e]) >= n \/ faulty[e]

=============================================================================
