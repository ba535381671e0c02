------------------------------ MODULE TunnelProofs ------------------------------
(***************************************************************************)
(* Proofs about Tunnel, for every radio_mtu, every set of packet sizes and *)
(* any number of packets.                                                  *)
(*                                                                         *)
(* The aggregation queue of both stations is timed and within bounds, and  *)
(* no datagram exceeds radio_mtu. The invariant is inductive together with *)
(* the types: the early flush of messageReceived may cancel the timer      *)
(* because the timer is pending, and it is pending because a queue that    *)
(* overflows is not empty.                                                 *)
(*                                                                         *)
(* While nothing is lost, the keepalive timer never fires with pkt_in_sem  *)
(* at 0: something of the peer was counted, is in the air, or is due       *)
(* before the timer.                                                       *)
(*                                                                         *)
(* The packets written to the TUN device are packets the peer read, whole  *)
(* and in order. The bytes between the two stations are a stream: what was *)
(* unbatched, the datagrams in the air and the queue of the sender, each a *)
(* piece of it that begins and ends with a packet, except that a datagram  *)
(* cut short in the air ends early.                                        *)
(***************************************************************************)
EXTENDS Tunnel, SequenceTheorems, WellFoundedInduction, TLAPS

IInv == TypeOK /\ QueueTimed /\ \A e \in Ends : Fits(air[e])

(* The peer of a station is a station (Ends has two members). *)
LEMMA PeerIsEnd == ASSUME NEW e \in Ends PROVE Peer(e) \in Ends
<1>1. \E p \in Ends : p # e
  BY TunnelAssumption
<1> QED
  BY <1>1 DEF Peer

(* What dataReceived hands to messageReceived is a byte string that is two *)
(* bytes longer than the packet, and fits a datagram.                      *)
LEMMA FramedPacket ==
    ASSUME NEW n \in Nat, NEW size \in Sizes
    PROVE  /\ Length2(size) \o Body(n, size) \in Bytes
           /\ Len(Length2(size) \o Body(n, size)) = size + 2
           /\ size \in Nat
           /\ size + 2 <= RADIO_MTU
<1>1. size \in Nat /\ size >= 1 /\ size + 2 <= RADIO_MTU /\ RADIO_MTU \in Nat
  BY TunnelAssumption
<1>2. size \div 256 \in Nat /\ size % 256 \in Nat
  BY <1>1
<1>3. Length2(size) \in Seq(Nat) /\ Len(Length2(size)) = 2
  BY <1>2 DEF Length2
<1>4. Body(n, size) \in Seq(Nat) /\ Len(Body(n, size)) = size
  BY <1>1 DEF Body
<1>5. \A s, t \in Seq(Nat) : s \o t \in Seq(Nat) /\ Len(s \o t) = Len(s) + Len(t)
  OBVIOUS
<1>6. Length2(size) \o Body(n, size) \in Seq(Nat)
      /\ Len(Length2(size) \o Body(n, size)) = 2 + size
  BY <1>3, <1>4, <1>5, ZenonT(60)
<1> QED
  BY <1>1, <1>6 DEF Bytes

(* messageReceived keeps the queue timed and within bounds; what it sends  *)
(* early is the old queue, which fits; and it never raises AlreadyCalled.  *)
LEMMA ReceiveKeeps ==
    ASSUME NEW q \in QueueType, Timed(q), NEW data \in Bytes,
           Len(data) > 0, Len(data) <= RADIO_MTU
    PROVE  LET r == messageReceived(q, data, RADIO_MTU)
           IN  /\ r.queue \in QueueType /\ Timed(r.queue)
               /\ r.sent \in Seq(Bytes) /\ Fits(r.sent)
               /\ r.outcome = "ok" /\ r.queue.timer = "pending"
<1> DEFINE r == messageReceived(q, data, RADIO_MTU)
<1>0. /\ RADIO_MTU \in Nat /\ Len(data) \in Nat /\ q.size \in Nat /\ q.bytes \in Bytes
      /\ q.size = Len(q.bytes) /\ q.size <= RADIO_MTU
      /\ q.timer = IF q.size > 0 THEN "pending" ELSE "none"
  BY TunnelAssumption DEF QueueType, Timed, Bytes
<1>01. ~(Len(data) > RADIO_MTU) /\ "pending" # "called"
  BY <1>0
<1>1. CASE q.size + Len(data) > RADIO_MTU
  <2>1. q.size > 0 /\ q.timer = "pending"
    BY <1>0, <1>1
  <2>2. r = Result([bytes |-> data, size |-> Len(data), timer |-> "pending"], <<q.bytes>>, "ok")
    BY <1>01, <1>1, <2>1, Zenon DEF messageReceived
  <2>3. r.queue \in QueueType /\ Timed(r.queue) /\ r.queue.timer = "pending"
    BY <1>0, <2>2 DEF Result, QueueType, Timed
  <2>4. r.sent = <<q.bytes>> /\ r.outcome = "ok"
    BY <2>2 DEF Result
  <2>5. r.sent \in Seq(Bytes) /\ Fits(r.sent)
    BY <1>0, <2>4 DEF Fits
  <2> QED
    BY <2>3, <2>4, <2>5, Zenon
<1>2. CASE ~(q.size + Len(data) > RADIO_MTU)
  <2> DEFINE timer == IF q.timer = "none" THEN "pending" ELSE q.timer
  <2>1. timer = "pending"
    BY <1>0, Zenon
  <2>2. r = Result([bytes |-> q.bytes \o data, size |-> q.size + Len(data), timer |-> "pending"],
                   << >>, "ok")
    BY <1>01, <1>2, <2>1, Zenon DEF messageReceived
  <2>3. q.bytes \o data \in Bytes /\ Len(q.bytes \o data) = q.size + Len(data)
    BY <1>0 DEF Bytes
  <2>4. r.queue \in QueueType /\ Timed(r.queue) /\ r.queue.timer = "pending"
    BY <1>0, <1>2, <2>2, <2>3 DEF Result, QueueType, Timed
  <2>5. r.sent = << >> /\ r.outcome = "ok"
    BY <2>2 DEF Result
  <2>6. r.sent \in Seq(Bytes) /\ Fits(r.sent)
    BY <2>5 DEF Fits
  <2> QED
    BY <2>4, <2>5, <2>6, Zenon
<1> QED
  BY <1>1, <1>2, Zenon

(* A timer that fires finds something to send, and leaves an empty queue.  *)
LEMMA FlushKeeps ==
    ASSUME NEW q \in QueueType, Timed(q), q.timer = "pending"
    PROVE  LET r == flush_queue(q)
           IN  /\ r.queue \in QueueType /\ Timed(r.queue)
               /\ r.sent \in Seq(Bytes) /\ Fits(r.sent) /\ r.sent # << >>
<1> DEFINE r == flush_queue(q)
<1>0. q.size > 0 /\ q.size <= RADIO_MTU /\ q.size = Len(q.bytes) /\ q.bytes \in Bytes
  BY Zenon DEF Timed, QueueType
<1>1. r = Result(EmptyQueue, <<q.bytes>>, "ok")
  BY <1>0, Zenon DEF flush_queue
<1>2. r.queue = EmptyQueue /\ r.sent = <<q.bytes>>
  BY <1>1 DEF Result
<1>3. r.queue \in QueueType /\ Timed(r.queue)
  BY <1>2, TunnelAssumption DEF EmptyQueue, QueueType, Timed, Bytes
<1>4. r.sent \in Seq(Bytes) /\ Fits(r.sent) /\ r.sent # << >>
  BY <1>0, <1>2 DEF Fits
<1> QED
  BY <1>3, <1>4, Zenon

(* Datagrams that are appended to, taken from, or cut in the air still fit. *)
LEMMA AppendFits ==
    ASSUME NEW s \in Seq(Bytes), NEW t \in Seq(Bytes), Fits(s), Fits(t)
    PROVE  s \o t \in Seq(Bytes) /\ Fits(s \o t)
  BY DEF Fits

(* what is left when the first is received or lost, *)
LEMMA TailFits ==
    ASSUME NEW s \in Seq(Bytes), s # << >>, Fits(s)
    PROVE  Tail(s) \in Seq(Bytes) /\ Fits(Tail(s))
  BY DEF Fits

(* and what is left of one that is cut short in the air. *)
LEMMA CutFits ==
    ASSUME NEW s \in Seq(Bytes), s # << >>, Fits(s), NEW n \in 1 .. Len(Head(s)) - 1
    PROVE  <<SubSeq(Head(s), 1, n)>> \o Tail(s) \in Seq(Bytes)
           /\ Fits(<<SubSeq(Head(s), 1, n)>> \o Tail(s))
<1>1. Head(s) \in Bytes /\ Len(Head(s)) <= RADIO_MTU /\ Len(Head(s)) \in Nat
  BY DEF Fits, Bytes
<1>2. SubSeq(Head(s), 1, n) \in Bytes /\ Len(SubSeq(Head(s), 1, n)) = n
  BY <1>1 DEF Bytes
<1>3. <<SubSeq(Head(s), 1, n)>> \in Seq(Bytes) /\ Fits(<<SubSeq(Head(s), 1, n)>>)
  BY <1>1, <1>2, TunnelAssumption DEF Fits
<1> QED
  BY <1>3, TailFits, AppendFits, Zenon

-----------------------------------------------------------------------------
(* The inductive step, one case per action.  Only Read and Flush touch the *)
(* aggregation queues; every other action leaves agg alone.                *)
LEMMA Inductive == IInv /\ [Next]_vars => IInv'
<1> SUFFICES ASSUME IInv, [Next]_vars PROVE IInv'
  BY Zenon
<1> USE DEF IInv
<1>0. /\ agg \in [Ends -> QueueType] /\ air \in [Ends -> Seq(Bytes)]
      /\ \A e \in Ends : Timed(agg[e]) /\ Fits(air[e])
  BY Zenon DEF TypeOK, QueueTimed
<1>1. ASSUME NEW e \in Ends, Read(e) PROVE IInv'
  <2>1. PICK size \in Sizes :
          LET data == Length2(size) \o Body(Len(read[e]) + 1, size)
              r == messageReceived(agg[e], data, RADIO_MTU)
          IN  /\ agg' = [agg EXCEPT ![e] = r.queue]
              /\ air' = [air EXCEPT ![Peer(e)] = @ \o r.sent]
              /\ read' = [read EXCEPT ![e] = Append(@, size)]
    BY <1>1, Zenon DEF Read
  <2> DEFINE data == Length2(size) \o Body(Len(read[e]) + 1, size)
             r == messageReceived(agg[e], data, RADIO_MTU)
  <2>2. Len(read[e]) + 1 \in Nat
    BY DEF TypeOK
  <2>3. data \in Bytes /\ Len(data) > 0 /\ Len(data) <= RADIO_MTU
    <3>1. /\ data \in Bytes /\ Len(data) = size + 2
          /\ size \in Nat /\ size + 2 <= RADIO_MTU
      BY <2>2, FramedPacket, Zenon
    <3> QED
      BY <3>1, TunnelAssumption
  <2>4. /\ r.queue \in QueueType /\ Timed(r.queue)
        /\ r.sent \in Seq(Bytes) /\ Fits(r.sent)
    BY <1>0, <2>3, ReceiveKeeps, Zenon
  <2> HIDE DEF data, r
  <2>5. air[Peer(e)] \o r.sent \in Seq(Bytes) /\ Fits(air[Peer(e)] \o r.sent)
    BY <1>0, <2>4, PeerIsEnd, AppendFits, Zenon
  <2>6. agg' = [agg EXCEPT ![e] = r.queue] /\ air' = [air EXCEPT ![Peer(e)] = air[Peer(e)] \o r.sent]
    BY <2>1, Zenon DEF data, r
  <2>7. agg' \in [Ends -> QueueType] /\ \A p \in Ends : Timed(agg[p])'
    BY <1>0, <2>4, <2>6, Zenon DEF Timed
  <2>8. air' \in [Ends -> Seq(Bytes)] /\ \A p \in Ends : Fits(air[p])'
    BY <1>0, <2>5, <2>6, Zenon DEF Fits
  <2>9. read' \in [Ends -> Seq(Sizes)] /\ pkt_out_sem' \in [Ends -> 0 .. 1]
    BY <1>1, <2>1 DEF TypeOK, Read
  <2> QED
    BY <1>1, <2>7, <2>8, <2>9, Zenon DEF Read, TypeOK, QueueTimed
<1>2. ASSUME NEW e \in Ends, Flush(e) PROVE IInv'
  <2> DEFINE r == flush_queue(agg[e])
  <2>1. /\ r.queue \in QueueType /\ Timed(r.queue)
        /\ r.sent \in Seq(Bytes) /\ Fits(r.sent)
    BY <1>0, <1>2, FlushKeeps, Zenon DEF Flush
  <2>2. agg' = [agg EXCEPT ![e] = r.queue] /\ air' = [air EXCEPT ![Peer(e)] = air[Peer(e)] \o r.sent]
    BY <1>2, Zenon DEF Flush
  <2> HIDE DEF r
  <2>3. air[Peer(e)] \o r.sent \in Seq(Bytes) /\ Fits(air[Peer(e)] \o r.sent)
    BY <1>0, <2>1, PeerIsEnd, AppendFits, Zenon
  <2>4. agg' \in [Ends -> QueueType] /\ \A p \in Ends : Timed(agg[p])'
    BY <1>0, <2>1, <2>2, Zenon DEF Timed
  <2>5. air' \in [Ends -> Seq(Bytes)] /\ \A p \in Ends : Fits(air[p])'
    BY <1>0, <2>2, <2>3, Zenon DEF Fits
  <2> QED
    BY <1>2, <2>4, <2>5, Zenon DEF Flush, TypeOK, QueueTimed
<1>3. ASSUME NEW e \in Ends, Deliver(e) PROVE IInv'
  <2>1. air' = [air EXCEPT ![e] = Tail(air[e])] /\ air[e] # << >> /\ agg' = agg
    BY <1>3, Zenon DEF Deliver
  <2>2. air' \in [Ends -> Seq(Bytes)] /\ \A p \in Ends : Fits(air[p])'
    BY <1>0, <2>1, TailFits, Zenon DEF Fits
  <2>3. pkt_in_sem' \in [Ends -> 0 .. 2]
    BY <1>3 DEF Deliver, TypeOK
  <2> QED
    BY <1>0, <1>3, <2>1, <2>2, <2>3, Zenon DEF Deliver, TypeOK, QueueTimed, Timed
<1>4. ASSUME NEW e \in Ends, TunWrite(e) PROVE IInv'
  BY <1>0, <1>4, Zenon DEF TunWrite, TypeOK, QueueTimed, Timed, Fits
<1>5. ASSUME NEW e \in Ends, TunFails(e) PROVE IInv'
  BY <1>0, <1>5, Zenon DEF TunFails, TypeOK, QueueTimed, Timed, Fits
<1>6. ASSUME NEW e \in Ends, Lose(e) PROVE IInv'
  <2>1. air' = [air EXCEPT ![e] = Tail(air[e])] /\ air[e] # << >> /\ agg' = agg
    BY <1>6, Zenon DEF Lose
  <2>2. air' \in [Ends -> Seq(Bytes)] /\ \A p \in Ends : Fits(air[p])'
    BY <1>0, <2>1, TailFits, Zenon DEF Fits
  <2> QED
    BY <1>0, <1>6, <2>1, <2>2, Zenon DEF Lose, TypeOK, QueueTimed, Timed
<1>7. ASSUME NEW e \in Ends, Cut(e) PROVE IInv'
  <2>1. PICK n \in 1 .. Len(Head(air[e])) - 1 :
          air' = [air EXCEPT ![e] = <<SubSeq(Head(air[e]), 1, n)>> \o Tail(air[e])]
    BY <1>7, Zenon DEF Cut
  <2> DEFINE short == <<SubSeq(Head(air[e]), 1, n)>> \o Tail(air[e])
  <2>2. air[e] # << >> /\ agg' = agg
    BY <1>7, Zenon DEF Cut
  <2>3. short \in Seq(Bytes) /\ Fits(short)
    BY <1>0, <2>2, CutFits, Zenon
  <2> HIDE DEF short
  <2>4. air' = [air EXCEPT ![e] = short]
    BY <2>1, Zenon DEF short
  <2>5. air' \in [Ends -> Seq(Bytes)] /\ \A p \in Ends : Fits(air[p])'
    BY <1>0, <2>3, <2>4, Zenon DEF Fits
  <2> QED
    BY <1>0, <1>7, <2>2, <2>5, Zenon DEF Cut, TypeOK, QueueTimed, Timed
<1>8. ASSUME NEW e \in Ends, Keepalive(e) PROVE IInv'
  <2> DEFINE sent == IF pkt_in_sem[e] = 0 \/ pkt_out_sem[e] = 0 THEN << << >> >> ELSE << >>
  <2>1. sent \in Seq(Bytes) /\ Fits(sent)
    BY TunnelAssumption DEF Fits, Bytes
  <2>2. air' = [air EXCEPT ![Peer(e)] = sent] /\ agg' = agg
    BY <1>8, Zenon DEF Keepalive
  <2> HIDE DEF sent
  <2>3. air' \in [Ends -> Seq(Bytes)] /\ \A p \in Ends : Fits(air[p])'
    BY <1>0, <2>1, <2>2, PeerIsEnd, Zenon DEF Fits
  <2>4. pkt_in_sem' \in [Ends -> 0 .. 2] /\ pkt_out_sem' \in [Ends -> 0 .. 1] /\ turn' \in Ends
    BY <1>8, PeerIsEnd DEF Keepalive, Due, TypeOK
  <2> QED
    BY <1>0, <1>8, <2>2, <2>3, <2>4, Zenon DEF Keepalive, TypeOK, QueueTimed, Timed
<1>9. CASE UNCHANGED vars
  BY <1>0, <1>9, Zenon DEF vars, TypeOK, QueueTimed, Timed, Fits
<1> QED
  BY <1>1, <1>2, <1>3, <1>4, <1>5, <1>6, <1>7, <1>8, <1>9, Zenon DEF Next

(* The invariant holds at the start: the queues and the air are empty. *)
LEMMA Initial == Init => IInv
  BY TunnelAssumption DEF Init, IInv, TypeOK, QueueTimed, Timed, Fits, EmptyQueue, QueueType, Bytes

(* The aggregation queues are timed and within bounds in every state, for  *)
(* every radio_mtu: ProxyProtocol never strands a packet of the tunnel and *)
(* never cancels a timer that was called.                                  *)
THEOREM QueueAlwaysTimed == Spec => []QueueTimed
<1>1. IInv => QueueTimed
  BY Zenon DEF IInv
<1> QED
  BY Initial, Inductive, <1>1, PTL DEF Spec

(* No datagram of the tunnel exceeds radio_mtu, and no packet of the TUN   *)
(* device is refused as too big, for every radio_mtu.                      *)
THEOREM DatagramsAlwaysFit == Spec => []DatagramsFit
<1>1. IInv => DatagramsFit
  <2> SUFFICES ASSUME IInv PROVE DatagramsFit
    BY Zenon
  <2>1. ASSUME NEW e \in Ends, NEW size \in Sizes
        PROVE messageReceived(agg[e], Length2(size) \o Body(1, size), RADIO_MTU).outcome = "ok"
    <3>1. agg[e] \in QueueType /\ Timed(agg[e])
      BY DEF IInv, TypeOK, QueueTimed
    <3>2. /\ Length2(size) \o Body(1, size) \in Bytes
          /\ Len(Length2(size) \o Body(1, size)) > 0
          /\ Len(Length2(size) \o Body(1, size)) <= RADIO_MTU
      <4>1. 1 \in Nat
        BY Zenon
      <4>2. /\ Length2(size) \o Body(1, size) \in Bytes
            /\ Len(Length2(size) \o Body(1, size)) = size + 2
            /\ size \in Nat /\ size + 2 <= RADIO_MTU
        BY <4>1, FramedPacket, Zenon
      <4> QED
        BY <4>2, TunnelAssumption
    <3> QED
      BY <3>1, <3>2, ReceiveKeeps, Zenon
  <2> QED
    BY <2>1, Zenon DEF IInv, DatagramsFit
<1> QED
  BY Initial, Inductive, <1>1, PTL DEF Spec

-----------------------------------------------------------------------------
(* Something is on its way to station e. *)
Coming(e) == air[e] # << >> \/ agg[Peer(e)].timer = "pending"

(* A station that hears its peer, with nothing on the way, comes to its tick *)
(* with pkt_in_sem > 0; when it is about to use up the last of it the peer   *)
(* has sent nothing for an interval, so that the peer's next tick sends a    *)
(* keepalive.                                                                *)
InTime(e) ==
    heard[e] /\ ~Coming(e) =>
        IF turn = e THEN /\ pkt_in_sem[e] > 0
                         /\ pkt_in_sem[e] = 1 => pkt_out_sem[Peer(e)] = 0
                    ELSE pkt_in_sem[e] = 0 => pkt_out_sem[Peer(e)] = 0

HeardInTime == \A e \in Ends : InTime(e)

HeardType == heard = [e \in Ends |-> heard[e]]

(* There are two stations, and each is the other's peer. *)
LEMMA Peers ==
    ASSUME NEW e \in Ends
    PROVE  Peer(e) \in Ends /\ Peer(e) # e /\ Peer(Peer(e)) = e /\ Ends = {e, Peer(e)}
<1>1. PICK a, b \in Ends : a # b /\ Ends = {a, b}
  BY TunnelAssumption
<1>2. \A x \in Ends : Peer(x) \in Ends /\ Peer(x) # x
  BY <1>1, Zenon DEF Peer
<1>. QED  BY <1>1, <1>2

(* What is on the way to a station arrives or is lost, and it is only the   *)
(* peer's tick that may come with nothing on the way.                       *)
LEMMA HeardStep ==
    ASSUME IInv, HeardType, HeardInTime, [Next]_vars
    PROVE  HeardInTime' /\ HeardType'
<1>0. /\ agg \in [Ends -> QueueType] /\ air \in [Ends -> Seq(Bytes)]
      /\ pkt_in_sem \in [Ends -> 0 .. 2] /\ pkt_out_sem \in [Ends -> 0 .. 1] /\ turn \in Ends
      /\ \A e \in Ends : Timed(agg[e])
  BY Zenon DEF IInv, TypeOK, QueueTimed
<1>t. HeardType'
  BY Zenon DEF HeardType, Next, Read, Flush, Deliver, TunWrite, Keepalive, TunFails, Lose, Cut, vars
(* a step that leaves the counters, or brings something on the way *)
<1>k. ASSUME NEW p \in Ends,
             heard'[p] => heard[p], UNCHANGED <<turn, pkt_in_sem>>,
             Coming(p) => Coming(p)',
             Coming(p)' \/ pkt_out_sem'[Peer(p)] = pkt_out_sem[Peer(p)]
      PROVE  InTime(p)'
  BY <1>k, Zenon DEF HeardInTime, InTime
<1>c. \A s, t \in Seq(Bytes) : s \o t \in Seq(Bytes) /\ (s # << >> \/ t # << >> => s \o t # << >>)
  <2>. SUFFICES ASSUME NEW s \in Seq(Bytes), NEW t \in Seq(Bytes)
                PROVE  s \o t \in Seq(Bytes) /\ (s # << >> \/ t # << >> => s \o t # << >>)
    BY Zenon
  <2>1. s \o t \in Seq(Bytes) /\ Len(s \o t) = Len(s) + Len(t) /\ Len(s) \in Nat /\ Len(t) \in Nat
    OBVIOUS
  <2>2. s # << >> \/ t # << >> => Len(s) > 0 \/ Len(t) > 0
    OBVIOUS
  <2>3. s # << >> \/ t # << >> => Len(s \o t) > 0
    BY <2>1, <2>2
  <2>. QED  BY <2>1, <2>3
<1>1. ASSUME NEW e \in Ends, Read(e), NEW p \in Ends PROVE InTime(p)'
  <2>1. PICK size \in Sizes :
          LET data == Length2(size) \o Body(Len(read[e]) + 1, size)
              r == messageReceived(agg[e], data, RADIO_MTU)
          IN  /\ agg' = [agg EXCEPT ![e] = r.queue]
              /\ air' = [air EXCEPT ![Peer(e)] = @ \o r.sent]
              /\ read' = [read EXCEPT ![e] = Append(@, size)]
    BY <1>1, Zenon DEF Read
  <2> DEFINE data == Length2(size) \o Body(Len(read[e]) + 1, size)
             r == messageReceived(agg[e], data, RADIO_MTU)
  <2>2. Len(read[e]) + 1 \in Nat
    BY DEF IInv, TypeOK
  <2>3. data \in Bytes /\ Len(data) > 0 /\ Len(data) <= RADIO_MTU
    <3>1. /\ data \in Bytes /\ Len(data) = size + 2
          /\ size \in Nat /\ size + 2 <= RADIO_MTU
      BY <2>2, FramedPacket, Zenon
    <3> QED
      BY <3>1, TunnelAssumption
  <2>4. r.queue.timer = "pending" /\ r.sent \in Seq(Bytes)
    BY <1>0, <2>3, ReceiveKeeps, Zenon
  <2>5. agg' = [agg EXCEPT ![e] = r.queue] /\ air' = [air EXCEPT ![Peer(e)] = air[Peer(e)] \o r.sent]
    BY <2>1, Zenon
  <2> HIDE DEF data, r
  <2>6. agg'[e].timer = "pending" /\ \A q \in Ends \ {e} : agg'[q] = agg[q]
    BY <1>0, <2>4, <2>5, Zenon
  <2>7. air[p] # << >> => air'[p] # << >>
    BY <1>0, <1>c, <2>4, <2>5, Peers
  <2>8. UNCHANGED <<turn, pkt_in_sem, heard>> /\ pkt_out_sem' = [pkt_out_sem EXCEPT ![e] = 1]
    BY <1>1, Zenon DEF Read
  <2>9. p # e => Peer(p) = e /\ Coming(p)'
    BY <2>6, Peers, Zenon DEF Coming
  <2>10. p = e => agg'[Peer(p)] = agg[Peer(p)] /\ pkt_out_sem'[Peer(p)] = pkt_out_sem[Peer(p)]
    BY <1>0, <2>6, <2>8, Peers, Zenon
  <2>. QED  BY <1>k, <2>7, <2>8, <2>9, <2>10, Zenon DEF Coming
<1>2. ASSUME NEW e \in Ends, Flush(e), NEW p \in Ends PROVE InTime(p)'
  <2> DEFINE r == flush_queue(agg[e])
  <2>1. r.sent \in Seq(Bytes) /\ r.sent # << >>
    BY <1>0, <1>2, FlushKeeps, Zenon DEF Flush
  <2>2. agg' = [agg EXCEPT ![e] = r.queue] /\ air' = [air EXCEPT ![Peer(e)] = air[Peer(e)] \o r.sent]
    BY <1>2, Zenon DEF Flush
  <2> HIDE DEF r
  <2>3. UNCHANGED <<turn, pkt_in_sem, pkt_out_sem, heard>>
    BY <1>2, Zenon DEF Flush
  <2>4. p # e => air'[p] # << >>
    BY <1>0, <1>c, <2>1, <2>2, Peers, Zenon
  <2>5. p = e => agg'[Peer(p)] = agg[Peer(p)] /\ air'[p] = air[p]
    BY <1>0, <2>2, Peers, Zenon
  <2>. QED  BY <1>k, <2>3, <2>4, <2>5, Zenon DEF Coming
<1>3. ASSUME NEW e \in Ends, Deliver(e), NEW p \in Ends PROVE InTime(p)'
  <2>1. /\ UNCHANGED <<turn, pkt_out_sem, agg>>
        /\ air' = [air EXCEPT ![e] = Tail(@)] /\ pkt_in_sem' = [pkt_in_sem EXCEPT ![e] = 2]
        /\ heard' = [heard EXCEPT ![e] = TRUE]
    BY <1>3, Zenon DEF Deliver
  <2>2. CASE p = e
    BY <1>0, <2>1, <2>2 DEF InTime
  <2>3. CASE p # e
    <3>1. air'[p] = air[p] /\ pkt_in_sem'[p] = pkt_in_sem[p] /\ heard'[p] = heard[p]
      BY <1>0, <2>1, <2>3, Zenon DEF HeardType
    <3>. QED  BY <2>1, <3>1, Zenon DEF HeardInTime, InTime, Coming
  <2>. QED  BY <2>2, <2>3, Zenon
<1>4. ASSUME NEW e \in Ends, Lose(e), NEW p \in Ends PROVE InTime(p)'
  <2>1. /\ UNCHANGED <<turn, pkt_in_sem, pkt_out_sem, agg>>
        /\ air' = [air EXCEPT ![e] = Tail(@)] /\ heard' = [heard EXCEPT ![e] = FALSE]
    BY <1>4, Zenon DEF Lose
  <2>2. CASE p = e
    BY <2>1, <2>2, Zenon DEF InTime, HeardType
  <2>3. CASE p # e
    <3>1. air'[p] = air[p] /\ heard'[p] = heard[p]
      BY <1>0, <2>1, <2>3, Zenon DEF HeardType
    <3>. QED  BY <2>1, <3>1, Zenon DEF HeardInTime, InTime, Coming
  <2>. QED  BY <2>2, <2>3, Zenon
<1>5. ASSUME NEW e \in Ends, Cut(e), NEW p \in Ends PROVE InTime(p)'
  <2>1. PICK n \in 1 .. Len(Head(air[e])) - 1 :
          air' = [air EXCEPT ![e] = <<SubSeq(Head(air[e]), 1, n)>> \o Tail(air[e])]
    BY <1>5, Zenon DEF Cut
  <2> DEFINE short == <<SubSeq(Head(air[e]), 1, n)>> \o Tail(air[e])
  <2>2. UNCHANGED <<turn, pkt_in_sem, pkt_out_sem, agg, heard>> /\ air[e] # << >>
    BY <1>5, Zenon DEF Cut
  <2>3. SubSeq(Head(air[e]), 1, n) \in Bytes /\ Tail(air[e]) \in Seq(Bytes)
    <3>1. Head(air[e]) \in Seq(Nat) /\ Tail(air[e]) \in Seq(Bytes)
      BY <1>0, <2>2 DEF Bytes
    <3>. QED  BY <3>1, SMTT(60) DEF Bytes
  <2>4. <<SubSeq(Head(air[e]), 1, n)>> \in Seq(Bytes) /\ <<SubSeq(Head(air[e]), 1, n)>> # << >>
    BY <2>3
  <2>5. short # << >>
    BY <1>c, <2>3, <2>4, Zenon
  <2> HIDE DEF short
  <2>6. air' = [air EXCEPT ![e] = short]
    BY <2>1, Zenon DEF short
  <2>7. air[p] # << >> => air'[p] # << >>
    BY <1>0, <2>5, <2>6, Zenon
  <2>. QED  BY <1>k, <2>2, <2>7, Zenon DEF Coming
<1>6. ASSUME NEW e \in Ends, Keepalive(e), NEW p \in Ends PROVE InTime(p)'
  <2> DEFINE b == pkt_in_sem[e] = 0 \/ pkt_out_sem[e] = 0
  <2>1. /\ turn = e /\ turn' = Peer(e) /\ \A q \in Ends : ~Coming(q)
        /\ UNCHANGED <<agg, heard>>
        /\ air' = [air EXCEPT ![Peer(e)] = IF b THEN << << >> >> ELSE << >>]
        /\ pkt_in_sem' = [pkt_in_sem EXCEPT ![e] = IF @ > 0 THEN @ - 1 ELSE @]
        /\ pkt_out_sem' = [pkt_out_sem EXCEPT ![e] = IF @ > 0 THEN @ - 1 ELSE @]
    BY <1>6, Peers, Zenon DEF Keepalive, Due, Coming
  <2>2. CASE p = e
    <3>0. pkt_in_sem[p] \in 0 .. 2 /\ pkt_in_sem'[p] \in 0 .. 2
          /\ (pkt_in_sem[p] > 0 => pkt_in_sem'[p] = pkt_in_sem[p] - 1)
      BY <1>0, <2>1, <2>2
    <3>2. pkt_out_sem'[Peer(p)] = pkt_out_sem[Peer(p)] /\ turn' # p /\ heard' = heard
      BY <1>0, <2>1, <2>2, Peers, Zenon
    <3>3. heard[p] => pkt_in_sem[p] > 0 /\ (pkt_in_sem[p] = 1 => pkt_out_sem[Peer(p)] = 0)
      BY <2>1, <2>2, Zenon DEF HeardInTime, InTime
    <3>4. heard'[p] => (pkt_in_sem'[p] = 0 => pkt_out_sem'[Peer(p)] = 0)
      <4>1. heard'[p] => heard[p]
        BY <3>2, Zenon
      <4>2. heard[p] /\ pkt_in_sem'[p] = 0 => pkt_in_sem[p] = 1
        BY <3>0, <3>3
      <4>. QED  BY <3>2, <3>3, <4>1, <4>2, Zenon
    <3>. QED  BY <3>2, <3>4, Zenon DEF InTime
  <2>3. CASE p # e
    <3>1. p = Peer(e) /\ e = Peer(p) /\ turn' = p /\ turn # p
      BY <2>1, <2>3, Peers, Zenon
    <3>2. CASE b
      BY <1>0, <2>1, <3>1, <3>2, Zenon DEF InTime, Coming
    <3>3. CASE ~b
      <4>1. pkt_in_sem'[p] = pkt_in_sem[p] /\ pkt_out_sem'[e] = 0
        BY <1>0, <2>1, <2>3, <3>3
      <4>2. heard[p] => pkt_in_sem[p] # 0
        BY <2>1, <3>1, <3>3, Zenon DEF HeardInTime, InTime
      <4>. QED  BY <1>0, <2>1, <3>1, <4>1, <4>2 DEF InTime
    <3>. QED  BY <3>2, <3>3, Zenon
  <2>. QED  BY <2>2, <2>3, Zenon
<1>7. ASSUME NEW p \in Ends, (\E e \in Ends : TunWrite(e) \/ TunFails(e)) \/ UNCHANGED vars
      PROVE  InTime(p)'
  <2>1. UNCHANGED <<turn, pkt_in_sem, pkt_out_sem, agg, air, heard>>
    BY <1>7, Zenon DEF TunWrite, TunFails, vars
  <2>. QED  BY <1>k, <2>1, Zenon DEF Coming
<1>. QED
  BY <1>t, <1>1, <1>2, <1>3, <1>4, <1>5, <1>6, <1>7, Zenon DEF Next, HeardInTime

(* While a station hears its peer and nothing is lost it never falls back to *)
(* the keepalive on all antennas, whatever mix of data and keepalives the    *)
(* peer sends (send_keepalive, pkt_in_sem and pkt_out_sem of both stations). *)
THEOREM NeverBroadcastsWhileHeard == Spec => []NoBroadcastWhileHeard
<1>1. Init => HeardInTime /\ HeardType
  BY Zenon DEF Init, HeardInTime, InTime, HeardType
<1>2. IInv /\ (HeardInTime /\ HeardType) /\ [Next]_vars => (HeardInTime /\ HeardType)'
  BY HeardStep, Zenon
<1>3. IInv /\ HeardInTime => NoBroadcastWhileHeard
  BY Peers DEF HeardInTime, InTime, NoBroadcastWhileHeard, Due, Coming
<1>. QED  BY <1>1, <1>2, <1>3, Initial, Inductive, PTL DEF Spec

-----------------------------------------------------------------------------
(* The stream of frames.  dataReceived makes one of every packet read, and   *)
(* the aggregation queue cuts the stream into datagrams between two frames;  *)
(* the air may cut a datagram short.  rd are the sizes of the packets read,  *)
(* off[n] is where the stream ends after n of them.                          *)
IsOff(off, rd) ==
    /\ off \in [0 .. Len(rd) -> Nat] /\ off[0] = 0
    /\ \A n \in 1 .. Len(rd) : off[n] = off[n - 1] + 2 + rd[n]
    /\ \A m, n \in 0 .. Len(rd) : m <= n => off[m] <= off[n]

(* The j-th byte of the frame of packet n *)
FrameByte(n, size, j) == IF j = 1 THEN size \div 256 ELSE IF j = 2 THEN size % 256 ELSE n

(* m is the stream from after packet lo to packet hi, or the front of it. *)
Piece(m, rd, off, lo, hi) ==
    /\ Len(m) <= off[hi] - off[lo]
    /\ \A n \in lo + 1 .. hi : \A j \in 1 .. 2 + rd[n] :
          off[n - 1] - off[lo] + j <= Len(m) => m[off[n - 1] - off[lo] + j] = FrameByte(n, rd[n], j)

(* d are packets after lo and up to hi, whole and in the order of reading. *)
Whole(d, rd, lo, hi) ==
    /\ \A k \in 1 .. Len(d) : d[k][1] \in lo + 1 .. hi /\ d[k] = Body(d[k][1], rd[d[k][1]])
    /\ \A j, k \in 1 .. Len(d) : j < k => d[j][1] < d[k][1]

(* The datagrams a on the way and the bytes b that wait in the aggregation   *)
(* queue continue the stream, and what d holds was read before.              *)
StreamOK(rd, a, b, d, off, mk) ==
    /\ IsOff(off, rd)
    /\ mk \in [0 .. Len(a) -> 0 .. Len(rd)]
    /\ \A k \in 1 .. Len(a) : mk[k - 1] <= mk[k] /\ Piece(a[k], rd, off, mk[k - 1], mk[k])
    /\ Piece(b, rd, off, mk[Len(a)], Len(rd)) /\ Len(b) = off[Len(rd)] - off[mk[Len(a)]]
    /\ Whole(d, rd, 0, mk[0])

Streamed(rd, a, b, d) == \E off, mk : StreamOK(rd, a, b, d, off, mk)

StreamInvariant ==
    /\ queue \in [Ends -> Seq(Bytes)] /\ written \in [Ends -> Seq(Bytes)]
    /\ \A e \in Ends : Streamed(read[Peer(e)], air[e], agg[Peer(e)].bytes, written[e] \o queue[e])

-----------------------------------------------------------------------------
(* What the loop of TUNTAPProtocol.write makes of a datagram.  It is proved  *)
(* by induction over the bytes, with a set for the predicate: the numbers    *)
(* that are not in it would have a least one.                                *)
LEMMA LeastNumber ==
    ASSUME NEW T \in SUBSET Nat, T # {}
    PROVE  \E x \in T : \A y \in T : x <= y
<1> DEFINE R == OpToRel(<, Nat)
<1>1. IsWellFoundedOn(R, Nat)
  BY NatLessThanWellFounded, Zenon
<1>2. \A x, y \in Nat : ~(<<y, x>> \in R) => x <= y
  BY DEF OpToRel
<1>. HIDE DEF R
<1>3. \E x \in T : \A y \in T : ~(<<y, x>> \in R)
  BY <1>1, WFMin, Zenon
<1>. QED  BY <1>2, <1>3, Zenon

(* The same as a rule: what holds of 0 and of i + 1 whenever it holds of i   *)
(* holds of every index up to n.                                             *)
LEMMA IndexInduction ==
    ASSUME NEW n \in Nat, NEW T, 0 \in T, \A i \in 0 .. n - 1 : i \in T => i + 1 \in T
    PROVE  0 .. n \subseteq T
<1> DEFINE missing == (0 .. n) \ T
<1>. SUFFICES ASSUME missing # {} PROVE FALSE
  BY Zenon
<1>1. missing \in SUBSET Nat
  OBVIOUS
<1>2. PICK x \in missing : \A y \in missing : x <= y
  BY <1>1, LeastNumber, Zenon
<1>3. x \in 1 .. n /\ x - 1 \in 0 .. n - 1
  BY <1>2
<1>4. x - 1 \in T
  BY <1>2, <1>3
<1>. QED  BY <1>2, <1>3, <1>4

(* One turn of the loop at byte i, where g has the result of the later ones *)
Turn(m, g, i) ==
    IF Len(m) + 1 - i < 2 THEN << >>
    ELSE LET size == 256 * m[i] + m[i + 1]
         IN  IF Len(m) - (i + 1) < size THEN << >>
             ELSE <<SubSeq(m, i + 2, i + 1 + size)>> \o g[i + 2 + size]

IsUnbatch(g, m) == g = [i \in 1 .. Len(m) + 1 |-> Turn(m, g, i)]

(* A turn uses later turns only. *)
LEMMA TurnLooksAhead ==
    ASSUME NEW m \in Bytes, NEW i \in 1 .. Len(m) + 1, NEW g, NEW h,
           \A x \in i + 2 .. Len(m) + 1 : g[x] = h[x]
    PROVE  Turn(m, g, i) = Turn(m, h, i)
<1>0. Len(m) \in Nat
  BY DEF Bytes
<1>1. CASE Len(m) + 1 - i < 2
  BY <1>1, Zenon DEF Turn
<1>2. CASE ~(Len(m) + 1 - i < 2)
  <2> DEFINE size == 256 * m[i] + m[i + 1]
  <2>1. i \in 1 .. Len(m) /\ i + 1 \in 1 .. Len(m)
    BY <1>0, <1>2
  <2>2. m[i] \in Nat /\ m[i + 1] \in Nat
    BY <2>1 DEF Bytes
  <2>3. size \in Nat
    BY <2>2, SMTT(60)
  <2> HIDE DEF size
  <2>4. ~(Len(m) - (i + 1) < size) => i + 2 + size \in i + 2 .. Len(m) + 1
    BY <1>0, <2>3
  <2>5. \A f : Turn(m, f, i) = IF Len(m) - (i + 1) < size THEN << >>
                               ELSE <<SubSeq(m, i + 2, i + 1 + size)>> \o f[i + 2 + size]
    BY <1>2, Zenon DEF Turn, size
  <2>. QED  BY <2>4, <2>5, Zenon
<1>. QED  BY <1>1, <1>2, Zenon

(* The loop is well defined: its turns can be computed from the last one. *)
LEMMA UnbatchExists ==
    ASSUME NEW m \in Bytes
    PROVE  \E g : IsUnbatch(g, m)
<1> DEFINE L == Len(m)
           Last(g, c) == /\ g = [i \in 1 .. L + 1 |-> g[i]]
                         /\ \A i \in L + 1 - c .. L + 1 : g[i] = Turn(m, g, i)
           T == {c \in 0 .. L : \E g : Last(g, c)}
<1>0. L \in Nat
  BY DEF Bytes
<1>1. 0 \in T
  <2> DEFINE g == [i \in 1 .. L + 1 |-> << >>]
  <2>1. \A i \in L + 1 - 0 .. L + 1 : i = L + 1
    BY <1>0
  <2>2. g[L + 1] = << >> /\ Turn(m, g, L + 1) = << >>
    BY <1>0 DEF Turn
  <2>3. g = [i \in 1 .. L + 1 |-> g[i]]
    BY Zenon
  <2> HIDE DEF g
  <2>4. Last(g, 0)
    BY <2>1, <2>2, <2>3, Zenon
  <2>. QED  BY <1>0, <2>4
<1>2. ASSUME NEW c \in 0 .. L - 1, c \in T PROVE c + 1 \in T
  <2>1. PICK g : Last(g, c)
    BY <1>2, Zenon
  <2> DEFINE k == L - c
             h == [i \in 1 .. L + 1 |-> IF i = k THEN Turn(m, g, k) ELSE g[i]]
  <2>2. k \in 1 .. L /\ L + 1 - c = k + 1 /\ L + 1 - (c + 1) = k
    BY <1>0
  <2>3. /\ h = [i \in 1 .. L + 1 |-> h[i]]
        /\ h[k] = Turn(m, g, k) /\ \A i \in k + 1 .. L + 1 : h[i] = g[i]
    BY <1>0, <2>2
  <2> HIDE DEF h, k
  <2>4. ASSUME NEW i \in k .. L + 1 PROVE h[i] = Turn(m, h, i)
    <3>1. i \in 1 .. L + 1 /\ \A x \in i + 2 .. L + 1 : x \in k + 1 .. L + 1
      BY <1>0, <2>2
    <3>2. Turn(m, g, i) = Turn(m, h, i)
      BY <2>3, <3>1, TurnLooksAhead, ZenonT(60)
    <3>3. i = k \/ i \in k + 1 .. L + 1
      BY <1>0, <2>2
    <3>4. i \in k + 1 .. L + 1 => g[i] = Turn(m, g, i)
      BY <2>1, <2>2, Zenon
    <3>. QED  BY <2>3, <3>2, <3>3, <3>4, Zenon
  <2>5. Last(h, c + 1)
    BY <2>2, <2>3, <2>4, Zenon
  <2>6. c + 1 \in 0 .. L
    BY <1>0
  <2> HIDE DEF Last
  <2>. QED  BY <2>5, <2>6, Zenon
<1>3. L \in T
  <2> HIDE DEF T, L
  <2>1. 0 .. L \subseteq T
    BY <1>0, <1>1, <1>2, IndexInduction, Zenon
  <2>. QED  BY <1>0, <2>1
<1>4. PICK g : Last(g, L)
  BY <1>3, Zenon
<1>5. L + 1 - L = 1
  BY <1>0
<1>6. \A i \in 1 .. L + 1 : g[i] = Turn(m, g, i)
  BY <1>4, <1>5, Zenon
<1>7. g = [i \in 1 .. L + 1 |-> g[i]]
  BY <1>4, Zenon
<1>8. IsUnbatch(g, m)
  BY <1>6, <1>7, Zenon DEF IsUnbatch
<1>. QED  BY <1>8, Zenon

(* What write makes of a datagram is what its loop finds from byte 1 on. *)
LEMMA UnbatchLoop ==
    ASSUME NEW m \in Bytes
    PROVE  \E g : IsUnbatch(g, m) /\ Unbatch(m) = g[1]
<1> DEFINE g == CHOOSE h : IsUnbatch(h, m)
<1>1. Unbatch(m) = g[1]
  BY Zenon DEF Unbatch, IsUnbatch, Turn
<1>2. IsUnbatch(g, m)
  BY UnbatchExists, Zenon
<1>. QED  BY <1>1, <1>2, Zenon

(* A packet of an earlier run has the smaller number. *)
LEMMA EarlierLess ==
    ASSUME NEW a \in Nat, NEW b \in Nat, NEW c \in Nat, NEW x \in a + 1 .. b, NEW y \in b + 1 .. c
    PROVE  x < y
  OBVIOUS

(* Packets that follow others *)
LEMMA WholeConcat ==
    ASSUME NEW rd, NEW lo \in Nat, NEW mid \in Nat, NEW hi \in Nat, lo <= mid, mid <= hi,
           NEW d \in Seq(Bytes), NEW w \in Seq(Bytes), Whole(d, rd, lo, mid), Whole(w, rd, mid, hi)
    PROVE  d \o w \in Seq(Bytes) /\ Whole(d \o w, rd, lo, hi)
<1> DEFINE c == d \o w
           OneOf(x, a, b) == x[1] \in a + 1 .. b /\ x = Body(x[1], rd[x[1]])
<1>1. /\ c \in Seq(Bytes) /\ Len(c) = Len(d) + Len(w) /\ Len(d) \in Nat /\ Len(w) \in Nat
      /\ \A k \in 1 .. Len(c) : c[k] = IF k <= Len(d) THEN d[k] ELSE w[k - Len(d)]
  OBVIOUS
<1> HIDE DEF c
<1>2. /\ \A k \in 1 .. Len(d) : OneOf(d[k], lo, mid)
      /\ \A k \in 1 .. Len(w) : OneOf(w[k], mid, hi)
      /\ \A j, k \in 1 .. Len(d) : j < k => d[j][1] < d[k][1]
      /\ \A j, k \in 1 .. Len(w) : j < k => w[j][1] < w[k][1]
  BY Zenon DEF Whole
<1>3. \A k \in 1 .. Len(c) : \/ k \in 1 .. Len(d) /\ c[k] = d[k]
                             \/ k - Len(d) \in 1 .. Len(w) /\ c[k] = w[k - Len(d)] /\ k > Len(d)
  BY <1>1
<1>4. ASSUME NEW x, NEW a \in Nat, NEW b \in Nat, lo <= a, b <= hi, OneOf(x, a, b) PROVE OneOf(x, lo, hi)
  BY <1>4
<1>5. ASSUME NEW k \in 1 .. Len(c) PROVE OneOf(c[k], lo, hi)
  <2> HIDE DEF OneOf
  <2>1. OneOf(c[k], lo, mid) \/ OneOf(c[k], mid, hi)
    BY <1>2, <1>3, Zenon
  <2>2. lo <= lo /\ hi <= hi
    OBVIOUS
  <2>. QED  BY <1>4, <2>1, <2>2, Zenon
<1>6. ASSUME NEW j \in 1 .. Len(c), NEW k \in 1 .. Len(c), j < k PROVE c[j][1] < c[k][1]
  <2>1. CASE k \in 1 .. Len(d)
    <3>1. j \in 1 .. Len(d)
      BY <1>1, <1>6, <2>1
    <3>2. c[j] = d[j] /\ c[k] = d[k]
      BY <1>1, <2>1, <3>1
    <3>. QED  BY <1>2, <1>6, <2>1, <3>1, <3>2, Zenon
  <2>2. CASE j \notin 1 .. Len(d)
    <3>1. /\ c[j] = w[j - Len(d)] /\ c[k] = w[k - Len(d)]
          /\ j - Len(d) \in 1 .. Len(w) /\ k - Len(d) \in 1 .. Len(w) /\ j - Len(d) < k - Len(d)
      BY <1>1, <1>3, <1>6, <2>2, SMTT(60)
    <3>. QED  BY <1>2, <3>1, Zenon
  <2>3. CASE j \in 1 .. Len(d) /\ k \notin 1 .. Len(d)
    <3>1. c[j] = d[j] /\ c[k] = w[k - Len(d)] /\ k - Len(d) \in 1 .. Len(w)
      BY <1>1, <1>3, <2>3, SMTT(60)
    <3>2. c[j][1] \in lo + 1 .. mid /\ c[k][1] \in mid + 1 .. hi
      BY <1>2, <2>3, <3>1, Zenon
    <3>. QED  BY <3>2, EarlierLess, Zenon
  <2>. QED  BY <2>1, <2>2, <2>3, Zenon
<1>. QED  BY <1>1, <1>5, <1>6, Zenon DEF Whole, c

(* The body of a packet, alone *)
LEMMA WholeOne ==
    ASSUME NEW rd, NEW n \in Nat, rd[n + 1] \in Sizes
    PROVE  /\ <<Body(n + 1, rd[n + 1])>> \in Seq(Bytes)
           /\ Whole(<<Body(n + 1, rd[n + 1])>>, rd, n, n + 1)
<1> DEFINE b == Body(n + 1, rd[n + 1])
<1>0. \A z \in Sizes : z \in Nat /\ z >= 1
  BY TunnelAssumption
<1>1. rd[n + 1] \in Nat /\ rd[n + 1] >= 1
  BY <1>0, Zenon
<1>2. b \in Bytes /\ b[1] = n + 1
  <2> DEFINE z == rd[n + 1]
  <2> HIDE DEF z
  <2>1. z \in Nat /\ z >= 1 /\ 1 \in 1 .. z
    BY <1>1 DEF z
  <2>2. Body(n + 1, z) \in Seq(Nat) /\ Body(n + 1, z)[1] = n + 1
    BY <2>1 DEF Body
  <2>. QED  BY <2>2, Zenon DEF Bytes, z
<1>3. b = Body(b[1], rd[b[1]])
  BY <1>2, Zenon
<1> HIDE DEF b
<1>4. b[1] \in n + 1 .. n + 1
  BY <1>2
<1>5. <<b>> \in Seq(Bytes) /\ Len(<<b>>) = 1 /\ <<b>>[1] = b /\ \A k \in 1 .. Len(<<b>>) : k = 1
  BY <1>2
<1>6. Whole(<<b>>, rd, n, n + 1)
  BY <1>3, <1>4, <1>5 DEF Whole
<1>. QED  BY <1>5, <1>6 DEF b

(* No packet at all is a run of whole packets. *)
LEMMA WholeNone == ASSUME NEW rd, NEW lo, NEW hi PROVE << >> \in Seq(Bytes) /\ Whole(<< >>, rd, lo, hi)
  BY DEF Whole

(* A length in two bytes *)
LEMMA TwoBytes == ASSUME NEW z \in Nat PROVE 256 * (z \div 256) + (z % 256) = z
  OBVIOUS

(* The bytes of a packet in a datagram *)
LEMMA Middle ==
    ASSUME NEW m \in Bytes, NEW i \in Nat, NEW z \in Nat, i + 1 + z <= Len(m)
    PROVE  SubSeq(m, i + 2, i + 1 + z) = [x \in 1 .. z |-> m[i + 1 + x]]
<1> DEFINE a == i + 2
           b == i + 1 + z
           q == SubSeq(m, a, b)
<1>1. a \in Int /\ b \in Int /\ b - a + 1 = z /\ \A x \in a .. b : x \in 1 .. Len(m)
  BY DEF Bytes
<1>2. \A x \in a .. b : m[x] \in Nat
  BY <1>1 DEF Bytes
<1>3. \A x \in 1 .. z : a + x - 1 = i + 1 + x
  OBVIOUS
<1>4. a <= b \/ z = 0
  OBVIOUS
<1> HIDE DEF a, b
<1>5. /\ q \in Seq(Nat) /\ Len(q) = (IF a <= b THEN b - a + 1 ELSE 0)
      /\ \A x \in 1 .. b - a + 1 : q[x] = m[a + x - 1]
  BY <1>1, <1>2, SubSeqProperties
<1> HIDE DEF q
<1>6. Len(q) = z
  BY <1>1, <1>4, <1>5, Zenon
<1>7. q = [x \in 1 .. Len(q) |-> q[x]]
  BY <1>5
<1>8. \A x \in 1 .. z : q[x] = m[i + 1 + x]
  BY <1>1, <1>3, <1>5, Zenon
<1>. QED  BY <1>6, <1>7, <1>8, Zenon DEF q, a, b

(* One turn of the loop where packet n + 1 begins: either the rest is cut   *)
(* off, or the packet is whole and the next turn begins after it.           *)
LEMMA TurnAtFrame ==
    ASSUME NEW rd \in Seq(Sizes), NEW off, IsOff(off, rd), NEW lo \in 0 .. Len(rd), NEW hi \in 0 .. Len(rd),
           NEW m \in Bytes, Piece(m, rd, off, lo, hi), NEW g, NEW n \in lo .. hi - 1,
           off[n] - off[lo] + 1 <= Len(m) + 1
    PROVE  \/ Turn(m, g, off[n] - off[lo] + 1) = << >>
           \/ /\ off[n + 1] - off[lo] + 1 <= Len(m) + 1
              /\ Turn(m, g, off[n] - off[lo] + 1) = <<Body(n + 1, rd[n + 1])>> \o g[off[n + 1] - off[lo] + 1]
<1> DEFINE L == Len(m)
           i == off[n] - off[lo] + 1
           z == rd[n + 1]
<1>0. /\ L \in Nat /\ Len(rd) \in Nat /\ lo \in Nat /\ hi \in Nat /\ n \in Nat
      /\ n \in 0 .. Len(rd) /\ n + 1 \in 1 .. Len(rd) /\ n + 1 \in lo + 1 .. hi /\ lo <= n
      /\ (n + 1) - 1 = n
  BY DEF Bytes
<1>1. z \in Nat /\ z >= 1
  <2>1. \A x \in Sizes : x \in Nat /\ x >= 1
    BY TunnelAssumption
  <2>2. z \in Sizes
    BY <1>0
  <2>. QED  BY <2>1, <2>2, Zenon
<1>2. /\ off[n] \in Nat /\ off[lo] \in Nat /\ off[lo] <= off[n]
      /\ off[n + 1] = off[n] + 2 + z
  BY <1>0, Zenon DEF IsOff
<1>3. i \in Nat /\ i >= 1 /\ i <= L + 1 /\ off[n + 1] - off[lo] + 1 = i + 2 + z
  <2>1. \A a, b \in Nat, c \in Nat : b <= a => /\ a - b + 1 \in Nat /\ a - b + 1 >= 1
                                             /\ (a + 2 + c) - b + 1 = (a - b + 1) + 2 + c
    OBVIOUS
  <2>2. /\ i \in Nat /\ i >= 1
        /\ (off[n] + 2 + z) - off[lo] + 1 = i + 2 + z
    BY <1>1, <1>2, <2>1, ZenonT(60)
  <2>. QED  BY <1>2, <2>2, Zenon
<1>4. \A j \in 1 .. 2 + z : off[n] - off[lo] + j <= L => m[off[n] - off[lo] + j] = FrameByte(n + 1, z, j)
  BY <1>0, Zenon DEF Piece
<1>5. \A j \in Int : off[n] - off[lo] + j = i - 1 + j
  BY <1>2
<1>6. \A j \in 1 .. 2 + z : i - 1 + j <= L => m[i - 1 + j] = FrameByte(n + 1, z, j)
  <2>1. \A j \in 1 .. 2 + z : j \in Int
    OBVIOUS
  <2>. QED  BY <1>4, <1>5, <2>1, Zenon
<1> HIDE DEF L, i, z
<1>7. CASE L + 1 - i < 2
  <2>1. Turn(m, g, i) = << >>
    BY <1>7, Zenon DEF Turn, L
  <2>. QED  BY <2>1, Zenon DEF i
<1>8. CASE ~(L + 1 - i < 2)
  <2>1. i + 1 <= L /\ 1 \in 1 .. 2 + z /\ 2 \in 1 .. 2 + z /\ i - 1 + 1 = i /\ i - 1 + 2 = i + 1 /\ i <= L
    BY <1>0, <1>1, <1>3, <1>8
  <2>2. m[i] = z \div 256 /\ m[i + 1] = z % 256
    <3>1. m[i] = FrameByte(n + 1, z, 1) /\ m[i + 1] = FrameByte(n + 1, z, 2)
      BY <1>6, <2>1, Zenon
    <3>. QED  BY <3>1 DEF FrameByte
  <2>3. 256 * m[i] + m[i + 1] = z
    BY <1>1, <2>2, TwoBytes
  <2>4. Turn(m, g, i) = IF L - (i + 1) < z THEN << >>
                        ELSE <<SubSeq(m, i + 2, i + 1 + z)>> \o g[i + 2 + z]
    BY <1>8, <2>3, ZenonT(60) DEF Turn, L
  <2>5. CASE L - (i + 1) < z
    BY <2>4, <2>5, Zenon DEF i
  <2>6. CASE ~(L - (i + 1) < z)
    <3>1. i + 1 + z <= L
      BY <1>0, <1>1, <1>3, <2>6
    <3>2. SubSeq(m, i + 2, i + 1 + z) = [x \in 1 .. z |-> m[i + 1 + x]]
      BY <1>1, <1>3, <3>1, Middle, Zenon DEF L
    <3>3. ASSUME NEW x \in 1 .. z PROVE m[i + 1 + x] = n + 1
      <4>1. 2 + x \in 1 .. 2 + z /\ i - 1 + (2 + x) = i + 1 + x /\ i + 1 + x <= L /\ 2 + x # 1 /\ 2 + x # 2
        BY <1>0, <1>1, <1>3, <3>1
      <4>2. m[i + 1 + x] = FrameByte(n + 1, z, 2 + x)
        BY <1>6, <4>1, Zenon
      <4>. QED  BY <4>1, <4>2, Zenon DEF FrameByte
    <3>4. SubSeq(m, i + 2, i + 1 + z) = Body(n + 1, z)
      BY <3>2, <3>3, Zenon DEF Body
    <3>5. Turn(m, g, i) = <<Body(n + 1, z)>> \o g[i + 2 + z]
      BY <2>4, <2>6, <3>4, Zenon
    <3>6. i + 2 + z <= L + 1
      BY <1>0, <1>1, <1>3, <3>1
    <3>. QED  BY <1>3, <3>5, <3>6, Zenon DEF i, L, z
  <2>. QED  BY <2>5, <2>6, Zenon
<1>. QED  BY <1>7, <1>8, Zenon

(* Unbatch undoes the framing of dataReceived: a datagram yields packets that *)
(* were read, whole and in order, also when it was cut short.                 *)
LEMMA UnbatchPiece ==
    ASSUME NEW rd \in Seq(Sizes), NEW off, IsOff(off, rd), NEW lo \in 0 .. Len(rd), NEW hi \in 0 .. Len(rd),
           lo <= hi, NEW m \in Bytes, Piece(m, rd, off, lo, hi)
    PROVE  Unbatch(m) \in Seq(Bytes) /\ Whole(Unbatch(m), rd, lo, hi)
<1>1. PICK g : IsUnbatch(g, m) /\ Unbatch(m) = g[1]
  BY UnbatchLoop, Zenon
<1> DEFINE at(n) == off[n] - off[lo] + 1
           Good(n) == at(n) <= Len(m) + 1 => g[at(n)] \in Seq(Bytes) /\ Whole(g[at(n)], rd, n, hi)
           T == {c \in 0 .. hi - lo : Good(hi - c)}
<1>0. Len(m) \in Nat /\ Len(rd) \in Nat /\ lo \in Nat /\ hi \in Nat /\ hi - lo \in Nat
  BY DEF Bytes
<1>2. \A n \in lo .. hi : off[n] \in Nat /\ at(n) \in Nat /\ at(n) >= 1
  <2>1. \A n \in lo .. hi : n \in 0 .. Len(rd) /\ lo <= n
    BY <1>0
  <2>2. \A n \in lo .. hi : off[n] \in Nat /\ off[lo] \in Nat /\ off[lo] <= off[n]
    BY <2>1, Zenon DEF IsOff
  <2>3. \A a, b \in Nat : b <= a => a - b + 1 \in Nat /\ a - b + 1 >= 1
    OBVIOUS
  <2>. QED  BY <2>2, <2>3, Zenon
<1>3. \A i \in 1 .. Len(m) + 1 : g[i] = Turn(m, g, i)
  BY <1>1, Zenon DEF IsUnbatch
<1>4. Good(hi)
  <2>1. Len(m) + 1 <= at(hi) /\ at(hi) \in Nat
    BY <1>0, <1>2, SMTT(60) DEF Piece
  <2>2. ASSUME at(hi) <= Len(m) + 1 PROVE g[at(hi)] = << >>
    <3>1. at(hi) = Len(m) + 1 /\ at(hi) \in 1 .. Len(m) + 1
      BY <1>0, <2>1, <2>2
    <3>2. Len(m) + 1 - at(hi) < 2
      BY <1>0, <3>1
    <3> HIDE DEF at
    <3>3. Turn(m, g, at(hi)) = << >>
      BY <3>2, Zenon DEF Turn
    <3>. QED  BY <1>3, <3>1, <3>3, Zenon
  <2> HIDE DEF at
  <2>. QED  BY <2>2, WholeNone, Zenon
<1>5. ASSUME NEW n \in lo .. hi - 1, Good(n + 1) PROVE Good(n)
  <2> SUFFICES ASSUME at(n) <= Len(m) + 1
               PROVE  g[at(n)] \in Seq(Bytes) /\ Whole(g[at(n)], rd, n, hi)
    BY Zenon
  <2>1. n \in lo .. hi /\ n \in Nat /\ n + 1 \in Nat /\ n + 1 <= hi /\ n <= n + 1
    BY <1>0
  <2>2. g[at(n)] = Turn(m, g, at(n))
    <3>1. at(n) \in 1 .. Len(m) + 1
      BY <1>0, <1>2, <2>1, SMTT(60)
    <3> HIDE DEF at
    <3>. QED  BY <1>3, <3>1, Zenon
  <2>3. \/ Turn(m, g, at(n)) = << >>
        \/ /\ at(n + 1) <= Len(m) + 1
           /\ Turn(m, g, at(n)) = <<Body(n + 1, rd[n + 1])>> \o g[at(n + 1)]
    BY TurnAtFrame, SMTT(60)
  <2>4. rd[n + 1] \in Sizes
    BY <1>0
  <2> HIDE DEF at
  <2>5. CASE Turn(m, g, at(n)) = << >>
    BY <2>2, <2>5, WholeNone, Zenon
  <2>6. CASE /\ at(n + 1) <= Len(m) + 1
             /\ Turn(m, g, at(n)) = <<Body(n + 1, rd[n + 1])>> \o g[at(n + 1)]
    <3>1. g[at(n + 1)] \in Seq(Bytes) /\ Whole(g[at(n + 1)], rd, n + 1, hi)
      BY <1>5, <2>6, Zenon
    <3>2. /\ <<Body(n + 1, rd[n + 1])>> \in Seq(Bytes)
          /\ Whole(<<Body(n + 1, rd[n + 1])>>, rd, n, n + 1)
      BY <2>1, <2>4, WholeOne, Zenon
    <3> DEFINE u == <<Body(n + 1, rd[n + 1])>>
               w == g[at(n + 1)]
    <3> HIDE DEF u, w
    <3>3. u \o w \in Seq(Bytes) /\ Whole(u \o w, rd, n, hi)
      BY <1>0, <2>1, <3>1, <3>2, WholeConcat, Zenon DEF u, w
    <3>. QED  BY <2>2, <2>6, <3>3, Zenon DEF u, w
  <2>. QED  BY <2>3, <2>5, <2>6, Zenon
<1> HIDE DEF Good, at
<1>6. 0 \in T
  <2>1. hi - 0 = hi /\ 0 \in 0 .. hi - lo
    BY <1>0
  <2>. QED  BY <1>4, <2>1, Zenon
<1>7. ASSUME NEW c \in 0 .. (hi - lo) - 1, c \in T PROVE c + 1 \in T
  <2>1. /\ hi - (c + 1) \in lo .. hi - 1 /\ (hi - (c + 1)) + 1 = hi - c /\ c + 1 \in 0 .. hi - lo
    BY <1>0
  <2>2. Good(hi - c)
    BY <1>7, Zenon
  <2>3. Good(hi - (c + 1))
    BY <1>5, <2>1, <2>2, Zenon
  <2>. QED  BY <2>1, <2>3, Zenon
<1>8. 0 .. hi - lo \subseteq T
  <2> HIDE DEF T
  <2>. QED  BY <1>0, <1>6, <1>7, IndexInduction, Zenon
<1>9. Good(lo)
  <2>1. hi - lo \in 0 .. hi - lo /\ hi - (hi - lo) = lo
    BY <1>0
  <2>. QED  BY <1>8, <2>1, Zenon
<1>10. at(lo) = 1
  BY <1>0, SMTT(60) DEF at, IsOff
<1>11. 1 <= Len(m) + 1
  BY <1>0
<1>. QED  BY <1>1, <1>9, <1>10, <1>11, Zenon DEF Good

-----------------------------------------------------------------------------
(* What the steps do to the stream.  The sizes and the ends of the packets   *)
(* read so far do not change when another packet is read.                    *)
Extends(rd, off, rd2, off2) ==
    /\ \A n \in 1 .. Len(rd) : rd2[n] = rd[n]
    /\ \A n \in 0 .. Len(rd) : off2[n] = off[n]

(* A datagram still is the piece of the stream it was, *)
LEMMA PieceStays ==
    ASSUME NEW rd, NEW off, NEW rd2, NEW off2, Extends(rd, off, rd2, off2), Len(rd) \in Nat,
           NEW lo \in 0 .. Len(rd), NEW hi \in 0 .. Len(rd), NEW m, Piece(m, rd, off, lo, hi)
    PROVE  Piece(m, rd2, off2, lo, hi)
<1>1. off2[lo] = off[lo] /\ off2[hi] = off[hi]
  BY Zenon DEF Extends
<1>2. ASSUME NEW n \in lo + 1 .. hi PROVE rd2[n] = rd[n] /\ off2[n - 1] = off[n - 1]
  <2>1. n \in 1 .. Len(rd) /\ n - 1 \in 0 .. Len(rd)
    OBVIOUS
  <2>. QED  BY <2>1, Zenon DEF Extends
<1>. QED  BY <1>1, <1>2, Zenon DEF Piece

(* and what was unbatched still is whole packets in order. *)
LEMMA WholeStays ==
    ASSUME NEW rd, NEW off, NEW rd2, NEW off2, Extends(rd, off, rd2, off2), Len(rd) \in Nat,
           NEW hi \in 0 .. Len(rd), NEW d, Whole(d, rd, 0, hi)
    PROVE  Whole(d, rd2, 0, hi)
<1>1. ASSUME NEW k \in 1 .. Len(d) PROVE rd2[d[k][1]] = rd[d[k][1]]
  <2>1. d[k][1] \in 0 + 1 .. hi
    BY Zenon DEF Whole
  <2>2. d[k][1] \in 1 .. Len(rd)
    BY <2>1
  <2>. QED  BY <2>2, Zenon DEF Extends
<1>. QED  BY <1>1, Zenon DEF Whole

(* Where the elements of two joined sequences are *)
IsJoin(s, t, u) ==
    /\ Len(u) = Len(s) + Len(t)
    /\ \A i \in 1 .. Len(s) : u[i] = s[i]
    /\ \A j \in 1 .. Len(t) : u[Len(s) + j] = t[j]

(* Concatenation is such a join. *)
LEMMA Joined ==
    ASSUME NEW S, NEW s \in Seq(S), NEW t \in Seq(S)
    PROVE  s \o t \in Seq(S) /\ IsJoin(s, t, s \o t)
<1>1. Len(s) \in Nat /\ Len(t) \in Nat /\ s \o t \in Seq(S) /\ Len(s \o t) = Len(s) + Len(t)
  OBVIOUS
<1>2. \A i \in 1 .. Len(s) + Len(t) : (s \o t)[i] = IF i <= Len(s) THEN s[i] ELSE t[i - Len(s)]
  BY ConcatProperties, Zenon
<1>3. ASSUME NEW i \in 1 .. Len(s) PROVE (s \o t)[i] = s[i]
  <2>1. i \in 1 .. Len(s) + Len(t) /\ i <= Len(s)
    BY <1>1
  <2>. QED  BY <1>2, <2>1, Zenon
<1>4. ASSUME NEW j \in 1 .. Len(t) PROVE (s \o t)[Len(s) + j] = t[j]
  <2>1. Len(s) + j \in 1 .. Len(s) + Len(t) /\ ~(Len(s) + j <= Len(s)) /\ Len(s) + j - Len(s) = j
    BY <1>1
  <2> DEFINE i == Len(s) + j
  <2>2. (s \o t)[i] = IF i <= Len(s) THEN s[i] ELSE t[i - Len(s)]
    BY <1>2, <2>1, Zenon
  <2>. QED  BY <2>1, <2>2
<1>. QED  BY <1>1, <1>3, <1>4, Zenon DEF IsJoin

(* The bytes that dataReceived makes of packet n *)
Frame(n, size) == Length2(size) \o Body(n, size)

(* The frame of packet n: two bytes of length, then the packet. *)
LEMMA FrameBytes ==
    ASSUME NEW n \in Nat, NEW size \in Sizes
    PROVE  /\ Frame(n, size) \in Bytes /\ Len(Frame(n, size)) = size + 2 /\ size \in Nat
           /\ \A j \in 1 .. 2 + size : Frame(n, size)[j] = FrameByte(n, size, j)
<1> DEFINE l == Length2(size)
           b == Body(n, size)
           fr == l \o b
<1>1. fr \in Bytes /\ Len(fr) = size + 2 /\ size \in Nat
  BY FramedPacket, Zenon
<1>2. size \div 256 \in Nat /\ size % 256 \in Nat
  BY <1>1
<1>3. l \in Seq(Nat) /\ Len(l) = 2 /\ l[1] = size \div 256 /\ l[2] = size % 256
  BY <1>2 DEF Length2
<1>4. b \in Seq(Nat) /\ Len(b) = size /\ \A k \in 1 .. size : b[k] = n
  BY <1>1 DEF Body
<1> HIDE DEF l, b
<1>5. /\ \A k \in 1 .. Len(l) : fr[k] = l[k]
      /\ \A k \in 1 .. Len(b) : fr[Len(l) + k] = b[k]
  <2>1. IsJoin(l, b, fr)
    BY <1>3, <1>4, Joined, Zenon
  <2>. QED  BY <2>1, Zenon DEF IsJoin
<1> HIDE DEF fr
<1>6. ASSUME NEW j \in 1 .. 2 + size PROVE fr[j] = FrameByte(n, size, j)
  <2>1. CASE j = 1
    BY <1>3, <1>5, <2>1 DEF FrameByte
  <2>2. CASE j = 2
    BY <1>3, <1>5, <2>2 DEF FrameByte
  <2>3. CASE j # 1 /\ j # 2
    <3>1. j - 2 \in 1 .. size /\ 2 + (j - 2) = j
      BY <1>1, <2>3
    <3>2. fr[j] = b[j - 2]
      BY <1>3, <1>4, <1>5, <3>1, SMTT(60)
    <3>. QED  BY <1>4, <2>3, <3>1, <3>2, Zenon DEF FrameByte
  <2>. QED  BY <2>1, <2>2, <2>3, Zenon
<1>. QED  BY <1>1, <1>6, Zenon DEF fr, l, b, Frame

(* A packet is read and its frame put behind what waits. *)
LEMMA StreamRead ==
    ASSUME NEW rd \in Seq(Sizes), NEW size \in Sizes, NEW a \in Seq(Bytes), NEW b \in Bytes, NEW d,
           Streamed(rd, a, b, d)
    PROVE  Streamed(Append(rd, size), a, b \o Frame(Len(rd) + 1, size), d)
<1>1. PICK off, mk : StreamOK(rd, a, b, d, off, mk)
  BY Zenon DEF Streamed
<1> DEFINE N == Len(rd)
           r2 == Append(rd, size)
           fr == Frame(N + 1, size)
           b2 == b \o fr
           o2 == [n \in 0 .. N + 1 |-> IF n <= N THEN off[n] ELSE off[N] + 2 + size]
           lo == mk[Len(a)]
<1>2. /\ N \in Nat /\ Len(a) \in Nat /\ Len(b) \in Nat
      /\ \A n \in 1 .. N : rd[n] \in Sizes
      /\ \A z \in Sizes : z \in Nat
  BY TunnelAssumption DEF Bytes
<1>3. /\ IsOff(off, rd) /\ mk \in [0 .. Len(a) -> 0 .. N]
      /\ Piece(b, rd, off, lo, N) /\ Len(b) = off[N] - off[lo]
      /\ \A k \in 1 .. Len(a) : mk[k - 1] <= mk[k] /\ Piece(a[k], rd, off, mk[k - 1], mk[k])
      /\ Whole(d, rd, 0, mk[0])
  BY <1>1, Zenon DEF StreamOK
<1>4. /\ Len(r2) = N + 1 /\ r2[N + 1] = size /\ \A n \in 1 .. N : r2[n] = rd[n]
  OBVIOUS
<1>5. \A n \in 0 .. N : off[n] \in Nat
  BY <1>3, Zenon DEF IsOff
<1>6. /\ o2 \in [0 .. N + 1 -> Nat] /\ o2[N + 1] = off[N] + 2 + size
      /\ \A n \in 0 .. N : o2[n] = off[n]
  <2>1. size \in Nat /\ N + 1 \in 0 .. N + 1 /\ ~(N + 1 <= N)
    BY <1>2
  <2>2. \A n \in 0 .. N : n \in 0 .. N + 1 /\ n <= N
    BY <1>2
  <2>3. N \in 0 .. N
    BY <1>2
  <2>4. off[N] + 2 + size \in Nat
    BY <1>5, <2>1, <2>3, SMTT(60)
  <2>5. ASSUME NEW n \in 0 .. N + 1 PROVE (IF n <= N THEN off[n] ELSE off[N] + 2 + size) \in Nat
    <3>1. CASE n <= N
      <4>1. n \in 0 .. N
        BY <1>2, <3>1
      <4>. QED  BY <1>5, <3>1, <4>1, Zenon
    <3>. QED  BY <2>4, <3>1, Zenon
  <2>. QED  BY <2>1, <2>2, <2>5, Zenon
<1>7. /\ fr \in Bytes /\ Len(fr) = size + 2 /\ size \in Nat
      /\ \A j \in 1 .. 2 + size : fr[j] = FrameByte(N + 1, size, j)
  <2>1. N + 1 \in Nat
    BY <1>2
  <2>. QED  BY <2>1, FrameBytes, Zenon
<1> HIDE DEF r2, fr, o2
<1>8. /\ b2 \in Bytes /\ Len(b2) = Len(b) + Len(fr)
      /\ \A i \in 1 .. Len(b) : b2[i] = b[i]
      /\ \A j \in 1 .. Len(fr) : b2[Len(b) + j] = fr[j]
  <2>1. b2 \in Bytes /\ IsJoin(b, fr, b2)
    BY <1>7, Joined, Zenon DEF Bytes
  <2>. QED  BY <2>1, Zenon DEF IsJoin
<1> HIDE DEF b2, N
<1>9. IsOff(o2, r2)
  <2>1. o2[0] = 0
    BY <1>2, <1>3, <1>6 DEF IsOff, N
  <2>2. ASSUME NEW n \in 1 .. N + 1 PROVE o2[n] = o2[n - 1] + 2 + r2[n]
    <3>1. CASE n \in 1 .. N
      <4>1. n - 1 \in 0 .. N /\ n \in 0 .. N
        BY <1>2, <3>1
      <4>. QED  BY <1>3, <1>4, <1>6, <3>1, <4>1, Zenon DEF IsOff, N
    <3>2. CASE n = N + 1
      <4>1. n - 1 = N /\ N \in 0 .. N
        BY <1>2, <3>2
      <4>. QED  BY <1>4, <1>6, <3>2, <4>1, Zenon
    <3>. QED  BY <1>2, <3>1, <3>2
  <2>3. ASSUME NEW m \in 0 .. N + 1, NEW n \in 0 .. N + 1, m <= n PROVE o2[m] <= o2[n]
    <3>1. CASE n \in 0 .. N
      <4>1. m \in 0 .. N
        BY <1>2, <2>3, <3>1
      <4>. QED  BY <1>3, <1>6, <2>3, <3>1, <4>1, Zenon DEF IsOff, N
    <3>2. CASE n = N + 1 /\ m \in 0 .. N
      <4>1. off[m] <= off[N] /\ off[m] \in Nat /\ off[N] \in Nat
        BY <1>2, <1>3, <1>5, <3>2, SMTT(60) DEF IsOff, N
      <4>. QED  BY <1>6, <1>7, <3>2, <4>1, SMTT(60)
    <3>3. CASE n = N + 1 /\ m = N + 1
      BY <1>5, <1>6, <1>7, <3>3, <1>2
    <3>. QED  BY <1>2, <3>1, <3>2, <3>3
  <2>. QED  BY <1>4, <1>6, <2>1, <2>2, <2>3, Zenon DEF IsOff
<1>10. Extends(rd, off, r2, o2)
  BY <1>4, <1>6, Zenon DEF Extends, N
<1>11. lo \in 0 .. N /\ N \in 0 .. N /\ N + 1 \in 0 .. N + 1
  BY <1>2, <1>3
<1>12. Piece(b2, r2, o2, lo, N + 1) /\ Len(b2) = o2[N + 1] - o2[lo]
  <2>1. off[N] \in Nat /\ off[lo] \in Nat /\ off[lo] <= off[N] /\ o2[lo] = off[lo]
    BY <1>3, <1>5, <1>6, <1>11 DEF IsOff, N
  <2>2. Len(b2) = o2[N + 1] - o2[lo]
    <3>1. /\ Len(b2) = Len(b) + Len(fr) /\ Len(fr) = size + 2 /\ size \in Nat
          /\ Len(b) = off[N] - off[lo] /\ o2[N + 1] = off[N] + 2 + size
      BY <1>3, <1>6, <1>7, <1>8, Zenon
    <3>2. \A u, v, z \in Nat : (u - v) + (z + 2) = (u + 2 + z) - v
      OBVIOUS
    <3>3. (off[N] - off[lo]) + (size + 2) = (off[N] + 2 + size) - off[lo]
      BY <2>1, <3>1, <3>2, Zenon
    <3>. QED  BY <2>1, <3>1, <3>3, Zenon
  <2>3. ASSUME NEW n \in lo + 1 .. N + 1, NEW j \in 1 .. 2 + r2[n]
        PROVE  b2[o2[n - 1] - o2[lo] + j] = FrameByte(n, r2[n], j)
    <3>1. CASE n = N + 1
      <4>1. n - 1 = N /\ j \in 1 .. 2 + size /\ j \in 1 .. Len(fr)
        BY <1>2, <1>4, <1>7, <3>1
      <4>2. o2[n - 1] - o2[lo] + j = Len(b) + j
        BY <1>3, <1>6, <1>11, <2>1, <4>1, Zenon
      <4>. QED  BY <1>4, <1>7, <1>8, <3>1, <4>1, <4>2, ZenonT(60)
    <3>2. CASE n # N + 1
      <4>1. n \in 1 .. N /\ n \in 0 .. N /\ n - 1 \in 0 .. N /\ n \in lo + 1 .. N /\ lo <= n - 1 /\ n <= N
        BY <1>2, <1>11, <3>2
      <4>2. r2[n] = rd[n] /\ rd[n] \in Nat /\ o2[n - 1] = off[n - 1]
        BY <1>2, <1>4, <1>6, <4>1, Zenon
      <4>3. off[n] = off[n - 1] + 2 + rd[n] /\ off[n] <= off[N] /\ off[lo] <= off[n - 1]
        BY <1>3, <1>11, <4>1, Zenon DEF IsOff, N
      <4>4. off[n] \in Nat /\ off[n - 1] \in Nat
        BY <1>5, <4>1, Zenon
      <4> DEFINE x == off[n - 1] - off[lo] + j
      <4>5. x \in 1 .. Len(b)
        <5>1. Len(b) = off[N] - off[lo] /\ j \in 1 .. 2 + rd[n]
          BY <1>3, <4>2, Zenon
        <5>2. \A u, v, w, r \in Nat : \A i \in 1 .. 2 + r :
                 v <= w /\ w + 2 + r <= u => w - v + i \in 1 .. u - v
          OBVIOUS
        <5>3. off[n - 1] + 2 + rd[n] <= off[N]
          BY <4>3, Zenon
        <5>. QED  BY <2>1, <4>2, <4>3, <4>4, <5>1, <5>2, <5>3, Zenon
      <4>6. x <= Len(b)
        BY <1>2, <4>5, SMTT(60)
      <4>7. b[x] = FrameByte(n, rd[n], j)
        BY <1>3, <4>1, <4>2, <4>6, Zenon DEF Piece
      <4> HIDE DEF x
      <4>8. b2[x] = b[x]
        BY <1>8, <4>5, Zenon
      <4>. QED  BY <2>1, <4>2, <4>7, <4>8, Zenon DEF x
    <3>. QED  BY <3>1, <3>2, Zenon
  <2>4. Len(b2) <= o2[N + 1] - o2[lo]
    BY <1>6, <1>7, <2>1, <2>2
  <2>. QED  BY <2>2, <2>3, <2>4, Zenon DEF Piece
<1>13. ASSUME NEW k \in 1 .. Len(a) PROVE mk[k - 1] <= mk[k] /\ Piece(a[k], r2, o2, mk[k - 1], mk[k])
  <2>1. k - 1 \in 0 .. Len(a) /\ k \in 0 .. Len(a)
    BY <1>2
  <2>2. mk[k - 1] \in 0 .. N /\ mk[k] \in 0 .. N
    BY <1>3, <2>1, Zenon
  <2>3. mk[k - 1] <= mk[k] /\ Piece(a[k], rd, off, mk[k - 1], mk[k])
    BY <1>3, Zenon
  <2>. QED  BY <1>2, <1>10, <2>2, <2>3, PieceStays, ZenonT(60) DEF N
<1>14. Whole(d, r2, 0, mk[0])
  <2>1. mk[0] \in 0 .. N
    BY <1>2, <1>3, SMTT(60)
  <2>. QED  BY <1>2, <1>3, <1>10, <2>1, WholeStays, Zenon DEF N
<1>15. mk \in [0 .. Len(a) -> 0 .. Len(r2)]
  <2>1. \A x \in 0 .. N : x \in 0 .. N + 1
    BY <1>2, SMTT(60)
  <2>. QED  BY <1>3, <1>4, <2>1, Zenon
<1>16. StreamOK(r2, a, b2, d, o2, mk)
  BY <1>4, <1>9, <1>12, <1>13, <1>14, <1>15, Zenon DEF StreamOK
<1>. QED  BY <1>16, Zenon DEF Streamed, r2, b2, fr, N

(* A keepalive, or an empty aggregation queue, holds no part of the stream. *)
LEMMA EmptyPiece ==
    ASSUME NEW rd, NEW off, NEW n \in Nat, off[n] \in Nat
    PROVE  Piece(<< >>, rd, off, n, n) /\ Len(<< >>) = off[n] - off[n]
<1>1. \A x \in n + 1 .. n : FALSE
  OBVIOUS
<1>2. Len(<< >>) = 0 /\ off[n] - off[n] = 0
  OBVIOUS
<1>. QED  BY <1>1, <1>2 DEF Piece

(* What StreamOK says of single marks *)
LEMMA StreamFacts ==
    ASSUME NEW rd \in Seq(Sizes), NEW a \in Seq(Bytes), NEW b, NEW d, NEW off, NEW mk,
           StreamOK(rd, a, b, d, off, mk)
    PROVE  /\ Len(rd) \in Nat /\ Len(a) \in Nat /\ Len(rd) \in 0 .. Len(rd)
           /\ \A n \in 0 .. Len(rd) : n \in Nat /\ off[n] \in Nat
           /\ \A k \in 0 .. Len(a) : mk[k] \in 0 .. Len(rd)
           /\ \A k \in 1 .. Len(a) : a[k] \in Bytes
<1>1. Len(rd) \in Nat /\ Len(a) \in Nat /\ Len(rd) \in 0 .. Len(rd)
  OBVIOUS
<1>2. \A n \in 0 .. Len(rd) : n \in Nat
  OBVIOUS
<1>3. \A k \in 1 .. Len(a) : a[k] \in Bytes
  OBVIOUS
<1>4. off \in [0 .. Len(rd) -> Nat] /\ mk \in [0 .. Len(a) -> 0 .. Len(rd)]
  BY Zenon DEF StreamOK, IsOff
<1>. QED  BY <1>1, <1>2, <1>3, <1>4, Zenon

(* The aggregation queue is sent as one datagram. *)
LEMMA StreamFlush ==
    ASSUME NEW rd \in Seq(Sizes), NEW a \in Seq(Bytes), NEW b \in Bytes, NEW d, Streamed(rd, a, b, d)
    PROVE  Streamed(rd, a \o <<b>>, << >>, d)
<1>1. PICK off, mk : StreamOK(rd, a, b, d, off, mk)
  BY Zenon DEF Streamed
<1> DEFINE N == Len(rd)
           L == Len(a)
           a2 == a \o <<b>>
           m2 == [k \in 0 .. L + 1 |-> IF k <= L THEN mk[k] ELSE N]
<1>2. /\ N \in Nat /\ L \in Nat /\ N \in 0 .. N
      /\ \A n \in 0 .. N : n \in Nat /\ off[n] \in Nat
      /\ \A k \in 0 .. L : mk[k] \in 0 .. N
      /\ \A k \in 1 .. L : a[k] \in Bytes
  BY <1>1, StreamFacts, Zenon
<1>3. Len(a2) = L + 1 /\ a2[L + 1] = b /\ \A k \in 1 .. L : a2[k] = a[k]
  <2>1. <<b>> \in Seq(Bytes) /\ Len(<<b>>) = 1 /\ <<b>>[1] = b /\ 1 \in 1 .. 1
    OBVIOUS
  <2>2. IsJoin(a, <<b>>, a2)
    BY <2>1, Joined, Zenon
  <2> HIDE DEF a2
  <2>. QED  BY <2>1, <2>2, Zenon DEF IsJoin
<1> HIDE DEF a2
<1>4. /\ L + 1 \in 0 .. L + 1 /\ ~(L + 1 <= L)
      /\ \A k \in 0 .. L : k \in 0 .. L + 1 /\ k <= L
      /\ \A k \in 0 .. L + 1 : k \in 0 .. L \/ k = L + 1
      /\ \A k \in 1 .. L + 1 : (k \in 1 .. L /\ k - 1 \in 0 .. L /\ k \in 0 .. L) \/ (k = L + 1 /\ k - 1 = L /\ L \in 0 .. L)
      /\ 0 \in 0 .. L
  BY <1>2
<1>5. /\ DOMAIN m2 = 0 .. L + 1 /\ m2 = [k \in 0 .. L + 1 |-> m2[k]]
      /\ m2[L + 1] = N /\ \A k \in 0 .. L : m2[k] = mk[k]
  BY <1>4, Zenon
<1> HIDE DEF m2
<1>6. m2 \in [0 .. L + 1 -> 0 .. N]
  BY <1>2, <1>4, <1>5, Zenon
<1> HIDE DEF N, L
<1>7. /\ IsOff(off, rd) /\ Piece(b, rd, off, mk[L], N)
      /\ \A k \in 1 .. L : mk[k - 1] <= mk[k] /\ Piece(a[k], rd, off, mk[k - 1], mk[k])
      /\ Whole(d, rd, 0, mk[0])
  BY <1>1, Zenon DEF StreamOK, N, L
<1>8. ASSUME NEW k \in 1 .. L + 1
      PROVE  m2[k - 1] <= m2[k] /\ Piece(a2[k], rd, off, m2[k - 1], m2[k])
  <2>1. CASE k \in 1 .. L /\ k - 1 \in 0 .. L /\ k \in 0 .. L
    BY <1>3, <1>5, <1>7, <2>1, Zenon
  <2>2. CASE k = L + 1 /\ k - 1 = L /\ L \in 0 .. L
    <3>1. mk[L] <= N
      BY <1>2, <2>2
    <3>2. m2[k - 1] = mk[L] /\ m2[k] = N /\ a2[k] = b
      BY <1>3, <1>5, <2>2, Zenon
    <3>. QED  BY <1>7, <3>1, <3>2, Zenon
  <2>. QED  BY <1>4, <2>1, <2>2, Zenon
<1>9. Piece(<< >>, rd, off, m2[L + 1], N) /\ Len(<< >>) = off[N] - off[m2[L + 1]]
  BY <1>2, <1>5, EmptyPiece, Zenon
<1>10. Whole(d, rd, 0, m2[0])
  BY <1>4, <1>5, <1>7, Zenon
<1>11. StreamOK(rd, a2, << >>, d, off, m2)
  BY <1>3, <1>6, <1>7, <1>8, <1>9, <1>10, Zenon DEF StreamOK, N
<1>. QED  BY <1>11, Zenon DEF Streamed, a2

(* The first datagram arrives, or is lost. *)
LEMMA StreamTail ==
    ASSUME NEW rd \in Seq(Sizes), NEW a \in Seq(Bytes), a # << >>, NEW b, NEW d, NEW off, NEW mk,
           StreamOK(rd, a, b, d, off, mk), NEW d2, Whole(d2, rd, 0, mk[1])
    PROVE  Streamed(rd, Tail(a), b, d2)
<1> DEFINE N == Len(rd)
           L == Len(a)
           a2 == Tail(a)
           m2 == [k \in 0 .. L - 1 |-> mk[k + 1]]
<1>2. /\ N \in Nat /\ L \in Nat /\ N \in 0 .. N
      /\ \A k \in 0 .. L : mk[k] \in 0 .. N
  BY StreamFacts, Zenon
<1>3. L >= 1 /\ Len(a2) = L - 1 /\ \A k \in 1 .. L - 1 : a2[k] = a[k + 1]
  OBVIOUS
<1> HIDE DEF a2, L
<1>4. /\ 0 \in 0 .. L - 1 /\ L - 1 \in 0 .. L - 1 /\ 0 + 1 = 1 /\ (L - 1) + 1 = L
      /\ \A k \in 0 .. L - 1 : k + 1 \in 0 .. L
      /\ \A k \in 1 .. L - 1 : k \in 0 .. L - 1 /\ k - 1 \in 0 .. L - 1 /\ k + 1 \in 1 .. L /\ (k - 1) + 1 = k /\ (k + 1) - 1 = k
  BY <1>2, <1>3
<1>5. /\ m2 \in [0 .. L - 1 -> 0 .. N] /\ \A k \in 0 .. L - 1 : m2[k] = mk[k + 1]
  BY <1>2, <1>4, Zenon
<1> HIDE DEF m2
<1>6. /\ IsOff(off, rd) /\ Piece(b, rd, off, mk[L], N) /\ Len(b) = off[N] - off[mk[L]]
      /\ \A k \in 1 .. L : mk[k - 1] <= mk[k] /\ Piece(a[k], rd, off, mk[k - 1], mk[k])
  BY Zenon DEF StreamOK, N, L
<1> HIDE DEF N
<1>7. m2[0] = mk[1] /\ m2[L - 1] = mk[L]
  BY <1>4, <1>5, Zenon
<1>8. ASSUME NEW k \in 1 .. L - 1
      PROVE  m2[k - 1] <= m2[k] /\ Piece(a2[k], rd, off, m2[k - 1], m2[k])
  <2>1. m2[k - 1] = mk[k] /\ m2[k] = mk[k + 1] /\ a2[k] = a[k + 1]
    BY <1>3, <1>4, <1>5, Zenon
  <2>2. mk[k] <= mk[k + 1] /\ Piece(a[k + 1], rd, off, mk[k], mk[k + 1])
    BY <1>4, <1>6, Zenon
  <2>. QED  BY <2>1, <2>2, Zenon
<1>9. StreamOK(rd, a2, b, d2, off, m2)
  BY <1>3, <1>5, <1>6, <1>7, <1>8, Zenon DEF StreamOK, N
<1>. QED  BY <1>9, Zenon DEF Streamed, a2

(* A datagram lost in the air takes its packets with it and no others. *)
LEMMA StreamLose ==
    ASSUME NEW rd \in Seq(Sizes), NEW a \in Seq(Bytes), a # << >>, NEW b, NEW d, Streamed(rd, a, b, d)
    PROVE  Streamed(rd, Tail(a), b, d)
<1>1. PICK off, mk : StreamOK(rd, a, b, d, off, mk)
  BY Zenon DEF Streamed
<1>2. 0 \in 0 .. Len(a) /\ 1 \in 0 .. Len(a) /\ 1 \in 1 .. Len(a) /\ 1 - 1 = 0
  OBVIOUS
<1>3. mk[0] \in 0 .. Len(rd) /\ mk[1] \in 0 .. Len(rd) /\ Len(rd) \in Nat
  BY <1>1, <1>2, StreamFacts, Zenon
<1>4. mk[0] <= mk[1] /\ Whole(d, rd, 0, mk[0])
  BY <1>1, <1>2, Zenon DEF StreamOK
<1>5. \A x \in 0 + 1 .. mk[0] : x \in 0 + 1 .. mk[1]
  BY <1>3, <1>4
<1>6. Whole(d, rd, 0, mk[1])
  BY <1>4, <1>5, Zenon DEF Whole
<1>. QED  BY <1>1, <1>6, StreamTail, Zenon

(* What write cuts from the first datagram joins the packets for the TUN *)
(* device.                                                               *)
LEMMA StreamDeliver ==
    ASSUME NEW rd \in Seq(Sizes), NEW a \in Seq(Bytes), a # << >>, NEW b, NEW d \in Seq(Bytes),
           Streamed(rd, a, b, d)
    PROVE  /\ Unbatch(Head(a)) \in Seq(Bytes)
           /\ Streamed(rd, Tail(a), b, d \o Unbatch(Head(a)))
<1>1. PICK off, mk : StreamOK(rd, a, b, d, off, mk)
  BY Zenon DEF Streamed
<1>2. 0 \in 0 .. Len(a) /\ 1 \in 0 .. Len(a) /\ 1 \in 1 .. Len(a) /\ 1 - 1 = 0 /\ Head(a) = a[1]
  OBVIOUS
<1>3. mk[0] \in 0 .. Len(rd) /\ mk[1] \in 0 .. Len(rd) /\ Len(rd) \in Nat /\ a[1] \in Bytes
  BY <1>1, <1>2, StreamFacts, Zenon
<1>4. /\ mk[0] <= mk[1] /\ Piece(a[1], rd, off, mk[0], mk[1]) /\ Whole(d, rd, 0, mk[0])
      /\ IsOff(off, rd)
  BY <1>1, <1>2, Zenon DEF StreamOK
<1> DEFINE u == Unbatch(a[1])
<1>5. u \in Seq(Bytes) /\ Whole(u, rd, mk[0], mk[1])
  BY <1>3, <1>4, UnbatchPiece, Zenon
<1> HIDE DEF u
<1>6. mk[0] \in Nat /\ mk[1] \in Nat /\ 0 \in Nat /\ 0 <= mk[0]
  BY <1>3
<1>7. Whole(d \o u, rd, 0, mk[1])
  BY <1>4, <1>5, <1>6, WholeConcat, Zenon
<1>8. Streamed(rd, Tail(a), b, d \o u)
  BY <1>1, <1>7, StreamTail, Zenon
<1>. QED  BY <1>2, <1>5, <1>8, Zenon DEF u

(* A datagram that is cut short is still the front of its part of the stream. *)
LEMMA StreamCut ==
    ASSUME NEW rd \in Seq(Sizes), NEW a \in Seq(Bytes), a # << >>, NEW b, NEW d, Streamed(rd, a, b, d),
           NEW n \in 1 .. Len(Head(a)) - 1
    PROVE  Streamed(rd, <<SubSeq(Head(a), 1, n)>> \o Tail(a), b, d)
<1>1. PICK off, mk : StreamOK(rd, a, b, d, off, mk)
  BY Zenon DEF Streamed
<1> DEFINE L == Len(a)
           h == Head(a)
           c == SubSeq(h, 1, n)
           a2 == <<c>> \o Tail(a)
<1>2. L \in Nat /\ 0 \in 0 .. L /\ 1 \in 0 .. L /\ 1 \in 1 .. L /\ 1 - 1 = 0 /\ h = a[1] /\ h \in Bytes
  OBVIOUS
<1>3. Tail(a) \in Seq(Bytes) /\ Len(Tail(a)) = L - 1 /\ \A k \in 1 .. L - 1 : Tail(a)[k] = a[k + 1]
  OBVIOUS
<1> HIDE DEF h, L
<1>4. Len(h) \in Nat /\ n \in Nat /\ n < Len(h) /\ 1 <= n
  BY <1>2 DEF Bytes, h
<1>5. c \in Bytes /\ Len(c) = n /\ \A i \in 1 .. n : c[i] = h[i]
  BY <1>2, <1>4, SubSeqProperties, SMTT(60) DEF Bytes
<1> HIDE DEF c
<1>6. Len(a2) = L /\ a2[1] = c /\ \A k \in 2 .. L : a2[k] = a[k]
  <2>1. <<c>> \in Seq(Bytes) /\ Len(<<c>>) = 1 /\ <<c>>[1] = c /\ 1 \in 1 .. 1
    BY <1>5
  <2>2. IsJoin(<<c>>, Tail(a), a2)
    BY <1>3, <2>1, Joined, Zenon
  <2> HIDE DEF a2
  <2>3. /\ Len(a2) = 1 + (L - 1) /\ a2[1] = c
        /\ \A j \in 1 .. L - 1 : a2[1 + j] = Tail(a)[j]
    BY <1>3, <2>1, <2>2, Zenon DEF IsJoin
  <2>4. ASSUME NEW k \in 2 .. L PROVE a2[k] = a[k]
    <3>1. k - 1 \in 1 .. L - 1 /\ 1 + (k - 1) = k /\ (k - 1) + 1 = k
      BY <1>2
    <3>2. a2[1 + (k - 1)] = Tail(a)[k - 1] /\ Tail(a)[k - 1] = a[(k - 1) + 1]
      BY <1>3, <2>3, <3>1, Zenon
    <3>. QED  BY <3>1, <3>2, Zenon
  <2>. QED  BY <1>2, <2>3, <2>4
<1> HIDE DEF a2
<1>7. \A k \in 1 .. L : mk[k - 1] <= mk[k] /\ Piece(a[k], rd, off, mk[k - 1], mk[k])
  BY <1>1, Zenon DEF StreamOK, L
<1>8. Piece(c, rd, off, mk[0], mk[1])
  <2>1. Piece(h, rd, off, mk[0], mk[1])
    BY <1>2, <1>7, Zenon
  <2>2. mk[0] \in 0 .. Len(rd) /\ mk[1] \in 0 .. Len(rd)
    BY <1>1, <1>2, StreamFacts, Zenon DEF L
  <2>3. off[mk[0]] \in Nat /\ off[mk[1]] \in Nat
    BY <1>1, <2>2, StreamFacts, Zenon
  <2>4. Len(c) <= off[mk[1]] - off[mk[0]]
    <3>1. Len(h) <= off[mk[1]] - off[mk[0]]
      BY <2>1, Zenon DEF Piece
    <3>. QED  BY <1>4, <1>5, <2>3, <3>1
  <2>5. ASSUME NEW x \in mk[0] + 1 .. mk[1], NEW j \in 1 .. 2 + rd[x],
               off[x - 1] - off[mk[0]] + j <= Len(c)
        PROVE  c[off[x - 1] - off[mk[0]] + j] = FrameByte(x, rd[x], j)
    <3>1. x - 1 \in 0 .. Len(rd) /\ mk[0] <= x - 1 /\ x \in 1 .. Len(rd)
      BY <2>2, SMTT(60)
    <3>2. off[x - 1] \in Nat /\ off[mk[0]] <= off[x - 1]
      BY <1>1, <2>2, <3>1, Zenon DEF StreamOK, IsOff
    <3> DEFINE i == off[x - 1] - off[mk[0]] + j
    <3>3. rd[x] \in Nat
      <4>1. rd[x] \in Sizes /\ Sizes \subseteq Nat
        BY <3>1, TunnelAssumption
      <4>. QED  BY <4>1, Zenon
    <3>4. i \in 1 .. n /\ i <= Len(h)
      <4>1. \A u, v, r, y, z \in Nat : \A q \in 1 .. 2 + r :
               v <= u /\ u - v + q <= y /\ y < z => u - v + q \in 1 .. y /\ u - v + q <= z
        OBVIOUS
      <4>2. off[x - 1] - off[mk[0]] + j <= n
        BY <1>5, <2>5, Zenon
      <4>. QED  BY <1>4, <2>3, <3>2, <3>3, <4>1, <4>2, Zenon
    <3>5. h[i] = FrameByte(x, rd[x], j)
      BY <2>1, <3>4, Zenon DEF Piece
    <3> HIDE DEF i
    <3>6. c[i] = h[i]
      BY <1>5, <3>4, Zenon
    <3>. QED  BY <3>5, <3>6, Zenon DEF i
  <2>. QED  BY <2>4, <2>5, Zenon DEF Piece
<1>9. ASSUME NEW k \in 1 .. L PROVE mk[k - 1] <= mk[k] /\ Piece(a2[k], rd, off, mk[k - 1], mk[k])
  <2>1. CASE k = 1
    BY <1>2, <1>6, <1>7, <1>8, <2>1, Zenon
  <2>2. CASE k # 1
    <3>1. k \in 2 .. L
      BY <1>2, <2>2
    <3>. QED  BY <1>6, <1>7, <3>1, Zenon
  <2>. QED  BY <2>1, <2>2, Zenon
<1>10. StreamOK(rd, a2, b, d, off, mk)
  BY <1>1, <1>6, <1>9, Zenon DEF StreamOK, L
<1>. QED  BY <1>10, Zenon DEF Streamed, a2, c, h

(* A keepalive is sent on an empty path. *)
LEMMA StreamKeepalive ==
    ASSUME NEW rd \in Seq(Sizes), NEW b, NEW d, Streamed(rd, << >>, b, d)
    PROVE  Streamed(rd, << << >> >>, b, d)
<1>1. PICK off, mk : StreamOK(rd, << >>, b, d, off, mk)
  BY Zenon DEF Streamed
<1> DEFINE a == << >>
           a2 == << << >> >>
           m2 == [k \in 0 .. 1 |-> mk[0]]
<1>2. /\ a \in Seq(Bytes) /\ Len(a) = 0 /\ 0 \in 0 .. 0 /\ Len(a2) = 1 /\ a2[1] = << >>
      /\ 0 \in 0 .. 1 /\ 1 \in 0 .. 1 /\ \A k \in 1 .. 1 : k = 1 /\ k - 1 = 0
  OBVIOUS
<1>3. mk[0] \in 0 .. Len(rd)
  BY <1>1, <1>2, StreamFacts, Zenon
<1>4. mk[0] \in Nat /\ off[mk[0]] \in Nat /\ mk[0] <= mk[0]
  <2>1. mk[0] \in Nat /\ off[mk[0]] \in Nat
    BY <1>1, <1>2, <1>3, StreamFacts, Zenon
  <2>. QED  BY <2>1
<1>5. m2 \in [0 .. 1 -> 0 .. Len(rd)] /\ m2[0] = mk[0] /\ m2[1] = mk[0]
  BY <1>2, <1>3, Zenon
<1> HIDE DEF m2, a2
<1>6. Piece(<< >>, rd, off, mk[0], mk[0])
  BY <1>4, EmptyPiece, Zenon
<1>7. ASSUME NEW k \in 1 .. 1 PROVE m2[k - 1] <= m2[k] /\ Piece(a2[k], rd, off, m2[k - 1], m2[k])
  <2>1. m2[k - 1] = mk[0] /\ m2[k] = mk[0] /\ a2[k] = << >>
    BY <1>2, <1>5, Zenon
  <2>. QED  BY <1>4, <1>6, <2>1, Zenon
<1>8. /\ IsOff(off, rd) /\ Piece(b, rd, off, mk[0], Len(rd)) /\ Len(b) = off[Len(rd)] - off[mk[0]]
      /\ Whole(d, rd, 0, mk[0])
  BY <1>1, <1>2, Zenon DEF StreamOK
<1>9. StreamOK(rd, a2, b, d, off, m2)
  BY <1>2, <1>5, <1>7, <1>8, Zenon DEF StreamOK
<1>. QED  BY <1>9, Zenon DEF Streamed, a2

(* The packet that messageReceived takes continues the stream, in the queue  *)
(* or, when the queue was sent before, behind it.                            *)
LEMMA StreamReceive ==
    ASSUME NEW rd \in Seq(Sizes), NEW size \in Sizes, NEW a \in Seq(Bytes), NEW d,
           NEW q \in QueueType, Timed(q), Streamed(rd, a, q.bytes, d)
    PROVE  LET r == messageReceived(q, Frame(Len(rd) + 1, size), RADIO_MTU)
           IN  Streamed(Append(rd, size), a \o r.sent, r.queue.bytes, d)
<1> DEFINE data == Frame(Len(rd) + 1, size)
           r == messageReceived(q, data, RADIO_MTU)
           b == q.bytes
           r2 == Append(rd, size)
<1>1. Len(rd) + 1 \in Nat /\ b \in Bytes /\ q.size = Len(b) /\ q.size \in Nat
      /\ q.timer = IF q.size > 0 THEN "pending" ELSE "none"
  BY DEF QueueType, Timed
<1>2. data \in Bytes /\ Len(data) <= RADIO_MTU /\ Len(data) \in Nat /\ RADIO_MTU \in Nat
  <2>1. data \in Bytes /\ Len(data) = size + 2 /\ size \in Nat /\ size + 2 <= RADIO_MTU
    BY <1>1, FramedPacket, Zenon DEF Frame
  <2>. QED  BY <2>1, TunnelAssumption
<1> HIDE DEF data
<1>3. ~(Len(data) > RADIO_MTU) /\ q.timer # "called"
  BY <1>1, <1>2
<1>4. << >> \in Bytes /\ << >> \o data = data /\ a \o << >> = a /\ <<b>> \in Seq(Bytes)
  BY <1>1, <1>2, ConcatEmptySeq DEF Bytes
<1>5. CASE q.size + Len(data) > RADIO_MTU
  <2>1. r = Result([bytes |-> data, size |-> Len(data), timer |-> "pending"], <<b>>, "ok")
    BY <1>3, <1>5, Zenon DEF messageReceived
  <2>2. r.sent = <<b>> /\ r.queue.bytes = data
    BY <2>1 DEF Result
  <2>3. Streamed(rd, a \o <<b>>, << >>, d) /\ a \o <<b>> \in Seq(Bytes)
    BY <1>1, <1>4, StreamFlush, Joined, Zenon
  <2>4. Streamed(r2, a \o <<b>>, << >> \o data, d)
    BY <1>4, <2>3, StreamRead, Zenon DEF data
  <2> HIDE DEF r
  <2>5. Streamed(r2, a \o r.sent, r.queue.bytes, d)
    BY <1>4, <2>2, <2>4, Zenon
  <2>. QED  BY <2>5, Zenon DEF data, r
<1>6. CASE ~(q.size + Len(data) > RADIO_MTU)
  <2>1. r = Result([bytes |-> b \o data, size |-> q.size + Len(data),
                    timer |-> IF q.timer = "none" THEN "pending" ELSE q.timer], << >>, "ok")
    BY <1>3, <1>6, ZenonT(60) DEF messageReceived
  <2>2. r.sent = << >> /\ r.queue.bytes = b \o data
    BY <2>1, SMTT(60) DEF Result
  <2>3. Streamed(r2, a, b \o data, d)
    BY <1>1, StreamRead, Zenon DEF data
  <2> HIDE DEF r
  <2>4. Streamed(r2, a \o r.sent, r.queue.bytes, d)
    BY <1>4, <2>2, <2>3, Zenon
  <2>. QED  BY <2>4, Zenon DEF data, r
<1>. QED  BY <1>5, <1>6, Zenon

(* Batches of packets may be joined in any order. *)
LEMMA JoinAssociative ==
    ASSUME NEW s \in Seq(Bytes), NEW t \in Seq(Bytes), NEW u \in Seq(Bytes)
    PROVE  (s \o t) \o u = s \o (t \o u)
  BY ConcatAssociative, SMTT(60)

(* What the device takes and what waits for it, in both orders of joining. *)
LEMMA WrittenJoin ==
    ASSUME NEW w \in Seq(Bytes), NEW q \in Seq(Bytes), NEW n \in 1 .. Len(q)
    PROVE  /\ w \o SubSeq(q, 1, n) \in Seq(Bytes) /\ SubSeq(q, n + 1, Len(q)) \in Seq(Bytes)
           /\ (w \o SubSeq(q, 1, n)) \o SubSeq(q, n + 1, Len(q)) = w \o q
<1> DEFINE x == SubSeq(q, 1, n)
           y == SubSeq(q, n + 1, Len(q))
<1>1. x \in Seq(Bytes) /\ y \in Seq(Bytes)
  OBVIOUS
<1>2. x \o y = q
  <2>1. SubSeq(q, 1, Len(q)) = q
    BY SubSeqFull, Zenon
  <2>2. x \o y = SubSeq(q, 1, Len(q))
    BY ConcatAdjacentSubSeq
  <2>. QED  BY <2>1, <2>2, Zenon
<1> HIDE DEF x, y
<1>3. (w \o x) \o y = w \o (x \o y)
  BY <1>1, JoinAssociative, ZenonT(60)
<1>4. w \o x \in Seq(Bytes)
  BY <1>1
<1>. QED  BY <1>1, <1>2, <1>3, <1>4, Zenon DEF x, y

-----------------------------------------------------------------------------
(* The step, one case per action.  The stream towards station e is made by  *)
(* its peer (Read, Flush, Keepalive) and consumed by e (Deliver, TunWrite). *)
StreamTo(e) == Streamed(read[Peer(e)], air[e], agg[Peer(e)].bytes, written[e] \o queue[e])

(* A step that touches neither the peer nor what is on its way to e. *)
LEMMA StreamSame ==
    ASSUME NEW e \in Ends, StreamTo(e), read'[Peer(e)] = read[Peer(e)], air'[e] = air[e],
           agg'[Peer(e)] = agg[Peer(e)], written'[e] = written[e], queue'[e] = queue[e]
    PROVE  StreamTo(e)'
  BY Zenon DEF StreamTo

(* Every step leaves the stream towards both stations a stream of packets. *)
LEMMA StreamStep ==
    ASSUME IInv, StreamInvariant, [Next]_vars
    PROVE  StreamInvariant'
<1>1. /\ agg \in [Ends -> QueueType] /\ air \in [Ends -> Seq(Bytes)] /\ read \in [Ends -> Seq(Sizes)]
      /\ queue \in [Ends -> Seq(Bytes)] /\ written \in [Ends -> Seq(Bytes)]
      /\ \A e \in Ends : Timed(agg[e]) /\ StreamTo(e)
  BY Zenon DEF IInv, TypeOK, QueueTimed, StreamInvariant, StreamTo
<1>2. ASSUME queue' \in [Ends -> Seq(Bytes)], written' \in [Ends -> Seq(Bytes)],
             \A x \in Ends : StreamTo(x)'
      PROVE  StreamInvariant'
  BY <1>2, Zenon DEF StreamInvariant, StreamTo
<1>3. ASSUME NEW e \in Ends PROVE agg[e].bytes \in Bytes
  BY <1>1, Zenon DEF QueueType
<1>4. ASSUME NEW e \in Ends, Read(e) PROVE StreamInvariant'
  <2> DEFINE p == Peer(e)
             n == Len(read[e]) + 1
  <2>1. PICK size \in Sizes :
          LET data == Length2(size) \o Body(Len(read[e]) + 1, size)
              r == messageReceived(agg[e], data, RADIO_MTU)
          IN  /\ agg' = [agg EXCEPT ![e] = r.queue]
              /\ air' = [air EXCEPT ![Peer(e)] = @ \o r.sent]
              /\ read' = [read EXCEPT ![e] = Append(@, size)]
    BY <1>4, Zenon DEF Read
  <2> DEFINE r == messageReceived(agg[e], Frame(n, size), RADIO_MTU)
  <2>2. p \in Ends /\ p # e /\ Peer(p) = e /\ Ends = {e, p}
    BY Peers, Zenon
  <2>3. /\ agg' = [agg EXCEPT ![e] = r.queue] /\ air' = [air EXCEPT ![p] = air[p] \o r.sent]
        /\ read' = [read EXCEPT ![e] = Append(read[e], size)]
        /\ queue' = queue /\ written' = written
    BY <1>4, <2>1, Zenon DEF Read, Frame
  <2>4. Streamed(read[e], air[p], agg[e].bytes, written[p] \o queue[p])
    BY <1>1, <2>2, Zenon DEF StreamTo
  <2>5. Streamed(Append(read[e], size), air[p] \o r.sent, r.queue.bytes, written[p] \o queue[p])
    BY <1>1, <2>2, <2>4, StreamReceive, Zenon
  <2> HIDE DEF r, p, n
  <2>6. /\ agg'[e] = r.queue /\ air'[p] = air[p] \o r.sent /\ read'[e] = Append(read[e], size)
        /\ agg'[p] = agg[p] /\ air'[e] = air[e] /\ read'[p] = read[p]
    BY <1>1, <2>2, <2>3, Zenon
  <2>7. StreamTo(p)'
    BY <2>2, <2>3, <2>5, <2>6, Zenon DEF StreamTo
  <2>8. StreamTo(e)'
    BY <1>1, <2>2, <2>3, <2>6, StreamSame, Zenon DEF p
  <2>. QED  BY <1>1, <1>2, <2>2, <2>3, <2>7, <2>8, Zenon
<1>5. ASSUME NEW e \in Ends, Flush(e) PROVE StreamInvariant'
  <2> DEFINE p == Peer(e)
             r == flush_queue(agg[e])
  <2>1. p \in Ends /\ p # e /\ Peer(p) = e /\ Ends = {e, p}
    BY Peers, Zenon
  <2>2. /\ agg' = [agg EXCEPT ![e] = r.queue] /\ air' = [air EXCEPT ![p] = air[p] \o r.sent]
        /\ read' = read /\ queue' = queue /\ written' = written /\ agg[e].timer = "pending"
    BY <1>5, Zenon DEF Flush
  <2>3. r.queue = EmptyQueue /\ r.sent = <<agg[e].bytes>>
    <3>1. agg[e].size > 0
      BY <1>1, <2>2, Zenon DEF Timed
    <3>2. r = Result(EmptyQueue, <<agg[e].bytes>>, "ok")
      BY <3>1, Zenon DEF flush_queue
    <3>. QED  BY <3>2 DEF Result
  <2>4. EmptyQueue.bytes = << >>
    BY Zenon DEF EmptyQueue
  <2> HIDE DEF r
  <2>5. Streamed(read[e], air[p], agg[e].bytes, written[p] \o queue[p])
    BY <1>1, <2>1, Zenon DEF StreamTo
  <2>6. Streamed(read[e], air[p] \o <<agg[e].bytes>>, << >>, written[p] \o queue[p])
    BY <1>1, <1>3, <2>1, <2>5, StreamFlush, Zenon
  <2> HIDE DEF p
  <2>7. /\ agg'[e] = EmptyQueue /\ air'[p] = air[p] \o <<agg[e].bytes>>
        /\ agg'[p] = agg[p] /\ air'[e] = air[e]
    BY <1>1, <2>1, <2>2, <2>3, Zenon
  <2>8. StreamTo(p)'
    BY <2>1, <2>2, <2>4, <2>6, <2>7, Zenon DEF StreamTo
  <2>9. StreamTo(e)'
    BY <1>1, <2>1, <2>2, <2>7, StreamSame, Zenon DEF p
  <2>. QED  BY <1>1, <1>2, <2>1, <2>2, <2>8, <2>9, Zenon
<1>6. ASSUME NEW e \in Ends, Deliver(e) PROVE StreamInvariant'
  <2> DEFINE p == Peer(e)
             u == Unbatch(Head(air[e]))
  <2>1. p \in Ends /\ p # e /\ Peer(p) = e /\ Ends = {e, p}
    BY Peers, Zenon
  <2>2. /\ air' = [air EXCEPT ![e] = Tail(air[e])] /\ air[e] # << >>
        /\ queue' = [queue EXCEPT ![e] = IF connected[e] THEN queue[e] \o u ELSE queue[e]]
        /\ agg' = agg /\ read' = read /\ written' = written
    BY <1>6, Zenon DEF Deliver
  <2> DEFINE d == written[e] \o queue[e]
  <2>3. d \in Seq(Bytes)
    BY <1>1, Joined, Zenon
  <2>4. Streamed(read[p], air[e], agg[p].bytes, d)
    BY <1>1, <2>1, Zenon DEF StreamTo
  <2>5. u \in Seq(Bytes) /\ Streamed(read[p], Tail(air[e]), agg[p].bytes, d \o u)
    BY <1>1, <2>1, <2>2, <2>3, <2>4, StreamDeliver, Zenon
  <2>6. Streamed(read[p], Tail(air[e]), agg[p].bytes, d)
    BY <1>1, <2>1, <2>2, <2>4, StreamLose, Zenon
  <2> HIDE DEF u, p
  <2>7. d \o u = written[e] \o (queue[e] \o u) /\ queue[e] \o u \in Seq(Bytes)
    <3>1. written[e] \in Seq(Bytes) /\ queue[e] \in Seq(Bytes)
      BY <1>1, Zenon
    <3>2. (written[e] \o queue[e]) \o u = written[e] \o (queue[e] \o u)
      BY <2>5, <3>1, JoinAssociative, Zenon
    <3>3. queue[e] \o u \in Seq(Bytes)
      BY <2>5, <3>1, Joined, Zenon
    <3>. QED  BY <3>2, <3>3, Zenon
  <2>8. queue' \in [Ends -> Seq(Bytes)]
    BY <1>1, <2>2, <2>7, Zenon
  <2>9. /\ queue'[e] = IF connected[e] THEN queue[e] \o u ELSE queue[e]
        /\ queue'[p] = queue[p] /\ air'[e] = Tail(air[e]) /\ air'[p] = air[p]
    BY <1>1, <2>1, <2>2, Zenon
  <2>10. StreamTo(e)'
    <3>1. CASE connected[e]
      <4>1. written'[e] \o queue'[e] = d \o u
        BY <2>2, <2>7, <2>9, <3>1, Zenon
      <4>. QED  BY <2>2, <2>5, <2>9, <4>1, Zenon DEF StreamTo, p
    <3>2. CASE ~connected[e]
      <4>1. written'[e] \o queue'[e] = d
        BY <2>2, <2>9, <3>2, Zenon
      <4>. QED  BY <2>2, <2>6, <2>9, <4>1, Zenon DEF StreamTo, p
    <3>. QED  BY <3>1, <3>2, Zenon
  <2>11. StreamTo(p)'
    BY <1>1, <2>1, <2>2, <2>9, StreamSame, Zenon
  <2>. QED  BY <1>1, <1>2, <2>1, <2>2, <2>8, <2>10, <2>11, ZenonT(60)
<1>7. ASSUME NEW e \in Ends, TunWrite(e) PROVE StreamInvariant'
  <2>1. PICK n \in 1 .. Len(queue[e]) :
          /\ written' = [written EXCEPT ![e] = written[e] \o SubSeq(queue[e], 1, n)]
          /\ queue' = [queue EXCEPT ![e] = SubSeq(queue[e], n + 1, Len(queue[e]))]
    BY <1>7, Zenon DEF TunWrite
  <2>2. agg' = agg /\ air' = air /\ read' = read
    BY <1>7, Zenon DEF TunWrite
  <2> DEFINE w == written[e] \o SubSeq(queue[e], 1, n)
             q == SubSeq(queue[e], n + 1, Len(queue[e]))
  <2>3. w \in Seq(Bytes) /\ q \in Seq(Bytes) /\ w \o q = written[e] \o queue[e]
    BY <1>1, WrittenJoin, Zenon
  <2>4. written' = [written EXCEPT ![e] = w] /\ queue' = [queue EXCEPT ![e] = q]
    BY <2>1, Zenon
  <2> HIDE DEF w, q
  <2>5. written' \in [Ends -> Seq(Bytes)] /\ queue' \in [Ends -> Seq(Bytes)]
    BY <1>1, <2>3, <2>4, Zenon
  <2>6. ASSUME NEW x \in Ends PROVE written'[x] \o queue'[x] = written[x] \o queue[x]
    <3>1. CASE x = e
      <4>1. written'[e] = w /\ queue'[e] = q
        BY <1>1, <2>4, Zenon
      <4>. QED  BY <2>3, <3>1, <4>1, Zenon
    <3>2. CASE x # e
      <4>1. written'[x] = written[x] /\ queue'[x] = queue[x]
        BY <1>1, <2>4, <3>2, Zenon
      <4>. QED  BY <4>1, Zenon
    <3>. QED  BY <3>1, <3>2, Zenon
  <2>7. ASSUME NEW x \in Ends PROVE StreamTo(x)'
    BY <1>1, <2>2, <2>6, Zenon DEF StreamTo
  <2>. QED  BY <1>2, <2>5, <2>7, Zenon
<1>8. ASSUME NEW e \in Ends, Keepalive(e) PROVE StreamInvariant'
  <2> DEFINE p == Peer(e)
             k == IF pkt_in_sem[e] = 0 \/ pkt_out_sem[e] = 0 THEN << << >> >> ELSE << >>
  <2>1. p \in Ends /\ p # e /\ Peer(p) = e /\ Ends = {e, p}
    BY Peers, Zenon
  <2>2. /\ air' = [air EXCEPT ![p] = k] /\ air[p] = << >>
        /\ agg' = agg /\ read' = read /\ queue' = queue /\ written' = written
    BY <1>8, <2>1, ZenonT(60) DEF Keepalive, Due
  <2>3. Streamed(read[e], air[p], agg[e].bytes, written[p] \o queue[p])
    BY <1>1, <2>1, Zenon DEF StreamTo
  <2>4. Streamed(read[e], << << >> >>, agg[e].bytes, written[p] \o queue[p])
    BY <1>1, <2>2, <2>3, StreamKeepalive, Zenon
  <2>5. Streamed(read[e], k, agg[e].bytes, written[p] \o queue[p])
    BY <2>2, <2>3, <2>4, Zenon
  <2> HIDE DEF k, p
  <2>6. air'[p] = k /\ air'[e] = air[e]
    BY <1>1, <2>1, <2>2, Zenon
  <2>7. StreamTo(p)'
    BY <2>1, <2>2, <2>5, <2>6, Zenon DEF StreamTo
  <2>8. StreamTo(e)'
    BY <1>1, <2>2, <2>6, StreamSame, Zenon
  <2>. QED  BY <1>1, <1>2, <2>1, <2>2, <2>7, <2>8, ZenonT(60)
<1>9. ASSUME NEW e \in Ends, TunFails(e) PROVE StreamInvariant'
  <2>1. /\ agg' = agg /\ air' = air /\ read' = read /\ queue' = queue /\ written' = written
    BY <1>9, Zenon DEF TunFails
  <2>. QED  BY <1>1, <1>2, <2>1, StreamSame, Zenon
<1>10. ASSUME NEW e \in Ends, Lose(e) PROVE StreamInvariant'
  <2> DEFINE p == Peer(e)
  <2>1. p \in Ends /\ p # e /\ Peer(p) = e /\ Ends = {e, p}
    BY Peers, Zenon
  <2>2. /\ air' = [air EXCEPT ![e] = Tail(air[e])] /\ air[e] # << >>
        /\ agg' = agg /\ read' = read /\ queue' = queue /\ written' = written
    BY <1>10, Zenon DEF Lose
  <2>3. air'[e] = Tail(air[e]) /\ air'[p] = air[p]
    BY <1>1, <2>1, <2>2, Zenon
  <2>4. Streamed(read[p], Tail(air[e]), agg[p].bytes, written[e] \o queue[e])
    BY <1>1, <2>1, <2>2, StreamLose, Zenon DEF StreamTo
  <2>5. StreamTo(e)'
    BY <2>2, <2>3, <2>4, Zenon DEF StreamTo
  <2> HIDE DEF p
  <2>6. StreamTo(p)'
    BY <1>1, <2>1, <2>2, <2>3, StreamSame, Zenon
  <2>. QED  BY <1>1, <1>2, <2>1, <2>2, <2>5, <2>6, ZenonT(60)
<1>11. ASSUME NEW e \in Ends, Cut(e) PROVE StreamInvariant'
  <2> DEFINE p == Peer(e)
             cut(n) == <<SubSeq(Head(air[e]), 1, n)>> \o Tail(air[e])
  <2>1. p \in Ends /\ p # e /\ Peer(p) = e /\ Ends = {e, p}
    BY Peers, Zenon
  <2>2. PICK n \in 1 .. Len(Head(air[e])) - 1 : air' = [air EXCEPT ![e] = cut(n)]
    BY <1>11, Zenon DEF Cut
  <2>3. /\ air[e] # << >>
        /\ agg' = agg /\ read' = read /\ queue' = queue /\ written' = written
    BY <1>11, Zenon DEF Cut
  <2>4. air'[e] = cut(n) /\ air'[p] = air[p]
    BY <1>1, <2>1, <2>2, Zenon
  <2>5. Streamed(read[p], cut(n), agg[p].bytes, written[e] \o queue[e])
    BY <1>1, <2>1, <2>3, StreamCut, Zenon DEF StreamTo
  <2> HIDE DEF cut
  <2>6. StreamTo(e)'
    BY <2>3, <2>4, <2>5, Zenon DEF StreamTo
  <2> HIDE DEF p
  <2>7. StreamTo(p)'
    BY <1>1, <2>1, <2>3, <2>4, StreamSame, Zenon
  <2>. QED  BY <1>1, <1>2, <2>1, <2>3, <2>6, <2>7, ZenonT(60)
<1>12. CASE UNCHANGED vars
  <2>1. /\ agg' = agg /\ air' = air /\ read' = read /\ queue' = queue /\ written' = written
    BY <1>12, Zenon DEF vars
  <2>. QED  BY <1>1, <1>2, <2>1, StreamSame, Zenon
<1>. QED
  BY <1>4, <1>5, <1>6, <1>7, <1>8, <1>9, <1>10, <1>11, <1>12, ZenonT(60) DEF Next

(* Nothing was read: every part of the stream is empty. *)
LEMMA StreamInit == Init => StreamInvariant
<1> SUFFICES ASSUME Init PROVE StreamInvariant
  BY Zenon
<1> DEFINE none == << >>
           zero == [n \in 0 .. 0 |-> 0]
<1>1. /\ Len(none) = 0 /\ none \o none = none /\ none \in Seq(Bytes)
      /\ zero \in [0 .. 0 -> 0 .. 0] /\ zero \in [0 .. 0 -> Nat] /\ zero[0] = 0
      /\ \A n \in 1 .. 0 : FALSE
      /\ \A m, n \in 0 .. 0 : m = 0 /\ n = 0
      /\ 0 \in Nat /\ 0 <= 0
  OBVIOUS
<1> HIDE DEF none, zero
<1>2. IsOff(zero, none)
  BY <1>1, Zenon DEF IsOff
<1>3. Piece(none, none, zero, 0, 0) /\ Len(none) = zero[0] - zero[0]
  BY <1>1, EmptyPiece DEF none
<1>4. Whole(none, none, 0, 0)
  BY WholeNone, Zenon DEF none
<1>5. StreamOK(none, none, none, none, zero, zero)
  BY <1>1, <1>2, <1>3, <1>4, Zenon DEF StreamOK
<1>6. Streamed(none, none, none, none)
  BY <1>5, Zenon DEF Streamed
<1>7. \A e \in Ends : /\ read[Peer(e)] = none /\ air[e] = none /\ agg[Peer(e)].bytes = none
                      /\ written[e] = none /\ queue[e] = none
  BY PeerIsEnd, Zenon DEF Init, EmptyQueue, none
<1>8. queue \in [Ends -> Seq(Bytes)] /\ written \in [Ends -> Seq(Bytes)]
  BY DEF Init
<1>. QED  BY <1>1, <1>6, <1>7, <1>8, Zenon DEF StreamInvariant

(* What a station writes to its TUN device are packets that the other one   *)
(* read, whole, in the order of reading and at most once, for every         *)
(* radio_mtu, however the packets are batched and whatever the air loses or *)
(* cuts (dataReceived, TUNTAPProtocol.write, doWrite).                      *)
THEOREM PacketsAlwaysIntact == Spec => []PacketsIntact
<1>1. IInv /\ StreamInvariant => PacketsIntact
  <2> SUFFICES ASSUME IInv, StreamInvariant, NEW e \in Ends
               PROVE  /\ \A k \in DOMAIN written[e] :
                             \E n \in DOMAIN read[Peer(e)] : written[e][k] = Body(n, read[Peer(e)][n])
                      /\ \A j, k \in DOMAIN written[e] : j < k => written[e][j][1] < written[e][k][1]
    BY Zenon DEF PacketsIntact
  <2> DEFINE rd == read[Peer(e)]
             w == written[e]
             d == w \o queue[e]
  <2>1. rd \in Seq(Sizes) /\ w \in Seq(Bytes) /\ queue[e] \in Seq(Bytes) /\ air[e] \in Seq(Bytes)
    BY PeerIsEnd, Zenon DEF IInv, TypeOK, StreamInvariant
  <2>2. PICK off, mk : StreamOK(rd, air[e], agg[Peer(e)].bytes, d, off, mk)
    BY Zenon DEF StreamInvariant, Streamed
  <2> HIDE DEF rd, w
  <2>3. Len(rd) \in Nat /\ Len(w) \in Nat /\ Len(queue[e]) \in Nat
        /\ DOMAIN w = 1 .. Len(w) /\ DOMAIN rd = 1 .. Len(rd) /\ 0 \in 0 .. Len(air[e])
    BY <2>1
  <2>4. mk[0] \in 0 .. Len(rd)
    BY <2>1, <2>2, <2>3, StreamFacts, Zenon
  <2>5. IsJoin(w, queue[e], d)
    BY <2>1, Joined, Zenon
  <2> HIDE DEF d
  <2>6. Whole(d, rd, 0, mk[0])
    BY <2>2, Zenon DEF StreamOK
  <2>7. \A k \in 1 .. Len(w) : k \in 1 .. Len(d) /\ d[k] = w[k]
    <3>1. Len(d) = Len(w) + Len(queue[e]) /\ \A k \in 1 .. Len(w) : d[k] = w[k]
      BY <2>5, Zenon DEF IsJoin
    <3>. QED  BY <2>3, <3>1
  <2>8. \A x \in 0 + 1 .. mk[0] : x \in 1 .. Len(rd)
    BY <2>3, <2>4
  <2>9. ASSUME NEW k \in 1 .. Len(w) PROVE \E n \in 1 .. Len(rd) : w[k] = Body(n, rd[n])
    BY <2>6, <2>7, <2>8, Zenon DEF Whole
  <2>10. ASSUME NEW j \in 1 .. Len(w), NEW k \in 1 .. Len(w), j < k PROVE w[j][1] < w[k][1]
    BY <2>6, <2>7, <2>10, Zenon DEF Whole
  <2>. QED  BY <2>3, <2>9, <2>10, Zenon DEF rd, w
<1>2. IInv /\ StreamInvariant /\ [Next]_vars => StreamInvariant'
  BY StreamStep, Zenon
<1>. QED  BY <1>1, <1>2, StreamInit, Initial, Inductive, PTL DEF Spec

=============================================================================
