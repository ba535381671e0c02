----------------------------- MODULE MCAggregator -----------------------------
(***************************************************************************)
(* Model checking the Aggregator on its own: every order, loss and         *)
(* duplication of the packets of two sessions.                             *)
(***************************************************************************)
EXTENDS Aggregator, FiniteSets, FiniteSetsExt

CONSTANTS k1, k2, Blocks, K, N

(* Packet i of a session is its data body; a coded fragment carries all K *)
DataBody(key, b, f) == [id |-> <<key, b, f>>, size |-> 1, fec_only |-> FALSE]

WireBody(key, b, f, k) ==
    IF f < k THEN DataBody(key, b, f)
             ELSE [vec |-> [i \in 0 .. k - 1 |-> DataBody(key, b, i)], len |-> 1]

Stream(key, k, n, blocks) ==
    {DataPacket(key, b, f, WireBody(key, b, f, k)) : b \in blocks, f \in 0 .. n - 1}

(* A session of five blocks and one at another code rate, the announcement *)
(* of each, and two that must be refused: an older epoch, a foreign channel *)
MCPackets ==
    {SessionPacket(k1, 1, 7, K, N), SessionPacket(k2, 1, 7, 1, 2),
     SessionPacket(k2, 0, 7, 1, 2), SessionPacket(k2, 1, 8, 1, 2)}
    \cup Stream(k1, K, N, 0 .. Blocks - 1) \cup Stream(k2, 1, 2, 0 .. Blocks - 1)

Index(e) == e.block * fec_k + e.frag

(* What send_packet() reports as lost (count_p_lost, on_packet_loss) is      *)
(* exactly the number of packets skipped since the first packet of the       *)
(* session other than packet 0: seq = 0 stands both for "nothing sent" and   *)
(* for "packet 0 sent", so a gap right after packet 0 goes unreported.       *)
LossReportedExactly ==
    LET sent == {Index(out[i]) : i \in 1 .. Len(out)} \ {0}
    IN  MapThenSumSet(LAMBDA i : out[i].lost, 1 .. Len(out)) =
          IF sent = {} THEN 0 ELSE Cardinality((Min(sent) .. Max(sent)) \ sent)
=============================================================================
