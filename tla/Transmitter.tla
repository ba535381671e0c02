------------------------------ MODULE Transmitter ------------------------------
(***************************************************************************)
(* The sending side of a wfb-ng link: class Transmitter of tx.cpp and the  *)
(* loop data_source() that feeds it (UDP input, FEC timeout, the control   *)
(* socket's CMD_SET_FEC) and announces the session key.                    *)
(*                                                                         *)
(* `air' is every packet ever injected: what the radio may lose, repeat,   *)
(* delay and reorder is left to whoever reads it.                          *)
(***************************************************************************)
EXTENDS Integers, FiniteSets

CONSTANTS
    MAX_BLOCK_IDX,   \* largest legal block number
    CHANNEL_ID,
    EPOCH,           \* epoch of this transmitter
    FecSettings,     \* the <<k, n>> CMD_SET_FEC may ask for
    InitialFec,      \* the <<k, n>> of the command line
    Sizes,           \* sizes of an input packet with its header, 1 = header only
    MaxPackets,      \* bound: input packets
    MaxSessions      \* bound: session keys generated

VARIABLES
    session_key,       \* sessions are numbered: randombytes_buf() never repeats
    fec_k, fec_n, block_idx, fragment_idx, block, max_packet_size,
    announced,         \* data_source() has announced a key since it started
    request,           \* the CMD_SET_FEC being served, or << >>
    accepted,          \* input packets taken so far
    air

coder == <<fec_k, fec_n, block_idx, fragment_idx, block, max_packet_size>>
vars  == <<session_key, coder, announced, request, accepted, air>>

-----------------------------------------------------------------------------
HEADER == 1  \* sizeof(wpacket_hdr_t)

(* wpacket_hdr_t { flags, packet_size } and the payload *)
PacketBody(id, size, fec_only) == [id |-> id, size |-> size, fec_only |-> fec_only]

FecOnly == PacketBody(0, HEADER, TRUE)

Fragment(b, f, body) ==
    [type |-> "data", key |-> session_key, block |-> b, frag |-> f, body |-> body]

(* session_packet, made once by init_session() and repeated by every announce *)
SessionPacketOf(key, k, n) ==
    [type |-> "session", key |-> key, epoch |-> EPOCH, channel |-> CHANNEL_ID, k |-> k, n |-> n]

Larger(a, b) == IF a > b THEN a ELSE b

(* Mutant: the counters start again under the old key *)
init_sessionOldKey(k, n) ==
    /\ fec_k' = k /\ fec_n' = n
    /\ block' = [i \in 0 .. k - 1 |-> FecOnly]
    /\ block_idx' = 0 /\ fragment_idx' = 0
    /\ UNCHANGED session_key

(* init_session(): new ring of buffers, counters at zero, fresh key.  It does *)
(* not touch max_packet_size.                                                 *)
init_session(k, n) ==
    /\ fec_k' = k /\ fec_n' = n
    /\ block' = [i \in 0 .. k - 1 |-> FecOnly]
    /\ block_idx' = 0 /\ fragment_idx' = 0
    /\ session_key' = session_key + 1

(* The block's coded fragments: zfex encodes max_packet_size bytes of each *)
Encoded(b, len) == [vec |-> [i \in 0 .. fec_k - 1 |-> b[i]], len |-> len]

(* send_packet(), a fragment that leaves the block open *)
AppendFragment(body, extra) ==
    /\ fragment_idx + 1 < fec_k
    /\ block' = [block EXCEPT ![fragment_idx] = body]
    /\ air' = air \cup extra \cup {Fragment(block_idx, fragment_idx, body)}
    /\ max_packet_size' = Larger(max_packet_size, body.size)
    /\ fragment_idx' = fragment_idx + 1
    /\ UNCHANGED <<session_key, fec_k, fec_n, block_idx>>

(* send_packet(), the k-th fragment: encode, send the coded fragments, open  *)
(* the next block, or a new session after MAX_BLOCK_IDX                      *)
CompleteBlock(body, extra) ==
    LET filled == [block EXCEPT ![fragment_idx] = body]
        coded  == Encoded(filled, Larger(max_packet_size, body.size))
        sent   == {Fragment(block_idx, fragment_idx, body)}
                  \cup {Fragment(block_idx, j, coded) : j \in fec_k .. fec_n - 1}
        rekey  == block_idx + 1 > MAX_BLOCK_IDX
    IN  /\ fragment_idx + 1 = fec_k
        /\ max_packet_size' = 0
        /\ IF rekey
           THEN /\ session_key < MaxSessions
                /\ init_session(fec_k, fec_n)
                /\ air' = air \cup extra \cup sent \cup {SessionPacketOf(session_key + 1, fec_k, fec_n)}
           ELSE /\ block' = filled
                /\ block_idx' = block_idx + 1 /\ fragment_idx' = 0
                /\ air' = air \cup extra \cup sent
                /\ UNCHANGED <<session_key, fec_k, fec_n>>

send_packet(body, extra) == AppendFragment(body, extra) \/ CompleteBlock(body, extra)

-----------------------------------------------------------------------------
Init ==
    /\ session_key = 1
    /\ fec_k = InitialFec[1] /\ fec_n = InitialFec[2]
    /\ block = [i \in 0 .. InitialFec[1] - 1 |-> FecOnly]
    /\ block_idx = 0 /\ fragment_idx = 0 /\ max_packet_size = 0
    /\ announced = FALSE /\ request = << >> /\ accepted = 0
    /\ air = {}

(* data_source() reads an input packet.  The key is announced first when its *)
(* timer has run out: always for the first packet, then at any time.         *)
Input(size) ==
    /\ request = << >> /\ accepted < MaxPackets
    /\ \E due \in {TRUE, ~announced} :
          /\ send_packet(PacketBody(accepted + 1, size, FALSE),
                         IF due THEN {SessionPacketOf(session_key, fec_k, fec_n)} ELSE {})
          /\ announced' = TRUE
    /\ accepted' = accepted + 1
    /\ UNCHANGED request

(* poll() timed out with fec_timeout expired: fill the open block by one *)
FecTimeout ==
    /\ request = << >> /\ fragment_idx > 0
    /\ send_packet(FecOnly, {})
    /\ UNCHANGED <<announced, request, accepted>>

(* CMD_SET_FEC accepted *)
SetFec(k, n) ==
    /\ request = << >> /\ session_key + 2 <= MaxSessions  \* room for a rekey as well
    /\ request' = <<k, n>>
    /\ UNCHANGED <<session_key, coder, announced, accepted, air>>

(* while(t->send_packet(NULL, 0, WFB_PACKET_FEC_ONLY)); *)
CloseForSetFec ==
    /\ request # << >> /\ fragment_idx > 0
    /\ send_packet(FecOnly, {})
    /\ UNCHANGED <<announced, request, accepted>>

RestartSession ==
    /\ request # << >> /\ fragment_idx = 0 /\ session_key < MaxSessions
    /\ init_session(request[1], request[2])
    /\ air' = air \cup {SessionPacketOf(session_key + 1, request[1], request[2])}
    /\ request' = << >>
    /\ UNCHANGED <<max_packet_size, announced, accepted>>

(* wfb_tx is killed at any point and started again: the constructor opens a  *)
(* session that is announced with the first input packet                     *)
Restart ==
    /\ session_key < MaxSessions
    /\ init_session(InitialFec[1], InitialFec[2])
    /\ max_packet_size' = 0
    /\ announced' = FALSE /\ request' = << >>
    /\ UNCHANGED <<accepted, air>>

Next ==
    \/ \E size \in Sizes : Input(size)
    \/ FecTimeout
    \/ \E c \in FecSettings : SetFec(c[1], c[2])
    \/ CloseForSetFec \/ RestartSession
    \/ Restart

=============================================================================
