--------------------------------- MODULE Link ---------------------------------
(***************************************************************************)
(* A wfb-ng link: one Transmitter, the air, one Aggregator.                *)
(*                                                                         *)
(* Everything injected stays on the air.  The Aggregator may be handed any *)
(* of it at any time, any number of times or never: several radios, each   *)
(* with its own queue, lose, repeat, delay and reorder packets.            *)
(*                                                                         *)
(* The Transmitter moves only between two calls of process_packet().  The  *)
(* handler does not read the air again once it has its packet, so a step   *)
(* of the Transmitter in its midst commutes with the rest of it.           *)
(***************************************************************************)
EXTENDS Integers, Sequences, FiniteSets

CONSTANTS
    RX_RING_SIZE, MAX_BLOCK_IDX, SEQ_MODULUS, CHANNEL_ID, EPOCH, NoKey,
    FecSettings, InitialFec, Sizes, MaxPackets, MaxSessions

ASSUME LinkConstants ==
    /\ RX_RING_SIZE \in Nat \ {0}
    /\ MAX_BLOCK_IDX \in Nat /\ EPOCH \in Nat
    /\ MaxPackets \in Nat /\ MaxSessions \in Nat \ {0}
    /\ Sizes \subseteq Nat \ {0}
    /\ \A c \in FecSettings \cup {InitialFec} :
          c[1] \in Nat /\ c[2] \in Nat /\ 1 <= c[1] /\ c[1] <= c[2] /\ c[2] < 256

VARIABLES
    tx_session_key, tx_fec_k, tx_fec_n, block_idx, fragment_idx, block,
    max_packet_size, announced, request, accepted, air,
    session_key, session_hash, epoch, fec_k, fec_n, seq,
    rx_ring, rx_ring_front, rx_ring_alloc, last_known_block, out,
    pc, pkt, ring_idx, todo, f_idx, nrm

Tx == INSTANCE Transmitter
        WITH session_key <- tx_session_key, fec_k <- tx_fec_k, fec_n <- tx_fec_n

Rx == INSTANCE Aggregator WITH Packets <- {}

txVars == <<tx_session_key, tx_fec_k, tx_fec_n, block_idx, fragment_idx, block,
            max_packet_size, announced, request, accepted, air>>
rxVars == <<session_key, session_hash, epoch, fec_k, fec_n, seq, rx_ring,
            rx_ring_front, rx_ring_alloc, last_known_block, out,
            pc, pkt, ring_idx, todo, f_idx, nrm>>
vars == <<txVars, rxVars>>

Init == Tx!Init /\ Rx!Init

Transmit == pc = "idle" /\ Tx!Next /\ UNCHANGED rxVars

Receive == (\E p \in air : Rx!ProcessPacket(p)) /\ UNCHANGED txVars

Process == Rx!Continue /\ UNCHANGED txVars

(* wfb_rx is started again: all it knew is gone *)
RestartReceiver ==
    /\ pc = "idle" /\ session_key # NoKey
    /\ session_key' = NoKey /\ session_hash' = Rx!Idle /\ epoch' = EPOCH
    /\ Rx!init_fec(Rx!None, Rx!None)
    /\ UNCHANGED <<txVars, pc, pkt, ring_idx, todo, f_idx, nrm>>

Next == Transmit \/ Receive \/ Process \/ RestartReceiver

Spec == Init /\ [][Next]_vars

-----------------------------------------------------------------------------
(* What the receiver passes on as packet <<block, frag>> of its session is,  *)
(* bit for bit, what the transmitter sent under that number, whether it came *)
(* over the air or out of the FEC decoder, and even if ring slots were       *)
(* reused, sessions replaced or either side restarted in between.            *)
DeliveredIntact ==
    \A i \in 1 .. Len(out) : \E p \in air :
        /\ p.type = "data" /\ p.key = session_key
        /\ p.block = out[i].block /\ p.frag = out[i].frag /\ p.body = out[i].body

(* The AEAD nonce (block_idx << 8) + fragment_idx is never used for two      *)
(* different plaintexts under one session key, across block ends, FEC        *)
(* timeouts, key changes and restarts (init_session, send_packet): the       *)
(* receiver also takes equal nonces for copies of one fragment.              *)
NonceNeverReused ==
    \A p, q \in {r \in air : r.type = "data"} :
        p.key = q.key /\ p.block = q.block /\ p.frag = q.frag => p = q

(* The receiver decodes with the code rate the transmitter encoded with: the *)
(* session it has installed is one the transmitter announced, with the K and *)
(* N of that announcement.                                                   *)
SameCodeAsSender ==
    session_key # NoKey =>
        \E p \in air : /\ p.type = "session" /\ p.key = session_key
                       /\ p.k = fec_k /\ p.n = fec_n /\ p.epoch = epoch

=============================================================================
