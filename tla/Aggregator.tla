------------------------------ MODULE Aggregator ------------------------------
(***************************************************************************)
(* The receiving side of a wfb-ng link: class Aggregator of rx.cpp.        *)
(*                                                                         *)
(* process_packet() runs to completion on one thread.  The model cuts it   *)
(* at its loop iterations: a step is one iteration, `pc' says which loop   *)
(* the handler is in, and no new packet is taken before it is "idle".      *)
(*                                                                         *)
(* Abstractions.  Cryptography: a packet opens under a key iff it was      *)
(* sealed under it.  A session packet is identified with its BLAKE2 hash.  *)
(* Statistics counters are left out, except what send_packet() reports as  *)
(* lost, which is kept with the packet it is reported for.                 *)
(***************************************************************************)
EXTENDS Integers, Sequences

CONSTANTS
    RX_RING_SIZE,   \* slots of rx_ring (40 in the code)
    MAX_BLOCK_IDX,  \* largest legal block number
    SEQ_MODULUS,    \* 2^32: seq and packet_seq are uint32_t
    CHANNEL_ID,     \* channel_id the aggregator was started with
    EPOCH,          \* epoch the aggregator was started with
    Packets,        \* what can arrive over the air
    NoKey           \* the all-zero session key before the first session

ASSUME AggregatorConstants ==
    /\ RX_RING_SIZE \in Nat \ {0}
    /\ SEQ_MODULUS \in Nat \ {0}
    /\ MAX_BLOCK_IDX \in Nat
    /\ EPOCH \in Nat

(* fec_k, fec_n and last_known_block are -1 until they have a value *)
None == -1

Slots == 0 .. RX_RING_SIZE - 1

(* modN of rx.hpp: the mathematical modulus, also of a negative number *)
modN(x, base) == x % base

(* wire format: wblock_hdr_t + payload, and wsession_hdr_t + wsession_data_t *)
DataPacket(key, block, frag, body) ==
    [type |-> "data", key |-> key, block |-> block, frag |-> frag, body |-> body]

SessionPacket(key, epoch, channel, k, n) ==
    [type |-> "session", key |-> key, epoch |-> epoch, channel |-> channel, k |-> k, n |-> n]

(* What the packet source is assumed to hand over: fields of the widths the *)
(* wire format gives them, nothing about their order or consistency.        *)
ASSUME PacketsAssumption ==
    \A p \in Packets :
        \/ p.type = "data" /\ p.block \in Nat /\ p.frag \in Nat
        \/ p.type = "session" /\ p.epoch \in Nat /\ p.k \in Nat /\ p.n \in Nat

VARIABLES
    session_key, session_hash, epoch, fec_k, fec_n,
    seq,               \* packet_seq of the last fragment sent
    rx_ring, rx_ring_front, rx_ring_alloc, last_known_block,
    out,               \* fragments passed to send_packet() since init_fec()
    pc,                \* the loop process_packet() is in
    pkt, ring_idx,     \* its locals: the packet and its slot,
    todo,              \*   new_blocks - i of get_block_ring_idx()
    f_idx, nrm         \*   fragment cursor and blocks left to flush

session == <<session_key, session_hash, epoch, fec_k, fec_n>>
ring    == <<rx_ring, rx_ring_front, rx_ring_alloc, last_known_block>>
locals  == <<pkt, ring_idx, todo, f_idx, nrm>>
vars    == <<session, seq, ring, out, pc, locals>>

-----------------------------------------------------------------------------
(* rx_ring_item_t.  fragment_map[f] is non-zero iff f is in DOMAIN fragments *)
Item(b) == [block_idx |-> b, fragments |-> << >>,
            fragment_to_send_idx |-> 0, has_fragments |-> 0]

Has(s, f) == f \in DOMAIN rx_ring[s].fragments

(* slots from rx_ring_front on that hold an unfinished block *)
Live == {modN(rx_ring_front + c, RX_RING_SIZE) : c \in 0 .. rx_ring_alloc - 1}

(* zfex by its contract: fec_decode_simd() rebuilds data fragment f of a     *)
(* block of k data fragments; its matrices are not modelled.  A coded        *)
(* fragment carries the k data bodies it was made of, cut to len bytes; the  *)
(* result is the original one only if the inputs are of one codeword and len *)
(* covers it.                                                                *)
Garbage == [id |-> 0, size |-> 0, fec_only |-> FALSE]

fec_decode(fragments, k, f) ==
    LET coded == {j \in DOMAIN fragments : j >= k}
        c == fragments[CHOOSE j \in coded : TRUE]
    IN  IF /\ coded # {}
           /\ \A j \in coded : fragments[j] = c
           /\ \A j \in DOMAIN fragments \ coded : fragments[j] = c.vec[j]
           /\ c.vec[f].size <= c.len
        THEN c.vec[f]
        ELSE Garbage

Body(s, f) == IF Has(s, f) THEN rx_ring[s].fragments[f]
                           ELSE fec_decode(rx_ring[s].fragments, fec_k, f)

(* send_packet(): uint32_t arithmetic, loss is reported only when seq > 0 *)
packet_seq(s, f) == (rx_ring[s].block_idx * fec_k + f) % SEQ_MODULUS

(* Mutant: the packet itself is counted as lost *)
LostBeforeOneMore(s, f) ==
    IF packet_seq(s, f) > (seq + 1) % SEQ_MODULUS /\ seq > 0
    THEN (packet_seq(s, f) - seq) % SEQ_MODULUS
    ELSE 0

LostBefore(s, f) ==
    IF packet_seq(s, f) > (seq + 1) % SEQ_MODULUS /\ seq > 0
    THEN (packet_seq(s, f) - seq - 1) % SEQ_MODULUS
    ELSE 0

send_packet(s, f) ==
    /\ out' = Append(out, [block |-> rx_ring[s].block_idx, frag |-> f,
                           body |-> Body(s, f), lost |-> LostBefore(s, f)])
    /\ seq' = packet_seq(s, f)

-----------------------------------------------------------------------------
Idle == [pc |-> "idle"]

Return ==
    /\ pc' = "idle"
    /\ pkt' = Idle /\ ring_idx' = None /\ todo' = 0 /\ f_idx' = 0 /\ nrm' = 0

Init ==
    /\ session_key = NoKey /\ session_hash = Idle /\ epoch = EPOCH
    /\ fec_k = None /\ fec_n = None
    /\ seq = 0
    /\ rx_ring = [s \in Slots |-> Item(0)]
    /\ rx_ring_front = 0 /\ rx_ring_alloc = 0 /\ last_known_block = None
    /\ out = << >>
    /\ pc = "idle"
    /\ pkt = Idle /\ ring_idx = None /\ todo = 0 /\ f_idx = 0 /\ nrm = 0

(* Mutant: a new session keeps the code rate of the one it replaces *)
init_fecKeepsCode(k, n) ==
    /\ fec_k' = (IF fec_k = None THEN k ELSE fec_k) /\ fec_n' = (IF fec_n = None THEN n ELSE fec_n)
    /\ seq' = 0
    /\ rx_ring' = [s \in Slots |-> Item(0)]
    /\ rx_ring_front' = 0 /\ rx_ring_alloc' = 0 /\ last_known_block' = None
    /\ out' = << >>

(* init_fec(), after deinit_fec() released the old ring *)
init_fec(k, n) ==
    /\ fec_k' = k /\ fec_n' = n
    /\ seq' = 0
    /\ rx_ring' = [s \in Slots |-> Item(0)]
    /\ rx_ring_front' = 0 /\ rx_ring_alloc' = 0 /\ last_known_block' = None
    /\ out' = << >>

(* The checks on a decrypted session packet *)
SessionAccepted(p) ==
    /\ p.epoch >= epoch
    /\ p.channel = CHANNEL_ID
    /\ p.n >= 1
    /\ p.k >= 1 /\ p.k <= p.n

ProcessSession(p) ==
    /\ pc = "idle" /\ p.type = "session"
    /\ p # session_hash
    /\ SessionAccepted(p)
    /\ session_hash' = p
    /\ IF p.key # session_key
       THEN /\ epoch' = p.epoch
            /\ session_key' = p.key
            /\ init_fec(p.k, p.n)
       ELSE UNCHANGED <<epoch, session_key, fec_k, fec_n, seq, ring, out>>
    /\ UNCHANGED <<pc, locals>>

(* The checks on a data packet before the ring is consulted *)
DataAccepted(p) ==
    /\ p.key = session_key
    /\ p.block <= MAX_BLOCK_IDX
    /\ p.frag < fec_n

(* get_block_ring_idx(), first part: the block is in the ring *)
ProcessKnownBlock(p) ==
    /\ pc = "idle" /\ p.type = "data" /\ DataAccepted(p)
    /\ \E s \in Live : rx_ring[s].block_idx = p.block /\ ring_idx' = s
    /\ pkt' = p /\ pc' = "store"
    /\ UNCHANGED <<session, seq, ring, out, todo, f_idx, nrm>>

(* Mutant: off by one, the last known block is counted as new *)
NewBlocksOneMore(b) ==
    IF last_known_block = None THEN 1
    ELSE IF b - last_known_block < RX_RING_SIZE THEN b - last_known_block + 1
    ELSE RX_RING_SIZE

NewBlocks(b) ==
    IF last_known_block = None \/ b - last_known_block < RX_RING_SIZE
    THEN IF last_known_block = None THEN 1 ELSE b - last_known_block
    ELSE RX_RING_SIZE

(* get_block_ring_idx(), second part: a block newer than every known one *)
ProcessNewBlock(p) ==
    /\ pc = "idle" /\ p.type = "data" /\ DataAccepted(p)
    /\ \A s \in Live : rx_ring[s].block_idx # p.block
    /\ last_known_block = None \/ p.block > last_known_block
    /\ todo' = NewBlocks(p.block)
    /\ last_known_block' = p.block
    /\ pkt' = p /\ pc' = "push"
    /\ UNCHANGED <<session, seq, rx_ring, rx_ring_front, rx_ring_alloc, out, ring_idx, f_idx, nrm>>

(* Mutant: the fragment map of a reused slot is not cleared *)
PushIntoStale(s) ==
    /\ rx_ring' = [rx_ring EXCEPT ![s] = [Item(pkt.block + 1 - todo) EXCEPT !.fragments = rx_ring[s].fragments]]
    /\ ring_idx' = s
    /\ todo' = todo - 1
    /\ pc' = IF todo = 1 THEN "store" ELSE "push"

(* The end of one iteration of the loop over new_blocks, with slot s *)
PushInto(s) ==
    /\ rx_ring' = [rx_ring EXCEPT ![s] = Item(pkt.block + 1 - todo)]
    /\ ring_idx' = s
    /\ todo' = todo - 1
    /\ pc' = IF todo = 1 THEN "store" ELSE "push"

(* rx_ring_push() with a free slot *)
RingPush ==
    /\ pc = "push" /\ rx_ring_alloc < RX_RING_SIZE
    /\ PushInto(modN(rx_ring_front + rx_ring_alloc, RX_RING_SIZE))
    /\ rx_ring_alloc' = rx_ring_alloc + 1
    /\ UNCHANGED <<session, seq, rx_ring_front, last_known_block, out, pkt, f_idx, nrm>>

(* Mutant: the flush starts at fragment 0 and repeats what was sent *)
RingOverflowFromZero ==
    /\ pc = "push" /\ rx_ring_alloc = RX_RING_SIZE
    /\ pc' = "override"
    /\ f_idx' = 0
    /\ UNCHANGED <<session, seq, ring, out, pkt, ring_idx, todo, nrm>>

(* Mutant: the overridden block is dropped without a flush *)
RingOverflowNoFlush ==
    /\ pc = "push" /\ rx_ring_alloc = RX_RING_SIZE
    /\ pc' = "override"
    /\ f_idx' = fec_k
    /\ UNCHANGED <<session, seq, ring, out, pkt, ring_idx, todo, nrm>>

(* rx_ring_push() on a full ring: flush the oldest block, then reuse its slot *)
RingOverflow ==
    /\ pc = "push" /\ rx_ring_alloc = RX_RING_SIZE
    /\ pc' = "override"
    /\ f_idx' = rx_ring[rx_ring_front].fragment_to_send_idx
    /\ UNCHANGED <<session, seq, ring, out, pkt, ring_idx, todo, nrm>>

(* One iteration of the loop that sends what the oldest block holds *)
FlushFragment ==
    /\ pc = "override" \/ (pc = "flush" /\ nrm > 0)
    /\ f_idx < fec_k
    /\ IF Has(rx_ring_front, f_idx) THEN send_packet(rx_ring_front, f_idx)
                                    ELSE UNCHANGED <<out, seq>>
    /\ f_idx' = f_idx + 1
    /\ UNCHANGED <<session, ring, pc, pkt, ring_idx, todo, nrm>>

RingOverride ==
    /\ pc = "override" /\ f_idx >= fec_k
    /\ PushInto(rx_ring_front)
    /\ rx_ring_front' = modN(rx_ring_front + 1, RX_RING_SIZE)
    /\ f_idx' = 0
    /\ UNCHANGED <<session, seq, rx_ring_alloc, last_known_block, out, pkt, nrm>>

(* An already stored fragment is ignored *)
DuplicateFragment ==
    /\ pc = "store" /\ Has(ring_idx, pkt.frag)
    /\ Return
    /\ UNCHANGED <<session, seq, ring, out>>

WithFragment(r, f, body) ==
    [block_idx |-> r.block_idx,
     fragments |-> [g \in DOMAIN r.fragments \cup {f} |-> IF g = f THEN body ELSE r.fragments[g]],
     fragment_to_send_idx |-> r.fragment_to_send_idx,
     has_fragments |-> r.has_fragments + 1]

StoreFragment ==
    /\ pc = "store" /\ ~Has(ring_idx, pkt.frag)
    /\ rx_ring' = [rx_ring EXCEPT ![ring_idx] = WithFragment(@, pkt.frag, pkt.body)]
    /\ pc' = IF ring_idx = rx_ring_front THEN "inorder" ELSE "decode"
    /\ UNCHANGED <<session, seq, rx_ring_front, rx_ring_alloc, last_known_block, out, locals>>

NextToSend(s) == rx_ring[s].fragment_to_send_idx

(* One iteration of the loop that sends without waiting for K fragments *)
SendInOrder ==
    /\ pc = "inorder"
    /\ NextToSend(ring_idx) < fec_k /\ Has(ring_idx, NextToSend(ring_idx))
    /\ send_packet(ring_idx, NextToSend(ring_idx))
    /\ rx_ring' = [rx_ring EXCEPT ![ring_idx].fragment_to_send_idx = @ + 1]
    /\ UNCHANGED <<session, rx_ring_front, rx_ring_alloc, last_known_block, pc, locals>>

RemoveFront ==
    /\ rx_ring_front' = modN(rx_ring_front + 1, RX_RING_SIZE)
    /\ rx_ring_alloc' = rx_ring_alloc - 1
    /\ UNCHANGED <<rx_ring, last_known_block>>

AllSentInOrder ==
    /\ pc = "inorder" /\ NextToSend(ring_idx) = fec_k
    /\ RemoveFront
    /\ Return
    /\ UNCHANGED <<session, seq, out>>

GapFound ==
    /\ pc = "inorder" /\ NextToSend(ring_idx) < fec_k
    /\ ~Has(ring_idx, NextToSend(ring_idx))
    /\ pc' = "decode"
    /\ UNCHANGED <<session, seq, ring, out, locals>>

RecoverableLate  == NextToSend(ring_idx) < fec_k /\ rx_ring[ring_idx].has_fragments > fec_k

(* K fragments with gaps: the block can be recovered, older ones are flushed *)
Recoverable == NextToSend(ring_idx) < fec_k /\ rx_ring[ring_idx].has_fragments = fec_k

StartRecoveryOneLess ==
    /\ pc = "decode" /\ Recoverable
    /\ nrm' = LET d == modN(ring_idx - rx_ring_front, RX_RING_SIZE) IN IF d = 0 THEN 0 ELSE d - 1
    /\ f_idx' = NextToSend(rx_ring_front)
    /\ pc' = "flush"
    /\ UNCHANGED <<session, seq, ring, out, pkt, ring_idx, todo>>

StartRecovery ==
    /\ pc = "decode" /\ Recoverable
    /\ nrm' = modN(ring_idx - rx_ring_front, RX_RING_SIZE)
    /\ f_idx' = NextToSend(rx_ring_front)
    /\ pc' = "flush"
    /\ UNCHANGED <<session, seq, ring, out, pkt, ring_idx, todo>>

KeepWaiting ==
    /\ pc = "decode" /\ ~Recoverable
    /\ Return
    /\ UNCHANGED <<session, seq, ring, out>>

FlushedBlock ==
    /\ pc = "flush" /\ nrm > 0 /\ f_idx >= fec_k
    /\ RemoveFront
    /\ nrm' = nrm - 1
    /\ f_idx' = NextToSend(modN(rx_ring_front + 1, RX_RING_SIZE))
    /\ UNCHANGED <<session, seq, out, pc, pkt, ring_idx, todo>>

(* apply_fec() on first use, and one iteration of the final send loop *)
SendRecovered ==
    /\ pc = "flush" /\ nrm = 0 /\ NextToSend(ring_idx) < fec_k
    /\ send_packet(ring_idx, NextToSend(ring_idx))
    /\ rx_ring' = [rx_ring EXCEPT ![ring_idx].fragment_to_send_idx = @ + 1]
    /\ UNCHANGED <<session, rx_ring_front, rx_ring_alloc, last_known_block, pc, locals>>

RecoveredBlock ==
    /\ pc = "flush" /\ nrm = 0 /\ NextToSend(ring_idx) = fec_k
    /\ RemoveFront
    /\ Return
    /\ UNCHANGED <<session, seq, out>>

(* The loops of process_packet() after it has looked the packet up *)
Continue ==
    \/ RingPush \/ RingOverflow \/ FlushFragment \/ RingOverride
    \/ DuplicateFragment \/ StoreFragment
    \/ SendInOrder \/ AllSentInOrder \/ GapFound
    \/ StartRecovery \/ KeepWaiting \/ FlushedBlock \/ SendRecovered \/ RecoveredBlock

(* process_packet(); a packet that is rejected changes statistics only *)
ProcessPacket(p) == ProcessSession(p) \/ ProcessKnownBlock(p) \/ ProcessNewBlock(p)

Next == Continue \/ \E p \in Packets : ProcessPacket(p)

Spec == Init /\ [][Next]_vars /\ WF_vars(Continue)

-----------------------------------------------------------------------------
(* The ring is RX_RING_SIZE items of the shape of rx_ring_item_t *)
IsItem(r) ==
    /\ r = [block_idx |-> r.block_idx, fragments |-> r.fragments,
            fragment_to_send_idx |-> r.fragment_to_send_idx,
            has_fragments |-> r.has_fragments]
    /\ r.block_idx \in Nat /\ r.fragment_to_send_idx \in Nat /\ r.has_fragments \in Nat

IsRing(r) == r = [s \in Slots |-> r[s]] /\ \A s \in Slots : IsItem(r[s])

(* The output is a sequence of fragments, numbered by block and fragment *)
IsOutput(o) ==
    /\ o \in Seq({o[i] : i \in DOMAIN o})
    /\ \A i \in DOMAIN o : o[i].block \in Nat /\ o[i].frag \in Nat

(* Every variable of the Aggregator holds a value its C++ type and its use   *)
(* in rx.cpp allow; the locals of process_packet() are reset on return.      *)
TypeOK ==
    /\ epoch \in Nat
    /\ \/ fec_k = None /\ fec_n = None
       \/ fec_k \in Nat \ {0} /\ fec_n \in Nat /\ fec_k <= fec_n
    /\ seq \in 0 .. SEQ_MODULUS - 1
    /\ rx_ring_front \in Slots /\ rx_ring_alloc \in 0 .. RX_RING_SIZE
    /\ last_known_block \in Nat \cup {None}
    /\ IsRing(rx_ring)
    /\ IsOutput(out)
    /\ pc \in {"idle", "push", "override", "store", "inorder", "decode", "flush"}
    /\ ring_idx \in Slots \cup {None}
    /\ todo \in 0 .. RX_RING_SIZE /\ f_idx \in Nat /\ nrm \in 0 .. RX_RING_SIZE - 1
    /\ pc # "idle" => pkt.block \in Nat /\ pkt.frag \in Nat /\ fec_k # None

(* The order in which the transmitter produced two fragments of a session *)
Before(a, b) == a.block < b.block \/ (a.block = b.block /\ a.frag < b.frag)

(* Whatever arrives, in whatever order and however often, send_packet() is   *)
(* called in the order of transmission and never twice for one fragment of a *)
(* session: "output UDP packets will be always ordered and no duplicates     *)
(* will be inside" (doc/wfb-ng-std-draft.md), up to a change of session.     *)
OutputInOrder ==
    \A i, j \in 1 .. Len(out) : i < j => Before(out[i], out[j])

(* The slot of the c-th oldest block, its number, and its next fragment *)
SlotOf(c)  == modN(rx_ring_front + c, RX_RING_SIZE)
BlockAt(c) == rx_ring[SlotOf(c)].block_idx
SentAt(c)  == NextToSend(SlotOf(c))

(* The first fragment of the oldest block not yet considered for sending *)
Cursor == IF pc = "override" \/ (pc = "flush" /\ nrm > 0) THEN f_idx ELSE SentAt(0)

(* All blocks below Frontier have been looked up or skipped; from Frontier   *)
(* on nothing has been put into the ring.                                    *)
Frontier == IF pc \in {"push", "override"} THEN pkt.block + 1 - todo ELSE last_known_block + 1

(* The ring holds its blocks in increasing order, none of them at or above   *)
(* the frontier; only the oldest one has been sent in part, up to the        *)
(* cursor; whatever was sent lies before every other block in the ring and   *)
(* below the frontier.                                                       *)
RingOrdered ==
    /\ \A c, d \in 0 .. rx_ring_alloc - 1 : c < d => BlockAt(c) < BlockAt(d)
    /\ \A c \in 0 .. rx_ring_alloc - 1 : BlockAt(c) < Frontier
    /\ \A c \in 1 .. rx_ring_alloc - 1 : SentAt(c) = 0
    /\ \A i \in 1 .. Len(out) : out[i].block < Frontier
    /\ \A i \in 1 .. Len(out), c \in 1 .. rx_ring_alloc - 1 : out[i].block < BlockAt(c)
    /\ rx_ring_alloc > 0 => \A i \in 1 .. Len(out) :
          Before(out[i], [block |-> BlockAt(0), frag |-> Cursor])

(* The loops of process_packet() work on a slot that is in the ring, with    *)
(* nrm blocks older than it left to flush.                                   *)
LocalsInRing ==
    /\ pc \in {"push", "override"} => /\ 1 <= todo /\ todo <= pkt.block + 1
                                     /\ last_known_block = pkt.block
    /\ pc = "override" => rx_ring_alloc = RX_RING_SIZE
    /\ pc \in {"store", "decode"} => \E c \in 0 .. rx_ring_alloc - 1 : ring_idx = SlotOf(c)
    /\ pc = "inorder" => rx_ring_alloc > 0 /\ ring_idx = rx_ring_front
    /\ pc = "flush" => nrm < rx_ring_alloc /\ ring_idx = SlotOf(nrm)

(* Why the output of process_packet() is in order: in the middle of any of   *)
(* its loops the ring is sorted, the output is behind it, and the slot the   *)
(* loop works on is in use.                                                  *)
RingInvariant == RingOrdered /\ LocalsInRing

(* The assert()s of process_packet() that speak of the ring: the ring is not *)
(* empty when a block is removed, and the flush loop ends exactly at the     *)
(* block to recover, where everything older is gone.                         *)
RingAssertions ==
    /\ pc \in {"inorder", "flush"} => rx_ring_alloc > 0
    /\ pc = "flush" /\ nrm = 0 => ring_idx = rx_ring_front

(* n is the number of elements of S: they can be numbered from 1 to n *)
Counts(n, S) ==
    \E number \in [S -> 1 .. n] :
        \A i \in 1 .. n : \E x \in S : \A y \in S : number[y] = i <=> y = x

(* Between packets no block in the ring has K fragments: the `== fec_k' test *)
(* of process_packet() is never stepped over, so no complete block is left   *)
(* to wait for a packet that need not come; and has_fragments is the number  *)
(* of fragments in the slot.                                                 *)
NoCompleteBlockWaits ==
    pc = "idle" => \A s \in Live : /\ rx_ring[s].has_fragments < fec_k
                                  /\ Counts(rx_ring[s].has_fragments, DOMAIN rx_ring[s].fragments)

Sent == {<<out[i].block, out[i].frag>> : i \in 1 .. Len(out)}

(* A block leaves the ring (completed, flushed by a newer one, or overridden *)
(* on overflow) only after every data packet received for it was sent, and   *)
(* after all K of them were sent if K fragments of it were received.         *)
NothingReceivedIsDropped ==
    [][session_key' = session_key =>
        \A s \in Live :
            LET b == rx_ring[s].block_idx
                left == s \notin Live' \/ rx_ring'[s].block_idx # b
            IN  left => \A f \in 0 .. fec_k - 1 :
                          Has(s, f) \/ rx_ring[s].has_fragments >= fec_k => <<b, f>> \in Sent]_vars

=============================================================================
