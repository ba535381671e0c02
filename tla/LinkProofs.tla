------------------------------ MODULE LinkProofs ------------------------------
(* What leaves the receiver is what entered the transmitter: for every ring  *)
(* size, code rate, packet size, loss, duplication, reordering and restart   *)
EXTENDS Link, TLAPS

-----------------------------------------------------------------------------
(* The air A as the transmitter left it: what holds of the packets injected  *)
(* so far by a transmitter that is at fragment f of block b of session key,  *)
(* with code rate k / n.                                                     *)

(* fragment f of block b of a session was injected, with this body *)
OnAir(A, key, b, f, body) ==
    \E q \in A : q.type = "data" /\ q.key = key /\ q.block = b /\ q.frag = f /\ q.body = body

(* Data packets are numbered, and those of this session lie before <<b, f>> *)
Numbered(A, key, b, f) ==
    \A p \in A : p.type = "data" =>
        /\ p.key \in Nat /\ p.key <= key /\ p.block \in Nat /\ p.frag \in Nat
        /\ p.key = key => p.block < b \/ (p.block = b /\ p.frag < f)

(* Session packets announce a code rate, and those of this session its own *)
Announced(A, key, k, n) ==
    \A s \in A : s.type = "session" =>
        /\ s.key \in Nat /\ s.key <= key /\ s.k \in Nat \ {0} /\ s.n \in Nat
        /\ s.key = key => s.k = k /\ s.n = n

(* No nonce is used for two plaintexts *)
Unique(A) ==
    \A p, q \in A :
        /\ p.type = "data" /\ q.type = "data"
        /\ p.key = q.key /\ p.block = q.block /\ p.frag = q.frag
        => p = q

(* p is a fragment of a codeword of rate k / n: a coded one carries the k    *)
(* data fragments of its block, in full, and all coded ones are alike.       *)
OfCodeword(A, p, k, n) ==
    /\ p.frag < n
    /\ p.frag >= k =>
        /\ \A i \in 0 .. k - 1 : /\ p.body.vec[i].size <= p.body.len
                                 /\ OnAir(A, p.key, p.block, i, p.body.vec[i])
        /\ \A q \in A : /\ q.type = "data" /\ q.key = p.key /\ q.block = p.block /\ q.frag >= k
                        => q.body = p.body

(* Every data packet belongs to a codeword of its session's code rate *)
Codewords(A, key, k, n) ==
    \A p \in A : p.type = "data" =>
        /\ p.key = key => OfCodeword(A, p, k, n)
        /\ \A s \in A : s.type = "session" /\ s.key = p.key => OfCodeword(A, p, s.k, s.n)

AirOK(A, key, k, n, b, f) ==
    /\ Numbered(A, key, b, f) /\ Announced(A, key, k, n)
    /\ Unique(A) /\ Codewords(A, key, k, n)

(* The open block: its first f fragments were injected as they stand in the  *)
(* buffer, and none is longer than max_packet_size.                          *)
OpenBlock(A, key, b, f, blk, max) ==
    \A i \in 0 .. f - 1 : /\ blk[i].size \in Nat /\ blk[i].size <= max
                          /\ OnAir(A, key, b, i, blk[i])

(* C holds coded fragments of block b with body c, one under each number *)
CodedFragments(C, c, key, b, k, n) ==
    /\ \A p \in C : /\ p.type = "data" /\ p.key = key /\ p.block = b
                    /\ p.frag \in k .. n - 1 /\ p.body = c
    /\ \A p, q \in C : p.frag = q.frag => p = q

(* c was made of max bytes of each fragment of the block *)
Carries(c, k, blk, max) == c.len = max /\ \A i \in 0 .. k - 1 : c.vec[i] = blk[i]

TxType ==
    /\ tx_session_key \in Nat \ {0}
    /\ tx_fec_k \in Nat \ {0} /\ tx_fec_n \in Nat /\ tx_fec_k <= tx_fec_n
    /\ block_idx \in Nat /\ fragment_idx \in 0 .. tx_fec_k - 1
    /\ DOMAIN block = 0 .. tx_fec_k - 1 /\ block = [i \in 0 .. tx_fec_k - 1 |-> block[i]]
    /\ max_packet_size \in Nat
    /\ request = << >> \/ \E c \in FecSettings : request = <<c[1], c[2]>>

(* The transmitter's half of the invariant *)
TxInvariant ==
    /\ TxType
    /\ AirOK(air, tx_session_key, tx_fec_k, tx_fec_n, block_idx, fragment_idx)
    /\ OpenBlock(air, tx_session_key, block_idx, fragment_idx, block, max_packet_size)

-----------------------------------------------------------------------------
(* A set of at least n elements: its members cannot be told apart by fewer   *)
(* than n numbers.                                                           *)
OneToOne(h, D) == \A x, y \in D : h[x] = h[y] => x = y
AtLeast(n, D) == \A m \in Nat : \A h \in [D -> 0 .. m - 1] : OneToOne(h, D) => n <= m

(* The receiver's half: items are well formed, with as many fragments as     *)
(* they count,                                                               *)
ItemOK(r) ==
    /\ r = [block_idx |-> r.block_idx, fragments |-> r.fragments,
            fragment_to_send_idx |-> r.fragment_to_send_idx,
            has_fragments |-> r.has_fragments]
    /\ r.fragment_to_send_idx \in Nat
    /\ r.has_fragments \in Nat /\ AtLeast(r.has_fragments, DOMAIN r.fragments)

RingOK(r) == r = [s \in Rx!Slots |-> r[s]] /\ \A s \in Rx!Slots : ItemOK(r[s])

(* the session is one that was announced, with its code rate, *)
SessionOK ==
    \/ fec_k = Rx!None /\ fec_n = Rx!None /\ session_key = NoKey
    \/ \E s \in air : /\ s.type = "session" /\ s.key = session_key
                      /\ s.k = fec_k /\ s.n = fec_n /\ s.epoch = epoch

(* what is in a slot came over the air under the number of its block, *)
FromAir(r, A, key, n) ==
    \A f \in DOMAIN r.fragments :
        f \in Nat /\ f < n /\ OnAir(A, key, r.block_idx, f, r.fragments[f])

RingFromAir == \A s \in Rx!Slots : FromAir(rx_ring[s], air, session_key, fec_n)

(* and process_packet() works on a packet of the session and on its slot. *)
HandlerOK ==
    /\ rx_ring_front \in Rx!Slots /\ rx_ring_alloc \in Int
    /\ pc \in {"idle", "push", "override", "store", "inorder", "decode", "flush"}
    /\ pc # "idle" => /\ pkt \in air /\ pkt.type = "data" /\ pkt.key = session_key
                      /\ pkt.frag < fec_n
    /\ pc \in {"store", "inorder", "decode", "flush"} => ring_idx \in Rx!Slots
    /\ pc = "store" => rx_ring[ring_idx].block_idx = pkt.block
    /\ pc = "flush" => rx_ring[ring_idx].has_fragments = fec_k

IsSequence(o) == o \in Seq({o[i] : i \in DOMAIN o})

RxInvariant ==
    /\ RingOK(rx_ring) /\ SessionOK /\ RingFromAir /\ HandlerOK
    /\ IsSequence(out) /\ DeliveredIntact

LinkInvariant == TxInvariant /\ RxInvariant

-----------------------------------------------------------------------------
(* What was injected stays on the air. *)
LEMMA OnAirGrows ==
    ASSUME NEW A, NEW B, A \subseteq B
    PROVE  \A key, b, f, body : OnAir(A, key, b, f, body) => OnAir(B, key, b, f, body)
  BY Zenon DEF OnAir

(* So the open block stays as injected, also when max_packet_size grows. *)
LEMMA OpenBlockGrows ==
    ASSUME NEW A, NEW B, A \subseteq B, NEW key, NEW b, NEW f, NEW blk, NEW max \in Nat, NEW max2 \in Nat,
           max <= max2, OpenBlock(A, key, b, f, blk, max)
    PROVE  OpenBlock(B, key, b, f, blk, max2)
<1>. SUFFICES ASSUME NEW i \in 0 .. f - 1
              PROVE  blk[i].size \in Nat /\ blk[i].size <= max2 /\ OnAir(B, key, b, i, blk[i])
  BY Zenon DEF OpenBlock
<1>1. blk[i].size \in Nat /\ blk[i].size <= max /\ OnAir(A, key, b, i, blk[i])
  BY Zenon DEF OpenBlock
<1>. QED  BY <1>1, OnAirGrows

(* send_session_key() repeats the session's announcement. *)
LEMMA AnnounceOK ==
    ASSUME NEW A, NEW key \in Nat, NEW k \in Nat \ {0}, NEW n \in Nat, NEW b, NEW f,
           AirOK(A, key, k, n, b, f),
           NEW s, s.type = "session", s.key = key, s.k = k, s.n = n
    PROVE  AirOK(A \cup {s}, key, k, n, b, f)
<1> DEFINE B == A \cup {s}
<1>0. s.type # "data"
  BY Zenon
<1>1. Numbered(B, key, b, f)
  BY <1>0, Zenon DEF AirOK, Numbered
<1>2. Announced(B, key, k, n)
  BY DEF AirOK, Announced
<1>3. Unique(B)
  BY <1>0, Zenon DEF AirOK, Unique
<1>4. ASSUME NEW p \in A, NEW kk, NEW nn, OfCodeword(A, p, kk, nn) PROVE OfCodeword(B, p, kk, nn)
  BY <1>0, <1>4, OnAirGrows, Zenon DEF OfCodeword
<1>5. Codewords(B, key, k, n)
  <2>. SUFFICES ASSUME NEW p \in A, p.type = "data"
                PROVE  /\ p.key = key => OfCodeword(B, p, k, n)
                       /\ \A t \in B : t.type = "session" /\ t.key = p.key => OfCodeword(B, p, t.k, t.n)
    BY <1>0, Zenon DEF Codewords
  <2>1. p.key = key => OfCodeword(A, p, k, n)
    BY Zenon DEF AirOK, Codewords
  <2>2. \A t \in A : t.type = "session" /\ t.key = p.key => OfCodeword(A, p, t.k, t.n)
    BY Zenon DEF AirOK, Codewords
  <2>. QED  BY <1>4, <2>1, <2>2, Zenon
<1>. QED  BY <1>1, <1>2, <1>3, <1>5, Zenon DEF AirOK

(* init_session() takes a key that no packet was sealed under. *)
LEMMA NewSessionOK ==
    ASSUME NEW A, NEW key \in Nat, NEW k, NEW n, NEW b, NEW f, AirOK(A, key, k, n, b, f),
           NEW k2, NEW n2
    PROVE  AirOK(A, key + 1, k2, n2, 0, 0)
<1>1. \A p \in A : p.type = "data" => p.key \in Nat /\ p.key <= key
  BY Zenon DEF AirOK, Numbered
<1>2. \A s \in A : s.type = "session" => s.key \in Nat /\ s.key <= key
  BY Zenon DEF AirOK, Announced
<1>3. \A x \in Nat : x <= key => x <= key + 1 /\ x # key + 1
  OBVIOUS
<1>4. Numbered(A, key + 1, 0, 0)
  BY <1>1, <1>3, Zenon DEF AirOK, Numbered
<1>5. Announced(A, key + 1, k2, n2)
  BY <1>2, <1>3, Zenon DEF AirOK, Announced
<1>6. Codewords(A, key + 1, k2, n2)
  BY <1>1, <1>3, Zenon DEF AirOK, Codewords
<1>. QED  BY <1>4, <1>5, <1>6, Zenon DEF AirOK

(* send_block_fragment() of a data fragment: it goes out under the next nonce. *)
LEMMA SendDataOK ==
    ASSUME NEW A, NEW key \in Nat, NEW k \in Nat \ {0}, NEW n \in Nat, k <= n,
           NEW b \in Nat, NEW f \in 0 .. k - 1, AirOK(A, key, k, n, b, f),
           NEW d, d.type = "data", d.key = key, d.block = b, d.frag = f
    PROVE  AirOK(A \cup {d}, key, k, n, b, f + 1)
<1> DEFINE B == A \cup {d}
<1>0. d.type # "session" /\ f \in Nat /\ f < k /\ ~(f >= k) /\ f < n
  OBVIOUS
<1>1. \A p \in A : p.type = "data" /\ p.key = key => p.block < b \/ (p.block = b /\ p.frag < f)
  BY Zenon DEF AirOK, Numbered
<1>2. \A p \in A : p.type = "data" =>
         p.key \in Nat /\ p.key <= key /\ p.block \in Nat /\ p.frag \in Nat
  BY Zenon DEF AirOK, Numbered
<1>3. Numbered(B, key, b, f + 1)
  BY <1>0, <1>1, <1>2 DEF Numbered
<1>4. Announced(B, key, k, n)
  BY <1>0, Zenon DEF AirOK, Announced
<1>5. \A p \in A : ~(p.type = "data" /\ p.key = d.key /\ p.block = d.block /\ p.frag = d.frag)
  BY <1>0, <1>1, <1>2
<1>6. Unique(B)
  BY <1>5, Zenon DEF AirOK, Unique
<1>7. ASSUME NEW p \in A, p.type = "data", NEW kk, NEW nn, OfCodeword(A, p, kk, nn),
             p.key = key => kk = k
      PROVE  OfCodeword(B, p, kk, nn)
  <2>1. ~(d.key = p.key /\ d.frag >= kk)
    BY <1>0, <1>7, Zenon
  <2>. QED  BY <1>7, <2>1, OnAirGrows, Zenon DEF OfCodeword
<1>8. OfCodeword(B, d, k, n)
  BY <1>0, Zenon DEF OfCodeword
<1>9. \A s \in B : s.type = "session" => s \in A /\ (s.key = key => s.k = k /\ s.n = n)
  BY <1>0, Zenon DEF AirOK, Announced
<1>10. Codewords(B, key, k, n)
  <2>. SUFFICES ASSUME NEW p \in B, p.type = "data"
                PROVE  /\ p.key = key => OfCodeword(B, p, k, n)
                       /\ \A s \in B : s.type = "session" /\ s.key = p.key => OfCodeword(B, p, s.k, s.n)
    BY Zenon DEF Codewords
  <2>1. CASE p = d
    BY <1>8, <1>9, <2>1, Zenon
  <2>2. CASE p \in A
    <3>1. p.key = key => OfCodeword(A, p, k, n)
      BY <2>2, Zenon DEF AirOK, Codewords
    <3>2. \A s \in A : s.type = "session" /\ s.key = p.key => OfCodeword(A, p, s.k, s.n)
      BY <2>2, Zenon DEF AirOK, Codewords
    <3>. QED  BY <1>7, <1>9, <2>2, <3>1, <3>2, Zenon
  <2>. QED  BY <2>1, <2>2, Zenon
<1>. QED  BY <1>3, <1>4, <1>6, <1>10, Zenon DEF AirOK

(* fec_encode() and the coded fragments: the block is complete, and what the *)
(* coded fragments were made of is on the air.                               *)
LEMMA SendCodedOK ==
    ASSUME NEW A, NEW key \in Nat, NEW k \in Nat \ {0}, NEW n \in Nat, k <= n,
           NEW b \in Nat, AirOK(A, key, k, n, b, k),
           NEW blk, NEW max \in Nat, OpenBlock(A, key, b, k, blk, max),
           NEW C, NEW c, Carries(c, k, blk, max), CodedFragments(C, c, key, b, k, n)
    PROVE  AirOK(A \cup C, key, k, n, b + 1, 0)
<1> DEFINE B == A \cup C
<1> USE DEF Carries, CodedFragments
<1>0. \A p \in C : p.type # "session" /\ p.frag \in Nat /\ p.frag < n /\ p.frag >= k /\ ~(p.frag < k)
  OBVIOUS
<1>1. \A p \in A : p.type = "data" =>
         /\ p.key \in Nat /\ p.key <= key /\ p.block \in Nat /\ p.frag \in Nat
         /\ p.key = key => p.block < b \/ (p.block = b /\ p.frag < k)
  BY Zenon DEF AirOK, Numbered
<1>2. Numbered(B, key, b + 1, 0)
  BY <1>0, <1>1 DEF Numbered
<1>3. Announced(B, key, k, n)
  BY <1>0, Zenon DEF AirOK, Announced
<1>4. \A p \in A, q \in C : ~(p.type = "data" /\ p.key = q.key /\ p.block = q.block /\ p.frag = q.frag)
  BY <1>0, <1>1, SMTT(60)
<1>5. Unique(B)
  BY <1>4 DEF AirOK, Unique
<1>6. ASSUME NEW p \in A, p.type = "data", p.key = key, p.block = b PROVE ~(p.frag >= k)
  BY <1>1, <1>6
<1>7. ASSUME NEW p \in A, p.type = "data", NEW kk, NEW nn, OfCodeword(A, p, kk, nn),
             p.key = key => kk = k
      PROVE  OfCodeword(B, p, kk, nn)
  <2>1. CASE p.frag >= kk
    <3>1. ~(p.key = key /\ p.block = b)
      BY <1>6, <1>7, <2>1, Zenon
    <3>2. \A q \in C : ~(q.key = p.key /\ q.block = p.block)
      BY <3>1, Zenon
    <3>. QED  BY <1>7, <2>1, <3>2, OnAirGrows, Zenon DEF OfCodeword
  <2>2. CASE ~(p.frag >= kk)
    BY <1>7, <2>2, Zenon DEF OfCodeword
  <2>. QED  BY <2>1, <2>2, Zenon
<1>8. ASSUME NEW p \in C PROVE OfCodeword(B, p, k, n)
  <2>1. \A i \in 0 .. k - 1 : c.vec[i].size <= c.len /\ OnAir(B, key, b, i, c.vec[i])
    BY OnAirGrows, Zenon DEF OpenBlock
  <2>2. \A q \in B : q.type = "data" /\ q.key = key /\ q.block = b /\ q.frag >= k => q.body = c
    BY <1>6, Zenon
  <2>. QED  BY <1>0, <2>1, <2>2, Zenon DEF OfCodeword
<1>9. \A s \in B : s.type = "session" => s \in A /\ (s.key = key => s.k = k /\ s.n = n)
  BY <1>0, Zenon DEF AirOK, Announced
<1>10. Codewords(B, key, k, n)
  <2>. SUFFICES ASSUME NEW p \in B, p.type = "data"
                PROVE  /\ p.key = key => OfCodeword(B, p, k, n)
                       /\ \A s \in B : s.type = "session" /\ s.key = p.key => OfCodeword(B, p, s.k, s.n)
    BY Zenon DEF Codewords
  <2>1. CASE p \in C
    BY <1>8, <1>9, <2>1, Zenon
  <2>2. CASE p \in A
    <3>1. p.key = key => OfCodeword(A, p, k, n)
      BY <2>2, Zenon DEF AirOK, Codewords
    <3>2. \A s \in A : s.type = "session" /\ s.key = p.key => OfCodeword(A, p, s.k, s.n)
      BY <2>2, Zenon DEF AirOK, Codewords
    <3>. QED  BY <1>7, <1>9, <2>2, <3>1, <3>2, Zenon
  <2>. QED  BY <2>1, <2>2, Zenon
<1>. QED  BY <1>2, <1>3, <1>5, <1>10, Zenon DEF AirOK

-----------------------------------------------------------------------------
(* The fragment is written to the block and injected: the open block has one *)
(* fragment more.                                                            *)
LEMMA OpenBlockSent ==
    ASSUME NEW A, NEW B, A \subseteq B, NEW key, NEW b, NEW k \in Nat, NEW f \in 0 .. k - 1,
           NEW blk, blk = [i \in 0 .. k - 1 |-> blk[i]], NEW max \in Nat, NEW body, body.size \in Nat,
           OpenBlock(A, key, b, f, blk, max), OnAir(B, key, b, f, body)
    PROVE  LET max2 == Tx!Larger(max, body.size)
               blk2 == [blk EXCEPT ![f] = body]
           IN  /\ max2 \in Nat /\ body.size <= max2
               /\ OpenBlock(B, key, b, f + 1, blk2, max2)
               /\ blk2 = [i \in 0 .. k - 1 |-> blk2[i]]
<1> DEFINE max2 == Tx!Larger(max, body.size)
<1> DEFINE blk2 == [blk EXCEPT ![f] = body]
<1>1. max2 \in Nat /\ max <= max2 /\ body.size <= max2
  BY DEF Tx!Larger
<1>2. /\ blk2 = [i \in 0 .. k - 1 |-> blk2[i]]
      /\ blk2[f] = body /\ \A i \in 0 .. k - 1 : i # f => blk2[i] = blk[i]
  BY Zenon
<1>3. OpenBlock(B, key, b, f, blk, max2)
  BY <1>1, OpenBlockGrows
<1>. HIDE DEF max2, blk2
<1>4. OpenBlock(B, key, b, f + 1, blk2, max2)
  <2>. SUFFICES ASSUME NEW i \in 0 .. f
                PROVE  blk2[i].size \in Nat /\ blk2[i].size <= max2 /\ OnAir(B, key, b, i, blk2[i])
    BY DEF OpenBlock
  <2>1. CASE i = f
    BY <1>1, <1>2, <2>1, Zenon
  <2>2. CASE i # f
    <3>1. i \in 0 .. f - 1 /\ blk2[i] = blk[i]
      BY <1>2, <2>2
    <3>. QED  BY <1>3, <3>1, Zenon DEF OpenBlock
  <2>. QED  BY <2>1, <2>2, Zenon
<1>. QED  BY <1>1, <1>2, <1>4, Zenon DEF max2, blk2

(* send_packet(), with the announcement data_source() may send before it *)
LEMMA SendPacketOK ==
    ASSUME TxInvariant, NEW body, body.size \in Nat,
           NEW extra, extra \subseteq {Tx!SessionPacketOf(tx_session_key, tx_fec_k, tx_fec_n)},
           Tx!send_packet(body, extra), UNCHANGED request
    PROVE  TxInvariant' /\ air \subseteq air'
<1> DEFINE s == Tx!SessionPacketOf(tx_session_key, tx_fec_k, tx_fec_n)
<1> DEFINE d == Tx!Fragment(block_idx, fragment_idx, body)
<1> DEFINE A1 == air \cup extra
<1> DEFINE A2 == A1 \cup {d}
<1>0. /\ tx_session_key \in Nat /\ tx_fec_k \in Nat \ {0} /\ tx_fec_n \in Nat /\ tx_fec_k <= tx_fec_n
      /\ block_idx \in Nat /\ fragment_idx \in 0 .. tx_fec_k - 1 /\ max_packet_size \in Nat
      /\ block = [i \in 0 .. tx_fec_k - 1 |-> block[i]]
  BY Zenon DEF TxInvariant, TxType
<1>1. s.type = "session" /\ s.key = tx_session_key /\ s.k = tx_fec_k /\ s.n = tx_fec_n
  BY Zenon DEF Tx!SessionPacketOf
<1>2. /\ d.type = "data" /\ d.key = tx_session_key /\ d.block = block_idx
      /\ d.frag = fragment_idx /\ d.body = body
  BY Zenon DEF Tx!Fragment
<1>. HIDE DEF s, d
<1>3. AirOK(A1, tx_session_key, tx_fec_k, tx_fec_n, block_idx, fragment_idx)
  <2>1. CASE extra = {}
    BY <2>1, Zenon DEF TxInvariant
  <2>2. CASE extra = {s}
    BY <1>0, <1>1, <2>2, AnnounceOK, Zenon DEF TxInvariant
  <2>. QED  BY <2>1, <2>2, Zenon DEF s
<1>4. AirOK(A2, tx_session_key, tx_fec_k, tx_fec_n, block_idx, fragment_idx + 1)
  <2>. HIDE DEF A1
  <2>. QED  BY <1>0, <1>2, <1>3, SendDataOK, Zenon
<1>5. OnAir(A2, tx_session_key, block_idx, fragment_idx, body)
  BY <1>2, Zenon DEF OnAir
<1> DEFINE blk2 == [block EXCEPT ![fragment_idx] = body]
<1> DEFINE max2 == Tx!Larger(max_packet_size, body.size)
<1>6. /\ max2 \in Nat /\ body.size <= max2
      /\ OpenBlock(A2, tx_session_key, block_idx, fragment_idx + 1, blk2, max2)
      /\ blk2 = [i \in 0 .. tx_fec_k - 1 |-> blk2[i]]
  <2>1. air \subseteq A2 /\ OpenBlock(air, tx_session_key, block_idx, fragment_idx, block, max_packet_size)
    BY Zenon DEF TxInvariant
  <2>. HIDE DEF A2
  <2>. QED  BY <1>0, <1>5, <2>1, OpenBlockSent, Zenon
<1>. HIDE DEF blk2, max2
<1>7. CASE Tx!AppendFragment(body, extra)
  <2>1. /\ fragment_idx + 1 < tx_fec_k /\ block' = blk2 /\ air' = A2 /\ max_packet_size' = max2
        /\ fragment_idx' = fragment_idx + 1
        /\ UNCHANGED <<tx_session_key, tx_fec_k, tx_fec_n, block_idx>>
    BY <1>7, Zenon DEF Tx!AppendFragment, blk2, max2, d
  <2>2. TxType'
    BY <1>0, <1>6, <2>1, SMTT(60) DEF TxInvariant, TxType
  <2>. QED  BY <1>4, <1>6, <2>1, <2>2, Zenon DEF TxInvariant
<1>8. CASE Tx!CompleteBlock(body, extra)
  <2> DEFINE c == Tx!Encoded(blk2, max2)
  <2> DEFINE C == {Tx!Fragment(block_idx, j, c) : j \in tx_fec_k .. tx_fec_n - 1}
  <2> DEFINE A3 == A2 \cup C
  <2> DEFINE s2 == Tx!SessionPacketOf(tx_session_key + 1, tx_fec_k, tx_fec_n)
  <2>1. fragment_idx + 1 = tx_fec_k /\ max_packet_size' = 0
    BY <1>8, Zenon DEF Tx!CompleteBlock
  <2>2. Carries(c, tx_fec_k, blk2, max2)
    BY Zenon DEF Tx!Encoded, Carries
  <2>3. CodedFragments(C, c, tx_session_key, block_idx, tx_fec_k, tx_fec_n)
    BY DEF Tx!Fragment, CodedFragments
  <2>4. AirOK(A3, tx_session_key, tx_fec_k, tx_fec_n, block_idx + 1, 0)
    <3>1. AirOK(A2, tx_session_key, tx_fec_k, tx_fec_n, block_idx, tx_fec_k)
      BY <1>4, <2>1, Zenon
    <3>2. OpenBlock(A2, tx_session_key, block_idx, tx_fec_k, blk2, max2)
      BY <1>6, <2>1, Zenon
    <3>. HIDE DEF A2, C, c
    <3>. QED  BY <1>0, <1>6, <2>2, <2>3, <3>1, <3>2, SendCodedOK, Zenon
  <2>5. CASE block_idx + 1 > MAX_BLOCK_IDX
    <3>1. /\ Tx!init_session(tx_fec_k, tx_fec_n)
          /\ air' = A3 \cup {s2}
      BY <1>8, <2>5, Zenon DEF Tx!CompleteBlock, blk2, max2, d
    <3>2. /\ tx_fec_k' = tx_fec_k /\ tx_fec_n' = tx_fec_n /\ block_idx' = 0 /\ fragment_idx' = 0
          /\ block' = [i \in 0 .. tx_fec_k - 1 |-> Tx!FecOnly] /\ tx_session_key' = tx_session_key + 1
      BY <3>1, Zenon DEF Tx!init_session
    <3>3. s2.type = "session" /\ s2.key = tx_session_key + 1 /\ s2.k = tx_fec_k /\ s2.n = tx_fec_n
      BY Zenon DEF Tx!SessionPacketOf
    <3>. HIDE DEF A3, s2
    <3>4. AirOK(A3, tx_session_key + 1, tx_fec_k, tx_fec_n, 0, 0)
      BY <1>0, <2>4, NewSessionOK, Zenon
    <3>5. AirOK(A3 \cup {s2}, tx_session_key + 1, tx_fec_k, tx_fec_n, 0, 0)
      <4>1. tx_session_key + 1 \in Nat
        BY <1>0
      <4>. QED  BY <1>0, <3>3, <3>4, <4>1, AnnounceOK, Zenon
    <3>6. TxType'
      BY <1>0, <2>1, <3>2, SMTT(60) DEF TxInvariant, TxType
    <3>7. OpenBlock(air', tx_session_key + 1, 0, 0, block', 0)
      BY DEF OpenBlock
    <3>8. air \subseteq air'
      BY <3>1, Zenon DEF A3
    <3>. QED  BY <2>1, <3>1, <3>2, <3>5, <3>6, <3>7, <3>8, Zenon DEF TxInvariant
  <2>6. CASE ~(block_idx + 1 > MAX_BLOCK_IDX)
    <3>1. /\ block' = blk2 /\ block_idx' = block_idx + 1 /\ fragment_idx' = 0 /\ air' = A3
          /\ UNCHANGED <<tx_session_key, tx_fec_k, tx_fec_n>>
      BY <1>8, <2>6, Zenon DEF Tx!CompleteBlock, blk2, max2, d
    <3>2. TxType'
      BY <1>0, <1>6, <2>1, <3>1, SMTT(60) DEF TxInvariant, TxType
    <3>3. OpenBlock(air', tx_session_key, block_idx + 1, 0, block', 0)
      BY DEF OpenBlock
    <3>4. air \subseteq air'
      BY <3>1, Zenon
    <3>. QED  BY <2>1, <2>4, <3>1, <3>2, <3>3, <3>4, Zenon DEF TxInvariant
  <2>. QED  BY <2>5, <2>6, Zenon
<1>. QED  BY <1>7, <1>8, Zenon DEF Tx!send_packet

(* The constructor opens the first session of an empty air. *)
LEMMA TxInit == Tx!Init => TxInvariant
<1>. SUFFICES ASSUME Tx!Init PROVE TxInvariant
  BY Zenon
<1>1. /\ InitialFec[1] \in Nat \ {0} /\ InitialFec[2] \in Nat /\ InitialFec[1] <= InitialFec[2]
  BY LinkConstants
<1>2. TxType
  BY <1>1 DEF Tx!Init, TxType
<1>3. AirOK(air, tx_session_key, tx_fec_k, tx_fec_n, block_idx, fragment_idx)
  BY Zenon DEF Tx!Init, AirOK, Numbered, Announced, Unique, Codewords
<1>4. OpenBlock(air, tx_session_key, block_idx, fragment_idx, block, max_packet_size)
  BY DEF Tx!Init, OpenBlock
<1>. QED  BY <1>2, <1>3, <1>4, Zenon DEF TxInvariant

(* init_session() outside of a block, for CMD_SET_FEC or after a restart:    *)
(* the new session is announced at once, or with its first packet.           *)
LEMMA FreshSessionOK ==
    ASSUME TxInvariant, NEW k \in Nat \ {0}, NEW n \in Nat, k <= n, Tx!init_session(k, n),
           max_packet_size' \in Nat, request' = << >>,
           air' = air \/ air' = air \cup {Tx!SessionPacketOf(tx_session_key + 1, k, n)}
    PROVE  TxInvariant' /\ air \subseteq air'
<1> DEFINE s == Tx!SessionPacketOf(tx_session_key + 1, k, n)
<1>1. /\ tx_fec_k' = k /\ tx_fec_n' = n /\ block_idx' = 0 /\ fragment_idx' = 0
      /\ block' = [i \in 0 .. k - 1 |-> Tx!FecOnly] /\ tx_session_key' = tx_session_key + 1
  BY Zenon DEF Tx!init_session
<1>2. tx_session_key \in Nat /\ tx_session_key + 1 \in Nat \ {0}
  BY SMTT(60) DEF TxInvariant, TxType
<1>3. TxType'
  BY <1>1, <1>2 DEF TxType
<1>4. AirOK(air, tx_session_key + 1, k, n, 0, 0)
  BY <1>2, NewSessionOK, Zenon DEF TxInvariant
<1>5. s.type = "session" /\ s.key = tx_session_key + 1 /\ s.k = k /\ s.n = n
  BY Zenon DEF Tx!SessionPacketOf
<1>6. AirOK(air \cup {s}, tx_session_key + 1, k, n, 0, 0)
  <2>. HIDE DEF s
  <2>. QED  BY <1>2, <1>4, <1>5, AnnounceOK, Zenon
<1>7. AirOK(air', tx_session_key + 1, k, n, 0, 0)
  BY <1>4, <1>6, Zenon
<1>8. OpenBlock(air', tx_session_key + 1, 0, 0, block', max_packet_size')
  BY DEF OpenBlock
<1>. QED  BY <1>1, <1>3, <1>7, <1>8, Zenon DEF TxInvariant

(* Every step of the transmitter keeps its half of the invariant and takes   *)
(* nothing off the air.                                                      *)
LEMMA TxStep == ASSUME TxInvariant, Tx!Next PROVE TxInvariant' /\ air \subseteq air'
<1>f. Tx!FecOnly.size \in Nat
  BY Zenon DEF Tx!FecOnly, Tx!PacketBody, Tx!HEADER
<1>1. ASSUME NEW size \in Sizes, Tx!Input(size) PROVE TxInvariant' /\ air \subseteq air'
  <2> DEFINE body == Tx!PacketBody(accepted + 1, size, FALSE)
  <2> DEFINE extra(due) == IF due THEN {Tx!SessionPacketOf(tx_session_key, tx_fec_k, tx_fec_n)} ELSE {}
  <2>1. PICK due \in {TRUE, ~announced} : Tx!send_packet(body, extra(due))
    BY <1>1, Zenon DEF Tx!Input
  <2>2. body.size \in Nat
    BY LinkConstants, Zenon DEF Tx!PacketBody
  <2>3. extra(due) \subseteq {Tx!SessionPacketOf(tx_session_key, tx_fec_k, tx_fec_n)}
    BY Zenon
  <2>4. UNCHANGED request
    BY <1>1, Zenon DEF Tx!Input
  <2>. HIDE DEF body, extra
  <2>. QED  BY <2>1, <2>2, <2>3, <2>4, SendPacketOK, Zenon
<1>2. CASE Tx!FecTimeout
  BY <1>2, <1>f, SendPacketOK, Zenon DEF Tx!FecTimeout
<1>3. ASSUME NEW c \in FecSettings, Tx!SetFec(c[1], c[2]) PROVE TxInvariant' /\ air \subseteq air'
  BY <1>3, Zenon DEF Tx!SetFec, Tx!coder, TxInvariant, TxType
<1>4. CASE Tx!CloseForSetFec
  BY <1>4, <1>f, SendPacketOK, Zenon DEF Tx!CloseForSetFec
<1>5. CASE Tx!RestartSession
  <2>1. PICK c \in FecSettings : request = <<c[1], c[2]>>
    BY <1>5, Zenon DEF Tx!RestartSession, TxInvariant, TxType
  <2>2. request[1] = c[1] /\ request[2] = c[2]
    BY <2>1, Zenon
  <2>3. c[1] \in Nat \ {0} /\ c[2] \in Nat /\ c[1] <= c[2]
    BY LinkConstants
  <2>4. /\ Tx!init_session(c[1], c[2]) /\ request' = << >> /\ max_packet_size' \in Nat
        /\ air' = air \cup {Tx!SessionPacketOf(tx_session_key + 1, c[1], c[2])}
    BY <1>5, <2>2, Zenon DEF Tx!RestartSession, TxInvariant, TxType
  <2>. QED  BY <2>3, <2>4, FreshSessionOK, Zenon
<1>6. CASE Tx!Restart
  <2>1. InitialFec[1] \in Nat \ {0} /\ InitialFec[2] \in Nat /\ InitialFec[1] <= InitialFec[2]
    BY LinkConstants
  <2>2. /\ Tx!init_session(InitialFec[1], InitialFec[2]) /\ request' = << >>
        /\ max_packet_size' \in Nat /\ air' = air
    BY <1>6, Zenon DEF Tx!Restart
  <2>. QED  BY <2>1, <2>2, FreshSessionOK, Zenon
<1>. QED  BY <1>1, <1>2, <1>3, <1>4, <1>5, <1>6, Zenon DEF Tx!Next

-----------------------------------------------------------------------------
(* Nothing is at least 0, *)
LEMMA AtLeastNone == \A D : AtLeast(0, D)
  BY DEF AtLeast

(* a new element is one more: the number of the new one may be exchanged     *)
(* with the highest, and the rest do with one number less,                   *)
LEMMA AtLeastOneMore ==
    ASSUME NEW n \in Nat, NEW D, NEW f, f \notin D, AtLeast(n, D)
    PROVE  AtLeast(n + 1, D \cup {f})
<1>. SUFFICES ASSUME NEW m \in Nat, NEW h \in [D \cup {f} -> 0 .. m - 1], OneToOne(h, D \cup {f})
              PROVE  n + 1 <= m
  BY Zenon DEF AtLeast
<1> DEFINE g == [x \in D |-> IF h[x] = m - 1 THEN h[f] ELSE h[x]]
<1>1. h[f] \in 0 .. m - 1 /\ \A x \in D : h[x] \in 0 .. m - 1 /\ h[x] # h[f]
  BY Zenon DEF OneToOne
<1>2. m - 1 \in Nat
  BY <1>1
<1>3. \A x \in D : g[x] = IF h[x] = m - 1 THEN h[f] ELSE h[x]
  BY Zenon
<1>4. g \in [D -> 0 .. (m - 1) - 1]
  BY <1>1, <1>3
<1>5. \A x, y \in D : h[x] = h[y] => x = y
  BY Zenon DEF OneToOne
<1>. HIDE DEF g
<1>6. OneToOne(g, D)
  BY <1>1, <1>3, <1>5, Zenon DEF OneToOne
<1>7. n <= m - 1
  BY <1>2, <1>4, <1>6, Zenon DEF AtLeast
<1>. QED  BY <1>7

(* and k elements do not fit below k when one number is left out.            *)
LEMMA AtLeastBelow ==
    ASSUME NEW k \in Nat, NEW D, AtLeast(k, D), NEW f \in 0 .. k - 1, f \notin D
    PROVE  ~(D \subseteq 0 .. k - 1)
<1>. SUFFICES ASSUME D \subseteq 0 .. k - 1 PROVE FALSE
  BY Zenon
<1> DEFINE h == [x \in D |-> IF x > f THEN x - 1 ELSE x]
<1>1. \A x \in D : x \in 0 .. k - 1 /\ x # f
  BY Zenon
<1>2. h \in [D -> 0 .. (k - 1) - 1] /\ k - 1 \in Nat
  BY <1>1
<1>3. \A x, y \in D : h[x] = h[y] => x = y
  BY <1>1
<1>. HIDE DEF h
<1>4. k <= k - 1
  BY <1>2, <1>3, Zenon DEF AtLeast, OneToOne
<1>. QED  BY <1>4

(* The receiver.  A new item, a sent fragment and a stored one leave items   *)
(* well formed, and the ring with them.                                      *)
LEMMA NewItemOK ==
    ASSUME NEW b, NEW A, NEW key, NEW n
    PROVE  ItemOK(Rx!Item(b)) /\ FromAir(Rx!Item(b), A, key, n) /\ Rx!Item(b).block_idx = b
<1>1. DOMAIN (<< >>) = {}
  OBVIOUS
<1>. QED  BY <1>1, AtLeastNone, Zenon DEF Rx!Item, ItemOK, FromAir

(* the cursor of an item moves on *)
LEMMA SentItemOK ==
    ASSUME NEW r, ItemOK(r), NEW A, NEW key, NEW n, FromAir(r, A, key, n)
    PROVE  LET i == [r EXCEPT !.fragment_to_send_idx = @ + 1]
           IN  ItemOK(i) /\ FromAir(i, A, key, n) /\ i.has_fragments = r.has_fragments
<1> DEFINE i == [r EXCEPT !.fragment_to_send_idx = @ + 1]
<1>1. /\ i.block_idx = r.block_idx /\ i.fragments = r.fragments
      /\ i.has_fragments = r.has_fragments /\ i.fragment_to_send_idx = r.fragment_to_send_idx + 1
      /\ i = [block_idx |-> i.block_idx, fragments |-> i.fragments,
              fragment_to_send_idx |-> i.fragment_to_send_idx, has_fragments |-> i.has_fragments]
  BY DEF ItemOK
<1>. HIDE DEF i
<1>2. ItemOK(i) /\ FromAir(i, A, key, n)
  BY <1>1, SMTT(60) DEF ItemOK, FromAir
<1>. QED  BY <1>1, <1>2, Zenon DEF i

(* and a fragment that was not there is stored. *)
LEMMA StoredItemOK ==
    ASSUME NEW r, ItemOK(r), NEW A, NEW key, NEW n, FromAir(r, A, key, n),
           NEW f \in Nat, f < n, f \notin DOMAIN r.fragments, NEW body, OnAir(A, key, r.block_idx, f, body)
    PROVE  LET i == Rx!WithFragment(r, f, body) IN ItemOK(i) /\ FromAir(i, A, key, n)
<1> DEFINE i == Rx!WithFragment(r, f, body)
<1>1. /\ i.block_idx = r.block_idx
      /\ i.fragments = [g \in DOMAIN r.fragments \cup {f} |-> IF g = f THEN body ELSE r.fragments[g]]
      /\ i.has_fragments = r.has_fragments + 1 /\ i.fragment_to_send_idx = r.fragment_to_send_idx
      /\ i = [block_idx |-> i.block_idx, fragments |-> i.fragments,
              fragment_to_send_idx |-> i.fragment_to_send_idx, has_fragments |-> i.has_fragments]
  BY Zenon DEF Rx!WithFragment
<1>2. DOMAIN i.fragments = DOMAIN r.fragments \cup {f}
  BY <1>1, Zenon
<1>3. r.has_fragments + 1 \in Nat /\ AtLeast(r.has_fragments + 1, DOMAIN r.fragments \cup {f})
  BY AtLeastOneMore DEF ItemOK
<1>. HIDE DEF i
<1>4. ItemOK(i)
  BY <1>1, <1>2, <1>3, Zenon DEF ItemOK
<1>5. FromAir(i, A, key, n)
  <2>. SUFFICES ASSUME NEW g \in DOMAIN r.fragments \cup {f}
                PROVE  g \in Nat /\ g < n /\ OnAir(A, key, r.block_idx, g, i.fragments[g])
    BY <1>1, <1>2, Zenon DEF FromAir
  <2>1. CASE g = f
    BY <1>1, <2>1, Zenon
  <2>2. CASE g # f
    BY <1>1, <2>2, Zenon DEF FromAir
  <2>. QED  BY <2>1, <2>2, Zenon
<1>. QED  BY <1>4, <1>5, Zenon DEF i

(* Replacing the item in one slot *)
LEMMA PutOK ==
    ASSUME RingOK(rx_ring), RingFromAir, NEW s \in Rx!Slots, NEW i, ItemOK(i),
           FromAir(i, air, session_key, fec_n), rx_ring' = [rx_ring EXCEPT ![s] = i],
           UNCHANGED <<air, session_key, fec_n>>
    PROVE  RingOK(rx_ring)' /\ RingFromAir' /\ rx_ring'[s] = i
<1>1. rx_ring' = [t \in Rx!Slots |-> IF t = s THEN i ELSE rx_ring[t]]
  BY Zenon DEF RingOK
<1>. QED  BY <1>1, Zenon DEF RingOK, RingFromAir, Rx!Slots

-----------------------------------------------------------------------------
(* The decoder.  k fragments of a block of the session, one data fragment    *)
(* not among them: then a coded one is, and fec_decode_simd() rebuilds what  *)
(* was injected under the missing number.                                    *)
LEMMA DecodeOK ==
    ASSUME NEW A, NEW key, NEW b, NEW k \in Nat \ {0}, NEW n, NEW fr,
           AtLeast(k, DOMAIN fr),
           \A g \in DOMAIN fr : g \in Nat /\ OnAir(A, key, b, g, fr[g]),
           Unique(A), \A p \in A : p.type = "data" /\ p.key = key => OfCodeword(A, p, k, n),
           NEW f \in 0 .. k - 1, f \notin DOMAIN fr
    PROVE  OnAir(A, key, b, f, Rx!fec_decode(fr, k, f))
<1> DEFINE coded == {j \in DOMAIN fr : j >= k}
<1>1. coded # {}
  <2>. SUFFICES ASSUME coded = {} PROVE FALSE
    BY Zenon
  <2>1. DOMAIN fr \subseteq 0 .. k - 1 /\ k \in Nat
    OBVIOUS
  <2>. QED  BY <2>1, AtLeastBelow, Zenon
<1> DEFINE j0 == CHOOSE j \in coded : TRUE
<1>2. j0 \in coded
  BY <1>1, Zenon
<1> DEFINE c == fr[j0]
<1>3. PICK q \in A : q.type = "data" /\ q.key = key /\ q.block = b /\ q.frag = j0 /\ q.body = c
  BY <1>2, Zenon DEF OnAir
<1>4. j0 \in Nat /\ j0 >= k
  BY <1>2, Zenon
<1>5. OfCodeword(A, q, k, n)
  BY <1>3, Zenon
<1>. HIDE DEF j0, c
<1>6. \A i \in 0 .. k - 1 : c.vec[i].size <= c.len /\ OnAir(A, key, b, i, c.vec[i])
  BY <1>3, <1>4, <1>5, Zenon DEF OfCodeword
<1>7. \A j \in coded : fr[j] = c
  <2>. SUFFICES ASSUME NEW j \in coded PROVE fr[j] = c
    BY Zenon
  <2>1. PICK p \in A : p.type = "data" /\ p.key = key /\ p.block = b /\ p.frag = j /\ p.body = fr[j]
    BY Zenon DEF OnAir
  <2>. QED  BY <1>3, <1>4, <1>5, <2>1, Zenon DEF OfCodeword
<1>8. \A j \in DOMAIN fr \ coded : fr[j] = c.vec[j]
  <2>. SUFFICES ASSUME NEW j \in DOMAIN fr, ~(j >= k) PROVE fr[j] = c.vec[j]
    BY Zenon
  <2>1. j \in 0 .. k - 1
    OBVIOUS
  <2>2. OnAir(A, key, b, j, c.vec[j]) /\ OnAir(A, key, b, j, fr[j])
    BY <1>6, <2>1, Zenon
  <2>. QED  BY <2>2, SMTT(60) DEF OnAir, Unique
<1>9. Rx!fec_decode(fr, k, f) = c.vec[f]
  BY <1>1, <1>6, <1>7, <1>8, Zenon DEF Rx!fec_decode, c, j0
<1>. QED  BY <1>6, <1>9, Zenon

-----------------------------------------------------------------------------
(* What process_packet() may rely on while it works on a packet: the code    *)
(* rate is the one announced, and every packet of the session is of it.      *)
LEMMA InSession ==
    ASSUME TxInvariant, RxInvariant, pc # "idle"
    PROVE  /\ fec_k \in Nat \ {0} /\ fec_n \in Nat
           /\ pkt.block \in Nat /\ pkt.frag \in Nat /\ pkt.frag < fec_n
           /\ OnAir(air, session_key, pkt.block, pkt.frag, pkt.body)
           /\ \A p \in air : p.type = "data" /\ p.key = session_key => OfCodeword(air, p, fec_k, fec_n)
<1>1. pkt \in air /\ pkt.type = "data" /\ pkt.key = session_key /\ pkt.frag < fec_n
  BY Zenon DEF RxInvariant, HandlerOK
<1>2. pkt.block \in Nat /\ pkt.frag \in Nat
  BY <1>1, Zenon DEF TxInvariant, AirOK, Numbered
<1>3. fec_n # Rx!None
  BY <1>1, <1>2 DEF Rx!None
<1>4. PICK s \in air : s.type = "session" /\ s.key = session_key /\ s.k = fec_k /\ s.n = fec_n
  BY <1>3, Zenon DEF RxInvariant, SessionOK
<1>5. fec_k \in Nat \ {0} /\ fec_n \in Nat
  BY <1>4, Zenon DEF TxInvariant, AirOK, Announced
<1>6. \A p \in air : p.type = "data" /\ p.key = session_key => OfCodeword(air, p, fec_k, fec_n)
  BY <1>4, Zenon DEF TxInvariant, AirOK, Codewords
<1>. QED  BY <1>1, <1>2, <1>5, <1>6, Zenon DEF OnAir

(* A fragment of a slot, stored or rebuilt from fec_k others, is what was    *)
(* injected under its number.                                                *)
LEMMA BodyOK ==
    ASSUME TxInvariant, RxInvariant, pc # "idle", NEW s \in Rx!Slots, NEW f,
           Rx!Has(s, f) \/ (f \in 0 .. fec_k - 1 /\ rx_ring[s].has_fragments = fec_k)
    PROVE  OnAir(air, session_key, rx_ring[s].block_idx, f, Rx!Body(s, f))
<1>1. FromAir(rx_ring[s], air, session_key, fec_n) /\ ItemOK(rx_ring[s])
  BY Zenon DEF RxInvariant, RingFromAir, RingOK
<1>2. CASE Rx!Has(s, f)
  BY <1>1, <1>2, Zenon DEF Rx!Body, Rx!Has, FromAir
<1>3. CASE ~Rx!Has(s, f)
  <2> DEFINE fr == rx_ring[s].fragments
  <2>1. f \in 0 .. fec_k - 1 /\ f \notin DOMAIN fr
    BY <1>3, Zenon DEF Rx!Has
  <2>2. AtLeast(fec_k, DOMAIN fr)
    BY <1>1, <1>3, Zenon DEF ItemOK
  <2>3. \A g \in DOMAIN fr : g \in Nat /\ OnAir(air, session_key, rx_ring[s].block_idx, g, fr[g])
    BY <1>1, Zenon DEF FromAir
  <2>4. Unique(air)
    BY Zenon DEF TxInvariant, AirOK
  <2>5. Rx!Body(s, f) = Rx!fec_decode(fr, fec_k, f)
    BY <1>3, Zenon DEF Rx!Body
  <2>. HIDE DEF fr
  <2>. QED  BY <2>1, <2>2, <2>3, <2>4, <2>5, InSession, DecodeOK, Zenon
<1>. QED  BY <1>2, <1>3, Zenon

(* So what send_packet() passes on was injected. *)
LEMMA SendOK ==
    ASSUME IsSequence(out), DeliveredIntact, NEW s, NEW f, Rx!send_packet(s, f),
           OnAir(air, session_key, rx_ring[s].block_idx, f, Rx!Body(s, f)),
           UNCHANGED <<air, session_key>>
    PROVE  IsSequence(out)' /\ DeliveredIntact'
<1> DEFINE e == [block |-> rx_ring[s].block_idx, frag |-> f,
                 body |-> Rx!Body(s, f), lost |-> Rx!LostBefore(s, f)]
<1>1. out' = Append(out, e)
  BY Zenon DEF Rx!send_packet
<1>2. OnAir(air, session_key, e.block, e.frag, e.body)
  BY Zenon
<1>. HIDE DEF e
<1> DEFINE S == {out[i] : i \in DOMAIN out} \cup {e}
<1>3. out \in Seq(S)
  BY DEF IsSequence
<1>4. /\ out' \in Seq(S) /\ Len(out') = Len(out) + 1 /\ Len(out) \in Nat
      /\ DOMAIN out' = 1 .. (Len(out) + 1)
      /\ \A i \in 1 .. Len(out) : out'[i] = out[i]
      /\ out'[Len(out) + 1] = e
  BY <1>1, <1>3
<1>5. IsSequence(out)'
  BY <1>4, SMTT(60) DEF IsSequence
<1>6. ASSUME NEW i \in 1 .. Len(out')
      PROVE  OnAir(air, session_key, out'[i].block, out'[i].frag, out'[i].body)
  <2>1. CASE i \in 1 .. Len(out)
    BY <1>4, <2>1 DEF DeliveredIntact, OnAir
  <2>2. CASE i = Len(out) + 1
    BY <1>2, <1>4, <2>2, Zenon
  <2>. QED  BY <1>4, <2>1, <2>2
<1>. QED  BY <1>5, <1>6, Zenon DEF DeliveredIntact, OnAir

(* init_fec() empties the ring and starts a new output. *)
LEMMA InitFecOK ==
    ASSUME NEW k, NEW n, Rx!init_fec(k, n)
    PROVE  /\ RingOK(rx_ring)' /\ RingFromAir' /\ IsSequence(out)' /\ DeliveredIntact'
           /\ rx_ring_front' \in Rx!Slots /\ rx_ring_alloc' \in Int
<1>1. rx_ring' = [s \in Rx!Slots |-> Rx!Item(0)] /\ out' = << >>
  BY Zenon DEF Rx!init_fec
<1>2. \A s \in Rx!Slots : rx_ring'[s] = Rx!Item(0)
  BY <1>1, Zenon
<1>3. RingOK(rx_ring)'
  BY <1>1, <1>2, NewItemOK, Zenon DEF RingOK, Rx!Slots
<1>4. RingFromAir'
  BY <1>1, <1>2, NewItemOK, Zenon DEF RingFromAir, Rx!Slots
<1>5. IsSequence(out)' /\ DeliveredIntact'
  BY <1>1 DEF IsSequence, DeliveredIntact
<1>. QED  BY <1>3, <1>4, <1>5, LinkConstants DEF Rx!init_fec, Rx!Slots

(* Slot numbers are taken modulo the ring size. *)
LEMMA SlotNumber == \A x \in Int : Rx!modN(x, RX_RING_SIZE) \in Rx!Slots
  BY LinkConstants DEF Rx!modN, Rx!Slots

(* The receiver starts without a session, with an empty ring. *)
LEMMA RxInit == Rx!Init => RxInvariant
<1>. SUFFICES ASSUME Rx!Init PROVE RxInvariant
  BY Zenon
<1>1. \A s \in Rx!Slots : rx_ring[s] = Rx!Item(0)
  BY Zenon DEF Rx!Init
<1>2. RingOK(rx_ring)
  BY <1>1, NewItemOK, Zenon DEF RingOK, Rx!Init
<1>3. RingFromAir
  BY <1>1, NewItemOK, Zenon DEF RingFromAir
<1>4. SessionOK /\ HandlerOK
  BY LinkConstants DEF Rx!Init, SessionOK, HandlerOK, Rx!Slots
<1>5. IsSequence(out) /\ DeliveredIntact
  BY DEF Rx!Init, IsSequence, DeliveredIntact
<1>. QED  BY <1>2, <1>3, <1>4, <1>5, Zenon DEF RxInvariant

(* While the receiver rests, packets are only added to the air. *)
LEMMA RxKeeps == ASSUME RxInvariant, air \subseteq air', UNCHANGED rxVars PROVE RxInvariant'
<1>1. RingOK(rx_ring)' /\ IsSequence(out)'
  BY Zenon DEF RxInvariant, rxVars, RingOK, Rx!Slots, IsSequence
<1>2. SessionOK' /\ HandlerOK'
  BY Zenon DEF RxInvariant, rxVars, SessionOK, HandlerOK, Rx!Slots, Rx!None
<1>3. RingFromAir'
  BY OnAirGrows, Zenon DEF RxInvariant, rxVars, RingFromAir, FromAir, Rx!Slots
<1>4. DeliveredIntact'
  BY Zenon DEF RxInvariant, rxVars, DeliveredIntact
<1>. QED  BY <1>1, <1>2, <1>3, <1>4, Zenon DEF RxInvariant

(* Taking a packet from the air *)
LEMMA ReceiveStep ==
    ASSUME TxInvariant, RxInvariant, NEW p \in air, Rx!ProcessPacket(p), UNCHANGED txVars
    PROVE  RxInvariant'
<1>a. air' = air
  BY Zenon DEF txVars
<1>1. CASE Rx!ProcessSession(p)
  <2>1. CASE p.key = session_key
    <3>1. UNCHANGED <<session_key, epoch, fec_k, fec_n, seq, rx_ring, rx_ring_front, rx_ring_alloc,
                      last_known_block, out, pc, pkt, ring_idx, todo, f_idx, nrm>>
      BY <1>1, <2>1, Zenon DEF Rx!ProcessSession, Rx!ring, Rx!locals
    <3>. QED
      BY <1>a, <3>1 DEF RxInvariant, RingOK, SessionOK, RingFromAir, HandlerOK, IsSequence,
                        DeliveredIntact, Rx!Slots, Rx!None
  <2>2. CASE p.key # session_key
    <3>1. /\ session_key' = p.key /\ epoch' = p.epoch /\ Rx!init_fec(p.k, p.n)
          /\ p.type = "session" /\ pc' = "idle"
      BY <1>1, <2>2, Zenon DEF Rx!ProcessSession
    <3>2. SessionOK'
      BY <1>a, <3>1, Zenon DEF SessionOK, Rx!init_fec
    <3>3. HandlerOK'
      BY <3>1, InitFecOK, Zenon DEF HandlerOK, Rx!Slots
    <3>. QED  BY <3>1, <3>2, <3>3, InitFecOK, Zenon DEF RxInvariant
  <2>. QED  BY <2>1, <2>2, ZenonT(60)
<1>2. ASSUME /\ p.type = "data" /\ Rx!DataAccepted(p) /\ pkt' = p
             /\ UNCHANGED <<session_key, epoch, fec_k, fec_n, rx_ring, rx_ring_front, rx_ring_alloc, out>>
             /\ \/ pc' = "push"
                \/ pc' = "store" /\ ring_idx' \in Rx!Slots /\ rx_ring[ring_idx'].block_idx = p.block
      PROVE  RxInvariant'
  <2>1. HandlerOK'
    BY <1>2, <1>a, Zenon DEF Rx!DataAccepted, RxInvariant, HandlerOK, Rx!Slots
  <2>. QED
    BY <1>2, <1>a, <2>1, SMTT(60) DEF RxInvariant, RingOK, SessionOK, RingFromAir, IsSequence, DeliveredIntact,
                            Rx!Slots, Rx!None
<1>3. CASE Rx!ProcessKnownBlock(p)
  <2>1. Rx!Live \subseteq Rx!Slots
    <3>1. \A c \in 0 .. rx_ring_alloc - 1 : rx_ring_front + c \in Int
      BY SMTT(60) DEF RxInvariant, HandlerOK, Rx!Slots
    <3>. QED  BY <3>1, SlotNumber, ZenonT(60) DEF Rx!Live
  <2>. QED  BY <1>2, <1>3, <2>1, Zenon DEF Rx!ProcessKnownBlock, Rx!session, Rx!ring
<1>4. CASE Rx!ProcessNewBlock(p)
  BY <1>2, <1>4, Zenon DEF Rx!ProcessNewBlock, Rx!session
<1>. QED  BY <1>1, <1>3, <1>4, Zenon DEF Rx!ProcessPacket

(* The loops of process_packet() *)
LEMMA ProcessStep ==
    ASSUME TxInvariant, RxInvariant, Rx!Continue, UNCHANGED txVars
    PROVE  RxInvariant'
<1>a. air' = air
  BY Zenon DEF txVars
<1>f. rx_ring_front \in Rx!Slots /\ rx_ring_alloc \in Int /\ rx_ring_front + rx_ring_alloc \in Int
      /\ rx_ring_front + 1 \in Int
  BY DEF RxInvariant, HandlerOK, Rx!Slots
<1>g. \A s \in Rx!Slots : Rx!NextToSend(s) \in Nat
  BY Zenon DEF RxInvariant, RingOK, ItemOK, Rx!NextToSend
<1>u. ASSUME UNCHANGED <<session_key, epoch, fec_k, fec_n>>, RingOK(rx_ring)', RingFromAir',
             IsSequence(out)', DeliveredIntact', HandlerOK'
      PROVE  RxInvariant'
  BY <1>u, <1>a, Zenon DEF RxInvariant, SessionOK, Rx!None
<1>r. ASSUME UNCHANGED <<session_key, epoch, fec_k, fec_n, rx_ring>> PROVE RingOK(rx_ring)' /\ RingFromAir'
  BY <1>r, <1>a, Zenon DEF RxInvariant, RingOK, RingFromAir, Rx!Slots
<1>o. ASSUME UNCHANGED <<session_key, out>> PROVE IsSequence(out)' /\ DeliveredIntact'
  BY <1>o, <1>a, Zenon DEF RxInvariant, IsSequence, DeliveredIntact
(* a step that only moves on, returns or drops the oldest block *)
<1>k. ASSUME UNCHANGED <<session_key, epoch, fec_k, fec_n, rx_ring, out>>, HandlerOK' PROVE RxInvariant'
  BY <1>k, <1>u, <1>r, <1>o, Zenon
(* and one that puts an item into the ring *)
<1>p. ASSUME pc # "idle", NEW s \in Rx!Slots, Rx!PushInto(s), rx_ring_front' \in Rx!Slots,
             rx_ring_alloc' \in Int, UNCHANGED <<session_key, epoch, fec_k, fec_n, out, pkt>>
      PROVE  RxInvariant'
  <2>1. /\ ItemOK(Rx!Item(pkt.block + 1 - todo))
        /\ FromAir(Rx!Item(pkt.block + 1 - todo), air, session_key, fec_n)
        /\ Rx!Item(pkt.block + 1 - todo).block_idx = pkt.block + 1 - todo
    BY NewItemOK, Zenon
  <2>2. rx_ring' = [rx_ring EXCEPT ![s] = Rx!Item(pkt.block + 1 - todo)] /\ ring_idx' = s
    BY <1>p, Zenon DEF Rx!PushInto
  <2>3. RingOK(rx_ring)' /\ RingFromAir' /\ rx_ring'[s] = Rx!Item(pkt.block + 1 - todo)
    BY <1>a, <1>p, <2>1, <2>2, PutOK, ZenonT(60) DEF RxInvariant
  <2>4. todo = 1 => rx_ring'[s].block_idx = pkt.block
    BY <1>p, <2>1, <2>3, InSession, SMTT(60)
  <2>5. pc' \in {"push", "store"} /\ (pc' = "store" => todo = 1)
    BY <1>p, Zenon DEF Rx!PushInto
  <2>6. HandlerOK'
    BY <1>a, <1>p, <2>2, <2>4, <2>5, Zenon DEF RxInvariant, HandlerOK, Rx!Slots
  <2>. QED  BY <1>o, <1>p, <1>u, <2>3, <2>6, Zenon
(* and one that sends the next fragment of the packet's own slot *)
<1>n. ASSUME pc \in {"inorder", "flush"}, Rx!send_packet(ring_idx, Rx!NextToSend(ring_idx)),
             Rx!Has(ring_idx, Rx!NextToSend(ring_idx)) \/ (pc = "flush" /\ Rx!NextToSend(ring_idx) < fec_k),
             rx_ring' = [rx_ring EXCEPT ![ring_idx].fragment_to_send_idx = @ + 1],
             UNCHANGED <<session_key, epoch, fec_k, fec_n, rx_ring_front, rx_ring_alloc, pc, pkt, ring_idx>>
      PROVE  RxInvariant'
  <2> DEFINE i == [rx_ring[ring_idx] EXCEPT !.fragment_to_send_idx = @ + 1]
  <2>0. ring_idx \in Rx!Slots /\ pc # "idle" /\ (pc = "flush" => rx_ring[ring_idx].has_fragments = fec_k)
    BY <1>n, Zenon DEF RxInvariant, HandlerOK
  <2>1. /\ ItemOK(i) /\ FromAir(i, air, session_key, fec_n)
        /\ i.has_fragments = rx_ring[ring_idx].has_fragments
    <3>1. ItemOK(rx_ring[ring_idx]) /\ FromAir(rx_ring[ring_idx], air, session_key, fec_n)
      BY <2>0, Zenon DEF RxInvariant, RingOK, RingFromAir
    <3>. QED  BY <3>1, SentItemOK, Zenon
  <2>2. rx_ring' = [rx_ring EXCEPT ![ring_idx] = i]
    BY <1>n, Zenon
  <2>. HIDE DEF i
  <2>3. RingOK(rx_ring)' /\ RingFromAir' /\ rx_ring'[ring_idx] = i
    BY <1>a, <1>n, <2>0, <2>1, <2>2, PutOK, ZenonT(60) DEF RxInvariant
  <2>4. HandlerOK'
    BY <1>a, <1>n, <2>0, <2>1, <2>3, ZenonT(60) DEF RxInvariant, HandlerOK, Rx!Slots
  <2>5. \/ Rx!Has(ring_idx, Rx!NextToSend(ring_idx))
        \/ /\ Rx!NextToSend(ring_idx) \in 0 .. fec_k - 1
           /\ rx_ring[ring_idx].has_fragments = fec_k
    BY <1>g, <1>n, <2>0, InSession, SMTT(60)
  <2>6. IsSequence(out)' /\ DeliveredIntact'
    BY <1>a, <1>n, <2>0, <2>5, BodyOK, SendOK, ZenonT(60) DEF RxInvariant
  <2>. QED  BY <1>n, <1>u, <2>3, <2>4, <2>6, Zenon
<1>1. CASE Rx!RingPush
  BY <1>1, <1>f, <1>p, SlotNumber, SMTT(60) DEF Rx!RingPush, Rx!session
<1>2. CASE Rx!RingOverflow
  <2>1. HandlerOK'
    BY <1>2, <1>a, Zenon DEF Rx!RingOverflow, Rx!session, Rx!ring, RxInvariant, HandlerOK, Rx!Slots
  <2>. QED  BY <1>2, <1>k, <2>1, Zenon DEF Rx!RingOverflow, Rx!session, Rx!ring
<1>3. CASE Rx!FlushFragment
  <2>1. /\ pc \in {"override", "flush"}
        /\ UNCHANGED <<session_key, epoch, fec_k, fec_n, rx_ring, rx_ring_front, rx_ring_alloc,
                       pc, pkt, ring_idx>>
    BY <1>3, Zenon DEF Rx!FlushFragment, Rx!session, Rx!ring
  <2>2. HandlerOK'
    BY <1>a, <2>1, Zenon DEF RxInvariant, HandlerOK, Rx!Slots
  <2>3. CASE Rx!Has(rx_ring_front, f_idx)
    <3>1. Rx!send_packet(rx_ring_front, f_idx)
      BY <1>3, <2>3, Zenon DEF Rx!FlushFragment
    <3>2. IsSequence(out)' /\ DeliveredIntact'
      BY <1>a, <1>f, <2>1, <2>3, <3>1, BodyOK, SendOK, ZenonT(60) DEF RxInvariant
    <3>. QED  BY <1>r, <1>u, <2>1, <2>2, <3>2, ZenonT(60)
  <2>4. CASE ~Rx!Has(rx_ring_front, f_idx)
    BY <1>3, <1>k, <2>1, <2>2, <2>4, ZenonT(60) DEF Rx!FlushFragment
  <2>. QED  BY <2>3, <2>4, Zenon
<1>4. CASE Rx!RingOverride
  BY <1>4, <1>f, <1>p, SlotNumber, ZenonT(60) DEF Rx!RingOverride, Rx!session
<1>5. CASE Rx!DuplicateFragment
  <2>1. HandlerOK'
    BY <1>5, Zenon DEF Rx!DuplicateFragment, Rx!Return, Rx!ring, RxInvariant, HandlerOK, Rx!Slots
  <2>. QED  BY <1>5, <1>k, <2>1, Zenon DEF Rx!DuplicateFragment, Rx!session, Rx!ring
<1>6. CASE Rx!StoreFragment
  <2> DEFINE i == Rx!WithFragment(rx_ring[ring_idx], pkt.frag, pkt.body)
  <2>0. /\ ring_idx \in Rx!Slots /\ pc # "idle" /\ rx_ring[ring_idx].block_idx = pkt.block
        /\ pkt.frag \notin DOMAIN rx_ring[ring_idx].fragments
    BY <1>6, Zenon DEF Rx!StoreFragment, Rx!Has, RxInvariant, HandlerOK
  <2>1. ItemOK(i) /\ FromAir(i, air, session_key, fec_n)
    <3>1. ItemOK(rx_ring[ring_idx]) /\ FromAir(rx_ring[ring_idx], air, session_key, fec_n)
      BY <2>0, Zenon DEF RxInvariant, RingOK, RingFromAir
    <3>. QED  BY <2>0, <3>1, InSession, StoredItemOK, Zenon
  <2>2. /\ rx_ring' = [rx_ring EXCEPT ![ring_idx] = i] /\ pc' \in {"inorder", "decode"}
        /\ UNCHANGED <<session_key, epoch, fec_k, fec_n, rx_ring_front, rx_ring_alloc, out, pkt, ring_idx>>
    BY <1>6, Zenon DEF Rx!StoreFragment, Rx!session, Rx!locals
  <2>. HIDE DEF i
  <2>3. RingOK(rx_ring)' /\ RingFromAir'
    BY <1>a, <2>0, <2>1, <2>2, PutOK, ZenonT(60) DEF RxInvariant
  <2>4. HandlerOK'
    BY <1>a, <2>0, <2>2, Zenon DEF RxInvariant, HandlerOK, Rx!Slots
  <2>. QED  BY <1>o, <1>u, <2>2, <2>3, <2>4, Zenon
<1>7. CASE Rx!SendInOrder
  BY <1>7, <1>n, Zenon DEF Rx!SendInOrder, Rx!session, Rx!locals
<1>8. CASE Rx!AllSentInOrder
  <2>1. HandlerOK'
    BY <1>8, <1>f, SlotNumber, SMTT(60) DEF Rx!AllSentInOrder, Rx!RemoveFront, Rx!Return, HandlerOK, Rx!Slots
  <2>. QED  BY <1>8, <1>k, <2>1, Zenon DEF Rx!AllSentInOrder, Rx!RemoveFront, Rx!session
<1>9. CASE Rx!GapFound
  <2>1. HandlerOK'
    BY <1>9, <1>a, Zenon DEF Rx!GapFound, Rx!session, Rx!ring, Rx!locals, RxInvariant, HandlerOK, Rx!Slots
  <2>. QED  BY <1>9, <1>k, <2>1, Zenon DEF Rx!GapFound, Rx!session, Rx!ring
<1>10. CASE Rx!StartRecovery
  <2>1. HandlerOK'
    BY <1>10, <1>a, Zenon DEF Rx!StartRecovery, Rx!Recoverable, Rx!session, Rx!ring, RxInvariant, HandlerOK, Rx!Slots
  <2>. QED  BY <1>10, <1>k, <2>1, Zenon DEF Rx!StartRecovery, Rx!session, Rx!ring
<1>11. CASE Rx!KeepWaiting
  <2>1. HandlerOK'
    BY <1>11, Zenon DEF Rx!KeepWaiting, Rx!Return, Rx!ring, RxInvariant, HandlerOK, Rx!Slots
  <2>. QED  BY <1>11, <1>k, <2>1, ZenonT(60) DEF Rx!KeepWaiting, Rx!session, Rx!ring
<1>12. CASE Rx!FlushedBlock
  <2>1. /\ pc = "flush" /\ rx_ring_front' \in Rx!Slots /\ rx_ring_alloc' \in Int
        /\ UNCHANGED <<session_key, epoch, fec_k, fec_n, rx_ring, out, pc, pkt, ring_idx>>
    BY <1>12, <1>f, SlotNumber, SMTT(60) DEF Rx!FlushedBlock, Rx!RemoveFront, Rx!session
  <2>2. HandlerOK'
    BY <1>a, <2>1, Zenon DEF RxInvariant, HandlerOK, Rx!Slots
  <2>. QED  BY <1>k, <2>1, <2>2, Zenon
<1>13. CASE Rx!SendRecovered
  BY <1>13, <1>n, Zenon DEF Rx!SendRecovered, Rx!session, Rx!locals
<1>14. CASE Rx!RecoveredBlock
  <2>1. HandlerOK'
    BY <1>14, <1>f, SlotNumber, SMTT(60) DEF Rx!RecoveredBlock, Rx!RemoveFront, Rx!Return, HandlerOK, Rx!Slots
  <2>. QED  BY <1>14, <1>k, <2>1, ZenonT(60) DEF Rx!RecoveredBlock, Rx!RemoveFront, Rx!session
<1>. QED
  BY <1>1, <1>2, <1>3, <1>4, <1>5, <1>6, <1>7, <1>8, <1>9, <1>10, <1>11, <1>12, <1>13, <1>14, SMTT(60)
  DEF Rx!Continue

(* wfb_rx is started again: it has no session until it hears one announced. *)
LEMMA RestartStep == ASSUME RxInvariant, RestartReceiver PROVE RxInvariant'
<1>1. SessionOK'
  BY Zenon DEF RestartReceiver, Rx!init_fec, SessionOK, Rx!None
<1>2. /\ RingOK(rx_ring)' /\ RingFromAir' /\ IsSequence(out)' /\ DeliveredIntact'
      /\ rx_ring_front' \in Rx!Slots /\ rx_ring_alloc' \in Int
  BY InitFecOK, Zenon DEF RestartReceiver
<1>3. HandlerOK'
  BY <1>2, Zenon DEF RestartReceiver, HandlerOK, Rx!Slots
<1>. QED  BY <1>1, <1>2, <1>3, Zenon DEF RxInvariant

-----------------------------------------------------------------------------
(* Every step of the link keeps the invariant. *)
LEMMA LinkStep == ASSUME LinkInvariant, [Next]_vars PROVE LinkInvariant'
<1>t. ASSUME UNCHANGED txVars PROVE TxInvariant'
  BY <1>t, Zenon DEF LinkInvariant, txVars, TxInvariant, TxType, AirOK, OpenBlock
<1>1. CASE Transmit
  BY <1>1, TxStep, RxKeeps, Zenon DEF Transmit, LinkInvariant
<1>2. CASE Receive
  BY <1>2, <1>t, ReceiveStep, Zenon DEF Receive, LinkInvariant
<1>3. CASE Process
  BY <1>3, <1>t, ProcessStep, Zenon DEF Process, LinkInvariant
<1>4. CASE RestartReceiver
  BY <1>4, <1>t, RestartStep, Zenon DEF RestartReceiver, LinkInvariant
<1>5. CASE UNCHANGED vars
  BY <1>5, <1>t, RxKeeps, Zenon DEF vars, txVars, LinkInvariant
<1>. QED  BY <1>1, <1>2, <1>3, <1>4, <1>5, ZenonT(60) DEF Next

(* The air, the open block of send_packet(), the ring of process_packet()    *)
(* and what it has passed on stay consistent: for every ring size, code      *)
(* rate, packet size, loss, duplication, reordering and restart.             *)
THEOREM LinkInvariantHolds == Spec => []LinkInvariant
<1>1. Init => LinkInvariant
  BY TxInit, RxInit, Zenon DEF Init, LinkInvariant
<1>2. LinkInvariant /\ [Next]_vars => LinkInvariant'
  BY LinkStep, Zenon
<1>. QED  BY <1>1, <1>2, PTL DEF Spec

(* send_packet() and init_session() never use one nonce for two plaintexts   *)
(* of a session: block_idx and fragment_idx only grow, and a restart or a    *)
(* change of the code rate comes with a new key.                             *)
THEOREM NonceNeverReusedHolds == Spec => []NonceNeverReused
<1>1. LinkInvariant => NonceNeverReused
  BY Zenon DEF LinkInvariant, TxInvariant, AirOK, Unique, NonceNeverReused
<1>. QED  BY <1>1, LinkInvariantHolds, PTL

(* Whatever process_packet() passes on, received or rebuilt by the decoder,  *)
(* is what the transmitter sent under that block and fragment number.        *)
THEOREM DeliveredIntactHolds == Spec => []DeliveredIntact
<1>1. LinkInvariant => DeliveredIntact
  BY Zenon DEF LinkInvariant, RxInvariant
<1>. QED  BY <1>1, LinkInvariantHolds, PTL

(* The code rate process_packet() decodes with is the one the session was    *)
(* announced with: init_fec() is never left with K and N of another session. *)
THEOREM SameCodeAsSenderHolds == Spec => []SameCodeAsSender
<1>1. LinkInvariant => SameCodeAsSender
  BY Zenon DEF LinkInvariant, RxInvariant, SessionOK, SameCodeAsSender
<1>. QED  BY <1>1, LinkInvariantHolds, PTL

=============================================================================
