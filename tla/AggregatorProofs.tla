--------------------------- MODULE AggregatorProofs ---------------------------
(***************************************************************************)
(* Proofs about Aggregator, for every ring size, code rate and sequence of *)
(* packets: the ring is sorted and ahead of the output at every iteration  *)
(* of process_packet()'s loops, hence its assert()s hold; on top of that,  *)
(* fragments are passed on in order and once, a block that can be sent is  *)
(* sent at once, and no block leaves the ring before what was received of  *)
(* it.                                                                     *)
(***************************************************************************)
EXTENDS Aggregator, TLAPS

(* Numbers of slots, and a little arithmetic *)
LEMMA SmallNumbers ==
    /\ 0 \in 0 .. RX_RING_SIZE - 1 /\ RX_RING_SIZE > 0
    /\ \A n \in 0 .. RX_RING_SIZE - 1 : n \in Nat
    /\ \A n \in Nat : n > 0 => n # 0
    /\ \A n \in Nat : n + 1 \in 1 .. n + 1 /\ \A i \in 1 .. n : i \in 1 .. n + 1
    /\ \A a \in 0 .. RX_RING_SIZE : \A c \in 0 .. a - 1 : c \in 0 .. RX_RING_SIZE
    /\ \A a \in 0 .. RX_RING_SIZE, m \in Nat : m < a => a > 0
    /\ \A a \in Nat, b \in Nat : a < b => ~(a >= b)
    /\ \A k \in Nat, i \in Nat : i >= k => \A f \in 0 .. k - 1 : f \in 0 .. i - 1
  BY AggregatorConstants

(* What lies before a fragment lies before the next one. *)
LEMMA BeforeNext ==
    ASSUME NEW a, a.frag \in Nat, NEW b, NEW f \in Nat, Before(a, [block |-> b, frag |-> f])
    PROVE  Before(a, [block |-> b, frag |-> f + 1])
  BY DEF Before

(* Slot numbers wrap around once. *)
LEMMA ModWrap ==
    ASSUME NEW N \in Nat \ {0}, NEW x \in 0 .. 2 * N - 1
    PROVE  modN(x, N) = IF x < N THEN x ELSE x - N
<1> USE DEF modN
<1>1. CASE x < N
  BY <1>1, SMT
<1>2. CASE x >= N
  <2>1. x - N \in 0 .. N - 1
    BY <1>2
  <2>2. x % N = (x - N) % N
    BY <1>2, <2>1, SMT
  <2>. QED  BY <2>1, <2>2, <1>2, SMT
<1>. QED  BY <1>1, <1>2

(* modN(s - front) for a slot of the ring. *)
LEMMA ModDistance ==
    ASSUME NEW N \in Nat \ {0}, NEW x \in (1 - N) .. N - 1
    PROVE  modN(x, N) = IF x >= 0 THEN x ELSE x + N
<1> USE DEF modN
<1>1. CASE x >= 0
  BY <1>1, SMT
<1>2. CASE x < 0
  BY <1>2, SMT
<1>. QED  BY <1>1, <1>2

(* Nothing sent is an output. *)
LEMMA OutputEmpty == IsOutput(<< >>)
  BY DEF IsOutput

(* Sending one more fragment *)
LEMMA OutputAppend ==
    ASSUME NEW o, IsOutput(o), NEW e, e.block \in Nat, e.frag \in Nat
    PROVE  /\ IsOutput(Append(o, e))
           /\ Len(o) \in Nat
           /\ Len(Append(o, e)) = Len(o) + 1
           /\ \A i \in 1 .. Len(o) : Append(o, e)[i] = o[i]
           /\ Append(o, e)[Len(o) + 1] = e
<1> DEFINE S == {o[i] : i \in DOMAIN o} \cup {e}
<1> DEFINE t == Append(o, e)
<1>1. o \in Seq(S)
  BY DEF IsOutput
<1>2. /\ t \in Seq(S) /\ Len(t) = Len(o) + 1 /\ Len(o) \in Nat
      /\ DOMAIN o = 1 .. Len(o) /\ DOMAIN t = 1 .. (Len(o) + 1)
      /\ \A i \in 1 .. Len(o) : t[i] = o[i]
      /\ t[Len(o) + 1] = e
  BY <1>1
<1>3. t \in Seq({t[i] : i \in DOMAIN t})
  BY <1>2
<1>. HIDE DEF t
<1>4. \A i \in DOMAIN t : t[i].block \in Nat /\ t[i].frag \in Nat
  <2>. SUFFICES ASSUME NEW i \in 1 .. (Len(o) + 1) PROVE t[i].block \in Nat /\ t[i].frag \in Nat
    BY <1>2, Zenon
  <2>1. CASE i \in 1 .. Len(o)
    BY <1>2, <2>1, Zenon DEF IsOutput
  <2>2. CASE i = Len(o) + 1
    BY <1>2, <2>2, Zenon
  <2>. QED  BY <1>2, <2>1, <2>2
<1>5. IsOutput(t)
  BY <1>3, <1>4, Zenon DEF IsOutput
<1>. QED  BY <1>2, <1>5, Zenon DEF t

-----------------------------------------------------------------------------
(* Going round the ring: the c-th slot from front is in the ring, different  *)
(* positions are different slots, moving front by one renumbers them, and    *)
(* the distance process_packet() computes is the position.                   *)
LEMMA RingGeometry ==
    ASSUME NEW f \in Slots
    PROVE  /\ \A c \in 0 .. RX_RING_SIZE : modN(f + c, RX_RING_SIZE) \in Slots
           /\ modN(f, RX_RING_SIZE) = f
           /\ modN(f + RX_RING_SIZE, RX_RING_SIZE) = f
           /\ \A c, d \in 0 .. RX_RING_SIZE - 1 :
                 modN(f + c, RX_RING_SIZE) = modN(f + d, RX_RING_SIZE) => c = d
           /\ \A c \in 0 .. RX_RING_SIZE - 1 :
                 modN(modN(f + 1, RX_RING_SIZE) + c, RX_RING_SIZE) = modN(f + (c + 1), RX_RING_SIZE)
           /\ \A c \in 0 .. RX_RING_SIZE - 1 :
                 modN(modN(f + c, RX_RING_SIZE) - f, RX_RING_SIZE) = c
<1> DEFINE N == RX_RING_SIZE
<1>0. N \in Nat \ {0} /\ f \in 0 .. N - 1
  BY AggregatorConstants, Zenon DEF Slots
<1>. HIDE DEF N
<1>1. \A x \in 0 .. 2 * N - 1 : modN(x, N) = IF x < N THEN x ELSE x - N
  BY <1>0, ModWrap, Zenon
<1>2. \A x \in (1 - N) .. N - 1 : modN(x, N) = IF x >= 0 THEN x ELSE x + N
  BY <1>0, ModDistance, Zenon
<1>3. \A c \in 0 .. N : modN(f + c, N) = IF f + c < N THEN f + c ELSE f + c - N
  BY <1>0, <1>1
<1>4. modN(f, N) = f
  BY <1>0, <1>1
<1>5. ASSUME NEW c \in 0 .. N - 1
      PROVE  modN(modN(f + 1, N) + c, N) = modN(f + (c + 1), N)
  <2>1. modN(f + 1, N) \in 0 .. N - 1
    BY <1>0, <1>3
  <2>2. modN(f + 1, N) + c \in 0 .. 2 * N - 1
    BY <1>0, <2>1
  <2>3. modN(f + 1, N) = IF f + 1 < N THEN f + 1 ELSE f + 1 - N
    BY <1>0, <1>3
  <2>. QED  BY <1>0, <1>1, <1>3, <2>1, <2>2, <2>3
<1>6. ASSUME NEW c \in 0 .. N - 1
      PROVE  modN(modN(f + c, N) - f, N) = c
  <2>1. modN(f + c, N) = IF f + c < N THEN f + c ELSE f + c - N
    BY <1>0, <1>3
  <2>2. modN(f + c, N) - f \in (1 - N) .. N - 1
    BY <1>0, <2>1
  <2>. QED  BY <1>0, <1>2, <2>1, <2>2
<1>. QED  BY <1>0, <1>3, <1>4, <1>5, <1>6, SMTT(60) DEF N, Slots

-----------------------------------------------------------------------------
(* The Aggregator starts with an empty ring and no output. *)
LEMMA InitInv == Init => TypeOK /\ RingInvariant /\ OutputInOrder
<1>. SUFFICES ASSUME Init PROVE TypeOK /\ RingInvariant /\ OutputInOrder
  BY Zenon
<1> USE AggregatorConstants DEF Init, None, Slots
<1>1. TypeOK
  BY DEF TypeOK, Item, IsItem, IsRing, IsOutput
<1>2. RingInvariant /\ OutputInOrder
  BY DEF RingInvariant, RingOrdered, LocalsInRing, OutputInOrder
<1>. QED  BY <1>1, <1>2, Zenon

(* The three ways process_packet() changes the ring: reset, a new item in a *)
(* slot, and new values of the fields of an item.                           *)
LEMMA RingReset == ASSUME NEW b \in Nat PROVE IsRing([s \in Slots |-> Item(b)])
  BY Zenon DEF IsRing, IsItem, Item

(* A new item in a slot, as rx_ring_push() leaves it, keeps the ring's shape. *)
LEMMA RingPut ==
    ASSUME NEW r, IsRing(r), NEW s \in Slots, NEW b \in Nat
    PROVE  LET q == [r EXCEPT ![s] = Item(b)]
           IN  /\ IsRing(q)
               /\ q[s].block_idx = b /\ q[s].fragment_to_send_idx = 0
               /\ \A t \in Slots \ {s} : q[t] = r[t]
<1>1. IsItem(Item(b)) /\ Item(b).block_idx = b /\ Item(b).fragment_to_send_idx = 0
  BY Zenon DEF IsItem, Item
<1>. QED  BY <1>1, Zenon DEF IsRing

(* So does moving the cursor of an item when a fragment is sent. *)
LEMMA RingSent ==
    ASSUME NEW r, IsRing(r), NEW s \in Slots
    PROVE  LET q == [r EXCEPT ![s].fragment_to_send_idx = @ + 1]
           IN  /\ IsRing(q)
               /\ q[s].block_idx = r[s].block_idx
               /\ q[s].fragment_to_send_idx = r[s].fragment_to_send_idx + 1
               /\ \A t \in Slots \ {s} : q[t] = r[t]
<1> DEFINE i == [r[s] EXCEPT !.fragment_to_send_idx = @ + 1]
<1>1. IsItem(i) /\ i.block_idx = r[s].block_idx /\ i.fragment_to_send_idx = r[s].fragment_to_send_idx + 1
  BY DEF IsItem, IsRing
<1>2. [r EXCEPT ![s].fragment_to_send_idx = @ + 1] = [r EXCEPT ![s] = i]
  BY Zenon
<1>. HIDE DEF i
<1>. QED  BY <1>1, <1>2, Zenon DEF IsRing

(* So does storing a fragment in an item. *)
LEMMA RingStored ==
    ASSUME NEW r, IsRing(r), NEW s \in Slots, NEW f, NEW body
    PROVE  LET q == [r EXCEPT ![s] = WithFragment(@, f, body)]
           IN  /\ IsRing(q)
               /\ q[s].block_idx = r[s].block_idx
               /\ q[s].fragment_to_send_idx = r[s].fragment_to_send_idx
               /\ \A t \in Slots \ {s} : q[t] = r[t]
<1> DEFINE i == WithFragment(r[s], f, body)
<1>1. IsItem(i) /\ i.block_idx = r[s].block_idx /\ i.fragment_to_send_idx = r[s].fragment_to_send_idx
  BY DEF IsItem, IsRing, WithFragment
<1>. QED  BY <1>1, Zenon DEF IsRing

(* What one call of send_packet() does to the output and to seq *)
LEMMA SendFacts ==
    ASSUME TypeOK, NEW s \in Slots, NEW f \in Nat, fec_k # None, send_packet(s, f)
    PROVE  /\ IsOutput(out') /\ seq' \in 0 .. SEQ_MODULUS - 1
           /\ Len(out) \in Nat /\ Len(out') = Len(out) + 1
           /\ \A i \in 1 .. Len(out) : out'[i] = out[i]
           /\ out'[Len(out) + 1].block = rx_ring[s].block_idx
           /\ out'[Len(out) + 1].frag = f
<1> DEFINE e == [block |-> rx_ring[s].block_idx, frag |-> f, body |-> Body(s, f), lost |-> LostBefore(s, f)]
<1>1. out' = Append(out, e) /\ seq' = packet_seq(s, f)
  BY Zenon DEF send_packet
<1>2. e.block = rx_ring[s].block_idx /\ e.frag = f /\ e.block \in Nat
  BY Zenon DEF TypeOK, IsRing, IsItem
<1>. HIDE DEF e
<1>3. packet_seq(s, f) \in 0 .. SEQ_MODULUS - 1
  <2>1. rx_ring[s].block_idx \in Nat /\ fec_k \in Nat
    BY Zenon DEF TypeOK, IsRing, IsItem
  <2>2. rx_ring[s].block_idx * fec_k + f \in Nat
    BY <2>1
  <2>. QED  BY <2>2, AggregatorConstants DEF packet_seq
<1>4. IsOutput(out)
  BY Zenon DEF TypeOK
<1>. QED  BY <1>1, <1>2, <1>3, <1>4, OutputAppend

-----------------------------------------------------------------------------
(* One step of process_packet() keeps the types: given where it works, the *)
(* ring operations stay inside the ring.                                    *)
LEMMA TypeStep ==
    ASSUME TypeOK, RingInvariant, [Next]_vars
    PROVE  TypeOK'
<1> USE AggregatorConstants
<1>f. rx_ring_front \in Slots
  BY Zenon DEF TypeOK
<1>h. \A c \in 0 .. RX_RING_SIZE : modN(rx_ring_front + c, RX_RING_SIZE) \in Slots
  BY <1>f, RingGeometry, Zenon
<1>g. modN(rx_ring_front + 1, RX_RING_SIZE) \in Slots
  BY <1>h
<1>t. \A p \in Packets : p.type = "data" => p.block \in Nat /\ p.frag \in Nat
  BY PacketsAssumption, Zenon
<1>s. \A p \in Packets : p.type = "session" => p.epoch \in Nat /\ p.k \in Nat /\ p.n \in Nat
  BY PacketsAssumption, Zenon
<1>r. \A s \in Slots : NextToSend(s) \in Nat
  BY Zenon DEF TypeOK, IsRing, IsItem, NextToSend
<1>1. ASSUME NEW p \in Packets, ProcessSession(p) PROVE TypeOK'
  <2>1. CASE p.key = session_key
    BY <1>1, <2>1, Zenon DEF ProcessSession, TypeOK, ring, locals
  <2>2. CASE p.key # session_key
    <3>1. IsRing(rx_ring') /\ IsOutput(out')
      BY <1>1, <2>2, RingReset, OutputEmpty, Zenon DEF ProcessSession, init_fec
    <3>. QED  BY <1>1, <1>s, <2>2, <3>1 DEF ProcessSession, SessionAccepted, init_fec, TypeOK, None, Slots, locals
  <2>. QED  BY <2>1, <2>2, Zenon
<1>2. ASSUME NEW p \in Packets, ProcessKnownBlock(p) PROVE TypeOK'
  <2>1. fec_k # None /\ ring_idx' \in Slots
    BY <1>2, <1>t, <1>h DEF ProcessKnownBlock, DataAccepted, TypeOK, None, Live
  <2>. QED  BY <1>2, <1>t, <2>1, Zenon DEF ProcessKnownBlock, TypeOK, session, ring
<1>3. ASSUME NEW p \in Packets, ProcessNewBlock(p) PROVE TypeOK'
  <2>1. fec_k # None
    BY <1>3, <1>t DEF ProcessNewBlock, DataAccepted, TypeOK, None
  <2>2. todo' \in 0 .. RX_RING_SIZE
    BY <1>3, <1>t DEF ProcessNewBlock, NewBlocks, TypeOK, None
  <2>. QED  BY <1>3, <1>t, <2>1, <2>2, Zenon DEF ProcessNewBlock, TypeOK, session
<1>a. ASSUME NEW s \in Slots, PushInto(s), pc \in {"push", "override"}
      PROVE  /\ IsRing(rx_ring') /\ todo' \in 0 .. RX_RING_SIZE /\ ring_idx' \in Slots
             /\ pc' \in {"push", "store"}
  <2>1. pkt.block + 1 - todo \in Nat /\ 1 <= todo
    BY <1>a DEF RingInvariant, RingOrdered, LocalsInRing, TypeOK
  <2>2. rx_ring' = [rx_ring EXCEPT ![s] = Item(pkt.block + 1 - todo)]
    BY <1>a, Zenon DEF PushInto
  <2>3. IsRing(rx_ring)
    BY Zenon DEF TypeOK
  <2>4. IsRing(rx_ring')
    BY <2>1, <2>2, <2>3, RingPut, Zenon
  <2>. QED  BY <1>a, <2>1, <2>4 DEF PushInto, TypeOK
<1>4. CASE RingPush
  <2>1. modN(rx_ring_front + rx_ring_alloc, RX_RING_SIZE) \in Slots
    BY <1>h, Zenon DEF TypeOK
  <2>. QED  BY <1>4, <1>a, <2>1 DEF RingPush, TypeOK, session
<1>5. CASE RingOverflow
  BY <1>5, <1>f, <1>r, Zenon DEF RingOverflow, TypeOK, session, ring, NextToSend
<1>6. CASE FlushFragment
  <2>1. CASE Has(rx_ring_front, f_idx)
    <3>1. IsOutput(out') /\ seq' \in 0 .. SEQ_MODULUS - 1
      BY <1>6, <1>f, <2>1, SendFacts, Zenon DEF FlushFragment, TypeOK
    <3>. QED  BY <1>6, <3>1 DEF FlushFragment, TypeOK, session, ring
  <2>2. CASE ~Has(rx_ring_front, f_idx)
    BY <1>6, <2>2 DEF FlushFragment, TypeOK, session, ring
  <2>. QED  BY <2>1, <2>2, Zenon
<1>7. CASE RingOverride
  BY <1>7, <1>a, <1>f, <1>g, Zenon DEF RingOverride, TypeOK, session
<1>8. CASE DuplicateFragment
  BY <1>8 DEF DuplicateFragment, Return, TypeOK, session, ring
<1>9. CASE StoreFragment
  <2>1. ring_idx \in Slots
    BY <1>9, <1>h DEF StoreFragment, RingInvariant, LocalsInRing, SlotOf, TypeOK
  <2>2. IsRing(rx_ring')
    BY <1>9, <2>1, RingStored, Zenon DEF StoreFragment, TypeOK
  <2>. QED  BY <1>9, <2>2, Zenon DEF StoreFragment, TypeOK, session, locals
<1>10. CASE SendInOrder
  <2>1. ring_idx \in Slots /\ IsRing(rx_ring)
    BY <1>10, <1>f, Zenon DEF SendInOrder, RingInvariant, LocalsInRing, TypeOK
  <2>2. IsRing(rx_ring')
    BY <1>10, <2>1, RingSent, Zenon DEF SendInOrder
  <2>3. IsOutput(out') /\ seq' \in 0 .. SEQ_MODULUS - 1
    BY <1>10, <1>r, <2>1, SendFacts, Zenon DEF SendInOrder, TypeOK
  <2>. QED  BY <1>10, <2>2, <2>3, Zenon DEF SendInOrder, TypeOK, session, locals
<1>11. CASE AllSentInOrder
  BY <1>11, <1>g DEF AllSentInOrder, RemoveFront, Return, RingInvariant, LocalsInRing, TypeOK, session
<1>12. CASE GapFound
  BY <1>12, Zenon DEF GapFound, TypeOK, session, ring, locals
<1>13. CASE StartRecovery
  <2>1. PICK c \in 0 .. rx_ring_alloc - 1 : ring_idx = SlotOf(c)
    BY <1>13, Zenon DEF StartRecovery, RingInvariant, LocalsInRing
  <2>2. nrm' \in 0 .. RX_RING_SIZE - 1
    BY <1>13, <1>f, <2>1, RingGeometry, SMTT(60) DEF StartRecovery, SlotOf, TypeOK
  <2>. QED  BY <1>13, <1>f, <1>r, <2>2, Zenon DEF StartRecovery, TypeOK, session, ring
<1>14. CASE KeepWaiting
  BY <1>14 DEF KeepWaiting, Return, TypeOK, session, ring
<1>15. CASE FlushedBlock
  BY <1>15, <1>g, <1>r DEF FlushedBlock, RemoveFront, RingInvariant, LocalsInRing, TypeOK, session
<1>16. CASE SendRecovered
  <2>1. ring_idx \in Slots /\ IsRing(rx_ring)
    BY <1>16, <1>h DEF SendRecovered, RingInvariant, LocalsInRing, SlotOf, TypeOK
  <2>2. IsRing(rx_ring')
    BY <1>16, <2>1, RingSent, Zenon DEF SendRecovered
  <2>3. IsOutput(out') /\ seq' \in 0 .. SEQ_MODULUS - 1
    BY <1>16, <1>r, <2>1, SendFacts, Zenon DEF SendRecovered, TypeOK
  <2>. QED  BY <1>16, <2>2, <2>3, Zenon DEF SendRecovered, TypeOK, session, locals
<1>17. CASE RecoveredBlock
  BY <1>17, <1>g DEF RecoveredBlock, RemoveFront, Return, RingInvariant, LocalsInRing, TypeOK, session
<1>18. CASE UNCHANGED vars
  BY <1>18, Zenon DEF vars, session, ring, locals, TypeOK
<1>. QED
  BY <1>1, <1>2, <1>3, <1>4, <1>5, <1>6, <1>7, <1>8, <1>9, <1>10, <1>11, <1>12, <1>13,
     <1>14, <1>15, <1>16, <1>17, <1>18, Zenon DEF Next, Continue, ProcessPacket

-----------------------------------------------------------------------------
(* What the ring operations do to the blocks, counted from the oldest one. *)

(* removing the oldest block renumbers the others *)
LEMMA RemoveShifts ==
    ASSUME TypeOK, RemoveFront
    PROVE  \A c \in 0 .. RX_RING_SIZE - 1 :
              /\ SlotOf(c)' = SlotOf(c + 1)
              /\ BlockAt(c)' = BlockAt(c + 1)
              /\ SentAt(c)' = SentAt(c + 1)
<1>. SUFFICES ASSUME NEW c \in 0 .. RX_RING_SIZE - 1 PROVE SlotOf(c)' = SlotOf(c + 1)
  BY Zenon DEF RemoveFront, BlockAt, SentAt, NextToSend
<1>1. rx_ring_front \in Slots
  BY Zenon DEF TypeOK
<1>. QED  BY <1>1, RingGeometry DEF RemoveFront, SlotOf

(* a push into a free slot adds one block at the end *)
LEMMA PushAdds ==
    ASSUME TypeOK, RingInvariant, RingPush, NEW n, n = rx_ring_alloc
    PROVE  /\ \A c \in 0 .. n - 1 : BlockAt(c)' = BlockAt(c) /\ SentAt(c)' = SentAt(c)
           /\ BlockAt(n)' = pkt.block + 1 - todo
           /\ SentAt(n)' = 0
           /\ ring_idx' = SlotOf(n)'
<1>1. rx_ring_front \in Slots /\ IsRing(rx_ring) /\ n \in 0 .. RX_RING_SIZE - 1
  BY AggregatorConstants DEF TypeOK, RingPush
<1>2. pkt.block + 1 - todo \in Nat
  BY DEF RingPush, RingInvariant, LocalsInRing, TypeOK
<1>3. \A c \in 0 .. n : SlotOf(c) \in Slots /\ SlotOf(c)' = SlotOf(c)
  BY <1>1, RingGeometry, AggregatorConstants DEF SlotOf, RingPush
<1>4. \A c \in 0 .. n - 1 : SlotOf(c) # SlotOf(n)
  BY <1>1, RingGeometry, AggregatorConstants DEF SlotOf
<1>5. rx_ring' = [rx_ring EXCEPT ![SlotOf(n)] = Item(pkt.block + 1 - todo)] /\ ring_idx' = SlotOf(n)
  BY Zenon DEF RingPush, PushInto, SlotOf
<1>6. SlotOf(n) \in Slots /\ SlotOf(n)' = SlotOf(n)
  BY <1>1, <1>3
<1>7. /\ rx_ring'[SlotOf(n)].block_idx = pkt.block + 1 - todo
      /\ rx_ring'[SlotOf(n)].fragment_to_send_idx = 0
      /\ \A t \in Slots \ {SlotOf(n)} : rx_ring'[t] = rx_ring[t]
  BY <1>1, <1>2, <1>5, <1>6, RingPut
<1>8. \A c \in 0 .. n - 1 : SlotOf(c)' = SlotOf(c) /\ rx_ring'[SlotOf(c)] = rx_ring[SlotOf(c)]
  BY <1>1, <1>3, <1>4, <1>7
<1>. QED  BY <1>5, <1>6, <1>7, <1>8, Zenon DEF BlockAt, SentAt, NextToSend

(* a push into a full ring drops the oldest block and adds one at the end *)
LEMMA OverrideShifts ==
    ASSUME TypeOK, RingInvariant, RingOverride
    PROVE  /\ \A c \in 0 .. RX_RING_SIZE - 2 : BlockAt(c)' = BlockAt(c + 1) /\ SentAt(c)' = SentAt(c + 1)
           /\ BlockAt(RX_RING_SIZE - 1)' = pkt.block + 1 - todo
           /\ SentAt(RX_RING_SIZE - 1)' = 0
           /\ ring_idx' = SlotOf(RX_RING_SIZE - 1)'
<1>1. rx_ring_front \in Slots /\ IsRing(rx_ring) /\ RX_RING_SIZE \in Nat \ {0}
  BY AggregatorConstants, Zenon DEF TypeOK
<1>2. pkt.block + 1 - todo \in Nat
  BY DEF RingOverride, RingInvariant, LocalsInRing, TypeOK
<1>3. \A c \in 0 .. RX_RING_SIZE - 1 : SlotOf(c)' = SlotOf(c + 1)
  BY <1>1, RingGeometry DEF SlotOf, RingOverride
<1>4. \A c \in 0 .. RX_RING_SIZE : SlotOf(c) \in Slots
  BY <1>1, RingGeometry, Zenon DEF SlotOf
<1>5. \A c \in 1 .. RX_RING_SIZE - 1 : SlotOf(c) # rx_ring_front
  <2>1. rx_ring_front + 0 = rx_ring_front /\ 0 \in 0 .. RX_RING_SIZE - 1
    BY <1>1 DEF Slots
  <2>2. SlotOf(0) = rx_ring_front
    BY <1>1, <2>1, RingGeometry, Zenon DEF SlotOf
  <2>3. \A c \in 1 .. RX_RING_SIZE - 1 : SlotOf(c) # SlotOf(0)
    BY <1>1, <2>1, RingGeometry DEF SlotOf
  <2>. QED  BY <2>2, <2>3, Zenon
<1>6. SlotOf(RX_RING_SIZE) = rx_ring_front
  BY <1>1, RingGeometry, Zenon DEF SlotOf
<1>7. rx_ring' = [rx_ring EXCEPT ![rx_ring_front] = Item(pkt.block + 1 - todo)] /\ ring_idx' = rx_ring_front
  BY Zenon DEF RingOverride, PushInto
<1>. HIDE DEF SlotOf
<1>. QED  BY <1>1, <1>2, <1>3, <1>4, <1>5, <1>6, <1>7, RingPut DEF BlockAt, SentAt, NextToSend

(* position 0 is the front, and the ring holds numbers *)
LEMMA RingPositions ==
    ASSUME TypeOK
    PROVE  /\ SlotOf(0) = rx_ring_front
           /\ \A c \in 0 .. RX_RING_SIZE : SlotOf(c) \in Slots /\ BlockAt(c) \in Nat /\ SentAt(c) \in Nat
           /\ \A c \in 1 .. RX_RING_SIZE - 1 : SlotOf(c) # rx_ring_front
<1>1. rx_ring_front \in Slots /\ RX_RING_SIZE \in Nat \ {0}
  BY AggregatorConstants, Zenon DEF TypeOK
<1>2. rx_ring_front + 0 = rx_ring_front /\ 0 \in 0 .. RX_RING_SIZE - 1
  BY <1>1 DEF Slots
<1>3. SlotOf(0) = rx_ring_front
  BY <1>1, <1>2, RingGeometry, Zenon DEF SlotOf
<1>4. \A c \in 1 .. RX_RING_SIZE - 1 : SlotOf(c) # SlotOf(0)
  BY <1>1, <1>2, RingGeometry DEF SlotOf
<1>5. \A c \in 0 .. RX_RING_SIZE : SlotOf(c) \in Slots
  BY <1>1, RingGeometry, Zenon DEF SlotOf
<1>6. \A c \in 0 .. RX_RING_SIZE : BlockAt(c) \in Nat /\ SentAt(c) \in Nat
  BY <1>5, Zenon DEF BlockAt, SentAt, NextToSend, TypeOK, IsRing, IsItem
<1>. QED  BY <1>3, <1>4, <1>5, <1>6, Zenon

(* sending the next fragment of the oldest block moves its cursor only *)
LEMMA SentMovesCursor ==
    ASSUME TypeOK, rx_ring_front' = rx_ring_front,
           rx_ring' = [rx_ring EXCEPT ![rx_ring_front].fragment_to_send_idx = @ + 1]
    PROVE  /\ \A c \in 0 .. RX_RING_SIZE - 1 : BlockAt(c)' = BlockAt(c)
           /\ SentAt(0)' = SentAt(0) + 1
           /\ \A c \in 1 .. RX_RING_SIZE - 1 : SentAt(c)' = SentAt(c)
<1>1. rx_ring_front \in Slots /\ IsRing(rx_ring) /\ RX_RING_SIZE \in Nat \ {0}
  BY AggregatorConstants, Zenon DEF TypeOK
<1>2. /\ rx_ring'[rx_ring_front].block_idx = rx_ring[rx_ring_front].block_idx
      /\ rx_ring'[rx_ring_front].fragment_to_send_idx = rx_ring[rx_ring_front].fragment_to_send_idx + 1
      /\ \A t \in Slots \ {rx_ring_front} : rx_ring'[t] = rx_ring[t]
  BY <1>1, RingSent
<1>3. \A c : SlotOf(c)' = SlotOf(c)
  BY Zenon DEF SlotOf
<1>4. \A c \in 1 .. RX_RING_SIZE - 1 : rx_ring'[SlotOf(c)] = rx_ring[SlotOf(c)]
  BY <1>1, <1>2, RingPositions
<1>5. \A c \in 0 .. RX_RING_SIZE - 1 : c = 0 \/ c \in 1 .. RX_RING_SIZE - 1
  BY <1>1
<1>. QED  BY <1>2, <1>3, <1>4, <1>5, RingPositions DEF BlockAt, SentAt, NextToSend

(* storing a fragment moves nothing *)
LEMMA StoreKeepsOrder ==
    ASSUME TypeOK, StoreFragment, ring_idx \in Slots
    PROVE  \A c \in 0 .. RX_RING_SIZE - 1 : BlockAt(c)' = BlockAt(c) /\ SentAt(c)' = SentAt(c)
<1>1. IsRing(rx_ring) /\ RX_RING_SIZE \in Nat \ {0}
  BY AggregatorConstants, Zenon DEF TypeOK
<1>2. rx_ring' = [rx_ring EXCEPT ![ring_idx] = WithFragment(@, pkt.frag, pkt.body)]
  BY Zenon DEF StoreFragment
<1>3. /\ rx_ring'[ring_idx].block_idx = rx_ring[ring_idx].block_idx
      /\ rx_ring'[ring_idx].fragment_to_send_idx = rx_ring[ring_idx].fragment_to_send_idx
      /\ \A t \in Slots \ {ring_idx} : rx_ring'[t] = rx_ring[t]
  BY <1>1, <1>2, RingStored
<1>4. \A c : SlotOf(c)' = SlotOf(c)
  BY Zenon DEF SlotOf, StoreFragment
<1>5. \A c \in 0 .. RX_RING_SIZE - 1 : SlotOf(c) \in Slots
  BY <1>1, RingPositions
<1>. QED  BY <1>3, <1>4, <1>5, Zenon DEF BlockAt, SentAt, NextToSend

-----------------------------------------------------------------------------
(* Every step keeps the ring in order and the output behind it. *)
LEMMA RingStep ==
    ASSUME TypeOK, TypeOK', RingInvariant, [Next]_vars
    PROVE  RingInvariant'
<1> USE AggregatorConstants
<1>o. RingOrdered /\ LocalsInRing
  BY Zenon DEF RingInvariant
<1>s. \A c, d \in 0 .. rx_ring_alloc - 1 : c < d => BlockAt(c) < BlockAt(d)
  BY <1>o, Zenon DEF RingOrdered
<1>b. \A c \in 0 .. rx_ring_alloc - 1 : BlockAt(c) < Frontier
  BY <1>o, Zenon DEF RingOrdered
<1>c. \A c \in 1 .. rx_ring_alloc - 1 : SentAt(c) = 0
  BY <1>o, Zenon DEF RingOrdered
<1>d. \A i \in 1 .. Len(out) : out[i].block < Frontier
  BY <1>o, Zenon DEF RingOrdered
<1>g. \A i \in 1 .. Len(out), c \in 1 .. rx_ring_alloc - 1 : out[i].block < BlockAt(c)
  BY <1>o, Zenon DEF RingOrdered
<1>h. rx_ring_alloc > 0 => \A i \in 1 .. Len(out) : Before(out[i], [block |-> BlockAt(0), frag |-> Cursor])
  BY <1>o, Zenon DEF RingOrdered
<1>p. /\ SlotOf(0) = rx_ring_front
      /\ \A c \in 0 .. RX_RING_SIZE : SlotOf(c) \in Slots /\ BlockAt(c) \in Nat /\ SentAt(c) \in Nat
  BY RingPositions, Zenon
<1>l. Len(out) \in Nat /\ \A i \in 1 .. Len(out) : out[i].block \in Nat /\ out[i].frag \in Nat
  BY SMTT(60) DEF TypeOK, IsOutput
<1>n. rx_ring_alloc \in 0 .. RX_RING_SIZE
  BY Zenon DEF TypeOK
<1>f. Frontier \in Nat /\ Frontier' \in Int
  BY <1>o DEF Frontier, LocalsInRing, TypeOK, None
<1>k. \A p \in Packets : p.type = "data" => p.block \in Nat /\ p.frag \in Nat
  BY PacketsAssumption, Zenon
<1>i. ASSUME UNCHANGED <<rx_ring, rx_ring_front>>
      PROVE  \A c : BlockAt(c)' = BlockAt(c) /\ SentAt(c)' = SentAt(c) /\ SlotOf(c)' = SlotOf(c)
  BY <1>i, Zenon DEF BlockAt, SentAt, SlotOf, NextToSend
<1>u. ASSUME \A c \in 0 .. RX_RING_SIZE - 1 : BlockAt(c)' = BlockAt(c) /\ SentAt(c)' = SentAt(c),
             UNCHANGED <<rx_ring_alloc, out, Cursor>>, Frontier <= Frontier'
      PROVE  RingOrdered'
  <2>1. \A c \in 0 .. rx_ring_alloc - 1 : BlockAt(c)' = BlockAt(c) /\ SentAt(c)' = SentAt(c)
    BY <1>u, <1>n
  <2>2. rx_ring_alloc > 0 => BlockAt(0)' = BlockAt(0)
    BY <2>1, <1>n, SMTT(60)
  <2>3. \A c \in 0 .. rx_ring_alloc - 1 : BlockAt(c) < Frontier'
    BY <1>u, <1>b, <1>f, <1>p, <1>n, SMTT(60)
  <2>4. \A j \in 1 .. Len(out) : out[j].block < Frontier'
    BY <1>u, <1>d, <1>f, <1>l, SMTT(60)
  <2>. QED  BY <1>u, <1>o, <1>n, <2>1, <2>2, <2>3, <2>4 DEF RingOrdered
<1>e. ASSUME rx_ring_alloc > 0, UNCHANGED <<rx_ring_alloc, Frontier>>,
             \A c \in 0 .. RX_RING_SIZE - 1 : BlockAt(c)' = BlockAt(c),
             \A c \in 1 .. RX_RING_SIZE - 1 : SentAt(c)' = SentAt(c),
             Len(out') = Len(out) + 1,
             \A i \in 1 .. Len(out) : out'[i] = out[i],
             out'[Len(out) + 1].block = BlockAt(0), out'[Len(out) + 1].frag = Cursor,
             Cursor \in Nat, Cursor' = Cursor + 1
      PROVE  RingOrdered'
  <2>1. BlockAt(0)' = BlockAt(0) /\ \A c \in 0 .. rx_ring_alloc - 1 : BlockAt(c)' = BlockAt(c)
    BY <1>e, <1>n
  <2>2. \A c \in 1 .. rx_ring_alloc - 1 : SentAt(c)' = SentAt(c)
    BY <1>e, <1>n
  <2>3. \A i \in 1 .. Len(out') : i \in 1 .. Len(out) \/ i = Len(out) + 1
    BY <1>e, <1>l, SMTT(60)
  <2>4. \A i \in 1 .. Len(out') : out'[i].block < Frontier'
    BY <1>e, <1>b, <1>d, <1>n, <2>3, SMTT(60)
  <2>5. \A i \in 1 .. Len(out'), c \in 1 .. rx_ring_alloc - 1 : out'[i].block < BlockAt(c)
    BY <1>e, <1>s, <1>g, <1>n, <2>3, SMTT(60)
  <2>6. \A i \in 1 .. Len(out') : Before(out'[i], [block |-> BlockAt(0), frag |-> Cursor'])
    BY <1>e, <1>h, <1>l, <2>3, SMTT(60) DEF Before
  <2>. QED  BY <1>e, <1>o, <1>n, <2>1, <2>2, <2>4, <2>5, <2>6, SMTT(60) DEF RingOrdered
<1>r. ASSUME RemoveFront, rx_ring_alloc > 0, UNCHANGED <<out, Frontier>>, Cursor' = SentAt(1)
      PROVE  RingOrdered'
  <2>1. \A c \in 0 .. RX_RING_SIZE - 1 : BlockAt(c)' = BlockAt(c + 1) /\ SentAt(c)' = SentAt(c + 1)
    BY <1>r, RemoveShifts, Zenon
  <2>2. \A c \in 0 .. rx_ring_alloc' - 1 : /\ BlockAt(c)' = BlockAt(c + 1) /\ SentAt(c)' = SentAt(c + 1)
                                          /\ c + 1 \in 1 .. rx_ring_alloc - 1
    BY <1>r, <1>n, <2>1, SMTT(60) DEF RemoveFront
  <2>3. rx_ring_alloc' > 0 => /\ BlockAt(0)' = BlockAt(1) /\ Cursor' = 0
                              /\ \A i \in 1 .. Len(out) : out[i].block < BlockAt(1)
    BY <1>r, <1>c, <1>g, <1>n, <2>2, SMTT(60) DEF RemoveFront
  <2>4. \A c, d \in 0 .. rx_ring_alloc' - 1 : c < d => BlockAt(c + 1) < BlockAt(d + 1)
    BY <1>s, <1>n, <2>2
  <2>. QED  BY <1>r, <1>o, <1>n, <2>2, <2>3, <2>4 DEF RingOrdered, Before
<1>1. ASSUME NEW p \in Packets, ProcessSession(p) PROVE RingInvariant'
  <2>1. CASE p.key = session_key
    BY <1>1, <1>i, <1>u, <1>f, <1>o, <2>1, SMTT(60)
    DEF ProcessSession, RingInvariant, LocalsInRing, Frontier, Cursor, ring, locals
  <2>2. CASE p.key # session_key
    BY <1>1, <2>2 DEF ProcessSession, init_fec, RingInvariant, RingOrdered, LocalsInRing, locals
  <2>. QED  BY <2>1, <2>2, Zenon
<1>2. ASSUME NEW p \in Packets, ProcessKnownBlock(p) PROVE RingInvariant'
  <2>1. \E c \in 0 .. rx_ring_alloc - 1 : ring_idx' = SlotOf(c)
    BY <1>2, Zenon DEF ProcessKnownBlock, Live, SlotOf
  <2>2. UNCHANGED <<rx_ring, rx_ring_front, rx_ring_alloc, out>>
    BY <1>2, Zenon DEF ProcessKnownBlock, ring
  <2>3. Frontier' = Frontier /\ Cursor' = Cursor
    BY <1>2, <1>i, <2>2, Zenon DEF ProcessKnownBlock, Frontier, Cursor, ring
  <2>4. RingOrdered'
    BY <1>i, <1>u, <1>f, <2>2, <2>3, SMTT(60)
  <2>5. LocalsInRing'
    BY <1>2, <1>i, <2>1, <2>2, ZenonT(60) DEF ProcessKnownBlock, LocalsInRing
  <2>. QED  BY <2>4, <2>5, Zenon DEF RingInvariant
<1>3. ASSUME NEW p \in Packets, ProcessNewBlock(p) PROVE RingInvariant'
  <2>1. 1 <= todo' /\ todo' <= p.block + 1 /\ Frontier <= Frontier'
    <3>1. /\ pc = "idle" /\ pc' = "push" /\ pkt' = p /\ last_known_block' = p.block
          /\ last_known_block = None \/ p.block > last_known_block
          /\ todo' = NewBlocks(p.block) /\ p.block \in Nat
      BY <1>3, <1>k, Zenon DEF ProcessNewBlock
    <3>2. last_known_block \in Nat \cup {None}
      BY Zenon DEF TypeOK
    <3>3. Frontier = last_known_block + 1 /\ Frontier' = p.block + 1 - todo'
      BY <3>1, Zenon DEF Frontier
    <3> DEFINE b == p.block
               t == todo'
    <3>4. 1 <= t /\ t <= b + 1 /\ last_known_block + 1 <= b + 1 - t
      BY <3>1, <3>2 DEF NewBlocks, None
    <3>. QED  BY <3>3, <3>4, Zenon
  <2>2. UNCHANGED <<rx_ring, rx_ring_front, rx_ring_alloc, out>>
    BY <1>3, Zenon DEF ProcessNewBlock
  <2>3. Cursor' = Cursor
    BY <1>3, <1>i, <2>2, Zenon DEF ProcessNewBlock, Cursor
  <2>4. RingOrdered'
    BY <1>i, <1>u, <2>1, <2>2, <2>3, Zenon
  <2>5. LocalsInRing'
    BY <1>3, <2>1, Zenon DEF ProcessNewBlock, LocalsInRing
  <2>. QED  BY <2>4, <2>5, Zenon DEF RingInvariant
<1>q. ASSUME NEW s, PushInto(s), pc \in {"push", "override"}, UNCHANGED <<pkt, last_known_block>>
      PROVE  /\ Frontier = pkt.block + 1 - todo /\ Frontier' = Frontier + 1
             /\ pc' = "push" => 1 <= todo' /\ todo' <= pkt'.block + 1 /\ last_known_block' = pkt'.block
  <2>1. pkt.block \in Nat /\ todo \in Nat /\ 1 <= todo /\ todo <= pkt.block + 1 /\ last_known_block = pkt.block
    BY <1>q, <1>o DEF LocalsInRing, TypeOK
  <2>2. CASE todo = 1
    BY <1>q, <2>1, <2>2 DEF PushInto, Frontier
  <2>3. CASE todo # 1
    BY <1>q, <2>1, <2>3 DEF PushInto, Frontier
  <2>. QED  BY <2>2, <2>3, Zenon
<1>4. CASE RingPush
  <2>2. /\ Frontier = pkt.block + 1 - todo /\ Frontier' = Frontier + 1
        /\ pc' = "push" => 1 <= todo' /\ todo' <= pkt'.block + 1 /\ last_known_block' = pkt'.block
    BY <1>4, <1>q, Zenon DEF RingPush
  <2>. SUFFICES ASSUME NEW m, m = rx_ring_alloc PROVE RingInvariant'
    BY Zenon
  <2>1. m \in 0 .. RX_RING_SIZE - 1 /\ rx_ring_alloc' = m + 1 /\ out' = out
    BY <1>4, <1>n DEF RingPush
  <2>3. /\ \A c \in 0 .. m - 1 : BlockAt(c)' = BlockAt(c) /\ SentAt(c)' = SentAt(c)
        /\ BlockAt(m)' = Frontier /\ SentAt(m)' = 0 /\ ring_idx' = SlotOf(m)'
    BY <1>4, <2>2, PushAdds, Zenon
  <2>4. \A c \in 0 .. rx_ring_alloc' - 1 : c \in 0 .. m - 1 \/ c = m
    BY <2>1, SMTT(60)
  <2>5. \A c, d \in 0 .. rx_ring_alloc' - 1 : c < d => BlockAt(c)' < BlockAt(d)'
    BY <1>s, <1>b, <2>1, <2>3, <2>4
  <2>6. \A c \in 0 .. rx_ring_alloc' - 1 : BlockAt(c)' < Frontier'
    <3>. SUFFICES ASSUME NEW c \in 0 .. rx_ring_alloc' - 1 PROVE BlockAt(c)' < Frontier'
      BY Zenon
    <3>1. CASE c \in 0 .. m - 1
      <4>1. BlockAt(c) \in Nat /\ BlockAt(c) < Frontier
        BY <1>b, <1>n, <1>p, <3>1
      <4>. QED  BY <1>f, <2>2, <2>3, <3>1, <4>1, SMTT(60)
    <3>2. CASE c = m
      BY <1>f, <2>2, <2>3, <3>2, SMTT(60)
    <3>. QED  BY <2>4, <3>1, <3>2, Zenon
  <2>7. \A c \in 1 .. rx_ring_alloc' - 1 : SentAt(c)' = 0
    BY <1>c, <2>1, <2>3, <2>4, SMTT(60)
  <2>8. \A i \in 1 .. Len(out) : out[i].block < Frontier'
    BY <1>d, <1>l, <1>f, <2>2, SMTT(60)
  <2>9. \A i \in 1 .. Len(out), c \in 1 .. rx_ring_alloc' - 1 : out[i].block < BlockAt(c)'
    BY <1>d, <1>g, <2>1, <2>3, <2>4, SMTT(60)
  <2>10. \A i \in 1 .. Len(out) : Before(out[i], [block |-> BlockAt(0)', frag |-> Cursor'])
    <3>1. CASE m = 0
      BY <1>d, <2>3, <3>1, Zenon DEF Before
    <3>2. CASE m > 0
      <4>1. Cursor' = Cursor /\ BlockAt(0)' = BlockAt(0)
        BY <1>4, <1>n, <2>3, <3>2, SMTT(60) DEF RingPush, PushInto, Cursor
      <4>. QED  BY <1>h, <3>2, <4>1, Zenon
    <3>. QED  BY <1>n, <3>1, <3>2, SMTT(60)
  <2>11. RingOrdered'
    BY <2>1, <2>5, <2>6, <2>7, <2>8, <2>9, <2>10, Zenon DEF RingOrdered
  <2>12. LocalsInRing'
    BY <1>4, <2>1, <2>2, <2>3, SMTT(60) DEF RingPush, PushInto, LocalsInRing
  <2>. QED  BY <2>11, <2>12, Zenon DEF RingInvariant
<1>5. CASE RingOverflow
  <2>1. UNCHANGED <<rx_ring, rx_ring_front, rx_ring_alloc, out>>
    BY <1>5, Zenon DEF RingOverflow, ring
  <2>2. Frontier' = Frontier /\ Cursor' = Cursor
    BY <1>5, <1>i, <1>p, <2>1, Zenon DEF RingOverflow, Frontier, Cursor, ring, SentAt, NextToSend
  <2>3. RingOrdered'
    BY <1>i, <1>u, <1>f, <2>1, <2>2
  <2>. QED  BY <1>5, <1>o, <2>3, Zenon DEF RingOverflow, RingInvariant, LocalsInRing, ring
<1>6. CASE FlushFragment
  <2>1. UNCHANGED <<rx_ring, rx_ring_front, rx_ring_alloc, pc, last_known_block, pkt, todo, nrm>>
    BY <1>6, Zenon DEF FlushFragment, ring
  <2>2. Frontier' = Frontier /\ Cursor = f_idx /\ Cursor' = f_idx + 1 /\ rx_ring_alloc > 0 /\ f_idx \in Nat
    BY <1>6, <1>o, <1>n, <2>1 DEF FlushFragment, Frontier, Cursor, LocalsInRing, TypeOK
  <2>3. RingOrdered'
    <3>1. CASE Has(rx_ring_front, f_idx)
      <4>1. send_packet(rx_ring_front, f_idx) /\ fec_k # None /\ rx_ring_front \in Slots
        BY <1>6, <3>1, Zenon DEF FlushFragment, TypeOK
      <4>2. /\ Len(out') = Len(out) + 1
            /\ \A i \in 1 .. Len(out) : out'[i] = out[i]
            /\ out'[Len(out) + 1].block = BlockAt(0) /\ out'[Len(out) + 1].frag = f_idx
        BY <1>p, <2>2, <4>1, SendFacts, Zenon DEF BlockAt
      <4>. QED  BY <1>e, <1>i, <2>1, <2>2, <4>2, Zenon
    <3>2. CASE ~Has(rx_ring_front, f_idx)
      <4>1. out' = out
        BY <1>6, <3>2, Zenon DEF FlushFragment
      <4>2. \A j \in 1 .. Len(out) : Before(out[j], [block |-> BlockAt(0), frag |-> f_idx + 1])
        BY <1>h, <1>l, <2>2, BeforeNext, Zenon
      <4>. QED  BY <1>i, <1>o, <2>1, <2>2, <4>1, <4>2, ZenonT(60) DEF RingOrdered
    <3>. QED  BY <3>1, <3>2, Zenon
  <2>4. LocalsInRing'
    BY <1>6, <1>i, <1>o, <2>1, Zenon DEF FlushFragment, LocalsInRing
  <2>. QED  BY <2>3, <2>4, Zenon DEF RingInvariant
<1>7. CASE RingOverride
  <2> DEFINE N == RX_RING_SIZE
  <2>1. rx_ring_alloc = N /\ rx_ring_alloc' = N /\ out' = out /\ N \in Nat \ {0}
    BY <1>7, <1>o, Zenon DEF RingOverride, LocalsInRing
  <2>2. /\ Frontier = pkt.block + 1 - todo /\ Frontier' = Frontier + 1
        /\ pc' = "push" => 1 <= todo' /\ todo' <= pkt'.block + 1 /\ last_known_block' = pkt'.block
    BY <1>7, <1>q, Zenon DEF RingOverride
  <2>3. /\ \A c \in 0 .. N - 2 : BlockAt(c)' = BlockAt(c + 1) /\ SentAt(c)' = SentAt(c + 1)
        /\ BlockAt(N - 1)' = Frontier /\ SentAt(N - 1)' = 0 /\ ring_idx' = SlotOf(N - 1)'
    BY <1>7, <2>2, OverrideShifts, Zenon
  <2>. HIDE DEF N
  <2>4. \A c \in 0 .. N - 1 : c = N - 1 \/ (c \in 0 .. N - 2 /\ c + 1 \in 1 .. N - 1)
    BY <2>1
  <2>5. \A c, d \in 0 .. N - 1 : c < d => BlockAt(c)' < BlockAt(d)'
    BY <1>s, <1>b, <2>1, <2>3, <2>4
  <2>6. \A c \in 0 .. N - 1 : BlockAt(c)' < Frontier'
    <3>. SUFFICES ASSUME NEW c \in 0 .. N - 1 PROVE BlockAt(c)' < Frontier'
      BY Zenon
    <3>1. CASE c \in 0 .. N - 2
      <4>1. BlockAt(c + 1) \in Nat /\ BlockAt(c + 1) < Frontier
        BY <1>b, <1>p, <2>1, <3>1 DEF N
      <4>. QED  BY <1>f, <2>2, <2>3, <3>1, <4>1, SMTT(60)
    <3>2. CASE c = N - 1
      BY <1>f, <2>2, <2>3, <3>2, SMTT(60)
    <3>. QED  BY <2>4, <3>1, <3>2, Zenon
  <2>7. \A c \in 0 .. N - 1 : SentAt(c)' = 0
    BY <1>c, <2>1, <2>3, <2>4, Zenon
  <2>8. \A i \in 1 .. Len(out) : out[i].block < Frontier'
    BY <1>d, <1>l, <1>f, <2>2, SMTT(60)
  <2>9. \A i \in 1 .. Len(out), c \in 0 .. N - 1 : out[i].block < BlockAt(c)'
    BY <1>d, <1>g, <2>1, <2>3, <2>4, Zenon
  <2>10. \A i \in 1 .. Len(out) : Before(out[i], [block |-> BlockAt(0)', frag |-> Cursor'])
    BY <2>1, <2>9, SMTT(60) DEF Before
  <2>11. RingOrdered'
    BY <2>1, <2>5, <2>6, <2>7, <2>8, <2>9, <2>10, SMTT(60) DEF RingOrdered
  <2>12. LocalsInRing'
    BY <1>7, <2>1, <2>2, <2>3 DEF RingOverride, PushInto, LocalsInRing
  <2>. QED  BY <2>11, <2>12, Zenon DEF RingInvariant
<1>8. CASE DuplicateFragment
  <2>1. UNCHANGED <<rx_ring, rx_ring_front, rx_ring_alloc, out>>
    BY <1>8, Zenon DEF DuplicateFragment, ring
  <2>2. Frontier' = Frontier /\ Cursor' = Cursor
    BY <1>8, <1>i, <2>1, Zenon DEF DuplicateFragment, Return, Frontier, Cursor, ring
  <2>3. RingOrdered'
    BY <1>i, <1>u, <1>f, <2>1, <2>2
  <2>4. LocalsInRing'
    BY <1>8, Zenon DEF DuplicateFragment, Return, LocalsInRing
  <2>. QED  BY <2>3, <2>4, Zenon DEF RingInvariant
<1>9. CASE StoreFragment
  <2>1. PICK c \in 0 .. rx_ring_alloc - 1 : ring_idx = SlotOf(c)
    BY <1>9, <1>o, Zenon DEF StoreFragment, LocalsInRing
  <2>2. ring_idx \in Slots
    BY <1>n, <1>p, <2>1
  <2>3. \A d \in 0 .. RX_RING_SIZE - 1 : BlockAt(d)' = BlockAt(d) /\ SentAt(d)' = SentAt(d)
    BY <1>9, <2>2, StoreKeepsOrder, Zenon
  <2>4. SlotOf(c)' = SlotOf(c) /\ rx_ring_alloc > 0
    BY <1>9, <1>n, <2>1 DEF StoreFragment, SlotOf
  <2>5. Frontier' = Frontier /\ Cursor' = Cursor
    BY <1>9, <2>3 DEF StoreFragment, Frontier, Cursor, locals
  <2>6. RingOrdered'
    BY <1>9, <1>u, <1>f, <2>3, <2>5, SMTT(60) DEF StoreFragment
  <2>7. LocalsInRing'
    BY <1>9, <2>1, <2>4, Zenon DEF StoreFragment, LocalsInRing, locals
  <2>. QED  BY <2>6, <2>7, Zenon DEF RingInvariant
<1>10. CASE SendInOrder
  <2>1. UNCHANGED <<rx_ring_front, rx_ring_alloc, pc, last_known_block, pkt, ring_idx, todo, nrm>>
    BY <1>10, Zenon DEF SendInOrder, locals
  <2>2. ring_idx = rx_ring_front /\ rx_ring_alloc > 0 /\ Cursor = SentAt(0) /\ SentAt(0) = NextToSend(ring_idx)
    BY <1>10, <1>o, <1>n, <1>p, Zenon DEF SendInOrder, Cursor, LocalsInRing, SentAt
  <2>3. /\ \A c \in 0 .. RX_RING_SIZE - 1 : BlockAt(c)' = BlockAt(c)
        /\ SentAt(0)' = SentAt(0) + 1
        /\ \A c \in 1 .. RX_RING_SIZE - 1 : SentAt(c)' = SentAt(c)
    BY <1>10, <2>1, <2>2, SentMovesCursor, Zenon DEF SendInOrder
  <2>4. Frontier' = Frontier /\ Cursor' = Cursor + 1 /\ Cursor \in Nat
    BY <1>10, <1>p, <2>1, <2>2, <2>3 DEF SendInOrder, Frontier, Cursor
  <2>5. send_packet(ring_idx, SentAt(0)) /\ fec_k # None /\ ring_idx \in Slots /\ SentAt(0) \in Nat
    BY <1>10, <1>p, <2>2, SMTT(60) DEF SendInOrder, TypeOK
  <2>6. /\ Len(out') = Len(out) + 1
        /\ \A i \in 1 .. Len(out) : out'[i] = out[i]
        /\ out'[Len(out) + 1].block = BlockAt(0) /\ out'[Len(out) + 1].frag = SentAt(0)
    BY <1>p, <2>2, <2>5, SendFacts, Zenon DEF BlockAt
  <2>7. RingOrdered'
    BY <1>e, <2>1, <2>2, <2>3, <2>4, <2>6, Zenon
  <2>8. LocalsInRing'
    BY <1>10, <1>o, <2>1, Zenon DEF SendInOrder, LocalsInRing, SlotOf
  <2>. QED  BY <2>7, <2>8, Zenon DEF RingInvariant
<1>11. CASE AllSentInOrder
  <2>1. rx_ring_alloc > 0 /\ RemoveFront /\ out' = out
    BY <1>11, <1>o, <1>n, Zenon DEF AllSentInOrder, LocalsInRing
  <2>2. Frontier' = Frontier /\ Cursor' = SentAt(1)
    BY <1>11, <2>1, RemoveShifts DEF AllSentInOrder, RemoveFront, Return, Frontier, Cursor
  <2>3. RingOrdered'
    BY <1>r, <2>1, <2>2, Zenon
  <2>. QED  BY <1>11, <2>3, Zenon DEF AllSentInOrder, Return, RingInvariant, LocalsInRing
<1>12. CASE GapFound
  <2>1. UNCHANGED <<rx_ring, rx_ring_front, rx_ring_alloc, out>>
    BY <1>12, Zenon DEF GapFound, ring
  <2>2. Frontier' = Frontier /\ Cursor' = Cursor
    BY <1>12, <1>i, <2>1, Zenon DEF GapFound, locals, Frontier, Cursor, ring
  <2>3. RingOrdered'
    BY <1>i, <1>u, <1>f, <2>1, <2>2
  <2>4. LocalsInRing'
    <3>1. 0 \in 0 .. rx_ring_alloc - 1 /\ ring_idx' = SlotOf(0)'
      BY <1>12, <1>i, <1>o, <1>n, <1>p, <2>1 DEF GapFound, LocalsInRing, locals
    <3>. QED  BY <1>12, <2>1, <3>1, Zenon DEF GapFound, LocalsInRing
  <2>. QED  BY <2>3, <2>4, Zenon DEF RingInvariant
<1>13. CASE StartRecovery
  <2>1. UNCHANGED <<rx_ring, rx_ring_front, rx_ring_alloc, out, ring_idx>>
    BY <1>13, Zenon DEF StartRecovery, ring
  <2>2. PICK c \in 0 .. rx_ring_alloc - 1 : ring_idx = SlotOf(c)
    BY <1>13, <1>o, Zenon DEF StartRecovery, LocalsInRing
  <2>3. nrm' = c
    <3>1. rx_ring_front \in Slots /\ c \in 0 .. RX_RING_SIZE - 1
      BY <1>n, SMTT(60) DEF TypeOK
    <3>. QED  BY <1>13, <2>2, <3>1, RingGeometry, Zenon DEF StartRecovery, SlotOf
  <2>4. Frontier' = Frontier /\ Cursor' = Cursor
    BY <1>13, <1>i, <1>p, <2>1, Zenon DEF StartRecovery, Frontier, Cursor, ring, SentAt
  <2>5. RingOrdered'
    BY <1>i, <1>u, <1>f, <2>1, <2>4
  <2>6. LocalsInRing'
    <3>1. ring_idx' = SlotOf(nrm)' /\ nrm' < rx_ring_alloc'
      BY <1>n, <2>1, <2>2, <2>3 DEF SlotOf
    <3>. QED  BY <1>13, <3>1, Zenon DEF StartRecovery, LocalsInRing
  <2>. QED  BY <2>5, <2>6, Zenon DEF RingInvariant
<1>14. CASE KeepWaiting
  <2>1. UNCHANGED <<rx_ring, rx_ring_front, rx_ring_alloc, out>>
    BY <1>14, Zenon DEF KeepWaiting, ring
  <2>2. Frontier' = Frontier /\ Cursor' = Cursor
    BY <1>14, <1>i, <2>1, Zenon DEF KeepWaiting, Return, Frontier, Cursor, ring
  <2>3. RingOrdered'
    BY <1>i, <1>u, <1>f, <2>1, <2>2
  <2>4. LocalsInRing'
    BY <1>14, Zenon DEF KeepWaiting, Return, LocalsInRing
  <2>. QED  BY <2>3, <2>4, Zenon DEF RingInvariant
<1>15. CASE FlushedBlock
  <2>1. RemoveFront /\ nrm \in Nat /\ nrm > 0 /\ nrm < rx_ring_alloc /\ out' = out /\ ring_idx = SlotOf(nrm)
    BY <1>15, <1>o DEF FlushedBlock, LocalsInRing, TypeOK
  <2>2. Frontier' = Frontier
    BY <1>15, Zenon DEF FlushedBlock, RemoveFront, Frontier
  <2>3. nrm' = nrm - 1 /\ f_idx' = SentAt(1) /\ SentAt(0)' = SentAt(1)
    BY <1>15, <2>1, RemoveShifts DEF FlushedBlock, SentAt, SlotOf
  <2>. SUFFICES ASSUME NEW m, m = nrm - 1 PROVE RingInvariant'
    BY Zenon
  <2>7. SlotOf(m)' = SlotOf(nrm)
    BY <1>n, <2>1, RemoveShifts, SMTT(60)
  <2>8. nrm' < rx_ring_alloc' /\ ring_idx' = SlotOf(nrm)'
    BY <1>15, <1>n, <2>1, <2>3, <2>7 DEF FlushedBlock, RemoveFront, SlotOf
  <2>4. Cursor' = SentAt(1)
    BY <1>15, <2>3, Zenon DEF FlushedBlock, Cursor
  <2>5. RingOrdered'
    BY <1>r, <1>n, <2>1, <2>2, <2>4
  <2>6. LocalsInRing'
    BY <1>15, <2>8, Zenon DEF FlushedBlock, LocalsInRing
  <2>. QED  BY <2>5, <2>6, Zenon DEF RingInvariant
<1>16. CASE SendRecovered
  <2>1. UNCHANGED <<rx_ring_front, rx_ring_alloc, pc, last_known_block, pkt, ring_idx, todo, nrm>>
    BY <1>16, Zenon DEF SendRecovered, locals
  <2>2. ring_idx = rx_ring_front /\ rx_ring_alloc > 0 /\ Cursor = SentAt(0) /\ SentAt(0) = NextToSend(ring_idx)
    BY <1>16, <1>o, <1>n, <1>p DEF SendRecovered, Cursor, LocalsInRing, SentAt
  <2>3. /\ \A c \in 0 .. RX_RING_SIZE - 1 : BlockAt(c)' = BlockAt(c)
        /\ SentAt(0)' = SentAt(0) + 1
        /\ \A c \in 1 .. RX_RING_SIZE - 1 : SentAt(c)' = SentAt(c)
    BY <1>16, <2>1, <2>2, SentMovesCursor, Zenon DEF SendRecovered
  <2>4. Frontier' = Frontier /\ Cursor' = Cursor + 1 /\ Cursor \in Nat
    BY <1>16, <1>p, <2>1, <2>2, <2>3 DEF SendRecovered, Frontier, Cursor
  <2>5. send_packet(ring_idx, SentAt(0)) /\ fec_k # None /\ ring_idx \in Slots /\ SentAt(0) \in Nat
    BY <1>16, <1>p, <2>2 DEF SendRecovered, TypeOK
  <2>6. /\ Len(out') = Len(out) + 1
        /\ \A i \in 1 .. Len(out) : out'[i] = out[i]
        /\ out'[Len(out) + 1].block = BlockAt(0) /\ out'[Len(out) + 1].frag = SentAt(0)
    BY <1>p, <2>2, <2>5, SendFacts, Zenon DEF BlockAt
  <2>7. RingOrdered'
    BY <1>e, <2>1, <2>2, <2>3, <2>4, <2>6, Zenon
  <2>8. LocalsInRing'
    BY <1>16, <1>o, <2>1, Zenon DEF SendRecovered, LocalsInRing, SlotOf
  <2>. QED  BY <2>7, <2>8, Zenon DEF RingInvariant
<1>17. CASE RecoveredBlock
  <2>1. rx_ring_alloc > 0 /\ RemoveFront /\ out' = out
    BY <1>17, <1>o, <1>n, Zenon DEF RecoveredBlock, LocalsInRing
  <2>2. Frontier' = Frontier /\ Cursor' = SentAt(1)
    BY <1>17, <2>1, RemoveShifts, SMTT(60) DEF RecoveredBlock, RemoveFront, Return, Frontier, Cursor
  <2>3. RingOrdered'
    BY <1>r, <2>1, <2>2, Zenon
  <2>. QED  BY <1>17, <2>3, Zenon DEF RecoveredBlock, Return, RingInvariant, LocalsInRing
<1>18. CASE UNCHANGED vars
  <2>1. UNCHANGED <<rx_ring, rx_ring_front, rx_ring_alloc, last_known_block, out, pc, pkt, ring_idx, todo, f_idx, nrm>>
    BY <1>18, ZenonT(60) DEF vars, ring, locals
  <2>2. RingOrdered'
    BY <1>i, <1>u, <1>f, <2>1 DEF Frontier, Cursor
  <2>. QED  BY <1>o, <2>1, <2>2, Zenon DEF RingInvariant, LocalsInRing, SlotOf
<1>. QED
  BY <1>1, <1>2, <1>3, <1>4, <1>5, <1>6, <1>7, <1>8, <1>9, <1>10, <1>11, <1>12, <1>13,
     <1>14, <1>15, <1>16, <1>17, <1>18, Zenon DEF Next, Continue, ProcessPacket

-----------------------------------------------------------------------------
(* The inductive invariant: types and ring together. *)
THEOREM Inductive == Spec => [](TypeOK /\ RingInvariant)
<1> DEFINE IInv == TypeOK /\ RingInvariant
<1>1. Init => IInv
  BY InitInv, Zenon
<1>2. IInv /\ [Next]_vars => IInv'
  BY TypeStep, RingStep, Zenon
<1>. QED  BY <1>1, <1>2, PTL DEF Spec

(* For any ring size and any packets, in any order and number, the state of *)
(* the Aggregator and the locals of process_packet() keep their types.      *)
THEOREM TypeCorrect == Spec => []TypeOK
  BY Inductive, PTL

(* In the middle of every loop of process_packet() the ring is sorted, what *)
(* was sent is behind it, and the loop works on a slot in use.              *)
THEOREM RingCorrect == Spec => []RingInvariant
  BY Inductive, PTL

(* No assert() on the ring in process_packet() can fail. *)
THEOREM AssertionsNeverFail == Spec => []RingAssertions
<1>1. TypeOK /\ RingInvariant => RingAssertions
  BY RingPositions DEF RingInvariant, LocalsInRing, RingAssertions, TypeOK
<1>. QED  BY <1>1, Inductive, PTL

-----------------------------------------------------------------------------
(* A fragment is sent only from the oldest block at the cursor, and that is *)
(* beyond everything sent before.                                            *)
LEMMA OutputStep ==
    ASSUME TypeOK, RingInvariant, OutputInOrder, [Next]_vars
    PROVE  OutputInOrder'
<1> USE AggregatorConstants
<1>o. RingOrdered /\ LocalsInRing
  BY Zenon DEF RingInvariant
<1>p. SlotOf(0) = rx_ring_front /\ SentAt(0) \in Nat
  BY RingPositions
<1>l. Len(out) \in Nat
  BY SMTT(60) DEF TypeOK, IsOutput
<1>e. ASSUME NEW s \in Slots, s = rx_ring_front, rx_ring_alloc > 0, pc # "idle",
             NEW f \in Nat, f = Cursor, send_packet(s, f)
      PROVE  OutputInOrder'
  <2>1. fec_k # None
    BY <1>e, Zenon DEF TypeOK
  <2>2. /\ Len(out') = Len(out) + 1
        /\ \A i \in 1 .. Len(out) : out'[i] = out[i]
        /\ out'[Len(out) + 1].block = BlockAt(0) /\ out'[Len(out) + 1].frag = Cursor
    BY <1>e, <1>p, <2>1, SendFacts, Zenon DEF BlockAt
  <2>3. \A i \in 1 .. Len(out) : Before(out[i], out'[Len(out) + 1])
    BY <1>e, <1>o, <2>2, Zenon DEF RingOrdered, Before
  <2>. SUFFICES ASSUME NEW i \in 1 .. Len(out'), NEW j \in 1 .. Len(out'), i < j
                PROVE  Before(out'[i], out'[j])
    BY Zenon DEF OutputInOrder, Before
  <2>4. CASE j = Len(out) + 1
    <3>1. i \in 1 .. Len(out)
      BY <1>l, <2>4, SMTT(60)
    <3>. QED  BY <2>2, <2>3, <2>4, <3>1, Zenon
  <2>5. CASE j \in 1 .. Len(out)
    <3>1. i \in 1 .. Len(out)
      BY <1>l, <2>5
    <3>. QED  BY <2>2, <2>5, <3>1, Zenon DEF OutputInOrder
  <2>. QED  BY <1>l, <2>2, <2>4, <2>5
<1>u. ASSUME out' = out PROVE OutputInOrder'
  BY <1>u, ZenonT(60) DEF OutputInOrder, Before
<1>1. ASSUME NEW p \in Packets, ProcessSession(p) PROVE OutputInOrder'
  BY <1>1, <1>u DEF ProcessSession, init_fec, OutputInOrder
<1>2. CASE FlushFragment
  <2>1. rx_ring_alloc > 0 /\ f_idx = Cursor /\ f_idx \in Nat /\ rx_ring_front \in Slots /\ pc # "idle"
    BY <1>2, <1>o DEF FlushFragment, LocalsInRing, Cursor, TypeOK
  <2>. QED  BY <1>2, <1>e, <1>u, <2>1, Zenon DEF FlushFragment
<1>3. CASE SendInOrder \/ SendRecovered
  <2>1. rx_ring_alloc > 0 /\ ring_idx = rx_ring_front /\ rx_ring_front \in Slots /\ pc # "idle"
        /\ send_packet(ring_idx, NextToSend(ring_idx))
    BY <1>3, <1>o, <1>p, Zenon DEF SendInOrder, SendRecovered, LocalsInRing, TypeOK
  <2>2. NextToSend(ring_idx) = Cursor /\ NextToSend(ring_idx) \in Nat
    BY <1>3, <1>p, <2>1, SMTT(60) DEF SendInOrder, SendRecovered, Cursor, SentAt, TypeOK
  <2>. QED  BY <1>e, <2>1, <2>2, Zenon
<1>4. ASSUME NEW p \in Packets, ProcessKnownBlock(p) \/ ProcessNewBlock(p) PROVE OutputInOrder'
  BY <1>4, <1>u, Zenon DEF ProcessKnownBlock, ProcessNewBlock
<1>5. CASE RingPush \/ RingOverflow \/ RingOverride \/ DuplicateFragment \/ StoreFragment
  BY <1>5, <1>u, Zenon DEF RingPush, RingOverflow, RingOverride, DuplicateFragment, StoreFragment
<1>6. CASE AllSentInOrder \/ GapFound \/ StartRecovery \/ KeepWaiting \/ FlushedBlock \/ RecoveredBlock
  BY <1>6, <1>u, Zenon DEF AllSentInOrder, GapFound, StartRecovery, KeepWaiting, FlushedBlock, RecoveredBlock
<1>7. CASE UNCHANGED vars
  BY <1>7, <1>u, Zenon DEF vars
<1>. QED  BY <1>1, <1>2, <1>3, <1>4, <1>5, <1>6, <1>7, Zenon DEF Next, Continue, ProcessPacket

(* Whatever is received, send_packet() is called in transmission order and  *)
(* at most once per fragment of a session.                                  *)
THEOREM OutputOrder == Spec => []OutputInOrder
<1>1. Init => OutputInOrder
  BY InitInv, Zenon
<1>2. TypeOK /\ RingInvariant /\ OutputInOrder /\ [Next]_vars => OutputInOrder'
  BY OutputStep, Zenon
<1>. QED  BY <1>1, <1>2, Inductive, PTL DEF Spec

-----------------------------------------------------------------------------
(* has_fragments counts the fragments of a slot. *)
Counted(r) == r.has_fragments \in Nat /\ Counts(r.has_fragments, DOMAIN r.fragments)
RingCounted == \A s \in Slots : Counted(rx_ring[s])

(* Only the block process_packet() is busy with may have K fragments, and if *)
(* it is not sent in order then there is something left of it to recover.    *)
OnlyOneComplete ==
    /\ \A s \in Live : \/ rx_ring[s].has_fragments < fec_k
                       \/ pc \in {"inorder", "decode", "flush"} /\ s = ring_idx
    /\ pc \in {"inorder", "decode"} => rx_ring[ring_idx].has_fragments <= fec_k
    /\ pc = "decode" => NextToSend(ring_idx) < fec_k

(* Of the oldest block everything before its cursor was sent, and by a flush *)
(* all that was received.                                                    *)
SentSoFar ==
    /\ rx_ring_alloc > 0 => \A f \in 0 .. SentAt(0) - 1 : <<BlockAt(0), f>> \in Sent
    /\ pc = "override" \/ (pc = "flush" /\ nrm > 0) =>
          \A f \in 0 .. f_idx - 1 : Has(rx_ring_front, f) => <<BlockAt(0), f>> \in Sent

Complete == RingCounted /\ OnlyOneComplete /\ SentSoFar

(* The slots in use, counted from the oldest one *)
LEMMA LiveSlots ==
    ASSUME TypeOK
    PROVE  /\ Live = {SlotOf(c) : c \in 0 .. rx_ring_alloc - 1}
           /\ Live \subseteq Slots
           /\ \A c, d \in 0 .. RX_RING_SIZE - 1 : SlotOf(c) = SlotOf(d) => c = d
           /\ SlotOf(RX_RING_SIZE) = rx_ring_front
<1>1. rx_ring_front \in Slots /\ rx_ring_alloc \in 0 .. RX_RING_SIZE /\ RX_RING_SIZE \in Nat \ {0}
  BY AggregatorConstants, Zenon DEF TypeOK
<1>2. Live = {SlotOf(c) : c \in 0 .. rx_ring_alloc - 1}
  BY Zenon DEF Live, SlotOf
<1>3. \A c \in 0 .. rx_ring_alloc - 1 : SlotOf(c) \in Slots
  BY <1>1, RingGeometry DEF SlotOf
<1>4. /\ \A c, d \in 0 .. RX_RING_SIZE - 1 : SlotOf(c) = SlotOf(d) => c = d
      /\ SlotOf(RX_RING_SIZE) = rx_ring_front
  BY <1>1, RingGeometry, Zenon DEF SlotOf
<1>. QED  BY <1>2, <1>3, <1>4, Zenon

(* RemoveFront frees the oldest slot and no other, *)
LEMMA RemoveLive ==
    ASSUME TypeOK, TypeOK', RemoveFront, rx_ring_alloc > 0
    PROVE  Live' = Live \ {rx_ring_front}
<1>1. /\ rx_ring_alloc \in 1 .. RX_RING_SIZE /\ rx_ring_alloc' = rx_ring_alloc - 1
      /\ RX_RING_SIZE \in Nat \ {0}
  BY AggregatorConstants DEF TypeOK, RemoveFront
<1>2. \A c \in 0 .. rx_ring_alloc - 2 : SlotOf(c)' = SlotOf(c + 1)
  <2>1. \A c \in 0 .. rx_ring_alloc - 2 : c \in 0 .. RX_RING_SIZE - 1
    BY <1>1
  <2>. QED  BY <2>1, RemoveShifts, Zenon
<1>3. Live' = {SlotOf(c)' : c \in 0 .. rx_ring_alloc - 2}
  BY <1>1 DEF Live, SlotOf
<1>4. Live' = {SlotOf(c + 1) : c \in 0 .. rx_ring_alloc - 2}
  BY <1>2, <1>3, Zenon
<1>5. Live' = {SlotOf(c) : c \in 1 .. rx_ring_alloc - 1}
  <2>1. \A c \in 1 .. rx_ring_alloc - 1 : c - 1 \in 0 .. rx_ring_alloc - 2 /\ (c - 1) + 1 = c
    BY <1>1
  <2>2. \A c \in 0 .. rx_ring_alloc - 2 : c + 1 \in 1 .. rx_ring_alloc - 1
    BY <1>1
  <2>. QED  BY <1>4, <2>1, <2>2, Zenon
<1>6. SlotOf(0) = rx_ring_front /\ \A c \in 1 .. rx_ring_alloc - 1 : SlotOf(c) # rx_ring_front
  BY <1>1, RingPositions
<1>7. Live = {SlotOf(c) : c \in 0 .. rx_ring_alloc - 1}
  BY LiveSlots, Zenon
<1>8. \A c : c \in 0 .. rx_ring_alloc - 1 <=> c = 0 \/ c \in 1 .. rx_ring_alloc - 1
  BY <1>1
<1>. QED  BY <1>5, <1>6, <1>7, <1>8, Zenon

(* rx_ring_push() takes a free slot, *)
LEMMA PushLive ==
    ASSUME TypeOK, RingPush
    PROVE  /\ ring_idx' \in Slots /\ ring_idx' \notin Live /\ Live' = Live \cup {ring_idx'}
           /\ rx_ring_alloc > 0 => ring_idx' # rx_ring_front
<1>1. /\ rx_ring_alloc \in 0 .. RX_RING_SIZE - 1 /\ rx_ring_alloc' = rx_ring_alloc + 1
      /\ RX_RING_SIZE \in Nat \ {0}
  BY AggregatorConstants DEF TypeOK, RingPush
<1>2. ring_idx' = SlotOf(rx_ring_alloc) /\ rx_ring_front' = rx_ring_front
  BY Zenon DEF RingPush, PushInto, SlotOf
<1>3. Live = {SlotOf(c) : c \in 0 .. rx_ring_alloc - 1}
  BY LiveSlots, Zenon
<1>4. Live' = {SlotOf(c) : c \in 0 .. rx_ring_alloc}
  BY <1>1, <1>2 DEF Live, SlotOf
<1>5. \A c : c \in 0 .. rx_ring_alloc <=> c = rx_ring_alloc \/ c \in 0 .. rx_ring_alloc - 1
  BY <1>1
<1>6. \A c \in 0 .. rx_ring_alloc - 1 : SlotOf(c) # SlotOf(rx_ring_alloc)
  BY <1>1, LiveSlots
<1>7. SlotOf(rx_ring_alloc) \in Slots /\ SlotOf(0) = rx_ring_front
  BY <1>1, RingPositions
<1>8. rx_ring_alloc > 0 => 0 \in 0 .. rx_ring_alloc - 1
  BY <1>1
<1>. QED  BY <1>2, <1>3, <1>4, <1>5, <1>6, <1>7, <1>8, Zenon

(* and on a full ring the oldest one. *)
LEMMA OverrideLive ==
    ASSUME TypeOK, TypeOK', RingInvariant, RingOverride
    PROVE  ring_idx' = rx_ring_front /\ rx_ring_front \in Slots /\ Live' = Live /\ rx_ring_front' \in Slots
<1> DEFINE N == RX_RING_SIZE
<1>1. rx_ring_alloc = N /\ rx_ring_alloc' = N /\ N \in Nat \ {0} /\ ring_idx' = rx_ring_front
  BY AggregatorConstants, Zenon DEF RingInvariant, LocalsInRing, RingOverride, PushInto
<1>2. \A c \in 0 .. N - 1 : SlotOf(c)' = SlotOf(c + 1)
  BY RingGeometry DEF SlotOf, RingOverride, TypeOK
<1>3. SlotOf(N) = rx_ring_front /\ SlotOf(0) = rx_ring_front
  BY LiveSlots, RingPositions, Zenon
<1>4. Live = {SlotOf(c) : c \in 0 .. N - 1}
  BY <1>1, LiveSlots, Zenon
<1>5. Live' = {SlotOf(c)' : c \in 0 .. N - 1}
  BY <1>1, Zenon DEF Live, SlotOf
<1>. HIDE DEF N
<1>6. Live' = {SlotOf(c + 1) : c \in 0 .. N - 1}
  BY <1>2, <1>5, Zenon
<1>7. \A c \in 0 .. N - 1 : c + 1 = N \/ c + 1 \in 0 .. N - 1
  BY <1>1
<1>8. \A c \in 0 .. N - 1 : \/ c = 0 /\ N - 1 \in 0 .. N - 1 /\ (N - 1) + 1 = N
                            \/ c - 1 \in 0 .. N - 1 /\ (c - 1) + 1 = c
  BY <1>1
<1>9. 0 \in 0 .. N - 1
  BY <1>1
<1>10. Live' \subseteq Live
  BY <1>3, <1>4, <1>6, <1>7, <1>9, Zenon
<1>11. Live \subseteq Live'
  BY <1>3, <1>4, <1>6, <1>8, Zenon
<1>. QED  BY <1>1, <1>10, <1>11, Zenon DEF TypeOK

(* Nothing is numbered up to 0, *)
LEMMA CountsNone == Counts(0, {})
<1>1. [x \in {} |-> 0] \in [{} -> 1 .. 0]
  BY Zenon
<1>2. 1 .. 0 = {}
  OBVIOUS
<1>. QED  BY <1>1, <1>2, Zenon DEF Counts

(* and a new element gets the next number. *)
LEMMA CountsOneMore ==
    ASSUME NEW n \in Nat, NEW S, NEW f, f \notin S, Counts(n, S)
    PROVE  Counts(n + 1, S \cup {f})
<1>1. PICK number \in [S -> 1 .. n] :
        \A i \in 1 .. n : \E x \in S : \A y \in S : number[y] = i <=> y = x
  BY Zenon DEF Counts
<1> DEFINE more == [y \in S \cup {f} |-> IF y = f THEN n + 1 ELSE number[y]]
<1>2. more[f] = n + 1 /\ \A y \in S : more[y] = number[y] /\ number[y] \in 1 .. n
  BY Zenon
<1>3. more \in [S \cup {f} -> 1 .. n + 1]
  BY <1>2
<1>. HIDE DEF more
<1>4. ASSUME NEW i \in 1 .. n + 1
      PROVE  \E x \in S \cup {f} : \A y \in S \cup {f} : more[y] = i <=> y = x
  <2>1. CASE i = n + 1
    BY <1>2, <2>1
  <2>2. CASE i # n + 1
    <3>1. i \in 1 .. n /\ i # n + 1
      BY <2>2
    <3>2. PICK x \in S : \A y \in S : number[y] = i <=> y = x
      BY <1>1, <3>1, Zenon
    <3>. QED  BY <1>2, <3>1, <3>2, ZenonT(60)
  <2>. QED  BY <2>1, <2>2, Zenon
<1>. QED  BY <1>3, <1>4, Zenon DEF Counts

(* The fragments of the items the ring operations leave *)
LEMMA ItemsCounted ==
    /\ \A b : Item(b).has_fragments = 0 /\ Item(b).block_idx = b /\ Counted(Item(b))
    /\ \A r, f, body : /\ Counted(r) /\ f \notin DOMAIN r.fragments
                       => /\ Counted(WithFragment(r, f, body))
                          /\ WithFragment(r, f, body).has_fragments = r.has_fragments + 1
<1>1. ASSUME NEW b PROVE Item(b).has_fragments = 0 /\ Item(b).block_idx = b /\ Counted(Item(b))
  <2>1. DOMAIN (<< >>) = {}
    OBVIOUS
  <2>. QED  BY <2>1, CountsNone, Zenon DEF Item, Counted
<1>2. ASSUME NEW r, NEW f, NEW body, Counted(r), f \notin DOMAIN r.fragments
      PROVE  Counted(WithFragment(r, f, body)) /\ WithFragment(r, f, body).has_fragments = r.has_fragments + 1
  <2> DEFINE i == WithFragment(r, f, body)
  <2>1. DOMAIN i.fragments = DOMAIN r.fragments \cup {f} /\ i.has_fragments = r.has_fragments + 1
    BY Zenon DEF WithFragment
  <2>2. r.has_fragments + 1 \in Nat /\ Counts(r.has_fragments + 1, DOMAIN r.fragments \cup {f})
    BY <1>2, CountsOneMore DEF Counted
  <2>. HIDE DEF i
  <2>3. Counted(i)
    BY <1>2, <2>1, <2>2, Zenon DEF Counted
  <2>. QED  BY <2>1, <2>3, Zenon DEF i
<1>. QED  BY <1>1, <1>2, Zenon

(* A new item in one slot leaves the others, *)
LEMMA SlotReplaced ==
    ASSUME TypeOK, NEW s \in Slots, NEW i, rx_ring' = [rx_ring EXCEPT ![s] = i]
    PROVE  rx_ring'[s] = i /\ \A t \in Slots \ {s} : rx_ring'[t] = rx_ring[t]
  BY Zenon DEF TypeOK, IsRing

(* and sending a fragment leaves all fragments. *)
LEMMA SlotSent ==
    ASSUME TypeOK, NEW s \in Slots, rx_ring' = [rx_ring EXCEPT ![s].fragment_to_send_idx = @ + 1]
    PROVE  \A t \in Slots : /\ rx_ring'[t].fragments = rx_ring[t].fragments
                            /\ rx_ring'[t].has_fragments = rx_ring[t].has_fragments
                            /\ rx_ring'[t].block_idx = rx_ring[t].block_idx
<1> DEFINE i == [rx_ring[s] EXCEPT !.fragment_to_send_idx = @ + 1]
<1>1. /\ i.fragments = rx_ring[s].fragments /\ i.has_fragments = rx_ring[s].has_fragments
      /\ i.block_idx = rx_ring[s].block_idx
  BY DEF TypeOK, IsRing, IsItem
<1>2. rx_ring' = [rx_ring EXCEPT ![s] = i]
  BY Zenon
<1>. HIDE DEF i
<1>. QED  BY <1>1, <1>2, SlotReplaced

(* Every step keeps the count of the fragments. *)
LEMMA CountedStep ==
    ASSUME TypeOK, RingInvariant, RingCounted, [Next]_vars
    PROVE  RingCounted'
<1> USE AggregatorConstants
<1>s. \A c \in 0 .. RX_RING_SIZE : SlotOf(c) \in Slots
  BY RingPositions, Zenon
<1>a. rx_ring_alloc \in 0 .. RX_RING_SIZE /\ rx_ring_front \in Slots
  BY Zenon DEF TypeOK
<1>u. ASSUME rx_ring' = rx_ring PROVE RingCounted'
  BY <1>u, Zenon DEF RingCounted, Counted
<1>p. ASSUME NEW s \in Slots, NEW i, Counted(i), rx_ring' = [rx_ring EXCEPT ![s] = i] PROVE RingCounted'
  <2>1. rx_ring'[s] = i /\ \A t \in Slots \ {s} : rx_ring'[t] = rx_ring[t]
    BY <1>p, SlotReplaced, Zenon
  <2>2. \A t \in Slots : Counted(rx_ring'[t])
    BY <1>p, <2>1, Zenon DEF RingCounted
  <2>. QED  BY <2>2, Zenon DEF RingCounted, Counted, Slots
<1>n. ASSUME NEW s \in Slots, rx_ring' = [rx_ring EXCEPT ![s].fragment_to_send_idx = @ + 1] PROVE RingCounted'
  BY <1>n, SlotSent, Zenon DEF RingCounted, Counted
<1>1. ASSUME NEW p \in Packets, ProcessSession(p) PROVE RingCounted'
  <2>1. CASE p.key = session_key
    BY <1>1, <1>u, <2>1, Zenon DEF ProcessSession, ring
  <2>2. CASE p.key # session_key
    <3>1. rx_ring' = [s \in Slots |-> Item(0)]
      BY <1>1, <2>2, Zenon DEF ProcessSession, init_fec
    <3>2. \A s \in Slots : rx_ring'[s] = Item(0)
      BY <3>1, Zenon
    <3>. QED  BY <3>2, ItemsCounted, Zenon DEF RingCounted
  <2>. QED  BY <2>1, <2>2, Zenon
<1>2. CASE RingPush
  <2>1. modN(rx_ring_front + rx_ring_alloc, RX_RING_SIZE) \in Slots
    BY <1>a, <1>s, Zenon DEF SlotOf
  <2>. QED  BY <1>2, <1>p, <2>1, ItemsCounted, Zenon DEF RingPush, PushInto
<1>3. CASE RingOverride
  BY <1>3, <1>a, <1>p, ItemsCounted, Zenon DEF RingOverride, PushInto
<1>4. CASE StoreFragment
  <2>1. ring_idx \in Slots /\ pkt.frag \notin DOMAIN rx_ring[ring_idx].fragments
    <3>1. PICK c \in 0 .. rx_ring_alloc - 1 : ring_idx = SlotOf(c)
      BY <1>4, Zenon DEF StoreFragment, RingInvariant, LocalsInRing
    <3>2. c \in 0 .. RX_RING_SIZE
      BY <1>a, SmallNumbers, Zenon
    <3>. QED  BY <1>4, <1>s, <3>1, <3>2, Zenon DEF StoreFragment, Has
  <2>2. Counted(WithFragment(rx_ring[ring_idx], pkt.frag, pkt.body))
    BY <2>1, ItemsCounted, Zenon DEF RingCounted
  <2>. QED  BY <1>4, <1>p, <2>1, <2>2, Zenon DEF StoreFragment
<1>5. CASE SendInOrder \/ SendRecovered
  <2>1. ring_idx \in Slots
    BY <1>5, <1>a, <1>s, SMTT(60) DEF SendInOrder, SendRecovered, RingInvariant, LocalsInRing
  <2>. QED  BY <1>5, <1>n, <2>1, Zenon DEF SendInOrder, SendRecovered
<1>6. ASSUME NEW p \in Packets, ProcessKnownBlock(p) \/ ProcessNewBlock(p) PROVE RingCounted'
  BY <1>6, <1>u, Zenon DEF ProcessKnownBlock, ProcessNewBlock, ring
<1>7. CASE RingOverflow \/ FlushFragment \/ DuplicateFragment \/ GapFound \/ StartRecovery \/ KeepWaiting
  BY <1>7, <1>u, Zenon DEF RingOverflow, FlushFragment, DuplicateFragment, GapFound, StartRecovery, KeepWaiting, ring
<1>8. CASE AllSentInOrder \/ FlushedBlock \/ RecoveredBlock
  BY <1>8, <1>u, Zenon DEF AllSentInOrder, FlushedBlock, RecoveredBlock, RemoveFront
<1>9. CASE UNCHANGED vars
  BY <1>9, <1>u, Zenon DEF vars, ring
<1>. QED  BY <1>1, <1>2, <1>3, <1>4, <1>5, <1>6, <1>7, <1>8, <1>9, Zenon DEF Next, Continue, ProcessPacket

(* Every step of process_packet() leaves at most the block it is busy with   *)
(* complete, and none when it returns.                                       *)
LEMMA OnlyOneStep ==
    ASSUME TypeOK, TypeOK', RingInvariant, OnlyOneComplete, [Next]_vars
    PROVE  OnlyOneComplete'
<1> USE AggregatorConstants
<1>l. /\ Live = {SlotOf(c) : c \in 0 .. rx_ring_alloc - 1} /\ Live \subseteq Slots
      /\ SlotOf(0) = rx_ring_front
  BY LiveSlots, RingPositions, Zenon
<1>a. /\ rx_ring_alloc \in 0 .. RX_RING_SIZE /\ rx_ring_front \in Slots
      /\ \A s \in Slots : rx_ring[s].has_fragments \in Nat /\ NextToSend(s) \in Nat
  BY Zenon DEF TypeOK, IsRing, IsItem, NextToSend
<1>k. pc # "idle" => fec_k \in Nat \ {0}
  BY Zenon DEF TypeOK
<1>r. /\ pc \in {"store", "decode"} => ring_idx \in Live
      /\ pc = "inorder" => ring_idx = rx_ring_front /\ ring_idx \in Live
      /\ pc = "flush" => ring_idx \in Live
  BY <1>a, <1>l DEF RingInvariant, LocalsInRing, TypeOK
<1>v. ASSUME UNCHANGED <<rx_ring_front, rx_ring_alloc>> PROVE Live' = Live
  BY <1>v, Zenon DEF Live
(* steps that leave ring and code rate, and do not start work on a block *)
<1>u. ASSUME UNCHANGED <<rx_ring, rx_ring_front, rx_ring_alloc, fec_k>>,
             \/ pc \notin {"inorder", "decode", "flush"} /\ pc' \notin {"inorder", "decode", "flush"}
             \/ pc' = pc /\ ring_idx' = ring_idx
      PROVE  OnlyOneComplete'
  BY <1>u, <1>v, Zenon DEF OnlyOneComplete, NextToSend
(* a new block in a slot *)
<1>p. ASSUME NEW s \in Slots, PushInto(s), Live' \subseteq Live \cup {s}, pc \in {"push", "override"}, fec_k' = fec_k
      PROVE  OnlyOneComplete'
  <2>1. rx_ring'[s].has_fragments = 0 /\ \A t \in Slots \ {s} : rx_ring'[t] = rx_ring[t]
    <3>1. rx_ring' = [rx_ring EXCEPT ![s] = Item(pkt.block + 1 - todo)]
      BY <1>p, Zenon DEF PushInto
    <3>2. rx_ring'[s] = Item(pkt.block + 1 - todo) /\ \A t \in Slots \ {s} : rx_ring'[t] = rx_ring[t]
      BY <1>p, <3>1, SlotReplaced, Zenon
    <3>. QED  BY <3>2, ItemsCounted, Zenon
  <2>2. \A t \in Live : rx_ring[t].has_fragments < fec_k
    BY <1>p, Zenon DEF OnlyOneComplete
  <2>3. \A t \in Live' : rx_ring'[t].has_fragments < fec_k
    BY <1>k, <1>l, <1>p, <2>1, <2>2
  <2>. QED  BY <1>p, <2>3, Zenon DEF PushInto, OnlyOneComplete
(* sending the next fragment of a block *)
<1>n. ASSUME ring_idx \in Slots, rx_ring' = [rx_ring EXCEPT ![ring_idx].fragment_to_send_idx = @ + 1],
             pc \in {"inorder", "flush"}, UNCHANGED <<rx_ring_front, rx_ring_alloc, fec_k, pc, ring_idx>>
      PROVE  OnlyOneComplete'
  <2>1. \A t \in Slots : rx_ring'[t].has_fragments = rx_ring[t].has_fragments
    BY <1>n, SlotSent, Zenon
  <2>. QED  BY <1>l, <1>n, <1>v, <2>1, Zenon DEF OnlyOneComplete
(* the oldest block leaves; it is the one worked on, or older than it *)
<1>d. ASSUME RemoveFront, rx_ring_alloc > 0, fec_k' = fec_k,
             \/ pc' = "idle" /\ ring_idx = rx_ring_front
             \/ pc = "flush" /\ pc' = "flush" /\ ring_idx' = ring_idx
      PROVE  OnlyOneComplete'
  <2>1. Live' = Live \ {rx_ring_front} /\ rx_ring' = rx_ring
    BY <1>d, RemoveLive, Zenon DEF RemoveFront
  <2>. QED  BY <1>d, <2>1, Zenon DEF OnlyOneComplete
<1>1. ASSUME NEW p \in Packets, ProcessSession(p) PROVE OnlyOneComplete'
  <2>1. CASE p.key = session_key
    BY <1>1, <1>u, <2>1, Zenon DEF ProcessSession, ring, locals
  <2>2. CASE p.key # session_key
    <3>1. rx_ring_alloc' = 0 /\ pc' = "idle"
      BY <1>1, <2>2, Zenon DEF ProcessSession, init_fec
    <3>2. Live' = {}
      BY <3>1 DEF Live
    <3>. QED  BY <3>1, <3>2, Zenon DEF OnlyOneComplete
  <2>. QED  BY <2>1, <2>2, Zenon
<1>2. ASSUME NEW p \in Packets, ProcessKnownBlock(p) \/ ProcessNewBlock(p) PROVE OnlyOneComplete'
  BY <1>2, <1>u, Zenon DEF ProcessKnownBlock, ProcessNewBlock, ring, session
<1>3. CASE RingPush
  BY <1>3, <1>p, PushLive, Zenon DEF RingPush, PushInto, session
<1>4. CASE RingOverflow \/ DuplicateFragment \/ FlushFragment
  BY <1>4, <1>u, Zenon DEF RingOverflow, DuplicateFragment, FlushFragment, Return, ring, session
<1>5. CASE RingOverride
  BY <1>5, <1>p, OverrideLive, Zenon DEF RingOverride, session
<1>6. CASE StoreFragment
  <2> DEFINE i == WithFragment(rx_ring[ring_idx], pkt.frag, pkt.body)
  <2>1. ring_idx \in Live /\ ring_idx \in Slots /\ rx_ring[ring_idx].has_fragments < fec_k
    BY <1>6, <1>l, <1>r, Zenon DEF StoreFragment, OnlyOneComplete
  <2>2. rx_ring' = [rx_ring EXCEPT ![ring_idx] = i]
    BY <1>6, Zenon DEF StoreFragment
  <2>3. i.has_fragments = rx_ring[ring_idx].has_fragments + 1 /\ i.fragment_to_send_idx = NextToSend(ring_idx)
    BY Zenon DEF WithFragment, NextToSend
  <2>. HIDE DEF i
  <2>4. rx_ring'[ring_idx] = i /\ \A t \in Slots \ {ring_idx} : rx_ring'[t] = rx_ring[t]
    BY <2>1, <2>2, SlotReplaced, Zenon
  <2>5. pc = "store" /\ ring_idx' = ring_idx /\ fec_k' = fec_k /\ Live' = Live
    BY <1>6, <1>v, Zenon DEF StoreFragment, session, locals
  <2>6. pc' \in {"inorder", "decode"} /\ (pc' = "decode" => ring_idx # rx_ring_front)
    BY <1>6, Zenon DEF StoreFragment
  <2>7. rx_ring'[ring_idx].has_fragments <= fec_k
    BY <1>a, <1>k, <2>1, <2>3, <2>4, <2>5, SMTT(60)
  <2>8. pc' = "decode" => rx_ring'[ring_idx].fragment_to_send_idx < fec_k
    <3>1. ASSUME pc' = "decode" PROVE NextToSend(ring_idx) = 0
      <4>1. PICK c \in 0 .. rx_ring_alloc - 1 : ring_idx = SlotOf(c)
        BY <1>l, <2>1, Zenon
      <4>2. c \in 1 .. rx_ring_alloc - 1
        BY <1>l, <2>6, <3>1, <4>1, SMTT(60)
      <4>. QED  BY <4>1, <4>2, Zenon DEF RingInvariant, RingOrdered, SentAt
    <3>. QED  BY <1>k, <2>3, <2>4, <2>5, <3>1, SMTT(60)
  <2>9. \A t \in Live : rx_ring'[t].has_fragments < fec_k \/ t = ring_idx
    BY <1>l, <2>4, <2>5, Zenon DEF OnlyOneComplete
  <2>. QED  BY <2>5, <2>6, <2>7, <2>8, <2>9, Zenon DEF OnlyOneComplete, NextToSend
<1>7. CASE SendInOrder \/ SendRecovered
  BY <1>7, <1>l, <1>n, <1>r, Zenon DEF SendInOrder, SendRecovered, session, locals
<1>8. CASE AllSentInOrder \/ RecoveredBlock
  <2>1. rx_ring_alloc > 0 /\ ring_idx = rx_ring_front
    BY <1>8, <1>a, <1>l, Zenon DEF AllSentInOrder, RecoveredBlock, RingInvariant, LocalsInRing
  <2>. QED  BY <1>8, <1>d, <2>1, Zenon DEF AllSentInOrder, RecoveredBlock, Return, session
<1>9. CASE GapFound
  <2>1. UNCHANGED <<rx_ring, fec_k, ring_idx>> /\ Live' = Live /\ pc = "inorder" /\ pc' = "decode"
        /\ NextToSend(ring_idx) < fec_k
    BY <1>9, <1>v, Zenon DEF GapFound, session, ring, locals
  <2>. QED  BY <2>1, Zenon DEF OnlyOneComplete, NextToSend
<1>10. CASE StartRecovery
  <2>1. UNCHANGED <<rx_ring, fec_k, ring_idx>> /\ Live' = Live /\ pc = "decode" /\ pc' = "flush"
    BY <1>10, <1>v, Zenon DEF StartRecovery, session, ring
  <2>. QED  BY <2>1, Zenon DEF OnlyOneComplete
<1>11. CASE KeepWaiting
  <2>1. UNCHANGED <<rx_ring, fec_k>> /\ Live' = Live /\ pc = "decode" /\ pc' = "idle"
    BY <1>11, <1>v, Zenon DEF KeepWaiting, Return, session, ring
  <2>2. rx_ring[ring_idx].has_fragments < fec_k
    BY <1>11, <1>a, <1>k, <1>l, <1>r, <2>1, SMTT(60) DEF KeepWaiting, Recoverable, OnlyOneComplete
  <2>. QED  BY <2>1, <2>2, Zenon DEF OnlyOneComplete
<1>12. CASE FlushedBlock
  <2>1. pc = "flush" /\ pc' = pc /\ ring_idx' = ring_idx /\ fec_k' = fec_k /\ RemoveFront
    BY <1>12, Zenon DEF FlushedBlock, session
  <2>2. nrm < rx_ring_alloc /\ nrm \in 0 .. RX_RING_SIZE - 1
    BY <2>1, Zenon DEF RingInvariant, LocalsInRing, TypeOK
  <2>3. rx_ring_alloc > 0
    BY <1>a, <2>2, SmallNumbers, Zenon
  <2>. QED  BY <1>d, <2>1, <2>3, Zenon
<1>13. CASE UNCHANGED vars
  BY <1>13, <1>u, Zenon DEF vars, session, ring, locals
<1>. QED
  BY <1>1, <1>2, <1>3, <1>4, <1>5, <1>6, <1>7, <1>8, <1>9, <1>10, <1>11, <1>12, <1>13, Zenon
  DEF Next, Continue, ProcessPacket

(* send_packet() adds one fragment to what was sent. *)
LEMMA SentGrows ==
    ASSUME TypeOK, NEW s \in Slots, NEW f \in Nat, fec_k # None, send_packet(s, f)
    PROVE  Sent \subseteq Sent' /\ <<rx_ring[s].block_idx, f>> \in Sent'
<1>1. /\ Len(out) \in Nat /\ Len(out') = Len(out) + 1
      /\ \A i \in 1 .. Len(out) : out'[i] = out[i]
      /\ out'[Len(out) + 1].block = rx_ring[s].block_idx
      /\ out'[Len(out) + 1].frag = f
  BY SendFacts, Zenon
<1>2. Len(out) + 1 \in 1 .. Len(out') /\ \A i \in 1 .. Len(out) : i \in 1 .. Len(out')
  <2>1. Len(out) \in Nat /\ Len(out') = Len(out) + 1
    BY <1>1, Zenon
  <2>2. \A n \in Nat : n + 1 \in 1 .. n + 1 /\ \A i \in 1 .. n : i \in 1 .. n + 1
    BY SmallNumbers, Zenon
  <2>. QED  BY <2>1, <2>2, Zenon
<1>3. Sent' = {<<out'[i].block, out'[i].frag>> : i \in 1 .. Len(out')}
  BY Zenon DEF Sent
<1>4. Sent \subseteq Sent'
  BY <1>1, <1>2, <1>3, Zenon DEF Sent
<1>5. <<out'[Len(out) + 1].block, out'[Len(out) + 1].frag>> \in Sent'
  BY <1>2, <1>3, Zenon
<1>. QED  BY <1>1, <1>4, <1>5, Zenon

(* Every step keeps account of what was sent of the oldest block. *)
LEMMA SentStep ==
    ASSUME TypeOK, TypeOK', RingInvariant, SentSoFar, [Next]_vars
    PROVE  SentSoFar'
<1> USE AggregatorConstants
<1> DEFINE Flushing == pc = "override" \/ (pc = "flush" /\ nrm > 0)
<1>p. /\ SlotOf(0) = rx_ring_front /\ SentAt(0) \in Nat /\ BlockAt(0) = rx_ring[rx_ring_front].block_idx
      /\ SentAt(0) = NextToSend(rx_ring_front) /\ rx_ring_front \in Slots
      /\ rx_ring_alloc \in 0 .. RX_RING_SIZE /\ f_idx \in Nat /\ nrm \in Nat
  <2>1. SlotOf(0) = rx_ring_front /\ rx_ring_front \in Slots /\ IsRing(rx_ring)
    BY RingPositions, Zenon DEF TypeOK
  <2>2. SentAt(0) \in Nat
    BY <2>1, Zenon DEF IsRing, IsItem, SentAt, NextToSend
  <2>3. rx_ring_alloc \in 0 .. RX_RING_SIZE /\ f_idx \in Nat /\ nrm \in Nat
    BY SmallNumbers, Zenon DEF TypeOK
  <2>. QED  BY <2>1, <2>2, <2>3, Zenon DEF BlockAt, SentAt
<1>i. ASSUME UNCHANGED <<rx_ring, rx_ring_front>> PROVE BlockAt(0)' = BlockAt(0) /\ SentAt(0)' = SentAt(0)
  BY <1>i, Zenon DEF BlockAt, SentAt, SlotOf, NextToSend
<1>v. ASSUME out' = out PROVE Sent' = Sent
  BY <1>v, Zenon DEF Sent
<1>z. rx_ring_alloc > 1 => SentAt(1) = 0
  <2>1. \A c \in 1 .. rx_ring_alloc - 1 : SentAt(c) = 0
    BY Zenon DEF RingInvariant, RingOrdered
  <2>2. rx_ring_alloc \in 0 .. RX_RING_SIZE
    BY <1>p, Zenon
  <2>3. rx_ring_alloc > 1 => 1 \in 1 .. rx_ring_alloc - 1
    BY <2>2, SMTT(60)
  <2>. QED  BY <2>1, <2>3, Zenon
(* the oldest block stays and no flush is under way *)
<1>k. ASSUME rx_ring_alloc' > 0 => rx_ring_alloc > 0 /\ BlockAt(0)' = BlockAt(0) /\ SentAt(0)' = SentAt(0),
             out' = out, ~Flushing'
      PROVE  SentSoFar'
  BY <1>k, <1>v, Zenon DEF SentSoFar
(* a block of which nothing was sent becomes the oldest *)
<1>r. ASSUME rx_ring_alloc' > 0 => SentAt(0)' = 0, Flushing' => f_idx' = 0
      PROVE  SentSoFar'
  BY <1>r DEF SentSoFar
(* the next fragment of the oldest block is sent *)
<1>n. ASSUME rx_ring_alloc > 0, ring_idx = rx_ring_front, send_packet(ring_idx, NextToSend(ring_idx)),
             rx_ring' = [rx_ring EXCEPT ![ring_idx].fragment_to_send_idx = @ + 1],
             UNCHANGED <<rx_ring_front, rx_ring_alloc>>, ~Flushing', pc # "idle"
      PROVE  SentSoFar'
  <2>1. /\ BlockAt(0)' = BlockAt(0) /\ SentAt(0)' = SentAt(0) + 1
    BY <1>n, SentMovesCursor
  <2>2. fec_k # None
    BY <1>n, Zenon DEF TypeOK
  <2>3. Sent \subseteq Sent' /\ <<BlockAt(0), SentAt(0)>> \in Sent'
    BY <1>n, <1>p, <2>2, SentGrows, Zenon
  <2>4. \A f \in 0 .. SentAt(0)' - 1 : f = SentAt(0) \/ f \in 0 .. SentAt(0) - 1
    BY <1>p, <2>1, SMTT(60)
  <2>. QED  BY <1>n, <2>1, <2>3, <2>4, Zenon DEF SentSoFar
<1>1. ASSUME NEW p \in Packets, ProcessSession(p) PROVE SentSoFar'
  <2>1. CASE p.key = session_key
    BY <1>1, <1>i, <1>k, <2>1, Zenon DEF ProcessSession, ring, locals
  <2>2. CASE p.key # session_key
    BY <1>1, <1>r, <2>2, SMTT(60) DEF ProcessSession, init_fec, locals
  <2>. QED  BY <2>1, <2>2, Zenon
<1>2. ASSUME NEW p \in Packets, ProcessKnownBlock(p) \/ ProcessNewBlock(p) PROVE SentSoFar'
  BY <1>2, <1>i, <1>k, Zenon DEF ProcessKnownBlock, ProcessNewBlock, ring
<1>3. CASE RingPush
  <2>1. ~Flushing' /\ out' = out
    BY <1>3, Zenon DEF RingPush, PushInto
  <2>2. CASE rx_ring_alloc = 0
    <3>1. SentAt(0)' = 0
      BY <1>3, <2>2, PushAdds, Zenon
    <3>. QED  BY <1>r, <2>1, <3>1, Zenon
  <2>3. CASE rx_ring_alloc > 0
    <3>1. 0 \in 0 .. rx_ring_alloc - 1
      BY <1>p, <2>3
    <3>2. BlockAt(0)' = BlockAt(0) /\ SentAt(0)' = SentAt(0)
      BY <1>3, <3>1, PushAdds, Zenon
    <3>. QED  BY <1>k, <2>1, <2>3, <3>2, Zenon
  <2>. QED  BY <1>p, <2>2, <2>3
<1>4. CASE RingOverflow
  <2>1. BlockAt(0)' = BlockAt(0) /\ SentAt(0)' = SentAt(0) /\ Sent' = Sent
    BY <1>4, <1>i, <1>v, Zenon DEF RingOverflow, ring
  <2>2. rx_ring_alloc > 0 /\ f_idx' = SentAt(0) /\ rx_ring_alloc' = rx_ring_alloc
    <3>1. rx_ring_alloc = RX_RING_SIZE /\ f_idx' = SentAt(0) /\ rx_ring_alloc' = rx_ring_alloc
      BY <1>4, <1>p, Zenon DEF RingOverflow, NextToSend, ring
    <3>2. RX_RING_SIZE > 0
      BY SmallNumbers, Zenon
    <3>. QED  BY <3>1, <3>2, Zenon
  <2>. QED  BY <2>1, <2>2, Zenon DEF SentSoFar
<1>5. CASE FlushFragment
  <2>1. /\ BlockAt(0)' = BlockAt(0) /\ SentAt(0)' = SentAt(0) /\ f_idx' = f_idx + 1
        /\ UNCHANGED <<rx_ring, rx_ring_front, rx_ring_alloc, pc, nrm>> /\ Flushing
    BY <1>5, <1>i, Zenon DEF FlushFragment, ring
  <2>2. Sent \subseteq Sent' /\ (Has(rx_ring_front, f_idx) => <<BlockAt(0), f_idx>> \in Sent')
    <3>1. CASE Has(rx_ring_front, f_idx)
      <4>1. send_packet(rx_ring_front, f_idx) /\ fec_k # None
        BY <1>5, <3>1, Zenon DEF FlushFragment, TypeOK
      <4>. QED  BY <1>p, <4>1, SentGrows, Zenon
    <3>2. CASE ~Has(rx_ring_front, f_idx)
      BY <1>5, <1>v, <3>2, Zenon DEF FlushFragment
    <3>. QED  BY <3>1, <3>2, Zenon
  <2>3. \A f \in 0 .. f_idx' - 1 : f = f_idx \/ f \in 0 .. f_idx - 1
    BY <1>p, <2>1
  <2>4. \A f : Has(rx_ring_front, f)' <=> Has(rx_ring_front, f)
    BY <2>1, Zenon DEF Has
  <2>. QED  BY <2>1, <2>2, <2>3, <2>4, Zenon DEF SentSoFar
<1>6. CASE RingOverride
  <2>1. rx_ring_alloc = RX_RING_SIZE /\ ~Flushing'
    BY <1>6, Zenon DEF RingOverride, PushInto, RingInvariant, LocalsInRing
  <2>2. SentAt(0)' = 0
    <3>1. CASE RX_RING_SIZE = 1
      BY <1>6, <3>1, OverrideShifts
    <3>2. CASE RX_RING_SIZE > 1
      <4>1. 0 \in 0 .. RX_RING_SIZE - 2
        BY <3>2
      <4>. QED  BY <1>6, <1>z, <2>1, <3>2, <4>1, OverrideShifts
    <3>. QED  BY <3>1, <3>2
  <2>. QED  BY <1>r, <2>1, <2>2, Zenon
<1>7. CASE StoreFragment
  <2>1. ring_idx \in Slots
    BY <1>7, <1>p, RingPositions DEF StoreFragment, RingInvariant, LocalsInRing
  <2>2. BlockAt(0)' = BlockAt(0) /\ SentAt(0)' = SentAt(0)
    BY <1>7, <2>1, StoreKeepsOrder
  <2>. QED  BY <1>7, <1>k, <2>2, Zenon DEF StoreFragment
<1>8. CASE SendInOrder \/ SendRecovered
  BY <1>8, <1>n, <1>p, SMTT(60) DEF SendInOrder, SendRecovered, RingInvariant, LocalsInRing, locals
<1>9. CASE AllSentInOrder \/ FlushedBlock \/ RecoveredBlock
  <2>1. RemoveFront /\ rx_ring_alloc' = rx_ring_alloc - 1
    BY <1>9, Zenon DEF AllSentInOrder, FlushedBlock, RecoveredBlock, RemoveFront
  <2>2. SentAt(0)' = SentAt(1)
    <3>1. 0 \in 0 .. RX_RING_SIZE - 1
      OBVIOUS
    <3>. QED  BY <2>1, <3>1, RemoveShifts
  <2>3. rx_ring_alloc' > 0 => SentAt(0)' = 0
    BY <1>p, <1>z, <2>1, <2>2, SMTT(60)
  <2>4. Flushing' => f_idx' = 0
    BY <1>9, <1>p, <1>z, SMTT(60) DEF AllSentInOrder, FlushedBlock, RecoveredBlock, Return, RingInvariant,
                            LocalsInRing, SentAt, SlotOf
  <2>. QED  BY <1>r, <2>3, <2>4, Zenon
<1>10. CASE GapFound \/ KeepWaiting \/ DuplicateFragment
  BY <1>10, <1>i, <1>k, Zenon DEF GapFound, KeepWaiting, DuplicateFragment, Return, ring, locals
<1>11. CASE StartRecovery
  <2>1. BlockAt(0)' = BlockAt(0) /\ SentAt(0)' = SentAt(0) /\ Sent' = Sent
    BY <1>11, <1>i, <1>v, Zenon DEF StartRecovery, ring
  <2>2. rx_ring_alloc > 0 /\ f_idx' = SentAt(0) /\ rx_ring_alloc' = rx_ring_alloc
    BY <1>11, <1>p, SMTT(60) DEF StartRecovery, RingInvariant, LocalsInRing, ring
  <2>. QED  BY <2>1, <2>2, Zenon DEF SentSoFar
<1>12. CASE UNCHANGED vars
  <2>1. UNCHANGED <<rx_ring, rx_ring_front, rx_ring_alloc, out, pc, f_idx, nrm>>
    BY <1>12, Zenon DEF vars, ring, locals
  <2>. QED  BY <1>i, <1>v, <2>1, Zenon DEF SentSoFar, Has
<1>. QED
  BY <1>1, <1>2, <1>3, <1>4, <1>5, <1>6, <1>7, <1>8, <1>9, <1>10, <1>11, <1>12, Zenon
  DEF Next, Continue, ProcessPacket

(* Before the first session the ring is empty. *)
LEMMA InitComplete == Init => Complete
<1>. SUFFICES ASSUME Init PROVE Complete
  BY Zenon
<1>1. RingCounted
  BY ItemsCounted, Zenon DEF Init, RingCounted
<1>2. rx_ring_alloc = 0 /\ pc = "idle" /\ rx_ring_front \in Int
  BY AggregatorConstants DEF Init, Slots
<1>3. Live = {}
  BY <1>2 DEF Live
<1>. QED  BY <1>1, <1>2, <1>3 DEF Complete, OnlyOneComplete, SentSoFar

(* The counts, the one block that may be complete and what was sent of the   *)
(* oldest block hold in every state, between the steps of process_packet()   *)
(* too.                                                                      *)
THEOREM CompleteHolds == Spec => []Complete
<1>1. Init => Complete
  BY InitComplete, Zenon
<1>2. TypeOK /\ TypeOK' /\ RingInvariant /\ Complete /\ [Next]_vars => Complete'
  BY CountedStep, OnlyOneStep, SentStep, Zenon DEF Complete
<1>. QED  BY <1>1, <1>2, Inductive, PTL DEF Spec

(* Whenever process_packet() has returned, no block of the ring has the K    *)
(* fragments it takes to recover it, and has_fragments is the number of      *)
(* fragments in the slot: a block that can be sent is sent at once.          *)
THEOREM NoCompleteBlockWaitsHolds == Spec => []NoCompleteBlockWaits
<1>1. TypeOK /\ Complete => NoCompleteBlockWaits
  <2>. SUFFICES ASSUME TypeOK, Complete, pc = "idle", NEW s \in Live
                PROVE  /\ rx_ring[s].has_fragments < fec_k
                       /\ Counts(rx_ring[s].has_fragments, DOMAIN rx_ring[s].fragments)
    BY Zenon DEF NoCompleteBlockWaits
  <2>1. s \in Slots
    BY LiveSlots, Zenon
  <2>. QED  BY <2>1, Zenon DEF Complete, RingCounted, Counted, OnlyOneComplete
<1>. QED  BY <1>1, CompleteHolds, Inductive, PTL

(* A slot that a step takes out of the ring, or gives to another block *)
Leaves(s) == s \notin Live' \/ rx_ring'[s].block_idx # rx_ring[s].block_idx

(* What was received of the block in slot s, and all of it once K fragments  *)
(* are there, has been sent.                                                 *)
ReceivedIsSent(s) ==
    \A f \in 0 .. fec_k - 1 :
        Has(s, f) \/ rx_ring[s].has_fragments >= fec_k => <<rx_ring[s].block_idx, f>> \in Sent

(* A slot leaves the ring only at the end of one of the loops that send what *)
(* it holds.                                                                 *)
LEMMA LeavingIsSent ==
    ASSUME TypeOK, TypeOK', RingInvariant, Complete, Next, session_key' = session_key,
           NEW s \in Live, Leaves(s)
    PROVE  ReceivedIsSent(s)
<1> USE AggregatorConstants
<1>p. /\ SlotOf(0) = rx_ring_front /\ BlockAt(0) = rx_ring[rx_ring_front].block_idx
      /\ SentAt(0) = NextToSend(rx_ring_front) /\ rx_ring_front \in Slots
      /\ rx_ring_alloc \in 0 .. RX_RING_SIZE /\ s \in Slots /\ rx_ring[s].has_fragments \in Nat
  <2>1. s \in Slots
    BY LiveSlots, Zenon
  <2>2. rx_ring[s].has_fragments \in Nat
    BY <2>1, Zenon DEF TypeOK, IsRing, IsItem
  <2>. QED  BY <2>1, <2>2, RingPositions, Zenon DEF BlockAt, SentAt, TypeOK
<1>u. ASSUME UNCHANGED <<rx_ring_front, rx_ring_alloc>>, rx_ring'[s].block_idx = rx_ring[s].block_idx
      PROVE  FALSE
  BY <1>u, Zenon DEF Leaves, Live
(* the end of a loop that sent the block from its cursor on *)
<1>e. ASSUME RemoveFront, rx_ring_alloc > 0, NextToSend(rx_ring_front) = fec_k
      PROVE  ReceivedIsSent(s)
  <2>1. s = rx_ring_front
    BY <1>e, RemoveLive, Zenon DEF Leaves, RemoveFront
  <2>. QED  BY <1>e, <1>p, <2>1, Zenon DEF Complete, SentSoFar, ReceivedIsSent
(* the end of a flush *)
<1>f. ASSUME s = rx_ring_front, fec_k \in Nat, f_idx \in Nat, f_idx >= fec_k,
             pc = "override" \/ (pc = "flush" /\ nrm > 0), rx_ring[s].has_fragments < fec_k
      PROVE  ReceivedIsSent(s)
  <2>1. \A f \in 0 .. fec_k - 1 : f \in 0 .. f_idx - 1
    BY <1>f, SmallNumbers, Zenon
  <2>2. ~(rx_ring[s].has_fragments >= fec_k)
    BY <1>f, <1>p, SmallNumbers, Zenon
  <2>. QED  BY <1>f, <1>p, <2>1, <2>2, Zenon DEF Complete, SentSoFar, ReceivedIsSent
<1>1. ASSUME NEW p \in Packets, ProcessSession(p) PROVE ReceivedIsSent(s)
  BY <1>1, <1>u, Zenon DEF ProcessSession, init_fec, ring
<1>2. ASSUME NEW p \in Packets, ProcessKnownBlock(p) \/ ProcessNewBlock(p) PROVE ReceivedIsSent(s)
  BY <1>2, <1>u, Zenon DEF ProcessKnownBlock, ProcessNewBlock, ring
<1>3. CASE RingPush
  <2>1. s \in Live' /\ s # ring_idx'
    BY <1>3, PushLive, Zenon
  <2>2. rx_ring'[s] = rx_ring[s]
    BY <1>3, <1>p, <2>1, Zenon DEF RingPush, PushInto, TypeOK, IsRing
  <2>. QED  BY <2>1, <2>2, Zenon DEF Leaves
<1>4. CASE RingOverflow \/ FlushFragment \/ GapFound \/ KeepWaiting \/ DuplicateFragment \/ StartRecovery
  BY <1>4, <1>u, Zenon DEF RingOverflow, FlushFragment, GapFound, KeepWaiting, DuplicateFragment, StartRecovery, ring
<1>5. CASE RingOverride
  <2>1. s = rx_ring_front
    <3>1. Live' = Live
      BY <1>5, OverrideLive, Zenon
    <3>2. s # rx_ring_front => rx_ring'[s] = rx_ring[s]
      BY <1>5, <1>p, Zenon DEF RingOverride, PushInto, TypeOK, IsRing
    <3>. QED  BY <3>1, <3>2, Zenon DEF Leaves
  <2>2. f_idx >= fec_k /\ f_idx \in Nat /\ fec_k \in Nat /\ pc = "override"
    BY <1>5, Zenon DEF RingOverride, TypeOK
  <2>3. rx_ring[s].has_fragments < fec_k
    BY <2>2, Zenon DEF Complete, OnlyOneComplete
  <2>. QED  BY <1>f, <2>1, <2>2, <2>3, Zenon
<1>6. CASE StoreFragment
  <2>1. ring_idx \in Slots
    <3>1. PICK c \in 0 .. rx_ring_alloc - 1 : ring_idx = SlotOf(c)
      BY <1>6, Zenon DEF StoreFragment, RingInvariant, LocalsInRing
    <3>2. c \in 0 .. RX_RING_SIZE
      BY <1>p, SmallNumbers, Zenon
    <3>. QED  BY <3>1, <3>2, RingPositions, Zenon
  <2>2. rx_ring'[s].block_idx = rx_ring[s].block_idx
    <3>1. rx_ring' = [rx_ring EXCEPT ![ring_idx] = WithFragment(@, pkt.frag, pkt.body)] /\ IsRing(rx_ring)
      BY <1>6, Zenon DEF StoreFragment, TypeOK
    <3>. QED  BY <1>p, <2>1, <3>1, RingStored, SMTT(60)
  <2>. QED  BY <1>6, <1>u, <2>2, Zenon DEF StoreFragment
<1>7. CASE SendInOrder \/ SendRecovered
  <2>1. /\ ring_idx \in Slots
        /\ rx_ring' = [rx_ring EXCEPT ![ring_idx].fragment_to_send_idx = @ + 1]
    BY <1>7, <1>p, Zenon DEF SendInOrder, SendRecovered, RingInvariant, LocalsInRing
  <2>2. rx_ring'[s].block_idx = rx_ring[s].block_idx
    BY <1>p, <2>1, SlotSent, Zenon
  <2>. QED  BY <1>7, <1>u, <2>2, Zenon DEF SendInOrder, SendRecovered
<1>8. CASE AllSentInOrder \/ RecoveredBlock
  <2>1. rx_ring_alloc > 0 /\ ring_idx = rx_ring_front
    BY <1>8, <1>p, Zenon DEF AllSentInOrder, RecoveredBlock, RingInvariant, LocalsInRing
  <2>. QED  BY <1>8, <1>e, <2>1, Zenon DEF AllSentInOrder, RecoveredBlock
<1>9. CASE FlushedBlock
  <2>1. /\ nrm \in Nat /\ nrm > 0 /\ nrm < rx_ring_alloc /\ ring_idx = SlotOf(nrm) /\ pc = "flush"
        /\ f_idx >= fec_k /\ f_idx \in Nat /\ fec_k \in Nat /\ nrm \in 0 .. RX_RING_SIZE - 1
    <3>1. pc = "flush" /\ nrm > 0 /\ f_idx >= fec_k
      BY <1>9, Zenon DEF FlushedBlock
    <3>2. nrm < rx_ring_alloc /\ ring_idx = SlotOf(nrm)
      BY <3>1, Zenon DEF RingInvariant, LocalsInRing
    <3>3. pc # "idle"
      BY <3>1, Zenon
    <3>4. fec_k \in Nat \ {0} /\ f_idx \in Nat /\ nrm \in 0 .. RX_RING_SIZE - 1
      BY <3>3, Zenon DEF TypeOK
    <3>5. nrm \in Nat /\ fec_k \in Nat
      BY <3>4, SmallNumbers, Zenon
    <3>. QED  BY <3>1, <3>2, <3>4, <3>5, Zenon
  <2>2. s = rx_ring_front
    <3>1. rx_ring_alloc > 0
      BY <1>p, <2>1, SmallNumbers, Zenon
    <3>. QED  BY <1>9, <3>1, RemoveLive, Zenon DEF FlushedBlock, Leaves, RemoveFront
  <2>3. s # ring_idx
    <3>1. 0 \in 0 .. RX_RING_SIZE - 1 /\ nrm \in 0 .. RX_RING_SIZE - 1 /\ nrm # 0
      BY <2>1, SmallNumbers, Zenon
    <3>. QED  BY <1>p, <2>1, <2>2, <3>1, LiveSlots, Zenon
  <2>4. rx_ring[s].has_fragments < fec_k
    BY <2>3, Zenon DEF Complete, OnlyOneComplete
  <2>. QED  BY <1>f, <2>1, <2>2, <2>4, Zenon
<1>. QED
  BY <1>1, <1>2, <1>3, <1>4, <1>5, <1>6, <1>7, <1>8, <1>9, Zenon DEF Next, Continue, ProcessPacket

(* For any ring size and any packets: a block leaves the ring (completed,    *)
(* flushed by a newer one, or overridden on overflow) only after every data  *)
(* packet received for it was sent, and after all K of them were if K of its *)
(* fragments had arrived.                                                    *)
THEOREM NothingReceivedIsDroppedHolds == Spec => NothingReceivedIsDropped
<1> DEFINE A == session_key' = session_key =>
                  \A s \in Live :
                    LET b == rx_ring[s].block_idx
                        left == s \notin Live' \/ rx_ring'[s].block_idx # b
                    IN  left => \A f \in 0 .. fec_k - 1 :
                                  Has(s, f) \/ rx_ring[s].has_fragments >= fec_k => <<b, f>> \in Sent
<1>1. TypeOK /\ TypeOK' /\ RingInvariant /\ Complete /\ [Next]_vars => [A]_vars
  BY LeavingIsSent, Zenon DEF Leaves, ReceivedIsSent
<1>. QED  BY <1>1, Inductive, CompleteHolds, PTL DEF Spec, NothingReceivedIsDropped

=============================================================================
