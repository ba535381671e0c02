------------------------ MODULE ServerSchedulerProofs ------------------------
(* The queues, the flags and the watchdog of the scheduler, for every set of  *)
(* nodes, interleave ratio and report                                         *)
EXTENDS ServerScheduler, TLAPS, WellFoundedInduction

-----------------------------------------------------------------------------
(* Induction over the natural numbers, with a set for the predicate: the     *)
(* numbers that are not in it would have a least one.                        *)
LEMMA LeastNumber ==
    ASSUME NEW T \in SUBSET Nat, T # {}
    PROVE  \E x \in T : \A y \in T : x <= y
<1> DEFINE R == OpToRel(<, Nat)
<1>1. IsWellFoundedOn(R, Nat)
  BY NatLessThanWellFounded, Zenon
<1>2. \A x, y \in Nat : ~(<<y, x>> \in R) => x <= y
  BY DEF OpToRel
<1>. HIDE DEF R
<1>3. \E x \in T : \A y \in T : ~(<<y, x>> \in R)
  BY <1>1, WFMin, Zenon
<1>. QED  BY <1>2, <1>3, Zenon

(* The same as a rule: what holds of 0 and of i + 1 whenever it holds of i   *)
(* holds of every index up to n, as in the loop of std::remove.              *)
LEMMA IndexInduction ==
    ASSUME NEW n \in Nat, NEW T, 0 \in T, \A i \in 0 .. n - 1 : i \in T => i + 1 \in T
    PROVE  0 .. n \subseteq T
<1> DEFINE missing == (0 .. n) \ T
<1>. SUFFICES ASSUME missing # {} PROVE FALSE
  BY Zenon
<1>1. missing \in SUBSET Nat
  OBVIOUS
<1>2. PICK x \in missing : \A y \in missing : x <= y
  BY <1>1, LeastNumber, Zenon
<1>3. x \in 1 .. n /\ x - 1 \in 0 .. n - 1
  BY <1>2
<1>4. x - 1 \in T
  BY <1>2, <1>3
<1>. QED  BY <1>2, <1>3, <1>4

-----------------------------------------------------------------------------
(* A queue with node_id at its end: who waits, and that each waits once *)
LEMMA AppendQueue ==
    ASSUME NEW S, NEW q \in Seq(S), NEW e \in S
    PROVE  /\ Append(q, e) \in Seq(S)
           /\ Range(Append(q, e)) = Range(q) \cup {e}
           /\ IsInjective(q) /\ e \notin Range(q) => IsInjective(Append(q, e))
<1> DEFINE a == Append(q, e)
<1>1. /\ a \in Seq(S) /\ Len(q) \in Nat
      /\ DOMAIN q = 1 .. Len(q) /\ DOMAIN a = 1 .. Len(q) + 1
      /\ \A i \in 1 .. Len(q) : a[i] = q[i]
      /\ a[Len(q) + 1] = e
  OBVIOUS
<1>. HIDE DEF a
<1>2. Range(a) = Range(q) \cup {e}
  BY <1>1 DEF Range
<1>3. ASSUME IsInjective(q), e \notin Range(q) PROVE IsInjective(a)
  BY <1>1, <1>3 DEF Range, IsInjective
<1>. QED  BY <1>1, <1>2, <1>3, Zenon DEF a

(* The head goes to the tail: the same nodes wait, each once. *)
LEMMA RotatedQueue ==
    ASSUME NEW S, NEW q \in Seq(S), q # << >>
    PROVE  /\ Manager!Rotated(q) \in Seq(S)
           /\ Range(Manager!Rotated(q)) = Range(q)
           /\ IsInjective(q) => IsInjective(Manager!Rotated(q))
           /\ Head(q) \in Range(q) /\ Head(q) \in S
<1> DEFINE r == Manager!Rotated(q)
<1>1. /\ r \in Seq(S) /\ Len(q) \in Nat /\ Len(q) > 0
      /\ DOMAIN q = 1 .. Len(q) /\ DOMAIN r = 1 .. Len(q)
      /\ \A i \in 1 .. Len(q) - 1 : r[i] = q[i + 1]
      /\ r[Len(q)] = q[1] /\ Head(q) = q[1]
  BY DEF Manager!Rotated
<1>. HIDE DEF r
<1>2. Range(r) \subseteq Range(q)
  BY <1>1, SMTT(60) DEF Range
<1>3. ASSUME NEW i \in 1 .. Len(q) PROVE q[i] \in Range(r)
  <2>1. CASE i = 1
    BY <1>1, <2>1 DEF Range
  <2>2. CASE i # 1
    <3>1. i - 1 \in 1 .. Len(q) - 1 /\ i - 1 \in DOMAIN r /\ r[i - 1] = q[i]
      BY <1>1, <2>2
    <3>. QED  BY <3>1, Zenon DEF Range
  <2>. QED  BY <2>1, <2>2, Zenon
<1>4. Range(q) \subseteq Range(r)
  BY <1>1, <1>3, Zenon DEF Range
<1>5. ASSUME IsInjective(q) PROVE IsInjective(r)
  BY <1>1, <1>5, SMTT(60) DEF IsInjective
<1>6. Head(q) \in Range(q) /\ Head(q) \in S
  BY <1>1 DEF Range
<1>. QED  BY <1>1, <1>2, <1>4, <1>5, <1>6, Zenon DEF r

(* std::remove as a loop over the queue: kept holds the result after each step *)
IsKept(g, q, e, n) ==
    g = [i \in 0 .. n |-> IF i = 0 THEN << >>
                          ELSE IF q[i] = e THEN g[i - 1]
                          ELSE Append(g[i - 1], q[i])]

(* The loop is well defined: a result for n elements extends to n + 1. *)
LEMMA KeptExists ==
    ASSUME NEW q, NEW e, NEW n \in Nat
    PROVE  \E g : IsKept(g, q, e, n)
<1> DEFINE T == {m \in Nat : \E g : IsKept(g, q, e, m)}
<1>1. 0 \in T
  <2> DEFINE g == [i \in 0 .. 0 |-> << >>]
  <2>1. IsKept(g, q, e, 0)
    BY DEF IsKept
  <2>. QED  BY <2>1, Zenon
<1>2. ASSUME NEW m \in 0 .. n - 1, m \in T PROVE m + 1 \in T
  <2>1. PICK g : IsKept(g, q, e, m)
    BY <1>2, Zenon
  <2> DEFINE last == IF q[m + 1] = e THEN g[m] ELSE Append(g[m], q[m + 1])
  <2> DEFINE h == [i \in 0 .. m + 1 |-> IF i <= m THEN g[i] ELSE last]
  <2>2. \A i \in 0 .. m : g[i] = IF i = 0 THEN << >> ELSE IF q[i] = e THEN g[i - 1] ELSE Append(g[i - 1], q[i])
    BY <2>1, Zenon DEF IsKept
  <2>3. /\ DOMAIN h = 0 .. m + 1
        /\ \A i \in 0 .. m : h[i] = g[i]
        /\ h[m + 1] = last
    OBVIOUS
  <2>. HIDE DEF h
  <2>4. \A i \in 0 .. m + 1 : h[i] = IF i = 0 THEN << >> ELSE IF q[i] = e THEN h[i - 1] ELSE Append(h[i - 1], q[i])
    <3>. SUFFICES ASSUME NEW i \in 0 .. m + 1
                  PROVE  h[i] = IF i = 0 THEN << >> ELSE IF q[i] = e THEN h[i - 1] ELSE Append(h[i - 1], q[i])
      BY Zenon
    <3>1. CASE i = 0
      BY <2>2, <2>3, <3>1
    <3>2. CASE i \in 1 .. m
      <4>1. h[i] = g[i] /\ h[i - 1] = g[i - 1] /\ i # 0
        BY <2>3, <3>2
      <4>. QED  BY <2>2, <3>2, <4>1
    <3>3. CASE i = m + 1
      <4>1. h[i - 1] = g[m] /\ i # 0 /\ h[i] = last
        BY <2>3, <3>3
      <4>. QED  BY <3>3, <4>1, Zenon
    <3>. QED  BY <3>1, <3>2, <3>3
  <2>5. IsKept(h, q, e, m + 1)
    <3>1. h = [i \in 0 .. m + 1 |-> h[i]]
      BY Zenon DEF h
    <3>. QED  BY <2>4, <3>1, Zenon DEF IsKept
  <2>. QED  BY <2>5
<1>3. 0 .. n \subseteq T
  <2>. HIDE DEF T
  <2>. QED  BY <1>1, <1>2, IndexInduction, Zenon
<1>. QED  BY <1>3

(* What erase(remove()) leaves in the queue: the others, each still once *)
LEMMA WithoutQueue ==
    ASSUME NEW S, NEW q \in Seq(S), NEW e
    PROVE  /\ Manager!Without(q, e) \in Seq(S)
           /\ Range(Manager!Without(q, e)) = Range(q) \ {e}
           /\ IsInjective(q) => IsInjective(Manager!Without(q, e))
<1> DEFINE n == Len(q)
<1> DEFINE g == CHOOSE h : IsKept(h, q, e, n)
<1> DEFINE FirstOf(i) == {q[j] : j \in 1 .. i}
<1> DEFINE Good(i) == /\ g[i] \in Seq(S)
                      /\ Range(g[i]) = FirstOf(i) \ {e}
                      /\ IsInjective(q) => IsInjective(g[i])
<1> DEFINE T == {i \in 0 .. n : Good(i)}
<1>0. n \in Nat /\ DOMAIN q = 1 .. n /\ \A i \in 1 .. n : q[i] \in S
  OBVIOUS
<1>1. Manager!Without(q, e) = g[n]
  BY Zenon DEF Manager!Without, IsKept
<1>2. IsKept(g, q, e, n)
  BY <1>0, KeptExists, Zenon
<1>. HIDE DEF n, g
<1>3. /\ g[0] = << >>
      /\ \A i \in 1 .. n : g[i] = IF q[i] = e THEN g[i - 1] ELSE Append(g[i - 1], q[i])
  <2>1. \A i \in 0 .. n : g[i] = IF i = 0 THEN << >> ELSE IF q[i] = e THEN g[i - 1] ELSE Append(g[i - 1], q[i])
    BY <1>2, Zenon DEF IsKept
  <2>2. 0 \in 0 .. n /\ \A i \in 1 .. n : i \in 0 .. n /\ i # 0
    BY <1>0
  <2>. QED  BY <2>1, <2>2, Zenon
<1>4. 0 \in T
  <2>1. << >> \in Seq(S) /\ Range(<< >>) = {} /\ IsInjective(<< >>)
    BY DEF Range, IsInjective
  <2>2. FirstOf(0) = {}
    OBVIOUS
  <2>3. Good(0)
    BY <1>3, <2>1, <2>2, Zenon
  <2>. QED  BY <1>0, <2>3
<1>5. ASSUME NEW i \in 0 .. n - 1, i \in T PROVE i + 1 \in T
  <2>1. i + 1 \in 1 .. n /\ q[i + 1] \in S /\ Good(i)
    BY <1>0, <1>5
  <2>2. g[i + 1] = IF q[i + 1] = e THEN g[i] ELSE Append(g[i], q[i + 1])
    BY <1>0, <1>3, <2>1
  <2>3. FirstOf(i + 1) = FirstOf(i) \cup {q[i + 1]}
    BY <1>0
  <2>4. IsInjective(q) => q[i + 1] \notin FirstOf(i)
    BY <1>0 DEF IsInjective
  <2>. HIDE DEF FirstOf
  <2>5. CASE q[i + 1] = e
    BY <1>0, <2>1, <2>2, <2>3, <2>5, SMTT(60)
  <2>6. CASE q[i + 1] # e
    <3>1. /\ g[i + 1] \in Seq(S) /\ Range(g[i + 1]) = Range(g[i]) \cup {q[i + 1]}
          /\ IsInjective(g[i]) /\ q[i + 1] \notin Range(g[i]) => IsInjective(g[i + 1])
      BY <2>1, <2>2, <2>6, AppendQueue, SMTT(60)
    <3>. QED  BY <1>0, <2>1, <2>3, <2>4, <2>6, <3>1, SMTT(60)
  <2>. QED  BY <2>5, <2>6, Zenon
<1>6. 0 .. n \subseteq T
  <2>. HIDE DEF T
  <2>. QED  BY <1>0, <1>4, <1>5, IndexInduction, Zenon
<1>7. FirstOf(n) = Range(q)
  BY <1>0, Zenon DEF Range
<1>. QED  BY <1>0, <1>1, <1>6, <1>7, SMTT(60)

-----------------------------------------------------------------------------
(* The inductive invariant: the values the C++ types allow, *)
SchedulerType ==
    /\ aq \in Seq(Nodes) /\ sq \in Seq(Nodes)
    /\ aq_served \in 0 .. INTERLEAVE_RATIO /\ unprobed \in Nat
    /\ nodes \in [Nodes -> [silence_count : Nat, current_state : {"STATE_I", "STATE_II", "STATE_III"},
                            current_window : Nat, in_aq : BOOLEAN]]
    /\ silent \in [Nodes -> Nat]

(* every registered node waits in one queue, once, and in the set beside it, *)
QueuesMatchSets ==
    /\ Range(aq) = in_aq_set /\ Range(sq) = in_sq_set
    /\ IsInjective(aq) /\ IsInjective(sq)
    /\ in_aq_set \cap in_sq_set = {}

(* its state says which, *)
FlagsMatchSets ==
    \A n \in in_aq_set \cup in_sq_set :
        /\ nodes[n].in_aq <=> n \in in_aq_set
        /\ nodes[n].in_aq <=> nodes[n].current_state # "STATE_I"
        /\ ~nodes[n].in_aq => nodes[n].current_window = MIN_WINDOW

(* the node a window was granted to is registered, *)
ServedIsRegistered == serving # NoService => serving.node_id \in in_aq_set \cup in_sq_set

(* a probe is due no later than aq_served says, *)
ProbeDue == unprobed <= aq_served

(* and the watchdog of a node that is awake has counted its silent windows. *)
SilencesCounted ==
    \A n \in in_aq_set : nodes[n].silence_count = silent[n] /\ silent[n] < 3

SchedulerInvariant ==
    /\ SchedulerType /\ QueuesMatchSets /\ FlagsMatchSets
    /\ ServedIsRegistered /\ ProbeDue /\ SilencesCounted

-----------------------------------------------------------------------------
(* A node that has traffic goes to the end of the active queue, once. *)
LEMMA MigrateToAq ==
    ASSUME SchedulerType, QueuesMatchSets, NEW n \in in_aq_set \cup in_sq_set, n \in Nodes,
           Manager!migrate_to_aq(n)
    PROVE  /\ aq' \in Seq(Nodes) /\ sq' \in Seq(Nodes)
           /\ in_aq_set' = in_aq_set \cup {n} /\ in_sq_set' = in_sq_set \ {n}
           /\ QueuesMatchSets'
           /\ UNCHANGED <<aq_served, next_node, unprobed>>
<1> USE DEF Manager!migrate_to_aq, Manager!queues, SchedulerType, QueuesMatchSets
<1>1. CASE n \in in_aq_set
  BY <1>1, Zenon
<1>2. CASE n \notin in_aq_set
  <2>1. /\ sq' = Manager!Without(sq, n) /\ in_sq_set' = in_sq_set \ {n}
        /\ aq' = Append(aq, n) /\ in_aq_set' = in_aq_set \cup {n}
        /\ UNCHANGED <<aq_served, next_node, unprobed>>
    BY <1>2, Zenon
  <2>2. /\ aq' \in Seq(Nodes) /\ Range(aq') = Range(aq) \cup {n}
        /\ IsInjective(aq) /\ n \notin Range(aq) => IsInjective(aq')
    BY <2>1, AppendQueue
  <2>3. /\ sq' \in Seq(Nodes) /\ Range(sq') = Range(sq) \ {n}
        /\ IsInjective(sq) => IsInjective(sq')
    BY <2>1, WithoutQueue, Zenon
  <2>. QED  BY <1>2, <2>1, <2>2, <2>3, Zenon
<1>. QED  BY <1>1, <1>2, Zenon

(* A node the watchdog gives up goes to the end of the sleep queue, once. *)
LEMMA MigrateToSq ==
    ASSUME SchedulerType, QueuesMatchSets, NEW n \in in_aq_set \cup in_sq_set, n \in Nodes,
           Manager!migrate_to_sq(n)
    PROVE  /\ aq' \in Seq(Nodes) /\ sq' \in Seq(Nodes)
           /\ in_aq_set' = in_aq_set \ {n} /\ in_sq_set' = in_sq_set \cup {n}
           /\ QueuesMatchSets'
           /\ UNCHANGED <<aq_served, next_node, unprobed>>
<1> USE DEF Manager!migrate_to_sq, Manager!queues, SchedulerType, QueuesMatchSets
<1>1. CASE n \in in_sq_set
  BY <1>1, Zenon
<1>2. CASE n \notin in_sq_set
  <2>1. /\ aq' = Manager!Without(aq, n) /\ in_aq_set' = in_aq_set \ {n}
        /\ sq' = Append(sq, n) /\ in_sq_set' = in_sq_set \cup {n}
        /\ UNCHANGED <<aq_served, next_node, unprobed>>
    BY <1>2, Zenon
  <2>2. /\ sq' \in Seq(Nodes) /\ Range(sq') = Range(sq) \cup {n}
        /\ IsInjective(sq) /\ n \notin Range(sq) => IsInjective(sq')
    BY <2>1, AppendQueue
  <2>3. /\ aq' \in Seq(Nodes) /\ Range(aq') = Range(aq) \ {n}
        /\ IsInjective(aq) => IsInjective(aq')
    BY <2>1, WithoutQueue, Zenon
  <2>. QED  BY <1>2, <2>1, <2>2, <2>3, Zenon
<1>. QED  BY <1>1, <1>2, Zenon

(* get_next_node() rotates a queue and never more than aq_served services    *)
(* pass without a probe; the node it returns is registered.                  *)
LEMMA GetNextNode ==
    ASSUME SchedulerType, QueuesMatchSets, ProbeDue, Manager!get_next_node
    PROVE  /\ aq' \in Seq(Nodes) /\ sq' \in Seq(Nodes)
           /\ UNCHANGED <<in_aq_set, in_sq_set>>
           /\ QueuesMatchSets'
           /\ aq_served' \in 0 .. INTERLEAVE_RATIO /\ unprobed' \in Nat
           /\ ProbeDue'
           /\ next_node'.node_id = INVALID_NODE \/ next_node'.node_id \in in_aq_set \cup in_sq_set
<1> USE SchedulerConstants DEF SchedulerType, QueuesMatchSets, ProbeDue
<1>1. CASE Manager!NoNode
  BY <1>1, Zenon DEF Manager!NoNode, Manager!queues
<1>2. ASSUME Manager!ServeSq, sq # << >>
      PROVE  /\ sq' \in Seq(Nodes) /\ Range(sq') = Range(sq) /\ IsInjective(sq')
             /\ UNCHANGED <<aq, in_aq_set, in_sq_set>> /\ unprobed' = 0
             /\ next_node'.node_id \in in_sq_set
  <2>1. /\ Manager!Rotated(sq) \in Seq(Nodes) /\ Range(Manager!Rotated(sq)) = Range(sq)
        /\ IsInjective(Manager!Rotated(sq)) /\ Head(sq) \in Range(sq)
    BY <1>2, RotatedQueue, Zenon
  <2>. QED  BY <1>2, <2>1, Zenon DEF Manager!ServeSq
<1>3. CASE Manager!IdlePatrol
  BY <1>2, <1>3, SMTT(60) DEF Manager!IdlePatrol
<1>4. CASE Manager!ServeAq
  <2>1. /\ aq # << >>
        /\ sq = << >> \/ aq_served < INTERLEAVE_RATIO
        /\ aq' = Manager!Rotated(aq)
        /\ next_node'.node_id = Head(aq)
        /\ aq_served' = IF aq_served < INTERLEAVE_RATIO THEN aq_served + 1 ELSE aq_served
        /\ unprobed' = IF sq = << >> THEN 0 ELSE IF unprobed <= INTERLEAVE_RATIO THEN unprobed + 1 ELSE unprobed
        /\ UNCHANGED <<sq, in_aq_set, in_sq_set>>
    BY <1>4, Zenon DEF Manager!ServeAq, Manager!AqTurn
  <2>2. /\ Manager!Rotated(aq) \in Seq(Nodes) /\ Range(Manager!Rotated(aq)) = Range(aq)
        /\ IsInjective(Manager!Rotated(aq)) /\ Head(aq) \in Range(aq)
    BY <2>1, RotatedQueue, Zenon
  <2>3. aq_served' \in 0 .. INTERLEAVE_RATIO /\ unprobed' \in Nat /\ unprobed' <= aq_served'
    <3>. HIDE DEF QueuesMatchSets
    <3>1. INTERLEAVE_RATIO \in Nat /\ aq_served \in 0 .. INTERLEAVE_RATIO /\ unprobed \in 0 .. aq_served
      OBVIOUS
    <3>2. CASE sq = << >>
      BY <2>1, <3>1, <3>2
    <3>3. CASE sq # << >>
      <4>1. aq_served' = aq_served + 1 /\ unprobed' = unprobed + 1 /\ aq_served < INTERLEAVE_RATIO
        BY <2>1, <3>1, <3>3
      <4>. QED  BY <3>1, <4>1
    <3>. QED  BY <3>2, <3>3, Zenon
  <2>. QED  BY <2>1, <2>2, <2>3, Zenon
<1>5. CASE Manager!InterleavedProbe
  <2>1. sq # << >>
    BY <1>5, Zenon DEF Manager!InterleavedProbe, Manager!AqTurn
  <2>2. Manager!ServeSq /\ aq_served' = 0
    BY <1>5, Zenon DEF Manager!InterleavedProbe
  <2>. QED  BY <1>2, <2>1, <2>2, SMTT(60)
<1>. QED  BY <1>1, <1>3, <1>4, <1>5, Zenon DEF Manager!get_next_node

-----------------------------------------------------------------------------
(* Nobody is registered when the scheduler is constructed. *)
LEMMA SchedulerInit == Init => SchedulerInvariant
<1>. SUFFICES ASSUME Init PROVE SchedulerInvariant
  BY Zenon
<1> USE SchedulerConstants DEF Init, Constructed
<1>1. Range(<< >>) = {} /\ IsInjective(<< >>) /\ << >> \in Seq(Nodes)
  BY DEF Range, IsInjective
<1>2. nodes \in [Nodes -> [silence_count : Nat, current_state : {"STATE_I", "STATE_II", "STATE_III"},
                           current_window : Nat, in_aq : BOOLEAN]]
  BY Zenon DEF NodeState
<1>. QED
  BY <1>1, <1>2 DEF SchedulerInvariant, SchedulerType, QueuesMatchSets, FlagsMatchSets,
                    ServedIsRegistered, ProbeDue, SilencesCounted

(* A node enters the sleep queue with the state the constructor gives it. *)
LEMMA InitNodeStep ==
    ASSUME SchedulerInvariant, NEW n \in Nodes, init_node(n)
    PROVE  SchedulerInvariant' /\ UNCHANGED in_aq_set
<1> USE SchedulerConstants DEF SchedulerInvariant
<1>1. /\ n \notin in_aq_set \cup in_sq_set
      /\ nodes' = [nodes EXCEPT ![n] = NodeState]
      /\ sq' = Append(sq, n) /\ in_sq_set' = in_sq_set \cup {n}
      /\ UNCHANGED <<aq, in_aq_set, aq_served, next_node, unprobed, serving, silent>>
  BY Zenon DEF init_node, Manager!init_node
<1>2. /\ sq' \in Seq(Nodes) /\ Range(sq') = Range(sq) \cup {n}
      /\ IsInjective(sq) /\ n \notin Range(sq) => IsInjective(sq')
  BY <1>1, AppendQueue DEF SchedulerType
<1>3. QueuesMatchSets'
  BY <1>1, <1>2, Zenon DEF QueuesMatchSets
<1>4. /\ NodeState \in [silence_count : Nat, current_state : {"STATE_I", "STATE_II", "STATE_III"},
                        current_window : Nat, in_aq : BOOLEAN]
      /\ NodeState.in_aq = FALSE /\ NodeState.current_state = "STATE_I" /\ NodeState.current_window = MIN_WINDOW
  BY Zenon DEF NodeState
<1>. HIDE DEF NodeState
<1>5. SchedulerType'
  BY <1>1, <1>2, <1>4, Zenon DEF SchedulerType
<1>6. nodes'[n] = NodeState /\ \A m \in in_aq_set \cup in_sq_set : m # n /\ m \in Nodes /\ nodes'[m] = nodes[m]
  BY <1>1, SMTT(60) DEF SchedulerType, QueuesMatchSets, Range
<1>7. FlagsMatchSets'
  BY <1>1, <1>4, <1>6 DEF FlagsMatchSets
<1>8. ServedIsRegistered' /\ ProbeDue' /\ SilencesCounted'
  BY <1>1, <1>6, Zenon DEF ServedIsRegistered, ProbeDue, SilencesCounted
<1>. QED  BY <1>1, <1>3, <1>5, <1>7, <1>8, Zenon

(* Choosing the next node changes nobody's state. *)
LEMMA ServeStep ==
    ASSUME SchedulerInvariant, get_next_node_to_serve
    PROVE  SchedulerInvariant' /\ UNCHANGED in_aq_set
<1> USE DEF SchedulerInvariant
<1>1. Manager!get_next_node /\ UNCHANGED <<nodes, silent>>
  BY Zenon DEF get_next_node_to_serve
<1>2. /\ aq' \in Seq(Nodes) /\ sq' \in Seq(Nodes)
      /\ UNCHANGED <<in_aq_set, in_sq_set>>
      /\ QueuesMatchSets'
      /\ aq_served' \in 0 .. INTERLEAVE_RATIO /\ unprobed' \in Nat
      /\ ProbeDue'
      /\ next_node'.node_id = INVALID_NODE \/ next_node'.node_id \in in_aq_set \cup in_sq_set
  BY <1>1, GetNextNode, Zenon
<1>3. ServedIsRegistered'
  BY <1>2, Zenon DEF get_next_node_to_serve, ServedIsRegistered
<1>. QED  BY <1>1, <1>2, <1>3, Zenon DEF SchedulerType, FlagsMatchSets, SilencesCounted

(* Only nodes wait in the queues. *)
LEMMA RegisteredAreNodes ==
    ASSUME SchedulerType, QueuesMatchSets
    PROVE  in_aq_set \cup in_sq_set \subseteq Nodes
<1>1. DOMAIN aq = 1 .. Len(aq) /\ \A i \in 1 .. Len(aq) : aq[i] \in Nodes
  BY DEF SchedulerType
<1>2. DOMAIN sq = 1 .. Len(sq) /\ \A i \in 1 .. Len(sq) : sq[i] \in Nodes
  BY DEF SchedulerType
<1>. QED  BY <1>1, <1>2, Zenon DEF QueuesMatchSets, Range

(* What the report of a window does to the reported node alone *)
LEMMA ReportedNode ==
    ASSUME SchedulerInvariant, NEW u \in Windows, NEW a \in Windows, update_node_state(u, a),
           NEW n, n = serving.node_id
    PROVE  /\ n \in in_aq_set \cup in_sq_set /\ n \in Nodes
           /\ u < 5 => silent' = [silent EXCEPT ![n] = IF silent[n] + 1 <= 3 THEN silent[n] + 1 ELSE 3]
           /\ u >= 5 => silent' = [silent EXCEPT ![n] = 0]
<1>1. n \in in_aq_set \cup in_sq_set
  BY Zenon DEF update_node_state, SchedulerInvariant, ServedIsRegistered
<1>2. n \in Nodes
  BY <1>1, RegisteredAreNodes, Zenon DEF SchedulerInvariant
<1>4. min(silent[n] + 1, 3) = IF silent[n] + 1 <= 3 THEN silent[n] + 1 ELSE 3
  BY Zenon DEF min
<1>5. u >= 5 => ~(u < 5)
  BY SchedulerConstants
<1>6. silent' = [silent EXCEPT ![n] = IF u < 5 THEN min(silent[n] + 1, 3) ELSE 0]
  BY Zenon DEF update_node_state
<1>7. u < 5 => silent' = [silent EXCEPT ![n] = IF silent[n] + 1 <= 3 THEN silent[n] + 1 ELSE 3]
  BY <1>4, <1>6, Zenon
<1>8. u >= 5 => silent' = [silent EXCEPT ![n] = 0]
  BY <1>5, <1>6, Zenon
<1>. QED  BY <1>1, <1>2, <1>7, <1>8, Zenon

(* A silent window: the watchdog counts, and at three the node falls asleep. *)
LEMMA SilentStep ==
    ASSUME SchedulerInvariant, NEW n \in Nodes, n \in in_aq_set \cup in_sq_set,
           Silent(n), serving' = NoService,
           silent' = [silent EXCEPT ![n] = IF silent[n] + 1 <= 3 THEN silent[n] + 1 ELSE 3]
    PROVE  /\ SchedulerInvariant'
           /\ \A m \in in_aq_set : m \notin in_aq_set' => silent'[m] = 3
<1> DEFINE count == (nodes[n].silence_count + 1) % SilenceWrap
<1> DEFINE Rec == [silence_count : Nat, current_state : {"STATE_I", "STATE_II", "STATE_III"},
                   current_window : Nat, in_aq : BOOLEAN]
<1> USE SchedulerConstants DEF SchedulerInvariant
<1>1. nodes \in [Nodes -> Rec] /\ nodes[n] \in Rec /\ silent \in [Nodes -> Nat] /\ silent[n] \in Nat
  BY Zenon DEF SchedulerType
<1>2. count \in Nat
  BY <1>1
<1>3. n \in in_aq_set => count = silent[n] + 1 /\ silent[n] < 3
  <2>. SUFFICES ASSUME n \in in_aq_set PROVE count = silent[n] + 1 /\ silent[n] < 3
    BY Zenon
  <2>1. nodes[n].silence_count = silent[n] /\ silent[n] < 3
    BY Zenon DEF SilencesCounted
  <2>2. \A x \in 0 .. 2 : (x + 1) % SilenceWrap = x + 1
    OBVIOUS
  <2>. QED  BY <1>1, <2>1, <2>2, SMTT(60)
<1>4. \A m \in in_aq_set \cup in_sq_set : m \in Nodes
  BY RegisteredAreNodes, Zenon
<1>5. /\ silent' \in [Nodes -> Nat]
      /\ silent'[n] = IF silent[n] + 1 <= 3 THEN silent[n] + 1 ELSE 3
      /\ \A m \in Nodes \ {n} : silent'[m] = silent[m]
  BY <1>1
<1>6. ServedIsRegistered'
  BY Zenon DEF ServedIsRegistered, NoService
<1>. HIDE DEF count
<1>7. CASE count >= 3
  <2> DEFINE r == [silence_count |-> count, current_state |-> "STATE_I",
                   current_window |-> MIN_WINDOW, in_aq |-> FALSE]
  <2>1. nodes' = [nodes EXCEPT ![n] = r] /\ Manager!migrate_to_sq(n)
    BY <1>7, Zenon DEF Silent, count
  <2>2. /\ aq' \in Seq(Nodes) /\ sq' \in Seq(Nodes)
        /\ in_aq_set' = in_aq_set \ {n} /\ in_sq_set' = in_sq_set \cup {n}
        /\ QueuesMatchSets'
        /\ UNCHANGED <<aq_served, next_node, unprobed>>
    BY <2>1, MigrateToSq, Zenon
  <2>3. r \in Rec /\ r.in_aq = FALSE /\ r.current_state = "STATE_I" /\ r.current_window = MIN_WINDOW
    BY <1>2, Zenon
  <2>. HIDE DEF r, Rec
  <2>4. nodes' \in [Nodes -> Rec] /\ nodes'[n] = r /\ \A m \in Nodes \ {n} : nodes'[m] = nodes[m]
    BY <1>1, <2>1, <2>3, Zenon
  <2>5. SchedulerType'
    BY <1>5, <2>2, <2>4, Zenon DEF SchedulerType, Rec
  <2>6. FlagsMatchSets'
    BY <1>4, <2>2, <2>3, <2>4, SMTT(60) DEF FlagsMatchSets
  <2>7. ProbeDue' /\ SilencesCounted'
    BY <1>4, <1>5, <2>2, <2>4, ZenonT(60) DEF ProbeDue, SilencesCounted
  <2>8. \A m \in in_aq_set : m \notin in_aq_set' => silent'[m] = 3
    BY <1>1, <1>3, <1>5, <1>7, <2>2
  <2>. QED  BY <1>6, <2>2, <2>5, <2>6, <2>7, <2>8, Zenon
<1>8. CASE count < 3
  <2> DEFINE r == [nodes[n] EXCEPT !.silence_count = count]
  <2>1. nodes' = [nodes EXCEPT ![n] = r] /\ UNCHANGED manager
    BY <1>2, <1>8 DEF Silent, count
  <2>2. /\ r \in Rec /\ r.silence_count = count /\ r.in_aq = nodes[n].in_aq
        /\ r.current_state = nodes[n].current_state /\ r.current_window = nodes[n].current_window
    BY <1>1, <1>2, Zenon
  <2>. HIDE DEF r, Rec
  <2>3. nodes' \in [Nodes -> Rec] /\ nodes'[n] = r /\ \A m \in Nodes \ {n} : nodes'[m] = nodes[m]
    BY <1>1, <2>1, <2>2, Zenon
  <2>4. UNCHANGED <<aq, sq, in_aq_set, in_sq_set, aq_served, unprobed>>
    BY <2>1, Zenon DEF manager
  <2>5. SchedulerType'
    BY <1>5, <2>3, <2>4, Zenon DEF SchedulerType, Rec
  <2>6. QueuesMatchSets' /\ ProbeDue'
    BY <2>4, Zenon DEF QueuesMatchSets, ProbeDue
  <2>7. FlagsMatchSets'
    BY <1>4, <2>2, <2>3, <2>4, SMTT(60) DEF FlagsMatchSets
  <2>8. SilencesCounted'
    BY <1>1, <1>3, <1>4, <1>5, <1>8, <2>2, <2>3, <2>4, SMTT(60) DEF SilencesCounted
  <2>. QED  BY <1>6, <2>4, <2>5, <2>6, <2>7, <2>8, Zenon
<1>. QED  BY <1>2, <1>7, <1>8, SMTT(60)

(* A used window: the node is awake, and its silences are forgotten. *)
LEMMA ActiveStep ==
    ASSUME SchedulerInvariant, NEW n \in Nodes, n \in in_aq_set \cup in_sq_set,
           NEW state \in {"STATE_II", "STATE_III"}, NEW window \in Nat,
           Active(n, state, window), serving' = NoService, silent' = [silent EXCEPT ![n] = 0]
    PROVE  SchedulerInvariant' /\ in_aq_set \subseteq in_aq_set'
<1> DEFINE Rec == [silence_count : Nat, current_state : {"STATE_I", "STATE_II", "STATE_III"},
                   current_window : Nat, in_aq : BOOLEAN]
<1> DEFINE r == [silence_count |-> 0, current_state |-> state, current_window |-> window, in_aq |-> TRUE]
<1> USE SchedulerConstants DEF SchedulerInvariant
<1>1. nodes \in [Nodes -> Rec] /\ silent \in [Nodes -> Nat]
  BY Zenon DEF SchedulerType
<1>2. nodes' = [nodes EXCEPT ![n] = r] /\ Manager!migrate_to_aq(n)
  BY Zenon DEF Active
<1>3. /\ aq' \in Seq(Nodes) /\ sq' \in Seq(Nodes)
      /\ in_aq_set' = in_aq_set \cup {n} /\ in_sq_set' = in_sq_set \ {n}
      /\ QueuesMatchSets'
      /\ UNCHANGED <<aq_served, next_node, unprobed>>
  BY <1>2, MigrateToAq, Zenon
<1>4. r \in Rec /\ r.silence_count = 0 /\ r.in_aq = TRUE /\ r.current_state # "STATE_I"
  BY Zenon
<1>5. \A m \in in_aq_set \cup in_sq_set : m \in Nodes
  BY RegisteredAreNodes, Zenon
<1>. HIDE DEF r, Rec
<1>6. nodes' \in [Nodes -> Rec] /\ nodes'[n] = r /\ \A m \in Nodes \ {n} : nodes'[m] = nodes[m]
  BY <1>1, <1>2, <1>4, Zenon
<1>7. silent' \in [Nodes -> Nat] /\ silent'[n] = 0 /\ \A m \in Nodes \ {n} : silent'[m] = silent[m]
  BY <1>1, Zenon
<1>8. SchedulerType'
  BY <1>3, <1>6, <1>7, Zenon DEF SchedulerType, Rec
<1>9. FlagsMatchSets'
  BY <1>3, <1>4, <1>5, <1>6, ZenonT(60) DEF FlagsMatchSets
<1>10. ProbeDue' /\ SilencesCounted' /\ ServedIsRegistered'
  BY <1>3, <1>4, <1>5, <1>6, <1>7, SMTT(60) DEF ProbeDue, SilencesCounted, ServedIsRegistered, NoService
<1>. QED  BY <1>3, <1>8, <1>9, <1>10, Zenon

(* update_node_state(): whatever was used of whatever was allotted *)
LEMMA UpdateStep ==
    ASSUME SchedulerInvariant, NEW u \in Windows, NEW a \in Windows, update_node_state(u, a)
    PROVE  /\ SchedulerInvariant'
           /\ \A m \in in_aq_set : m \notin in_aq_set' => silent'[m] = 3
<1> DEFINE n == serving.node_id
<1>1. /\ n \in in_aq_set \cup in_sq_set /\ n \in Nodes
      /\ u < 5 => silent' = [silent EXCEPT ![n] = IF silent[n] + 1 <= 3 THEN silent[n] + 1 ELSE 3]
      /\ u >= 5 => silent' = [silent EXCEPT ![n] = 0]
  BY ReportedNode, Zenon
<1>2. serving' = NoService /\ calculate_next_window(n, u, a)
  BY Zenon DEF update_node_state
<1>3. get_max_window \in Nat /\ a + STEP_UP \in Nat /\ u + ELASTIC_MARGIN \in Nat /\ MIN_WINDOW \in Nat
  BY SchedulerConstants DEF get_max_window
<1>4. min(a + STEP_UP, get_max_window) \in Nat
  BY <1>3, Zenon DEF min
<1>5. max(u + ELASTIC_MARGIN, MIN_WINDOW) \in Nat
  BY <1>3, Zenon DEF max
<1>. HIDE DEF n
<1>6. CASE u < 5 /\ Silent(n)
  BY <1>1, <1>2, <1>6, SilentStep, Zenon
<1>7. CASE u >= 5 /\ Active(n, "STATE_III", min(a + STEP_UP, get_max_window))
  BY <1>1, <1>2, <1>4, <1>7, ActiveStep, Zenon
<1>8. CASE u >= 5 /\ Active(n, "STATE_II", max(u + ELASTIC_MARGIN, MIN_WINDOW))
  BY <1>1, <1>2, <1>5, <1>8, ActiveStep, Zenon
<1>. QED  BY <1>2, <1>6, <1>7, <1>8, Zenon DEF calculate_next_window

(* Every step keeps the invariant, and lets go of a node only after three    *)
(* silent windows.                                                           *)
LEMMA SchedulerStep ==
    ASSUME SchedulerInvariant, [Next]_vars
    PROVE  /\ SchedulerInvariant'
           /\ \A m \in in_aq_set : m \notin in_aq_set' => silent'[m] = 3
<1>1. CASE \E n \in Nodes : init_node(n)
  BY <1>1, InitNodeStep, Zenon
<1>2. CASE get_next_node_to_serve
  BY <1>2, ServeStep, Zenon
<1>3. CASE \E u, a \in Windows : update_node_state(u, a)
  BY <1>3, UpdateStep, Zenon
<1>4. CASE UNCHANGED vars
  BY <1>4, ZenonT(60) DEF vars, manager, SchedulerInvariant, SchedulerType, QueuesMatchSets, FlagsMatchSets,
              ServedIsRegistered, ProbeDue, SilencesCounted
<1>. QED  BY <1>1, <1>2, <1>3, <1>4, Zenon DEF Next

(* The nodes of both queues, one after the other, are still all different. *)
LEMMA ConcatQueues ==
    ASSUME NEW S, NEW p \in Seq(S), NEW q \in Seq(S), IsInjective(p), IsInjective(q),
           Range(p) \cap Range(q) = {}
    PROVE  IsInjective(p \o q) /\ Range(p \o q) = Range(p) \cup Range(q)
<1> DEFINE c == p \o q
<1>1. /\ Len(p) \in Nat /\ Len(q) \in Nat
      /\ DOMAIN p = 1 .. Len(p) /\ DOMAIN q = 1 .. Len(q) /\ DOMAIN c = 1 .. Len(p) + Len(q)
      /\ \A i \in 1 .. Len(p) : c[i] = p[i]
      /\ \A i \in Len(p) + 1 .. Len(p) + Len(q) : c[i] = q[i - Len(p)]
  OBVIOUS
<1>. HIDE DEF c
<1>2. \A i \in 1 .. Len(q) : c[i + Len(p)] = q[i]
  <2>. SUFFICES ASSUME NEW i \in 1 .. Len(q) PROVE c[i + Len(p)] = q[i]
    BY Zenon
  <2>1. i + Len(p) \in Len(p) + 1 .. Len(p) + Len(q) /\ (i + Len(p)) - Len(p) = i
    BY <1>1
  <2>. QED  BY <1>1, <2>1, Zenon
<1>3. \A i \in 1 .. Len(p) : c[i] \in Range(p)
  BY <1>1, Zenon DEF Range
<1>4. \A i \in Len(p) + 1 .. Len(p) + Len(q) : c[i] \in Range(q)
  BY <1>1, SMTT(60) DEF Range
<1>5. Range(c) \subseteq Range(p) \cup Range(q)
  BY <1>1, <1>3, <1>4, SMTT(60) DEF Range
<1>6. Range(p) \subseteq Range(c)
  BY <1>1 DEF Range
<1>7. Range(q) \subseteq Range(c)
  BY <1>1, <1>2 DEF Range
<1>8. ASSUME NEW i \in DOMAIN c, NEW j \in DOMAIN c, c[i] = c[j] PROVE i = j
  <2>1. CASE i <= Len(p) /\ j <= Len(p)
    BY <1>1, <1>8, <2>1, SMTT(60) DEF IsInjective
  <2>2. CASE i > Len(p) /\ j > Len(p)
    <3>1. i - Len(p) \in 1 .. Len(q) /\ j - Len(p) \in 1 .. Len(q) /\ q[i - Len(p)] = q[j - Len(p)]
      BY <1>1, <1>8, <2>2, SMTT(60)
    <3>2. i - Len(p) = j - Len(p)
      BY <1>1, <3>1, Zenon DEF IsInjective
    <3>. QED  BY <1>1, <3>2
  <2>3. ASSUME NEW x \in DOMAIN c, NEW y \in DOMAIN c, x <= Len(p), y > Len(p), c[x] = c[y] PROVE FALSE
    <3>1. x \in 1 .. Len(p) /\ y \in Len(p) + 1 .. Len(p) + Len(q)
      BY <1>1, <2>3
    <3>. QED  BY <1>3, <1>4, <2>3, <3>1, Zenon
  <2>. QED  BY <1>1, <1>8, <2>1, <2>2, <2>3, SMTT(60)
<1>9. IsInjective(c)
  BY <1>8, Zenon DEF IsInjective
<1>. QED  BY <1>5, <1>6, <1>7, <1>9, Zenon DEF c

-----------------------------------------------------------------------------
(* Along every behaviour of the scheduler and its manager the queues, the    *)
(* sets, the flags and the two counters stay consistent.                     *)
THEOREM SchedulerInvariantHolds == Spec => []SchedulerInvariant
<1>1. SchedulerInvariant /\ [Next]_vars => SchedulerInvariant'
  BY SchedulerStep, Zenon
<1>. QED  BY <1>1, SchedulerInit, PTL DEF Spec

(* The scheduler and the manager agree on who is awake, for any number of    *)
(* nodes (calculate_next_window, migrate_to_aq, migrate_to_sq).              *)
THEOREM SchedulerAgreesWithQueuesHolds == Spec => []SchedulerAgreesWithQueues
<1>1. SchedulerInvariant => SchedulerAgreesWithQueues
  <2>. SUFFICES ASSUME SchedulerInvariant PROVE SchedulerAgreesWithQueues
    BY Zenon
  <2>1. IsInjective(aq \o sq) /\ Range(aq \o sq) = Range(aq) \cup Range(sq)
    BY ConcatQueues DEF SchedulerInvariant, SchedulerType, QueuesMatchSets
  <2>2. \A n \in in_aq_set \cup in_sq_set : n \in in_sq_set <=> n \notin in_aq_set
    BY Zenon DEF SchedulerInvariant, QueuesMatchSets
  <2>. QED  BY <2>1, <2>2, Zenon DEF SchedulerInvariant, QueuesMatchSets, FlagsMatchSets, SchedulerAgreesWithQueues
<1>. QED  BY <1>1, SchedulerInvariantHolds, PTL

(* No sleeper waits for more than INTERLEAVE_RATIO services of active nodes, *)
(* for any ratio (get_next_node).                                            *)
THEOREM SleepersProbedHolds == Spec => []SleepersProbed
<1>1. SchedulerInvariant => SleepersProbed
  BY SchedulerConstants DEF SchedulerInvariant, SchedulerType, ProbeDue, SleepersProbed
<1>. QED  BY <1>1, SchedulerInvariantHolds, PTL

(* A node leaves the active queue only after three silent windows in a row,  *)
(* whatever the width of silence_count (calculate_next_window).              *)
THEOREM WatchdogHolds == Spec => WatchdogNeedsThreeSilences
<1>1. SchedulerInvariant /\ [Next]_vars
        => [\A n \in Nodes : n \in in_aq_set /\ n \notin in_aq_set' => silent'[n] = 3]_vars
  BY SchedulerStep, Zenon
<1>. QED  BY <1>1, SchedulerInvariantHolds, PTL DEF Spec, WatchdogNeedsThreeSilences

=============================================================================
