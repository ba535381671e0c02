------------------------------ MODULE LogFileProofs ------------------------------
(***************************************************************************)
(* Proofs about LogFile: for any number of threads, any queue length and   *)
(* any pattern of failures, no dropped item is miscounted, the items reach *)
(* the file in order, and nothing accepted is forgotten at exit.           *)
(*                                                                         *)
(* The invariant needs who holds the lock (a producer that counts holds it *)
(* and has seen the counter as it is), where each item is (its number is   *)
(* its position in log, hand and queue, one after the other), and that     *)
(* unfinished counts the items in the queue and in hand.                   *)
(***************************************************************************)
EXTENDS LogFile, FiniteSetTheorems, TLAPS

(* An item of a queue *)
LEMMA Element == ASSUME NEW S, NEW q \in Seq(S), NEW i \in 1 .. Len(q) PROVE q[i] \in S
  OBVIOUS

(* One more item at the end of a queue *)
LEMMA Appended ==
    ASSUME NEW S, NEW q \in Seq(S), NEW x \in S
    PROVE  /\ Append(q, x) \in Seq(S) /\ Append(q, x) # << >> /\ Len(Append(q, x)) = Len(q) + 1
           /\ Append(q, x)[Len(q) + 1] = x
           /\ \A i \in 1 .. Len(q) : Append(q, x)[i] = q[i]
  OBVIOUS

(* One queue after another *)
LEMMA Followed ==
    ASSUME NEW S, NEW q \in Seq(S), NEW r \in Seq(S)
    PROVE  /\ q \o r \in Seq(S) /\ Len(q \o r) = Len(q) + Len(r)
           /\ \A i \in 1 .. Len(q) + Len(r) :
                 (q \o r)[i] = IF i <= Len(q) THEN q[i] ELSE r[i - Len(q)]
  OBVIOUS

(* The first item taken from a queue *)
LEMMA Taken ==
    ASSUME NEW S, NEW q \in Seq(S), q # << >>
    PROVE  /\ Head(q) \in S /\ Tail(q) \in Seq(S) /\ Len(Tail(q)) = Len(q) - 1
           /\ \A i \in 1 .. Len(Tail(q)) : Tail(q)[i] = q[i + 1]
  OBVIOUS

(* Two queues with the same items *)
LEMMA SameItems ==
    ASSUME NEW S, NEW q \in Seq(S), NEW r \in Seq(S), Len(q) = Len(r), \A i \in 1 .. Len(q) : q[i] = r[i]
    PROVE  q = r
  BY SMTT(60)

Locked ==
    \A p \in Producers :
        /\ producer[p] = "count" <=> lock = p
        /\ lock = p => seen[p] = overflow

(* ItemsInOrder, element by element. *)
Placed ==
    /\ Len(log) + Len(hand) + Len(log_queue) = accepted
    /\ \A i \in 1 .. Len(log) : log[i].item = i
    /\ \A i \in 1 .. Len(hand) : hand[i] = Len(log) + i
    /\ \A i \in 1 .. Len(log_queue) : log_queue[i] = Len(log) + Len(hand) + i

InHand ==
    /\ thread \in {"swap", "notice", "write"} => Len(hand) = 1
    /\ thread \in {"top", "get", "done", "exited"} => hand = << >>
    /\ thread # "notice" => held = 0

Unfinished ==
    /\ unfinished = Len(log_queue) + Len(hand) + (IF thread = "done" THEN 1 ELSE 0)
    /\ cleanup \in {"stop", "thread", "close", "done"} => unfinished = 0

Closed ==
    /\ cleanup \in {"close", "done"} => thread \in {"exited", "dead"}
    /\ failures = 0 => \A i \in 1 .. Len(log) : log[i].ok
    /\ failures = 0 /\ cleanup = "done" => logfile = "none"

IInv == TypeOK /\ Locked /\ DropsCountedOnce /\ Placed /\ InHand /\ Unfinished /\ Closed


(* Every step keeps the types. *)
LEMMA TypesKept ==
    ASSUME TypeOK, InHand, Unfinished, [Next]_vars
    PROVE  TypeOK'
<1> USE DEF TypeOK
<1>1. ASSUME NEW p \in Producers, PutNowait(p) PROVE TypeOK'
  BY <1>1 DEF PutNowait, CanWrite
<1>2. ASSUME NEW p \in Producers, QueueFull(p) PROVE TypeOK'
  BY <1>2 DEF QueueFull, CanWrite
<1>3. ASSUME NEW p \in Producers, ReadCounter(p) PROVE TypeOK'
  BY <1>3, ZenonT(60) DEF ReadCounter
<1>4. ASSUME NEW p \in Producers, WriteCounter(p) PROVE TypeOK'
  BY <1>4 DEF WriteCounter
<1>5. CASE LoopTop
  BY <1>5 DEF LoopTop, Succeeds, Fails, CloseFails
<1>6. CASE Get
  BY <1>6 DEF Get
<1>7. CASE GetTimesOut
  BY <1>7, Zenon DEF GetTimesOut
<1>8. CASE TakeOverflow
  BY <1>8, Zenon DEF TakeOverflow
<1>9. CASE WriteNotice
  BY <1>9 DEF WriteNotice, Succeeds, Fails, CloseFails
<1>10. CASE WriteItem
  <2>1. Len(hand) = 1 /\ hand \in Seq(Nat)
    BY <1>10, Zenon DEF WriteItem, InHand
  <2>2. hand[1] \in Nat
    BY <2>1, 1 \in 1 .. Len(hand), Element, Zenon
  <2>3. \A ok \in BOOLEAN : [item |-> hand[1], ok |-> ok] \in [item : Nat, ok : BOOLEAN]
    BY <2>2, Zenon
  <2>4. /\ Append(log, [item |-> hand[1], ok |-> TRUE]) \in Seq([item : Nat, ok : BOOLEAN])
        /\ Append(log, [item |-> hand[1], ok |-> FALSE]) \in Seq([item : Nat, ok : BOOLEAN])
    BY <2>3, Appended, Zenon
  <2>5. \/ log' = Append(log, [item |-> hand[1], ok |-> TRUE]) /\ hand' = << >>
        \/ log' = Append(log, [item |-> hand[1], ok |-> FALSE]) /\ hand' = << >>
        \/ log' = log /\ hand' = hand
    BY <1>10, Zenon DEF WriteItem
  <2>6. log \in Seq([item : Nat, ok : BOOLEAN]) /\ << >> \in Seq(Nat)
    OBVIOUS
  <2>8. log' \in Seq([item : Nat, ok : BOOLEAN])
    BY ONLY <2>6, <2>4, <2>5, Zenon
  <2>9. hand' \in Seq(Nat)
    BY ONLY <2>6, <2>1, <2>5, Zenon
  <2>7. thread' \in {"done", "dead"} /\ logfile' \in {"none", "open"} /\ failures' \in Nat
    BY <1>10 DEF WriteItem, Succeeds, Fails, CloseFails
  <2> QED
    BY <1>10, <2>8, <2>9, <2>7, Zenon DEF WriteItem
<1>11. CASE TaskDone
  <2>1. unfinished - 1 \in Nat
    BY <1>11 DEF TaskDone, Unfinished, InHand
  <2> QED
    BY <1>11, <2>1, Zenon DEF TaskDone
<1>12. CASE Exit
  BY <1>12, Zenon DEF Exit
<1>13. CASE JoinQueue
  BY <1>13, Zenon DEF JoinQueue
<1>14. CASE SetNeedStop
  BY <1>14, Zenon DEF SetNeedStop
<1>15. CASE JoinThread
  BY <1>15, Zenon DEF JoinThread
<1>16. CASE Close
  BY <1>16 DEF Close
<1>17. CASE UNCHANGED vars
  BY <1>17 DEF vars
<1> QED
  BY <1>1, <1>2, <1>3, <1>4, <1>5, <1>6, <1>7, <1>8, <1>9, <1>10, <1>11, <1>12,
     <1>13, <1>14, <1>15, <1>16, <1>17, ZenonT(60)
     DEF Next, Write, Count, LogThread, Cleanup

(* A producer that counts keeps the lock, and nobody else touches the      *)
(* counter meanwhile.                                                      *)
LEMMA LockKept ==
    ASSUME TypeOK, Locked, [Next]_vars
    PROVE  Locked'
<1> USE DEF TypeOK, Locked
<1>1. ASSUME NEW p \in Producers, PutNowait(p) PROVE Locked'
  BY <1>1, LogAssumption, Zenon DEF PutNowait, CanWrite
<1>2. ASSUME NEW p \in Producers, QueueFull(p) PROVE Locked'
  BY <1>2, LogAssumption, Zenon DEF QueueFull, CanWrite
<1>3. ASSUME NEW p \in Producers, ReadCounter(p) PROVE Locked'
  BY <1>3, LogAssumption, Zenon DEF ReadCounter, CanWrite
<1>4. ASSUME NEW p \in Producers, WriteCounter(p) PROVE Locked'
  BY <1>4, LogAssumption, Zenon DEF WriteCounter, CanWrite
<1>5. CASE LoopTop
  BY <1>5, LogAssumption, Zenon DEF LoopTop, Succeeds, Fails, CloseFails
<1>6. CASE Get
  BY <1>6, LogAssumption, Zenon DEF Get, Succeeds, Fails, CloseFails
<1>7. CASE GetTimesOut
  BY <1>7, LogAssumption, Zenon DEF GetTimesOut, Succeeds, Fails, CloseFails
<1>8. CASE TakeOverflow
  BY <1>8, LogAssumption, Zenon DEF TakeOverflow, Succeeds, Fails, CloseFails
<1>9. CASE WriteNotice
  BY <1>9, LogAssumption, Zenon DEF WriteNotice, Succeeds, Fails, CloseFails
<1>10. CASE WriteItem
  BY <1>10, LogAssumption, Zenon DEF WriteItem, Succeeds, Fails, CloseFails
<1>11. CASE TaskDone
  BY <1>11, LogAssumption, Zenon DEF TaskDone, Succeeds, Fails, CloseFails
<1>12. CASE Exit
  BY <1>12, LogAssumption, Zenon DEF Exit, Succeeds, Fails, CloseFails
<1>13. CASE JoinQueue
  BY <1>13, LogAssumption, Zenon DEF JoinQueue, Succeeds, Fails, CloseFails
<1>14. CASE SetNeedStop
  BY <1>14, LogAssumption, Zenon DEF SetNeedStop, Succeeds, Fails, CloseFails
<1>15. CASE JoinThread
  BY <1>15, LogAssumption, Zenon DEF JoinThread, Succeeds, Fails, CloseFails
<1>16. CASE Close
  BY <1>16, LogAssumption, Zenon DEF Close, Succeeds, Fails, CloseFails
<1>17. CASE UNCHANGED vars
  BY <1>17, Zenon DEF vars
<1> QED
  BY <1>1, <1>2, <1>3, <1>4, <1>5, <1>6, <1>7, <1>8, <1>9, <1>10, <1>11, <1>12,
     <1>13, <1>14, <1>15, <1>16, <1>17, ZenonT(60)
     DEF Next, Write, Count, LogThread, Cleanup

(* A producer that starts or ends counting changes the number of those     *)
(* that count by one.                                                      *)
LEMMA CountingFinite ==
    ASSUME TypeOK
    PROVE  IsFiniteSet(Counting) /\ Cardinality(Counting) \in Nat
<1>1. IsFiniteSet(Counting)
  BY LogAssumption, FS_Subset, Zenon DEF Counting
<1> QED
  BY <1>1, FS_CardinalityType, Zenon

(* Every dropped item stays counted once. *)
LEMMA DropsKept ==
    ASSUME TypeOK, Locked, InHand, DropsCountedOnce, [Next]_vars
    PROVE  DropsCountedOnce'
<1> USE DEF DropsCountedOnce
<1>1. ASSUME NEW p \in Producers, PutNowait(p) PROVE DropsCountedOnce'
  <2>1. Counting' = Counting
    BY <1>1, Zenon DEF PutNowait, Counting
  <2> QED
    BY <1>1, <2>1, CountingFinite, Zenon DEF PutNowait
<1>2. ASSUME NEW p \in Producers, QueueFull(p) PROVE DropsCountedOnce'
  <2>1. Counting' = Counting \cup {p} /\ p \notin Counting
    BY <1>2, Zenon DEF QueueFull, CanWrite, Counting, TypeOK
  <2>2. Cardinality(Counting') = Cardinality(Counting) + 1
    BY <2>1, CountingFinite, FS_AddElement, Zenon
  <2> QED
    BY <1>2, <2>2, CountingFinite, SMTT(60) DEF QueueFull, TypeOK
<1>3. ASSUME NEW p \in Producers, ReadCounter(p) PROVE DropsCountedOnce'
  <2>1. Counting' = Counting
    BY <1>3, Zenon DEF ReadCounter, Counting, TypeOK
  <2> QED
    BY <1>3, <2>1, CountingFinite, Zenon DEF ReadCounter
<1>4. ASSUME NEW p \in Producers, WriteCounter(p) PROVE DropsCountedOnce'
  <2>1. Counting' = Counting \ {p} /\ p \in Counting
    BY <1>4, Zenon DEF WriteCounter, Counting, TypeOK
  <2>2. Cardinality(Counting') = Cardinality(Counting) - 1
    BY <2>1, CountingFinite, FS_RemoveElement, Zenon
  <2>3. overflow' = overflow + 1
    BY <1>4, Zenon DEF WriteCounter, Locked
  <2> QED
    BY <1>4, <2>2, <2>3, CountingFinite, SMTT(60) DEF WriteCounter, TypeOK
<1>5. CASE LoopTop
  <2>1. Counting' = Counting
    BY <1>5, Zenon DEF LoopTop, Counting
  <2> QED
    BY <1>5, <2>1, CountingFinite, Zenon DEF LoopTop
<1>6. CASE Get
  <2>1. Counting' = Counting
    BY <1>6, Zenon DEF Get, Counting
  <2> QED
    BY <1>6, <2>1, CountingFinite, Zenon DEF Get
<1>7. CASE GetTimesOut
  <2>1. Counting' = Counting
    BY <1>7, Zenon DEF GetTimesOut, Counting
  <2> QED
    BY <1>7, <2>1, CountingFinite, Zenon DEF GetTimesOut
<1>8. CASE TakeOverflow
  <2>1. Counting' = Counting
    BY <1>8, Zenon DEF TakeOverflow, Counting
  <2>2. held = 0
    BY <1>8, Zenon DEF TakeOverflow, InHand
  <2> QED
    BY <1>8, <2>1, <2>2, CountingFinite, SMTT(60) DEF TakeOverflow, TypeOK
<1>9. CASE WriteNotice
  <2>1. Counting' = Counting
    BY <1>9, Zenon DEF WriteNotice, Counting
  <2> QED
    BY <1>9, <2>1, CountingFinite DEF WriteNotice, TypeOK
<1>10. CASE WriteItem
  <2>1. Counting' = Counting
    BY <1>10, Zenon DEF WriteItem, Counting
  <2> QED
    BY <1>10, <2>1, CountingFinite, Zenon DEF WriteItem
<1>11. CASE TaskDone
  <2>1. Counting' = Counting
    BY <1>11, Zenon DEF TaskDone, Counting
  <2> QED
    BY <1>11, <2>1, CountingFinite, Zenon DEF TaskDone
<1>12. CASE Exit
  <2>1. Counting' = Counting
    BY <1>12, Zenon DEF Exit, Counting
  <2> QED
    BY <1>12, <2>1, CountingFinite, Zenon DEF Exit
<1>13. CASE JoinQueue
  <2>1. Counting' = Counting
    BY <1>13, Zenon DEF JoinQueue, Counting
  <2> QED
    BY <1>13, <2>1, CountingFinite, Zenon DEF JoinQueue
<1>14. CASE SetNeedStop
  <2>1. Counting' = Counting
    BY <1>14, Zenon DEF SetNeedStop, Counting
  <2> QED
    BY <1>14, <2>1, CountingFinite, Zenon DEF SetNeedStop
<1>15. CASE JoinThread
  <2>1. Counting' = Counting
    BY <1>15, Zenon DEF JoinThread, Counting
  <2> QED
    BY <1>15, <2>1, CountingFinite, Zenon DEF JoinThread
<1>16. CASE Close
  <2>1. Counting' = Counting
    BY <1>16, Zenon DEF Close, Counting
  <2> QED
    BY <1>16, <2>1, CountingFinite, Zenon DEF Close
<1>17. CASE UNCHANGED vars
  <2>1. Counting' = Counting
    BY <1>17, Zenon DEF vars, Counting
  <2> QED
    BY <1>17, <2>1, CountingFinite, Zenon DEF vars
<1> QED
  BY <1>1, <1>2, <1>3, <1>4, <1>5, <1>6, <1>7, <1>8, <1>9, <1>10, <1>11, <1>12,
     <1>13, <1>14, <1>15, <1>16, <1>17, ZenonT(60)
     DEF Next, Write, Count, LogThread, Cleanup

(* unfinished counts the items in the queue and in hand, and stays 0 once  *)
(* the exit handler has seen it 0.                                         *)
LEMMA UnfinishedKept ==
    ASSUME TypeOK, InHand, Unfinished, [Next]_vars
    PROVE  InHand' /\ Unfinished'
<1> USE DEF TypeOK, InHand, Unfinished
<1>1. ASSUME NEW p \in Producers, PutNowait(p) PROVE InHand' /\ Unfinished'
  BY <1>1 DEF PutNowait, CanWrite
<1>2. ASSUME NEW p \in Producers, QueueFull(p) PROVE InHand' /\ Unfinished'
  BY <1>2, Zenon DEF QueueFull
<1>3. ASSUME NEW p \in Producers, ReadCounter(p) PROVE InHand' /\ Unfinished'
  BY <1>3, Zenon DEF ReadCounter
<1>4. ASSUME NEW p \in Producers, WriteCounter(p) PROVE InHand' /\ Unfinished'
  BY <1>4, Zenon DEF WriteCounter
<1>5. CASE LoopTop
  BY <1>5, Zenon DEF LoopTop, Succeeds, Fails, CloseFails
<1>6. CASE Get
  <2>1. Len(Tail(log_queue)) = Len(log_queue) - 1
    BY <1>6, Taken, Zenon DEF Get
  <2> QED
    BY <1>6, <2>1 DEF Get
<1>7. CASE GetTimesOut
  BY <1>7, Zenon DEF GetTimesOut, Succeeds, Fails, CloseFails
<1>8. CASE TakeOverflow
  BY <1>8, Zenon DEF TakeOverflow, Succeeds, Fails, CloseFails
<1>9. CASE WriteNotice
  BY <1>9, Zenon DEF WriteNotice, Succeeds, Fails, CloseFails
<1>10. CASE WriteItem
  <2>1. Len(hand) = 1 /\ thread = "write"
    BY <1>10, Zenon DEF WriteItem
  <2>2. unfinished = Len(log_queue) + 1 /\ held = 0
    BY <2>1, SMTT(60)
  <2>3. \/ thread' = "done" /\ hand' = << >>
        \/ thread' = "dead" /\ hand' = hand
    BY <1>10, Zenon DEF WriteItem, Succeeds, Fails, CloseFails
  <2>4. UNCHANGED <<log_queue, unfinished, held, cleanup>>
    BY <1>10, Zenon DEF WriteItem
  <2> QED
    <3>0. Len(log_queue) \in Nat /\ (cleanup \in {"stop", "thread", "close", "done"} => unfinished = 0)
      OBVIOUS
    <3>1. CASE thread' = "done" /\ hand' = << >>
      BY ONLY <2>2, <2>4, <3>0, <3>1 DEF InHand, Unfinished
    <3>2. CASE thread' = "dead" /\ hand' = hand
      <4>1. Len(hand') = 1 /\ thread' = "dead" /\ held' = 0 /\ log_queue' = log_queue
            /\ unfinished' = Len(log_queue) + 1 /\ cleanup' = cleanup
        BY ONLY <2>1, <2>2, <2>4, <3>2, Zenon
      <4>2. InHand'
        BY ONLY <4>1, Zenon DEF InHand
      <4>3. Unfinished'
        BY ONLY <2>2, <3>0, <4>1 DEF Unfinished
      <4> QED
        BY ONLY <4>2, <4>3, Zenon
    <3> QED
      BY ONLY <2>3, <3>1, <3>2, Zenon
<1>11. CASE TaskDone
  BY <1>11 DEF TaskDone, Succeeds, Fails, CloseFails
<1>12. CASE Exit
  BY <1>12, Zenon DEF Exit, Succeeds, Fails, CloseFails
<1>13. CASE JoinQueue
  BY <1>13, Zenon DEF JoinQueue, Succeeds, Fails, CloseFails
<1>14. CASE SetNeedStop
  BY <1>14, Zenon DEF SetNeedStop, Succeeds, Fails, CloseFails
<1>15. CASE JoinThread
  BY <1>15, Zenon DEF JoinThread, Succeeds, Fails, CloseFails
<1>16. CASE Close
  BY <1>16, Zenon DEF Close, Succeeds, Fails, CloseFails
<1>17. CASE UNCHANGED vars
  BY <1>17, Zenon DEF vars
<1> QED
  BY <1>1, <1>2, <1>3, <1>4, <1>5, <1>6, <1>7, <1>8, <1>9, <1>10, <1>11, <1>12,
     <1>13, <1>14, <1>15, <1>16, <1>17, ZenonT(60)
     DEF Next, Write, Count, LogThread, Cleanup

(* The number of an item is its position in log, hand and queue. *)
LEMMA OrderKept ==
    ASSUME TypeOK, InHand, Placed, [Next]_vars
    PROVE  Placed'
<1> USE DEF TypeOK, Placed
<1>1. ASSUME NEW p \in Producers, PutNowait(p) PROVE Placed'
  <2>0. /\ Len(log) \in Nat /\ Len(hand) \in Nat /\ Len(log_queue) \in Nat /\ accepted \in Nat
         /\ Len(log) + Len(hand) + Len(log_queue) = accepted
    OBVIOUS
  <2>1. /\ Len(Append(log_queue, accepted + 1)) = Len(log_queue) + 1
        /\ \A i \in 1 .. Len(log_queue) : Append(log_queue, accepted + 1)[i] = log_queue[i]
        /\ Append(log_queue, accepted + 1)[Len(log_queue) + 1] = accepted + 1
    BY Appended, SMTT(60)
  <2>2. log' = log /\ hand' = hand /\ accepted' = accepted + 1
        /\ log_queue' = Append(log_queue, accepted + 1)
    BY <1>1, Zenon DEF PutNowait
  <2>3. Len(log_queue') = Len(log_queue) + 1
    BY <2>1, <2>2, Zenon
  <2>4. ASSUME NEW i \in 1 .. Len(log_queue') PROVE log_queue'[i] = Len(log) + Len(hand) + i
    <3>1. CASE i <= Len(log_queue)
      BY <2>1, <2>2, <2>3, <3>1, SMTT(60)
    <3>2. CASE i = Len(log_queue) + 1
      BY ONLY <2>1, <2>2, <2>0, <3>2, SMTT(60)
    <3> QED
      BY <2>3, <3>1, <3>2, SMTT(60)
  <2>5. Len(log') + Len(hand') + Len(log_queue') = accepted'
    BY ONLY <2>0, <2>2, <2>3, SMTT(60)
  <2>6. /\ \A i \in 1 .. Len(log') : log'[i].item = i
        /\ \A i \in 1 .. Len(hand') : hand'[i] = Len(log') + i
    BY <2>2, Zenon
  <2>7. \A i \in 1 .. Len(log_queue') : log_queue'[i] = Len(log') + Len(hand') + i
    BY <2>2, <2>4, Zenon
  <2> QED
    BY <2>5, <2>6, <2>7, Zenon
<1>2. ASSUME NEW p \in Producers, QueueFull(p) PROVE Placed'
  BY <1>2, Zenon DEF QueueFull
<1>3. ASSUME NEW p \in Producers, ReadCounter(p) PROVE Placed'
  BY <1>3, Zenon DEF ReadCounter
<1>4. ASSUME NEW p \in Producers, WriteCounter(p) PROVE Placed'
  BY <1>4, Zenon DEF WriteCounter
<1>5. CASE LoopTop
  BY <1>5, Zenon DEF LoopTop
<1>6. CASE Get
  <2>1. /\ Len(Tail(log_queue)) = Len(log_queue) - 1
        /\ \A i \in 1 .. Len(Tail(log_queue)) : Tail(log_queue)[i] = log_queue[i + 1]
        /\ Head(log_queue) = log_queue[1] /\ Len(log_queue) > 0
    BY <1>6, Taken DEF Get
  <2>2. hand = << >> /\ Len(hand) = 0
    BY <1>6, Zenon DEF Get, InHand
  <2>3. hand' = <<Len(log) + 1>> /\ Len(hand') = 1 /\ hand'[1] = Len(log) + 1
    BY <1>6, <2>1, <2>2 DEF Get
  <2>4. log' = log /\ accepted' = accepted /\ log_queue' = Tail(log_queue)
    BY <1>6, Zenon DEF Get
  <2>5. ASSUME NEW i \in 1 .. Len(log_queue') PROVE log_queue'[i] = Len(log) + 1 + i
    <3>1. log_queue'[i] = log_queue[i + 1] /\ i + 1 \in 1 .. Len(log_queue)
      BY <2>1, <2>4
    <3> QED
      BY <2>2, <3>1, SMTT(60)
  <2>6. ASSUME NEW i \in 1 .. Len(hand') PROVE hand'[i] = Len(log') + i
    BY <2>3, <2>4
  <2>70. /\ Len(log) \in Nat /\ Len(hand) \in Nat /\ Len(log_queue) \in Nat /\ accepted \in Nat
         /\ Len(log) + Len(hand) + Len(log_queue) = accepted
    OBVIOUS
  <2>7. Len(log') + Len(hand') + Len(log_queue') = accepted'
    <3>1. Len(log_queue') = Len(log_queue) - 1 /\ Len(log') = Len(log) /\ Len(hand') = 1
      BY ONLY <2>1, <2>3, <2>4, Zenon
    <3>2. Len(hand) = 0 /\ accepted' = accepted
      BY ONLY <2>2, <2>4, Zenon
    <3> QED
      BY ONLY <2>70, <3>1, <3>2
  <2> QED
    BY <2>3, <2>4, <2>5, <2>6, <2>7, Zenon
<1>7. CASE GetTimesOut
  BY <1>7, Zenon DEF GetTimesOut
<1>8. CASE TakeOverflow
  BY <1>8, Zenon DEF TakeOverflow
<1>9. CASE WriteNotice
  BY <1>9, Zenon DEF WriteNotice
<1>10. CASE WriteItem
  <2>0. Len(hand) = 1
    BY <1>10, Zenon DEF WriteItem, InHand
  <2>1. Len(hand) = 1 /\ hand[1] = Len(log) + 1
    BY <2>0, 1 \in 1 .. Len(hand), Zenon
  <2>2. ASSUME NEW ok \in BOOLEAN, hand' = << >>, log' = Append(log, [item |-> hand[1], ok |-> ok])
        PROVE  Placed'
    <3>1. [item |-> hand[1], ok |-> ok] \in [item : Nat, ok : BOOLEAN]
      BY <2>1, SMTT(60)
    <3>2. /\ Len(log') = Len(log) + 1
          /\ \A i \in 1 .. Len(log) : log'[i] = log[i]
          /\ log'[Len(log) + 1].item = Len(log) + 1
      BY <2>1, <2>2, <3>1, Appended, SMTT(60)
    <3> QED
      BY <1>10, <2>1, <2>2, <3>2, SMTT(60) DEF WriteItem
  <2>3. CASE hand' = hand /\ log' = log
    BY <1>10, <2>3, Zenon DEF WriteItem
  <2> QED
    BY <1>10, <2>2, <2>3, Zenon DEF WriteItem
<1>11. CASE TaskDone
  BY <1>11, Zenon DEF TaskDone
<1>12. CASE Exit
  BY <1>12, Zenon DEF Exit
<1>13. CASE JoinQueue
  BY <1>13, Zenon DEF JoinQueue
<1>14. CASE SetNeedStop
  BY <1>14, Zenon DEF SetNeedStop
<1>15. CASE JoinThread
  BY <1>15, Zenon DEF JoinThread
<1>16. CASE Close
  BY <1>16, Zenon DEF Close
<1>17. CASE UNCHANGED vars
  BY <1>17, Zenon DEF vars
<1> QED
  BY <1>1, <1>2, <1>3, <1>4, <1>5, <1>6, <1>7, <1>8, <1>9, <1>10, <1>11, <1>12,
     <1>13, <1>14, <1>15, <1>16, <1>17, ZenonT(60)
     DEF Next, Write, Count, LogThread, Cleanup

(* Without a failure every item is written and the file is closed. *)
LEMMA ClosedKept ==
    ASSUME TypeOK, InHand, Closed, [Next]_vars
    PROVE  Closed'
<1> USE DEF TypeOK, Closed
<1>1. ASSUME NEW p \in Producers, PutNowait(p) PROVE Closed'
  BY <1>1, Zenon DEF PutNowait
<1>2. ASSUME NEW p \in Producers, QueueFull(p) PROVE Closed'
  BY <1>2, Zenon DEF QueueFull
<1>3. ASSUME NEW p \in Producers, ReadCounter(p) PROVE Closed'
  BY <1>3, Zenon DEF ReadCounter
<1>4. ASSUME NEW p \in Producers, WriteCounter(p) PROVE Closed'
  BY <1>4, Zenon DEF WriteCounter
<1>5. CASE LoopTop
  BY <1>5, SMTT(60) DEF LoopTop, Succeeds, Fails, CloseFails
<1>6. CASE Get
  BY <1>6, Zenon DEF Get, Succeeds, Fails, CloseFails
<1>7. CASE GetTimesOut
  BY <1>7, Zenon DEF GetTimesOut, Succeeds, Fails, CloseFails
<1>8. CASE TakeOverflow
  BY <1>8, Zenon DEF TakeOverflow, Succeeds, Fails, CloseFails
<1>9. CASE WriteNotice
  BY <1>9, SMTT(60) DEF WriteNotice, Succeeds, Fails, CloseFails
<1>10. CASE WriteItem
  <2>1. cleanup \notin {"close", "done"} /\ cleanup' = cleanup
    BY <1>10, Zenon DEF WriteItem
  <2>2. ASSUME failures' = 0 PROVE \A i \in 1 .. Len(log') : log'[i].ok
    <3>1. failures = 0 /\ log' = Append(log, [item |-> hand[1], ok |-> TRUE])
      BY <1>10, <2>2, SMTT(60) DEF WriteItem, Succeeds, Fails, CloseFails
    <3>2. Len(hand) = 1
      BY <1>10, Zenon DEF WriteItem, InHand
    <3>3. hand[1] \in Nat
      BY <3>2, 1 \in 1 .. Len(hand), Element, Zenon
    <3>4. [item |-> hand[1], ok |-> TRUE] \in [item : Nat, ok : BOOLEAN]
      BY <3>3, Zenon
    <3>5. /\ Len(log') = Len(log) + 1
          /\ \A i \in 1 .. Len(log) : log'[i] = log[i]
          /\ log'[Len(log) + 1].ok
      BY <3>1, <3>4, Appended
    <3>6. ASSUME NEW i \in 1 .. Len(log') PROVE log'[i].ok
      <4>1. CASE i \in 1 .. Len(log)
        BY <3>1, <3>5, <4>1, Zenon
      <4>2. CASE i = Len(log) + 1
        BY <3>5, <4>2, SMTT(60)
      <4> QED
        BY <3>5, <4>1, <4>2
    <3> QED
      BY <3>6, Zenon
  <2> QED
    BY <2>1, <2>2, Zenon
<1>11. CASE TaskDone
  BY <1>11, Zenon DEF TaskDone, Succeeds, Fails, CloseFails
<1>12. CASE Exit
  BY <1>12, Zenon DEF Exit, Succeeds, Fails, CloseFails
<1>13. CASE JoinQueue
  BY <1>13, Zenon DEF JoinQueue, Succeeds, Fails, CloseFails
<1>14. CASE SetNeedStop
  BY <1>14, Zenon DEF SetNeedStop, Succeeds, Fails, CloseFails
<1>15. CASE JoinThread
  BY <1>15, Zenon DEF JoinThread, Succeeds, Fails, CloseFails
<1>16. CASE Close
  BY <1>16, SMTT(60) DEF Close, Succeeds, Fails, CloseFails
<1>17. CASE UNCHANGED vars
  BY <1>17, Zenon DEF vars
<1> QED
  BY <1>1, <1>2, <1>3, <1>4, <1>5, <1>6, <1>7, <1>8, <1>9, <1>10, <1>11, <1>12,
     <1>13, <1>14, <1>15, <1>16, <1>17, ZenonT(60)
     DEF Next, Write, Count, LogThread, Cleanup

(* Every step of the threads keeps the invariant. *)
THEOREM Inductive == IInv /\ [Next]_vars => IInv'
BY TypesKept, LockKept, DropsKept, UnfinishedKept, OrderKept, ClosedKept, Zenon DEF IInv

(* A log that was just opened (__init__) satisfies the invariant. *)
THEOREM Initial == Init => IInv
<1> SUFFICES ASSUME Init PROVE IInv
  BY Zenon
<1>1. TypeOK
  <2>1. << >> \in Seq(Nat) /\ << >> \in Seq([item : Nat, ok : BOOLEAN])
    OBVIOUS
  <2> QED
    BY <2>1, LogAssumption, Zenon DEF Init, TypeOK
<1>2. Locked
  BY LogAssumption, Zenon DEF Init, Locked
<1>3. DropsCountedOnce
  <2>1. Counting = {}
    BY Zenon DEF Init, Counting
  <2> QED
    BY <2>1, FS_EmptySet DEF Init, DropsCountedOnce
<1>4. Placed /\ InHand /\ Unfinished /\ Closed
  BY DEF Init, Placed, InHand, Unfinished, Closed
<1> QED
  BY <1>1, <1>2, <1>3, <1>4, Zenon DEF IInv

(* The two statements of the order agree. *)
LEMMA PlacedInOrder == ASSUME TypeOK, Placed PROVE ItemsInOrder
<1> DEFINE items == [i \in DOMAIN log |-> log[i].item]
           numbers == [i \in 1 .. accepted |-> i]
<1>1. items \in Seq(Nat) /\ Len(items) = Len(log) /\ \A i \in 1 .. Len(log) : items[i] = i
  <2>1. log \in Seq([item : Nat, ok : BOOLEAN]) /\ DOMAIN log = 1 .. Len(log) /\ Len(log) \in Nat
    BY DEF TypeOK
  <2>2. \A i \in 1 .. Len(log) : items[i] = i /\ items[i] \in Nat
    BY <2>1 DEF Placed
  <2>3. items = [i \in 1 .. Len(log) |-> i]
    BY <2>1, <2>2, Zenon
  <2> QED
    BY <2>1, <2>2, <2>3
<1>2. numbers \in Seq(Nat) /\ Len(numbers) = accepted /\ \A i \in 1 .. accepted : numbers[i] = i
  BY DEF TypeOK
<1>3. hand \in Seq(Nat) /\ log_queue \in Seq(Nat) /\ accepted \in Nat
  BY Zenon DEF TypeOK
<1> HIDE DEF items, numbers
<1>4. /\ items \o hand \in Seq(Nat)
      /\ Len(items \o hand) = Len(log) + Len(hand)
      /\ \A i \in 1 .. Len(log) + Len(hand) : (items \o hand)[i] = i
  <2>1. /\ items \o hand \in Seq(Nat)
        /\ Len(items \o hand) = Len(items) + Len(hand)
        /\ \A i \in 1 .. Len(items) + Len(hand) :
              (items \o hand)[i] = IF i <= Len(items) THEN items[i] ELSE hand[i - Len(items)]
    BY <1>1, <1>3, Followed, ZenonT(60)
  <2>2. Len(log) \in Nat /\ Len(hand) \in Nat
    BY <1>3 DEF TypeOK
  <2>3. ASSUME NEW i \in 1 .. Len(log) + Len(hand) PROVE (items \o hand)[i] = i
    <3>1. CASE i <= Len(log)
      BY <1>1, <2>1, <2>2, <3>1
    <3>2. CASE ~(i <= Len(log))
      <4>1. i - Len(log) \in 1 .. Len(hand)
        BY <2>2, <3>2
      <4>2. hand[i - Len(log)] = i
        BY <2>2, <4>1 DEF Placed
      <4> QED
        BY <1>1, <2>1, <2>2, <3>2, <4>2, Zenon
    <3> QED
      BY <3>1, <3>2, ZenonT(60)
  <2> QED
    BY <1>1, <2>1, <2>3, Zenon
<1>5. /\ items \o hand \o log_queue \in Seq(Nat)
      /\ Len(items \o hand \o log_queue) = accepted
      /\ \A i \in 1 .. accepted : (items \o hand \o log_queue)[i] = i
  <2> DEFINE front == items \o hand
  <2> HIDE DEF front
  <2>0. /\ front \in Seq(Nat) /\ Len(front) = Len(log) + Len(hand)
        /\ \A i \in 1 .. Len(front) : front[i] = i
    BY <1>4, Zenon DEF front
  <2>1. /\ front \o log_queue \in Seq(Nat)
        /\ Len(front \o log_queue) = Len(front) + Len(log_queue)
        /\ \A i \in 1 .. Len(front) + Len(log_queue) :
              (front \o log_queue)[i] = IF i <= Len(front) THEN front[i] ELSE log_queue[i - Len(front)]
    BY <1>3, <2>0, Followed, ZenonT(60)
  <2>2. Len(front) \in Nat /\ Len(log_queue) \in Nat /\ Len(front) + Len(log_queue) = accepted
    BY <1>3, <2>0 DEF Placed
  <2>3. ASSUME NEW i \in 1 .. accepted PROVE (front \o log_queue)[i] = i
    <3>1. CASE i <= Len(front)
      BY <2>0, <2>1, <2>2, <3>1, SMTT(60)
    <3>2. CASE ~(i <= Len(front))
      <4>1. i - Len(front) \in 1 .. Len(log_queue)
        BY <1>3, <2>2, <3>2
      <4>2. log_queue[i - Len(front)] = i
        <5>1. \A k \in 1 .. Len(log_queue) : log_queue[k] = Len(front) + k
          BY <2>0, Zenon DEF Placed
        <5>2. log_queue[i - Len(front)] = Len(front) + (i - Len(front))
          BY <4>1, <5>1, Zenon
        <5>3. Len(front) + (i - Len(front)) = i
          BY <2>2
        <5> QED
          BY <5>2, <5>3, Zenon
      <4> QED
        BY <2>1, <2>2, <3>2, <4>2, Zenon
    <3> QED
      BY <3>1, <3>2, Zenon
  <2> QED
    BY <2>1, <2>2, <2>3, Zenon DEF front
<1>6. items \o hand \o log_queue = numbers
  BY <1>2, <1>5, SameItems, Zenon
<1> QED
  BY <1>6, Zenon DEF ItemsInOrder, items, numbers

(* The invariant holds in every state of ErrorSafeLogFile. *)
LEMMA InvariantHolds == Spec => []IInv
<1>1. IInv /\ [Next]_vars => IInv'
  BY Inductive, Zenon
<1>2. Init => IInv
  BY Initial, Zenon
<1> QED
  BY <1>1, <1>2, PTL DEF Spec

(* No dropped item is counted twice or not at all, for any number of       *)
(* threads and any queue length: the lock makes "+= 1" and the reset of    *)
(* log_queue_overflow single steps.                                        *)
THEOREM DropsAlwaysCounted == Spec => []DropsCountedOnce
<1>1. IInv => DropsCountedOnce
  BY Zenon DEF IInv
<1> QED
  BY <1>1, InvariantHolds, PTL

(* The items are handed to the file in the order in which they were        *)
(* accepted, each once, for any queue length and any failures              *)
(* (_log_thread_loop).                                                     *)
THEOREM ItemsAlwaysInOrder == Spec => []ItemsInOrder
<1>1. IInv => ItemsInOrder
  BY PlacedInOrder, Zenon DEF IInv
<1> QED
  BY <1>1, InvariantHolds, PTL

(* When the exit handler is done, nothing accepted is left in the queue or *)
(* in hand, and without failures all of it is in the closed file           *)
(* (_cleanup).                                                             *)
THEOREM NothingForgottenAtExit == Spec => []WrittenAtExit
<1>1. IInv => WrittenAtExit
  <2> SUFFICES ASSUME IInv, cleanup = "done" PROVE WrittenAtExit
    BY Zenon DEF WrittenAtExit
  <2>1. Len(log_queue) = 0 /\ Len(hand) = 0
    BY DEF IInv, TypeOK, Unfinished
  <2>2. Len(log) = accepted
    BY <2>1 DEF IInv, TypeOK, Placed
  <2>3. failures = 0 => logfile = "none" /\ \A i \in DOMAIN log : log[i].ok
    BY DEF IInv, TypeOK, Closed
  <2> QED
    BY <2>2, <2>3, Zenon DEF WrittenAtExit
<1> QED
  BY <1>1, InvariantHolds, PTL

=============================================================================
