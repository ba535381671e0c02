--------------------------- MODULE TokenGateProofs ---------------------------
(* The token and the sleep of tx_worker, for every clock, queue and batch size *)
EXTENDS TokenGate, TLAPS

(* Times are milliseconds of a clock that starts at 0 *)
ClockType ==
    /\ now \in Nat /\ token_expire_time_ms \in Nat /\ rx_expire \in Nat
    /\ late \in Nat

(* Once a frame has gone out late, the token in force has run out and the TX *)
(* thread is not between its check and pcap_inject_retry(): the next check   *)
(* reads the expired token.                                                  *)
LateFrameIsLast ==
    late <= 1 /\ (late = 1 => now >= token_expire_time_ms /\ tx_pc # "inject")

(* A thread that has found its predicate false, and holds the lock until it  *)
(* sleeps, has no grant either.                                              *)
NoGrantBeforeSleep == tx_pc \in {"sleep", "blocked"} => ~can_send

GateInvariant == ClockType /\ LateFrameIsLast /\ NoGrantBeforeSleep

(* No token has been granted when the threads start. *)
LEMMA GateInit == Init => GateInvariant
  BY DEF Init, GateInvariant, ClockType, LateFrameIsLast, NoGrantBeforeSleep

(* The clock and the times computed from it stay natural numbers: rx_demux   *)
(* adds a duration to the clock, and only an injection counts a late frame.  *)
LEMMA ClockStep == ASSUME ClockType, [Next]_vars PROVE ClockType'
<1> USE TokenGateConstants DEF ClockType, tx, rx, tun
<1>1. CASE Tick
  BY <1>1 DEF Tick
<1>2. CASE Signal
  BY <1>2 DEF Signal
<1>3. CASE TxWorker
  BY <1>3 DEF TxWorker, TxLoop, TxWait, TxSleep, TxGate, TxExpire, TxPop, TxCheck, TxInject, TxInjectFails, TxGuard
<1>4. CASE TxSpuriousWakeup
  BY <1>4 DEF TxSpuriousWakeup
<1>5. CASE RxDemux
  <2>1. ASSUME NEW d \in Durations, RxToken(d) PROVE ClockType'
    BY <2>1 DEF RxToken
  <2>. QED  BY <1>5, <2>1 DEF RxDemux, RxFrame, RxGrant, RxError, RxEndOfFile, RxExit
<1>6. CASE TunReader
  BY <1>6 DEF TunReader, TunRead, TunEmptyRead, TunReadError, TunPush, TunNotify, TunExit
<1>7. CASE UNCHANGED vars
  BY <1>7 DEF vars
<1>. QED  BY <1>1, <1>2, <1>3, <1>4, <1>5, <1>6, <1>7 DEF Next

(* Whatever thread runs next, a late frame is still the last one: TxCheck    *)
(* reads the token in force, and only RxGrant, which starts a new count,     *)
(* moves its expiry.                                                         *)
LEMMA LateStep == ASSUME ClockType, LateFrameIsLast, [Next]_vars PROVE LateFrameIsLast'
<1> USE DEF ClockType, LateFrameIsLast, tx, rx, tun
<1>1. CASE Tick
  BY <1>1 DEF Tick
<1>2. CASE Signal
  BY <1>2 DEF Signal
<1>3. CASE TxWorker
  <2>1. CASE TxCheck
    BY <2>1 DEF TxCheck
  <2>2. CASE TxInject
    BY <2>2 DEF TxInject
  <2>. QED
    BY <1>3, <2>1, <2>2 DEF TxWorker, TxLoop, TxWait, TxSleep, TxGate, TxExpire, TxPop, TxInjectFails, TxGuard
<1>4. CASE TxSpuriousWakeup
  BY <1>4 DEF TxSpuriousWakeup
<1>5. CASE RxDemux
  <2>1. CASE RxGrant
    BY <2>1 DEF RxGrant
  <2>. QED  BY <1>5, <2>1 DEF RxDemux, RxFrame, RxToken, RxError, RxEndOfFile, RxExit
<1>6. CASE TunReader
  <2>1. CASE TunNotify
    BY <2>1 DEF TunNotify, notify_one
  <2>. QED  BY <1>6, <2>1 DEF TunReader, TunRead, TunEmptyRead, TunReadError, TunPush, TunExit
<1>7. CASE UNCHANGED vars
  BY <1>7 DEF vars
<1>. QED  BY <1>1, <1>2, <1>3, <1>4, <1>5, <1>6, <1>7 DEF Next

(* A thread goes to sleep only on a false predicate, and whoever sets        *)
(* can_send needs the lock, which the thread keeps until it sleeps, and      *)
(* wakes it in the same critical section.                                    *)
LEMMA SleepStep == ASSUME NoGrantBeforeSleep, [Next]_vars PROVE NoGrantBeforeSleep'
<1> USE DEF NoGrantBeforeSleep, tx, rx, tun
<1>1. CASE Tick \/ Signal \/ TxSpuriousWakeup \/ UNCHANGED vars
  BY <1>1 DEF Tick, Signal, TxSpuriousWakeup, vars
<1>2. CASE TxWorker
  <2>1. CASE TxWait
    BY <2>1 DEF TxWait
  <2>. QED
    BY <1>2, <2>1 DEF TxWorker, TxLoop, TxSleep, TxGate, TxExpire, TxPop, TxCheck, TxInject, TxInjectFails, TxGuard
<1>3. CASE RxDemux
  <2>1. CASE RxGrant
    BY <2>1 DEF RxGrant, MtxFree, notify_one
  <2>. QED  BY <1>3, <2>1 DEF RxDemux, RxFrame, RxToken, RxError, RxEndOfFile, RxExit
<1>4. CASE TunReader
  <2>1. CASE TunNotify
    BY <2>1 DEF TunNotify, notify_one
  <2>. QED  BY <1>4, <2>1 DEF TunReader, TunRead, TunEmptyRead, TunReadError, TunPush, TunExit
<1>. QED  BY <1>1, <1>2, <1>3, <1>4 DEF Next

-----------------------------------------------------------------------------
(* However the client's threads, the clock and a signal interleave, the      *)
(* times stay well formed, a late frame is the last one of its token, and    *)
(* tx_worker sleeps only without a grant.                                    *)
THEOREM GateInvariantHolds == Spec => []GateInvariant
<1>1. GateInvariant /\ [Next]_vars => GateInvariant'
  BY ClockStep, LateStep, SleepStep DEF GateInvariant
<1>. QED  BY <1>1, GateInit, PTL DEF Spec

(* At most one frame goes out after the token in force has run out, for any  *)
(* batch size and any durations (tx_main_loop, set_token_granted).           *)
THEOREM AtMostOneLateFrameHolds == Spec => []AtMostOneLateFrame
<1>1. GateInvariant => AtMostOneLateFrame
  BY DEF GateInvariant, LateFrameIsLast, AtMostOneLateFrame
<1>. QED  BY <1>1, GateInvariantHolds, PTL

(* tx_worker never sleeps on cv_send while can_send is set: no wake-up is    *)
(* lost between its predicate and its sleep.                                 *)
THEOREM NoSleepWithGrantHolds == Spec => []NoSleepWithGrant
<1>1. GateInvariant => NoSleepWithGrant
  BY DEF GateInvariant, NoGrantBeforeSleep, NoSleepWithGrant
<1>. QED  BY <1>1, GateInvariantHolds, PTL

=============================================================================
