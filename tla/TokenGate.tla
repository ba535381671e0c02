------------------------------ MODULE TokenGate ------------------------------
(***************************************************************************)
(* The client process of wfb_core: three threads around ThreadSharedState. *)
(* rx_demux grants the right to send when a token for this node arrives,   *)
(* tun_reader fills the packet queue and holds back at the watermark, and  *)
(* tx_worker sleeps on cv_send until it may send and then empties the      *)
(* queue until the token runs out.  A signal sets the shutdown flag.       *)
(*                                                                         *)
(* A step is a critical section, a call that lets time pass, or a test of  *)
(* unlocked state.  The unlocked read of token_expire_time_ms returns the  *)
(* value last written, as an aligned 64-bit load does.  A thread whose     *)
(* device cannot be opened ends at once.                                   *)
(***************************************************************************)
EXTENDS Integers, Sequences

CONSTANTS
    QUEUE_CAPACITY,         \* max_capacity of packet_queue
    dynamic_limit,          \* the watermark tun_reader computes at its start
    batch_size,             \* TxConfig::batch_size
    kMaxConsecutiveErrors,  \* errors in a row that end rx_demux or tun_reader
    kMaxTokenDuration,      \* rx_demux cuts a token's duration to this
    Durations,              \* durations of the tokens for this node
    MaxTime,                \* bound: the clock stops here
    MaxPackets              \* bound: packets read from the TUN device

ASSUME TokenGateConstants ==
    /\ QUEUE_CAPACITY \in Nat \ {0} /\ dynamic_limit \in Nat
    /\ batch_size \in Nat \ {0} /\ kMaxConsecutiveErrors \in Nat \ {0}
    /\ Durations \subseteq Nat /\ kMaxTokenDuration \in Nat
    /\ MaxTime \in Nat /\ MaxPackets \in Nat

VARIABLES
    now,                                \* get_monotonic_ms()
    can_send, token_expire_time_ms,     \* ThreadSharedState
    packet_queue, shutdown,
    tx_pc, expire_time_ms, batch,       \* tx_main_loop()
    rx_pc, rx_expire, rx_errors,        \* rx_demux_main_loop()
    tun_pc, packets_read, tun_errors,   \* tun_reader_main_loop()
    late                                \* injected after expiry, since the last grant

tx  == <<tx_pc, expire_time_ms, batch>>
rx  == <<rx_pc, rx_expire, rx_errors>>
tun == <<tun_pc, packets_read, tun_errors>>
vars == <<now, can_send, token_expire_time_ms, packet_queue, shutdown, tx, rx, tun, late>>

Init ==
    /\ now = 0 /\ can_send = FALSE /\ token_expire_time_ms = 0
    /\ packet_queue = << >> /\ shutdown = FALSE
    /\ tx_pc = "loop" /\ expire_time_ms = 0 /\ batch = << >>
    /\ rx_pc \in {"loop", "done"} /\ rx_expire = 0 /\ rx_errors = 0
    /\ tun_pc \in {"loop", "done"} /\ packets_read = 0 /\ tun_errors = 0
    /\ late = 0

Tick ==
    /\ now < MaxTime
    /\ now' = now + 1
    /\ UNCHANGED <<can_send, token_expire_time_ms, packet_queue, shutdown, tx, rx, tun, late>>

(* signal_handler() sets the flag and nothing else *)
Signal ==
    /\ ~shutdown
    /\ shutdown' = TRUE
    /\ UNCHANGED <<now, can_send, token_expire_time_ms, packet_queue, tx, rx, tun, late>>

(* cv_send.notify_one(): only tx_worker ever waits, it tests its predicate again *)
notify_one == tx_pc' = IF tx_pc = "blocked" THEN "wait" ELSE tx_pc

-----------------------------------------------------------------------------
(* tx_main_loop() *)
TxLoop ==
    /\ tx_pc = "loop"
    /\ tx_pc' = IF shutdown THEN "done" ELSE "wait"
    /\ UNCHANGED <<now, can_send, token_expire_time_ms, packet_queue, shutdown,
                   expire_time_ms, batch, rx, tun, late>>

(* cv_send.wait(): the predicate, and the copy of the token, under the lock. *)
(* If the predicate is false, the thread goes to sleep with the lock held    *)
(* and releases it when it sleeps.                                           *)
MtxFree == tx_pc # "sleep"

TxWait ==
    /\ tx_pc = "wait"
    /\ tx_pc' = IF shutdown THEN "done" ELSE IF can_send THEN "gate" ELSE "sleep"
    /\ expire_time_ms' = IF can_send /\ ~shutdown THEN token_expire_time_ms ELSE expire_time_ms
    /\ UNCHANGED <<now, can_send, token_expire_time_ms, packet_queue, shutdown,
                   batch, rx, tun, late>>

TxSleep ==
    /\ tx_pc = "sleep"
    /\ tx_pc' = "blocked"
    /\ UNCHANGED <<now, can_send, token_expire_time_ms, packet_queue, shutdown,
                   expire_time_ms, batch, rx, tun, late>>

TxSpuriousWakeup ==
    /\ tx_pc = "blocked"
    /\ tx_pc' = "wait"
    /\ UNCHANGED <<now, can_send, token_expire_time_ms, packet_queue, shutdown,
                   expire_time_ms, batch, rx, tun, late>>

(* The gate, without the lock: has the copied token run out? *)
TxGate ==
    /\ tx_pc = "gate"
    /\ tx_pc' = IF now >= expire_time_ms THEN "expire" ELSE "pop"
    /\ batch' = << >>
    /\ UNCHANGED <<now, can_send, token_expire_time_ms, packet_queue, shutdown,
                   expire_time_ms, rx, tun, late>>

TxExpire ==
    /\ tx_pc = "expire"
    /\ can_send' = FALSE
    /\ tx_pc' = "loop"
    /\ UNCHANGED <<now, token_expire_time_ms, packet_queue, shutdown,
                   expire_time_ms, batch, rx, tun, late>>

(* extract_packet_from_queue() *)
TxPop ==
    /\ tx_pc = "pop"
    /\ IF packet_queue # << >> /\ Len(batch) < batch_size
       THEN /\ batch' = Append(batch, Head(packet_queue))
            /\ packet_queue' = Tail(packet_queue)
            /\ UNCHANGED tx_pc
       ELSE /\ tx_pc' = "check"
            /\ UNCHANGED <<batch, packet_queue>>
    /\ UNCHANGED <<now, can_send, token_expire_time_ms, shutdown, expire_time_ms, rx, tun, late>>

(* Mutant: the check trusts the test at the gate *)
TxCheckOnce ==
    /\ tx_pc = "check"
    /\ tx_pc' = IF batch = << >> THEN "guard" ELSE "inject"
    /\ UNCHANGED <<now, can_send, token_expire_time_ms, packet_queue, shutdown,
                   expire_time_ms, batch, rx, tun, late>>

(* Before each packet: the token in force now, read without the lock *)
TxCheck ==
    /\ tx_pc = "check"
    /\ tx_pc' = IF batch = << >> \/ now >= token_expire_time_ms THEN "guard" ELSE "inject"
    /\ UNCHANGED <<now, can_send, token_expire_time_ms, packet_queue, shutdown,
                   expire_time_ms, batch, rx, tun, late>>

(* pcap_inject_retry() *)
TxInject ==
    /\ tx_pc = "inject"
    /\ late' = IF now >= token_expire_time_ms THEN late + 1 ELSE late
    /\ batch' = Tail(batch)
    /\ tx_pc' = "check"
    /\ UNCHANGED <<now, can_send, token_expire_time_ms, packet_queue, shutdown, expire_time_ms, rx, tun>>

TxInjectFails ==
    /\ tx_pc = "inject"
    /\ batch' = Tail(batch)
    /\ tx_pc' = "check"
    /\ UNCHANGED <<now, can_send, token_expire_time_ms, packet_queue, shutdown,
                   expire_time_ms, rx, tun, late>>

TxGuard ==
    /\ tx_pc = "guard"
    /\ tx_pc' = "loop"
    /\ UNCHANGED <<now, can_send, token_expire_time_ms, packet_queue, shutdown,
                   expire_time_ms, batch, rx, tun, late>>

TxWorker ==
    \/ TxLoop \/ TxWait \/ TxSleep \/ TxGate \/ TxExpire
    \/ TxPop \/ TxCheck \/ TxInject \/ TxInjectFails \/ TxGuard

-----------------------------------------------------------------------------
(* rx_demux_main_loop(): a frame other than a token for this node *)
RxFrame ==
    /\ rx_pc = "loop" /\ ~shutdown
    /\ rx_errors' = 0
    /\ UNCHANGED <<now, can_send, token_expire_time_ms, packet_queue, shutdown,
                   tx, rx_pc, rx_expire, tun, late>>

(* A token for this node: the expiry is computed before the lock is taken *)
RxToken(duration_ms) ==
    /\ rx_pc = "loop" /\ ~shutdown
    /\ rx_errors' = 0
    /\ rx_expire' = now + (IF duration_ms < kMaxTokenDuration THEN duration_ms ELSE kMaxTokenDuration)
    /\ rx_pc' = "grant"
    /\ UNCHANGED <<now, can_send, token_expire_time_ms, packet_queue, shutdown, tx, tun, late>>

(* Mutant: set_token_granted() without the lock *)
RxGrantUnlocked ==
    /\ rx_pc = "grant"
    /\ can_send' = TRUE
    /\ token_expire_time_ms' = rx_expire
    /\ notify_one
    /\ rx_pc' = "loop"
    /\ late' = 0
    /\ UNCHANGED <<now, packet_queue, shutdown, expire_time_ms, batch, rx_expire, rx_errors, tun>>

(* set_token_granted() under the lock *)
RxGrant ==
    /\ rx_pc = "grant" /\ MtxFree
    /\ can_send' = TRUE
    /\ token_expire_time_ms' = rx_expire
    /\ notify_one
    /\ rx_pc' = "loop"
    /\ late' = 0
    /\ UNCHANGED <<now, packet_queue, shutdown, expire_time_ms, batch, rx_expire, rx_errors, tun>>

(* pcap_next_ex() returns -1; -2, the end of a capture file, ends the thread *)
RxError ==
    /\ rx_pc = "loop" /\ ~shutdown
    /\ rx_errors' = rx_errors + 1
    /\ rx_pc' = IF rx_errors' >= kMaxConsecutiveErrors THEN "done" ELSE "loop"
    /\ UNCHANGED <<now, can_send, token_expire_time_ms, packet_queue, shutdown,
                   tx, rx_expire, tun, late>>

RxEndOfFile ==
    /\ rx_pc = "loop" /\ ~shutdown
    /\ rx_pc' = "done"
    /\ UNCHANGED <<now, can_send, token_expire_time_ms, packet_queue, shutdown,
                   tx, rx_expire, rx_errors, tun, late>>

RxExit ==
    /\ rx_pc = "loop" /\ shutdown
    /\ rx_pc' = "done"
    /\ UNCHANGED <<now, can_send, token_expire_time_ms, packet_queue, shutdown,
                   tx, rx_expire, rx_errors, tun, late>>

-----------------------------------------------------------------------------
(* tun_reader_main_loop(): below the watermark, a packet is read *)
BelowWatermark == Len(packet_queue) < dynamic_limit

TunRead ==
    /\ tun_pc = "loop" /\ ~shutdown
    /\ BelowWatermark
    /\ packets_read < MaxPackets
    /\ packets_read' = packets_read + 1
    /\ tun_errors' = 0
    /\ tun_pc' = "push"
    /\ UNCHANGED <<now, can_send, token_expire_time_ms, packet_queue, shutdown, tx, rx, late>>

TunEmptyRead ==
    /\ tun_pc = "loop" /\ ~shutdown
    /\ BelowWatermark
    /\ tun_errors' = 0
    /\ UNCHANGED <<now, can_send, token_expire_time_ms, packet_queue, shutdown,
                   tx, rx, tun_pc, packets_read, late>>

TunReadError ==
    /\ tun_pc = "loop" /\ ~shutdown
    /\ BelowWatermark
    /\ tun_errors' = tun_errors + 1
    /\ tun_pc' = IF tun_errors' >= kMaxConsecutiveErrors THEN "done" ELSE "loop"
    /\ UNCHANGED <<now, can_send, token_expire_time_ms, packet_queue, shutdown,
                   tx, rx, packets_read, late>>

(* packet_queue.push(): a full queue drops the packet *)
TunPush ==
    /\ tun_pc = "push"
    /\ packet_queue' = IF Len(packet_queue) = QUEUE_CAPACITY THEN packet_queue
                       ELSE Append(packet_queue, packets_read)
    /\ tun_pc' = "notify"
    /\ UNCHANGED <<now, can_send, token_expire_time_ms, shutdown, tx, rx,
                   packets_read, tun_errors, late>>

TunNotify ==
    /\ tun_pc = "notify"
    /\ notify_one
    /\ tun_pc' = "loop"
    /\ UNCHANGED <<now, can_send, token_expire_time_ms, packet_queue, shutdown,
                   expire_time_ms, batch, rx, packets_read, tun_errors, late>>

TunExit ==
    /\ tun_pc = "loop" /\ shutdown
    /\ tun_pc' = "done"
    /\ UNCHANGED <<now, can_send, token_expire_time_ms, packet_queue, shutdown,
                   tx, rx, packets_read, tun_errors, late>>

-----------------------------------------------------------------------------
RxDemux ==
    \/ RxFrame \/ (\E d \in Durations : RxToken(d)) \/ RxGrant
    \/ RxError \/ RxEndOfFile \/ RxExit
TunReader == TunRead \/ TunEmptyRead \/ TunReadError \/ TunPush \/ TunNotify \/ TunExit

Next == Tick \/ Signal \/ TxWorker \/ TxSpuriousWakeup \/ RxDemux \/ TunReader

(* A runnable thread runs, and gets a lock that is released again and again; *)
(* devices, the clock and spurious wake-ups owe nothing.                     *)
Fairness ==
    /\ WF_vars(TxWorker)
    /\ SF_vars(RxGrant) /\ WF_vars(RxExit)
    /\ WF_vars(TunPush) /\ WF_vars(TunNotify) /\ WF_vars(TunExit)

Spec == Init /\ [][Next]_vars
FairSpec == Spec /\ Fairness

-----------------------------------------------------------------------------
(* However the grant, the clock and the TX thread interleave, at most one frame *)
(* goes out after the token in force has run out: the frame whose check passed  *)
(* just before.  The check per packet stops the rest of the batch.              *)
AtMostOneLateFrame == late <= 1

(* The TX thread never sleeps on cv_send while it holds a grant: a token granted *)
(* between its test of the predicate and its sleep is not lost, because          *)
(* set_token_granted() changes the state and notifies under the lock.            *)
NoSleepWithGrant == tx_pc = "blocked" => ~can_send

(* The shutdown flag ends every thread, so that run_client()'s joins return: the *)
(* TX loop is said to wait for can_send or shutdown.                             *)
ShutdownTerminates ==
    shutdown ~> (rx_pc = "done" /\ tun_pc = "done" /\ tx_pc = "done")

=============================================================================
