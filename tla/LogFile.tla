------------------------------ MODULE LogFile ------------------------------
(***************************************************************************)
(* ErrorSafeLogFile of wfb_ng/__init__.py and its subclass BinLogger of    *)
(* wfb_ng/server.py: log items go through a bounded queue to a thread of   *)
(* their own, so that a slow or failing disk never stops the reactor.      *)
(*                                                                         *)
(* The threads that write to the log, the log thread and the exit handler  *)
(* interleave between any two operations on the queue, on the lock and on  *)
(* the file.  "+= 1" on the overflow counter is a read and a write; only   *)
(* the lock makes it one step.  Opening, writing, flushing and closing the *)
(* file may fail.                                                          *)
(***************************************************************************)
EXTENDS Naturals, Sequences, FiniteSets

CONSTANTS
    Producers,    \* the threads that write to the log
    log_max,      \* capacity of log_queue (1000 in the code)
    MaxWrites,    \* bound: calls of write
    MaxFailures   \* bound: failed operations on the file

ASSUME LogAssumption ==
    /\ IsFiniteSet(Producers)
    /\ "free" \notin Producers
    /\ log_max \in Nat \ {0}
    /\ MaxWrites \in Nat
    /\ MaxFailures \in Nat

VARIABLES
    binary,     \* BinLogger: no overflow notice, and the file is flushed now and then
    log_queue,  \* the items, numbered in the order in which they were accepted
    unfinished, \* the queue's count of items without task_done
    overflow,   \* log_queue_overflow
    lock,       \* who holds the lock, or "free"
    producer,   \* where each producer is in write()
    seen,       \* the counter as the producer read it, under the lock
    thread,     \* where the log thread is
    hand,       \* the item that the log thread took from the queue
    held,       \* the drops that it is about to report
    logfile,    \* the file: "none" or "open"
    need_stop,  \* the Event that ends the log thread
    cleanup,    \* where the exit handler _cleanup is
    accepted,   \* history: items put into the queue
    dropped,    \* history: items that found the queue full
    reported,   \* history: drops handed to the notice
    log,        \* history: what became of each item that the thread finished
    failures    \* history: failed operations on the file

vars == <<binary, log_queue, unfinished, overflow, lock, producer, seen, thread, hand, held,
          logfile, need_stop, cleanup, accepted, dropped, reported, log, failures>>

TypeOK ==
    /\ binary \in BOOLEAN
    /\ log_queue \in Seq(Nat)
    /\ unfinished \in Nat
    /\ overflow \in Nat
    /\ lock \in Producers \cup {"free"}
    /\ producer \in [Producers -> {"idle", "full", "count"}]
    /\ seen \in [Producers -> Nat]
    /\ thread \in {"top", "get", "swap", "notice", "write", "done", "exited", "dead"}
    /\ hand \in Seq(Nat)
    /\ held \in Nat
    /\ logfile \in {"none", "open"}
    /\ need_stop \in BOOLEAN
    /\ cleanup \in {"no", "queue", "stop", "thread", "close", "done"}
    /\ accepted \in Nat
    /\ dropped \in Nat
    /\ reported \in Nat
    /\ log \in Seq([item : Nat, ok : BOOLEAN])
    /\ failures \in Nat

Init ==
    /\ binary \in BOOLEAN
    /\ log_queue = << >>
    /\ unfinished = 0
    /\ overflow = 0
    /\ lock = "free"
    /\ producer = [p \in Producers |-> "idle"]
    /\ seen = [p \in Producers |-> 0]
    /\ thread = "top"
    /\ hand = << >>
    /\ held = 0
    /\ logfile = "none"
    /\ need_stop = FALSE
    /\ cleanup = "no"
    /\ accepted = 0
    /\ dropped = 0
    /\ reported = 0
    /\ log = << >>
    /\ failures = 0

-----------------------------------------------------------------------------
(* The threads that write to the log: write(data) *)

CanWrite(p) == producer[p] = "idle" /\ cleanup = "no" /\ accepted + dropped < MaxWrites

PutNowait(p) ==
    /\ CanWrite(p)
    /\ Len(log_queue) < log_max
    /\ log_queue' = Append(log_queue, accepted + 1)
    /\ unfinished' = unfinished + 1
    /\ accepted' = accepted + 1
    /\ UNCHANGED <<binary, overflow, lock, producer, seen, thread, hand, held, logfile,
                   need_stop, cleanup, dropped, reported, log, failures>>

QueueFull(p) ==
    /\ CanWrite(p)
    /\ Len(log_queue) >= log_max
    /\ producer' = [producer EXCEPT ![p] = "full"]
    /\ dropped' = dropped + 1
    /\ UNCHANGED <<binary, log_queue, unfinished, overflow, lock, seen, thread, hand, held,
                   logfile, need_stop, cleanup, accepted, reported, log, failures>>

(* Mutant: the counter is read without the lock. *)
ReadCounterUnlocked(p) ==
    /\ producer[p] = "full"
    /\ lock' = p
    /\ seen' = [seen EXCEPT ![p] = overflow]
    /\ producer' = [producer EXCEPT ![p] = "count"]
    /\ UNCHANGED <<binary, log_queue, unfinished, overflow, thread, hand, held, logfile,
                   need_stop, cleanup, accepted, dropped, reported, log, failures>>

ReadCounter(p) ==
    /\ producer[p] = "full"
    /\ lock = "free"
    /\ lock' = p
    /\ seen' = [seen EXCEPT ![p] = overflow]
    /\ producer' = [producer EXCEPT ![p] = "count"]
    /\ UNCHANGED <<binary, log_queue, unfinished, overflow, thread, hand, held, logfile,
                   need_stop, cleanup, accepted, dropped, reported, log, failures>>

WriteCounter(p) ==
    /\ producer[p] = "count"
    /\ overflow' = seen[p] + 1
    /\ lock' = "free"
    /\ producer' = [producer EXCEPT ![p] = "idle"]
    /\ UNCHANGED <<binary, log_queue, unfinished, seen, thread, hand, held, logfile, need_stop,
                   cleanup, accepted, dropped, reported, log, failures>>

-----------------------------------------------------------------------------
(* The log thread: _log_thread_loop *)

(* close_if_failed around an operation on the file that leaves the thread  *)
(* at next: it succeeds and leaves the file as it says; it fails, and the  *)
(* file, if there is one, is closed and forgotten; or closing fails as     *)
(* well, and the exception ends the thread.                                *)
Succeeds(file, next) ==
    /\ logfile' = file
    /\ thread' = next
    /\ UNCHANGED failures

Fails(next) ==
    /\ failures < MaxFailures
    /\ failures' = failures + 1
    /\ logfile' = "none"
    /\ thread' = next

CloseFails ==
    /\ failures < MaxFailures
    /\ failures' = failures + 1
    /\ logfile' = "open"
    /\ thread' = "dead"

LoopTop ==
    /\ thread = "top"
    /\ \/ need_stop /\ Succeeds(logfile, "exited")
       \/ ~need_stop /\ Succeeds(logfile, "get")
       \/ ~need_stop /\ binary /\ logfile = "open" /\ (Fails("get") \/ CloseFails)
    /\ UNCHANGED <<binary, log_queue, unfinished, overflow, lock, producer, seen, hand, held,
                   need_stop, cleanup, accepted, dropped, reported, log>>

(* log_queue.get(timeout=1) *)
Get ==
    /\ thread = "get"
    /\ log_queue # << >>
    /\ hand' = <<Head(log_queue)>>
    /\ log_queue' = Tail(log_queue)
    /\ thread' = "swap"
    /\ UNCHANGED <<binary, unfinished, overflow, lock, producer, seen, held, logfile, need_stop,
                   cleanup, accepted, dropped, reported, log, failures>>

GetTimesOut ==
    /\ thread = "get"
    /\ log_queue = << >>
    /\ thread' = "top"
    /\ UNCHANGED <<binary, log_queue, unfinished, overflow, lock, producer, seen, hand, held,
                   logfile, need_stop, cleanup, accepted, dropped, reported, log, failures>>

(* Under the lock: overflow = self.log_queue_overflow, and reset. *)
TakeOverflow ==
    /\ thread = "swap"
    /\ lock = "free"
    /\ held' = overflow
    /\ overflow' = 0
    /\ thread' = "notice"
    /\ UNCHANGED <<binary, log_queue, unfinished, lock, producer, seen, hand, logfile, need_stop,
                   cleanup, accepted, dropped, reported, log, failures>>

(* The notice "Dropped %d log items"; a binary log has none. *)
WriteNotice ==
    /\ thread = "notice"
    /\ reported' = reported + held
    /\ held' = 0
    /\ IF held > 0 /\ ~binary
       THEN Succeeds("open", "write") \/ Fails("write") \/ CloseFails
       ELSE Succeeds(logfile, "write")
    /\ UNCHANGED <<binary, log_queue, unfinished, overflow, lock, producer, seen, hand, need_stop,
                   cleanup, accepted, dropped, log>>

(* Mutant: an item that could not be written is queued again. *)
WriteItemAgain ==
    /\ thread = "write"
    /\ hand' = << >>
    /\ \/ /\ Succeeds("open", "done")
          /\ log' = Append(log, [item |-> hand[1], ok |-> TRUE])
          /\ UNCHANGED log_queue
       \/ /\ Fails("done")
          /\ log_queue' = Append(log_queue, hand[1])
          /\ UNCHANGED log
    /\ UNCHANGED <<binary, unfinished, overflow, lock, producer, seen, held, need_stop,
                   cleanup, accepted, dropped, reported>>

(* _write(data): an item whose write fails is lost. *)
WriteItem ==
    /\ thread = "write"
    /\ \/ /\ Succeeds("open", "done")
          /\ hand' = << >>
          /\ log' = Append(log, [item |-> hand[1], ok |-> TRUE])
       \/ /\ Fails("done")
          /\ hand' = << >>
          /\ log' = Append(log, [item |-> hand[1], ok |-> FALSE])
       \/ CloseFails /\ UNCHANGED <<hand, log>>
    /\ UNCHANGED <<binary, log_queue, unfinished, overflow, lock, producer, seen, held, need_stop,
                   cleanup, accepted, dropped, reported>>

(* Mutant: no task_done after an item. *)
TaskNotDone ==
    /\ thread = "done"
    /\ thread' = "top"
    /\ UNCHANGED <<binary, log_queue, unfinished, overflow, lock, producer, seen, hand, held,
                   logfile, need_stop, cleanup, accepted, dropped, reported, log, failures>>

TaskDone ==
    /\ thread = "done"
    /\ unfinished' = unfinished - 1
    /\ thread' = "top"
    /\ UNCHANGED <<binary, log_queue, overflow, lock, producer, seen, hand, held, logfile,
                   need_stop, cleanup, accepted, dropped, reported, log, failures>>

-----------------------------------------------------------------------------
(* The exit handler: _cleanup.  It runs after reactor.run() has returned,  *)
(* when nothing writes to the log any more.                                *)

Exit ==
    /\ cleanup = "no"
    /\ \A p \in Producers : producer[p] = "idle"
    /\ cleanup' = "queue"
    /\ UNCHANGED <<binary, log_queue, unfinished, overflow, lock, producer, seen, thread, hand,
                   held, logfile, need_stop, accepted, dropped, reported, log, failures>>

(* Mutant: the exit handler does not wait for the queue. *)
JoinQueueNot ==
    /\ cleanup = "queue"
    /\ cleanup' = "stop"
    /\ UNCHANGED <<binary, log_queue, unfinished, overflow, lock, producer, seen, thread, hand,
                   held, logfile, need_stop, accepted, dropped, reported, log, failures>>

JoinQueue ==
    /\ cleanup = "queue"
    /\ unfinished = 0
    /\ cleanup' = "stop"
    /\ UNCHANGED <<binary, log_queue, unfinished, overflow, lock, producer, seen, thread, hand,
                   held, logfile, need_stop, accepted, dropped, reported, log, failures>>

SetNeedStop ==
    /\ cleanup = "stop"
    /\ need_stop' = TRUE
    /\ cleanup' = "thread"
    /\ UNCHANGED <<binary, log_queue, unfinished, overflow, lock, producer, seen, thread, hand,
                   held, logfile, accepted, dropped, reported, log, failures>>

JoinThread ==
    /\ cleanup = "thread"
    /\ thread \in {"exited", "dead"}
    /\ cleanup' = "close"
    /\ UNCHANGED <<binary, log_queue, unfinished, overflow, lock, producer, seen, thread, hand,
                   held, logfile, need_stop, accepted, dropped, reported, log, failures>>

(* An exception of close() ends the handler with the file still set. *)
Close ==
    /\ cleanup = "close"
    /\ cleanup' = "done"
    /\ \/ logfile' = "none" /\ UNCHANGED failures
       \/ /\ logfile = "open"
          /\ failures < MaxFailures
          /\ failures' = failures + 1
          /\ UNCHANGED logfile
    /\ UNCHANGED <<binary, log_queue, unfinished, overflow, lock, producer, seen, thread, hand,
                   held, need_stop, accepted, dropped, reported, log>>

-----------------------------------------------------------------------------
Write(p) == PutNowait(p) \/ QueueFull(p)
Count(p) == ReadCounter(p) \/ WriteCounter(p)
LogThread ==
    LoopTop \/ Get \/ GetTimesOut \/ TakeOverflow \/ WriteNotice \/ WriteItem \/ TaskDone
Cleanup == JoinQueue \/ SetNeedStop \/ JoinThread \/ Close

Next == (\E p \in Producers : Write(p) \/ Count(p)) \/ LogThread \/ Exit \/ Cleanup

(* The operating system runs every thread that can run. *)
Spec ==
    /\ Init
    /\ [][Next]_vars
    /\ \A p \in Producers : WF_vars(Count(p))
    /\ WF_vars(LogThread)
    /\ WF_vars(Cleanup)

-----------------------------------------------------------------------------
(* Every item that found the queue full is counted exactly once: it is     *)
(* being counted, is in the counter, is about to be reported, or was       *)
(* reported (the lock around log_queue_overflow).                          *)
Counting == {p \in Producers : producer[p] # "idle"}
DropsCountedOnce == dropped = Cardinality(Counting) + overflow + held + reported

(* The items reach the file in the order in which they were accepted; none *)
(* is lost but by a failed write, and none is written twice                *)
(* (_log_thread_loop).                                                     *)
ItemsInOrder ==
    [i \in DOMAIN log |-> log[i].item] \o hand \o log_queue = [i \in 1 .. accepted |-> i]

(* When the exit handler is done, every accepted item has been written or  *)
(* its write has failed; if nothing failed, all are in the file and the    *)
(* file is closed (_cleanup).                                              *)
WrittenAtExit ==
    cleanup = "done" =>
        /\ Len(log) = accepted
        /\ failures = 0 => logfile = "none" /\ \A i \in DOMAIN log : log[i].ok

(* As long as no exception gets out of close(), which ends the log thread  *)
(* with an item unfinished, the exit handler terminates (_cleanup).        *)
ExitTerminates ==
    [](thread # "dead") => (cleanup = "queue" ~> cleanup = "done")

=============================================================================
