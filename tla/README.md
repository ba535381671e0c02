# A verification of wfb-ng in TLA+

This directory models wfb-ng: the services of `wfb_ng/` (Python), the radio link of `src/tx.cpp` and
`src/rx.cpp`, and the token-passing process `wfb_core` built beside it.  TLC checks the models on small
instances; TLAPS proves what matters most for every instance.  `PROJECT.json` maps each definition to
the lines it translates and lists runs, mutants, findings, hazards and theorems.  Paths below are
relative to the repository's root.

## 1. The system

| Part | State | Operations | Meets |
|---|---|---|---|
| `wfb-server` (`server.py`, `services.py`, `common.py`) | cards, services, child processes, exit status | prepare cards, start services, announcements and ends of processes, signals | `wfb_tx`, `wfb_rx`, ssh, systemd |
| `ProxyProtocol` (`proxy.py`) | aggregation queue and its timer | message, timer | all services |
| IP tunnel (`tuntap.py`) | write queue of the device, two semaphores | read, batch, unbatch, keepalive | proxy queue, TUN device |
| MAVLink proxy and ARM watcher (`proxy.py`, `mavlink_protocol.py`) | parser buffer, lock, recorded state | serial bytes, frames from the radio, end of a command | autopilot, radio |
| MAVLink library (`mavlink.py`) | sequence number | 221 `x_send` methods, `decode()` | proxy (RADIO_STATUS), logger |
| antenna selector (`protocols.py`) | statistics, selected card, callbacks | report of `wfb_rx`, aggregation timer | tunnel, MAVLink, autopilot |
| log files (`__init__.py`) | bounded queue, overflow counter, file | write, log thread, exit handler | reactor threads, disk |
| `Transmitter`, `data_source()` (`tx.cpp`) | session key, K/N, open block | input packet, FEC timeout, `CMD_SET_FEC`, rekeying, restart | the air |
| `Aggregator` (`rx.cpp`) | session, ring of unfinished blocks, `seq` | announcement or fragment; ring overflow, in-order sending, FEC recovery | the air, a UDP socket |
| threads of `wfb_core` (`tx_worker.cpp`, `rx_demux.cpp`, `tun_reader.cpp`) | `can_send`, expiry, mutex, condition, bounded queue | grant, gate, inject, read, push | `ThreadSharedState` |
| `AqSqManager`, `ServerScheduler`, scheduler thread | two queues; per node: state, window, silence count | register, migrate, next node, report | each other, the token frames |

What makes it hard: timers, sockets, processes and devices that report in any order in one reactor; a
byte stream cut anywhere; two stations that must find a pair of cards while neither knows what the other
hears; a log thread beside the reactor; a radio that loses, repeats, delays and reorders; keys that
change while old packets are in flight; threads that share variables, some read without the lock; a
shutdown at any point.

What it must do: pass packets on whole, in order and once; leave nothing waiting without a timer; run at
most one arm command and end with the right one; encode and decode every MAVLink message alike; find a
working card; start in order, stop on failure and say so; lose no log item unaccounted; never use a nonce
twice; not send beyond a token; serve all nodes.

## 2. Modules

| Module | Models | Checked by |
|---|---|---|
| `AggQueue` | `ProxyProtocol`'s queue as a record, its methods as operators | through `Tunnel`, `MavlinkProxy` |
| `Tunnel` | two ends of the IP tunnel | `MCTunnel`, `TunnelProofs` |
| `MavlinkParser` | `mavlink_parser_gen` as a function of bytes | through `MavlinkProxy`, `MavlinkProxyProofs` |
| `MavlinkProxy` | serial proxy and ARM watcher | `MCMavlinkProxy`, `MavlinkProxyProofs` |
| `MavlinkMessages1`, `MavlinkMessages` | the message classes of `mavlink.py`: ids up to 255, and above with the table of all | through `MavlinkCodec` |
| `MavlinkSenders1`, `MavlinkSenders` | its `x_send` methods, split alike | through `MavlinkCodec` |
| `MavlinkCodec` | packing, checksum, the two decoders | `MCMavlinkCodec` |
| `AntennaSelector` | `AntStatsAndSelector` as a record | through `AntennaLink` |
| `AntennaLink` | two stations, their timers and the keepalives | `MCAntennaLink` |
| `Services` | start and end of `wfb-server` | `MCServices`, `ServicesProofs` |
| `LogFile` | `ErrorSafeLogFile`, `BinLogger` | `MCLogFile`, `LogFileProofs` |
| `Aggregator` | `process_packet()` cut at its loop iterations | `MCAggregator`, `AggregatorProofs` |
| `Transmitter` | `Transmitter` and `data_source()` | through `Link` |
| `Link` | both, and the air between them | `MCLink`, `LinkProofs` |
| `TokenGate` | the client process of `wfb_core` | `MCTokenGate`, `TokenGateProofs` |
| `AqSqManager` | the two queues; every method holds the mutex and is one action | through `ServerScheduler` |
| `ServerScheduler` | the three-state scheduler on top of `AqSqManager` | `MCServerScheduler`, `ServerSchedulerProofs` |
| `SchedulerWorker` | the scheduler thread on top of `ServerScheduler` | `MCSchedulerWorker` |

**Tunnel.**  One callback of the reactor is one action: `Read` (`doRead`, `dataReceived` and
`messageReceived`), `Flush` (the timer), `Deliver` (`write` with its unbatching loop), `TunWrite`
(`doWrite`: the device takes any number of packets), `Keepalive`.  Packets are sequences of bytes, so
that framing is real.  Between the stations lie `wfb_tx`, the radio and `wfb_rx`: datagrams keep their
order and may be lost or cut.  The keepalive interval (500 ms) is long against the aggregation timeout
(5 ms): a tick is `Due` when neither a timer nor a datagram is pending, and the ticks of the two stations
alternate.  `read`, `written`, `heard` and `faulty` are history variables.

**MavlinkProxy.**  The serial line is a sequence of bytes of which the port hands over any listed number.
`ReadChunk` is all of `dataReceived`: parser, hooks, aggregation.  The ARM watcher has its own parser,
fed with whole frames from both directions, and a command that runs until `CommandEnds`.  `message[6]` of
a heartbeat with a shorter payload is an IndexError (`Raises`): it ends the watcher's loop before the lock
is taken, and the parser has gone through all the data.  Such a frame is among the `Writes`; the
autopilot's own heartbeats are complete (`MavlinkAssumption`), so that the same exception does not cut
`ReadChunk` short.  Checksums play no part here: neither the parser nor the watcher looks at them.

**MavlinkMessages(1), MavlinkSenders(1), MavlinkCodec.**  A class is what decides how its messages travel: id,
`crc_extra`, struct format, the argument order of `pack()`, and the `orders` and `lengths` of `decode()`.
The tables are transcribed separately, so that they fit is checked and not assumed.  `Instance` is the
constructor, which keeps a char array as bytes for `pack()` and shows it as `Text`: up to the first zero,
with a replacement for what is not ASCII.  `decode()` makes such an object; `unpack_mavlink` returns the
bytes as they came, so `DecodersAgree` says that the object made of its values is the decoded one.
Numbers are unsigned and below 2^24; floats and signed numbers move the same bytes.  Field names,
enumerations and signing (no key is ever set) are left out, and `MAV_IGNORE_CRC`, which turns the
checksum test off (`mavlink.py:37`), is not set.

**AntennaSelector, AntennaLink.**  Statistics are functions of (card, antenna); averages over packets use
integer division, as the code does.  A round is one `log_interval`.  In it an end reports once, aggregates
once and ticks twice (`keepalive_interval` is half of `log_interval`), in any order but these: the ticks
of the two ends alternate, and `first` says whether report or aggregation comes first at an end, which
`Slip` swaps.  `Tick` is a keepalive interval: the data packets sent in it (`Bursts`) and `send_keepalive`
at its end.  Every packet that is heard is counted and renews `pkt_in_sem`.  A pair of cards in `up` hears
both ways.

**Services.**  A Deferred runs its callbacks at once, so an event and all that follows from it is one
action.  `bad` chooses what cannot be spawned or opened, or is refused before anything is opened: a peer
address that the service does not support, several cards for `udp_direct_tx`, a `mavlink_tcp_port` in use.  `Listed` is the list of sockets `_cleanup`
closes.

**LogFile.**  A step is one operation on the queue, the lock, the event or the file; `+= 1` is a read
and a write.  `close_if_failed` is three outcomes: success, failure with the file closed, failure of
`close()` too, which ends the thread.

**Aggregator, Transmitter, Link.**  A session packet is compared by value where the code compares its
hash.  `Item` is `rx_ring_item_t`: the domain of `fragments` is the fragment map.  `ProcessPacket` takes a
packet and the `Continue` actions are the iterations of the loops; `out` records the calls of
`send_packet()` since the last `init_fec()`.  `RingAssertions` has the asserts of `process_packet()` and
of the ring functions, not those inside `apply_fec()`.  Cryptography is ideal; zfex is modelled by its
contract: `fec_decode` returns the original only when its inputs are of one codeword and the coded length covers it, and
`Garbage` otherwise.  Session keys are numbered as they are generated.  `air` holds everything ever
injected.  The announcement timer may have run out at any input packet and has run out at the first.

**TokenGate.**  A step is one critical section, one blocking call, or one test of unlocked state.
`cv_send.wait()` is two steps: `TxWait` tests the predicate and keeps the lock, `TxSleep` sleeps and
releases it, and a grant between them must wait (`MtxFree`).
`expire` is the second critical section of an expired gate; `late` counts frames injected after the token
then in force had run out.  `token_expire_time_ms` is read without the lock in the batch loop: on the
platforms the code targets this aligned load returns the last value written.

**AqSqManager, ServerScheduler, SchedulerWorker.**  Actions bear the names of the methods.  `aq_served`
is only compared with the ratio and is counted up to it.  `unprobed` and `silent` are history variables.
`ServerScheduler` is modelled as the tests use it, with an `AqSqManager` attached; `SchedulerWorker` also
as `run_server()` uses it, without one (`manager_attached`), when the thread finds no node and patrols.
The worker reports every window as used in full, as the code does for now.

## 3. Runs

Twelve runs.  Each property of a passing run has a mutant (the definitions marked as such just before
the ones they replace) that breaks it.

| Run | Shows | Instance | States |
|---|---|---|---|
| `tunnel` | `QueueTimed`, `DatagramsFit`, `PacketsIntact`, `NoBroadcastWhileHeard`, `EveryPacketArrives` | three packets of 1 or 5 bytes one way, MTU 7, all faults | 227224 |
| `mavlink` | `FramesInOrder`, `SplitUndoesJoin`, `OneCommandAtATime`, `ArmFollowed` | heartbeats, a MAVLink 2 frame with a start byte inside, noise, chunks of 6 and 20 bytes, a heartbeat that is too short among the writes, two changes of state | 73738 |
| `mavlink_codec` | `RoundTrip`, `DecodersAgree`, `DamageDetected`, `ArmFlagReadable` | all 221 messages, both versions, no, each single and all fields set, low and high bytes, text with an inner zero and a byte that is not ASCII; every value of every damaged byte of two messages | 57672 |
| `antenna` | `PeersFollowSelection`, `WorkingCardFound`, `LostLinkReported` | cards 3 (one receive-only) and 2, three pairs, one change or slip | 187060 |
| `services` | `CardsPreparedFirst`, `ReceiverHasOutlet`, `ExitStatusTells`, `FailureStopsServer`, `ServicesComeUp` | three profiles with all five kinds of services, two cards, one node, three roles | 50382 |
| `log_file` | `DropsCountedOnce`, `ItemsInOrder`, `WrittenAtExit`, `ExitTerminates` | two writers, queue of one, five writes, two failures | 29384 |
| `aggregator` | `OutputInOrder`, `RingInvariant`, `RingAssertions`, `NoCompleteBlockWaits`, `LossReportedExactly`, `NothingReceivedIsDropped` | ring of 3, five blocks, K=2 N=3 and a second session K=1 N=2, announcements of an older epoch and a foreign channel | 177322 |
| `link` | `NonceNeverReused`, `DeliveredIntact`, `SameCodeAsSender` | ring of 2, three packets of two sizes, three sessions, restarts of both sides | 514548 |
| `token_gate` | `AtMostOneLateFrame`, `NoSleepWithGrant` | queue 2, watermark 2, batch 2, two errors, three packets, two ticks | 312502 |
| `token_gate_shutdown` | **violated**: `ShutdownTerminates` | same | |
| `server_scheduler` | `SchedulerAgreesWithQueues`, `SleepersProbed`, `WatchdogNeedsThreeSilences` | three nodes, ratio 2, windows 4, 5 and 100 ms, counter modulo 5 | 143056 |
| `scheduler_worker` | **violated**: `EveryNodeGetsTokens` | three nodes, the constants of the code, no manager | |

**Bounds.**  Tunnel: with MTU 7 a packet of 5 bytes fills a datagram exactly and two packets of 1 byte
leave one byte over, so exact fit, early flush and batches all occur; one station reads, both tick.
MAVLink: `GC_LIMIT` 12 makes the parser collect within a frame or two; 6 bytes end inside a header, 20
bytes span frames; two changes bring the vehicle back to its first state while a command runs.  Codec:
single fields show every misplaced entry, high bytes show wrong sizes, zero fields show stripping; values
are below 2^24.  Antenna: the receive-only card has the best RSSI, so it wins the vote unless it is
excluded; with no or one data packet per interval cards count differently many packets, so that
the vote is decided by the packet counter in some states and by RSSI in others; one change suffices since
the initial pairs are all or none.  Log: a queue of one is full at once, and five writes
let both writers count while the log thread takes the counter.  Aggregator: five blocks overrun a ring of
three by a gap and wrap it; K=2, N=3 is the smallest code whose block can be complete, recoverable or
short.  Link: `MAX_BLOCK_IDX` is 2, so rekeying happens.  TokenGate: two of everything reaches empty,
partial and full; two ticks let a token expire before, in and after a batch.  `SilenceWrap` is 5 instead
of 256 so that the counter wraps while a node sleeps; 4 and 5 ms are the two sides of the watchdog's
limit.  Runs whose packets, sessions or writes can be used up, or whose server ends, do not check for
deadlock; `tunnel`, `mavlink`, `antenna` and `server_scheduler` do.

**Fairness.**  Tunnel, AntennaLink: the reactor fires timers that are due and serves descriptors that
are ready, and the device does not refuse forever; nothing obliges the radio to deliver, so liveness is
stated up to faults.  In `AntennaLink` fairness is on the timers alone.  MavlinkProxy: the autopilot keeps
sending heartbeats (strong fairness, since other frames may fill the line again and again), the line is
read, commands end.  Services: commands of `init_wlans` end, `wfb_tx` announces what it is asked for
unless it ends, the reactor stops when told; processes need not end.  LogFile: the operating system runs
every thread that can run; the writers need not write.  TokenGate: each thread takes its steps and gets a
lock that is released again and again (strong fairness of `RxGrant`); nothing obliges a token, a packet, a
tick or a signal to come.  SchedulerWorker: its thread runs.

## 4. Proofs

| Module | Theorems | Assumed |
|---|---|---|
| `AggregatorProofs` | `RingCorrect`, `OutputOrder`, `AssertionsNeverFail`, `NoCompleteBlockWaitsHolds`, `NothingReceivedIsDroppedHolds`, for every ring size, code rate, modulus and set of packets | `AggregatorConstants`, `PacketsAssumption`: positive sizes, natural fields, nothing about order |
| `LinkProofs` | `NonceNeverReusedHolds`, `DeliveredIntactHolds`, `SameCodeAsSenderHolds`, for every ring size, set of code rates, block limit and packet size | `LinkConstants`: a ring of at least one block, 1 <= K <= N < 256 |
| `TunnelProofs` | `QueueAlwaysTimed`, `DatagramsAlwaysFit`, `NeverBroadcastsWhileHeard`, `PacketsAlwaysIntact`, for every MTU below 65536 and all packet sizes up to MTU - 2 | `TunnelAssumption` |
| `MavlinkProxyProofs` | `FramesAlwaysInOrder`, `SplitAlwaysUndoesJoin`, `OneCommandAlways`, for every set of frames, noise, chunk sizes, writes, commands and size limit | `MavlinkAssumption`: a frame is as long as its header says, at least 8 bytes, starts with 253 or 254 and fits the radio; noise holds no start byte; a chunk is not empty |
| `LogFileProofs` | `DropsAlwaysCounted`, `ItemsAlwaysInOrder`, `NothingForgottenAtExit`, for every finite set of writers, capacity and number of failures | `LogAssumption` |
| `ServicesProofs` | `CardsAlwaysPrepared`, `StatusAlwaysTells`, `ReceiverAlwaysHasOutlet`, for every profile, list of cards and set of nodes | `ServicesAssumption`: the types of `type_map` and the streams each of them has |
| `TokenGateProofs` | `AtMostOneLateFrameHolds`, `NoSleepWithGrantHolds`, for every queue length, batch size, watermark and set of durations | `TokenGateConstants` |
| `ServerSchedulerProofs` | `SchedulerAgreesWithQueuesHolds`, `SleepersProbedHolds`, `WatchdogHolds`, for every set of nodes, ratio, window sizes and width of the silence counter above 3 | `SchedulerConstants` |

**Aggregator.**  `OutputInOrder` alone is not inductive: a step that sends must know that what it sends
lies beyond all that was sent.  `RingInvariant` says so at every loop iteration: blocks in the ring are
sorted and below a frontier, only the oldest has been sent in part, up to a cursor, and the output is
behind the cursor.  The argument has three layers: arithmetic of ring positions; what removal, push,
override, sending and storing do to the order; one step per action.  On top of it `Complete` says what
the slots hold: `has_fragments` is the number of fragments, only the block that process_packet() works on
may have K of them, and of the oldest block everything before the cursor was sent.  From it follow that
no complete block waits and that a block leaves the ring only after all that was received of it was sent.

**Link.**  `LinkInvariant` ties four places together: all that is in the air comes from one encoder state
per session and has one plaintext per nonce; the open block of the transmitter is ahead of everything in
the air under its key; every fragment in the receiver's ring is one that was in the air under the session
the receiver has; and what was passed on was sent.  Recovery gives the original because K fragments of a
block belong to one codeword; restarts and changes of the code rate bring a new key, so that nothing old
can be taken for new.

**Tunnel.**  `QueueTimed` is inductive with the types: the early flush may cancel the timer because a
queue that overflows is not empty and a queue that is not empty has a pending timer.  The lemmas
`ReceiveKeeps` and `FlushKeeps` say what the two methods do to any queue; every action of either station
is then a step on one queue or none.  `NoBroadcastWhileHeard` needs `HeardInTime`: as long as nothing is
lost, the semaphore of a station is above what the ticks until its peer's next sign of life can take off.
`PacketsIntact` needs `StreamInvariant`: the frames of the packets that were read form one stream; the
datagrams in the air and the queue of the sender are consecutive pieces of it, each starting at a frame
and possibly cut short at its end, and what waits for the device or was written to it are packets from
before the first piece.  The heart is `UnbatchPiece`: the loop of `write` makes of such a piece exactly
whole packets of it, in order.  It is proved by induction over the bytes of the datagram.

**MavlinkProxy.**  `FramesInOrder` needs `LineInvariant`: the bytes the parser has kept and the bytes on
the line are one stream, the frames still to be delivered with noise between them, and nothing that
belongs to a frame lies before the position up to which the parser has looked (`Holds`).  That `send()`
keeps this for any chunk is `FeedStream`: the scan delivers the frames that are complete, stops where the
next one may still begin, and the garbage collection drops only what lies before that (`Shift`).  The
scan is a loop over bytes whose turns depend on later ones; `ScanStream` is proved by induction from the
end of the buffer.  A payload may hold start bytes: the header of the frame before it skips them.
`SplitUndoesJoin` is the same fact about the far parser: `QueueInvariant` says that a batch is a stream
of the frames that were joined.  `OneCommandAtATime` needs `ArmInvariant` and, within one
call, `Guarded`: behind a closed lock nothing changes, behind an open one at most one command starts, and
it closes the lock; so it holds for any number of heartbeats in one chunk.

**LogFile.**  `DropsCountedOnce` needs `Locked`: whoever counts holds the lock and has seen the present
value, so a write of `seen + 1` is an increment; the cardinality of the writers that count changes by one
with each of them.  `ItemsInOrder` is proved from `Placed`, its form by positions.  `WrittenAtExit` needs
`Unfinished` (the count of unfinished items is the queue's length and the item in hand) and `InHand`.

**Services.**  `CardsPreparedFirst` needs that nothing is started while `init()` is in or before
`init_wlans`; `ExitStatusTells` needs that a failure is recorded in the step in which it is met, also
while the reactor stops.  `ReceiverHasOutlet` needs `OutletInvariant`: at each point of an `init_...`
generator, what it has opened so far, per type of service, also when it waits for an announcement.

**TokenGate.**  `GateInvariant`: once a frame has gone out late the token in force has run out and the TX
thread is not between its check and the injection, so the next check reads the expired token and only a
new grant starts a new count; and the thread decides to sleep only with `can_send` clear, which stays so
until it sleeps since the lock is held (`NoGrantBeforeSleep`).

**ServerScheduler.**  `SchedulerInvariant`: each queue has no repetitions and holds exactly its set, the
flags of the nodes agree with the sets, `aq_served` bounds the services since the last probe, and the
silence count of a node that is awake is its number of silent windows in a row.  That
`std::remove` takes out one node and keeps the order of the others is proved by induction over the queue.

Induction over data is done without a predicate parameter: the indices for which a statement holds are a
set, the numbers outside it would have a least one (`LeastNumber`, `SmallestNumber`), and a recursive function is shown to
exist before its equation is used.

Only model-checked: all liveness (`EveryPacketArrives`, `ArmFollowed`, `WorkingCardFound`,
`LostLinkReported`, `FailureStopsServer`, `ServicesComeUp`, `ExitTerminates`), which rests on ENABLED and fairness; the codec (`RoundTrip`, `DecodersAgree`, `DamageDetected`,
`ArmFlagReadable`), whose checksum is a RECURSIVE operator on bits; `PeersFollowSelection`, which needs
that the vote of `select_tx_antenna` has a winner and so what the sums over all `wfb_rx` processes, folds
of the library, come to; and `LossReportedExactly`, which holds only while the 32-bit packet counter does not wrap, so that a theorem
for all runs would need an assumption that the code does not make.

## 5. Findings

**Shutdown** (`token_gate_shutdown`).  The signal handler of `wfb_core` does not notify `cv_send`: a TX
thread asleep there stays asleep and the join never returns, unless a packet or a token still wakes it.
The comment at `src/tx_worker.cpp:168` says that the wait also ends on shutdown.

**No tokens** (`scheduler_worker`).  `run_server()` (`src/wfb_core.cpp:176`) registers its nodes with the
scheduler and attaches no `AqSqManager`.  `get_next_node_to_serve()` then returns no node
(`src/server_scheduler.cpp:82`) and the scheduler thread patrols forever, while the design says that even
sleeping nodes are probed regularly (`.planning/research/FEATURES.md:74`).  The tests attach a manager
themselves.  With `manager_attached = TRUE` in the configuration the property holds (894 states): the
scheduler itself serves every node.

## 6. Observations

Behaviour met while modelling that no run is about:

- If `wfb_tx` cannot be spawned, `init_mavlink`, `init_tunnel`, `init_udp_proxy` and (with
  `control_port` 0) `init_udp_direct_tx` wait for its announcement forever: the failure is gathered only
  later.  `FailureStopsServer` shows that it is the only failure with that effect (`Hung`).  For the same
  reason `init_udp_proxy` notices a `wfb_rx` that ended only once `wfb_tx` has announced its sockets.
- `init_udp_proxy` assigns `sockets` again (`services.py:482`): the user's socket is never closed.
- If all child processes of all services end with code 0, the server goes on without any.
- `notify_ready()` is called when the services have been started, before their sockets are known.
- If `close()` of a log file raises after a failed write, the log thread ends with an item unfinished
  and the exit handler waits forever (`ExitTerminates` excludes this case).
- Reports of `wfb_rx` and the aggregation timer are not synchronised: when they drift past each other a
  report is superseded, or LINK_LOST is sent once although the link is up.
- The epoch test of `rx.cpp:645` lets a delayed announcement of an earlier session of the same epoch
  replace the current one; order and uniqueness hold within a session, not across such sessions.
- `tx_worker.cpp:196` clears `can_send` on account of a copy of the expiry made under an earlier lock: a
  token granted in between is withdrawn.
- The 15 ms probes of sleeping nodes would leave as tokens of `min_window_ms` (`scheduler_worker.cpp:113`).
- `get_max_window()` returns 150 ms for every N above 10; (N-1) x 150 ms exceeds the 5000 ms of its
  comment from 35 nodes on.
- `send_token_triple()` (`scheduler_worker.cpp:38`) returns true even if all three injections fail: the
  window is waited for and reported as used in full.
- A watermark above the capacity of 1000 packets (144 Mbps and a `min_window_ms` above 53) makes `push()`
  (`packet_queue.h:33`) drop packets that were already read.
- A `bypass_fec` packet (`tx.cpp:659`) overwrites `block[0]` and leaves `fragment_idx` alone; `wfb_tx`
  never passes one, only `token_emitter.cpp` does.
- `init_session()` (`tx.cpp:140`) leaves `max_packet_size` as it is; all its callers are at a block's end.

## 7. Not modelled

- Of `wfb_ng/`: the display and measurement tools (`cli.py`, `latency_test.py`, `log_parser.py`),
  configuration parsing, the shell scripts of `cluster.py`, the statistics and JSON sessions and the
  temperature meter (one-way output of values), reply addresses and mirroring of the UDP proxies, flow
  control of MAVLink TCP sessions, enumerations, `parse_char()` and signing of `mavlink.py` (not used by
  wfb-ng), and the cleaning up of a tunnel.
- Of `src/`: byte layouts (radiotap, token frames), cryptography and finite-field arithmetic, statistics,
  device set-up and argument parsing, one-shot tools, `wfb_tun.c`, `packet_injector`, `BreathingCycle`,
  the `bypass_fec` path of `send_packet()`.
- Server and clients of `wfb_core` are not composed: who is on the air at the same time, with tokens sent
  three times and no sequence check, is left open.
