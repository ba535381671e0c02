------------------------------ MODULE MavlinkProxy ------------------------------
(***************************************************************************)
(* The MAVLink service at the vehicle (init_mavlink of wfb_ng/services.py  *)
(* with a serial autopilot): MavlinkSerialProxyProtocol of wfb_ng/proxy.py *)
(* with its hooks, and MavlinkARMProtocol of wfb_ng/mavlink_protocol.py.   *)
(*                                                                         *)
(* The autopilot's byte stream is read in chunks of any length, cut into   *)
(* frames, shown to the hooks, and aggregated for the radio.  The other    *)
(* way, datagrams from the radio, RADIO_STATUS messages of wfb-ng itself   *)
(* and frames of a TCP client are shown to the ARM watcher and written to  *)
(* the autopilot.  The ARM watcher has one parser for both directions and  *)
(* runs a command whenever the autopilot's heartbeat shows a new state.    *)
(***************************************************************************)
EXTENDS AggQueue, MavlinkParser

CONSTANTS
    Heartbeat(_),  \* the autopilot's heartbeat frame when armed or disarmed
    Others,        \* other frames of the autopilot
    Noise,         \* garbage on the serial line: bytes that start no frame
    Writes,        \* what is written to the autopilot: whole frames, joined
    Chunks,        \* the serial port delivers so many bytes, or what there is
    AGG_MAX_SIZE,  \* agg_max_size: radio_mtu
    Commands,      \* the states with a command: call_on_arm, call_on_disarm
    LINE_MAX,      \* bound: bytes on the serial line
    MaxSwitches    \* bound: how often the vehicle is armed or disarmed

States == {"armed", "disarmed"}
Frames == Others \cup {Heartbeat(s) : s \in States}

ASSUME MavlinkAssumption ==
    /\ Commands \subseteq States
    /\ \A s \in States : L2(Heartbeat(s)).source = <<1, 1, 0>>
    /\ \A f \in Others : L2(f).source # <<1, 1, 0>>
    /\ \A s \in States : L2(Heartbeat(s)).payload[7] \in IF s = "armed" THEN 128 .. 255 ELSE 0 .. 127
    /\ \A f \in Frames : /\ f \in Seq(0 .. 255) /\ Len(f) >= 8 /\ f[1] \in {253, 254}
                          /\ Len(f) = FrameLength(f, 0) /\ Len(f) <= AGG_MAX_SIZE
    /\ \A g \in Noise \cup Writes : g \in Seq(0 .. 255)
    /\ \A g \in Noise : \A k \in DOMAIN g : g[k] \notin {253, 254}
    /\ Chunks \subseteq Nat \ {0}
    /\ AGG_MAX_SIZE \in Nat

VARIABLES
    vehicle,   \* the autopilot: armed or disarmed
    switches,  \* how often it changed
    line,      \* bytes on the serial line, not yet read
    fsm,       \* MavlinkSerialProxyProtocol.mavlink_fsm
    agg,       \* ProxyProtocol: the aggregation queue
    arm,       \* MavlinkARMProtocol: [armed, locked, fsm]
    running,   \* the commands that were started and have not ended
    emitted,   \* history: frames of the autopilot that were not delivered yet
    intact,    \* history: was every frame delivered as it was emitted, in order?
    queued,    \* history: the frames in the aggregation queue
    last       \* history: the state whose command was started last

vars == <<vehicle, switches, line, fsm, agg, arm, running, emitted, intact, queued, last>>

-----------------------------------------------------------------------------
(* MavlinkARMProtocol *)

NewArm == [armed |-> "unknown", locked |-> FALSE, fsm |-> NewParser, started |-> << >>]

(* Mutant: the lock is released when the command was started. *)
arm_messageReceived_unlocked(a, frame) ==
    LET l2 == L2(frame)
        armed == IF l2.payload[7] >= 128 THEN "armed" ELSE "disarmed"
    IN  IF l2.source # <<1, 1, 0>> \/ a.locked \/ armed = a.armed THEN a
        ELSE [a EXCEPT !.armed = armed,
                       !.started = IF armed \in Commands THEN Append(@, armed) ELSE @]

(* messageReceived and change_state: with no command the Deferred has      *)
(* fired when maybeDeferred returns, and the lock is open again.           *)
arm_messageReceived(a, frame) ==
    LET l2 == L2(frame)
        armed == IF l2.payload[7] >= 128 THEN "armed" ELSE "disarmed"
    IN  IF l2.source # <<1, 1, 0>> \/ a.locked \/ armed = a.armed THEN a
        ELSE [a EXCEPT !.armed = armed, !.locked = armed \in Commands,
                       !.started = IF armed \in Commands THEN Append(@, armed) ELSE @]

(* message[6] of a heartbeat with a shorter payload is an IndexError, and   *)
(* it is raised before the lock is taken.                                  *)
Raises(frame) == LET l2 == L2(frame) IN l2.source = <<1, 1, 0>> /\ Len(l2.payload) < 7

(* One turn of the loop of dataReceived, which an exception ends: the       *)
(* parser has gone through all the data, the frames that follow are not    *)
(* looked at.                                                              *)
arm_turn(a, frames, n) ==
    IF \E k \in 1 .. n : Raises(frames[k]) THEN a ELSE arm_messageReceived(a, frames[n])

arm_dataReceived(a, data) ==
    LET r == Feed(a.fsm, data)
        after[n \in 0 .. Len(r.frames)] ==
            IF n = 0 THEN [a EXCEPT !.fsm = r.parser]
            ELSE LET before == after[n - 1] IN arm_turn(before, r.frames, n)
    IN  after[Len(r.frames)]

(* The rx hook is called for every frame; the autopilot's own heartbeats    *)
(* are complete (MavlinkAssumption), so nothing is raised here.            *)
arm_hook(a, frames) ==
    LET after[n \in 0 .. Len(frames)] ==
            IF n = 0 THEN a ELSE LET before == after[n - 1] IN arm_dataReceived(before, frames[n])
    IN  after[Len(frames)]

(* The commands that the hooks started in this step begin to run. *)
Watch(a) ==
    /\ arm' = [a EXCEPT !.started = << >>]
    /\ running' = running \o a.started
    /\ last' = IF a.started = << >> THEN last ELSE a.started[Len(a.started)]

-----------------------------------------------------------------------------
Init ==
    /\ vehicle \in States
    /\ switches = 0
    /\ line = << >>
    /\ fsm = NewParser
    /\ agg = EmptyQueue
    /\ arm = NewArm
    /\ running = << >>
    /\ emitted = << >>
    /\ intact = TRUE
    /\ queued = << >>
    /\ last = "none"

(* The autopilot; other traffic and noise leave room for a heartbeat. *)
Emit(frame) ==
    /\ line' = line \o frame
    /\ emitted' = Append(emitted, frame)
    /\ UNCHANGED <<vehicle, switches, fsm, agg, arm, running, intact, queued, last>>

Room(n) == Len(line) + n <= LINE_MAX
Reserve == Len(Heartbeat(vehicle))

Beat == Room(Reserve) /\ Emit(Heartbeat(vehicle))

EmitOther == \E frame \in Others : Room(Len(frame) + Reserve) /\ Emit(frame)

EmitNoise ==
    /\ \E g \in Noise : Room(Len(g) + Reserve) /\ line' = line \o g
    /\ UNCHANGED <<vehicle, switches, fsm, agg, arm, running, emitted, intact, queued, last>>

Switch ==
    /\ switches < MaxSwitches
    /\ switches' = switches + 1
    /\ vehicle' \in States \ {vehicle}
    /\ UNCHANGED <<line, fsm, agg, arm, running, emitted, intact, queued, last>>

(* The serial port hands over the next bytes of the line. *)
Taken(c) == IF c < Len(line) THEN c ELSE Len(line)
Drain(c) == line # << >> /\ line' = SubSeq(line, Taken(c) + 1, Len(line))

(* dataReceived: every frame is shown to the hooks and aggregated. *)
ReadChunk ==
    /\ \E c \in Chunks :
          LET r == Feed(fsm, SubSeq(line, 1, Taken(c)))
              out[k \in 0 .. Len(r.frames)] ==
                  IF k = 0 THEN [queue |-> agg, queued |-> queued]
                  ELSE LET before == out[k - 1]
                           m == messageReceived(before.queue, r.frames[k], AGG_MAX_SIZE)
                       IN  [queue |-> m.queue,
                            queued |-> IF m.sent = << >> THEN Append(before.queued, r.frames[k])
                                       ELSE <<r.frames[k]>>]
          IN  /\ Drain(c)
              /\ fsm' = r.parser
              /\ agg' = out[Len(r.frames)].queue
              /\ queued' = out[Len(r.frames)].queued
              /\ emitted' = SubSeq(emitted, Len(r.frames) + 1, Len(emitted))
              /\ intact' = (intact /\ \E n \in 0 .. Len(emitted) : r.frames = SubSeq(emitted, 1, n))
              /\ \E a \in {arm_hook(arm, r.frames)} : Watch(a)
    /\ UNCHANGED <<vehicle, switches>>

(* The aggregation timer fires: the batch goes to the radio. *)
Flush ==
    /\ agg.timer = "pending"
    /\ agg' = flush_queue(agg).queue
    /\ queued' = << >>
    /\ UNCHANGED <<vehicle, switches, line, fsm, arm, running, emitted, intact, last>>

(* MavlinkSerialProxyProtocol.write: called with a datagram of the radio,  *)
(* a RADIO_STATUS message (send_rssi) or a frame of the TCP client.  When  *)
(* the tx hook raises, the caller logs it and the data is not written.     *)
Write ==
    /\ \E data \in Writes : \E a \in {arm_dataReceived(arm, data)} : Watch(a)
    /\ UNCHANGED <<vehicle, switches, line, fsm, agg, emitted, intact, queued>>

(* Mutant: a command that failed leaves the lock closed. *)
CommandEndsLocked ==
    /\ running # << >>
    /\ running' = Tail(running)
    /\ \E failed \in BOOLEAN : arm' = [arm EXCEPT !.locked = failed]
    /\ UNCHANGED <<vehicle, switches, line, fsm, agg, emitted, intact, queued, last>>

(* The command ends, well or not: addBoth opens the lock.  A command that  *)
(* failed is logged and not tried again.                                   *)
CommandEnds ==
    /\ running # << >>
    /\ running' = Tail(running)
    /\ arm' = [arm EXCEPT !.locked = FALSE]
    /\ UNCHANGED <<vehicle, switches, line, fsm, agg, emitted, intact, queued, last>>

Next == Beat \/ EmitOther \/ EmitNoise \/ Switch \/ ReadChunk \/ Flush \/ Write \/ CommandEnds

(* The autopilot keeps sending heartbeats, the reactor reads the serial    *)
(* line (only ReadChunk drains it), and the commands terminate.            *)
Spec ==
    /\ Init
    /\ [][Next]_vars
    /\ SF_vars(Beat)
    /\ WF_line(\E c \in Chunks : Drain(c))
    /\ WF_vars(CommandEnds)

-----------------------------------------------------------------------------
(* The serial line is a queue of frames: whatever the chunks, the noise    *)
(* between frames and the garbage collection of the parser, every frame of *)
(* the autopilot is delivered once, unchanged and in order, as soon as its *)
(* last byte was read (mavlink_parser_gen).                                *)
FramesInOrder == intact /\ (line = << >> => emitted = << >>)

(* The far station splits a batch with a parser of its own                 *)
(* (MavlinkUDPProxyProtocol.write): it gets back exactly the frames that   *)
(* messageReceived joined.                                                 *)
SplitUndoesJoin == Feed(NewParser, agg.bytes).frames = queued

(* At most one command runs, and it is the one of the state that the       *)
(* watcher has recorded, whichever heartbeats arrive meanwhile             *)
(* (MavlinkARMProtocol.locked).                                            *)
OneCommandAtATime ==
    Len(running) <= 1 /\ (running # << >> => running[1] = arm.armed /\ arm.locked)

(* When the vehicle stops changing its state, the watcher gets to know it  *)
(* and the last command it started is the one of that state, although      *)
(* heartbeats that arrive during a command are ignored                     *)
(* (MavlinkARMProtocol.messageReceived).                                   *)
ArmFollowed ==
    \A s \in States :
        <>[](vehicle = s) => <>[](arm.armed = s /\ (s \in Commands => last = s))

=============================================================================
