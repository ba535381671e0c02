------------------------------ MODULE MavlinkParser ------------------------------
(***************************************************************************)
(* mavlink_parser_gen of wfb_ng/mavlink_protocol.py, the generator that    *)
(* cuts a byte stream into MAVLink frames without checking them.  Its      *)
(* state between two calls of send() is the record [buffer, skip]: the     *)
(* bytes received and how many of them are used up.                        *)
(***************************************************************************)
EXTENDS Naturals, Sequences

CONSTANT GC_LIMIT  \* 4096 in the code: used bytes that are kept at most

ASSUME GCAssumption == GC_LIMIT \in Nat

NewParser == [buffer |-> << >>, skip |-> 0]

(* Mutant: one byte of the next frame is dropped with the used bytes. *)
CollectTooMuch(p) ==
    IF p.skip > GC_LIMIT
    THEN [buffer |-> SubSeq(p.buffer, p.skip + 2, Len(p.buffer)), skip |-> 0]
    ELSE p

(* GC, before the generator waits for more data. *)
Collect(p) ==
    IF p.skip > GC_LIMIT
    THEN [buffer |-> SubSeq(p.buffer, p.skip + 1, Len(p.buffer)), skip |-> 0]
    ELSE p

(* The length of the frame that starts after i bytes: MAVLink 1, MAVLink 2 *)
(* and MAVLink 2 with a signature.                                         *)
FrameLength(buffer, i) ==
    IF buffer[i + 1] = 254 THEN 8 + buffer[i + 2]
    ELSE buffer[i + 2] + (IF buffer[i + 3] % 2 = 1 THEN 25 ELSE 12)

(* The inner loop: skip bytes up to a start byte; stop when fewer than 8   *)
(* bytes are left, or the frame is not complete.                           *)
Scan(buffer, skip) ==
    LET scan[i \in 0 .. Len(buffer)] ==
            IF Len(buffer) - i < 8 THEN [skip |-> i, frames |-> << >>]
            ELSE IF buffer[i + 1] \notin {253, 254} THEN scan[i + 1]
            ELSE IF Len(buffer) - i < FrameLength(buffer, i) THEN [skip |-> i, frames |-> << >>]
            ELSE LET rest == scan[i + FrameLength(buffer, i)]
                 IN  [rest EXCEPT !.frames =
                         <<SubSeq(buffer, i + 1, i + FrameLength(buffer, i))>> \o @]
    IN  scan[skip]

(* One call of send(data): the frames it returns and the parser it leaves. *)
Feed(p, data) ==
    LET buffer == p.buffer \o data
        r == Scan(buffer, p.skip)
    IN  [frames |-> r.frames, parser |-> Collect([buffer |-> buffer, skip |-> r.skip])]

(* parse_mavlink_l2_v1 and parse_mavlink_l2_v2, as the ARM watcher uses    *)
(* them: who sent the frame, which message it is, and its payload.         *)
L2(frame) ==
    IF frame[1] = 254
    THEN [source |-> <<frame[4], frame[5], frame[6]>>, payload |-> SubSeq(frame, 7, 6 + frame[2])]
    ELSE [source |-> <<frame[6], frame[7], frame[8] + 256 * frame[9] + 65536 * frame[10]>>,
          payload |-> SubSeq(frame, 11, 10 + frame[2])]

=============================================================================
