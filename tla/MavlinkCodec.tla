------------------------------ MODULE MavlinkCodec ------------------------------
(***************************************************************************)
(* One MAVLink message from the call of x_send to the two places where     *)
(* wfb-ng and its library take it apart again: MAVLink.decode of           *)
(* wfb_ng/mavlink.py, and parse_mavlink_l2_v1/v2 with unpack_mavlink of    *)
(* wfb_ng/mavlink_protocol.py (the ARM watcher, the logger and the log     *)
(* parser).  The frame is a sequence of bytes; on the way one byte of it   *)
(* may be damaged.                                                         *)
(*                                                                         *)
(* A field value is the sequence of its elements: <<n>> for a number, the  *)
(* numbers of an array, the bytes of a char array.  A message object keeps *)
(* the bytes of a char array and the text made of them.  Numbers are       *)
(* unsigned and below 2^24, so that TLC's integers hold them; struct's     *)
(* float and signed codes move the same bytes.  The library is never given *)
(* a signing key by wfb-ng: outgoing frames are unsigned, and a frame that *)
(* carries a signature is accepted without looking at it.  The environment *)
(* variable MAV_IGNORE_CRC, with which decode() accepts any checksum, is   *)
(* not set.                                                                *)
(***************************************************************************)
EXTENDS MavlinkSenders, SequencesExt, Bitwise

CONSTANTS
    Calls,      \* the calls x_send(args, force_mavlink1) to look at
    Damage(_)   \* the ways <<position, byte>> to damage the frame of a call

VARIABLES
    call,      \* the call of x_send
    mav,       \* the MAVLink object: its sequence number
    frame,     \* the bytes on the wire; << >> before the call
    damaged,   \* the damaged position, 0 if there is none
    received,  \* what MAVLink.decode returned
    logged     \* what parse_mavlink_l2 and unpack_mavlink returned

vars == <<call, mav, frame, damaged, received, logged>>

SRC_SYSTEM == 3
SRC_COMPONENT == 68
PROTOCOL_MARKER_V1 == 254
PROTOCOL_MARKER_V2 == 253

Byte == 0 .. 255
Nothing == [type |-> "nothing"]

-----------------------------------------------------------------------------
(* struct.pack and struct.unpack *)

(* The little-endian bytes of a number below 2^24, and back. *)
IntBytes(n, size) == [k \in 1 .. size |-> IF k <= 3 THEN (n \div 256^(k - 1)) % 256 ELSE 0]
BytesInt(bytes) == LET at(k) == IF k <= Len(bytes) THEN bytes[k] ELSE 0
                   IN  at(1) + 256 * at(2) + 65536 * at(3)

FieldSize(f) == f.size * f.count

(* A char array is cut or padded with zero bytes to its length. *)
PackField(f, value) ==
    IF f.text THEN [k \in 1 .. f.size |-> IF k <= Len(value) THEN value[k] ELSE 0]
              ELSE [p \in 1 .. FieldSize(f) |->
                       IntBytes(value[((p - 1) \div f.size) + 1], f.size)[((p - 1) % f.size) + 1]]

Offset(format, k) ==
    LET sum[j \in 0 .. k] == IF j = 0 THEN 0 ELSE sum[j - 1] + FieldSize(format[j])
    IN  sum[k]
StructSize(c) == Offset(c.format, Len(c.format))

(* unpacker.unpack: the elements of all fields in wire order, each a       *)
(* sequence: <<n>> for a number, all bytes for a char array.               *)
UnpackField(f, bytes) ==
    IF f.text THEN <<bytes>>
              ELSE [k \in 1 .. f.count |->
                       <<BytesInt(SubSeq(bytes, (k - 1) * f.size + 1, k * f.size))>>]
Unpack(c, bytes) ==
    FlattenSeq([k \in DOMAIN c.format |->
                   UnpackField(c.format[k], SubSeq(bytes, Offset(c.format, k - 1) + 1,
                                                          Offset(c.format, k)))])

RStrip(bytes) == LET full == {k \in DOMAIN bytes : bytes[k] # 0}
                 IN  SubSeq(bytes, 1, IF full = {} THEN 0 ELSE Max(full))
PadTo(bytes, n) == [k \in 1 .. (IF Len(bytes) < n THEN n ELSE Len(bytes)) |->
                       IF k <= Len(bytes) THEN bytes[k] ELSE 0]

-----------------------------------------------------------------------------
(* The constructors of the message classes *)

(* The struct field of a constructor's i-th argument. *)
FieldOf(c, i) == c.format[CHOOSE k \in DOMAIN c.pack : c.pack[k] = i - 1]

(* split(b"\x00", 1)[0].decode("ascii", errors="replace"): the characters  *)
(* before the first zero byte, U+FFFD for a byte that is not ASCII.        *)
Text(bytes) ==
    LET zeros == {k \in DOMAIN bytes : bytes[k] = 0}
        end == IF zeros = {} THEN Len(bytes) ELSE Min(zeros) - 1
    IN  [k \in 1 .. end |-> IF bytes[k] < 128 THEN bytes[k] ELSE 65533]

(* The attributes of the object made from the arguments. *)
Instance(c, arguments) ==
    [i \in DOMAIN arguments |->
        IF FieldOf(c, i).text THEN [raw |-> arguments[i], text |-> Text(arguments[i])]
        ELSE arguments[i]]

-----------------------------------------------------------------------------
(* The checksum *)

NibbleXor == [a \in 0 .. 15 |-> [b \in 0 .. 15 |-> a ^^ b]]
ByteXor(a, b) == 16 * NibbleXor[a \div 16][b \div 16] + NibbleXor[a % 16][b % 16]

(* (tmp << 8) ^ (tmp << 3) ^ (tmp >> 4) for every byte tmp. *)
Spread == [tmp \in Byte |-> ((tmp * 256) ^^ (tmp * 8)) ^^ (tmp \div 16)]

Accumulate(accum, b) ==
    LET t0 == ByteXor(b, accum % 256)
        tmp == ByteXor(t0, (t0 * 16) % 256)
    IN  256 * (Spread[tmp] \div 256) + ByteXor(accum \div 256, Spread[tmp] % 256)

(* The loop over the bytes, as the loop over the first half followed by    *)
(* the loop over the second half (mid is a value, not an expression, when  *)
(* the second half starts: TLC's stack stays flat).                        *)
RECURSIVE AccumulateAll(_, _)
AccumulateAll(accum, buf) ==
    LET half == Len(buf) \div 2
    IN  IF half = 0 THEN IF buf = << >> THEN accum ELSE Accumulate(accum, buf[1])
        ELSE CHOOSE end \in {AccumulateAll(mid, SubSeq(buf, half + 1, Len(buf))) :
                                 mid \in {AccumulateAll(accum, SubSeq(buf, 1, half))}} : TRUE

x25crc(buf) == AccumulateAll(65535, buf)

-----------------------------------------------------------------------------
(* Sending *)

Header(id, mlen, seq, force_mavlink1) ==
    IF force_mavlink1
    THEN <<PROTOCOL_MARKER_V1, mlen, seq, SRC_SYSTEM, SRC_COMPONENT, id>>
    ELSE <<PROTOCOL_MARKER_V2, mlen, 0, 0, seq, SRC_SYSTEM, SRC_COMPONENT>> \o IntBytes(id, 3)

(* Mutant: the trailing zeros are stripped one byte too far. *)
PayloadLengthShort(payload, force_mavlink1) ==
    LET full == {k \in DOMAIN payload : payload[k] # 0}
    IN  IF force_mavlink1 THEN Len(payload) ELSE Max({1} \cup {k - 1 : k \in full})

(* MAVLink 2 strips trailing zero bytes, but keeps the first byte. *)
PayloadLength(payload, force_mavlink1) ==
    LET full == {k \in DOMAIN payload : payload[k] # 0}
    IN  IF force_mavlink1 THEN Len(payload) ELSE Max({1} \cup full)

Pack(c, attributes, seq, force_mavlink1) ==
    LET value(k) == LET a == attributes[c.pack[k] + 1] IN IF c.format[k].text THEN a.raw ELSE a
        all == FlattenSeq([k \in DOMAIN c.format |-> PackField(c.format[k], value(k))])
        payload == SubSeq(all, 1, PayloadLength(all, force_mavlink1))
        msgbuf == Header(c.id, Len(payload), seq, force_mavlink1) \o payload
    IN  msgbuf \o IntBytes(x25crc(Append(Tail(msgbuf), c.crc_extra)), 2)

-----------------------------------------------------------------------------
(* Receiving: MAVLink.decode *)

MavError == [type |-> "error"]
Unknown == [type |-> "unknown"]

(* Mutant: the checksum is computed and not compared. *)
ChecksumIgnored(c, msgbuf, sig) == TRUE

ChecksumMatches(c, msgbuf, sig) ==
    LET end == Len(msgbuf) - 2 - sig
    IN  BytesInt(SubSeq(msgbuf, end + 1, end + 2))
            = x25crc(Append(SubSeq(msgbuf, 2, end), c.crc_extra))

(* tlist: its i-th entry is the struct field orders[i], which is its first *)
(* element, or all its elements if it is an array.                         *)
Elements(c, mbuf) ==
    LET t == Unpack(c, SubSeq(PadTo(mbuf, StructSize(c)), 1, StructSize(c)))
        tip(order) == LET sum[j \in 0 .. order] ==
                              IF j = 0 THEN 0 ELSE sum[j - 1] + c.lengths[j]
                      IN  sum[order]
        field(order) ==
            IF c.format[order + 1].text THEN RStrip(t[tip(order) + 1])
            ELSE [k \in 1 .. c.lengths[order + 1] |-> t[tip(order) + k][1]]
    IN  [i \in DOMAIN c.orders |-> field(c.orders[i])]

Decode(msgbuf) ==
    LET v1 == msgbuf[1] = PROTOCOL_MARKER_V1
        headerlen == IF v1 THEN 6 ELSE 10
        id == IF v1 THEN msgbuf[6] ELSE BytesInt(SubSeq(msgbuf, 8, 10))
        sig == IF ~v1 /\ msgbuf[3] % 2 = 1 THEN 13 ELSE 0
    IN  IF \/ Len(msgbuf) < headerlen
           \/ msgbuf[1] \notin {PROTOCOL_MARKER_V1, PROTOCOL_MARKER_V2}
           \/ msgbuf[2] # Len(msgbuf) - (headerlen + 2 + sig)
        THEN MavError
        ELSE IF id \notin DOMAIN mavlink_map THEN Unknown
        ELSE IF ~ChecksumMatches(mavlink_map[id], msgbuf, sig) THEN MavError
        ELSE [type |-> "message", id |-> id, seq |-> msgbuf[IF v1 THEN 3 ELSE 5],
              fields |-> Instance(mavlink_map[id],
                                  Elements(mavlink_map[id],
                                           SubSeq(msgbuf, headerlen + 1, Len(msgbuf) - 2 - sig)))]

-----------------------------------------------------------------------------
(* Receiving: mavlink_protocol.py *)

parse_mavlink_l2_v1(msg) ==
    [seq |-> msg[3], sys |-> msg[4], comp |-> msg[5], id |-> msg[6],
     payload |-> SubSeq(msg, 7, 6 + msg[2])]

parse_mavlink_l2_v2(msg) ==
    [seq |-> msg[5], sys |-> msg[6], comp |-> msg[7], id |-> BytesInt(SubSeq(msg, 8, 10)),
     payload |-> SubSeq(msg, 11, 10 + msg[2])]

parse_mavlink_l2(msg) ==
    IF msg[1] = PROTOCOL_MARKER_V1 THEN parse_mavlink_l2_v1(msg) ELSE parse_mavlink_l2_v2(msg)

(* Mutant: the fields are handed out in wire order. *)
unpack_mavlink_wire_order(c, payload) ==
    LET fields == Unpack(c, PadTo(payload, StructSize(c)))
    IN  IF Len(payload) > StructSize(c) THEN MavError
        ELSE [type |-> "message",
              fields |-> [i \in DOMAIN c.orders |->
                             IF c.format[i].text THEN RStrip(fields[i]) ELSE fields[i]]]

(* The elements are first grouped field by field (flist) and then handed   *)
(* out in the order of fieldnames.  A payload longer than the struct makes *)
(* unpacker.unpack raise struct.error.                                     *)
unpack_mavlink(c, payload) ==
    LET fields == Unpack(c, PadTo(payload, StructSize(c)))
        offset[j \in 0 .. Len(c.lengths)] ==
            IF j = 0 THEN 0 ELSE offset[j - 1] + c.lengths[j]
        flist == [j \in DOMAIN c.lengths |->
                     IF c.format[j].text THEN RStrip(fields[offset[j - 1] + 1])
                     ELSE [k \in 1 .. c.lengths[j] |-> fields[offset[j - 1] + k][1]]]
    IN  IF Len(payload) > StructSize(c) THEN MavError
        ELSE [type |-> "message",
              fields |-> [i \in DOMAIN c.orders |-> flist[c.orders[i] + 1]]]

-----------------------------------------------------------------------------
Init ==
    /\ call \in Calls
    /\ mav = [seq |-> 255]  \* the last before it wraps around
    /\ frame = << >>
    /\ damaged = 0
    /\ received = Nothing
    /\ logged = Nothing

(* x_send, x_encode, the constructor, pack and MAVLink.send *)
Send ==
    /\ frame = << >>
    /\ LET arguments == [i \in DOMAIN call.sender.arguments |->
                            call.args[call.sender.arguments[i] + 1]]
           buf == Pack(call.sender.class, Instance(call.sender.class, arguments),
                       mav.seq, call.force_mavlink1)
       IN  /\ frame' = buf
           /\ mav' = [seq |-> (mav.seq + 1) % 256]
    /\ UNCHANGED <<call, damaged, received, logged>>

(* The transport changes one byte. *)
DamageByte ==
    /\ frame # << >>
    /\ received = Nothing
    /\ damaged = 0
    /\ \E d \in Damage(call) : /\ d[1] \in DOMAIN frame
                               /\ d[2] # frame[d[1]]
                               /\ frame' = [frame EXCEPT ![d[1]] = d[2]]
                               /\ damaged' = d[1]
    /\ UNCHANGED <<call, mav, received, logged>>

(* The library's decoder and wfb-ng's own one look at the same frame; the  *)
(* latter checks no checksum, and knows the length only from the parser    *)
(* that cut the frame out of the stream.                                   *)
Receive ==
    /\ frame # << >>
    /\ received = Nothing
    /\ received' = Decode(frame)
    /\ logged' = IF damaged = 0
                 THEN LET l2 == parse_mavlink_l2(frame)
                      IN  [l2 |-> l2, msg |-> unpack_mavlink(mavlink_map[l2.id], l2.payload)]
                 ELSE Nothing
    /\ UNCHANGED <<call, mav, frame, damaged>>

Next == Send \/ DamageByte \/ Receive

Spec == Init /\ [][Next]_vars

-----------------------------------------------------------------------------
(* A message that arrives undamaged is decoded to an object with the       *)
(* attributes of the one that x_send made, in both protocol versions:      *)
(* stripping trailing zeros and padding them again, the wire order of      *)
(* pack() and the orders and lengths tables of decode() cancel out for     *)
(* every class, also for a text with zero bytes inside, whose object packs *)
(* its bytes and shows only the part before them (MAVLink_message._pack,   *)
(* MAVLink.decode).                                                        *)
RoundTrip ==
    received # Nothing /\ damaged = 0 =>
        /\ received.type = "message"
        /\ received.id = call.sender.class.id
        /\ received.fields = Instance(call.sender.class, call.args)

(* unpack_mavlink, which groups the elements before it orders them and     *)
(* does not cut the payload, returns the values from which the library's   *)
(* decoder makes its object: the same numbers, and for a char array the    *)
(* bytes whose text the object shows.  The two differ by that conversion   *)
(* and in nothing else (unpack_mavlink, MAVLink.decode).                   *)
DecodersAgree ==
    received # Nothing /\ damaged = 0 =>
        /\ logged.msg.type = received.type
        /\ logged.l2.id = received.id
        /\ logged.l2.seq = received.seq
        /\ received.fields = Instance(mavlink_map[received.id], logged.msg.fields)

(* A frame with one damaged byte is never taken for another message: it is *)
(* refused, or reported as unknown, by the length, id and checksum tests   *)
(* of MAVLink.decode (with MAV_IGNORE_CRC unset).                          *)
DamageDetected ==
    received # Nothing /\ damaged # 0 => received.type \in {"error", "unknown"}

(* MavlinkARMProtocol reads message[6] of every heartbeat: that byte is    *)
(* there after the zeros are stripped, and it is base_mode, in both        *)
(* protocol versions (the autopilot's mavlink_version is not 0).           *)
ArmFlagReadable ==
    logged # Nothing /\ call.sender = heartbeat_send /\ call.args[6] # <<0>> =>
        /\ Len(logged.l2.payload) >= 7
        /\ <<logged.l2.payload[7]>> = call.args[3]

=============================================================================
