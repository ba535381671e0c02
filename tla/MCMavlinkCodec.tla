------------------------------ MODULE MCMavlinkCodec ------------------------------
(***************************************************************************)
(* Every message class, in both protocol versions, with no field, every    *)
(* single field or all fields different from zero; and for two classes     *)
(* every damage of one byte.                                               *)
(***************************************************************************)
EXTENDS MavlinkCodec

CONSTANTS DamagedBytes  \* the values a damaged byte takes

(* A value of field f that tells it from its neighbours: small (the        *)
(* elements of an array counted on), or with zero bytes below its most     *)
(* significant one.  The long text has a byte that is not ASCII, and a     *)
(* zero byte inside.                                                       *)
Probe(f, i, high) ==
    IF f.text
    THEN IF high THEN [k \in 1 .. f.size |-> IF k = 1 THEN 128 + i ELSE IF k = 3 /\ k < f.size THEN 0 ELSE i]
         ELSE <<i>>
    ELSE [k \in 1 .. f.count |->
             IF high THEN i * 256^((IF f.size >= 3 THEN 3 ELSE f.size) - 1) ELSE (i + k - 1) % 256]
Zero(f) == IF f.text THEN << >> ELSE [k \in 1 .. f.count |-> 0]

Arguments(c, set, high) ==
    [i \in DOMAIN c.format |-> IF i \in set THEN Probe(FieldOf(c, i), i, high) ELSE Zero(FieldOf(c, i))]

Patterns(c) == {{}, DOMAIN c.format} \cup {{i} : i \in DOMAIN c.format}

MCCalls == {[sender |-> s, args |-> Arguments(s.class, p, h), force_mavlink1 |-> v] :
               <<s, p, h, v>> \in
                   UNION {{s} \X Patterns(s.class) \X BOOLEAN
                              \X (IF s.class.id > 255 THEN {FALSE} ELSE BOOLEAN) : s \in Senders}}

MCDamage(c) ==
    IF c.sender \in {heartbeat_send, radio_status_send} /\ \A i \in DOMAIN c.args : c.args[i] = <<i>>
    THEN (1 .. 24) \X DamagedBytes ELSE {}

=============================================================================
