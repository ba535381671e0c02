------------------------------ MODULE AggQueue ------------------------------
(***************************************************************************)
(* The aggregation queue of ProxyProtocol (wfb_ng/proxy.py), which joins   *)
(* small packets of the tunnel and of MAVLink into one radio packet.  It   *)
(* is a record:                                                            *)
(*   bytes  the messages of agg_queue, joined (only b''.join(agg_queue) is *)
(*          ever looked at)                                                *)
(*   size   agg_queue_size                                                 *)
(*   timer  agg_queue_timer: None, pending in the reactor, or called; a    *)
(*          DelayedCall that was called cannot be cancelled any more:      *)
(*          cancel() raises AlreadyCalled                                  *)
(* A method returns the queue it leaves, the datagrams it hands to         *)
(* _send_to_peer, and how it ended.                                        *)
(***************************************************************************)
EXTENDS Naturals, Sequences

EmptyQueue == [bytes |-> << >>, size |-> 0, timer |-> "none"]

Result(queue, sent, outcome) == [queue |-> queue, sent |-> sent, outcome |-> outcome]

(* The reactor marks the timer as called and calls flush_queue. *)
flush_queue(q) ==
    IF q.size > 0 THEN Result(EmptyQueue, <<q.bytes>>, "ok")
                  ELSE Result([q EXCEPT !.timer = "called"], << >>, "ok")

(* Mutant: a message that does not fit is added and flushed with the rest. *)
messageReceived_late(q, data, agg_max_size) ==
    IF Len(data) > agg_max_size THEN Result(q, << >>, "too big")
    ELSE IF q.size + Len(data) > agg_max_size
    THEN Result(EmptyQueue, <<q.bytes \o data>>, "ok")
    ELSE Result([bytes |-> q.bytes \o data, size |-> q.size + Len(data), timer |-> "pending"],
                << >>, "ok")

(* Mutant: the new message starts no timer after an early flush. *)
messageReceived_no_timer(q, data, agg_max_size) ==
    IF Len(data) > agg_max_size THEN Result(q, << >>, "too big")
    ELSE IF q.size + Len(data) > agg_max_size
    THEN Result([bytes |-> data, size |-> Len(data), timer |-> "none"], <<q.bytes>>, "ok")
    ELSE Result([bytes |-> q.bytes \o data, size |-> q.size + Len(data),
                 timer |-> IF q.timer = "none" THEN "pending" ELSE q.timer], << >>, "ok")

(* Mutant: the queue that was flushed early is not emptied. *)
messageReceived_no_reset(q, data, agg_max_size) ==
    IF Len(data) > agg_max_size THEN Result(q, << >>, "too big")
    ELSE IF q.size + Len(data) > agg_max_size
    THEN Result([bytes |-> q.bytes \o data, size |-> Len(data), timer |-> "pending"], <<q.bytes>>, "ok")
    ELSE Result([bytes |-> q.bytes \o data, size |-> q.size + Len(data), timer |-> "pending"],
                << >>, "ok")

(* With agg_max_size and agg_timeout set. *)
messageReceived(q, data, agg_max_size) ==
    IF Len(data) > agg_max_size THEN Result(q, << >>, "too big")
    ELSE IF q.size + Len(data) > agg_max_size
    THEN IF q.timer = "called" THEN Result(q, << >>, "AlreadyCalled")
         ELSE Result([bytes |-> data, size |-> Len(data), timer |-> "pending"], <<q.bytes>>, "ok")
    ELSE Result([bytes |-> q.bytes \o data, size |-> q.size + Len(data),
                 timer |-> IF q.timer = "none" THEN "pending" ELSE q.timer], << >>, "ok")

=============================================================================
