---------------------------- MODULE AqSqManager ----------------------------
(***************************************************************************)
(* The queue manager of the server's scheduler: nodes that have traffic    *)
(* wait in the active queue, the others in the sleep queue, and            *)
(* get_next_node() serves the active queue in rotation with one probe of   *)
(* the sleep queue after every interleave_ratio services.  Every public    *)
(* method holds the mutex throughout, so each is one action.               *)
(*                                                                         *)
(* aq_served is only ever compared with interleave_ratio, so it is counted *)
(* up to that value.                                                       *)
(***************************************************************************)
EXTENDS Integers, Sequences

CONSTANTS
    Nodes,              \* node identifiers
    INVALID_NODE,       \* returned when both queues are empty
    interleave_ratio    \* INTERLEAVE_RATIO

VARIABLES
    aq, sq,                 \* the queues
    in_aq_set, in_sq_set,   \* their members, for quick lookup
    aq_served,              \* services of the active queue since the last interleaved probe
    next_node,              \* [node_id, is_from_sq] returned by the last get_next_node()
    unprobed                \* services of the active queue since the sleep queue was last
                            \* served or empty, counted to one beyond the ratio

queues == <<aq, sq, in_aq_set, in_sq_set>>
vars == <<queues, aq_served, next_node, unprobed>>

(* queue.erase(std::remove(...)): the elements other than node_id, in order *)
Without(queue, node_id) ==
    LET kept[i \in 0 .. Len(queue)] ==
            IF i = 0 THEN << >>
            ELSE IF queue[i] = node_id THEN kept[i - 1]
            ELSE Append(kept[i - 1], queue[i])
    IN  kept[Len(queue)]

Rotated(queue) == Append(Tail(queue), Head(queue))

init_node(node_id) ==
    /\ IF node_id \in in_aq_set \cup in_sq_set
       THEN UNCHANGED <<sq, in_sq_set>>
       ELSE /\ sq' = Append(sq, node_id)
            /\ in_sq_set' = in_sq_set \cup {node_id}
    /\ UNCHANGED <<aq, in_aq_set, aq_served, next_node, unprobed>>

migrate_to_aq(node_id) ==
    /\ IF node_id \in in_aq_set
       THEN UNCHANGED queues
       ELSE /\ sq' = IF node_id \in in_sq_set THEN Without(sq, node_id) ELSE sq
            /\ in_sq_set' = in_sq_set \ {node_id}
            /\ aq' = Append(aq, node_id)
            /\ in_aq_set' = in_aq_set \cup {node_id}
    /\ UNCHANGED <<aq_served, next_node, unprobed>>

migrate_to_sq(node_id) ==
    /\ IF node_id \in in_sq_set
       THEN UNCHANGED queues
       ELSE /\ aq' = IF node_id \in in_aq_set THEN Without(aq, node_id) ELSE aq
            /\ in_aq_set' = in_aq_set \ {node_id}
            /\ sq' = Append(sq, node_id)
            /\ in_sq_set' = in_sq_set \cup {node_id}
    /\ UNCHANGED <<aq_served, next_node, unprobed>>

-----------------------------------------------------------------------------
NoNode ==
    /\ aq = << >> /\ sq = << >>
    /\ next_node' = [node_id |-> INVALID_NODE, is_from_sq |-> FALSE]
    /\ UNCHANGED <<queues, aq_served, unprobed>>

ServeSq ==
    /\ sq' = Rotated(sq)
    /\ next_node' = [node_id |-> Head(sq), is_from_sq |-> TRUE]
    /\ unprobed' = 0
    /\ UNCHANGED <<aq, in_aq_set, in_sq_set>>

(* The idle patrol: all nodes sleep *)
IdlePatrol ==
    /\ aq = << >> /\ sq # << >>
    /\ ServeSq
    /\ UNCHANGED aq_served

(* Mutant: `<=' in place of `<' *)
AqTurnOneMore == aq # << >> /\ (sq = << >> \/ aq_served <= interleave_ratio)

AqTurn == aq # << >> /\ (sq = << >> \/ aq_served < interleave_ratio)

ServeAq ==
    /\ AqTurn
    /\ aq' = Rotated(aq)
    /\ next_node' = [node_id |-> Head(aq), is_from_sq |-> FALSE]
    /\ aq_served' = IF aq_served < interleave_ratio THEN aq_served + 1 ELSE aq_served
    /\ unprobed' = IF sq = << >> THEN 0 ELSE IF unprobed <= interleave_ratio THEN unprobed + 1 ELSE unprobed
    /\ UNCHANGED <<sq, in_aq_set, in_sq_set>>

InterleavedProbe ==
    /\ aq # << >> /\ ~AqTurn
    /\ ServeSq
    /\ aq_served' = 0

get_next_node == NoNode \/ IdlePatrol \/ ServeAq \/ InterleavedProbe

-----------------------------------------------------------------------------
=============================================================================
