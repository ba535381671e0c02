--------------------------- MODULE ServerScheduler ---------------------------
(***************************************************************************)
(* The three-state scheduler of the server: after each window granted to a *)
(* node, calculate_next_window() moves the node between sleep (STATE_I),   *)
(* demand fitting (STATE_II) and additive increase (STATE_III), sizes its  *)
(* next window and moves it between the queues of AqSqManager.             *)
(*                                                                         *)
(* The caller, as the tests have it, attaches a manager and registers the  *)
(* nodes with both objects.  It serves a node and reports what the node    *)
(* used of the window it was allotted before it serves the next; any usage *)
(* and any allotment may be reported.                                      *)
(***************************************************************************)
EXTENDS Integers, Sequences, FiniteSets, Functions

CONSTANTS
    Nodes,              \* nodes registered with the scheduler and the manager
    INVALID_NODE,       \* 0xFF
    INTERLEAVE_RATIO,
    MIN_WINDOW, STEP_UP, ELASTIC_MARGIN, MICRO_PROBE_DURATION_MS,
    num_nodes,          \* set_num_nodes(), 10 by default
    SilenceWrap,        \* silence_count counts modulo this, 256 for a uint8_t
    Windows             \* usages and allotments reported to the scheduler, in ms

ASSUME SchedulerConstants ==
    /\ {MIN_WINDOW, STEP_UP, ELASTIC_MARGIN, MICRO_PROBE_DURATION_MS, num_nodes} \subseteq Nat
    /\ SilenceWrap \in Nat /\ SilenceWrap > 3
    /\ Windows \subseteq Nat
    /\ INVALID_NODE \notin Nodes /\ INTERLEAVE_RATIO \in Nat \ {0}

VARIABLES
    aq, sq, in_aq_set, in_sq_set, aq_served, next_node, unprobed,   \* AqSqManager
    nodes,      \* [Nodes -> NodeState]
    serving,    \* [node_id, duration_ms] returned by get_next_node_to_serve(), until reported
    silent      \* [Nodes -> reported windows in a row with less than 5 ms used]

Manager == INSTANCE AqSqManager WITH interleave_ratio <- INTERLEAVE_RATIO

manager == <<aq, sq, in_aq_set, in_sq_set, aq_served, next_node, unprobed>>
vars == <<manager, nodes, serving, silent>>

NodeState == [silence_count |-> 0, current_state |-> "STATE_I",
              current_window |-> MIN_WINDOW, in_aq |-> FALSE]
NoService == [node_id |-> INVALID_NODE, duration_ms |-> 0]

(* As constructed, but with the nodes of queue registered: they sleep *)
Constructed(queue) ==
    /\ aq = << >> /\ in_aq_set = {}
    /\ sq = queue /\ in_sq_set = Range(queue)
    /\ aq_served = 0 /\ next_node = [node_id |-> INVALID_NODE, is_from_sq |-> FALSE]
    /\ unprobed = 0
    /\ nodes = [n \in Nodes |-> NodeState]
    /\ serving = NoService
    /\ silent = [n \in Nodes |-> 0]

Init == Constructed(<< >>)

(* Every node is registered, in some order, before the first service *)
Registered ==
    \E queue \in [1 .. Cardinality(Nodes) -> Nodes] : Range(queue) = Nodes /\ Constructed(queue)

get_max_window == IF num_nodes <= 5 THEN 600 ELSE IF num_nodes <= 10 THEN 300 ELSE 150

-----------------------------------------------------------------------------
(* Mutant: a node declared asleep and left in the active queue *)
SilentNoMigration(node_id) ==
    LET count == (nodes[node_id].silence_count + 1) % SilenceWrap
    IN  /\ nodes' = IF count >= 3
                    THEN [nodes EXCEPT ![node_id] = [silence_count |-> count, current_state |-> "STATE_I",
                                                     current_window |-> MIN_WINDOW, in_aq |-> FALSE]]
                    ELSE [nodes EXCEPT ![node_id].silence_count = count]
        /\ UNCHANGED manager

(* calculate_next_window(): less than 5 ms used *)
Silent(node_id) ==
    LET count == (nodes[node_id].silence_count + 1) % SilenceWrap
    IN  IF count >= 3
        THEN /\ nodes' = [nodes EXCEPT ![node_id] = [silence_count |-> count, current_state |-> "STATE_I",
                                                     current_window |-> MIN_WINDOW, in_aq |-> FALSE]]
             /\ Manager!migrate_to_sq(node_id)
        ELSE /\ nodes' = [nodes EXCEPT ![node_id].silence_count = count]
             /\ UNCHANGED manager

(* Mutant: activity that leaves the watchdog's count as it was *)
ActiveKeepsCount(node_id, state, window) ==
    /\ nodes' = [nodes EXCEPT ![node_id] = [silence_count |-> @.silence_count, current_state |-> state,
                                            current_window |-> window, in_aq |-> TRUE]]
    /\ Manager!migrate_to_aq(node_id)

(* calculate_next_window(): the node used its window, in part or in full *)
Active(node_id, state, window) ==
    /\ nodes' = [nodes EXCEPT ![node_id] = [silence_count |-> 0, current_state |-> state,
                                            current_window |-> window, in_aq |-> TRUE]]
    /\ Manager!migrate_to_aq(node_id)

(* std::min, std::max *)
min(a, b) == IF a <= b THEN a ELSE b
max(a, b) == IF a >= b THEN a ELSE b

calculate_next_window(node_id, actual_used, allocated) ==
    \/ /\ actual_used < 5
       /\ Silent(node_id)
    \/ /\ actual_used >= 5 /\ actual_used >= allocated
       /\ Active(node_id, "STATE_III", min(allocated + STEP_UP, get_max_window))
    \/ /\ actual_used >= 5 /\ actual_used < allocated
       /\ Active(node_id, "STATE_II", max(actual_used + ELASTIC_MARGIN, MIN_WINDOW))

(* A node is registered, once, with the scheduler and the manager *)
init_node(node_id) ==
    /\ node_id \notin in_aq_set \cup in_sq_set
    /\ nodes' = [nodes EXCEPT ![node_id] = NodeState]
    /\ Manager!init_node(node_id)
    /\ UNCHANGED <<serving, silent>>

(* get_next_node_to_serve() with a manager attached *)
get_next_node_to_serve ==
    /\ serving = NoService
    /\ Manager!get_next_node
    /\ serving' = IF next_node'.node_id = INVALID_NODE THEN NoService
                  ELSE [node_id |-> next_node'.node_id,
                        duration_ms |-> IF next_node'.is_from_sq THEN MICRO_PROBE_DURATION_MS
                                        ELSE nodes[next_node'.node_id].current_window]
    /\ UNCHANGED <<nodes, silent>>

update_node_state(actual_used, allocated) ==
    /\ serving # NoService
    /\ calculate_next_window(serving.node_id, actual_used, allocated)
    /\ serving' = NoService
    /\ silent' = [silent EXCEPT ![serving.node_id] = IF actual_used < 5 THEN min(@ + 1, 3) ELSE 0]

Next ==
    \/ \E n \in Nodes : init_node(n)
    \/ get_next_node_to_serve
    \/ \E actual_used, allocated \in Windows : update_node_state(actual_used, allocated)

Spec == Init /\ [][Next]_vars

-----------------------------------------------------------------------------
(* The scheduler and the manager agree on who is awake: the flag in_aq of a node's *)
(* state, its state, and the queue it waits in, once, change together, so that a   *)
(* sleeping node always waits in the sleep queue with the smallest window.         *)
SchedulerAgreesWithQueues ==
    /\ IsInjective(aq \o sq) /\ Range(aq) = in_aq_set /\ Range(sq) = in_sq_set
    /\ \A n \in Range(aq \o sq) :
        /\ nodes[n].in_aq <=> n \in in_aq_set
        /\ ~nodes[n].in_aq <=> n \in in_sq_set
        /\ nodes[n].in_aq <=> nodes[n].current_state # "STATE_I"
        /\ ~nodes[n].in_aq => nodes[n].current_window = MIN_WINDOW

(* While a node sleeps, at most INTERLEAVE_RATIO services of active nodes pass    *)
(* between two probes of the sleep queue, also when nodes migrate in between and  *)
(* although the idle patrol leaves aq_served as it was (get_next_node).           *)
SleepersProbed == unprobed <= INTERLEAVE_RATIO

(* The watchdog: a node leaves the active queue only when it has used less than   *)
(* 5 ms of each of its last three windows, also when silence_count has wrapped.   *)
WatchdogNeedsThreeSilences ==
    [][\A n \in Nodes : n \in in_aq_set /\ n \notin in_aq_set' => silent'[n] = 3]_vars

=============================================================================
