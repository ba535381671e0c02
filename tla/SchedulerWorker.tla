--------------------------- MODULE SchedulerWorker ---------------------------
(***************************************************************************)
(* scheduler_main_loop(), the scheduler thread of the server: it asks the  *)
(* scheduler for the next node, sends that node a token, grants the        *)
(* server's own TX thread the same window, waits for the window to pass    *)
(* and reports the window as used in full.  Without a node it sleeps for   *)
(* an idle patrol and asks again.                                          *)
(*                                                                         *)
(* run_server() registers its nodes with a ServerScheduler to which it     *)
(* attaches no AqSqManager (manager_attached = FALSE); the tests attach    *)
(* one and register the nodes with it too.                                 *)
(*                                                                         *)
(* The pcap handle is valid, as run_server() makes sure, so sending a      *)
(* token does not fail: send_token_triple() then always returns true.      *)
(* Time is abstracted to the order of the steps.                           *)
(***************************************************************************)
EXTENDS Integers, Sequences, FiniteSets, FiniteSetsExt

CONSTANTS
    Nodes, INVALID_NODE, INTERLEAVE_RATIO, MIN_WINDOW, STEP_UP, ELASTIC_MARGIN,
    MICRO_PROBE_DURATION_MS, num_nodes, SilenceWrap,    \* ServerScheduler
    min_window_ms, max_window_ms,   \* SchedulerConfig, at most 65535
    manager_attached                \* has set_aq_sq_manager() been called?

VARIABLES
    aq, sq, in_aq_set, in_sq_set, aq_served, next_node, unprobed,
    nodes, serving, silent,         \* ServerScheduler
    pc, shutdown,
    token,      \* the token last sent: its target_node and duration_ms
    own_window  \* the window last granted to the server's own TX thread

Scheduler == INSTANCE ServerScheduler WITH Windows <- min_window_ms..max_window_ms

scheduler == <<aq, sq, in_aq_set, in_sq_set, aq_served, next_node, unprobed, nodes, serving, silent>>
vars == <<scheduler, pc, shutdown, token, own_window>>

NoToken == [target_node |-> INVALID_NODE, duration_ms |-> 0]

Init ==
    /\ IF manager_attached THEN Scheduler!Registered ELSE Scheduler!Init
    /\ pc = "loop" /\ shutdown = FALSE
    /\ token = NoToken /\ own_window = 0

Signal ==
    /\ ~shutdown
    /\ shutdown' = TRUE
    /\ UNCHANGED <<scheduler, pc, token, own_window>>

Exit ==
    /\ pc \in {"loop", "wait"} /\ shutdown
    /\ pc' = "done"
    /\ UNCHANGED <<scheduler, shutdown, token, own_window>>

(* get_next_node_to_serve(), which without a manager returns no node *)
Select ==
    /\ pc = "loop" /\ ~shutdown
    /\ IF manager_attached THEN Scheduler!get_next_node_to_serve ELSE UNCHANGED scheduler
    /\ pc' = IF serving'.node_id = INVALID_NODE THEN "patrol" ELSE "emit"
    /\ UNCHANGED <<shutdown, token, own_window>>

(* usleep() of the idle patrol *)
Patrol ==
    /\ pc = "patrol"
    /\ pc' = "loop"
    /\ UNCHANGED <<scheduler, shutdown, token, own_window>>

capped_quota == Max({min_window_ms, Min({max_window_ms, serving.duration_ms})})

(* The token goes out and the server's TX thread is granted the same window *)
Emit ==
    /\ pc = "emit"
    /\ token' = [target_node |-> serving.node_id, duration_ms |-> capped_quota]
    /\ own_window' = capped_quota
    /\ pc' = "wait"
    /\ UNCHANGED <<scheduler, shutdown>>

(* The window has passed *)
Report ==
    /\ pc = "wait" /\ ~shutdown
    /\ Scheduler!update_node_state(token.duration_ms, token.duration_ms)
    /\ pc' = "loop"
    /\ UNCHANGED <<shutdown, token, own_window>>

Next == Signal \/ Exit \/ Select \/ Patrol \/ Emit \/ Report

Spec == Init /\ [][Next]_vars

(* The scheduler thread runs; nothing obliges a signal to come *)
FairSpec == Spec /\ WF_vars(Exit \/ Select \/ Patrol \/ Emit \/ Report)

-----------------------------------------------------------------------------
(* Unless the server stops, every node is sent tokens again and again: the *)
(* sleeping nodes too "are probed at regular intervals, so that none       *)
(* starves" (scheduler_main_loop, get_next_node_to_serve).                 *)
EveryNodeGetsTokens == \A n \in Nodes : []<>(shutdown \/ token.target_node = n)

=============================================================================
