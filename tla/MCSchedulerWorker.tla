-------------------------- MODULE MCSchedulerWorker --------------------------
(* The scheduler thread as run_server() sets it up, with three nodes *)
EXTENDS SchedulerWorker
=============================================================================
