------------------------------ MODULE MCLogFile ------------------------------
(***************************************************************************)
(* Two threads write to a log whose queue holds one item: with five calls, *)
(* both can find it full while the log thread takes the counter.           *)
(***************************************************************************)
EXTENDS LogFile

=============================================================================
