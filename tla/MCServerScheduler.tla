-------------------------- MODULE MCServerScheduler --------------------------
(* The scheduler with any mix of silent, partly used and exhausted windows *)
EXTENDS ServerScheduler

MCWindows == {4, 5, 100}
=============================================================================
