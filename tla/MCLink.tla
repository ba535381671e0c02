-------------------------------- MODULE MCLink --------------------------------
(***************************************************************************)
(* Model checking a link.                                                  *)
(***************************************************************************)
EXTENDS Link

MCInitialFec == <<2, 3>>
MCFecSettings == {<<1, 2>>}
=============================================================================
