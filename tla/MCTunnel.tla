------------------------------ MODULE MCTunnel ------------------------------
(***************************************************************************)
(* Two stations, one of which reads more packets than the other.           *)
(***************************************************************************)
EXTENDS Tunnel, TLC

CONSTANTS ground, vehicle

MCMaxReads == (ground :> 0) @@ (vehicle :> 3)

=============================================================================
