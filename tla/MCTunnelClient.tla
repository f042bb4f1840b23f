--------------------------- MODULE MCTunnelClient ----------------------------
(* TunnelClient on a small instance, see the .cfg files for the constants. *)
EXTENDS TunnelClient
=============================================================================
