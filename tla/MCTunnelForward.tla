--------------------------- MODULE MCTunnelForward ---------------------------
(* TunnelForward on three requests. *)
EXTENDS TunnelForward
=============================================================================
