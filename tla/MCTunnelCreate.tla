--------------------------- MODULE MCTunnelCreate ----------------------------
(* TunnelCreate has no constants: all modes, all states of the tunnel. *)
EXTENDS TunnelCreate
=============================================================================
