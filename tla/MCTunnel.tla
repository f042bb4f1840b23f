------------------------------ MODULE MCTunnel -------------------------------
(* Tunnel on a small instance: requests are interchangeable. *)
EXTENDS Tunnel, TLC

RequestSymmetry == Permutations(Requests)
=============================================================================
