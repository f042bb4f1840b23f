----------------------------- MODULE MCDashboard ------------------------------
(* Dashboard with one Ingress and a resource called like it. *)
EXTENDS Dashboard, TLC
=============================================================================
