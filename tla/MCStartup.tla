------------------------------- MODULE MCStartup ------------------------------
(* Startup with one kubeconfig that has two contexts. *)
EXTENDS Startup, TLC

MCFile    == {<<"config">>}
MCContext == {<<"dev">>, <<"prod">>}
MCTenant  == {<<"eu">>}

Says(eu) == <<"eu">> :> eu

(* One cluster is EE, or says nothing where it is looked first and has no tunnels;
   the other says CE where the tenant's TenantState is, and has the CRD all the same. *)
MCBackends ==
    <<"dev">>  :> {[default |-> Says("EE"), named |-> Says("absent"), tunnels |-> TRUE],
                   [default |-> Says("silent"), named |-> Says("EE"), tunnels |-> FALSE]} @@
    <<"prod">> :> {[default |-> Says("absent"), named |-> Says("CE"), tunnels |-> TRUE]}
=============================================================================
