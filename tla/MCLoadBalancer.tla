---------------------------- MODULE MCLoadBalancer ----------------------------
(* LoadBalancer with two hosts and options that differ in what is waited for. *)
EXTENDS LoadBalancer

Plain == [endpoints |-> {<<"h1", 80>>}, type |-> "ClusterIP", protocol |-> "http",
          route |-> TRUE, hostname |-> FALSE, wait |-> TRUE, output |-> "summary"]

MCHost == {"h1", "h2"}
MCPort == {0, 80, 81}

(* A route, with a wait or without and with both outputs; addresses, for two
   endpoints of different ports; what is refused. *)
MCOptions ==
    {Plain, [Plain EXCEPT !.output = "yaml"],
     [Plain EXCEPT !.endpoints = {<<"h1", 80>>, <<"h2", 81>>}, !.type = "LoadBalancer",
                   !.route = FALSE],
     [Plain EXCEPT !.wait = FALSE],
     [Plain EXCEPT !.endpoints = {<<"h1", 0>>}],
     [Plain EXCEPT !.type = "other"]}
=============================================================================
