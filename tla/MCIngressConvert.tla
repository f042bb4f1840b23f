--------------------------- MODULE MCIngressConvert --------------------------
(* IngressConvert on small instances.  A plain Ingress needs a route and a
   listener; an edited one another listener and a policy besides, and gives
   warnings; a skipped one is not converted. *)
EXTENDS IngressConvert, TLC

CONSTANTS plain, edited, skip, route, policy, l1, l2, i1, i2

MCPartsOf ==
    [x \in Content |-> CASE x = plain  -> {route} \cap Parts
                         [] x = edited -> {route, policy} \cap Parts
                         [] OTHER      -> {}]

MCListenersOf ==
    [x \in Content |-> CASE x = plain  -> {l1}
                         [] x = edited -> {l2}
                         [] OTHER      -> {}]
=============================================================================
