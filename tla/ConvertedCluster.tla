--------------------------- MODULE ConvertedCluster --------------------------
(***************************************************************************)
(* What a cluster undergoes in which Ingresses are converted, without the  *)
(* runs: nobody holds a version, an old list of listeners or a stale       *)
(* Ingress.  Every change is made at one moment to what is there at that   *)
(* moment, and a route or policy comes only after the listeners of the     *)
(* Ingress it was made from.                                               *)
(*                                                                         *)
(* IngressConvert, translated from internal/ingress, implements this       *)
(* specification: reading early, polling for long and writing late cannot  *)
(* be told from it by looking at the cluster.                              *)
(***************************************************************************)

CONSTANTS
    Ingress, Content, None, Routes, Policies, Listener, PartsOf, ListenersOf,
    Skipped, Warned        \* as in IngressConvert

VARIABLES
    content, status, gateway, listeners, lost, secrets, object, accepted

gatewayVars == <<gateway, listeners, lost>>
ingressVars == <<content, status>>
partVars    == <<object, accepted>>
clusterVars == <<ingressVars, gatewayVars, secrets, partVars>>

PartIds     == Ingress \X (Routes \cup Policies)
RouteIds    == Ingress \X Routes
Convertible == Content \ Skipped

Init ==
    /\ content \in [Ingress -> Content \cup {None}]
    /\ status = [i \in Ingress |-> "new"]
    /\ gateway = FALSE
    /\ listeners = {}
    /\ lost = {}
    /\ secrets = {}
    /\ object = [x \in PartIds |-> None]
    /\ accepted = [x \in RouteIds |-> None]

Provided == listeners \cup lost

(* The Gateway gains the listeners of some contents, and is made for them. *)
Merge ==
    /\ \E S \in SUBSET Convertible :
          listeners' = listeners \cup UNION {ListenersOf[s] : s \in S}
    /\ gateway' = TRUE
    /\ lost' = lost \ listeners'
    /\ UNCHANGED <<ingressVars, secrets, partVars>>

CopySecrets ==
    /\ \E L \in SUBSET Provided : secrets' = secrets \cup L
    /\ UNCHANGED <<ingressVars, gatewayVars, partVars>>

(* A part that a content needs is made of it, once its listeners are there. *)
Apply(x) ==
    /\ \E s \in Convertible :
          /\ x[2] \in PartsOf[s]
          /\ ListenersOf[s] \subseteq Provided
          /\ object' = [object EXCEPT ![x] = s]
    /\ UNCHANGED <<ingressVars, gatewayVars, secrets, accepted>>

(* An Ingress is annotated for what it now says, which does not exclude it, and
   its listeners have been provided. *)
Annotate(i) ==
    /\ content[i] \in Convertible
    /\ ListenersOf[content[i]] \subseteq Provided
    /\ \E verdict \in {"pending", IF content[i] \in Warned THEN "partial" ELSE "converted"} :
          status' = [status EXCEPT ![i] = verdict]
    /\ UNCHANGED <<content, gatewayVars, secrets, partVars>>

(* The others. *)
Edit(i) ==
    /\ \E new \in (Content \cup {None}) \ {content[i]} :
          /\ content' = [content EXCEPT ![i] = new]
          /\ status' = [status EXCEPT ![i] =
                           IF new = None \/ content[i] = None THEN "new" ELSE @]
    /\ UNCHANGED <<gatewayVars, secrets, partVars>>

DeletePart(x) ==
    /\ object' = [object EXCEPT ![x] = None]
    /\ accepted' = [y \in RouteIds |-> IF y = x THEN None ELSE accepted[y]]
    /\ UNCHANGED <<ingressVars, gatewayVars, secrets>>

Judge(x) ==
    /\ \E verdict \in {object[x], None} : accepted' = [accepted EXCEPT ![x] = verdict]
    /\ UNCHANGED <<ingressVars, gatewayVars, secrets, object>>

DeleteGateway ==
    /\ gateway' = FALSE
    /\ listeners' = {}
    /\ lost' = lost \cup listeners
    /\ UNCHANGED <<ingressVars, secrets, partVars>>

Next ==
    \/ Merge \/ CopySecrets \/ DeleteGateway
    \/ \E x \in PartIds : Apply(x) \/ DeletePart(x)
    \/ \E x \in RouteIds : Judge(x)
    \/ \E i \in Ingress : Annotate(i) \/ Edit(i)

Spec == Init /\ [][Next]_clusterVars
=============================================================================
