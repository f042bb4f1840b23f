----------------------------- MODULE LoadBalancer -----------------------------
(***************************************************************************)
(* `kubelb loadbalancer create` and `delete` (internal/loadbalancer) for   *)
(* one name, by any number of processes, beside the controller that serves *)
(* the load balancer and other users who write the same resource.          *)
(*                                                                         *)
(* The API server refuses to create what exists; it knows a load balancer  *)
(* by its name alone, so what a command polls or deletes may be another    *)
(* one than it created or showed.  A deleted one stays until the           *)
(* controller is done with it.  A write is sent in one step and takes      *)
(* effect in another, or is lost: between the two its command may be       *)
(* interrupted, give up and end, and the write be carried out all the same.*)
(***************************************************************************)
EXTENDS Integers

CONSTANTS
    Process,     \* the processes, each one command after another
    Host, Port,  \* what endpoints are made of; Port has unusable ones too
    Options,     \* the options create is called with
    None         \* no load balancer, no port

Types == {"ClusterIP", "LoadBalancer"}

(* The parts of a status: of its hostname, and the addresses of its ingress. *)
Route == {"hostname", "dns", "tls"}
Items == Route \cup {"ingress"}

(* CreateOptions; an endpoint without a number after its colon has port None. *)
CreateOptions ==
    [endpoints : SUBSET (Host \X (Port \cup {None})), type : Types \cup {"other"},
     protocol : {"http", "other"}, route : BOOLEAN, hostname : BOOLEAN, wait : BOOLEAN,
     output : {"yaml", "summary"}]

(* What a user writes of a load balancer, and the whole of it. *)
Wanted == [addresses : SUBSET Host, ports : SUBSET Port, type : Types,
          asks : {"nothing", "wildcard", "hostname"}, cli : BOOLEAN]

Object == [spec : Wanted, status : SUBSET Items, terminating : BOOLEAN]

(* What the summary of a create command says. *)
Summaries == [url : BOOLEAN, https : BOOLEAN, accessible : BOOLEAN, addresses : BOOLEAN]

ASSUME LoadBalancerAssumption ==
    /\ Options \subseteq CreateOptions
    /\ Port \subseteq Int
    /\ None \notin Port /\ None \notin Options /\ None \notin Object /\ None \notin Summaries

VARIABLES
    lb,          \* the load balancer of the name
    cmd,         \* what each process is at
    wire         \* the write each has sent, of which it is open what becomes

lvars == <<lb, cmd, wire>>

Phases ==
    {"idle", "creating", "waiting", "output", "getting", "prompt", "deleting", "sent"}

Command ==
    [phase     : Phases,
     opts      : Options \cup {None},
     cancelled : BOOLEAN,             \* by the user, or after four minutes
     told      : Summaries \cup {None},   \* what create is to print
     warned    : BOOLEAN,             \* that it was not created by the CLI
     yes       : BOOLEAN,             \* the deletion is forced or confirmed
     same      : BOOLEAN]             \* ghost: the load balancer it waits for or
                                      \* showed is there and nobody has edited it

(* A POST with what it creates, or a DELETE. *)
Request ==
    [verb   : {"create", "delete"},
     spec   : Wanted \cup {None},
     asked  : BOOLEAN,                \* ghost: confirmed, and sent in time
     warned : BOOLEAN,                \* ghosts: as of the command
     same   : BOOLEAN]

Idle == [phase |-> "idle", opts |-> None, cancelled |-> FALSE, told |-> None,
         warned |-> FALSE, yes |-> FALSE, same |-> FALSE]

TypeOK ==
    /\ lb \in Object \cup {None}
    /\ cmd \in [Process -> Command]
    /\ wire \in [Process -> Request \cup {None}]

Init ==
    /\ lb = None
    /\ cmd = [p \in Process |-> Idle]
    /\ wire = [p \in Process |-> None]

At(p, phase) == cmd[p].phase = phase

Ends(p) == cmd' = [cmd EXCEPT ![p] = Idle]

Open(p, verb) == wire[p] # None /\ wire[p].verb = verb

Settled(p) == wire' = [wire EXCEPT ![p] = None]

(* Refused, as one that creates what exists or deletes what does not, or lost on
   its way. *)
Lost(p) ==
    /\ wire[p] # None
    /\ Settled(p)
    /\ UNCHANGED <<lb, cmd>>

-----------------------------------------------------------------------------
(* Create. *)

MaxPort == 65535

Valid(e) == e[2] # None /\ e[2] \in 1..MaxPort

(* Mutant: the ports of the first address alone. *)
MutParseEndpoints(endpoints) ==
    [addresses |-> {e[1] : e \in endpoints},
     ports |-> IF endpoints = {} THEN {} ELSE {(CHOOSE e \in endpoints : TRUE)[2]}]

(* parseEndpoints: the addresses and the ports, each once; that an address goes
   with a port is not kept. *)
ParseEndpoints(endpoints) ==
    [addresses |-> {e[1] : e \in endpoints}, ports |-> {e[2] : e \in endpoints}]

(* Mutant: a domain is asked for only where a hostname is given. *)
MutGenerateLoadBalancer(o) ==
    [addresses |-> ParseEndpoints(o.endpoints).addresses,
     ports     |-> ParseEndpoints(o.endpoints).ports,
     type      |-> o.type,
     asks      |-> IF o.route /\ o.hostname THEN "hostname" ELSE "nothing",
     cli       |-> TRUE]

(* generateLoadBalancer. *)
GenerateLoadBalancer(o) ==
    [addresses |-> ParseEndpoints(o.endpoints).addresses,
     ports     |-> ParseEndpoints(o.endpoints).ports,
     type      |-> o.type,
     asks      |-> IF ~o.route THEN "nothing" ELSE IF o.hostname THEN "hostname" ELSE "wildcard",
     cli       |-> TRUE]

New(spec) == [spec |-> spec, status |-> {}, terminating |-> FALSE]

(* The options that Create does not refuse at once. *)
Accepted ==
    {o \in Options : (\A e \in o.endpoints : Valid(e)) /\ o.protocol = "http" /\ o.type \in Types}

Generated == {GenerateLoadBalancer(o) : o \in Accepted}

(* The request goes out at once.  A process whose last write is still on its way
   begins nothing; there are others that may. *)
StartCreate(p) ==
    /\ At(p, "idle") /\ wire[p] = None
    /\ \E o \in Accepted :
          /\ cmd' = [cmd EXCEPT ![p] = [Idle EXCEPT !.phase = "creating", !.opts = o]]
          /\ wire' = [wire EXCEPT ![p] =
                [verb |-> "create", spec |-> GenerateLoadBalancer(o), asked |-> TRUE,
                 warned |-> FALSE, same |-> FALSE]]
    /\ UNCHANGED lb

(* outputSummary: what it says of how to reach the load balancer. *)
Summary(object) ==
    [url        |-> "hostname" \in object.status,
     https      |-> "tls" \in object.status,
     accessible |-> {"hostname", "dns"} \subseteq object.status,
     addresses  |-> object.spec.type = "LoadBalancer" /\ "ingress" \in object.status]

(* What is to be printed; outputYAML prints what it gets anew. *)
Told(o, object) == IF o.output = "summary" THEN Summary(object) ELSE None

(* Mutant: a load balancer that is there is taken over, as `tunnel create` does. *)
MutCreate(p) ==
    /\ Open(p, "create") /\ Settled(p)
    /\ lb' = IF lb = None THEN New(wire[p].spec) ELSE lb
    /\ \/ UNCHANGED cmd
       \/ /\ At(p, "creating")
          /\ cmd' = [cmd EXCEPT
                ![p].phase = IF cmd[p].opts.wait THEN "waiting" ELSE "output",
                ![p].told = IF cmd[p].opts.wait THEN None ELSE Told(cmd[p].opts, New(wire[p].spec)),
                ![p].same = cmd[p].opts.wait]

(* It is created.  The command goes on, unless the reply is lost or it has given
   up; without waiting, what it prints is what was sent. *)
Create(p) ==
    /\ Open(p, "create") /\ Settled(p)
    /\ lb = None /\ lb' = New(wire[p].spec)
    /\ \/ UNCHANGED cmd
       \/ /\ At(p, "creating")
          /\ cmd' = [cmd EXCEPT
                ![p].phase = IF cmd[p].opts.wait THEN "waiting" ELSE "output",
                ![p].told = IF cmd[p].opts.wait THEN None ELSE Told(cmd[p].opts, lb'),
                ![p].same = cmd[p].opts.wait]

(* It exists already, the call fails, or the context ends; the request may still
   be on its way, or have had its effect. *)
CreateFails(p) ==
    /\ At(p, "creating")
    /\ Ends(p)
    /\ UNCHANGED <<lb, wire>>

(* Mutant: a hostname with a certificate is enough. *)
MutReady(object, hasRoute) ==
    \/ hasRoute /\ {"hostname", "tls"} \subseteq object.status
    \/ object.spec.type = "LoadBalancer" /\ "ingress" \in object.status

(* The condition of waitForLoadBalancer. *)
Ready(object, hasRoute) ==
    \/ hasRoute /\ Route \subseteq object.status
    \/ object.spec.type = "LoadBalancer" /\ "ingress" \in object.status

(* One poll.  One that finds the load balancer not ready changes nothing. *)
Poll(p) ==
    /\ At(p, "waiting") /\ ~cmd[p].cancelled
    /\ \/ lb = None /\ Ends(p)
       \/ /\ lb # None /\ Ready(lb, cmd[p].opts.route)
          /\ cmd' = [cmd EXCEPT ![p].phase = "output",
                                ![p].told = Told(cmd[p].opts, lb), ![p].same = FALSE]
    /\ UNCHANGED <<lb, wire>>

(* A poll that fails ends the wait, and so does the context, which makes every
   call fail; the load balancer stays. *)
WaitEnds(p) ==
    /\ At(p, "waiting")
    /\ Ends(p)
    /\ UNCHANGED <<lb, wire>>

(* outputSummary prints what was seen; outputYAML gets what the name has by now,
   prints that and may fail. *)
Output(p) ==
    /\ At(p, "output")
    /\ Ends(p)
    /\ UNCHANGED <<lb, wire>>

-----------------------------------------------------------------------------
(* Delete. *)

StartDelete(p) ==
    /\ At(p, "idle") /\ wire[p] = None
    /\ \E force \in BOOLEAN :
          cmd' = [cmd EXCEPT ![p] = [Idle EXCEPT !.phase = "getting", !.yes = force]]
    /\ UNCHANGED <<lb, wire>>

IsCLIGenerated(object) == object.spec.cli

(* It is shown, with a warning where the CLI has not created it. *)
Get(p) ==
    /\ At(p, "getting") /\ ~cmd[p].cancelled
    /\ lb # None
    /\ cmd' = [cmd EXCEPT ![p].phase = IF cmd[p].yes THEN "deleting" ELSE "prompt",
                          ![p].warned = ~IsCLIGenerated(lb), ![p].same = TRUE]
    /\ UNCHANGED <<lb, wire>>

GetFails(p) ==
    /\ At(p, "getting")
    /\ Ends(p)
    /\ UNCHANGED <<lb, wire>>

(* confirmDeletion reads a line: nothing but a line ends it, Ctrl+C does not. *)
ConfirmDeletion(p) ==
    /\ At(p, "prompt")
    /\ \/ cmd' = [cmd EXCEPT ![p].phase = "deleting", ![p].yes = TRUE]
       \/ Ends(p)
    /\ UNCHANGED <<lb, wire>>

Terminated(object) == [object EXCEPT !.terminating = TRUE]

Deletion(p) ==
    [verb |-> "delete", spec |-> None, warned |-> cmd[p].warned, same |-> cmd[p].same,
     asked |-> ~cmd[p].cancelled /\ cmd[p].yes]

(* Mutant: the deletion has a context of its own, as that of the tunnel's menu. *)
MutSendDelete(p) ==
    /\ At(p, "deleting")
    /\ wire' = [wire EXCEPT ![p] = Deletion(p)]
    /\ cmd' = [cmd EXCEPT ![p] = [Idle EXCEPT !.phase = "sent"]]
    /\ UNCHANGED lb

(* The DELETE names the load balancer and goes out; a call with a context that has
   ended sends nothing. *)
SendDelete(p) ==
    /\ At(p, "deleting") /\ ~cmd[p].cancelled
    /\ wire' = [wire EXCEPT ![p] = Deletion(p)]
    /\ cmd' = [cmd EXCEPT ![p] = [Idle EXCEPT !.phase = "sent"]]
    /\ UNCHANGED lb

(* What has the name when the request arrives is deleted, whatever has become of
   the command. *)
Delete(p) ==
    /\ Open(p, "delete") /\ Settled(p)
    /\ lb # None
    /\ lb' = Terminated(lb)
    /\ UNCHANGED cmd

(* The call returns: with an answer, or an error, or because the context ends,
   when the request may still be on its way. *)
DeleteReturns(p) ==
    /\ At(p, "deleting") \/ At(p, "sent")
    /\ Ends(p)
    /\ UNCHANGED <<lb, wire>>

(* Ctrl+C, or the deadline that Execute gives every command; Output may fail
   anyway, and the call of a DELETE that is sent returns at any time. *)
ContextEnds(p) ==
    /\ cmd[p].phase \notin {"idle", "output", "sent"} /\ ~cmd[p].cancelled
    /\ cmd' = [cmd EXCEPT ![p].cancelled = TRUE]
    /\ UNCHANGED <<lb, wire>>

-----------------------------------------------------------------------------
(* The controller and other users. *)

Forgotten ==
    /\ cmd' = [p \in Process |-> [cmd[p] EXCEPT !.same = FALSE]]
    /\ wire' = [p \in Process |->
          IF wire[p] = None THEN None ELSE [wire[p] EXCEPT !.same = FALSE]]

(* What a load balancer asks for.  The record and the certificate are those of its
   hostname. *)
Asked(object) ==
    (IF object.spec.asks = "nothing" THEN {} ELSE Route)
    \cup (IF object.spec.type = "LoadBalancer" THEN {"ingress"} ELSE {})

Serves ==
    /\ lb # None
    /\ \E s \in Asked(lb) \ lb.status :
          /\ s \in {"dns", "tls"} => "hostname" \in lb.status
          /\ lb' = [lb EXCEPT !.status = @ \cup {s}]
    /\ UNCHANGED <<cmd, wire>>

Degrades ==
    /\ lb # None
    /\ \E s \in lb.status :
          lb' = [lb EXCEPT !.status = @ \ (IF s = "hostname" THEN Route ELSE {s})]
    /\ UNCHANGED <<cmd, wire>>

Finalizes ==
    /\ lb # None /\ lb.terminating
    /\ lb' = None
    /\ Forgotten

(* Another user, by other means. *)
OtherCreates ==
    /\ lb = None
    /\ \E w \in Generated : lb' = New([w EXCEPT !.cli = FALSE])
    /\ UNCHANGED <<cmd, wire>>

OtherEdits ==
    /\ lb # None
    /\ \E w \in Generated, cli \in {lb.spec.cli, FALSE} :
          lb' = [lb EXCEPT !.spec = [w EXCEPT !.cli = cli]]
    /\ Forgotten

OtherDeletes ==
    /\ lb # None /\ ~lb.terminating
    /\ lb' = Terminated(lb)
    /\ UNCHANGED <<cmd, wire>>

-----------------------------------------------------------------------------
(* The steps a command takes by itself, where its calls return in the end; a prompt
   waits for its user. *)
CommandStep(p) ==
    \/ CreateFails(p) \/ Output(p) \/ Poll(p) \/ (cmd[p].cancelled /\ WaitEnds(p))
    \/ Get(p) \/ GetFails(p) \/ SendDelete(p) \/ DeleteReturns(p)

(* What becomes of its writes. *)
WireStep(p) == Create(p) \/ Delete(p) \/ Lost(p)

Next ==
    \/ \E p \in Process :
          \/ StartCreate(p) \/ StartDelete(p) \/ CommandStep(p) \/ WaitEnds(p)
          \/ ConfirmDeletion(p) \/ ContextEnds(p) \/ WireStep(p)
    \/ Serves \/ Degrades \/ Finalizes
    \/ OtherCreates \/ OtherEdits \/ OtherDeletes

Spec == Init /\ [][Next]_lvars

(* A command gets on with its calls, and polls every three seconds. *)
Fairness == \A p \in Process : WF_lvars(CommandStep(p))

FairSpec == Spec /\ Fairness

-----------------------------------------------------------------------------
(* Correctness. *)

Creates(p) == At(p, "waiting") /\ cmd[p].same

OwnIs(p) == Creates(p) =>
    /\ lb # None /\ lb.spec = GenerateLoadBalancer(cmd[p].opts)
    /\ cmd[p].opts.endpoints \subseteq lb.spec.addresses \X lb.spec.ports

(* What a create command waits for is the load balancer it was asked to create,
   leading to every endpoint it was given, and no two commands have created the
   same one. *)
OwnIsAsked ==
    /\ \A p \in Process : OwnIs(p)
    /\ \A p, q \in Process : Creates(p) /\ Creates(q) => p = q

TellsAWay(p) == At(p, "output") /\ cmd[p].opts.wait /\ cmd[p].opts.output = "summary" =>
    (cmd[p].told.url /\ cmd[p].told.https /\ cmd[p].told.accessible) \/ cmd[p].told.addresses

(* The summary of a create that has waited names a way to the application: an https
   URL that it says is accessible, or addresses; whoever owns the load balancer by
   then.  Of `-o yaml`, which prints what it gets anew, it says nothing. *)
SuccessTellsAWay == \A p \in Process : TellsAWay(p)

(* What a delete command takes away, however late the API server gets to it and
   even if the command has long ended, was confirmed, and asked for before the
   command was interrupted or had run out of time, though its prompt notices
   neither; and nobody loses a load balancer of others without a warning, unless it
   has taken the place of what was shown or was edited since. *)
Takes(p) == Open(p, "delete") /\ wire[p]' = None /\ lb' # lb

Informed(p) == wire[p].asked /\ (wire[p].same => wire[p].warned = ~lb.spec.cli)

InformedDeletion == [][\A p \in Process : Takes(p) => Informed(p)]_lvars

(* The wait for a load balancer ends when the deadline has passed or Ctrl+C has
   been pressed.  It does not need either: what create asks the controller for is
   what it waits for, so once the controller serves it and takes nothing back, the
   wait ends, unless others have edited or deleted the load balancer; but for one
   of type ClusterIP without a route, which asks for nothing. *)
Own(p) ==
    /\ At(p, "waiting") /\ cmd[p].same /\ ~lb.terminating /\ ~cmd[p].cancelled
    /\ cmd[p].opts.route \/ cmd[p].opts.type = "LoadBalancer"

CreateSettles ==
    \A p \in Process :
        /\ At(p, "waiting") /\ cmd[p].cancelled ~> ~At(p, "waiting")
        /\ WF_lvars(Serves) /\ <>[][~Degrades]_lvars =>
              (Own(p) ~> ~Own(p))

(* What makes the invariants inductive. *)
PhaseAgrees(p) ==
    /\ cmd[p].phase \in {"creating", "waiting", "output"} =>
          cmd[p].opts \in Accepted
    /\ At(p, "output") /\ cmd[p].opts.output = "summary" => cmd[p].told # None
    /\ At(p, "deleting") => cmd[p].yes
    /\ cmd[p].phase \in {"prompt", "deleting"} /\ cmd[p].same =>
          lb # None /\ cmd[p].warned = ~lb.spec.cli
    /\ cmd[p].phase \in {"creating", "output", "getting"} => ~cmd[p].same
    /\ At(p, "creating") /\ wire[p] # None =>
          Open(p, "create") /\ wire[p].spec = GenerateLoadBalancer(cmd[p].opts)

RequestAgrees(p) ==
    /\ Open(p, "create") => wire[p].spec \in Generated /\ ~wire[p].same
    /\ Open(p, "delete") => wire[p].asked
    /\ Open(p, "delete") /\ wire[p].same => lb # None /\ wire[p].warned = ~lb.spec.cli

LoadBalancerInv ==
    /\ TypeOK
    /\ \A p \in Process : PhaseAgrees(p) /\ RequestAgrees(p)
    /\ OwnIsAsked
    /\ SuccessTellsAWay
=============================================================================
