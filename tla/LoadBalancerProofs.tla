-------------------------- MODULE LoadBalancerProofs --------------------------
(***************************************************************************)
(* Creating and deleting load balancers of one name, for every number of   *)
(* processes and every set of options.  A command knows its load balancer  *)
(* by name; the invariant says how long that is the one it means: from its *)
(* creation, or from the look at it, until the controller has removed it   *)
(* or another user has edited it.  Where there is none nobody means one,   *)
(* so a creation takes nothing from anybody.                               *)
(***************************************************************************)
EXTENDS LoadBalancer, TLAPS

(* What is sent to the API server is well formed, and leads everywhere it should. *)
LEMMA GeneratedType ==
    ASSUME NEW o \in Accepted
    PROVE  /\ o \in Options /\ o.wait \in BOOLEAN
           /\ GenerateLoadBalancer(o) \in Wanted /\ New(GenerateLoadBalancer(o)) \in Object
           /\ New(GenerateLoadBalancer(o)).spec = GenerateLoadBalancer(o)
           /\ o.endpoints \subseteq
                 GenerateLoadBalancer(o).addresses \X GenerateLoadBalancer(o).ports
<1>0. o \in Options /\ o.type \in Types /\ \A e \in o.endpoints : Valid(e)
    BY DEF Accepted
<1>11. ASSUME NEW e \in o.endpoints PROVE e[2] # None
    <2>1. Valid(e)
        BY <1>0
    <2> QED BY <2>1 DEF Valid
<1>12. o \in CreateOptions
    <2>1. Options \subseteq CreateOptions
        BY LoadBalancerAssumption
    <2> QED BY <1>0, <2>1
<1>1. /\ o \in CreateOptions /\ o \in Options /\ o.type \in Types
      /\ \A e \in o.endpoints : e[2] # None
    BY <1>0, <1>11, <1>12
<1>2. o.endpoints \in SUBSET (Host \X (Port \cup {None})) /\ o.wait \in BOOLEAN
    BY <1>1 DEF CreateOptions
<1>3. /\ {e[1] : e \in o.endpoints} \in SUBSET Host
      /\ {e[2] : e \in o.endpoints} \in SUBSET Port
    BY <1>1, <1>2
<1>4. o.endpoints \subseteq {e[1] : e \in o.endpoints} \X {e[2] : e \in o.endpoints}
    BY <1>2
<1>5. GenerateLoadBalancer(o) \in Wanted
    BY <1>1, <1>3 DEF GenerateLoadBalancer, ParseEndpoints, Wanted
<1>6. /\ GenerateLoadBalancer(o).addresses = {e[1] : e \in o.endpoints}
      /\ GenerateLoadBalancer(o).ports = {e[2] : e \in o.endpoints}
    BY DEF GenerateLoadBalancer, ParseEndpoints
<1>7. New(GenerateLoadBalancer(o)) \in Object
    BY <1>5 DEF New, Object
<1>8. New(GenerateLoadBalancer(o)).spec = GenerateLoadBalancer(o)
    BY DEF New
<1> QED BY <1>1, <1>2, <1>4, <1>5, <1>6, <1>7, <1>8

(* A process that does nothing is well. *)
LEMMA IdleType ==
    /\ Idle \in Command /\ Idle.phase = "idle" /\ Idle.same = FALSE
BY DEF Idle, Command, Phases

(* All that the invariant says of one process. *)
Well(q) == PhaseAgrees(q) /\ RequestAgrees(q) /\ OwnIs(q) /\ TellsAWay(q)

LEMMA InvIsWell ==
    LoadBalancerInv <=>
        /\ TypeOK
        /\ \A q \in Process : Well(q)
        /\ \A p, q \in Process : Creates(p) /\ Creates(q) => p = q
BY DEF LoadBalancerInv, Well, OwnIsAsked, SuccessTellsAWay

(* A load balancer that keeps what its users wrote, or that takes the place of
   none, is nothing to those who do not move. *)
LEMMA OthersKept ==
    ASSUME NEW q \in Process, cmd'[q] = cmd[q], wire'[q] = wire[q], Well(q),
           lb = None \/ (lb' # None /\ lb'.spec = lb.spec)
    PROVE  Well(q)' /\ (Creates(q)' <=> Creates(q))
<1>1. PhaseAgrees(q)'
    BY DEF Well, PhaseAgrees, At, Open
<1>2. OwnIs(q)' /\ TellsAWay(q)' /\ (Creates(q)' <=> Creates(q))
    BY DEF Well, OwnIs, TellsAWay, Creates, At
<1>3. RequestAgrees(q)'
    BY DEF Well, RequestAgrees, Open
<1> QED BY <1>1, <1>2, <1>3 DEF Well

(* One process moves: its command, its write, or both. *)
LEMMA OneMoves ==
    ASSUME LoadBalancerInv, NEW p \in Process,
           NEW r \in Command, cmd' = [cmd EXCEPT ![p] = r],
           NEW w \in Request \cup {None}, wire' = [wire EXCEPT ![p] = w],
           lb' \in Object \cup {None}, lb = None \/ (lb' # None /\ lb'.spec = lb.spec),
           Well(p)', Creates(p)' => Creates(p) \/ lb = None
    PROVE  LoadBalancerInv'
<1>0. /\ TypeOK /\ \A q \in Process : Well(q)
      /\ \A s, q \in Process : Creates(s) /\ Creates(q) => s = q
    BY InvIsWell
<1>1. TypeOK'
    BY <1>0 DEF TypeOK
<1>2. \A q \in Process : q # p => cmd'[q] = cmd[q] /\ wire'[q] = wire[q]
    BY <1>0 DEF TypeOK
<1>4. \A q \in Process : q # p => Well(q)' /\ (Creates(q)' <=> Creates(q))
    BY <1>0, <1>2, OthersKept
<1>5. lb = None => \A q \in Process : ~Creates(q)
    BY <1>0 DEF Well, OwnIs
<1>6. \A s, q \in Process : Creates(s)' /\ Creates(q)' => s = q
    BY <1>0, <1>4, <1>5
<1> QED BY <1>1, <1>4, <1>6
    DEF LoadBalancerInv, Well, OwnIsAsked, SuccessTellsAWay

(* Nobody moves. *)
LEMMA NobodyMoves ==
    ASSUME LoadBalancerInv, UNCHANGED <<cmd, wire>>, lb' \in Object \cup {None},
           lb = None \/ (lb' # None /\ lb'.spec = lb.spec)
    PROVE  LoadBalancerInv'
<1>0. /\ TypeOK /\ \A q \in Process : Well(q)
      /\ \A s, q \in Process : Creates(s) /\ Creates(q) => s = q
    BY InvIsWell
<1>1. TypeOK'
    BY <1>0 DEF TypeOK
<1>2. \A q \in Process : Well(q)' /\ (Creates(q)' <=> Creates(q))
    BY <1>0, OthersKept
<1> QED BY <1>0, <1>1, <1>2
    DEF LoadBalancerInv, Well, OwnIsAsked, SuccessTellsAWay

(* A load balancer goes, or becomes another one, and nobody means it any more. *)
LEMMA AllForget ==
    ASSUME LoadBalancerInv, lb' \in Object \cup {None}, Forgotten
    PROVE  LoadBalancerInv'
<1>1. ASSUME NEW q \in Process
      PROVE  cmd'[q] \in Command /\ wire'[q] \in Request \cup {None} /\ Well(q)' /\ ~Creates(q)'
    <2>1. /\ cmd[q] \in Command /\ wire[q] \in Request \cup {None}
          /\ PhaseAgrees(q) /\ RequestAgrees(q) /\ TellsAWay(q)
        BY InvIsWell DEF TypeOK, Well
    <2> DEFINE r == [cmd[q] EXCEPT !.same = FALSE]
               w == [wire[q] EXCEPT !.same = FALSE]
    <2>2. /\ r \in Command /\ r.phase = cmd[q].phase /\ r.opts = cmd[q].opts /\ r.same = FALSE
          /\ r.told = cmd[q].told /\ r.yes = cmd[q].yes
        BY <2>1 DEF Command
    <2>3. wire[q] # None =>
             /\ w \in Request /\ w.verb = wire[q].verb /\ w.spec = wire[q].spec /\ w.same = FALSE
             /\ w.asked = wire[q].asked
        BY <2>1 DEF Request
    <2>4. cmd'[q] = r /\ wire'[q] = IF wire[q] = None THEN None ELSE w
        BY DEF Forgotten
    <2> HIDE DEF r, w
    <2>5. PhaseAgrees(q)'
        BY <2>1, <2>2, <2>3, <2>4 DEF PhaseAgrees, At, Open
    <2>6. RequestAgrees(q)'
        BY <2>1, <2>3, <2>4 DEF RequestAgrees, Open
    <2>7. OwnIs(q)' /\ TellsAWay(q)' /\ ~Creates(q)'
        BY <2>1, <2>2, <2>4 DEF OwnIs, TellsAWay, Creates, At
    <2> QED BY <2>2, <2>3, <2>4, <2>5, <2>6, <2>7 DEF Well
<1>2. TypeOK'
    BY <1>1 DEF TypeOK, Forgotten
<1> QED BY <1>1, <1>2
    DEF LoadBalancerInv, Well, OwnIsAsked, SuccessTellsAWay

(* A command that ends leaves everything else. *)
LEMMA EndKeeps ==
    ASSUME LoadBalancerInv, NEW p \in Process, Ends(p), UNCHANGED <<lb, wire>>
    PROVE  LoadBalancerInv'
<1>0. cmd \in [Process -> Command] /\ wire \in [Process -> Request \cup {None}] /\ lb \in Object \cup {None}
      /\ RequestAgrees(p)
    BY InvIsWell DEF TypeOK, Well
<1>1. cmd' = [cmd EXCEPT ![p] = Idle] /\ cmd'[p] = Idle
    BY <1>0 DEF Ends
<1>2. wire' = [wire EXCEPT ![p] = wire[p]]
    BY <1>0
<1>3. PhaseAgrees(p)' /\ OwnIs(p)' /\ TellsAWay(p)' /\ ~Creates(p)'
    BY <1>1, IdleType DEF PhaseAgrees, OwnIs, TellsAWay, Creates, At
<1>4. RequestAgrees(p)'
    BY <1>0 DEF RequestAgrees, Open
<1> QED BY <1>0, <1>1, <1>2, <1>3, <1>4, IdleType, OneMoves DEF Well

(* A command moves, and neither its write nor the load balancer does. *)
LEMMA CommandMoves ==
    ASSUME LoadBalancerInv, NEW p \in Process, UNCHANGED <<lb, wire>>,
           NEW r \in Command, cmd' = [cmd EXCEPT ![p] = r],
           PhaseAgrees(p)' /\ OwnIs(p)' /\ TellsAWay(p)', Creates(p)' => Creates(p)
    PROVE  LoadBalancerInv'
<1>0. wire \in [Process -> Request \cup {None}] /\ lb \in Object \cup {None} /\ RequestAgrees(p)
    BY InvIsWell DEF TypeOK, Well
<1>1. wire' = [wire EXCEPT ![p] = wire[p]]
    BY <1>0
<1>2. RequestAgrees(p)'
    BY <1>0 DEF RequestAgrees, Open
<1> QED BY <1>0, <1>1, <1>2, OneMoves DEF Well

(* Creating keeps the invariant: where there was none, the new load balancer is
   the command's, if it still waits for it, and nobody else's. *)
LEMMA CreateKeeps ==
    ASSUME LoadBalancerInv, NEW p \in Process, Create(p) PROVE LoadBalancerInv'
<1>0. /\ cmd \in [Process -> Command] /\ cmd[p] \in Command /\ PhaseAgrees(p) /\ RequestAgrees(p)
      /\ TellsAWay(p) /\ OwnIs(p)
      /\ wire \in [Process -> Request \cup {None}] /\ lb = None /\ Open(p, "create")
    BY InvIsWell DEF TypeOK, Well, Create
<1>1. wire' = [wire EXCEPT ![p] = None] /\ wire'[p] = None /\ lb' = New(wire[p].spec)
    BY <1>0 DEF Create, Settled
<1>2. PICK g \in Accepted : wire[p].spec = GenerateLoadBalancer(g)
    BY <1>0 DEF RequestAgrees, Generated
<1>3. lb' \in Object /\ lb'.spec = wire[p].spec
    BY <1>1, <1>2, GeneratedType
<1>4. lb' # None
    BY <1>3, LoadBalancerAssumption
<1>5. RequestAgrees(p)'
    BY <1>1 DEF RequestAgrees, Open
<1>6. CASE UNCHANGED cmd
    <2>1. cmd' = [cmd EXCEPT ![p] = cmd[p]]
        BY <1>0, <1>6
    <2>2. PhaseAgrees(p)'
        BY <1>0, <1>1, <1>6 DEF PhaseAgrees, At
    <2>3. OwnIs(p)' /\ TellsAWay(p)' /\ (Creates(p)' <=> Creates(p))
        BY <1>0, <1>6 DEF OwnIs, TellsAWay, Creates, At
    <2> QED BY <1>0, <1>1, <1>3, <1>5, <2>1, <2>2, <2>3, OneMoves DEF Well
<1>7. CASE /\ At(p, "creating")
           /\ cmd' = [cmd EXCEPT
                 ![p].phase = IF cmd[p].opts.wait THEN "waiting" ELSE "output",
                 ![p].told = IF cmd[p].opts.wait THEN None ELSE Told(cmd[p].opts, lb'),
                 ![p].same = cmd[p].opts.wait]
    <2> DEFINE o == cmd[p].opts
               r == [cmd[p] EXCEPT !.phase = IF o.wait THEN "waiting" ELSE "output",
                                   !.told = IF o.wait THEN None ELSE Told(o, lb'),
                                   !.same = o.wait]
    <2>1. o \in Accepted /\ lb'.spec = GenerateLoadBalancer(o)
        BY <1>0, <1>3, <1>7 DEF PhaseAgrees, At, Open
    <2>2. cmd' = [cmd EXCEPT ![p] = r] /\ cmd'[p] = r
        BY <1>0, <1>7
    <2>3. Summary(lb') \in Summaries
        BY DEF Summary, Summaries
    <2>4. /\ o.wait \in BOOLEAN
          /\ o.endpoints \subseteq lb'.spec.addresses \X lb'.spec.ports
        BY <2>1, GeneratedType
    <2>5. /\ r \in Command /\ r.phase = (IF o.wait THEN "waiting" ELSE "output") /\ r.opts = o
          /\ r.same = o.wait /\ r.told = (IF o.wait THEN None ELSE Told(o, lb'))
        BY <1>0, <2>3, <2>4 DEF Command, Phases, Told
    <2>6. o.output = "summary" => Told(o, lb') # None
        BY <2>3, LoadBalancerAssumption DEF Told
    <2> HIDE DEF r
    <2>7. PhaseAgrees(p)' /\ OwnIs(p)' /\ TellsAWay(p)'
        BY <1>1, <1>4, <2>1, <2>2, <2>4, <2>5, <2>6
           DEF PhaseAgrees, OwnIs, TellsAWay, Creates, At
    <2> QED BY <1>0, <1>1, <1>3, <1>5, <2>2, <2>5, <2>7, OneMoves DEF Well
<1> QED BY <1>6, <1>7 DEF Create

(* A deletion marks what is there, whoever it was meant for; a lost one does
   nothing. *)
LEMMA WireKeeps ==
    ASSUME LoadBalancerInv, NEW p \in Process, Delete(p) \/ Lost(p) PROVE LoadBalancerInv'
<1>0. /\ cmd \in [Process -> Command] /\ wire \in [Process -> Request \cup {None}]
      /\ lb \in Object \cup {None} /\ Well(p)
    BY InvIsWell DEF TypeOK
<1>1. /\ wire' = [wire EXCEPT ![p] = None] /\ wire'[p] = None
      /\ UNCHANGED cmd /\ cmd' = [cmd EXCEPT ![p] = cmd[p]]
    BY <1>0 DEF Delete, Lost, Settled
<1>2. lb' \in Object \cup {None} /\ (lb = None \/ (lb' # None /\ lb'.spec = lb.spec))
    <2>1. CASE Delete(p)
        <3>1. lb' \in Object /\ lb'.spec = lb.spec
            BY <1>0, <2>1 DEF Delete, Terminated, Object
        <3> QED BY <3>1, LoadBalancerAssumption
    <2>2. CASE Lost(p)
        BY <1>0, <2>2 DEF Lost
    <2> QED BY <2>1, <2>2
<1>3. RequestAgrees(p)'
    BY <1>1 DEF RequestAgrees, Open
<1>4. PhaseAgrees(p)'
    BY <1>0, <1>1, <1>2 DEF Well, PhaseAgrees, At
<1>5. OwnIs(p)' /\ TellsAWay(p)' /\ (Creates(p)' <=> Creates(p))
    BY <1>0, <1>1, <1>2 DEF Well, OwnIs, TellsAWay, Creates, At
<1> QED BY <1>0, <1>1, <1>2, <1>3, <1>4, <1>5, OneMoves DEF Well

(* A poll that finds the load balancer ready has something to tell. *)
LEMMA PollKeeps ==
    ASSUME LoadBalancerInv, NEW p \in Process, Poll(p) PROVE LoadBalancerInv'
<1>0. /\ cmd \in [Process -> Command] /\ cmd[p] \in Command /\ PhaseAgrees(p)
      /\ cmd[p].phase = "waiting" /\ UNCHANGED <<lb, wire>>
    BY InvIsWell DEF TypeOK, Well, Poll, At
<1>1. CASE lb = None /\ Ends(p)
    BY <1>0, <1>1, EndKeeps
<1>2. CASE /\ lb # None /\ Ready(lb, cmd[p].opts.route)
           /\ cmd' = [cmd EXCEPT ![p].phase = "output",
                                 ![p].told = Told(cmd[p].opts, lb), ![p].same = FALSE]
    <2> DEFINE t == Told(cmd[p].opts, lb)
               r == [cmd[p] EXCEPT !.phase = "output", !.told = t, !.same = FALSE]
    <2>1. Summary(lb) \in Summaries
        BY DEF Summary, Summaries
    <2>2. t \in Summaries \cup {None} /\ (cmd[p].opts.output = "summary" => t = Summary(lb))
        BY <2>1 DEF Told
    <2>3. \/ Summary(lb).url /\ Summary(lb).https /\ Summary(lb).accessible
          \/ Summary(lb).addresses
        BY <1>2 DEF Ready, Summary, Route
    <2>4. Summary(lb) # None
        BY <2>1, LoadBalancerAssumption
    <2> HIDE DEF t
    <2>5. /\ r \in Command /\ r.phase = "output" /\ r.told = t /\ r.same = FALSE
          /\ r.opts = cmd[p].opts
        BY <1>0, <2>2 DEF Command, Phases
    <2>6. cmd'[p] = r /\ cmd' = [cmd EXCEPT ![p] = r]
        BY <1>0, <1>2 DEF t
    <2> HIDE DEF r
    <2>7. PhaseAgrees(p)' /\ OwnIs(p)' /\ TellsAWay(p)' /\ ~Creates(p)'
        BY <1>0, <2>2, <2>3, <2>4, <2>5, <2>6 DEF PhaseAgrees, OwnIs, TellsAWay, Creates, At
    <2> QED BY <1>0, <2>5, <2>6, <2>7, CommandMoves
<1> QED BY <1>1, <1>2 DEF Poll

(* The beginnings of both commands. *)
LEMMA StartKeeps ==
    ASSUME LoadBalancerInv, NEW p \in Process, StartCreate(p) \/ StartDelete(p)
    PROVE  LoadBalancerInv'
<1>0. /\ cmd \in [Process -> Command] /\ wire \in [Process -> Request \cup {None}]
      /\ UNCHANGED lb /\ lb \in Object \cup {None}
    BY InvIsWell DEF TypeOK, StartCreate, StartDelete
<1>1. CASE StartCreate(p)
    <2>1. PICK o \in Accepted :
              /\ cmd' = [cmd EXCEPT ![p] = [Idle EXCEPT !.phase = "creating", !.opts = o]]
              /\ wire' = [wire EXCEPT ![p] =
                    [verb |-> "create", spec |-> GenerateLoadBalancer(o), asked |-> TRUE,
                     warned |-> FALSE, same |-> FALSE]]
        BY <1>1 DEF StartCreate
    <2> DEFINE r == [Idle EXCEPT !.phase = "creating", !.opts = o]
               w == [verb |-> "create", spec |-> GenerateLoadBalancer(o), asked |-> TRUE,
                     warned |-> FALSE, same |-> FALSE]
    <2>2. r \in Command /\ r.phase = "creating" /\ r.opts = o /\ r.same = FALSE
        BY GeneratedType DEF Idle, Command, Phases
    <2>3. /\ w \in Request /\ w.verb = "create" /\ w.spec = GenerateLoadBalancer(o)
          /\ w.same = FALSE
        BY GeneratedType DEF Request
    <2>4. /\ cmd'[p] = r /\ cmd' = [cmd EXCEPT ![p] = r]
          /\ wire'[p] = w /\ wire' = [wire EXCEPT ![p] = w]
        BY <1>0, <2>1
    <2>5. w.spec \in Generated
        BY <2>3 DEF Generated
    <2> HIDE DEF r, w
    <2>6. PhaseAgrees(p)' /\ OwnIs(p)' /\ TellsAWay(p)' /\ ~Creates(p)'
        BY <2>2, <2>3, <2>4 DEF PhaseAgrees, OwnIs, TellsAWay, Creates, At, Open
    <2>7. RequestAgrees(p)'
        BY <2>3, <2>4, <2>5 DEF RequestAgrees, Open
    <2> QED BY <1>0, <2>2, <2>3, <2>4, <2>6, <2>7, OneMoves DEF Well
<1>2. CASE StartDelete(p)
    <2>0. UNCHANGED <<lb, wire>>
        BY <1>2 DEF StartDelete
    <2>1. PICK force \in BOOLEAN :
              cmd' = [cmd EXCEPT ![p] = [Idle EXCEPT !.phase = "getting", !.yes = force]]
        BY <1>2 DEF StartDelete
    <2> DEFINE r == [Idle EXCEPT !.phase = "getting", !.yes = force]
    <2>2. r \in Command /\ r.phase = "getting" /\ r.same = FALSE
        BY DEF Idle, Command, Phases
    <2>3. cmd'[p] = r /\ cmd' = [cmd EXCEPT ![p] = r]
        BY <1>0, <2>1
    <2> HIDE DEF r
    <2>4. PhaseAgrees(p)' /\ OwnIs(p)' /\ TellsAWay(p)' /\ ~Creates(p)'
        BY <2>2, <2>3 DEF PhaseAgrees, OwnIs, TellsAWay, Creates, At
    <2> QED BY <2>0, <2>2, <2>3, <2>4, CommandMoves
<1> QED BY <1>1, <1>2

(* What is shown has the warning it needs. *)
LEMMA GetKeeps ==
    ASSUME LoadBalancerInv, NEW p \in Process, Get(p) PROVE LoadBalancerInv'
<1>0. /\ cmd \in [Process -> Command] /\ cmd[p] \in Command /\ UNCHANGED <<lb, wire>>
      /\ lb \in Object /\ lb # None
    BY InvIsWell DEF TypeOK, Get
<1>1. lb.spec.cli \in BOOLEAN
    BY <1>0 DEF Object, Wanted
<1> DEFINE phase == IF cmd[p].yes THEN "deleting" ELSE "prompt"
           w == ~IsCLIGenerated(lb)
           r == [cmd[p] EXCEPT !.phase = phase, !.warned = w, !.same = TRUE]
<1>2. w \in BOOLEAN /\ w = ~lb.spec.cli
    BY <1>1 DEF IsCLIGenerated
<1>3. /\ r \in Command /\ r.phase = phase /\ r.yes = cmd[p].yes /\ r.warned = w
      /\ r.same = TRUE
    BY <1>0, <1>2 DEF Command, Phases
<1>4. cmd'[p] = r /\ cmd' = [cmd EXCEPT ![p] = r]
    BY <1>0 DEF Get
<1> HIDE DEF r, w
<1>5. PhaseAgrees(p)' /\ OwnIs(p)' /\ TellsAWay(p)' /\ ~Creates(p)'
    BY <1>0, <1>2, <1>3, <1>4 DEF PhaseAgrees, OwnIs, TellsAWay, Creates, At
<1> QED BY <1>0, <1>3, <1>4, <1>5, CommandMoves

(* A confirmation, and the end of the context, change only what they are. *)
LEMMA PromptKeeps ==
    ASSUME LoadBalancerInv, NEW p \in Process, ConfirmDeletion(p) \/ ContextEnds(p)
    PROVE  LoadBalancerInv'
<1>0. /\ cmd \in [Process -> Command] /\ cmd[p] \in Command /\ UNCHANGED <<lb, wire>>
      /\ PhaseAgrees(p) /\ OwnIs(p) /\ TellsAWay(p)
    BY InvIsWell DEF TypeOK, Well, ConfirmDeletion, ContextEnds
<1>1. CASE ConfirmDeletion(p) /\ Ends(p)
    BY <1>0, <1>1, EndKeeps
<1>2. CASE /\ cmd[p].phase = "prompt"
           /\ cmd' = [cmd EXCEPT ![p].phase = "deleting", ![p].yes = TRUE]
    <2> DEFINE r == [cmd[p] EXCEPT !.phase = "deleting", !.yes = TRUE]
    <2>1. /\ r \in Command /\ r.phase = "deleting" /\ r.yes = TRUE /\ r.same = cmd[p].same
          /\ r.warned = cmd[p].warned
        BY <1>0 DEF Command, Phases
    <2>2. cmd'[p] = r /\ cmd' = [cmd EXCEPT ![p] = r]
        BY <1>0, <1>2
    <2> HIDE DEF r
    <2>3. PhaseAgrees(p)' /\ OwnIs(p)' /\ TellsAWay(p)' /\ ~Creates(p)'
        BY <1>0, <1>2, <2>1, <2>2 DEF PhaseAgrees, OwnIs, TellsAWay, Creates, At
    <2> QED BY <1>0, <2>1, <2>2, <2>3, CommandMoves
<1>3. CASE cmd' = [cmd EXCEPT ![p].cancelled = TRUE]
    <2> DEFINE r == [cmd[p] EXCEPT !.cancelled = TRUE]
    <2>1. /\ r \in Command /\ r.phase = cmd[p].phase /\ r.yes = cmd[p].yes
          /\ r.same = cmd[p].same /\ r.warned = cmd[p].warned
          /\ r.opts = cmd[p].opts /\ r.told = cmd[p].told
        BY <1>0 DEF Command
    <2>2. cmd'[p] = r /\ cmd' = [cmd EXCEPT ![p] = r]
        BY <1>0, <1>3
    <2> HIDE DEF r
    <2>3. PhaseAgrees(p)'
        BY <1>0, <2>1, <2>2 DEF PhaseAgrees, At, Open
    <2>4. OwnIs(p)' /\ TellsAWay(p)' /\ (Creates(p)' <=> Creates(p))
        BY <1>0, <2>1, <2>2 DEF OwnIs, TellsAWay, Creates, At
    <2> QED BY <1>0, <2>1, <2>2, <2>3, <2>4, CommandMoves
<1> QED BY <1>1, <1>2, <1>3 DEF ConfirmDeletion, ContextEnds, At

(* A DELETE goes out with what its command knows: that it was confirmed, that the
   context has not ended, and what its user was told. *)
LEMMA SendKeeps ==
    ASSUME LoadBalancerInv, NEW p \in Process, SendDelete(p) PROVE LoadBalancerInv'
<1>0. /\ cmd \in [Process -> Command] /\ cmd[p] \in Command /\ PhaseAgrees(p)
      /\ wire \in [Process -> Request \cup {None}] /\ UNCHANGED lb /\ lb \in Object \cup {None}
      /\ cmd[p].phase = "deleting" /\ ~cmd[p].cancelled
    BY InvIsWell DEF TypeOK, Well, SendDelete, At
<1> DEFINE r == [Idle EXCEPT !.phase = "sent"]
           w == Deletion(p)
<1>1. r \in Command /\ r.phase = "sent" /\ r.same = FALSE
    BY DEF Idle, Command, Phases
<1>2. /\ w.verb = "delete" /\ w.asked = (~cmd[p].cancelled /\ cmd[p].yes)
      /\ w.same = cmd[p].same /\ w.warned = cmd[p].warned
    BY DEF Deletion
<1>3. w \in Request
    BY <1>0 DEF Deletion, Request, Command
<1>4. /\ cmd' = [cmd EXCEPT ![p] = r] /\ cmd'[p] = r
      /\ wire' = [wire EXCEPT ![p] = w] /\ wire'[p] = w
    BY <1>0 DEF SendDelete
<1> HIDE DEF r, w
<1>5. PhaseAgrees(p)' /\ OwnIs(p)' /\ TellsAWay(p)' /\ ~Creates(p)'
    BY <1>1, <1>4 DEF PhaseAgrees, OwnIs, TellsAWay, Creates, At
<1>6. cmd[p].yes /\ (cmd[p].same => lb # None /\ cmd[p].warned = ~lb.spec.cli)
    BY <1>0 DEF PhaseAgrees, At
<1>7. RequestAgrees(p)'
    BY <1>0, <1>2, <1>4, <1>6 DEF RequestAgrees, Open
<1> QED BY <1>0, <1>1, <1>3, <1>4, <1>5, <1>7, OneMoves DEF Well

(* Calls that end their command. *)
LEMMA EndsKeep ==
    ASSUME LoadBalancerInv, NEW p \in Process,
           CreateFails(p) \/ WaitEnds(p) \/ Output(p) \/ GetFails(p) \/ DeleteReturns(p)
    PROVE  LoadBalancerInv'
<1>1. Ends(p) /\ UNCHANGED <<lb, wire>>
    BY DEF CreateFails, WaitEnds, Output, GetFails, DeleteReturns
<1> QED BY <1>1, EndKeeps

(* Another user's load balancer is well formed too. *)
LEMMA OthersType ==
    ASSUME NEW w \in Generated, NEW cli \in BOOLEAN
    PROVE  [w EXCEPT !.cli = cli] \in Wanted
<1>1. w \in Wanted
    BY GeneratedType DEF Generated
<1> QED BY <1>1 DEF Wanted

(* The controller and other users. *)
LEMMA OthersKeep ==
    ASSUME LoadBalancerInv,
           Serves \/ Degrades \/ Finalizes \/ OtherCreates \/ OtherEdits \/ OtherDeletes
    PROVE  LoadBalancerInv'
<1>0. lb \in Object \cup {None} /\ None \notin Object
    BY LoadBalancerAssumption DEF LoadBalancerInv, TypeOK
<1>1. CASE Serves
    <2>1. PICK s \in Asked(lb) : lb' = [lb EXCEPT !.status = lb.status \cup {s}]
        BY <1>1 DEF Serves
    <2>2. lb \in Object /\ lb # None /\ s \in Items
        BY <1>0, <1>1 DEF Serves, Asked, Items
    <2>3. lb' \in Object /\ lb'.spec = lb.spec
        BY <2>1, <2>2 DEF Object
    <2> QED BY <1>0, <1>1, <2>3, NobodyMoves DEF Serves
<1>2. CASE Degrades
    <2>1. PICK S : lb' = [lb EXCEPT !.status = lb.status \ S]
        BY <1>2 DEF Degrades
    <2>2. lb \in Object /\ lb # None
        BY <1>0, <1>2 DEF Degrades
    <2>3. lb' \in Object /\ lb'.spec = lb.spec
        BY <2>1, <2>2 DEF Object
    <2> QED BY <1>0, <1>2, <2>3, NobodyMoves DEF Degrades
<1>3. CASE Finalizes
    BY <1>3, AllForget DEF Finalizes
<1>4. CASE OtherCreates
    <2>1. PICK w \in Generated : lb' = New([w EXCEPT !.cli = FALSE])
        BY <1>4 DEF OtherCreates
    <2>2. lb' \in Object
        BY <2>1, OthersType DEF New, Object
    <2> QED BY <1>4, <2>2, NobodyMoves DEF OtherCreates
<1>5. CASE OtherEdits
    <2>1. PICK w \in Generated, cli \in {lb.spec.cli, FALSE} :
              lb' = [lb EXCEPT !.spec = [w EXCEPT !.cli = cli]]
        BY <1>5 DEF OtherEdits
    <2>2. lb \in Object
        BY <1>0, <1>5 DEF OtherEdits
    <2>3. cli \in BOOLEAN
        BY <2>2 DEF Object, Wanted
    <2>4. lb' \in Object
        BY <2>1, <2>2, <2>3, OthersType DEF Object
    <2> QED BY <1>5, <2>4, AllForget DEF OtherEdits
<1>6. CASE OtherDeletes
    <2>1. lb \in Object /\ lb # None /\ lb' = [lb EXCEPT !.terminating = TRUE]
        BY <1>0, <1>6 DEF OtherDeletes, Terminated
    <2>2. lb' \in Object /\ lb'.spec = lb.spec
        BY <2>1 DEF Object
    <2> QED BY <1>0, <1>6, <2>2, NobodyMoves DEF OtherDeletes
<1> QED BY <1>1, <1>2, <1>3, <1>4, <1>5, <1>6

(* There is none at first. *)
LEMMA LoadBalancerStarts == Init => LoadBalancerInv
<1> SUFFICES ASSUME Init PROVE LoadBalancerInv
    OBVIOUS
<1>1. TypeOK
    BY IdleType DEF Init, TypeOK
<1>2. \A q \in Process : cmd[q].phase = "idle" /\ cmd[q].same = FALSE /\ wire[q] = None
    BY IdleType DEF Init
<1>3. \A q \in Process : Well(q) /\ ~Creates(q)
    BY <1>2 DEF Well, PhaseAgrees, RequestAgrees, OwnIs, TellsAWay, Creates, At, Open
<1> QED BY <1>1, <1>3, InvIsWell

(* Every step keeps the invariant. *)
LEMMA StepKeeps == LoadBalancerInv /\ [Next]_lvars => LoadBalancerInv'
<1> SUFFICES ASSUME LoadBalancerInv, [Next]_lvars PROVE LoadBalancerInv'
    OBVIOUS
<1>1. ASSUME NEW p \in Process, StartCreate(p) \/ StartDelete(p) PROVE LoadBalancerInv'
    BY <1>1, StartKeeps
<1>2. ASSUME NEW p \in Process, CommandStep(p) \/ WaitEnds(p) \/ WireStep(p)
      PROVE  LoadBalancerInv'
    BY <1>2, CreateKeeps, WireKeeps, PollKeeps, GetKeeps, SendKeeps, EndsKeep
       DEF CommandStep, WireStep
<1>3. ASSUME NEW p \in Process, ConfirmDeletion(p) \/ ContextEnds(p) PROVE LoadBalancerInv'
    BY <1>3, PromptKeeps
<1>4. CASE Serves \/ Degrades \/ Finalizes \/ OtherCreates \/ OtherEdits \/ OtherDeletes
    BY <1>4, OthersKeep
<1>5. CASE UNCHANGED lvars
    <2>1. lb' = lb /\ UNCHANGED <<cmd, wire>> /\ lb \in Object \cup {None}
        BY <1>5 DEF lvars, LoadBalancerInv, TypeOK
    <2> QED BY <2>1, NobodyMoves
<1> QED BY <1>1, <1>2, <1>3, <1>4, <1>5 DEF Next

(* The invariant of create and delete: types, what a command has in each phase,
   whose load balancer it means (internal/loadbalancer/create.go and delete.go). *)
THEOREM LoadBalancerInvariance == Spec => []LoadBalancerInv
BY LoadBalancerStarts, StepKeeps, PTL DEF Spec

(* A create command waits for what it was asked for, which leads to all of its
   endpoints, and no two commands have created the same load balancer. *)
THEOREM OwnLoadBalancer == Spec => []OwnIsAsked
<1>1. LoadBalancerInv => OwnIsAsked
    BY DEF LoadBalancerInv
<1> QED BY <1>1, LoadBalancerInvariance, PTL

(* The summary of a create command that has waited says how the application is
   reached; `-o yaml` prints another object (outputYAML). *)
THEOREM ToldAWay == Spec => []SuccessTellsAWay
<1>1. LoadBalancerInv => SuccessTellsAWay
    BY DEF LoadBalancerInv
<1> QED BY <1>1, LoadBalancerInvariance, PTL

(* Whenever a load balancer is deleted by the CLI, however late, the deletion was
   confirmed and sent before an interrupt or the deadline, with the warning that
   what was shown called for. *)
THEOREM DeletionsInformed == Spec => InformedDeletion
<1>1. ASSUME LoadBalancerInv, NEW p \in Process, Takes(p) PROVE Informed(p)
    <2>1. RequestAgrees(p) /\ Open(p, "delete")
        BY <1>1, InvIsWell DEF Well, Takes
    <2> QED BY <2>1 DEF RequestAgrees, Informed
<1>2. LoadBalancerInv /\ [Next]_lvars => [\A p \in Process : Takes(p) => Informed(p)]_lvars
    BY <1>1
<1> QED BY <1>2, LoadBalancerInvariance, PTL DEF Spec, InformedDeletion

(* No DELETE is sent by a command that has been interrupted or is out of time, or
   that was neither forced nor answered with a yes (delete.go:69-77); one that was
   sent before may still be carried out. *)
THEOREM NoLateDeletion ==
    Spec => [][\A p \in Process :
                  ~Open(p, "delete") /\ Open(p, "delete")' => ~cmd[p].cancelled /\ cmd[p].yes]_lvars
<1>1. ASSUME LoadBalancerInv, [Next]_lvars, NEW p \in Process,
             ~Open(p, "delete"), Open(p, "delete")'
      PROVE  ~cmd[p].cancelled /\ cmd[p].yes
    <2>0. wire \in [Process -> Request \cup {None}] /\ PhaseAgrees(p)
        BY <1>1, InvIsWell DEF TypeOK, Well
    <2>1. wire'[p] # wire[p] /\ wire'[p] # None
        BY <1>1 DEF Open
    <2>2. ASSUME NEW q \in Process, Settled(q) PROVE FALSE
        BY <2>0, <2>1, <2>2 DEF Settled
    <2>3. ASSUME Forgotten PROVE FALSE
        <3>1. wire[p] # None /\ wire'[p].verb = wire[p].verb
            BY <2>0, <2>1, <2>3 DEF Forgotten, Request
        <3> QED BY <1>1, <3>1 DEF Open
    <2>4. ASSUME NEW q \in Process, StartCreate(q) PROVE FALSE
        <3>1. wire'[p] = wire[p] \/ wire'[p].verb = "create"
            BY <2>0, <2>4 DEF StartCreate
        <3> QED BY <1>1, <2>1, <3>1 DEF Open
    <2>5. PICK q \in Process : SendDelete(q)
        <3>1. CASE Next
            <4>1. ASSUME NEW q \in Process,
                         StartDelete(q) \/ CommandStep(q) \/ WaitEnds(q) \/ ConfirmDeletion(q)
                         \/ ContextEnds(q)
                  PROVE  SendDelete(q) \/ UNCHANGED wire
                BY <4>1
                   DEF CommandStep, StartDelete, CreateFails, Output, Poll, WaitEnds, Get,
                       GetFails, DeleteReturns, ConfirmDeletion, ContextEnds
            <4>2. ASSUME NEW q \in Process, WireStep(q) PROVE FALSE
                BY <2>2, <4>2 DEF WireStep, Create, Delete, Lost
            <4>3. ASSUME Serves \/ Degrades \/ Finalizes \/ OtherCreates \/ OtherEdits
                         \/ OtherDeletes
                  PROVE  UNCHANGED wire
                BY <2>3, <4>3
                   DEF Serves, Degrades, Finalizes, OtherCreates, OtherEdits, OtherDeletes
            <4> QED BY <2>1, <2>4, <3>1, <4>1, <4>2, <4>3 DEF Next
        <3>2. CASE UNCHANGED lvars
            BY <2>1, <3>2 DEF lvars
        <3> QED BY <1>1, <3>1, <3>2
    <2>6. q = p
        BY <2>0, <2>1, <2>5 DEF SendDelete
    <2> QED BY <2>0, <2>5, <2>6 DEF SendDelete, PhaseAgrees, At
<1>2. LoadBalancerInv /\ [Next]_lvars =>
          [\A p \in Process :
              ~Open(p, "delete") /\ Open(p, "delete")' => ~cmd[p].cancelled /\ cmd[p].yes]_lvars
    BY <1>1
<1> QED BY <1>2, LoadBalancerInvariance, PTL DEF Spec

(* Addresses and ports are collected apart, so that a load balancer leads to every
   address at every port: to the endpoints that were given and to no other exactly
   where those are all pairs of an address and a port of theirs (parseEndpoints). *)
THEOREM EndpointsExact ==
    ASSUME NEW A, NEW B, NEW E \in SUBSET (A \X B)
    PROVE  ParseEndpoints(E).addresses \X ParseEndpoints(E).ports = E
              <=> \A e, f \in E : <<e[1], f[2]>> \in E
<1> DEFINE Led == {e[1] : e \in E} \X {f[2] : f \in E}
<1>1. ParseEndpoints(E).addresses \X ParseEndpoints(E).ports = Led
    BY DEF ParseEndpoints
<1>2. E \subseteq Led
    OBVIOUS
<1>3. Led \subseteq E <=> \A e, f \in E : <<e[1], f[2]>> \in E
    OBVIOUS
<1> HIDE DEF Led
<1> QED BY <1>1, <1>2, <1>3

(* What create waits for is what it asks the controller for: a load balancer that
   has been served all it asks for is ready, if it asks for a route or is of type
   LoadBalancer; one of type ClusterIP without a route is never ready, whatever it
   is served (waitForLoadBalancer against generateLoadBalancer). *)
THEOREM ReadyIsServed ==
    ASSUME NEW o \in Accepted, NEW object \in Object, object.spec = GenerateLoadBalancer(o)
    PROVE  IF o.route \/ o.type = "LoadBalancer"
             THEN Asked(object) \subseteq object.status => Ready(object, o.route)
             ELSE ~Ready(object, o.route)
<1>1. o.route \in BOOLEAN
    BY LoadBalancerAssumption DEF Accepted, CreateOptions
<1>2. object.spec.type = o.type
    BY DEF GenerateLoadBalancer
<1>3. o.route => object.spec.asks # "nothing"
    BY DEF GenerateLoadBalancer
<1> QED BY <1>1, <1>2, <1>3 DEF Asked, Ready

(* Without a route and with type ClusterIP, `create --wait` has nothing to wait for:
   no poll of the load balancer it created ends its wait with a success, only others
   who edit or remove the load balancer, a failing call, Ctrl+C or the deadline. *)
THEOREM WaitsInVain ==
    Spec => [][\A p \in Process :
                  Creates(p) /\ ~cmd[p].opts.route /\ cmd[p].opts.type = "ClusterIP" =>
                      ~At(p, "output")']_lvars
<1>1. ASSUME LoadBalancerInv, Next, NEW p \in Process,
             Creates(p), ~cmd[p].opts.route, cmd[p].opts.type = "ClusterIP"
      PROVE  ~At(p, "output")'
    <2>1. /\ cmd \in [Process -> Command] /\ cmd[p].phase = "waiting"
          /\ cmd[p].opts \in Accepted
        BY <1>1 DEF LoadBalancerInv, TypeOK, Creates, At, PhaseAgrees
    <2>2. lb # None /\ lb \in Object /\ lb.spec = GenerateLoadBalancer(cmd[p].opts)
        BY <1>1 DEF LoadBalancerInv, TypeOK, OwnIsAsked, OwnIs
    <2>3. ~Ready(lb, cmd[p].opts.route)
        BY <1>1, <2>1, <2>2, ReadyIsServed
    <2>4. ASSUME NEW q \in Process, q # p, NEW r, cmd' = [cmd EXCEPT ![q] = r]
          PROVE  ~At(p, "output")'
        <3>1. cmd'[p] = cmd[p]
            BY <2>1, <2>4
        <3> QED BY <2>1, <3>1 DEF At
    <2>5. ASSUME Ends(p) PROVE ~At(p, "output")'
        BY <2>1, <2>5 DEF Ends, Idle, At
    <2>6. CASE Forgotten
        <3>1. cmd[p] \in Command /\ cmd'[p] = [cmd[p] EXCEPT !.same = FALSE]
            BY <2>1, <2>6 DEF Forgotten
        <3> QED BY <2>1, <3>1 DEF Command, At
    <2>7. CASE cmd' = cmd
        BY <2>1, <2>7 DEF At
    <2>8. CASE Serves \/ Degrades \/ Finalizes \/ OtherCreates \/ OtherEdits \/ OtherDeletes
        BY <2>6, <2>7, <2>8
           DEF Serves, Degrades, Finalizes, OtherCreates, OtherEdits, OtherDeletes
    <2>9. ASSUME NEW q \in Process, q # p,
                 \/ StartCreate(q) \/ StartDelete(q) \/ CommandStep(q) \/ WaitEnds(q)
                 \/ ConfirmDeletion(q) \/ ContextEnds(q) \/ WireStep(q)
          PROVE  ~At(p, "output")'
        <3>1. CASE StartCreate(q) \/ StartDelete(q)
            BY <2>4, <2>9, <3>1 DEF StartCreate, StartDelete
        <3>2. CASE Create(q) /\ cmd' # cmd
            <4>1. cmd'[p] = cmd[p]
                BY <2>1, <2>9, <3>2 DEF Create
            <4> QED BY <2>1, <4>1 DEF At
        <3>3. CASE Poll(q)
            <4>1. cmd'[p] = cmd[p]
                BY <2>1, <2>9, <3>3 DEF Poll, Ends
            <4> QED BY <2>1, <4>1 DEF At
        <3>4. CASE Get(q)
            <4>1. cmd'[p] = cmd[p]
                BY <2>1, <2>9, <3>4 DEF Get
            <4> QED BY <2>1, <4>1 DEF At
        <3>5. CASE Ends(q)
            BY <2>4, <2>9, <3>5 DEF Ends
        <3>6. CASE ConfirmDeletion(q) \/ ContextEnds(q)
            BY <2>4, <2>9, <3>6 DEF ConfirmDeletion, ContextEnds, Ends
        <3>7. CASE SendDelete(q)
            BY <2>4, <2>9, <3>7 DEF SendDelete
        <3>8. CASE WireStep(q) /\ ~(Create(q) /\ cmd' # cmd)
            BY <2>7, <3>8 DEF WireStep, Create, Delete, Lost
        <3> QED BY <2>9, <3>1, <3>2, <3>3, <3>4, <3>5, <3>6, <3>7, <3>8
                DEF CommandStep, CreateFails, Output, WaitEnds, GetFails, DeleteReturns, WireStep
    <2>10. CASE Poll(p) \/ WaitEnds(p)
        BY <2>2, <2>3, <2>5, <2>10 DEF Poll, WaitEnds
    <2>11. CASE ContextEnds(p)
        BY <2>1, <2>11 DEF ContextEnds, Command, At
    <2>12. CASE WireStep(p)
        BY <2>1, <2>7, <2>12 DEF WireStep, Create, Delete, Lost, At
    <2>13. \/ Poll(p) \/ WaitEnds(p) \/ ContextEnds(p) \/ WireStep(p)
           \/ \E q \in Process \ {p} :
                 \/ StartCreate(q) \/ StartDelete(q) \/ CommandStep(q) \/ WaitEnds(q)
                 \/ ConfirmDeletion(q) \/ ContextEnds(q) \/ WireStep(q)
           \/ Serves \/ Degrades \/ Finalizes \/ OtherCreates \/ OtherEdits \/ OtherDeletes
        BY <1>1, <2>1
           DEF Next, CommandStep, StartCreate, StartDelete, CreateFails, Output,
               Get, GetFails, SendDelete, DeleteReturns, ConfirmDeletion, At
    <2> QED BY <2>8, <2>9, <2>10, <2>11, <2>12, <2>13
<1>2. LoadBalancerInv /\ [Next]_lvars =>
          [\A p \in Process :
              Creates(p) /\ ~cmd[p].opts.route /\ cmd[p].opts.type = "ClusterIP" =>
                  ~At(p, "output")']_lvars
    BY <1>1
<1> QED BY <1>2, LoadBalancerInvariance, PTL DEF Spec
================================================================================
