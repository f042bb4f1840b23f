--------------------------- MODULE IngressConvert ----------------------------
(***************************************************************************)
(* Convert of internal/ingress/convert.go and applyGateway of gateway.go,  *)
(* run by any number of converters at once: `kubelb ingress convert` and   *)
(* the convert handlers of the dashboard call the same function.           *)
(*                                                                         *)
(* A run reads its Ingresses, merges the TLS listeners of all of them into *)
(* one Gateway, then takes Ingress after Ingress: it writes the routes and *)
(* policies, waits for the routes to be accepted unless it was told not    *)
(* to, and annotates the Ingress with the outcome.  It may fail at any     *)
(* call and be cut off anywhere.                                           *)
(*                                                                         *)
(* The API server refuses an Update of a version that is not the current   *)
(* one.  Versions are never compared otherwise, so `known` says of each    *)
(* object only whether the version a converter holds is still current:     *)
(* every write takes that from all the others.                             *)
(*                                                                         *)
(* Sets stand for the lists of names, routes and policies: their order is  *)
(* the user's or the library's, and any order is allowed.                  *)
(***************************************************************************)
EXTENDS Naturals

CONSTANTS
    Ingress,       \* the Ingresses, by namespace and name
    Content,       \* what users write into an Ingress: rules, TLS, annotations
    None,          \* no object, or nothing at hand
    Routes,        \* the routes an Ingress may need, by name
    Policies,      \* the policies an Ingress may need, by name
    Listener,      \* TLS listeners
    PartsOf,       \* the routes and policies that a content needs
    ListenersOf,   \* the listeners that a content needs
    Skipped,       \* contents that are not to be converted
    Warned,        \* contents whose conversion gives warnings
    Converter,     \* the processes that call Convert
    Polling        \* {TRUE} if all runs poll for acceptance, {FALSE} if none

Parts == Routes \cup Policies

ASSUME ConversionAssumption ==
    /\ None \notin Content \cup Ingress \cup Parts
    /\ Routes \cap Policies = {}
    /\ PartsOf \in [Content -> SUBSET Parts]
    /\ ListenersOf \in [Content -> SUBSET Listener]
    /\ Skipped \subseteq Content
    /\ Warned \subseteq Content
    /\ Polling \subseteq BOOLEAN

VARIABLES
    content,     \* the user's part of each Ingress
    status,      \* its annotation AnnotationConversionStatus, "new" without one
    gateway,     \* whether the Gateway exists
    listeners,   \* the listeners in it
    lost,        \* those that went with a deleted Gateway and are not back: a ghost
    secrets,     \* the listeners whose secret was copied beside the Gateway
    object,      \* the content each route and policy was made from
    accepted,    \* the content for which a route's Accepted condition was set
    run,         \* the run of each converter, see Runs
    known        \* the objects of which it holds the current version

cluster == <<content, status, gateway, listeners, lost, secrets, object, accepted>>
ivars   == <<cluster, run, known>>

Contents == Content \cup {None}
PartIds  == Ingress \X Parts
RouteIds == Ingress \X Routes

Statuses == {"converted", "partial", "pending"}

(* "read" is convertIngresses, "gateway..." applyGateway, "secrets"
   copyTLSSecrets; "next", "parts", "part...", "poll" and "annotate" are the
   loop of applyRoutesAndPolicies. *)
Phases == {"idle", "read", "gateway", "gatewayCreate", "gatewayUpdate", "secrets",
           "next", "parts", "partCreate", "partUpdate", "poll", "annotate", "done"}

Runs ==
    [pc        : Phases,
     polls     : BOOLEAN,                   \* not SkipAcceptancePolling
     todo      : SUBSET Ingress,            \* names still to be read
     snap      : [Ingress -> Contents],     \* conversions: each Ingress as read
     merge     : SUBSET Listener,           \* the Gateway's listeners as read
     queue     : SUBSET Ingress,            \* conversions still to be applied
     current   : Ingress \cup {None},       \* the one at hand
     left      : SUBSET Parts,              \* its parts still to be applied
     part      : Parts \cup {None},         \* the part at hand
     round     : SUBSET Routes,             \* routes accepted in this round
     ok        : BOOLEAN,                   \* what pollRouteAcceptance returned
     applied   : SUBSET PartIds,            \* parts reported as applied
     failed    : SUBSET Ingress,            \* result.Failed
     converted : SUBSET Ingress]            \* result.Converted

IdleRun ==
    [pc |-> "idle", polls |-> FALSE, todo |-> {}, snap |-> [i \in Ingress |-> None],
     merge |-> {}, queue |-> {}, current |-> None, left |-> {}, part |-> None,
     round |-> {}, ok |-> TRUE, applied |-> {}, failed |-> {}, converted |-> {}]

Versions == [ingress : SUBSET Ingress, gateway : BOOLEAN, parts : SUBSET PartIds]

NothingKnown == [ingress |-> {}, gateway |-> FALSE, parts |-> {}]

TypeOK ==
    /\ content \in [Ingress -> Contents]
    /\ status \in [Ingress -> Statuses \cup {"new"}]
    /\ gateway \in BOOLEAN
    /\ listeners \in SUBSET Listener
    /\ lost \in SUBSET Listener
    /\ secrets \in SUBSET Listener
    /\ object \in [PartIds -> Contents]
    /\ accepted \in [RouteIds -> Contents]
    /\ run \in [Converter -> Runs]
    /\ known \in [Converter -> Versions]

Init ==
    /\ content \in [Ingress -> Contents]
    /\ status = [i \in Ingress |-> "new"]
    /\ gateway = FALSE
    /\ listeners = {}
    /\ lost = {}
    /\ secrets = {}
    /\ object = [x \in PartIds |-> None]
    /\ accepted = [x \in RouteIds |-> None]
    /\ run = [c \in Converter |-> IdleRun]
    /\ known = [c \in Converter |-> NothingKnown]

At(c, phase) == run[c].pc = phase

(* What a run has read of an Ingress, and the Ingresses it converts. *)
Snap(c, i)     == run[c].snap[i]
Conversions(c) == {i \in Ingress : Snap(c, i) # None}

(* The listeners a run wants: allTLSListeners. *)
Desired(c) == UNION {ListenersOf[Snap(c, i)] : i \in Conversions(c)}

Id(c)        == <<run[c].current, run[c].part>>
RoutesAt(c)  == PartsOf[Snap(c, run[c].current)] \cap Routes

(* The versions known after a write.  Of a part that a converter in W wrote it
   knows the new one, for it may come to write it again; of the Ingress and the
   Gateway no run uses the new version. *)
AfterIngressWrite(i) == [c \in Converter |-> [known[c] EXCEPT !.ingress = @ \ {i}]]

AfterGatewayWrite == [c \in Converter |-> [known[c] EXCEPT !.gateway = FALSE]]

AfterPartWrite(x, W) ==
    [c \in Converter |-> [known[c] EXCEPT
        !.parts = IF c \in W THEN @ \cup {x} ELSE @ \ {x}]]

-----------------------------------------------------------------------------
(* Phase 1: buildIngressList and convertIngresses. *)

(* A command or a request starts a run on the Ingresses it names or lists. *)
Start(c) ==
    /\ At(c, "idle")
    /\ \E names \in (SUBSET Ingress) \ {{}}, polls \in Polling :
          run' = [run EXCEPT ![c].pc = "read", ![c].todo = names, ![c].polls = polls]
    /\ UNCHANGED <<cluster, known>>

(* The Ingress is gone, or it or its services cannot be fetched. *)
ReadFails(c, i) ==
    /\ At(c, "read")
    /\ i \in run[c].todo
    /\ run' = [run EXCEPT ![c].todo = @ \ {i}, ![c].failed = @ \cup {i}]
    /\ UNCHANGED <<cluster, known>>

(* ShouldSkip, or another ingress class. *)
ReadSkips(c, i) ==
    /\ At(c, "read")
    /\ i \in run[c].todo
    /\ content[i] \in Skipped
    /\ run' = [run EXCEPT ![c].todo = @ \ {i}]
    /\ UNCHANGED <<cluster, known>>

ReadConverts(c, i) ==
    /\ At(c, "read")
    /\ i \in run[c].todo
    /\ content[i] \in Content \ Skipped
    /\ run' = [run EXCEPT ![c].todo = @ \ {i}, ![c].snap[i] = content[i]]
    /\ known' = [known EXCEPT ![c].ingress = @ \cup {i}]
    /\ UNCHANGED cluster

(* Mutant: the routes are applied before the Gateway. *)
MutSkipsGateway(c) ==
    /\ At(c, "read")
    /\ run[c].todo = {}
    /\ run' = [run EXCEPT ![c].pc = IF Conversions(c) = {} THEN "done" ELSE "next",
                          ![c].queue = Conversions(c)]
    /\ UNCHANGED <<cluster, known>>

(* Without a conversion the Gateway is left alone. *)
ReadDone(c) ==
    /\ At(c, "read")
    /\ run[c].todo = {}
    /\ run' = [run EXCEPT ![c].pc = IF Conversions(c) = {} THEN "done" ELSE "gateway",
                          ![c].queue = Conversions(c)]
    /\ UNCHANGED <<cluster, known>>

-----------------------------------------------------------------------------
(* Phase 2: applyGatewayAndSecrets. *)

GatewayMissing(c) ==
    /\ At(c, "gateway")
    /\ ~gateway
    /\ run' = [run EXCEPT ![c].pc = "gatewayCreate"]
    /\ UNCHANGED <<cluster, known>>

GatewayRead(c) ==
    /\ At(c, "gateway")
    /\ gateway
    /\ run' = [run EXCEPT ![c].pc = "gatewayUpdate", ![c].merge = listeners]
    /\ known' = [known EXCEPT ![c].gateway = TRUE]
    /\ UNCHANGED cluster

(* Mutant: the error of applyGateway is only a warning. *)
MutIgnoresGateway(c) ==
    /\ run[c].pc \in {"gateway", "gatewayCreate", "gatewayUpdate"}
    /\ run' = [run EXCEPT ![c].pc = "secrets", ![c].merge = {}]
    /\ known' = [known EXCEPT ![c].gateway = FALSE]
    /\ UNCHANGED cluster

(* The namespace is missing, a call fails, the Gateway was created by somebody
   else or changed since it was read: Convert returns the error. *)
GatewayFails(c) ==
    /\ run[c].pc \in {"gateway", "gatewayCreate", "gatewayUpdate"}
    /\ run' = [run EXCEPT ![c].pc = "done", ![c].merge = {}, ![c].queue = {}]
    /\ known' = [known EXCEPT ![c].gateway = FALSE]
    /\ UNCHANGED cluster

(* The run after a write of the Gateway: one that never hears of its success takes
   it for a failure. *)
GatewayAnswered(c) ==
    \/ run' = [run EXCEPT ![c].pc = "secrets", ![c].merge = {}]
    \/ run' = [run EXCEPT ![c].pc = "done", ![c].merge = {}, ![c].queue = {}]

GatewayCreated(c) ==
    /\ At(c, "gatewayCreate")
    /\ ~gateway
    /\ gateway' = TRUE
    /\ listeners' = Desired(c)
    /\ lost' = lost \ Desired(c)
    /\ GatewayAnswered(c)
    /\ known' = AfterGatewayWrite
    /\ UNCHANGED <<content, status, secrets, object, accepted>>

(* Mutant: the Update carries no version, so that it never conflicts. *)
MutBlindMerge(c) ==
    /\ At(c, "gatewayUpdate")
    /\ listeners' = run[c].merge \cup Desired(c)
    /\ lost' = lost \ listeners'
    /\ GatewayAnswered(c)
    /\ known' = AfterGatewayWrite
    /\ UNCHANGED <<content, status, gateway, secrets, object, accepted>>

(* MergeListeners: those that were read and those that are wanted. *)
GatewayUpdated(c) ==
    /\ At(c, "gatewayUpdate")
    /\ known[c].gateway
    /\ listeners' = run[c].merge \cup Desired(c)
    /\ lost' = lost \ listeners'
    /\ GatewayAnswered(c)
    /\ known' = AfterGatewayWrite
    /\ UNCHANGED <<content, status, gateway, secrets, object, accepted>>

(* The copies that are made: copying may be switched off, and a copy that fails
   is a warning. *)
CopySecrets(c) ==
    /\ At(c, "secrets")
    /\ \E copied \in SUBSET Desired(c) : secrets' = secrets \cup copied
    /\ run' = [run EXCEPT ![c].pc = "next"]
    /\ UNCHANGED <<content, status, gateway, listeners, lost, object, accepted, known>>

-----------------------------------------------------------------------------
(* Phase 3: applyRoutesAndPolicies. *)

NextIngress(c, i) ==
    /\ At(c, "next")
    /\ i \in run[c].queue
    /\ run' = [run EXCEPT ![c].pc = "parts", ![c].current = i, ![c].queue = @ \ {i},
                          ![c].left = PartsOf[Snap(c, i)]]
    /\ UNCHANGED <<cluster, known>>

AllApplied(c) ==
    /\ At(c, "next")
    /\ run[c].queue = {}
    /\ run' = [run EXCEPT ![c].pc = "done"]
    /\ UNCHANGED <<cluster, known>>

(* Routes come before policies. *)
IsNextPart(c, p) ==
    /\ At(c, "parts")
    /\ p \in run[c].left
    /\ p \in Policies => run[c].left \cap Routes = {}

(* Mutant: a part that is there is taken for done. *)
MutPartRead(c, p) ==
    /\ IsNextPart(c, p)
    /\ object[<<run[c].current, p>>] # None
    /\ run' = [run EXCEPT ![c].left = @ \ {p},
                          ![c].applied = @ \cup {<<run[c].current, p>>}]
    /\ UNCHANGED <<cluster, known>>

PartMissing(c, p) ==
    /\ IsNextPart(c, p)
    /\ object[<<run[c].current, p>>] = None
    /\ run' = [run EXCEPT ![c].pc = "partCreate", ![c].part = p]
    /\ UNCHANGED <<cluster, known>>

PartRead(c, p) ==
    /\ IsNextPart(c, p)
    /\ object[<<run[c].current, p>>] # None
    /\ run' = [run EXCEPT ![c].pc = "partUpdate", ![c].part = p]
    /\ known' = [known EXCEPT ![c].parts = @ \cup {<<run[c].current, p>>}]
    /\ UNCHANGED cluster

(* Mutant: a part that failed is left to be tried again. *)
MutRetriesPart(c, p, applied) ==
    run' = [run EXCEPT
        ![c].pc = "parts", ![c].part = None, ![c].left = IF applied THEN @ \ {p} ELSE @,
        ![c].applied = IF applied THEN @ \cup {<<run[c].current, p>>} ELSE @,
        ![c].failed = IF applied \/ p \in Policies THEN @ ELSE @ \cup {run[c].current}]

(* The run when part p is dealt with: only the failure of a route is kept. *)
PartDone(c, p, applied) ==
    run' = [run EXCEPT
        ![c].pc = "parts", ![c].part = None, ![c].left = @ \ {p},
        ![c].applied = IF applied THEN @ \cup {<<run[c].current, p>>} ELSE @,
        ![c].failed = IF applied \/ p \in Policies THEN @ ELSE @ \cup {run[c].current}]

(* Mutant: a route that failed is a warning, as a policy is. *)
MutForgivesRoutes(c, p) ==
    /\ IsNextPart(c, p) \/ (run[c].pc \in {"partCreate", "partUpdate"} /\ p = run[c].part)
    /\ run' = [run EXCEPT ![c].pc = "parts", ![c].part = None, ![c].left = @ \ {p}]
    /\ known' = [known EXCEPT ![c].parts = @ \ {<<run[c].current, p>>}]
    /\ UNCHANGED cluster

(* The Get, the Create or the Update fails, with a conflict or otherwise, and has
   no effect. *)
PartFails(c, p) ==
    /\ IsNextPart(c, p) \/ (run[c].pc \in {"partCreate", "partUpdate"} /\ p = run[c].part)
    /\ PartDone(c, p, FALSE)
    /\ known' = [known EXCEPT ![c].parts = @ \ {<<run[c].current, p>>}]
    /\ UNCHANGED cluster

(* The run after a write of its part, of whose success it may not hear. *)
PartAnswered(c) ==
    \E heard \in BOOLEAN :
        /\ PartDone(c, run[c].part, heard)
        /\ known' = AfterPartWrite(Id(c), IF heard THEN {c} ELSE {})

PartCreated(c) ==
    /\ At(c, "partCreate")
    /\ object[Id(c)] = None
    /\ object' = [object EXCEPT ![Id(c)] = Snap(c, run[c].current)]
    /\ PartAnswered(c)
    /\ UNCHANGED <<content, status, gateway, listeners, lost, secrets, accepted>>

(* Only the spec and the labels are replaced: a route keeps its status. *)
PartUpdated(c) ==
    /\ At(c, "partUpdate")
    /\ Id(c) \in known[c].parts
    /\ object' = [object EXCEPT ![Id(c)] = Snap(c, run[c].current)]
    /\ PartAnswered(c)
    /\ UNCHANGED <<content, status, gateway, listeners, lost, secrets, accepted>>

(* Polling is left out on request, or for want of routes. *)
PartsApplied(c) ==
    /\ At(c, "parts")
    /\ run[c].left = {}
    /\ run' = [run EXCEPT
          ![c].pc = IF run[c].polls /\ RoutesAt(c) # {} THEN "poll" ELSE "annotate"]
    /\ UNCHANGED <<cluster, known>>

(* One route of a round of pollRouteAcceptance.  isRouteAccepted asks for the
   condition, not for the generation it was set for. *)
PollHit(c, r) ==
    /\ At(c, "poll")
    /\ r \in RoutesAt(c) \ run[c].round
    /\ accepted[<<run[c].current, r>>] # None
    /\ LET round == run[c].round \cup {r}
       IN run' = IF round = RoutesAt(c)
                   THEN [run EXCEPT ![c].pc = "annotate", ![c].round = {}]
                   ELSE [run EXCEPT ![c].round = round]
    /\ UNCHANGED <<cluster, known>>

(* A route that is not accepted, or a failed Get, spoils the round. *)
PollMiss(c) ==
    /\ At(c, "poll")
    /\ run' = [run EXCEPT ![c].round = {}]
    /\ UNCHANGED <<cluster, known>>

(* Mutant: the deadline is looked at only after a route was found accepted. *)
MutDeadlineAfterHit(c) ==
    /\ At(c, "poll")
    /\ run[c].round # {}
    /\ run' = [run EXCEPT ![c].pc = "annotate", ![c].round = {}, ![c].ok = FALSE]
    /\ UNCHANGED <<cluster, known>>

(* Thirty seconds, or the end of the context. *)
PollTimesOut(c) ==
    /\ At(c, "poll")
    /\ run[c].round = {}
    /\ run' = [run EXCEPT ![c].pc = "annotate", ![c].ok = FALSE]
    /\ UNCHANGED <<cluster, known>>

StatusFor(c) ==
    CASE ~run[c].ok                                -> "pending"
      [] run[c].ok /\ Snap(c, run[c].current) \in Warned -> "partial"
      [] OTHER                                     -> "converted"

(* Annotated or not, the Ingress counts as converted unless a route failed. *)
IngressDone(c) ==
    run' = [run EXCEPT
        ![c].pc = "next", ![c].current = None, ![c].ok = TRUE,
        ![c].converted =
            IF run[c].current \in run[c].failed THEN @ ELSE @ \cup {run[c].current}]

(* Mutant: the annotation is written without a version. *)
MutBlindAnnotation(c) ==
    /\ At(c, "annotate")
    /\ content' = [content EXCEPT ![run[c].current] = Snap(c, run[c].current)]
    /\ status' = [status EXCEPT ![run[c].current] = StatusFor(c)]
    /\ IngressDone(c)
    /\ known' = AfterIngressWrite(run[c].current)
    /\ UNCHANGED <<gateway, listeners, lost, secrets, object, accepted>>

(* updateIngressStatus sends the whole Ingress as it was read in phase 1.  Whether
   it hears of its success makes no difference to a run. *)
AnnotateSucceeds(c) ==
    /\ At(c, "annotate")
    /\ run[c].current \in known[c].ingress
    /\ content' = [content EXCEPT ![run[c].current] = Snap(c, run[c].current)]
    /\ status' = [status EXCEPT ![run[c].current] = StatusFor(c)]
    /\ IngressDone(c)
    /\ known' = AfterIngressWrite(run[c].current)
    /\ UNCHANGED <<gateway, listeners, lost, secrets, object, accepted>>

AnnotateFails(c) ==
    /\ At(c, "annotate")
    /\ IngressDone(c)
    /\ UNCHANGED <<cluster, known>>

(* The result is printed; the converter is free for another run. *)
Finish(c) ==
    /\ At(c, "done")
    /\ run' = [run EXCEPT ![c] = IdleRun]
    /\ known' = [known EXCEPT ![c] = NothingKnown]
    /\ UNCHANGED cluster

(* The process is killed, or the request's goroutine ends with the server. *)
CutOff(c) ==
    /\ run[c].pc \notin {"idle", "done"}
    /\ run' = [run EXCEPT ![c] = IdleRun]
    /\ known' = [known EXCEPT ![c] = NothingKnown]
    /\ UNCHANGED cluster

-----------------------------------------------------------------------------
(* The others who write to the cluster. *)

(* A user, or the dashboard's skip and delete, changes, deletes or creates an
   Ingress; an edit keeps the annotation, a new Ingress has none. *)
UserEdits(i) ==
    /\ \E new \in Contents \ {content[i]} :
          /\ content' = [content EXCEPT ![i] = new]
          /\ status' = [status EXCEPT ![i] =
                           IF new = None \/ content[i] = None THEN "new" ELSE @]
    /\ known' = AfterIngressWrite(i)
    /\ UNCHANGED <<gateway, listeners, lost, secrets, object, accepted, run>>

(* The dashboard deletes routes, users delete any part. *)
PartDeleted(x) ==
    /\ object[x] # None
    /\ object' = [object EXCEPT ![x] = None]
    /\ accepted' = [y \in RouteIds |-> IF y = x THEN None ELSE accepted[y]]
    /\ known' = AfterPartWrite(x, {})
    /\ UNCHANGED <<content, status, gateway, listeners, lost, secrets, run>>

(* The controller of the Gateway accepts a route as it now is, or rejects it. *)
ControllerJudges(x) ==
    /\ object[x] # None
    /\ \E verdict \in {object[x], None} : accepted' = [accepted EXCEPT ![x] = verdict]
    /\ known' = AfterPartWrite(x, {})
    /\ UNCHANGED <<content, status, gateway, listeners, lost, secrets, object, run>>

(* The dashboard's delete handler, or a user, deletes the Gateway with all its
   listeners: no run has its version any more. *)
GatewayDeleted ==
    /\ gateway
    /\ gateway' = FALSE
    /\ listeners' = {}
    /\ lost' = lost \cup listeners
    /\ known' = AfterGatewayWrite
    /\ UNCHANGED <<content, status, secrets, object, accepted, run>>

(* The controller writes the Gateway's status. *)
GatewayTouched ==
    /\ gateway
    /\ known' = AfterGatewayWrite
    /\ UNCHANGED <<cluster, run>>

-----------------------------------------------------------------------------
ReadStep(c) ==
    \/ \E i \in Ingress : ReadFails(c, i) \/ ReadSkips(c, i) \/ ReadConverts(c, i)
    \/ ReadDone(c)

GatewayStep(c) ==
    \/ GatewayMissing(c) \/ GatewayRead(c) \/ GatewayFails(c)
    \/ GatewayCreated(c) \/ GatewayUpdated(c)
    \/ CopySecrets(c)

PartStep(c) ==
    \/ \E p \in Parts : PartMissing(c, p) \/ PartRead(c, p) \/ PartFails(c, p)
    \/ PartCreated(c) \/ PartUpdated(c)
    \/ PartsApplied(c)

PollStep(c) ==
    \/ \E r \in Routes : PollHit(c, r)
    \/ PollTimesOut(c)

RunStep(c) ==
    \/ ReadStep(c) \/ GatewayStep(c)
    \/ \E i \in Ingress : NextIngress(c, i)
    \/ AllApplied(c)
    \/ PartStep(c) \/ PollStep(c)
    \/ AnnotateSucceeds(c) \/ AnnotateFails(c)
    \/ Finish(c)

EnvironmentStep ==
    \/ \E i \in Ingress : UserEdits(i)
    \/ \E x \in PartIds : PartDeleted(x)
    \/ \E x \in RouteIds : ControllerJudges(x)
    \/ GatewayTouched \/ GatewayDeleted

Next ==
    \/ \E c \in Converter : Start(c) \/ RunStep(c) \/ PollMiss(c) \/ CutOff(c)
    \/ EnvironmentStep

Spec == Init /\ [][Next]_ivars

(* The API server answers every call or the client gives up on it.  Of the
   polling only the deadline is assumed, which the first tick after thirty
   seconds finds, however many rounds were begun and spoiled before. *)
Fairness ==
    \A c \in Converter :
        /\ WF_ivars(RunStep(c))
        /\ SF_ivars(PollTimesOut(c))

FairSpec == Spec /\ Fairness

-----------------------------------------------------------------------------
(* Safety. *)

(* Get, merge and Update amount to one atomic merge: whatever other runs, the
   controller and a deletion do in between, the Gateway gains exactly the
   listeners of one run's conversions, and loses none but by being deleted. *)
MergesAreAtomic ==
    [][\/ listeners' = listeners
       \/ \E c \in Converter : listeners' = listeners \cup Desired(c)
       \/ GatewayDeleted]_ivars

(* The listeners that runs put into the Gateway, and nobody has to answer for
   but who deleted it. *)
Provided == listeners \cup lost

(* A route or policy exists only with the listeners of its content in the
   Gateway, also when its run was cut off, its Ingress edited, or the Gateway
   merged by somebody else in the meantime; and no secret is copied but for a
   listener of the Gateway.  Only those are missing that were in a Gateway that
   somebody deleted, and that no run has merged again. *)
PartsHaveListeners ==
    /\ \A x \in PartIds : object[x] # None => ListenersOf[object[x]] \subseteq Provided
    /\ secrets \subseteq Provided

(* Writing the whole Ingress back to annotate it never undoes what a user did
   since it was read, up to thirty seconds of polling and many Ingresses ago. *)
EditsAreKept ==
    [][\A i \in Ingress : content'[i] # content[i] => UserEdits(i)]_ivars

(* An Ingress reported as converted has had every route applied by that run;
   and what a run applied is made from what it read, unless somebody wrote to
   it since. *)
ReportIsTrue ==
    \A c \in Converter :
        /\ \A i \in run[c].converted : {i} \X (PartsOf[Snap(c, i)] \cap Routes) \subseteq run[c].applied
        /\ \A x \in run[c].applied \cap known[c].parts : object[x] = Snap(c, x[1])

(* What makes them inductive.  A version that is still known stands for what
   was read; a run that is past the Gateway has provided all its listeners; and
   the parts it applied are those it has gone past. *)
KnownIsCurrent ==
    \A c \in Converter :
        /\ \A i \in known[c].ingress : Snap(c, i) = content[i]
        /\ known[c].gateway =>
              At(c, "gatewayUpdate") /\ gateway /\ run[c].merge = listeners

Applying == {"parts", "partCreate", "partUpdate", "poll", "annotate"}
Merged   == {"secrets", "next"} \cup Applying

MergedFirst ==
    \A c \in Converter :
        run[c].pc \in Merged =>
            \A i \in Ingress : Snap(c, i) # None => ListenersOf[Snap(c, i)] \subseteq Provided

OnlyWhatWasRead ==
    \A c \in Converter :
        /\ \A i \in run[c].queue \cup run[c].converted : Snap(c, i) # None
        /\ run[c].pc \in Applying =>
              run[c].current \in Ingress \ run[c].queue /\ Snap(c, run[c].current) # None

RunsInOrder ==
    \A c \in Converter :
        /\ run[c].pc \notin {"next", "done"} \cup Applying =>
              run[c].applied = {} /\ run[c].converted = {}
        /\ run[c].pc \in {"partCreate", "partUpdate"} => run[c].part \in run[c].left
        /\ run[c].pc \in {"poll", "annotate"} => run[c].left = {}

PartsInOrder ==
    \A c \in Converter :
        /\ run[c].pc \in Applying =>
              \/ run[c].current \in run[c].failed
              \/ {run[c].current} \X (RoutesAt(c) \ run[c].left) \subseteq run[c].applied
        /\ \A x \in run[c].applied :
              /\ x[1] \notin run[c].queue
              /\ run[c].pc \in Applying /\ x[1] = run[c].current => x[2] \notin run[c].left

(* A run works on contents that were not excluded, and on the parts they need. *)
OnlyWhatIsNeeded ==
    \A c \in Converter :
        /\ \A i \in Ingress : Snap(c, i) \notin Skipped
        /\ run[c].pc \in Applying => run[c].left \subseteq PartsOf[Snap(c, run[c].current)]

ConvertInv ==
    /\ TypeOK
    /\ ~gateway => listeners = {}
    /\ KnownIsCurrent
    /\ MergedFirst
    /\ PartsHaveListeners
    /\ OnlyWhatWasRead
    /\ OnlyWhatIsNeeded
    /\ RunsInOrder
    /\ PartsInOrder
    /\ ReportIsTrue

(* To whoever looks at the cluster, runs that read, compute, poll and write at
   different times, and are cut off in between, are changes each made at one
   moment to what is there: no merge, annotation or part rests on anything that
   has ceased to be, but for the content that a part is made of. *)
Cluster == INSTANCE ConvertedCluster

ImplementsCluster == Cluster!Spec

(* A run never does a thing twice: it does not come back to the Gateway, to an
   Ingress or to a part, whatever fails and whoever writes beside it, so that all
   it can do without end is to poll. *)
Place ==
    [read |-> 1, gateway |-> 2, gatewayCreate |-> 3, gatewayUpdate |-> 3, secrets |-> 4,
     parts |-> 5, partCreate |-> 6, partUpdate |-> 6, poll |-> 7, annotate |-> 8, next |-> 9,
     done |-> 10]

Fewer(S, T) == S \subseteq T /\ S # T

Advances(r, s) ==
    \/ /\ Place[r.pc] < Place[s.pc]
       /\ r.pc \in Applying => s.queue = r.queue /\ s.left = r.left
    \/ r.pc = "read" /\ s.pc = "read" /\ Fewer(s.todo, r.todo)
    \/ r.pc = "next" /\ s.pc = "parts" /\ Fewer(s.queue, r.queue)
    \/ /\ r.pc \in {"parts", "partCreate", "partUpdate"} /\ s.pc = "parts"
       /\ s.queue = r.queue /\ Fewer(s.left, r.left)

Rounds(r, s) == r.pc = "poll" /\ s = [r EXCEPT !.round = s.round]

RunsAdvance ==
    [][\A c \in Converter : run'[c] # run[c] =>
          \/ At(c, "idle") \/ At(c, "idle")'
          \/ Advances(run[c], run'[c]) \/ Rounds(run[c], run'[c])]_ivars

(* A run ends, whatever the cluster does to it. *)
RunsEnd == \A c \in Converter : ~At(c, "idle") ~> At(c, "idle")

(* Whatever earlier runs left half done, cut off or told of failures that were none,
   a conversion that is run again in the end completes them: once nothing more goes
   wrong and no user interferes, whatever the controller does, an Ingress that is to be
   converted comes to have its listeners, every part it needs, made from what it
   now says, and an annotation.  A part that is there must be brought up to date for
   that, and listeners that were lost be merged again. *)
StartsAll(c) == Start(c) /\ run'[c].todo = Ingress

Trouble ==
    \/ \E c \in Converter :
          \/ CutOff(c) \/ GatewayFails(c) \/ AnnotateFails(c)
          \/ \E i \in Ingress : ReadFails(c, i)
          \/ \E p \in Parts : PartFails(c, p)
    \/ \E i \in Ingress : UserEdits(i)
    \/ \E x \in PartIds : PartDeleted(x)
    \/ GatewayDeleted

Complete(i) ==
    content[i] \in Content \ Skipped =>
        /\ ListenersOf[content[i]] \subseteq listeners
        /\ \A p \in PartsOf[content[i]] : object[<<i, p>>] = content[i]
        /\ status[i] # "new"

ConversionCompletes ==
    /\ \A c \in Converter : WF_ivars(StartsAll(c))
    /\ <>[][~Trouble]_ivars
    => <>[](\A i \in Ingress : Complete(i))

-----------------------------------------------------------------------------
(* What the code says of itself and does not keep. *)

(* "pollRouteAcceptance waits for routes to be accepted by the Gateway": as they
   now are, not as an earlier run or another writer had made them. *)
AcceptanceIsCurrent ==
    [][\A c \in Converter :
          At(c, "poll") /\ run'[c].pc = "annotate" /\ run'[c].ok =>
              \A x \in {run[c].current} \X RoutesAt(c) : accepted[x] = object[x]]_ivars
=============================================================================
