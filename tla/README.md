# A verification development for kubelb-cli

`kubelb` is the command line client of KubeLB. It talks to a Kubernetes API
server (the KubeLB management cluster) and, for tunnels, to a connection
manager over HTTP. This directory holds TLA+ specifications of the program's
own logic, written from the Go source, the TLC configurations that check them
on small instances, and proofs that TLAPS checks for every value of the
constants. Paths below are relative to the repository.

## 1. Inventory

| component | code | state it keeps | operations |
|---|---|---|---|
| Tunnel client | `internal/tunnel/connect.go` | `Client` (connection state, `lastPing`, `needsReconnect`, `reconnectCount`, `shutdownCtx`), `tunnelCtx`, `sigCh` | retry loop, dial, SSE reader, one health monitor per connection, Ctrl+C menu, `Close` |
| Tunnel request handlers | same file, from `handleRequestEventWithTracking` on | one goroutine per request event; they write `needsReconnect` | parse, forward to the local service, post the response |
| Tunnel create and connect | `internal/tunnel/create.go`, `auth.go`, `types.go`, `Connect` up to `EstablishTunnel` | the Tunnel resource, two one-place channels | create or reuse, wait, poll in parallel, connect, fall back |
| Tunnel read and delete | `internal/tunnel/{get,list,delete,mapper}.go` | none | read, print, delete |
| Tunnel commands | `cmd/tunnel.go` | none | flags, cancellation, exit status |
| Ingress conversion | `internal/ingress/{convert,gateway,types}.go` | Ingress, Gateway, HTTPRoute, GRPCRoute, policies, Secrets in the cluster | snapshot, Gateway merge, secret copies, routes, policies, polling, annotation |
| Ingress list and preview | `internal/ingress/{list,preview}.go` | none | status extraction, summary, dry conversion |
| Ingress commands | `cmd/ingress.go` | none | selection flags, timeout |
| Dashboard server | `internal/ui/{api,handler}.go`, `cmd/serve.go` | none of its own; the cluster's | list, convert, batch convert, skip, preview, delete route |
| Dashboard page | `internal/ui/templates/index.html` | selection, current preview, last list | refresh, select, preview, convert |
| Load balancer create | `internal/loadbalancer/create.go` | the LoadBalancer resource | validate, create, wait for readiness, print |
| Load balancer read and delete | rest of `internal/loadbalancer`, `cmd/loadbalancer.go` | none; a copy of what was shown | read, print, warn, ask, delete |
| Edition detection and cache | `internal/edition`, `internal/cache`, `cmd/root.go` | the cache files, the current context of a kubeconfig | detect, default, remember for 48 hours |
| Configuration | `internal/config`, `internal/constants` | none after start | precedence of flag and environment |
| Logger, terminal output, status, version, docs, build | `internal/logger`, `internal/ui/output.go`, `internal/output`, `internal/status`, ... | none that matters here | formatting |

How they interact. `tunnel create` calls `Connect`; `Connect` builds a
`Client`, starts the signal goroutine and calls `EstablishTunnel`; a successful
dial starts a health monitor and an SSE reader; the reader starts request
handlers; handlers and loop write one shared flag, `needsReconnect`, that the
monitors read; the menu of the signal goroutine deletes the Tunnel resource
and cancels the context that the loop, the reader and the monitors watch.
`ingress convert` and the dashboard call the same `Convert`, which reads and
writes the cluster with no lock but the API server's resource versions. Every
command starts in `cmd/root.go`, which decides by the (cached) edition whether
tunnels are available.

What is hard here, and what makes each component correct:

- **Tunnel client.** Goroutines share a context, a flag, a timestamp and the
  process; the menu runs beside a loop that may end at any moment; a reader
  blocks on a silent server. Right means: a bounded number of connections, one
  verdict, a graceful one only when the user asked, the advertised state is
  the real one, a Ctrl+C is always answered, a dead connection is left.
- **Request handlers.** A response can be accepted and its reply lost. Right
  means: never two responses to one request, the flag has a cause, every
  handler ends.
- **Tunnel create.** The poller, the waiter and the five-second fallback race.
  Right means: at most one connection, an error only if nothing is connected.
- **Ingress conversion.** A sequence of writes that can stop anywhere, beside
  other writers, from a snapshot that grows old. Right means: no listener of
  the Gateway is ever lost, an Ingress is marked only as what it is, a second
  run completes what a first one left.
- **Dashboard.** The page never waits for one request before it sends the
  next; answers arrive in any order, selections outlive what they name,
  handlers and other users write between a handler's calls. Right means: the
  convert button converts what the title says, nothing is converted that its
  user did not pick, no write takes back another's, the table comes right.
- **Load balancer.** Creation fails half done, the wait has a deadline, a prompt
  outlives it. Right means: what is waited for is what was asked for and can be
  reached, a summary tells how to reach it, what a deletion takes away, however
  late, was asked for in time and warned of.
- **Start of a command.** The cache is shared by processes and written in
  place; the kubeconfig is read several times and may be switched in between.
  Right means: no edition of another cluster, and a wrong one not for ever.

The hazards behind this list are in `PROJECT.json`, each at its line.

## 2. Plan

The tunnel came first: it is where goroutines, a network and a user meet, and
no test of the repository touches it. Then the conversion, which is the
program's other long sequence of effects; then what shares state with other
processes and users: the dashboard, the start of every command, the load
balancer.

| step | module | content | state |
|---|---|---|---|
| 1 | `TunnelSession`, `ConnectSession`, `TunnelClient` | what a session promises to its user, and one call of `Connect` to its caller; the client that implements both | done, proved |
| 2 | `TunnelForward`, `Tunnel` | the request handlers; client and handlers in one process | done, proved |
| 3 | `TunnelCreate` | `Create`, its poller and its fallback, up to the session; each of its calls of `Connect` is a `ConnectSession` | done, proved |
| 4 | `ConvertedCluster`, `IngressConvert` | what a cluster undergoes; `Convert` by any number of callers against one API server, whose users also delete the Gateway | done, proved |
| 5 | `Dashboard` | the page and its handlers: overlapping refreshes, previews, conversions, skips and deletions, the selection | done, proved |
| 6 | `Startup` | configuration, detection, its default, the cache files and their age, in several processes and over changing clusters | done, proved |
| 7 | `LoadBalancer` | create and wait, delete after a prompt, beside the controller and other users | done, proved |
| 8 | `IngressLists` | pure operators: the names of copied secrets, names and selection flags | planned |

Theorems worth proving next: that the annotations of `Dashboard`'s conversions
and exclusions are those of `IngressConvert` without polling (a refinement from
the marks of the one to content and status of the other); that `Startup` after
calm and `CacheTTL` of time holds no entry of before, the one step of
`EditionConverges` that is safety and not proved yet; and, in `LoadBalancer`,
that a wait ends with what its own `Asked` was served with, in the order in
which the controller serves.

## 3. Modules

A module `X` has its theorems in `XProofs` and is instantiated for TLC by
`MCX`. Operators named `Mut...` are mutated forms of the definition that
follows them: each is a plausible mistake which some property must notice. No
specification and no theorem uses them.

**`TunnelSession`** - what `kubelb tunnel connect` promises: at most `MaxTries`
connections in its life, a link that is up or down, one verdict, a good one
only on request, an end after a request.

**`ConnectSession`** - one call of `Connect` as its caller sees it: a session or
an error before it, one menu at most, a return of `context.Canceled` from a
session only after its user chose to stop, and then a return. `TunnelClient`
implements it from the session on (`place` is "session" while the process
lives; `heard` is made of `sig` and `choice`), `TunnelCreate` twice: it is where
the two are joined, in place of a product of their states.

**`TunnelClient`** - `internal/tunnel/connect.go` from `EstablishTunnel` on.
`pc` is where the main goroutine is: the retry loop (`check`, `delay`), the
dial (`dial`), the SSE reader (`read` for an event line, `data` for its data
line), and the deferred calls of `Connect` (`return`, `closing`). `attempt`,
`state`, `reconnectCount`, `needsReconnect` are the fields of the same names;
`lastPing` is kept as its age, which saturates where every larger age acts
alike. `monitor[a]` is the health monitor of the connection that attempt `a`
opened; `sig`, `interrupts` and `choice` are the goroutine that reads one
Ctrl+C and runs the menu; `tunnel` is the resource the menu may delete. Both
outcomes of a Go `select` with several ready cases are allowed. Environment:
the server may accept, refuse, send events, break off, or fall silent for ever.

**`TunnelForward`** - one goroutine for each request event: parse, call the
local service, post the answer or an error, act on the reply. What the server
accepted and what the client hears of it are two steps. The loop of the client
is here one action, `LoopClearsFlag`.

**`Tunnel`** - both in one process. `StartRequest` is a step of both: the
reader starts a handler. `ServeRequest` leaves the client alone but for the
flag. When the process has exited, handlers are gone wherever they were. It
implements `TunnelClient!Spec` and `TunnelForward!Spec`: each of the two is the
honest environment of the other. The run checks the second, where something can
go wrong: what the loop does to the shared flag, and what the handlers see of it.
The first, which follows nearly from how the two are put together, is proved only
(`TunnelImplementsClient`); `TunnelKeepsPromises` rests on it.

**`TunnelCreate`** - `Create` and `waitForTunnelReady` of `create.go`, `Connect`
up to the session, `runTunnelCreate`. `mode` is the pair of flags
connect/wait. `started` and `connectErr` are the two one-place channels,
`poller` the goroutine, `conn[c]` the `Connect` of main or of the poller. The
status of the Tunnel resource is the controller's and may change at any time;
every API call may fail. A session is one phase.

**`ConvertedCluster`** - what happens to a cluster in which Ingresses are
converted, without the runs: listeners are merged, secrets copied, parts made
and Ingresses annotated, each at one moment, to what is there, and a part or an
annotation only after the listeners of its content. Nobody reads early, polls
or writes late here. `IngressConvert` implements it with the cluster's variables
as they are.

**`IngressConvert`** - `Convert` (`convert.go`) and `applyGateway`
(`gateway.go`), by a set of converters: commands and requests to the dashboard.
The cluster is `content` and `status` of each Ingress (what the user wrote, and
the annotation), the Gateway's `listeners`, the copied `secrets`, and the
content each route or policy was made from (`object`) or accepted for
(`accepted`). `run[c]` holds the local variables of a call. The API server
refuses an Update whose version is not current; the code never compares versions
otherwise, so `known[c]` is the set of objects whose version `c` holds and which
nobody has written since. A write to the Gateway or a part may take effect
though its reply is lost (`GatewayAnswered`, `PartAnswered`): the run goes on as
after a failure, on a cluster that has changed. The annotation needs no such
step: the run reports the same whether its Update succeeds or fails
(`convert.go:218`), so one whose reply is lost is `AnnotateSucceeds`. The
secrets are copied in one step, of any subset of them: those that are missing
failed, or were cut off. Users, the dashboard's other handlers, which may also
delete the Gateway (`GatewayDeleted`; `lost` is a ghost that remembers the
listeners deleted with it), the Gateway's controller and interruptions are the
environment. What an Ingress is converted to is a constant: `PartsOf` and
`ListenersOf` of its content.

**`Dashboard`** - the page (`templates/index.html`) and the handlers of
`internal/ui/api.go` for Ingresses. `mark` is the cluster: of each Ingress
whether it is to be skipped, and its annotation. `shown`, `selected`, `current`
and `modal` are the table, the selected set, `currentPreview` with
`previewMode`, and what the modal shows; `picked` is a ghost, every Ingress
that was ever ticked or previewed. `req[q]` is a request from the click to the
arrival of its answer, with what its handler has read (`seen`) and where that
is still the current version (`held`). A handler takes one step for each call
to the API server. A conversion is what `IngressConvert` without polling does to
the Ingresses; its routes are left to that module. The dashboard is one that was
started without `--ingress-class`: with it the table leaves out Ingresses of other
classes (`api.go:181`), and a conversion passes over them (`convert.go:136`). In the
run conversions end as `converted`, all that one without polling writes if there
are no warnings; the theorems hold for any set of outcomes.

**`Startup`** - `PersistentPreRunE` of `cmd/root.go` with `internal/config`,
`internal/cache` and `internal/edition`. `cmd[p]` is the command of a process:
its file, tenant and the context its client was built from; `current` the
context each kubeconfig names now, `backend` what each cluster shows of its
edition: the two TenantStates that are looked for, in the namespace of each
tenant (`detector.go:56`), and the CRD of tunnels, which is the cluster's. The
ghost `of` says from which context and for which tenant an edition was
determined; `cache` the usable content of each file (one that is empty or spoilt
is like one that is not there). A file is known by the three names joined
(`Identifier`), made anew at each use. `os.WriteFile` is two steps, `Truncate`
and `Write`. Ages are counted in units that are long for a command.

**`LoadBalancer`** - `create.go` and `delete.go` of `internal/loadbalancer`, on
one name. `lb` is the resource: what a user writes of it and what the controller
reports of it (`status`, of which only whether its items are there is kept).
`cmd[p]` is a create or a delete command at one of its calls, its prompt, or its
output; `cancelled` is the context of `Execute` that has ended, by Ctrl+C or
after four minutes; `same` is a ghost: the load balancer it waits for or showed
is there and unedited. `wire[p]` is the write that a process has sent and of
which it is open what becomes: the API server carries it out (`Create`,
`Delete`) or it is lost (`Lost`), while its command waits for the reply, is
interrupted, has run out of time, or has long ended; a successor of what was
shown may have the name by then. `tunnel delete` is the same protocol on another
resource.

The code lines behind every definition are listed in `PROJECT.json` under `map`.

## 4. Runs

| run | instance | shows |
|---|---|---|
| `tunnel_client` | 3 attempts, timeout 1 | the client's invariants, its refinements of `TunnelSession` and `ConnectSession` with their liveness, that a first Ctrl+C is answered, and that a cancelled session only winds down |
| `tunnel_forward` | 3 requests | the invariant (in it: the flag has a cause), one response to each request, handlers end |
| `tunnel` | 2 attempts, 2 interchangeable requests | beside a client with its menu, monitors and `Close`, the handlers are those of `TunnelForward`, to which the client does only what is allowed there; one late request at most |
| `tunnel_create` | all four modes, every state of the resource | success only after an interrupt, main waits for nobody who will not write, the invariant (in it: two connections only if main was not told of the first), both calls of `Connect` are `ConnectSession`s with their liveness, the command settles |
| `ingress_convert` | 1 converter, 1 Ingress with three contents (plain; with policy and warnings; skipped) | with replies that are lost: the inductive invariant, what a run leaves and reports, that it never does a thing twice but poll, that it ends, and that later runs complete what earlier ones left |
| `ingress_race` | 2 converters, 1 Ingress of two contents, one with a policy | merges are atomic, edits survive annotations, no part without its listeners but for those that users deleted; all in all, `ConvertedCluster`; replies are lost here too |
| `dashboard` | 2 requests at a time, 1 Ingress | the invariant (button and title agree), only what was picked is converted, writes are atomic, late lists die out and nothing else spoils the table, which converges |
| `startup` | 2 processes, 1 kubeconfig with 2 contexts, 1 tenant, a cache that lasts for one unit of time | the invariant (in it: no edition of another context or tenant, where names collide of one of the same name), an edition of the command's own context and tenant, a right edition stays, a wrong one is not for ever |
| `load_balancer` | 2 processes, 2 hosts, 6 sets of options, 2 of which are refused | what is waited for was asked for, a summary tells a way, what deletions take away was asked for in time and warned of although requests arrive late, waits that can succeed do |
| `tunnel_dead_link`, `tunnel_two_sessions`, `ingress_stale_acceptance` | small | the disagreements of section 6 |

Why these bounds are enough. *Attempts*: the loop treats the first attempt, the
later ones and the bound differently, so three give one of each; two leave the
composition a retry. *Ping timeout*: only whether an age exceeds it matters;
with 1 there is an age below, at and above it. *Requests*: handlers share a flag
only; two suffice for an interleaving, three for one answered, one refused and
one lost together. *Ingresses, converters*: a conflict needs two writers to one
object; converters, the user and the controller are such writers already with
one converter, and two converters race on everything that one run writes. Runs
that begin again after they finished or were cut off are in every instance. That
parts of a second Ingress find their listeners is proved, for every set of
Ingresses. *Requests of the page*: two can overtake each other; a request that
is answered frees its slot, so that any number follow one another. One Ingress
suffices for the order of answers, for an empty batch and for a resource of its
name; several are covered by the proofs. *Startup*: two processes write one file
at a time; one context whose edition changes, between being shown where it is
looked for first and being silent there, with a misleading one where it would be
looked for next; one whose does not; one unit of time has an entry fresh, old,
and gone. A second tenant multiplies the states beyond what TLC does in
reasonable time; that a file never holds the edition of another tenant is
proved, for any set of tenants. *LoadBalancer*: two commands and other users
contend for the name; the options are a route, with each output; addresses for
two endpoints with different ports; and a command that does not wait; two more
are refused. One request of a process can be on its way while the other begins,
shows and deletes. Symmetry is used over requests of the tunnel only, where no
liveness is checked. Deadlock is checked in every run; the end of the process is
a step of its own (`Terminated`), or another command follows.

*Fairness.* Goroutines that can run do, and timers fire. Nothing is assumed of
servers, of the network or of the user: a silent server may be silent for ever,
which is why `InterruptAnswered` is worth checking. In `TunnelCreate` and
`IngressConvert` each API call is answered or given up by its client.
`ConversionCompletes` has premises of its own: somebody converts all Ingresses
again and again, and from some point on no call fails, no run is cut off, and no
user interferes (`Trouble`); what went before is arbitrary, and the controller
goes on as it likes. A session ends for certain only after the user cancelled
it. For the polling of `Convert` only the deadline is fair, and it needs strong
fairness: `PollTimesOut` is possible between two rounds only, and a route that
comes and goes begins and spoils rounds for ever; in the code the first tick
after thirty seconds finds the deadline. In `Dashboard` handlers and answers
make progress, or fail; auto-refresh is on, and gets a slot again and again,
since the browser sends it whatever else is under way (strong fairness of
`Refresh`). `TableConverges` speaks of clusters that come to rest and of lists
that are no longer refused. A list with nothing new leaves what a refused one
leaves, the table as it was, so such a step is not taken for a refusal
(`ListRefused`); otherwise the premise would exclude every refresh of a table
that is right. In `Startup` a command gets on and time passes;
`EditionConverges` speaks of clusters and contexts that come to rest, and of
calls that stop failing; a step that a success would have made as well, such as
that of a Get that finds nothing, is not taken for a failure (`CallFails`). In
`LoadBalancer` a command gets on with its calls and polls; a prompt may wait for
ever, and so may a request on its way. Nothing is assumed of the controller, but
by the second part of `CreateSettles`, which says so itself.

## 5. What is proved

TLAPS checks, for every number of attempts, set of requests, set of converters,
Ingresses, contents, parts and listeners, and every set of slots, processes,
contexts, tenants, hosts, ports and options:

- `TunnelClientProofs`: `IInv` is inductive (`Invariance`), hence `TypeOK`,
  `GracefulEndIsAsked` and `AdvertisedState`; and the client implements the
  safety parts of `TunnelSession` (`Refinement`) and of `ConnectSession`
  (`ConnectRefinement`). `Coordination` is what makes
  them inductive. Two of its lines carry the argument: the loop never runs
  beside `Close`, and as long as the loop runs only the menu can have cancelled
  its context, so that a return of `context.Canceled` was asked for.
  `CancellationWindsDown` gives the places of the main goroutine ranks which only
  fall once the context is cancelled: no attempt is begun, one connection at most
  is still opened and one event acted on. It is the part of `InterruptAnswered`
  that needs no fairness.
- `TunnelForwardProofs`: `ForwardInv` is inductive, hence `OneResponse` and
  `FlagHasCause`: it counts what has been delivered at each place of a handler.
- `TunnelProofs`: the composition implements both parts, and at most one request
  starts after a cancellation. A request implies a connection (`TunnelInv`),
  which is what lets a handler's report be a `HandlerReports` of the client.
  That the client is kept to its own specification (`TunnelImplementsClient`) is
  nearly so by construction; no run checks it.
  Since the composition implements both, it keeps what both promise:
  `TunnelKeepsPromises` and `TunnelAnswersOnce` follow from the parts' theorems
  and these two alone.
- `TunnelCreateProofs`: `CreateInv` is inductive, hence `SuccessIsAsked`,
  `AwaitIsServed` and `SecondIsUntold`. `Protocol` relates the places of the two
  goroutines to the two channels. `CallsOfConnect` is the other half of the
  joint with `TunnelClient`: whatever the two goroutines, the fallback and the
  end of the process do, each call of `Connect` is a `ConnectSession`.
  `NoSessionLeftOut` is its converse: every answer and return which that allows
  to a call is a step of `TunnelCreate`, so that nothing a session may do is
  missing there.
- `IngressConvertProofs`: `ConvertInv` is inductive, hence `PartsHaveListeners`,
  `ReportIsTrue`, `MergesAreAtomic` and `EditsAreKept`. The heart is
  `KnownIsCurrent`: a version a converter still holds stands for what it read,
  so an Update that succeeds writes on top of that and nothing else. Therefore
  listeners only grow, unless users delete the Gateway; therefore a run past the
  Gateway has its listeners there for good, or had them deleted (`MergedFirst`);
  therefore parts are never without theirs, but for what was deleted with the
  Gateway. `ClusterRefinement` draws the sum: the runs implement
  `ConvertedCluster`, in which no run exists, by the identity on the cluster's
  variables. It needs `OnlyWhatIsNeeded` (a run works on contents that were not
  excluded, and on the parts they need) beside what `MergesAreAtomic` needs.
  Neither `PartsHaveListeners` nor `MergesAreAtomic` says that the Gateway never
  loses a listener: both except what users delete with it (`lost`,
  `GatewayDeleted`). A write whose reply is lost changes nothing in the
  argument: it too is on top of what was read. `RunsGoForward` is the part of
  `RunsEnd` without fairness: each step of a run is forward in the program or
  takes something off one of its lists, but for rounds of polling, whose number
  the deadline bounds.
- `DashboardProofs`: `DashboardInv` is inductive, hence `OnlyPicked`, and, with
  it, `WritesAreAtomic`. Two facts carry it: whatever can come to be converted -
  the selection, the preview on the screen, a preview or conversion under way -
  names at least one Ingress and only picked ones (`PicksAreKept`), and what a
  handler still holds nobody has written since (`HeldIsCurrent`).
  `ButtonConvertsTitle` says what a click on the preview's button sends.
  `TableFollowsCluster` is the safety in `TableConverges`: while the cluster stays,
  outdated lists get fewer, so a table that has become right after the last of
  them stays right; that one comes at all is left to TLC.
- `StartupProofs`: `StartupInv` is inductive, hence `EditionOfContext`. An entry
  lies under a name of the context it is of (`EntryIsNamed`), and a command
  whose context was not switched since its client was built makes its names from
  that context (`SteadyIsCurrent`). Where names are distinct the context and the
  tenant are the command's own (`EditionIsOwn`), and `UniformNamesAreDistinct`
  says when they are: if files have equally many dashes in their names, and
  contexts too. What can collide is then known: only a dash that may belong to
  either of two neighbours does. `RightOnceAndForAll` is the safety in
  `EditionConverges`: in calm, what is right stays so (`AllRight`, which follows
  a command through its detection, and a half-written file), and what starts is
  right; `CalmStartsRight` draws the consequence for an empty cache. That wrong
  entries go is left to TLC.
- `LoadBalancerProofs`: `LoadBalancerInv` is inductive, hence `OwnIsAsked`,
  `SuccessTellsAWay` and, as an action property, `InformedDeletion`. That speaks of
  the moment in which the API server carries out a DELETE, also when the command
  has been interrupted, has run out of time or has ended in between; what the
  request was sent with (`RequestAgrees`) is what carries it there. `NoLateDeletion`
  is the command's own half: once its context has ended it sends none.
  `SuccessTellsAWay` is about the summary only. With `-o yaml` a second Get is
  printed (`create.go:87`), of which nothing is said. What a
  command has created and still sees unedited is there, is as asked, and is
  nobody else's, since a name is created once until it is gone. `ReadyIsServed`
  compares what the wait looks at with what the request asks for: they agree for
  all accepted options but ClusterIP without a route, which waits in vain
  (`WaitsInVain`); `CreateSettles` makes the same exception. `EndpointsExact` says
  for which `--endpoints` the load balancer leads to those and no others.

Assumptions: `MaxRetries` is a positive number, `PingTimeout` a natural number;
the constants of `IngressConvert` have the types its `ConversionAssumption`
gives, and routes and policies are apart; in `Dashboard`, `Startup` and
`LoadBalancer` the constants have their types, and `None` is none of the things
it stands beside. Each is evaluated by TLC on the instances above.
`UniformNamesAreDistinct` and `CalmStartsRight` have their own hypotheses, on
the names, in their statements; `EditionIsOwn` and `RightOnceAndForAll` have
them as a premise in their property.

Only model-checked: all liveness (`InterruptAnswered`, `RequestsSettle`,
`CreateSettles` of both modules, `RunsEnd`, `ConversionCompletes`, `TableConverges`,
`EditionConverges`,
and the fairness of `TunnelSession` and `ConnectSession`), which rests on fairness
and ENABLED, that the provers do not handle; and the properties of section 6,
which are refuted. Every invariant, every action property and the safety part of
every refinement that a run checks is proved as well. `TypeOK`, `FlagHasCause`,
`SecondIsUntold` and `EditionOfContext` are checked as parts of the inductive
invariants, and are theorems of their own.

## 6. Where code and comments disagree

Each has a run whose counterexample shows it; line numbers refer to the files
of the repository.

1. A monitor that finds its connection dead returns, "trigger reconnection by
   returning" (`connect.go:696`). Nobody waits for it: the reader stays with the
   silent stream (`tunnel_dead_link`).
2. The fallback after five seconds, meant for a connection that has not
   started, may connect beside a poller that connects late
   (`create.go:160`, `tunnel_two_sessions`).
3. `isRouteAccepted` takes a condition of an earlier generation for the
   acceptance of what was just written (`convert.go:464`,
   `ingress_stale_acceptance`).

Seen while modelling, present in the models as behaviour, without a run of
their own:

- After the user chose to continue, the next Ctrl+C stays in the channel: the
  goroutine receives once (`connect.go:193`; `SignalReceived`), though the client
  says "Press Ctrl+C to disconnect" (`connect.go:528`).
- `Close` waits for requests in flight (`connect.go:328`), but none is ever
  added to the group it waits on (`StartRequest`, `CloseReturns`).
- An error is non-recoverable if its text holds `401` or `403`
  (`connect.go:535`), which ports and stream numbers can hold as well (`Marked`).
- The menu's deletion may end in an error, after which it cancels all the same
  (`connect.go:89`), and the command reports a graceful end.
- An interrupt between the last use of the command's context and
  `signal.Notify` (`connect.go:187`, `cmd/tunnel.go:218`) goes to that context,
  which the session does not look at (`SessionStarts`).
- While `Create` runs, one Ctrl+C goes both to its context and to the menu of a
  session; main may leave while the menu asks (`create.go:156`).
- With polling switched off an Ingress is annotated `converted`
  (`convert.go:218`), which `cmd/ingress.go:69` describes as accepted.
- `partial` is written for a conversion with warnings, which
  `cmd/ingress.go:70` describes as some routes accepted and others not.
- An Ingress with a failed route is annotated like any other; `failed`
  (`cmd/ingress.go:73`) exists in a run's result only.
- `attempt` is never reset after a success (`connect.go:363`): the bound on
  tries is one for the whole life of a session. `TunnelSession` says so.
- A batch conversion without Ingresses converts the whole cluster
  (`api.go:336`, `convert.go:522`; `Targets`): only the page keeps from it, which
  `OnlyPicked` checks. A resource preview would be converted like the Ingress of
  its name but for its hidden button (`index.html:1450`, `2026`).
- The handlers skip polling because the "UI gets updated state via response"
  (`api.go:252`), but the page does not look at the lists in the answer and
  fetches anew (`ConvertArrives`).
- A cache file is made for "a unique identifier for this combination"
  (`cache/edition.go:124`), which is three names joined by dashes: `a-b` and `c`
  collide with `a` and `b-c`. `Startup` names what collides (`Alike`,
  `DistinctNames`).
- A failed detection is CE, and is remembered for 48 hours like any other
  (`root.go:146-151`); `EditionConverges` shows that it is not for longer.
- A context that is switched while a command starts can put the edition of one
  cluster under the name of another (`cache/edition.go:114`);
  `EditionOfContext` excepts such entries and commands, and no others.
- `--timeout` (`root.go:338`) is read by `Execute` before the flags are parsed
  (`root.go:120`): every command has the default of four minutes.
- `--endpoints` is a "comma-separated list of IP:port pairs"
  (`cmd/loadbalancer.go:90`); addresses and ports are collected apart, so that
  two endpoints with different ports give four (`ParseEndpoints`). An argument
  of commas alone gives none and is accepted.
- "Create HTTP load balancer without a route" with `--route=false`
  (`cmd/loadbalancer.go:79`) waits, by default, for what never comes: type
  ClusterIP without a route asks the controller for nothing. `CreateSettles`
  excepts it.
- `-o json` (`cmd/loadbalancer.go:96`) prints the summary (`create.go:87`).
- A create whose wait fails leaves the load balancer (`create.go:79`; `WaitEnds`):
  the same command then fails, since its name is taken.
- `delete` asks and does not look at its context: Ctrl+C does not end the prompt
  (`ConfirmDeletion`), and a yes that comes later than four minutes fails. What
  is deleted goes by name, also when another load balancer has taken it.
- A DELETE that was sent before Ctrl+C or the deadline (`delete.go:77`) may be
  carried out after the command reported that it failed, on whatever has the
  name by then (`Delete`); so may the creation of a `create` that failed
  (`create.go:70`).
- A `create -o yaml` prints what a second Get returns (`create.go:87`, `237`),
  which need not be what its wait saw, nor ready, nor the same load balancer; if
  that Get fails, so does a command that has created one (`Output`).

## 7. What is not modelled

- Contents: headers, bodies, JSON, the conversion of an Ingress to routes (done
  by a library), names and labels, wording and colours. No property is about
  them; where their outcome matters (a request that cannot be parsed, a
  conversion with warnings) it is a choice or a constant.
- Durations, except for which timer may fire when. The backoff's length and
  jitter are left out: any delay is allowed.
- `tunnel list` and `get`, `lb list` and `get`, `ingress list`, `get` and
  `preview`, `status`, `version`, `docs`: they read and print. `tunnel delete` is
  the protocol of `LoadBalancer`.
- The page's table of Gateway API resources, its tabs, warnings and messages:
  they show the last answer and decide nothing. Its deletions are steps of
  `IngressConvert` (`PartDeleted`, `GatewayDeleted`).
- The conversion flags of `cmd/ingress.go` and the logger: set once at the start;
  the logger's pointer is behind a mutex.
- In `LoadBalancer`: other names than the one that is contended for, and the
  listening port, which is always 8080 (`create.go:136`). In `TunnelCreate`: whose
  the tunnel is that is reused under a name.
- In `Dashboard`: `--ingress-class` (`api.go:181`), which is set once at the start.
- In `IngressConvert`: dry runs and file output, which write nothing to the
  cluster; two secrets of one name from two namespaces, which would be copied to
  one (`convert.go:194`), since a secret is known by its listener.
- The token's lifetime (`tunnel/auth.go:71`): it is checked once, before the
  session. A reconnection after it expired is answered 401, which is the
  refusal in `AttemptFails` that ends the session.
- The planned parts of section 2.
