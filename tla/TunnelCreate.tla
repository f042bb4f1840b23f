---------------------------- MODULE TunnelCreate -----------------------------
(***************************************************************************)
(* `kubelb tunnel create` and `kubelb expose`: Create and                  *)
(* waitForTunnelReady of internal/tunnel/create.go, with Connect of        *)
(* connect.go up to its session and runTunnelCreate of cmd/tunnel.go.      *)
(*                                                                         *)
(* When asked to wait and to connect, Create runs two goroutines: main     *)
(* waits for the tunnel to be ready, the poller connects as soon as it is. *)
(* They meet through two channels; when nothing has come after five        *)
(* seconds main connects itself.  Either may so come to run Connect, whose *)
(* session (EstablishTunnel and the menu, detailed in TunnelClient) is one *)
(* phase here.                                                             *)
(*                                                                         *)
(* The status of the tunnel belongs to KubeLB's controller, the resource   *)
(* also to other users; every call of the API server may fail.             *)
(***************************************************************************)
EXTENDS Naturals

VARIABLES
    mode,        \* opts.Connect and opts.Wait
    pc,          \* where main is in Create
    outcome,     \* what Create returned
    poller,      \* where the polling goroutine is
    started,     \* the value in connectStarted
    connectErr,  \* the value in connectErrCh
    conn,        \* where the Connect of each caller is
    heard,       \* what became of the signal each session received
    ctxDone,     \* the context of runTunnelCreate is cancelled
    tunnel       \* the Tunnel resource: its phase, and whether it has its URL

createVars  == <<pc, outcome, started>>
pollerVars  == <<poller, connectErr>>
connectVars == <<conn, heard>>
cvars == <<mode, createVars, pollerVars, connectVars, ctxDone, tunnel>>

Callers    == {"main", "poller"}
Modes      == {"connectWait", "wait", "connect", "none"}
Connecting == {"connectWait", "connect"}

Errors == {"canceled", "error"}   \* the error of the context, any other

TunnelStates ==
    [phase : {"absent", "Pending", "Ready", "Failed", "Terminating"}, url : BOOLEAN]

(* Connect reads the tunnel ("fetch"), its token ("auth"), builds the client
   and registers for signals ("prepare"), and is then in its session. *)
InConnect == {"fetch", "auth", "prepare", "session"}

TypeOK ==
    /\ mode \in Modes
    /\ pc \in {"get", "create", "wait", "refresh", "select", "fallback", "await",
               "connect", "exited"}
    /\ outcome \in {"none", "ok"} \cup Errors
    /\ poller \in {"off", "poll", "connect", "done"}
    /\ started \in {0, 1}
    /\ connectErr \in {"none"} \cup Errors
    /\ conn \in [Callers -> {"off"} \cup InConnect \cup Errors]
    /\ heard \in [Callers -> {"none", "menu", "cancel", "continue"}]
    /\ ctxDone \in BOOLEAN
    /\ tunnel \in TunnelStates

Init ==
    /\ mode \in Modes
    /\ pc = "get"
    /\ outcome = "none"
    /\ poller = "off"
    /\ started = 0
    /\ connectErr = "none"
    /\ conn = [c \in Callers |-> "off"]
    /\ heard = [c \in Callers |-> "none"]
    /\ ctxDone = FALSE
    /\ tunnel \in TunnelStates

Alive == pc # "exited"

Present   == tunnel.phase # "absent"
Connects  == tunnel.phase = "Ready" /\ tunnel.url

(* What a step that fails may report: a call of the API server fails with the
   context's error only once the context is done. *)
Failures == IF ctxDone THEN Errors ELSE {"error"}

Return(err) ==
    /\ pc' = "exited"
    /\ outcome' = err

-----------------------------------------------------------------------------
(* Create, in main. *)

(* The three ways on from an existing or created resource. *)
Dispatch ==
    /\ CASE mode = "none"    -> Return("ok")
         [] mode = "connect" -> pc' = "connect" /\ UNCHANGED outcome
         [] OTHER            -> pc' = "wait" /\ UNCHANGED outcome
    /\ conn' = IF mode = "connect" THEN [conn EXCEPT !["main"] = "fetch"] ELSE conn
    /\ poller' = IF mode = "connectWait" THEN "poll" ELSE poller

(* The community edition, an invalid port, or a failed Get. *)
CreateRefused ==
    /\ pc = "get"
    /\ \E err \in Failures : Return(err)
    /\ UNCHANGED <<mode, started, pollerVars, connectVars, ctxDone, tunnel>>

TunnelExists ==
    /\ pc = "get"
    /\ ~ctxDone
    /\ Present
    /\ Dispatch
    /\ UNCHANGED <<mode, started, connectErr, heard, ctxDone, tunnel>>

TunnelMissing ==
    /\ pc = "get"
    /\ ~ctxDone
    /\ ~Present
    /\ pc' = "create"
    /\ UNCHANGED <<mode, outcome, started, pollerVars, connectVars, ctxDone, tunnel>>

(* Also when somebody else created the tunnel since. *)
CreateFails ==
    /\ pc = "create"
    /\ \E err \in Failures : Return(err)
    /\ UNCHANGED <<mode, started, pollerVars, connectVars, ctxDone, tunnel>>

CreateSucceeds ==
    /\ pc = "create"
    /\ ~ctxDone
    /\ ~Present
    /\ tunnel' = [phase |-> "Pending", url |-> FALSE]
    /\ Dispatch
    /\ UNCHANGED <<mode, started, connectErr, heard, ctxDone>>

(* waitForTunnelReady: one failed Get, a failed or terminating tunnel, the end
   of the two minutes, or the end of the context. *)
WaitFails ==
    /\ pc = "wait"
    /\ \E err \in Failures : Return(err)
    /\ UNCHANGED <<mode, started, pollerVars, connectVars, ctxDone, tunnel>>

WaitSucceeds ==
    /\ pc = "wait"
    /\ ~ctxDone
    /\ tunnel.phase = "Ready"
    /\ pc' = "refresh"
    /\ UNCHANGED <<mode, outcome, started, pollerVars, connectVars, ctxDone, tunnel>>

RefreshFails ==
    /\ pc = "refresh"
    /\ \E err \in Failures : Return(err)
    /\ UNCHANGED <<mode, started, pollerVars, connectVars, ctxDone, tunnel>>

Refreshes ==
    /\ pc = "refresh"
    /\ ~ctxDone
    /\ Present
    /\ \/ mode = "wait" /\ Return("ok")
       \/ mode = "connectWait" /\ pc' = "select" /\ UNCHANGED outcome
    /\ UNCHANGED <<mode, started, pollerVars, connectVars, ctxDone, tunnel>>

(* The select of main: the poller's word, or five seconds.  The context is not
   among its cases. *)

(* Mutant: told that the poller connects, main goes on to connect itself. *)
MutConnectsToo ==
    /\ pc = "select"
    /\ started = 1
    /\ started' = 0
    /\ pc' = "fallback"
    /\ UNCHANGED <<mode, outcome, pollerVars, connectVars, ctxDone, tunnel>>

HearsStarted ==
    /\ pc = "select"
    /\ started = 1
    /\ started' = 0
    /\ pc' = "await"
    /\ UNCHANGED <<mode, outcome, pollerVars, connectVars, ctxDone, tunnel>>

FallbackTimer ==
    /\ pc = "select"
    /\ pc' = "fallback"
    /\ UNCHANGED <<mode, outcome, started, pollerVars, connectVars, ctxDone, tunnel>>

(* The Get failed, or the tunnel is not ready any more. *)
FallbackFails ==
    /\ pc = "fallback"
    /\ \E err \in Failures : Return(err)
    /\ UNCHANGED <<mode, started, pollerVars, connectVars, ctxDone, tunnel>>

FallbackConnects ==
    /\ pc = "fallback"
    /\ ~ctxDone
    /\ tunnel.phase = "Ready"
    /\ pc' = "connect"
    /\ conn' = [conn EXCEPT !["main"] = "fetch"]
    /\ UNCHANGED <<mode, outcome, started, pollerVars, heard, ctxDone, tunnel>>

(* `return <-connectErrCh` *)
AwaitReturns ==
    /\ pc = "await"
    /\ connectErr # "none"
    /\ Return(connectErr)
    /\ connectErr' = "none"
    /\ UNCHANGED <<mode, started, poller, connectVars, ctxDone, tunnel>>

(* `return Connect(...)` *)
OwnConnectReturns ==
    /\ pc = "connect"
    /\ conn["main"] \in Errors
    /\ Return(conn["main"])
    /\ UNCHANGED <<mode, started, pollerVars, connectVars, ctxDone, tunnel>>

-----------------------------------------------------------------------------
(* The polling goroutine.  A Get that fails, or finds a tunnel without a URL,
   is tried again after half a second: a stutter here. *)

PollerConnects ==
    /\ Alive
    /\ poller = "poll"
    /\ ~ctxDone
    /\ Connects
    /\ started' = 1
    /\ poller' = "connect"
    /\ conn' = [conn EXCEPT !["poller"] = "fetch"]
    /\ UNCHANGED <<mode, pc, outcome, connectErr, heard, ctxDone, tunnel>>

(* The end of the context is reported, but as a connection that never started. *)
PollerCanceled ==
    /\ Alive
    /\ poller = "poll"
    /\ ctxDone
    /\ connectErr' = "canceled"
    /\ poller' = "done"
    /\ UNCHANGED <<mode, createVars, connectVars, ctxDone, tunnel>>

(* Mutant: the poller logs the error of Connect and does not pass it on. *)
MutKeepsError ==
    /\ Alive
    /\ poller = "connect"
    /\ conn["poller"] \in Errors
    /\ poller' = "done"
    /\ UNCHANGED <<mode, createVars, connectErr, connectVars, ctxDone, tunnel>>

PollerReports ==
    /\ Alive
    /\ poller = "connect"
    /\ conn["poller"] \in Errors
    /\ connectErr' = conn["poller"]
    /\ poller' = "done"
    /\ UNCHANGED <<mode, createVars, connectVars, ctxDone, tunnel>>

-----------------------------------------------------------------------------
(* Connect, of either caller. *)

ConnectMoves(c, to) ==
    /\ conn' = [conn EXCEPT ![c] = to]
    /\ UNCHANGED <<mode, createVars, pollerVars, ctxDone, tunnel>>

(* No tunnel, a tunnel that is not ready or has no URL, no token or one that
   has expired, or a failed call. *)
ConnectFails(c) ==
    /\ Alive
    /\ conn[c] \in {"fetch", "auth"}
    /\ \E err \in Failures : ConnectMoves(c, err)
    /\ UNCHANGED heard

ConnectFetches(c) ==
    /\ Alive
    /\ conn[c] = "fetch"
    /\ ~ctxDone
    /\ Connects
    /\ ConnectMoves(c, "auth")
    /\ UNCHANGED heard

ConnectAuthorized(c) ==
    /\ Alive
    /\ conn[c] = "auth"
    /\ ~ctxDone
    /\ ConnectMoves(c, "prepare")
    /\ UNCHANGED heard

(* NewClient cannot make a client of the URL or of the TLS options. *)
ClientFails(c) ==
    /\ Alive
    /\ conn[c] = "prepare"
    /\ ConnectMoves(c, "error")
    /\ UNCHANGED heard

(* tunnelCtx is a fresh one: that ctxDone may be set by now is not looked at. *)
SessionStarts(c) ==
    /\ Alive
    /\ conn[c] = "prepare"
    /\ ConnectMoves(c, "session")
    /\ UNCHANGED heard

(* Mutant: a stream that the server ended counts as a disconnection. *)
MutEndIsGraceful(c) ==
    /\ Alive
    /\ conn[c] = "session"
    /\ \E err \in Errors : ConnectMoves(c, err)
    /\ UNCHANGED heard

(* What EstablishTunnel makes of it: see TunnelClient. *)
SessionEnds(c) ==
    /\ Alive
    /\ conn[c] = "session"
    /\ \/ ConnectMoves(c, "error")
       \/ heard[c] = "cancel" /\ ConnectMoves(c, "canceled")
    /\ UNCHANGED heard

MenuAnswered(c) ==
    /\ Alive
    /\ conn[c] = "session"
    /\ heard[c] = "menu"
    /\ \E answer \in {"cancel", "continue"} : heard' = [heard EXCEPT ![c] = answer]
    /\ UNCHANGED <<mode, createVars, pollerVars, conn, ctxDone, tunnel>>

-----------------------------------------------------------------------------
(* The user and the cluster. *)

(* A signal cancels the context and reaches every session that still listens.
   Without --connect the context is the command's: it ends also with the
   timeout, and nobody looks at which of the two it was. *)
Interrupt ==
    /\ Alive
    /\ ctxDone' = TRUE
    /\ heard' = [c \in Callers |->
                    IF conn[c] = "session" /\ heard[c] = "none" THEN "menu"
                                                                ELSE heard[c]]
    /\ UNCHANGED <<mode, createVars, pollerVars, conn, tunnel>>

(* The controller reports any progress, other users create and delete. *)
ClusterChanges ==
    /\ Alive
    /\ tunnel' \in TunnelStates
    /\ UNCHANGED <<mode, createVars, pollerVars, connectVars, ctxDone>>

Terminated == pc = "exited" /\ UNCHANGED cvars

-----------------------------------------------------------------------------
MainStep ==
    \/ CreateRefused \/ TunnelExists \/ TunnelMissing
    \/ CreateFails \/ CreateSucceeds
    \/ WaitFails \/ WaitSucceeds
    \/ RefreshFails \/ Refreshes
    \/ HearsStarted \/ FallbackTimer
    \/ FallbackFails \/ FallbackConnects
    \/ AwaitReturns \/ OwnConnectReturns

PollerStep == PollerConnects \/ PollerCanceled \/ PollerReports

(* The steps of Connect that do not wait for the server or the user. *)
ConnectStep(c) ==
    \/ ConnectFails(c) \/ ConnectFetches(c)
    \/ ConnectAuthorized(c) \/ ClientFails(c) \/ SessionStarts(c)

SessionStep(c) == SessionEnds(c) \/ MenuAnswered(c)

Next ==
    \/ MainStep
    \/ PollerStep
    \/ \E c \in Callers : ConnectStep(c) \/ SessionStep(c)
    \/ Interrupt
    \/ ClusterChanges
    \/ Terminated

Spec == Init /\ [][Next]_cvars

(* Goroutines that can run do; the timers of the wait (two minutes) and of the
   select (five seconds) fire; the API server answers every call, or the
   client gives up on it.  A session the user cancelled ends, see
   InterruptAnswered of TunnelClient; no other session has to.  *)
Fairness ==
    /\ WF_cvars(MainStep)
    /\ WF_cvars(PollerStep)
    /\ \A c \in Callers :
          /\ WF_cvars(ConnectStep(c))
          /\ WF_cvars(MenuAnswered(c))
          /\ WF_cvars(heard[c] = "cancel" /\ SessionEnds(c))

FairSpec == Spec /\ Fairness

-----------------------------------------------------------------------------
InSession(c) == conn[c] = "session"

(* runTunnelCreate turns a canceled Create into exit status 0 if it was asked
   to connect. *)
ExitsWithZero ==
    \/ outcome = "ok"
    \/ outcome = "canceled" /\ mode \in Connecting

(* A command that is to connect claims success only if its user has
   interrupted it, whichever of its two goroutines the error came from. *)
SuccessIsAsked == ExitsWithZero /\ mode \in Connecting => ctxDone

(* main never waits on connectErrCh for a poller that will not write to it:
   the poller is still connecting, or its error is there to be read. *)
AwaitIsServed ==
    pc = "await" =>
        /\ conn["main"] = "off"
        /\ (poller = "connect" /\ conn["poller"] # "off") \/ connectErr # "none"

(* The two Connects meet only if main, when it turned to its own, had not been
   told of the poller's: what was told is still in the channel. *)
SecondIsUntold ==
    conn["main"] # "off" /\ conn["poller"] # "off" => started = 1

(* What makes them inductive. *)
Protocol ==
    /\ (outcome # "none") <=> (pc = "exited")
    /\ poller # "off" => mode = "connectWait"
    /\ poller \in {"off", "poll"} => conn["poller"] = "off" /\ started = 0
    /\ poller = "connect" => conn["poller"] # "off"
    /\ conn["poller"] # "off" => poller \in {"connect", "done"}
    /\ poller = "done" /\ conn["poller"] = "off" => started = 0
    /\ conn["main"] # "off" => pc \in {"connect", "exited"}
    /\ conn["main"] # "off" => mode \in Connecting
    /\ pc = "connect" => conn["main"] # "off" /\ mode \in Connecting
    /\ pc \in {"select", "fallback", "await"} => mode = "connectWait"
    /\ pc \in {"wait", "refresh"} => mode \in {"wait", "connectWait"}
    /\ pc \in {"get", "create"} => poller = "off"
    /\ pc \in {"get", "create", "wait", "refresh", "select", "fallback"} =>
          /\ conn["main"] = "off"
          /\ conn["poller"] # "off" => started = 1
    /\ connectErr # "none" => poller = "done"
    /\ poller = "done" /\ connectErr = "none" => pc = "exited"
    /\ outcome = "ok" => mode \notin Connecting
    /\ \A c \in Callers :
          /\ conn[c] = "canceled" => ctxDone
          /\ heard[c] # "none" => ctxDone
    /\ connectErr = "canceled" => ctxDone
    /\ outcome = "canceled" => ctxDone

CreateInv ==
    TypeOK /\ SuccessIsAsked /\ AwaitIsServed /\ SecondIsUntold /\ Protocol

(* Each call of Connect is one of ConnectSession, whichever goroutine makes it and
   whatever the other is doing: a signal reaches every session, but its answer
   ends only the one whose menu it was given to, and the end of the process
   ends a session with no answer at all. *)
PlaceOf(c) ==
    CASE conn[c] \in {"off", "fetch", "auth", "prepare"} -> "before"
      [] conn[c] = "session" -> IF Alive THEN "session" ELSE "error"
      [] OTHER               -> conn[c]

MainConnect   == INSTANCE ConnectSession
                     WITH place <- PlaceOf("main"), heard <- heard["main"]
PollerConnect == INSTANCE ConnectSession
                     WITH place <- PlaceOf("poller"), heard <- heard["poller"]

ImplementsConnect == MainConnect!Spec /\ PollerConnect!Spec

ImplementsConnectSafety == MainConnect!Safety /\ PollerConnect!Safety

(* The command ends, or it comes to hold a session, whatever becomes of the
   tunnel: neither channel leaves it waiting for ever. *)
CreateSettles == []<>(pc = "exited" \/ \E c \in Callers : InSession(c))

-----------------------------------------------------------------------------
(* What the code says of itself and does not keep. *)

(* "If connection hasn't started after tunnel is ready, check status and try
   manually": one command does not hold two sessions of its tunnel. *)
OneSession == ~(InSession("main") /\ InSession("poller"))
=============================================================================
