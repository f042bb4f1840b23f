---------------------------- MODULE TunnelClient -----------------------------
(***************************************************************************)
(* The client side of a tunnel: internal/tunnel/connect.go, from the       *)
(* moment Connect calls EstablishTunnel until the process that ran it      *)
(* ends.  Four kinds of goroutine share the Client and its context:        *)
(*                                                                         *)
(*  - main: the retry loop of EstablishTunnel, the dial in                 *)
(*    establishSingleConnection, the SSE reader handleSSEEvents, and the   *)
(*    deferred cancel and Close of Connect;                                *)
(*  - the signal goroutine: reads one Ctrl+C and runs the menu;            *)
(*  - one health monitor for every connection that was ever opened;        *)
(*  - the request handlers, which this module sees only through the flag   *)
(*    they write (module TunnelForward models them, Tunnel composes both). *)
(*                                                                         *)
(* The server, the network and the user are the environment: they may do   *)
(* anything the client's libraries can report, or nothing at all.          *)
(*                                                                         *)
(* Time is kept as the age of the last ping (lastPing in the code is a     *)
(* timestamp that is only ever compared with now): it grows with Tick and  *)
(* saturates just above PingTimeout, where every larger age acts alike.    *)
(***************************************************************************)
EXTENDS Naturals

CONSTANTS
    MaxRetries,     \* maxRetries, 10 in the code
    PingTimeout     \* pingTimeout, 90 seconds in the code

ASSUME MaxRetriesAssumption == MaxRetries \in Nat \ {0}
ASSUME PingTimeoutAssumption == PingTimeout \in Nat

VARIABLES
    pc,             \* where main is, see Phases
    attempt,        \* the loop variable of EstablishTunnel
    result,         \* what EstablishTunnel returned, "none" before it did
    state,          \* Client.state
    reconnectCount, \* Client.reconnectCount
    needsReconnect, \* Client.needsReconnect
    pingAge,        \* now - Client.lastPing, NeverPinged for lastPing = 0
    ctxDone,        \* tunnelCtx is cancelled
    shutdown,       \* Client.shutdownCtx is cancelled
    monitor,        \* the health monitor of each attempt's connection
    interrupts,     \* signals waiting in sigCh
    sig,            \* where the signal goroutine is, see SigPhases
    choice,         \* what the user answered in the menu
    tunnel          \* the Tunnel resource in the cluster

mainVars == <<pc, attempt, result, state, reconnectCount>>
sigVars  == <<interrupts, sig, choice, tunnel>>
vars     == <<mainVars, needsReconnect, pingAge, ctxDone, shutdown, monitor,
              sigVars>>

Attempts == 0..(MaxRetries - 1)

(* "check" is the top of the retry loop, "delay" the backoff, "dial" the
   SSE request, "read" scanner.Scan for an event line and "data" for its data
   line, "return" the deferred cancel, "closing" the deferred Close, "exited"
   the end of the process. *)
Phases == {"check", "delay", "dial", "read", "data", "return", "closing",
           "exited"}

Reading == {"read", "data"}

States == {"Disconnected", "Connecting", "Connected", "Reconnecting", "Failed"}

Results == {"canceled", "nonRecoverable", "exhausted"}

NeverPinged == PingTimeout + 2
Stale(age)  == age = PingTimeout + 1

SigPhases == {"wait", "menu", "deleting", "cancelling", "done"}

Stops == {"delete", "disconnect"}    \* the answers that end the tunnel

(* How an attempt fails: sseClient.Do fails below HTTP, the server answers
   401 or 403, or another status with a body, the stream ends, breaks, or
   carries an error event. *)
Kinds == {"transport", "refused", "rejected", "ended", "broken", "serverError"}

(* Whether the error text holds one of the four markers of
   isNonRecoverableError.  A 401 or 403 status is always part of the text and
   the text of an ended stream is fixed; the others quote addresses, ports,
   stream numbers or what the server wrote, and can hold "401" or "403". *)
Marked(kind) ==
    CASE kind = "refused" -> {TRUE}
      [] kind = "ended"   -> {FALSE}
      [] OTHER            -> BOOLEAN

TypeOK ==
    /\ pc \in Phases
    /\ attempt \in 0..MaxRetries
    /\ result \in Results \cup {"none"}
    /\ state \in States
    /\ reconnectCount \in 0..MaxRetries
    /\ needsReconnect \in {0, 1}
    /\ pingAge \in 0..NeverPinged
    /\ ctxDone \in BOOLEAN
    /\ shutdown \in BOOLEAN
    /\ monitor \in [Attempts -> {"none", "on", "off", "lost", "timedOut"}]
    /\ interrupts \in {0, 1}
    /\ sig \in SigPhases
    /\ choice \in Stops \cup {"none", "continue"}
    /\ tunnel \in {"present", "deleted"}

Init ==
    /\ pc = "check"
    /\ attempt = 0
    /\ result = "none"
    /\ state = "Disconnected"
    /\ reconnectCount = 0
    /\ needsReconnect = 0
    /\ pingAge = NeverPinged
    /\ ctxDone = FALSE
    /\ shutdown = FALSE
    /\ monitor = [a \in Attempts |-> "none"]
    /\ interrupts = 0
    /\ sig = "wait"
    /\ choice = "none"
    /\ tunnel = "present"

Alive == pc # "exited"

-----------------------------------------------------------------------------
(* How one pass of the loop ends. *)

(* The cancellation of the context is reported as such. *)
ReturnCanceled ==
    /\ pc' = "return"
    /\ result' = "canceled"
    /\ UNCHANGED <<attempt, state, reconnectCount>>

(* Mutant: a failed attempt is not counted. *)
MutUncountedFailure(kind) ==
    /\ IF Marked(kind) = {TRUE}
         THEN /\ state' = "Failed"
              /\ result' = "nonRecoverable"
              /\ pc' = "return"
         ELSE /\ pc' = "check"
              /\ UNCHANGED <<state, result>>
    /\ UNCHANGED <<attempt, reconnectCount>>

(* The error of the attempt is looked at: a non-recoverable one ends the
   session, any other leads to the next pass. *)
AttemptFails(kind) ==
    /\ \/ /\ TRUE \in Marked(kind)
          /\ state' = "Failed"
          /\ result' = "nonRecoverable"
          /\ pc' = "return"
          /\ UNCHANGED attempt
       \/ /\ FALSE \in Marked(kind)
          /\ attempt' = attempt + 1
          /\ pc' = "check"
          /\ UNCHANGED <<state, result>>
    /\ UNCHANGED reconnectCount

-----------------------------------------------------------------------------
(* The retry loop.  Close runs only after the loop has returned, so the
   shutdownCtx branches of its selects are never taken: see Coordination. *)

Exhausted ==
    /\ pc = "check"
    /\ attempt = MaxRetries
    /\ state' = "Failed"
    /\ result' = "exhausted"
    /\ pc' = "return"
    /\ UNCHANGED <<attempt, reconnectCount, needsReconnect, pingAge,
                   ctxDone, shutdown, monitor, sigVars>>

LoopCanceled ==
    /\ pc = "check"
    /\ attempt < MaxRetries
    /\ ctxDone
    /\ ReturnCanceled
    /\ UNCHANGED <<needsReconnect, pingAge, ctxDone, shutdown, monitor, sigVars>>

(* Mutant: a retry does not say that it is one. *)
MutSilentRetry ==
    /\ pc = "check"
    /\ attempt < MaxRetries
    /\ ~ctxDone
    /\ needsReconnect' = 0
    /\ state' = IF attempt = 0 THEN "Connecting" ELSE state
    /\ reconnectCount' = reconnectCount + (IF attempt = 0 THEN 0 ELSE 1)
    /\ pc' = IF attempt = 0 THEN "dial" ELSE "delay"
    /\ UNCHANGED <<attempt, result, pingAge, ctxDone, shutdown, monitor,
                   sigVars>>

BeginAttempt ==
    /\ pc = "check"
    /\ attempt < MaxRetries
    /\ ~ctxDone
    /\ needsReconnect' = 0
    /\ IF attempt = 0
         THEN /\ state' = "Connecting"
              /\ pc' = "dial"
              /\ UNCHANGED reconnectCount
         ELSE /\ state' = "Reconnecting"
              /\ pc' = "delay"
              /\ reconnectCount' = reconnectCount + 1
    /\ UNCHANGED <<attempt, result, pingAge, ctxDone, shutdown, monitor,
                   sigVars>>

(* The timer wins the select, which it may also when the context is done. *)
DelayElapsed ==
    /\ pc = "delay"
    /\ pc' = "dial"
    /\ UNCHANGED <<attempt, result, state, reconnectCount,
                   needsReconnect, pingAge, ctxDone, shutdown, monitor, sigVars>>

DelayCanceled ==
    /\ pc = "delay"
    /\ ctxDone
    /\ ReturnCanceled
    /\ UNCHANGED <<needsReconnect, pingAge, ctxDone, shutdown, monitor, sigVars>>

-----------------------------------------------------------------------------
(* establishSingleConnection.  sseClient has no timeout: the dial may hang. *)

DialFails ==
    /\ pc = "dial"
    /\ \E kind \in {"transport", "refused", "rejected"} : AttemptFails(kind)
    /\ UNCHANGED <<needsReconnect, pingAge, ctxDone, shutdown, monitor, sigVars>>

DialCanceled ==
    /\ pc = "dial"
    /\ ctxDone
    /\ ReturnCanceled
    /\ UNCHANGED <<needsReconnect, pingAge, ctxDone, shutdown, monitor, sigVars>>

(* Mutant: the monitor is not started. *)
MutUnmonitored ==
    /\ pc = "dial"
    /\ state' = "Connected"
    /\ needsReconnect' = 0
    /\ pc' = "read"
    /\ UNCHANGED <<attempt, result, reconnectCount, pingAge, ctxDone,
                   shutdown, monitor, sigVars>>

(* The server answers 200; the monitor of this connection is started. *)
DialSucceeds ==
    /\ pc = "dial"
    /\ state' = "Connected"
    /\ needsReconnect' = 0
    /\ monitor' = [monitor EXCEPT ![attempt] = "on"]
    /\ pc' = "read"
    /\ UNCHANGED <<attempt, result, reconnectCount, pingAge, ctxDone,
                   shutdown, sigVars>>

-----------------------------------------------------------------------------
(* handleSSEEvents.  The context is looked at after each event line only:
   the data line that follows is read, and acted on, without a second look. *)

(* Mutant: the context is not looked at between events. *)
MutReadOn ==
    /\ pc = "read"
    /\ pc' = "data"
    /\ UNCHANGED <<attempt, result, state, reconnectCount,
                   needsReconnect, pingAge, ctxDone, shutdown, monitor, sigVars>>

ReadEventLine ==
    /\ pc = "read"
    /\ ~ctxDone
    /\ pc' = "data"
    /\ UNCHANGED <<attempt, result, state, reconnectCount,
                   needsReconnect, pingAge, ctxDone, shutdown, monitor, sigVars>>

ReceivePing ==
    /\ pc = "data"
    /\ pingAge' = 0
    /\ pc' = "read"
    /\ UNCHANGED <<attempt, result, state, reconnectCount,
                   needsReconnect, ctxDone, shutdown, monitor, sigVars>>

(* A request starts a handler, which runs on its own from here. *)
ReceiveRequest ==
    /\ pc = "data"
    /\ pc' = "read"
    /\ UNCHANGED <<attempt, result, state, reconnectCount,
                   needsReconnect, pingAge, ctxDone, shutdown, monitor, sigVars>>

(* A pong, an unknown event, or an event line without its data line. *)
ReceiveOther == ReceiveRequest

ReceiveError ==
    /\ pc = "data"
    /\ AttemptFails("serverError")
    /\ UNCHANGED <<needsReconnect, pingAge, ctxDone, shutdown, monitor, sigVars>>

(* The end of the stream is reported as an error even after a cancellation. *)
StreamEnds ==
    /\ pc \in Reading
    /\ AttemptFails("ended")
    /\ UNCHANGED <<needsReconnect, pingAge, ctxDone, shutdown, monitor, sigVars>>

StreamBreaks ==
    /\ pc \in Reading
    /\ ~ctxDone
    /\ AttemptFails("broken")
    /\ UNCHANGED <<needsReconnect, pingAge, ctxDone, shutdown, monitor, sigVars>>

(* A cancelled context closes the body under the reader (the goroutine of
   handleSSEEventsWithContext), whose Scan then fails. *)
ReadCanceled ==
    /\ pc \in Reading
    /\ ctxDone
    /\ ReturnCanceled
    /\ UNCHANGED <<needsReconnect, pingAge, ctxDone, shutdown, monitor, sigVars>>

-----------------------------------------------------------------------------
(* The deferred calls of Connect, last deferred first. *)

DeferredCancel ==
    /\ pc = "return"
    /\ ctxDone' = TRUE
    /\ pc' = "closing"
    /\ UNCHANGED <<attempt, result, state, reconnectCount,
                   needsReconnect, pingAge, shutdown, monitor, sigVars>>

CloseShutsDown ==
    /\ pc = "closing"
    /\ ~shutdown
    /\ shutdown' = TRUE
    /\ UNCHANGED <<mainVars, needsReconnect, pingAge, ctxDone, monitor, sigVars>>

(* requestWg is never added to, so its Wait returns at once: the ten-second
   timeout of Close is never reached.  Then the process ends. *)
CloseReturns ==
    /\ pc = "closing"
    /\ shutdown
    /\ state' = "Disconnected"
    /\ pc' = "exited"
    /\ UNCHANGED <<attempt, result, reconnectCount, needsReconnect,
                   pingAge, ctxDone, shutdown, monitor, sigVars>>

-----------------------------------------------------------------------------
(* monitorConnectionHealth: the monitor of connection a watches the shared
   lastPing and needsReconnect until it gives up or everything ends, also when
   connection a itself is long gone.  Giving up is all that it does. *)

MonitorStops(a) ==
    /\ Alive
    /\ monitor[a] = "on"
    /\ ctxDone \/ shutdown
    /\ monitor' = [monitor EXCEPT ![a] = "off"]
    /\ UNCHANGED <<mainVars, needsReconnect, pingAge, ctxDone, shutdown, sigVars>>

(* A ticker fires and finds the flag that a 404 left. *)
MonitorSeesLoss(a) ==
    /\ Alive
    /\ monitor[a] = "on"
    /\ needsReconnect = 1
    /\ monitor' = [monitor EXCEPT ![a] = "lost"]
    /\ UNCHANGED <<mainVars, needsReconnect, pingAge, ctxDone, shutdown, sigVars>>

(* Mutant: a monitor that times out raises the flag. *)
MutTimeoutRaisesFlag(a) ==
    /\ Alive
    /\ monitor[a] = "on"
    /\ Stale(pingAge)
    /\ monitor' = [monitor EXCEPT ![a] = "timedOut"]
    /\ needsReconnect' = 1
    /\ UNCHANGED <<mainVars, pingAge, ctxDone, shutdown, sigVars>>

(* A ticker fires and finds the last ping too old; lastPing is not reset by a
   new connection, so that ping may be the one of an earlier connection. *)
MonitorTimesOut(a) ==
    /\ Alive
    /\ monitor[a] = "on"
    /\ needsReconnect = 0
    /\ Stale(pingAge)
    /\ monitor' = [monitor EXCEPT ![a] = "timedOut"]
    /\ UNCHANGED <<mainVars, needsReconnect, pingAge, ctxDone, shutdown, sigVars>>

-----------------------------------------------------------------------------
(* The signal goroutine of Connect and its menu. *)

(* sigCh has room for one signal; a signal that finds it full is dropped. *)
Interrupt ==
    /\ Alive
    /\ interrupts = 0
    /\ interrupts' = 1
    /\ UNCHANGED <<mainVars, needsReconnect, pingAge, ctxDone, shutdown, monitor,
                   sig, choice, tunnel>>

(* The goroutine receives once: it is not a loop. *)
SignalReceived ==
    /\ Alive
    /\ sig = "wait"
    /\ interrupts = 1
    /\ interrupts' = 0
    /\ sig' = "menu"
    /\ UNCHANGED <<mainVars, needsReconnect, pingAge, ctxDone, shutdown, monitor,
                   choice, tunnel>>

(* Mutant: "continue" is not recognised and means "disconnect". *)
MutNoContinue ==
    /\ Alive
    /\ sig = "menu"
    /\ choice' \in {"delete", "disconnect", "continue"}
    /\ sig' = IF choice' = "delete" THEN "deleting" ELSE "cancelling"
    /\ UNCHANGED <<mainVars, needsReconnect, pingAge, ctxDone, shutdown, monitor,
                   interrupts, tunnel>>

(* Thirty seconds of silence, an unknown answer and a failed prompt all mean
   "disconnect". *)
MenuAnswered ==
    /\ Alive
    /\ sig = "menu"
    /\ choice' \in {"delete", "disconnect", "continue"}
    /\ sig' = CASE choice' = "delete"     -> "deleting"
                [] choice' = "disconnect" -> "cancelling"
                [] choice' = "continue"   -> "done"
    /\ UNCHANGED <<mainVars, needsReconnect, pingAge, ctxDone, shutdown, monitor,
                   interrupts, tunnel>>

DeleteApplied ==
    /\ Alive
    /\ sig = "deleting"
    /\ tunnel = "present"
    /\ tunnel' = "deleted"
    /\ UNCHANGED <<mainVars, needsReconnect, pingAge, ctxDone, shutdown, monitor,
                   interrupts, sig, choice>>

(* DeleteWithOptions returns, with or without an error, before its 30-second
   context ends; either way the menu goes on to cancel. *)
DeleteReturns ==
    /\ Alive
    /\ sig = "deleting"
    /\ sig' = "cancelling"
    /\ UNCHANGED <<mainVars, needsReconnect, pingAge, ctxDone, shutdown, monitor,
                   interrupts, choice, tunnel>>

(* Mutant: a failed deletion returns before the call of cancel. *)
MutCancelAfterSuccess ==
    /\ Alive
    /\ sig = "cancelling"
    /\ choice = "delete" => tunnel = "deleted"
    /\ ctxDone' = TRUE
    /\ sig' = "done"
    /\ UNCHANGED <<mainVars, needsReconnect, pingAge, shutdown, monitor,
                   interrupts, choice, tunnel>>

MenuCancels ==
    /\ Alive
    /\ sig = "cancelling"
    /\ ctxDone' = TRUE
    /\ sig' = "done"
    /\ UNCHANGED <<mainVars, needsReconnect, pingAge, shutdown, monitor,
                   interrupts, choice, tunnel>>

-----------------------------------------------------------------------------
(* The environment of these goroutines. *)

Tick ==
    /\ Alive
    /\ pingAge <= PingTimeout
    /\ pingAge' = pingAge + 1
    /\ UNCHANGED <<mainVars, needsReconnect, ctxDone, shutdown, monitor, sigVars>>

(* sendResponse of some handler: 1 after a 404, 0 after a 200.  Handlers are
   born of connections and outlive them. *)
HandlerReports(flag) ==
    /\ Alive
    /\ \E a \in Attempts : monitor[a] # "none"
    /\ needsReconnect' = flag
    /\ UNCHANGED <<mainVars, pingAge, ctxDone, shutdown, monitor, sigVars>>

Terminated == pc = "exited" /\ UNCHANGED vars

-----------------------------------------------------------------------------
(* The steps main takes on its own: everything but the answers of the server
   and of the network. *)
MainStep ==
    \/ Exhausted \/ LoopCanceled \/ BeginAttempt
    \/ DelayElapsed \/ DelayCanceled
    \/ DialCanceled \/ ReadCanceled
    \/ DeferredCancel \/ CloseShutsDown \/ CloseReturns

NetworkStep ==
    \/ DialFails \/ DialSucceeds
    \/ ReadEventLine \/ ReceivePing \/ ReceiveOther
    \/ ReceiveError \/ StreamEnds \/ StreamBreaks

MonitorStep(a) == MonitorStops(a) \/ MonitorSeesLoss(a) \/ MonitorTimesOut(a)

SignalStep == SignalReceived \/ MenuAnswered \/ DeleteReturns \/ MenuCancels

Next ==
    \/ MainStep
    \/ NetworkStep
    \/ ReceiveRequest
    \/ \E a \in Attempts : MonitorStep(a)
    \/ SignalStep
    \/ DeleteApplied
    \/ Interrupt
    \/ Tick
    \/ \E flag \in {0, 1} : HandlerReports(flag)
    \/ Terminated

Spec == Init /\ [][Next]_vars

(* The Go scheduler runs every goroutine that can run; the backoff timer, the
   tickers, the menu's 30-second timeout and the 30-second context of the
   deletion all fire.  Nothing is assumed of the server or the network, nor
   that the user presses Ctrl+C. *)
Fairness ==
    /\ WF_vars(MainStep)
    /\ WF_vars(SignalStep)
    /\ \A a \in Attempts : WF_vars(MonitorStep(a))

FairSpec == Spec /\ Fairness

-----------------------------------------------------------------------------
(* Safety. *)

(* Connect reports a graceful end, which cmd/tunnel.go turns into exit status
   0, only when the user asked the menu for it, and only after the menu is
   through with it: a deletion the user asked for is never cut short by an
   exit that claims success. *)
GracefulEndIsAsked == result = "canceled" => choice \in Stops /\ sig = "done"

(* The state the client shows is the state main is in: it says "Connected"
   whenever it reads a stream, and otherwise only until the loop comes to act
   on the loss of a connection that was the last or the last but one tried;
   "Failed" only once the loop has given up; "Disconnected" at the end. *)
AdvertisedState ==
    /\ pc \in Reading => state = "Connected"
    /\ pc \in {"delay", "dial"} =>
          state = IF attempt = 0 THEN "Connecting" ELSE "Reconnecting"
    /\ state = "Connected" =>
          \E a \in Attempts : monitor[a] # "none" /\ attempt \in {a, a + 1}
    /\ state = "Failed" => result \in {"nonRecoverable", "exhausted"}
    /\ pc = "exited" => state = "Disconnected"

(* What the client's parts keep true together; with TypeOK, GracefulEndIsAsked
   and AdvertisedState it is inductive.  Two of its lines carry the model: the
   loop never runs beside Close, so the shutdownCtx branches of its selects are
   dead; and as long as the loop runs, only the menu can have cancelled. *)
Coordination ==
    /\ result # "none" <=> pc \in {"return", "closing", "exited"}
    /\ pc \in {"delay", "dial"} \cup Reading => attempt < MaxRetries
    /\ pc = "check" => reconnectCount = IF attempt = 0 THEN 0 ELSE attempt - 1
    /\ pc \in {"delay", "dial"} \cup Reading => reconnectCount = attempt
    /\ shutdown => pc \in {"closing", "exited"}
    /\ ctxDone => (choice \in Stops /\ sig = "done") \/ pc \in {"closing", "exited"}
    /\ sig \in {"wait", "menu"} => choice = "none"
    /\ sig = "deleting" => choice = "delete"
    /\ sig = "cancelling" => choice \in Stops
    /\ \A a \in Attempts : monitor[a] # "none" => a <= attempt
    /\ pc \in {"check", "delay", "dial"} =>
          \A a \in Attempts : monitor[a] # "none" => a < attempt
    /\ pc \in Reading => monitor[attempt] # "none"

IInv == TypeOK /\ GracefulEndIsAsked /\ AdvertisedState /\ Coordination

-----------------------------------------------------------------------------
(* The promise of TunnelSession, and how the client keeps it. *)

SessionLink == IF pc \in Reading THEN "up" ELSE "down"

(* The tries made: those counted by the loop and the one that opened the
   connection which the loop has not counted yet. *)
SessionTries ==
    IF attempt \in Attempts /\ monitor[attempt] # "none" THEN attempt + 1 ELSE attempt

SessionVerdict ==
    CASE result = "none"           -> "running"
      [] result = "canceled"       -> "ok"
      [] result = "nonRecoverable" -> "refused"
      [] result = "exhausted"      -> "exhausted"

Session == INSTANCE TunnelSession WITH
    MaxTries <- MaxRetries,
    link     <- SessionLink,
    tries    <- SessionTries,
    asked    <- choice \in Stops,
    verdict  <- SessionVerdict

(* The loop, the reader, the menu and the deferred calls together make one
   session as TunnelSession describes it: at most MaxRetries connections in its
   whole life however long each of them lasted, one verdict, a graceful one
   only on request, and an end after a request. *)
ImplementsSession == Session!Spec

(* Its safety part, which is proved for every MaxRetries. *)
ImplementsSessionSafety == Session!Safety

-----------------------------------------------------------------------------
(* The call of Connect that TunnelCreate makes. *)

(* A signal that waits for a goroutine that still listens is as good as heard. *)
HeardOf ==
    CASE choice = "continue" -> "continue"
      [] choice \in Stops    -> "cancel"
      [] OTHER -> IF sig = "menu" \/ interrupts = 1 THEN "menu" ELSE "none"

PlaceOf ==
    IF Alive THEN "session" ELSE IF result = "canceled" THEN "canceled" ELSE "error"

Connect == INSTANCE ConnectSession WITH place <- PlaceOf, heard <- HeardOf

(* A session has the single menu and the two ways of returning on which Create
   relies: an answered signal is never asked about again, Connect returns
   context.Canceled only to one that was answered with a stop, and when it was,
   Connect does return. *)
ImplementsConnect == Connect!Spec

ImplementsConnectSafety == Connect!Safety

-----------------------------------------------------------------------------
(* Main has come that far. *)
Rank ==
    CASE pc = "delay"   -> 7
      [] pc = "dial"    -> 6
      [] pc = "data"    -> 5
      [] pc = "read"    -> 4
      [] pc = "check"   -> 3
      [] pc = "return"  -> 2
      [] pc = "closing" -> 1
      [] pc = "exited"  -> 0

(* A cancelled session only winds down: whatever the server does, every step of
   main takes it nearer to the exit, so that at most one connection is still
   opened and one event acted on, and no attempt is begun. *)
WindsDown == [][ctxDone /\ pc' # pc => Rank' < Rank]_vars

-----------------------------------------------------------------------------
(* Liveness. *)

(* The first Ctrl+C is always answered, whatever main is doing and however
   silent the server is: the process ends, unless the user chooses to go on. *)
InterruptAnswered ==
    (interrupts = 1 /\ sig = "wait") ~> (pc = "exited" \/ choice = "continue")

-----------------------------------------------------------------------------
(* What the code says of itself and does not keep; each has a run that finds
   the counterexample. *)

(* "Connection is dead, trigger reconnection by returning", says connect.go of
   a monitor that times out: the connection it watches, if it stays silent, is
   then not read for ever. *)
TimeoutReconnects ==
    \A a \in Attempts :
        (monitor[a] = "timedOut" /\ attempt = a /\ Stale(pingAge))
            ~> (pc \notin Reading \/ attempt # a \/ ~Stale(pingAge))
=============================================================================
