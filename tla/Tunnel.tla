------------------------------- MODULE Tunnel --------------------------------
(***************************************************************************)
(* A connected tunnel: TunnelClient, whose reader starts the handlers, and *)
(* TunnelForward, whose handlers write the flag the monitors read.  The    *)
(* two share needsReconnect, and they share the process: when Connect has  *)
(* returned, the handlers are gone wherever they were.                     *)
(***************************************************************************)
EXTENDS TunnelClient

CONSTANT Requests

VARIABLES
    handler,     \* as in TunnelForward
    delivered,   \* as in TunnelForward
    late         \* requests started after the context was cancelled

handlerVars == <<handler, delivered>>
tunnelVars  == <<vars, handlerVars, late>>

Forward == INSTANCE TunnelForward

TunnelInit ==
    /\ Init
    /\ Forward!Init
    /\ late = {}

(* `go tc.handleRequestEventWithTracking(data)`: the handler is not counted
   in requestWg. *)
StartRequest(r) ==
    /\ ReceiveRequest
    /\ Forward!Start(r)
    /\ late' = IF ctxDone THEN late \cup {r} ELSE late

(* Handlers use a context of their own: neither the cancellation nor the
   shutdown reaches them. *)
ServeRequest(r) ==
    /\ Alive
    /\ Forward!HandlerStep(r)
    /\ UNCHANGED <<mainVars, pingAge, ctxDone, shutdown, monitor, sigVars, late>>

ClientStep ==
    /\ \/ MainStep \/ NetworkStep
       \/ \E a \in Attempts : MonitorStep(a)
       \/ SignalStep \/ DeleteApplied \/ Interrupt \/ Tick
       \/ Terminated
    /\ UNCHANGED <<handlerVars, late>>

TunnelNext ==
    \/ ClientStep
    \/ \E r \in Requests : StartRequest(r) \/ ServeRequest(r)

TunnelSpec == TunnelInit /\ [][TunnelNext]_tunnelVars

-----------------------------------------------------------------------------
(* The handlers do to the client nothing but what TunnelClient lets them. *)
ImplementsClient == Spec

(* The client does to the handlers nothing but what TunnelForward lets it:
   in particular the flag's two writers, loop and handlers, are the only ones. *)
ImplementsForward == Forward!Spec

(* Once the context is cancelled at most one more request is started: the one
   whose event line the reader had already read. *)
AtMostOneLateRequest == \A r, s \in late : r = s
=============================================================================
