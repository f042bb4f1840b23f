---------------------------- MODULE TunnelProofs -----------------------------
(***************************************************************************)
(* The composition for every number of attempts and every set of requests: *)
(* it implements both of its parts, and a cancellation lets at most one    *)
(* more request through.                                                   *)
(***************************************************************************)
EXTENDS Tunnel, TunnelClientProofs

(* A handler was started by a connection, on an event line that the reader had
   read before any cancellation. *)
TunnelInv ==
    /\ IInv
    /\ handler \in [Requests -> {"none"} \cup Forward!InFlight \cup Forward!Settled]
    /\ \A r \in Requests : handler[r] # "none" => \E a \in Attempts : monitor[a] # "none"
    /\ late # {} => ctxDone /\ pc # "data"
    /\ AtMostOneLateRequest

(* A tunnel begins with a fresh client and no requests. *)
LEMMA InitTunnelInv == TunnelInit => TunnelInv
  BY InitIInv DEF TunnelInit, Forward!Init, TunnelInv, AtMostOneLateRequest

(* A step of a handler is, to the client, a report or nothing. *)
LEMMA ServeIsReport ==
  ASSUME TunnelInv, NEW r \in Requests, ServeRequest(r)
  PROVE  [Next]_vars
<1> USE DEF Forward!ParseFails, Forward!Parses, Forward!LocalFails,
            Forward!LocalAnswers, Forward!Post, Forward!Hears200,
            Forward!Hears404, Forward!HearsError, Forward!Moves
<1>1. handler[r] # "none"
  BY DEF ServeRequest, Forward!HandlerStep, Forward!Posting
<1>2. needsReconnect' \in {0, 1} \/ UNCHANGED needsReconnect
  BY DEF ServeRequest, Forward!HandlerStep
<1>3. CASE needsReconnect' \in {0, 1}
  <2>1. HandlerReports(needsReconnect')
    BY <1>1 DEF ServeRequest, TunnelInv, HandlerReports
  <2> QED
    BY <1>3, <2>1 DEF Next
<1>4. CASE UNCHANGED needsReconnect
  BY <1>4 DEF ServeRequest, vars
<1> QED
  BY <1>2, <1>3, <1>4

(* To the client, a handler is HandlerReports or does nothing. *)
LEMMA StepIsClientStep == TunnelInv /\ [TunnelNext]_tunnelVars => [Next]_vars
<1> SUFFICES ASSUME TunnelInv, [TunnelNext]_tunnelVars
             PROVE  [Next]_vars
  OBVIOUS
<1>1. CASE ClientStep
  BY <1>1 DEF ClientStep, Next
<1>2. ASSUME NEW r \in Requests, StartRequest(r)
      PROVE  [Next]_vars
  BY <1>2 DEF StartRequest, Next
<1>3. ASSUME NEW r \in Requests, ServeRequest(r)
      PROVE  [Next]_vars
  BY <1>3, ServeIsReport
<1>4. CASE UNCHANGED tunnelVars
  BY <1>4 DEF tunnelVars
<1> QED
  BY <1>1, <1>2, <1>3, <1>4 DEF TunnelNext

(* No step of the client takes a connection back or a cancellation back, and
   none but ReadEventLine, which looks at the context, leads to a data line. *)
LEMMA ClientKeeps ==
  ASSUME IInv, [Next]_vars
  PROVE  /\ (\E a \in Attempts : monitor[a] # "none")
              => \E a \in Attempts : monitor'[a] # "none"
         /\ ctxDone => ctxDone'
         /\ ctxDone /\ pc # "data" => pc' # "data"
<1> USE DEF IInv, TypeOK, mainVars, sigVars
<1>1. ASSUME NEW a \in Attempts, MonitorStep(a)
      PROVE  /\ \A b \in Attempts : monitor'[b] # "none" <=> monitor[b] # "none"
             /\ UNCHANGED <<pc, ctxDone>>
  BY <1>1 DEF MonitorStep, MonitorStops, MonitorSeesLoss, MonitorTimesOut
<1>2. CASE DialSucceeds
  BY <1>2 DEF DialSucceeds, Coordination, Attempts
<1>3. CASE LoopCanceled \/ DelayCanceled \/ DialCanceled \/ ReadCanceled
  BY <1>3 DEF LoopCanceled, DelayCanceled, DialCanceled, ReadCanceled, ReturnCanceled
<1>4. CASE DialFails \/ ReceiveError \/ StreamEnds \/ StreamBreaks
  BY <1>4 DEF DialFails, ReceiveError, StreamEnds, StreamBreaks, AttemptFails
<1>5. CASE Exhausted \/ BeginAttempt \/ DelayElapsed
  BY <1>5 DEF Exhausted, BeginAttempt, DelayElapsed
<1>6. CASE DeferredCancel \/ CloseShutsDown \/ CloseReturns
  BY <1>6 DEF DeferredCancel, CloseShutsDown, CloseReturns
<1>7. CASE ReadEventLine \/ ReceivePing \/ ReceiveRequest
  BY <1>7 DEF ReadEventLine, ReceivePing, ReceiveRequest
<1>8. CASE SignalStep \/ DeleteApplied \/ Interrupt \/ Tick
  BY <1>8 DEF SignalStep, SignalReceived, MenuAnswered, DeleteReturns, MenuCancels,
              DeleteApplied, Interrupt, Tick
<1>9. ASSUME NEW flag \in {0, 1}, HandlerReports(flag)
      PROVE  UNCHANGED <<pc, ctxDone, monitor>>
  BY <1>9 DEF HandlerReports
<1>10. CASE UNCHANGED vars
  BY <1>10 DEF vars
<1> QED
  BY <1>1, <1>2, <1>3, <1>4, <1>5, <1>6, <1>7, <1>8, <1>9, <1>10
  DEF Next, MainStep, NetworkStep, ReceiveOther, Terminated

(* After the cancellation the reader has at most one event line in hand. *)
LEMMA StepTunnelInv == TunnelInv /\ [TunnelNext]_tunnelVars => TunnelInv'
<1> SUFFICES ASSUME TunnelInv, [TunnelNext]_tunnelVars
             PROVE  TunnelInv'
  OBVIOUS
<1>1. [Next]_vars
  BY StepIsClientStep
<1>2. IInv'
  BY <1>1, StepIInv DEF TunnelInv
<1>3. /\ (\E a \in Attempts : monitor[a] # "none")
           => \E a \in Attempts : monitor'[a] # "none"
      /\ ctxDone => ctxDone'
      /\ ctxDone /\ pc # "data" => pc' # "data"
  BY <1>1, ClientKeeps DEF TunnelInv
<1>4. ASSUME UNCHANGED <<handler, late>>
      PROVE  TunnelInv'
  BY <1>2, <1>3, <1>4 DEF TunnelInv, AtMostOneLateRequest
<1>5. ASSUME NEW r \in Requests, StartRequest(r)
      PROVE  TunnelInv'
  <2>1. /\ pc = "data" /\ pc' = "read" /\ UNCHANGED <<ctxDone, monitor>>
        /\ handler' = [handler EXCEPT ![r] = "parse"]
        /\ late' = IF ctxDone THEN late \cup {r} ELSE late
    BY <1>5 DEF StartRequest, ReceiveRequest, Forward!Start, Forward!Moves
  <2>2. late = {}
    BY <2>1 DEF TunnelInv
  <2>3. \E a \in Attempts : monitor[a] # "none"
    <3>1. attempt \in Attempts /\ monitor[attempt] # "none"
      BY <2>1, MaxRetriesAssumption
      DEF TunnelInv, IInv, TypeOK, Coordination, Reading, Attempts
    <3> QED
      BY <3>1
  <2> QED
    BY <1>2, <2>1, <2>2, <2>3 DEF TunnelInv, AtMostOneLateRequest, Forward!InFlight
<1>6. ASSUME NEW r \in Requests, ServeRequest(r)
      PROVE  TunnelInv'
  <2>1. /\ UNCHANGED <<monitor, ctxDone, late, pc>>
        /\ handler[r] # "none"
        /\ \E p \in Forward!InFlight \cup Forward!Settled :
              handler' = [handler EXCEPT ![r] = p]
    BY <1>6 DEF ServeRequest, mainVars, Forward!HandlerStep, Forward!ParseFails,
                Forward!Parses, Forward!LocalFails, Forward!LocalAnswers,
                Forward!Post, Forward!Hears200, Forward!Hears404,
                Forward!HearsError, Forward!Moves, Forward!InFlight,
                Forward!Settled, Forward!Posting, Forward!Replies
  <2> QED
    BY <1>2, <2>1 DEF TunnelInv, AtMostOneLateRequest
<1> QED
  BY <1>4, <1>5, <1>6 DEF TunnelNext, ClientStep, tunnelVars, handlerVars

(* Client and handlers keep the invariant together, for every set of requests. *)
THEOREM TunnelInvariance == TunnelSpec => []TunnelInv
  BY InitTunnelInv, StepTunnelInv, PTL DEF TunnelSpec

(* After the cancellation at most one more request is let through. *)
THEOREM OneLateRequest == TunnelSpec => []AtMostOneLateRequest
<1>1. TunnelInv => AtMostOneLateRequest
  BY DEF TunnelInv
<1> QED
  BY <1>1, TunnelInvariance, PTL

(* With its handlers beside it the client does only what TunnelClient says;
   all that is proved there holds of the composition. *)
THEOREM TunnelImplementsClient == TunnelSpec => ImplementsClient
<1>1. TunnelInit => Init
  BY DEF TunnelInit
<1> QED
  BY <1>1, StepIsClientStep, TunnelInvariance, PTL DEF TunnelSpec, ImplementsClient, Spec

-----------------------------------------------------------------------------
(* The client touches nothing of the handlers, and of the flag only to clear it. *)
LEMMA ClientClearsFlag ==
  ASSUME ClientStep
  PROVE  [Forward!Next]_(Forward!fvars)
<1> USE DEF mainVars, sigVars
<1>1. needsReconnect' = 0 \/ UNCHANGED needsReconnect
  <2>1. ASSUME NEW a \in Attempts, MonitorStep(a)
        PROVE  UNCHANGED needsReconnect
    BY <2>1 DEF MonitorStep, MonitorStops, MonitorSeesLoss, MonitorTimesOut
  <2>2. CASE MainStep
    BY <2>2 DEF MainStep, Exhausted, LoopCanceled, BeginAttempt, DelayElapsed,
                DelayCanceled, DialCanceled, ReadCanceled, DeferredCancel,
                CloseShutsDown, CloseReturns
  <2>3. CASE NetworkStep
    BY <2>3 DEF NetworkStep, DialFails, DialSucceeds, ReadEventLine, ReceivePing,
                ReceiveOther, ReceiveRequest, ReceiveError, StreamEnds, StreamBreaks
  <2>4. CASE SignalStep \/ DeleteApplied \/ Interrupt \/ Tick \/ Terminated
    BY <2>4 DEF SignalStep, SignalReceived, MenuAnswered, DeleteReturns, MenuCancels,
                DeleteApplied, Interrupt, Tick, Terminated, vars
  <2> QED
    BY <2>1, <2>2, <2>3, <2>4 DEF ClientStep
<1>2. UNCHANGED <<handler, delivered>>
  BY DEF ClientStep, handlerVars
<1> QED
  BY <1>1, <1>2 DEF Forward!Next, Forward!LoopClearsFlag, Forward!fvars

(* Beside the client the handlers do only what TunnelForward says. *)
THEOREM TunnelImplementsForward == TunnelSpec => ImplementsForward
<1>1. TunnelInit => Forward!Init
  BY DEF TunnelInit
<1>2. [TunnelNext]_tunnelVars => [Forward!Next]_(Forward!fvars)
  <2> SUFFICES ASSUME [TunnelNext]_tunnelVars
               PROVE  [Forward!Next]_(Forward!fvars)
    OBVIOUS
  <2>1. CASE ClientStep
    BY <2>1, ClientClearsFlag
  <2>2. ASSUME NEW r \in Requests, StartRequest(r) \/ ServeRequest(r)
        PROVE  Forward!Next
    BY <2>2 DEF StartRequest, ServeRequest, Forward!Next
  <2>3. CASE UNCHANGED tunnelVars
    BY <2>3 DEF tunnelVars, vars, handlerVars, Forward!fvars
  <2> QED
    BY <2>1, <2>2, <2>3 DEF TunnelNext
<1> QED
  BY <1>1, <1>2, PTL DEF TunnelSpec, ImplementsForward, Forward!Spec
-----------------------------------------------------------------------------
(* What both parts promise on their own they promise together. *)

ForwardTheorems == INSTANCE TunnelForwardProofs

(* With requests under way, of which some may be lost, refused or still in hand
   when it ends, a tunnel is one session to its user and one call of Connect to
   its caller, and it winds down once it is cancelled. *)
THEOREM TunnelKeepsPromises ==
  TunnelSpec => ImplementsSessionSafety /\ ImplementsConnectSafety /\ WindsDown
<1>1. TunnelSpec => Spec
  BY TunnelImplementsClient DEF ImplementsClient
<1> QED
  BY <1>1, Refinement, ConnectRefinement, CancellationWindsDown, PTL

(* However often the client reconnects, and though the loop clears the flag under
   the handlers, no request is answered twice and the flag is raised by nothing
   but a 404. *)
THEOREM TunnelAnswersOnce ==
  TunnelSpec => [](Forward!OneResponse /\ Forward!FlagHasCause)
<1>1. Forward!Init => ForwardTheorems!Init
  BY DEF Forward!Init, ForwardTheorems!Init
<1>2. [Forward!Next]_(Forward!fvars) => [ForwardTheorems!Next]_(ForwardTheorems!fvars)
  BY DEF Forward!fvars, ForwardTheorems!fvars, Forward!Next, ForwardTheorems!Next,
      Forward!Start, ForwardTheorems!Start, Forward!HandlerStep,
      ForwardTheorems!HandlerStep, Forward!ParseFails,
      ForwardTheorems!ParseFails, Forward!Parses,
      ForwardTheorems!Parses, Forward!LocalFails,
      ForwardTheorems!LocalFails, Forward!LocalAnswers,
      ForwardTheorems!LocalAnswers, Forward!Post,
      ForwardTheorems!Post, Forward!Hears200,
      ForwardTheorems!Hears200, Forward!Hears404,
      ForwardTheorems!Hears404, Forward!HearsError,
      ForwardTheorems!HearsError, Forward!LoopClearsFlag,
      ForwardTheorems!LoopClearsFlag, Forward!Moves,
      ForwardTheorems!Moves, Forward!Posting, ForwardTheorems!Posting,
      Forward!Replies, ForwardTheorems!Replies, Forward!Settled,
      ForwardTheorems!Settled, Forward!InFlight,
      ForwardTheorems!InFlight
<1>3. ForwardTheorems!OneResponse => Forward!OneResponse
  BY DEF Forward!OneResponse, ForwardTheorems!OneResponse
<1>4. ForwardTheorems!FlagHasCause => Forward!FlagHasCause
  BY DEF Forward!FlagHasCause, ForwardTheorems!FlagHasCause
<1>5. TunnelSpec => ForwardTheorems!Spec
  BY <1>1, <1>2, TunnelImplementsForward, PTL
  DEF ImplementsForward, ForwardTheorems!Spec, Forward!Spec
<1> QED
  BY <1>3, <1>4, <1>5, ForwardTheorems!AtMostOneResponse,
     ForwardTheorems!FlagIsCaused, PTL
=============================================================================
