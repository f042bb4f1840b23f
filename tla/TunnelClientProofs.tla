------------------------- MODULE TunnelClientProofs --------------------------
(***************************************************************************)
(* TunnelClient for every MaxRetries and every PingTimeout: the inductive  *)
(* invariant IInv and what follows from it, and that the client implements *)
(* the safety part of TunnelSession.                                       *)
(***************************************************************************)
EXTENDS TunnelClient, TLAPS

USE MaxRetriesAssumption, PingTimeoutAssumption

-----------------------------------------------------------------------------
(* The invariant holds when Connect calls EstablishTunnel. *)
LEMMA InitIInv == Init => IInv
<1> SUFFICES ASSUME Init PROVE IInv
  OBVIOUS
<1> USE DEF Init
<1>1. TypeOK
  <2>1. NeverPinged \in 0..NeverPinged
    BY DEF NeverPinged
  <2>2. 0 \in 0..MaxRetries
    OBVIOUS
  <2> QED
    BY <2>1, <2>2 DEF TypeOK, Phases, States, SigPhases
<1>2. GracefulEndIsAsked
  BY DEF GracefulEndIsAsked
<1>3. AdvertisedState
  BY DEF AdvertisedState, Reading
<1>4. Coordination
  BY DEF Coordination, Reading
<1> QED
  BY <1>1, <1>2, <1>3, <1>4 DEF IInv

(* A failed attempt, whatever its kind, ends the retries or is counted. *)
LEMMA FailureIInv ==
  ASSUME IInv, pc \in {"dial"} \cup Reading, NEW kind \in Kinds,
         AttemptFails(kind),
         UNCHANGED <<needsReconnect, pingAge, ctxDone, shutdown, monitor, sigVars>>
  PROVE  IInv'
<1> USE DEF IInv, TypeOK, GracefulEndIsAsked, AdvertisedState, Coordination,
            Phases, Reading, States, Results, NeverPinged, SigPhases, Stops,
            Attempts, sigVars
<1>1. CASE /\ state' = "Failed"
           /\ result' = "nonRecoverable"
           /\ pc' = "return"
           /\ UNCHANGED <<attempt, reconnectCount>>
  BY <1>1
<1>2. CASE /\ attempt' = attempt + 1
           /\ pc' = "check"
           /\ UNCHANGED <<state, result, reconnectCount>>
  <2>1. TypeOK'
    BY <1>2
  <2>2. AdvertisedState'
    BY <1>2
  <2>3. Coordination'
    BY <1>2
  <2> QED
    BY <1>2, <2>1, <2>2, <2>3
<1> QED
  BY <1>1, <1>2 DEF AttemptFails

(* A monitor only changes its own place, and never back to "none". *)
LEMMA MonitorIInv ==
  ASSUME IInv, NEW a \in Attempts, MonitorStep(a)
  PROVE  IInv'
<1> USE DEF IInv, TypeOK
<1>1. PICK s \in {"off", "lost", "timedOut"} :
         /\ monitor[a] = "on"
         /\ monitor' = [monitor EXCEPT ![a] = s]
         /\ UNCHANGED <<mainVars, needsReconnect, pingAge, ctxDone, shutdown, sigVars>>
  BY DEF MonitorStep, MonitorStops, MonitorSeesLoss, MonitorTimesOut
<1>2. TypeOK'
  BY <1>1 DEF mainVars, sigVars
<1>3. \A b \in Attempts : monitor'[b] # "none" <=> monitor[b] # "none"
  BY <1>1
<1>4. GracefulEndIsAsked'
  BY <1>1 DEF GracefulEndIsAsked, mainVars, sigVars
<1>5. AdvertisedState'
  BY <1>1, <1>3 DEF AdvertisedState, mainVars
<1>6. Coordination'
  BY <1>1, <1>3 DEF Coordination, mainVars, sigVars, Reading, Attempts
<1> QED
  BY <1>2, <1>4, <1>5, <1>6

(* A step that leaves main, the contexts, the monitors and the menu alone. *)
LEMMA QuietIInv ==
  ASSUME IInv, TypeOK',
         UNCHANGED <<mainVars, ctxDone, shutdown, monitor, sig, choice>>
  PROVE  IInv'
<1>1. GracefulEndIsAsked'
  BY DEF IInv, GracefulEndIsAsked, mainVars
<1>2. AdvertisedState'
  BY DEF IInv, AdvertisedState, mainVars
<1>3. Coordination'
  BY SMTT(30) DEF IInv, Coordination, mainVars
<1> QED
  BY <1>1, <1>2, <1>3 DEF IInv

(* No step of the loop, the network, the monitors, the menu or time breaks it. *)
LEMMA StepIInv == IInv /\ [Next]_vars => IInv'
<1> SUFFICES ASSUME IInv, [Next]_vars
             PROVE  IInv'
  OBVIOUS
<1> USE DEF IInv, TypeOK, GracefulEndIsAsked, AdvertisedState, Coordination,
            Phases, Reading, States, Results, NeverPinged, SigPhases, Stops,
            Attempts, mainVars, sigVars, Alive
<1>1. CASE Exhausted
  BY <1>1 DEF Exhausted
<1>2. CASE LoopCanceled
  BY <1>2 DEF LoopCanceled, ReturnCanceled
<1>3. CASE BeginAttempt
  BY <1>3 DEF BeginAttempt
<1>4. CASE DelayElapsed
  BY <1>4 DEF DelayElapsed
<1>5. CASE DelayCanceled
  BY <1>5 DEF DelayCanceled, ReturnCanceled
<1>6. CASE DialCanceled
  BY <1>6 DEF DialCanceled, ReturnCanceled
<1>7. CASE ReadCanceled
  BY <1>7 DEF ReadCanceled, ReturnCanceled
<1>8. CASE DeferredCancel
  BY <1>8 DEF DeferredCancel
<1>9. CASE CloseShutsDown
  BY <1>9 DEF CloseShutsDown
<1>10. CASE CloseReturns
  BY <1>10 DEF CloseReturns
<1>11. CASE DialSucceeds
  BY <1>11 DEF DialSucceeds
<1>12. CASE ReadEventLine
  BY <1>12 DEF ReadEventLine
<1>13. CASE ReceivePing
  BY <1>13 DEF ReceivePing
<1>14. CASE ReceiveRequest
  BY <1>14 DEF ReceiveRequest
<1>15. CASE SignalReceived
  BY <1>15 DEF SignalReceived
<1>16. CASE MenuAnswered
  BY <1>16 DEF MenuAnswered
<1>17. CASE DeleteReturns
  BY <1>17 DEF DeleteReturns
<1>18. CASE MenuCancels
  BY <1>18 DEF MenuCancels
<1>19. CASE DialFails \/ ReceiveError \/ StreamEnds \/ StreamBreaks
  <2>1. pc \in {"dial"} \cup Reading
    BY <1>19 DEF DialFails, ReceiveError, StreamEnds, StreamBreaks
  <2>2. PICK kind \in Kinds : AttemptFails(kind)
    BY <1>19 DEF DialFails, ReceiveError, StreamEnds, StreamBreaks, Kinds
  <2>3. UNCHANGED <<needsReconnect, pingAge, ctxDone, shutdown, monitor, sigVars>>
    BY <1>19 DEF DialFails, ReceiveError, StreamEnds, StreamBreaks
  <2> QED
    BY <2>1, <2>2, <2>3, FailureIInv
<1>20. ASSUME NEW a \in Attempts, MonitorStep(a)
       PROVE  IInv'
  BY <1>20, MonitorIInv
<1>21. CASE DeleteApplied
  BY <1>21, QuietIInv DEF DeleteApplied
<1>22. CASE Interrupt
  BY <1>22, QuietIInv DEF Interrupt
<1>23. CASE Tick
  BY <1>23, QuietIInv DEF Tick
<1>24. ASSUME NEW flag \in {0, 1}, HandlerReports(flag)
       PROVE  IInv'
  BY <1>24, QuietIInv DEF HandlerReports
<1>25. CASE UNCHANGED vars
  BY <1>25, QuietIInv DEF vars
<1> QED
  BY <1>1, <1>2, <1>3, <1>4, <1>5, <1>6, <1>7, <1>8, <1>9, <1>10, <1>11, <1>12, <1>13, <1>14, <1>15, <1>16, <1>17, <1>18, <1>19, <1>20, <1>21, <1>22, <1>23, <1>24, <1>25
  DEF Next, MainStep, NetworkStep, SignalStep, ReceiveOther, Terminated

(* The invariant of every reachable state, for every number of attempts. *)
THEOREM Invariance == Spec => []IInv
  BY InitIInv, StepIInv, PTL DEF Spec

(* Every variable of the client keeps to its type. *)
THEOREM TypeCorrect == Spec => []TypeOK
<1>1. IInv => TypeOK
  BY DEF IInv
<1> QED
  BY <1>1, Invariance, PTL

(* EstablishTunnel returns context.Canceled, which the command turns into exit
   status 0, only at the request of the user and after the menu is done. *)
THEOREM GracefulEnd == Spec => []GracefulEndIsAsked
<1>1. IInv => GracefulEndIsAsked
  BY DEF IInv
<1> QED
  BY <1>1, Invariance, PTL

(* The state that the client shows is the state its loop is in. *)
THEOREM StateIsTrue == Spec => []AdvertisedState
<1>1. IInv => AdvertisedState
  BY DEF IInv
<1> QED
  BY <1>1, Invariance, PTL

-----------------------------------------------------------------------------
(* The refinement of TunnelSession. *)

(* A client that has not begun is a session that has not begun. *)
LEMMA SessionInit == Init => Session!Init
  BY DEF Init, Session!Init, SessionLink, SessionTries, SessionVerdict, Reading,
         Stops, Attempts

(* A failed attempt is a try that did not link, a lost link, or the end. *)
LEMMA FailureRefines ==
  ASSUME IInv, pc \in {"dial"} \cup Reading, NEW kind \in Kinds,
         AttemptFails(kind), UNCHANGED <<monitor, choice>>
  PROVE  Session!Next
<1> USE DEF IInv, TypeOK, Coordination, Reading, Attempts, SessionLink,
            SessionTries, SessionVerdict
<1>1. SessionVerdict = "running"
  OBVIOUS
<1>2. CASE /\ result' = "nonRecoverable"
           /\ pc' = "return"
           /\ UNCHANGED attempt
  <2>1. Session!End("refused")
    BY <1>1, <1>2 DEF Session!End
  <2> QED
    BY <2>1 DEF Session!Next, Session!Verdicts
<1>3. CASE /\ attempt' = attempt + 1
           /\ pc' = "check"
           /\ UNCHANGED result
  <2>1. SessionTries' = attempt + 1 /\ SessionLink' = "down" /\ SessionVerdict' = SessionVerdict
    BY <1>3
  <2>2. CASE pc = "dial"
    <3>1. SessionTries = attempt /\ SessionLink = "down" /\ attempt < MaxRetries
      BY <2>2
    <3>2. Session!Try
      BY <1>1, <2>1, <3>1 DEF Session!Try
    <3> QED
      BY <3>2 DEF Session!Next
  <2>3. CASE pc \in Reading
    <3>1. SessionTries = attempt + 1 /\ SessionLink = "up"
      BY <2>3
    <3>2. Session!Drop
      BY <1>1, <2>1, <3>1 DEF Session!Drop
    <3> QED
      BY <3>2 DEF Session!Next
  <2> QED
    BY <2>2, <2>3
<1> QED
  BY <1>2, <1>3 DEF AttemptFails

(* Noticing the cancelled context is the graceful end, which was asked for. *)
LEMMA CancelRefines ==
  ASSUME IInv, ctxDone, pc \in {"check", "delay", "dial"} \cup Reading,
         ReturnCanceled, UNCHANGED <<monitor, choice>>
  PROVE  Session!Next
<1> USE DEF IInv, TypeOK, Coordination, ReturnCanceled, Reading, Attempts
<1>1. choice \in Stops /\ result = "none"
  OBVIOUS
<1>2. Session!End("ok")
  BY <1>1 DEF Session!End, SessionLink, SessionTries, SessionVerdict
<1> QED
  BY <1>2 DEF Session!Next, Session!Verdicts

(* A step that the session cannot see. *)
LEMMA QuietRefines ==
  ASSUME UNCHANGED <<attempt, monitor, result, choice>>,
         pc' \in Reading <=> pc \in Reading
  PROVE  UNCHANGED Session!svars
  BY DEF Session!svars, SessionLink, SessionTries, SessionVerdict, Reading

(* Every step of the client is a step of the session, or none. *)
LEMMA StepRefines == IInv /\ [Next]_vars => [Session!Next]_(Session!svars)
<1> SUFFICES ASSUME IInv, [Next]_vars
             PROVE  [Session!Next]_(Session!svars)
  OBVIOUS
<1> USE DEF mainVars, sigVars
<1>1. CASE Exhausted
  <2>1. Session!End("exhausted")
    BY <1>1 DEF Exhausted, IInv, TypeOK, Coordination, Session!End, SessionLink,
                SessionTries, SessionVerdict, Reading, Attempts
  <2> QED
    BY <2>1 DEF Session!Next, Session!Verdicts
<1>2. CASE LoopCanceled \/ DelayCanceled \/ DialCanceled \/ ReadCanceled
  BY <1>2, CancelRefines DEF LoopCanceled, DelayCanceled, DialCanceled, ReadCanceled
<1>3. CASE DialFails \/ ReceiveError \/ StreamEnds \/ StreamBreaks
  <2>1. pc \in {"dial"} \cup Reading /\ UNCHANGED <<monitor, choice>>
    BY <1>3 DEF DialFails, ReceiveError, StreamEnds, StreamBreaks, Reading
  <2>2. PICK kind \in Kinds : AttemptFails(kind)
    BY <1>3 DEF DialFails, ReceiveError, StreamEnds, StreamBreaks, Kinds
  <2> QED
    BY <2>1, <2>2, FailureRefines
<1>4. CASE DialSucceeds
  <2>1. Session!Try
    BY <1>4 DEF DialSucceeds, IInv, TypeOK, Coordination, Session!Try, SessionLink,
                SessionTries, SessionVerdict, Reading, Attempts
  <2> QED
    BY <2>1 DEF Session!Next
<1>5. CASE MenuAnswered
  <2>1. CASE choice' \in Stops
    <3>1. Session!Ask
      BY <1>5, <2>1 DEF MenuAnswered, IInv, Coordination, Session!Ask, SessionLink,
                        SessionTries, SessionVerdict, Reading, Stops
    <3> QED
      BY <3>1 DEF Session!Next
  <2>2. CASE choice' \notin Stops
    BY <1>5, <2>2 DEF MenuAnswered, IInv, Coordination, Session!svars, SessionLink,
                      SessionTries, SessionVerdict, Reading, Stops
  <2> QED
    BY <2>1, <2>2
<1>6. ASSUME NEW a \in Attempts, MonitorStep(a)
      PROVE  UNCHANGED Session!svars
  <2>1. UNCHANGED mainVars /\ UNCHANGED choice
    BY <1>6 DEF MonitorStep, MonitorStops, MonitorSeesLoss, MonitorTimesOut
  <2>2. \A b \in Attempts : monitor'[b] # "none" <=> monitor[b] # "none"
    BY <1>6 DEF MonitorStep, MonitorStops, MonitorSeesLoss, MonitorTimesOut, IInv, TypeOK
  <2> QED
    BY <2>1, <2>2 DEF Session!svars, SessionLink, SessionTries, SessionVerdict
<1>7. CASE BeginAttempt
  BY <1>7, QuietRefines DEF BeginAttempt, Reading
<1>8. CASE DelayElapsed \/ DeferredCancel \/ CloseShutsDown \/ CloseReturns
  BY <1>8, QuietRefines
  DEF DelayElapsed, DeferredCancel, CloseShutsDown, CloseReturns, Reading
<1>9. CASE ReadEventLine \/ ReceivePing \/ ReceiveRequest
  BY <1>9, QuietRefines DEF ReadEventLine, ReceivePing, ReceiveRequest, Reading
<1>10. CASE SignalReceived \/ DeleteReturns \/ MenuCancels \/ DeleteApplied
            \/ Interrupt \/ Tick
  BY <1>10, QuietRefines
  DEF SignalReceived, DeleteReturns, MenuCancels, DeleteApplied, Interrupt, Tick
<1>11. ASSUME NEW flag \in {0, 1}, HandlerReports(flag)
       PROVE  UNCHANGED Session!svars
  BY <1>11, QuietRefines DEF HandlerReports
<1>12. CASE UNCHANGED vars
  BY <1>12, QuietRefines DEF vars
<1> QED
  BY <1>1, <1>2, <1>3, <1>4, <1>5, <1>6, <1>7, <1>8, <1>9, <1>10, <1>11, <1>12
  DEF Next, MainStep, NetworkStep, SignalStep, ReceiveOther, Terminated

(* The client implements the session: a bounded number of connections in its
   whole life, one verdict, and a graceful one only on request. *)
THEOREM Refinement == Spec => ImplementsSessionSafety
  BY SessionInit, StepRefines, Invariance, PTL
  DEF Spec, ImplementsSessionSafety, Session!Safety
-----------------------------------------------------------------------------
(* The refinement of ConnectSession. *)

(* Who makes the call of Connect sees neither the loop, nor the network, nor the
   menu's work: what it sees are signals, answers and the return. *)
LEMMA QuietConnect ==
  ASSUME UNCHANGED <<interrupts, sig, choice>>,
         UNCHANGED <<pc, result>> \/ (Alive /\ Alive')
  PROVE  UNCHANGED Connect!csvars
  BY DEF Connect!csvars, HeardOf, PlaceOf, Alive

(* Every step of the client is a step of the call, or none. *)
LEMMA StepConnects == IInv /\ [Next]_vars => [Connect!Next]_(Connect!csvars)
<1> SUFFICES ASSUME IInv, [Next]_vars
             PROVE  [Connect!Next]_(Connect!csvars)
  OBVIOUS
<1> USE DEF mainVars, sigVars
<1>1. CASE Exhausted \/ LoopCanceled \/ BeginAttempt \/ DelayElapsed \/ DelayCanceled
  BY <1>1, QuietConnect DEF Exhausted, LoopCanceled, BeginAttempt, DelayElapsed,
                            DelayCanceled, ReturnCanceled, Alive
<1>2. CASE DialCanceled \/ ReadCanceled \/ DialSucceeds \/ DeferredCancel \/ CloseShutsDown
  BY <1>2, QuietConnect DEF DialCanceled, ReadCanceled, DialSucceeds, DeferredCancel,
                            CloseShutsDown, ReturnCanceled, Reading, Alive
<1>3. CASE DialFails \/ ReceiveError \/ StreamEnds \/ StreamBreaks
  BY <1>3, QuietConnect DEF DialFails, ReceiveError, StreamEnds, StreamBreaks,
                            AttemptFails, Reading, Alive
<1>4. CASE ReadEventLine \/ ReceivePing \/ ReceiveRequest
  BY <1>4, QuietConnect DEF ReadEventLine, ReceivePing, ReceiveRequest, Alive
<1>5. CASE CloseReturns
  <2>1. /\ PlaceOf = "session"
        /\ PlaceOf' = IF result = "canceled" THEN "canceled" ELSE "error"
        /\ HeardOf' = HeardOf
    BY <1>5 DEF CloseReturns, PlaceOf, HeardOf, Alive
  <2>2. result = "canceled" => HeardOf = "cancel"
    BY DEF IInv, GracefulEndIsAsked, Stops, HeardOf
  <2>3. Connect!Return
    BY <2>1, <2>2 DEF Connect!Return
  <2> QED
    BY <2>3 DEF Connect!Next
<1>6. CASE Interrupt
  <2>1. PlaceOf = "session" /\ PlaceOf' = PlaceOf
    BY <1>6 DEF Interrupt, PlaceOf, Alive
  <2>2. CASE HeardOf = "none"
    <3>1. Connect!Hear
      BY <1>6, <2>1, <2>2 DEF Interrupt, Connect!Hear, HeardOf, Stops, IInv, TypeOK
    <3> QED
      BY <3>1 DEF Connect!Next
  <2>3. CASE HeardOf # "none"
    BY <1>6, <2>1, <2>3 DEF Interrupt, Connect!csvars, HeardOf
  <2> QED
    BY <2>2, <2>3
<1>7. CASE SignalReceived
  BY <1>7 DEF SignalReceived, Connect!csvars, PlaceOf, HeardOf, Alive, IInv, Coordination
<1>8. CASE MenuAnswered
  <2>1. /\ PlaceOf = "session" /\ PlaceOf' = PlaceOf
        /\ HeardOf = "menu"
        /\ HeardOf' \in {"cancel", "continue"}
    BY <1>8 DEF MenuAnswered, PlaceOf, HeardOf, Alive, IInv, Coordination, Stops
  <2>2. Connect!Answer
    BY <2>1 DEF Connect!Answer
  <2> QED
    BY <2>2 DEF Connect!Next
<1>9. CASE DeleteReturns \/ MenuCancels
  BY <1>9 DEF DeleteReturns, MenuCancels, Connect!csvars, PlaceOf, HeardOf, Alive,
              IInv, Coordination, Stops
<1>10. ASSUME NEW a \in Attempts, MonitorStep(a)
       PROVE  UNCHANGED Connect!csvars
  BY <1>10, QuietConnect DEF MonitorStep, MonitorStops, MonitorSeesLoss, MonitorTimesOut
<1>11. CASE DeleteApplied \/ Tick
  BY <1>11, QuietConnect DEF DeleteApplied, Tick
<1>12. ASSUME NEW flag \in {0, 1}, HandlerReports(flag)
       PROVE  UNCHANGED Connect!csvars
  BY <1>12, QuietConnect DEF HandlerReports
<1>13. CASE UNCHANGED vars
  BY <1>13, QuietConnect DEF vars
<1> QED
  BY <1>1, <1>2, <1>3, <1>4, <1>5, <1>6, <1>7, <1>8, <1>9, <1>10, <1>11, <1>12, <1>13
  DEF Next, MainStep, NetworkStep, SignalStep, ReceiveOther, Terminated

(* A session asks once, and gives its caller context.Canceled only when the answer
   was to stop: what TunnelCreate takes from it. *)
THEOREM ConnectRefinement == Spec => ImplementsConnectSafety
<1>1. Init => Connect!Init
  BY DEF Init, Connect!Init, PlaceOf, HeardOf, Alive, Stops
<1> QED
  BY <1>1, StepConnects, Invariance, PTL
  DEF Spec, ImplementsConnectSafety, Connect!Safety

-----------------------------------------------------------------------------
(* After a cancellation main only goes on towards the exit: it opens at most one
   connection more, acts on one event at most and begins no attempt. *)
LEMMA StepWindsDown == IInv /\ [Next]_vars => (ctxDone /\ pc' # pc => Rank' < Rank)
<1> SUFFICES ASSUME IInv, [Next]_vars, ctxDone, pc' # pc
             PROVE  Rank' < Rank
  OBVIOUS
<1> USE DEF Rank
<1>1. CASE Exhausted \/ LoopCanceled
  <2>1. pc = "check" /\ pc' = "return"
    BY <1>1 DEF Exhausted, LoopCanceled, ReturnCanceled
  <2> QED
    BY <2>1
<1>2. CASE DelayElapsed \/ DelayCanceled \/ DialCanceled \/ DialSucceeds
  <2>1. \/ pc = "delay" /\ pc' \in {"dial", "return"}
        \/ pc = "dial" /\ pc' \in {"read", "return"}
    BY <1>2 DEF DelayElapsed, DelayCanceled, DialCanceled, DialSucceeds, ReturnCanceled
  <2> QED
    BY <2>1
<1>3. CASE ReadCanceled \/ DialFails \/ ReceiveError \/ StreamEnds \/ StreamBreaks
  <2>1. pc \in {"dial", "read", "data"} /\ pc' \in {"check", "return"}
    BY <1>3 DEF ReadCanceled, DialFails, ReceiveError, StreamEnds, StreamBreaks,
                AttemptFails, ReturnCanceled, Reading
  <2> QED
    BY <2>1
<1>4. CASE DeferredCancel \/ CloseReturns
  <2>1. \/ pc = "return" /\ pc' = "closing"
        \/ pc = "closing" /\ pc' = "exited"
    BY <1>4 DEF DeferredCancel, CloseReturns
  <2> QED
    BY <2>1
<1>5. CASE BeginAttempt \/ ReadEventLine
  BY <1>5 DEF BeginAttempt, ReadEventLine
<1>6. CASE ReceivePing \/ ReceiveRequest
  <2>1. pc = "data" /\ pc' = "read"
    BY <1>6 DEF ReceivePing, ReceiveRequest
  <2> QED
    BY <2>1
<1>7. CASE CloseShutsDown
  BY <1>7 DEF CloseShutsDown, mainVars
<1>8. CASE SignalStep \/ DeleteApplied \/ Interrupt \/ Tick
  BY <1>8 DEF SignalStep, SignalReceived, MenuAnswered, DeleteReturns, MenuCancels,
              DeleteApplied, Interrupt, Tick, mainVars
<1>9. ASSUME NEW a \in Attempts, MonitorStep(a)
      PROVE  UNCHANGED pc
  BY <1>9 DEF MonitorStep, MonitorStops, MonitorSeesLoss, MonitorTimesOut, mainVars
<1>10. ASSUME NEW flag \in {0, 1}, HandlerReports(flag)
      PROVE  UNCHANGED pc
  BY <1>10 DEF HandlerReports, mainVars
<1>11. CASE UNCHANGED vars
  BY <1>11 DEF vars, mainVars
<1> QED
  BY <1>1, <1>2, <1>3, <1>4, <1>5, <1>6, <1>7, <1>8, <1>9, <1>10, <1>11
  DEF Next, MainStep, NetworkStep, ReceiveOther, Terminated

(* Once cancelled, a session takes a bounded number of steps of main to its end,
   whatever the server sends. *)
THEOREM CancellationWindsDown == Spec => WindsDown
  BY StepWindsDown, Invariance, PTL DEF Spec, WindsDown
=============================================================================
