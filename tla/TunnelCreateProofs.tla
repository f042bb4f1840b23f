------------------------- MODULE TunnelCreateProofs --------------------------
(***************************************************************************)
(* The invariant of TunnelCreate is inductive.  Every action of main, of   *)
(* the poller and of Connect is one step; the clauses of Protocol tie the  *)
(* place of each goroutine to what is in the two channels, which is what   *)
(* AwaitIsServed and SecondIsUntold need.                                  *)
(***************************************************************************)
EXTENDS TunnelCreate, TLAPS

(* Before anything runs there is neither a poller nor a session. *)
LEMMA InitInv == Init => CreateInv
BY DEF Init, CreateInv, TypeOK, SuccessIsAsked, ExitsWithZero, AwaitIsServed,
       SecondIsUntold, Protocol, Modes, Callers, Errors, InConnect

(* No step of main, the poller, a Connect, the user or the cluster breaks it. *)
LEMMA StepInv == CreateInv /\ [Next]_cvars => CreateInv'
<1> SUFFICES ASSUME CreateInv, [Next]_cvars
             PROVE  CreateInv'
  OBVIOUS
<1> USE DEF CreateInv, TypeOK, SuccessIsAsked, ExitsWithZero, AwaitIsServed,
            SecondIsUntold, Protocol, Modes, Connecting, Callers, Errors,
            Failures, InConnect, Alive, createVars, pollerVars, connectVars
<1>1. CASE CreateRefused
  BY <1>1 DEF CreateRefused, Return
<1>2. CASE TunnelExists
  BY <1>2 DEF TunnelExists, Dispatch, Return, Present
<1>3. CASE TunnelMissing
  BY <1>3 DEF TunnelMissing
<1>4. CASE CreateFails
  BY <1>4 DEF CreateFails, Return
<1>5. CASE CreateSucceeds
  BY <1>5 DEF CreateSucceeds, Dispatch, Return, TunnelStates
<1>6. CASE WaitFails
  BY <1>6 DEF WaitFails, Return
<1>7. CASE WaitSucceeds
  BY <1>7 DEF WaitSucceeds
<1>8. CASE RefreshFails
  BY <1>8 DEF RefreshFails, Return
<1>9. CASE Refreshes
  BY <1>9 DEF Refreshes, Return
<1>10. CASE HearsStarted
  BY <1>10 DEF HearsStarted
<1>11. CASE FallbackTimer
  BY <1>11 DEF FallbackTimer
<1>12. CASE FallbackFails
  BY <1>12 DEF FallbackFails, Return
<1>13. CASE FallbackConnects
  BY <1>13 DEF FallbackConnects
<1>14. CASE AwaitReturns
  BY <1>14 DEF AwaitReturns, Return
<1>15. CASE OwnConnectReturns
  BY <1>15 DEF OwnConnectReturns, Return
<1>16. CASE PollerConnects
  BY <1>16 DEF PollerConnects
<1>17. CASE PollerCanceled
  BY <1>17 DEF PollerCanceled
<1>18. CASE PollerReports
  BY <1>18 DEF PollerReports
<1>19. ASSUME NEW c \in Callers, ConnectFails(c) PROVE CreateInv'
  BY <1>19 DEF ConnectFails, ConnectMoves
<1>20. ASSUME NEW c \in Callers, ConnectFetches(c) PROVE CreateInv'
  BY <1>20 DEF ConnectFetches, ConnectMoves
<1>21. ASSUME NEW c \in Callers, ConnectAuthorized(c) PROVE CreateInv'
  BY <1>21 DEF ConnectAuthorized, ConnectMoves
<1>22. ASSUME NEW c \in Callers, ClientFails(c) PROVE CreateInv'
  BY <1>22 DEF ClientFails, ConnectMoves
<1>23. ASSUME NEW c \in Callers, SessionStarts(c) PROVE CreateInv'
  BY <1>23 DEF SessionStarts, ConnectMoves
<1>24. ASSUME NEW c \in Callers, SessionEnds(c) PROVE CreateInv'
  BY <1>24 DEF SessionEnds, ConnectMoves
<1>25. ASSUME NEW c \in Callers, MenuAnswered(c) PROVE CreateInv'
  BY <1>25 DEF MenuAnswered
<1>26. CASE Interrupt
  BY <1>26 DEF Interrupt
<1>27. CASE ClusterChanges
  BY <1>27 DEF ClusterChanges, TunnelStates
<1>28. CASE Terminated
  BY <1>28 DEF Terminated, cvars
<1>29. CASE UNCHANGED cvars
  BY <1>29 DEF cvars
<1> QED
  BY <1>1, <1>2, <1>3, <1>4, <1>5, <1>6, <1>7, <1>8, <1>9, <1>10, <1>11,
     <1>12, <1>13, <1>14, <1>15, <1>16, <1>17, <1>18, <1>19, <1>20, <1>21,
     <1>22, <1>23, <1>24, <1>25, <1>26, <1>27, <1>28, <1>29 DEF Next,
     MainStep, PollerStep, ConnectStep, SessionStep

(* main, poller and both Connects keep the protocol of the two channels, in
   every mode and against every cluster and user. *)
THEOREM CreateInvariance == Spec => []CreateInv
<1>1. Init => CreateInv
  BY InitInv
<1>2. CreateInv /\ [Next]_cvars => CreateInv'
  BY StepInv
<1> QED
  BY <1>1, <1>2, PTL DEF Spec

(* A connecting command exits with status 0 only after an interrupt. *)
THEOREM SuccessAsked == Spec => []SuccessIsAsked
<1>1. CreateInv => SuccessIsAsked
  BY DEF CreateInv
<1> QED
  BY <1>1, CreateInvariance, PTL

(* main never blocks on a channel that nobody will write to. *)
THEOREM AwaitServed == Spec => []AwaitIsServed
<1>1. CreateInv => AwaitIsServed
  BY DEF CreateInv
<1> QED
  BY <1>1, CreateInvariance, PTL

(* Two connections of one command meet only if main, when it began its own,
   had not yet taken the poller's message out of the channel. *)
THEOREM FallbackUntold == Spec => []SecondIsUntold
<1>1. CreateInv => SecondIsUntold
  BY DEF CreateInv
<1> QED
  BY <1>1, CreateInvariance, PTL
-----------------------------------------------------------------------------
(* The refinement of ConnectSession, by both calls of Connect.  The lemma is
   about a caller of which only this is known: it is seen by its place and by
   what its session heard. *)
PlaceMoves(c) ==
    \/ PlaceOf(c) = "before" /\ PlaceOf(c)' \in {"session", "error", "canceled"} /\ heard'[c] = heard[c]
    \/ /\ PlaceOf(c) = "session" /\ PlaceOf(c)' = "session"
       /\ \/ heard[c] = "none" /\ heard'[c] = "menu"
          \/ heard[c] = "menu" /\ heard'[c] \in {"cancel", "continue"}
    \/ /\ PlaceOf(c) = "session" /\ heard'[c] = heard[c]
       /\ \/ PlaceOf(c)' = "error"
          \/ heard[c] = "cancel" /\ PlaceOf(c)' = "canceled"
    \/ PlaceOf(c)' = PlaceOf(c) /\ heard'[c] = heard[c]

(* Each step moves each call as ConnectSession allows, or not at all. *)
LEMMA StepMoves ==
  ASSUME CreateInv, [Next]_cvars, NEW c \in Callers
  PROVE  PlaceMoves(c)
<1> USE DEF CreateInv, TypeOK, Protocol, PlaceMoves, PlaceOf, Alive, Callers, InConnect,
            Errors, Failures, createVars, pollerVars, connectVars
<1>1. CASE CreateRefused \/ CreateFails \/ WaitFails \/ RefreshFails \/ FallbackFails
  BY <1>1 DEF CreateRefused, CreateFails, WaitFails, RefreshFails, FallbackFails, Return
<1>2. CASE TunnelExists \/ CreateSucceeds
  BY <1>2 DEF TunnelExists, CreateSucceeds, Dispatch, Return
<1>3. CASE TunnelMissing \/ WaitSucceeds \/ HearsStarted \/ FallbackTimer
  BY <1>3 DEF TunnelMissing, WaitSucceeds, HearsStarted, FallbackTimer
<1>4. CASE Refreshes
  BY <1>4 DEF Refreshes, Return
<1>5. CASE FallbackConnects
  BY <1>5 DEF FallbackConnects
<1>6. CASE AwaitReturns \/ OwnConnectReturns
  BY <1>6 DEF AwaitReturns, OwnConnectReturns, Return
<1>7. CASE PollerStep
  BY <1>7 DEF PollerStep, PollerConnects, PollerCanceled, PollerReports
<1>8. ASSUME NEW d \in Callers, ConnectStep(d)
      PROVE  PlaceMoves(c)
  BY <1>8 DEF ConnectStep, ConnectFails, ConnectFetches, ConnectAuthorized, ClientFails,
              SessionStarts, ConnectMoves
<1>9. ASSUME NEW d \in Callers, SessionEnds(d)
      PROVE  PlaceMoves(c)
  BY <1>9 DEF SessionEnds, ConnectMoves
<1>10. ASSUME NEW d \in Callers, MenuAnswered(d)
       PROVE  PlaceMoves(c)
  BY <1>10 DEF MenuAnswered
<1>11. CASE Interrupt
  BY <1>11 DEF Interrupt
<1>12. CASE ClusterChanges \/ UNCHANGED cvars
  BY <1>12 DEF ClusterChanges, cvars
<1> QED
  BY <1>1, <1>2, <1>3, <1>4, <1>5, <1>6, <1>7, <1>8, <1>9, <1>10, <1>11, <1>12
  DEF Next, MainStep, SessionStep, Terminated

(* The call that main makes, and the one that the poller makes, are each what
   Connect promises, though a signal reaches both and the process ends under
   one when the other returns. *)
THEOREM CallsOfConnect == Spec => ImplementsConnectSafety
<1>1. Init => MainConnect!Init /\ PollerConnect!Init
  BY DEF Init, MainConnect!Init, PollerConnect!Init, PlaceOf, Callers
<1>2. CreateInv /\ [Next]_cvars => [MainConnect!Next]_(MainConnect!csvars)
  BY StepMoves DEF PlaceMoves, Callers, MainConnect!Next, MainConnect!csvars,
     MainConnect!Refused, MainConnect!Begin, MainConnect!Hear, MainConnect!Answer,
     MainConnect!Return
<1>3. CreateInv /\ [Next]_cvars => [PollerConnect!Next]_(PollerConnect!csvars)
  BY StepMoves DEF PlaceMoves, Callers, PollerConnect!Next, PollerConnect!csvars,
     PollerConnect!Refused, PollerConnect!Begin, PollerConnect!Hear,
     PollerConnect!Answer, PollerConnect!Return
<1> QED
  BY <1>1, <1>2, <1>3, CreateInvariance, PTL
  DEF Spec, ImplementsConnectSafety, MainConnect!Safety, PollerConnect!Safety

(* Nothing is left out here that a session may do: whatever answer or return
   ConnectSession allows to the call of main, while the process and the call of
   the poller stay as they are, is a step of TunnelCreate; and so for the
   poller's. *)
THEOREM NoSessionLeftOut ==
  ASSUME TypeOK, TypeOK', Alive,
         UNCHANGED <<mode, createVars, pollerVars, ctxDone, tunnel>>,
         \/ /\ MainConnect!Answer \/ MainConnect!Return
            /\ conn'["poller"] = conn["poller"] /\ heard'["poller"] = heard["poller"]
         \/ /\ PollerConnect!Answer \/ PollerConnect!Return
            /\ conn'["main"] = conn["main"] /\ heard'["main"] = heard["main"]
  PROVE  Next
<1> USE DEF TypeOK, Callers, PlaceOf, Alive, InConnect, Errors, createVars
<1>1. Alive'
  OBVIOUS
<1>2. PICK c \in Callers :
         /\ conn[c] = "session"
         /\ \A d \in Callers \ {c} : conn'[d] = conn[d] /\ heard'[d] = heard[d]
         /\ \/ /\ heard[c] = "menu" /\ heard'[c] \in {"cancel", "continue"}
               /\ conn'[c] = "session"
            \/ /\ heard'[c] = heard[c]
               /\ conn'[c] = "error" \/ (heard[c] = "cancel" /\ conn'[c] = "canceled")
  BY <1>1 DEF MainConnect!Answer, MainConnect!Return, PollerConnect!Answer,
              PollerConnect!Return
<1>3. /\ conn' = [conn EXCEPT ![c] = conn'[c]]
      /\ heard' = [heard EXCEPT ![c] = heard'[c]]
  BY <1>2
<1>4. CASE heard[c] = "menu" /\ heard'[c] \in {"cancel", "continue"} /\ conn'[c] = "session"
  <2>1. conn' = conn
    BY <1>2, <1>3, <1>4
  <2>2. MenuAnswered(c)
    BY <1>2, <1>3, <1>4, <2>1 DEF MenuAnswered
  <2> QED
    BY <2>2 DEF Next, SessionStep
<1>5. CASE /\ heard'[c] = heard[c]
           /\ conn'[c] = "error" \/ (heard[c] = "cancel" /\ conn'[c] = "canceled")
  <2>1. heard' = heard
    BY <1>3, <1>5
  <2>2. SessionEnds(c)
    BY <1>2, <1>3, <1>5, <2>1 DEF SessionEnds, ConnectMoves
  <2> QED
    BY <2>2 DEF Next, SessionStep
<1> QED
  BY <1>2, <1>4, <1>5
=============================================================================
