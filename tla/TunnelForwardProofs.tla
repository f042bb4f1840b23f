------------------------- MODULE TunnelForwardProofs -------------------------
(* TunnelForward for every set of requests. *)
EXTENDS TunnelForward, TLAPS

(* Nothing is posted before the first request. *)
LEMMA InitForward == Init => ForwardInv
  BY DEF Init, ForwardInv, TypeOK, OneResponse, FlagHasCause, Posting

(* A handler posts once on its way, and only a 404 raises the flag. *)
LEMMA StepForward == ForwardInv /\ [Next]_fvars => ForwardInv'
<1> SUFFICES ASSUME ForwardInv, [Next]_fvars
             PROVE  ForwardInv'
  OBVIOUS
<1> USE DEF ForwardInv, TypeOK, OneResponse, FlagHasCause, InFlight, Posting,
            Replies, Settled, Moves
<1>1. ASSUME NEW r \in Requests, Start(r) \/ HandlerStep(r)
      PROVE  ForwardInv'
  <2>1. CASE Start(r)
    BY <2>1 DEF Start
  <2>2. CASE ParseFails(r) \/ Parses(r)
    BY <2>2 DEF ParseFails, Parses
  <2>3. CASE LocalFails(r) \/ LocalAnswers(r)
    BY <2>3 DEF LocalFails, LocalAnswers
  <2>4. CASE Post(r)
    BY <2>4 DEF Post
  <2>5. CASE Hears200(r)
    BY <2>5 DEF Hears200
  <2>6. CASE Hears404(r)
    BY <2>6 DEF Hears404
  <2>7. CASE HearsError(r)
    BY <2>7 DEF HearsError
  <2> QED
    BY <1>1, <2>1, <2>2, <2>3, <2>4, <2>5, <2>6, <2>7 DEF HandlerStep
<1>2. CASE LoopClearsFlag
  BY <1>2 DEF LoopClearsFlag
<1>3. CASE UNCHANGED fvars
  BY <1>3 DEF fvars
<1> QED
  BY <1>1, <1>2, <1>3 DEF Next

(* What the server has been given, at each place of each handler. *)
THEOREM ForwardInvariance == Spec => []ForwardInv
  BY InitForward, StepForward, PTL DEF Spec

(* No request is ever answered twice, and every handler that heard 200 has
   delivered its answer. *)
THEOREM AtMostOneResponse == Spec => []OneResponse
<1>1. ForwardInv => OneResponse
  BY DEF ForwardInv
<1> QED
  BY <1>1, ForwardInvariance, PTL

(* The reconnection flag is never up without a 404. *)
THEOREM FlagIsCaused == Spec => []FlagHasCause
<1>1. ForwardInv => FlagHasCause
  BY DEF ForwardInv
<1> QED
  BY <1>1, ForwardInvariance, PTL
=============================================================================
