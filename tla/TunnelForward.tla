---------------------------- MODULE TunnelForward ----------------------------
(***************************************************************************)
(* The request handlers of a tunnel client: the goroutines that            *)
(* handleSSEEvents starts, one for each request event                      *)
(* (handleRequestEventWithTracking, forwardToLocalService, sendResponse    *)
(* and sendError of internal/tunnel/connect.go).  A handler parses the     *)
(* request, has the local service answer it, and posts one response to the *)
(* server.  Handlers share nothing but the flag needsReconnect, which a    *)
(* 404 of the server raises and a 200 clears.                              *)
(*                                                                         *)
(* The server and the network decide what becomes of a post; what the      *)
(* server accepted and what the client hears of it are two steps, since    *)
(* other handlers run in between and the reply can be lost.                *)
(***************************************************************************)
EXTENDS Naturals

CONSTANT Requests    \* the requests the server may send, told apart by their id

VARIABLES
    handler,         \* where the handler of each request is, see Phases
    needsReconnect,  \* Client.needsReconnect
    delivered        \* responses to each request that the server accepted

fvars == <<handler, needsReconnect, delivered>>

(* "sendError" and "sendResponse" are the two ways to post; "reply..." is a
   post the server has dealt with and whose reply the client has yet to act
   on; the rest is the end of a handler, by what became of its request. *)
Posting == {"sendError", "sendResponse"}
Replies == {"reply200", "reply404", "replyOther", "replyLost"}
Settled == {"unparsed", "answered", "notFound", "failed"}
InFlight == {"parse", "forward"} \cup Posting \cup Replies

TypeOK ==
    /\ handler \in [Requests -> {"none"} \cup InFlight \cup Settled]
    /\ needsReconnect \in {0, 1}
    /\ delivered \in [Requests -> Nat]

Init ==
    /\ handler = [r \in Requests |-> "none"]
    /\ needsReconnect = 0
    /\ delivered = [r \in Requests |-> 0]

Moves(r, from, to) ==
    /\ handler[r] = from
    /\ handler' = [handler EXCEPT ![r] = to]

(* The reader starts a handler. *)
Start(r) ==
    /\ Moves(r, "none", "parse")
    /\ UNCHANGED <<needsReconnect, delivered>>

(* The data is not JSON: the handler ends and the server hears nothing. *)
ParseFails(r) ==
    /\ Moves(r, "parse", "unparsed")
    /\ UNCHANGED <<needsReconnect, delivered>>

Parses(r) ==
    /\ Moves(r, "parse", "forward")
    /\ UNCHANGED <<needsReconnect, delivered>>

(* The body is not base64, the request cannot be built, the local service
   does not answer in time or its body cannot be read: a 500 is posted. *)
LocalFails(r) ==
    /\ Moves(r, "forward", "sendError")
    /\ UNCHANGED <<needsReconnect, delivered>>

LocalAnswers(r) ==
    /\ Moves(r, "forward", "sendResponse")
    /\ UNCHANGED <<needsReconnect, delivered>>

(* The post reaches the server or not; the server accepts the response, has no
   such tunnel, or refuses; its reply reaches the client or not. *)
Post(r) ==
    /\ handler[r] \in Posting
    /\ \E reply \in Replies : handler' = [handler EXCEPT ![r] = reply]
    /\ \/ /\ handler'[r] \in {"reply200", "replyLost"}
          /\ delivered' = [delivered EXCEPT ![r] = @ + 1]
       \/ /\ handler'[r] # "reply200"
          /\ UNCHANGED delivered
    /\ UNCHANGED needsReconnect

Hears200(r) ==
    /\ Moves(r, "reply200", "answered")
    /\ needsReconnect' = 0
    /\ UNCHANGED delivered

Hears404(r) ==
    /\ Moves(r, "reply404", "notFound")
    /\ needsReconnect' = 1
    /\ UNCHANGED delivered

(* Mutant: a post that failed is tried again. *)
MutRetryPost(r) ==
    /\ \/ Moves(r, "replyOther", "sendResponse")
       \/ Moves(r, "replyLost", "sendResponse")
    /\ UNCHANGED <<needsReconnect, delivered>>

(* Mutant: any failed post asks for a reconnection. *)
MutErrorRaisesFlag(r) ==
    /\ \/ Moves(r, "replyOther", "failed")
       \/ Moves(r, "replyLost", "failed")
    /\ needsReconnect' = 1
    /\ UNCHANGED delivered

HearsError(r) ==
    /\ \/ Moves(r, "replyOther", "failed")
       \/ Moves(r, "replyLost", "failed")
    /\ UNCHANGED <<needsReconnect, delivered>>

HandlerStep(r) ==
    \/ ParseFails(r) \/ Parses(r)
    \/ LocalFails(r) \/ LocalAnswers(r)
    \/ Post(r)
    \/ Hears200(r) \/ Hears404(r) \/ HearsError(r)

(* The retry loop resets the flag before each attempt and after each success. *)
LoopClearsFlag ==
    /\ needsReconnect' = 0
    /\ UNCHANGED <<handler, delivered>>

Next ==
    \/ \E r \in Requests : Start(r) \/ HandlerStep(r)
    \/ LoopClearsFlag

Spec == Init /\ [][Next]_fvars

(* Every step of a handler ends: the local service is given 8 seconds and the
   server 30, by the timeouts of the two HTTP clients. *)
Fairness == \A r \in Requests : WF_fvars(HandlerStep(r))

FairSpec == Spec /\ Fairness

-----------------------------------------------------------------------------
(* No path through forwardToLocalService, sendError and sendResponse gives the
   server two responses to one request, and a handler that heard 200 gave it
   exactly one; an unparsed request and one refused with 404 got none. *)
OneResponse ==
    \A r \in Requests :
        /\ delivered[r] <= 1
        /\ handler[r] = "answered" => delivered[r] = 1
        /\ handler[r] \in {"unparsed", "notFound"} => delivered[r] = 0

(* The flag is raised only after the server had no tunnel for some response. *)
FlagHasCause == needsReconnect = 1 => \E r \in Requests : handler[r] = "notFound"

(* The inductive invariant behind both: what the server has been given, at each
   place of the handler. *)
ForwardInv ==
    /\ TypeOK
    /\ OneResponse
    /\ FlagHasCause
    /\ \A r \in Requests :
          /\ handler[r] \in {"none", "parse", "forward"} \cup Posting => delivered[r] = 0
          /\ handler[r] = "reply200" => delivered[r] = 1
          /\ handler[r] \in {"reply404", "replyOther"} => delivered[r] = 0

(* Every request that was received is settled in the end. *)
RequestsSettle ==
    \A r \in Requests : (handler[r] = "parse") ~> (handler[r] \in Settled)
=============================================================================
