---------------------------- MODULE TunnelSession ----------------------------
(***************************************************************************)
(* What `kubelb tunnel connect` promises its user, with the goroutines,    *)
(* the SSE stream and the monitors abstracted away: a session makes a      *)
(* bounded number of tries, is linked to the server or not, and ends with  *)
(* one verdict that is never taken back.  It ends well only because the    *)
(* user asked for it; and once the user has asked, it ends.                *)
(*                                                                         *)
(* TunnelClient, translated from internal/tunnel/connect.go, implements    *)
(* this specification.                                                     *)
(***************************************************************************)
EXTENDS Naturals

CONSTANT MaxTries    \* connections a session may try in its whole life

VARIABLES
    link,       \* "up" while the server holds the session's stream
    tries,      \* connections tried so far
    asked,      \* the user has asked the session to end
    verdict     \* "running", then how the session ended, for good

svars == <<link, tries, asked, verdict>>

Verdicts == {"ok", "refused", "exhausted"}

SessionTypeOK ==
    /\ link \in {"up", "down"}
    /\ tries \in 0..MaxTries
    /\ asked \in BOOLEAN
    /\ verdict \in {"running"} \cup Verdicts

Init ==
    /\ link = "down"
    /\ tries = 0
    /\ asked = FALSE
    /\ verdict = "running"

(* One more connection is tried; it links the session or it fails. *)
Try ==
    /\ verdict = "running"
    /\ link = "down"
    /\ tries < MaxTries
    /\ tries' = tries + 1
    /\ link' \in {"up", "down"}
    /\ UNCHANGED <<asked, verdict>>

(* The link is lost; the session goes on. *)
Drop ==
    /\ verdict = "running"
    /\ link = "up"
    /\ link' = "down"
    /\ UNCHANGED <<tries, asked, verdict>>

(* The user asks for the end: at most once, and never takes it back. *)
Ask ==
    /\ ~asked
    /\ asked' = TRUE
    /\ UNCHANGED <<link, tries, verdict>>

End(v) ==
    /\ verdict = "running"
    /\ v = "ok" => asked
    /\ v = "exhausted" => tries = MaxTries /\ link = "down"
    /\ verdict' = v
    /\ link' = "down"
    /\ UNCHANGED <<tries, asked>>

Next == Try \/ Drop \/ Ask \/ \E v \in Verdicts : End(v)

Safety == Init /\ [][Next]_svars

(* A session whose user has asked for the end does not go on for ever. *)
Spec == Safety /\ WF_svars(asked /\ \E v \in Verdicts : End(v))
=============================================================================
