--------------------------- MODULE ConnectSession ---------------------------
(***************************************************************************)
(* One call of Connect as its caller sees it: it comes to a session or     *)
(* not, the session hears one Ctrl+C at most and asks its user what is     *)
(* meant, and Connect returns.  A session returns the error of its         *)
(* cancelled context only after the user told it to stop, and then it      *)
(* does return.                                                            *)
(*                                                                         *)
(* TunnelClient has the details of a session and implements this           *)
(* specification; TunnelCreate, which makes up to two calls of Connect,    *)
(* takes no more than this from each.                                      *)
(***************************************************************************)

VARIABLES
    place,     \* "before" the session, in it, or what Connect returned
    heard      \* what became of the signal that the session received

csvars == <<place, heard>>

Init ==
    /\ place \in {"before", "session"}
    /\ heard = "none"

(* Before its session Connect runs on its caller's context, and returns that
   context's error as well as any other. *)
Refused ==
    /\ place = "before"
    /\ place' \in {"error", "canceled"}
    /\ UNCHANGED heard

Begin ==
    /\ place = "before"
    /\ place' = "session"
    /\ UNCHANGED heard

Hear ==
    /\ place = "session"
    /\ heard = "none"
    /\ heard' = "menu"
    /\ UNCHANGED place

Answer ==
    /\ place = "session"
    /\ heard = "menu"
    /\ heard' \in {"cancel", "continue"}
    /\ UNCHANGED place

Return ==
    /\ place = "session"
    /\ \/ place' = "error"
       \/ heard = "cancel" /\ place' = "canceled"
    /\ UNCHANGED heard

Next == Refused \/ Begin \/ Hear \/ Answer \/ Return

Safety == Init /\ [][Next]_csvars

Spec == Safety /\ WF_csvars(heard = "cancel" /\ Return)
=============================================================================
