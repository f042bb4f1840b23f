------------------------------ MODULE Dashboard -------------------------------
(***************************************************************************)
(* The dashboard of `kubelb serve`: one page (templates/index.html) and    *)
(* the handlers of internal/ui/api.go that it calls, on a cluster that     *)
(* others write to as well.                                                *)
(*                                                                         *)
(* The page sends any number of requests at once and never waits for one   *)
(* before it sends the next: timers, clicks and answers interleave, and    *)
(* answers arrive in any order.  Each request has a slot; the handler      *)
(* works on it in steps, for other requests and other users write between  *)
(* its calls to the API server.                                            *)
(*                                                                         *)
(* A conversion is that of IngressConvert without polling, reduced to what *)
(* it does to the Ingresses.  An Ingress and a route may have the same     *)
(* name, and a converted route usually has its Ingress's: resources are    *)
(* named by the Ingress they are called like.                              *)
(*                                                                         *)
(* The dashboard is one started without --ingress-class: with it the       *)
(* handlers pass over the Ingresses of other classes.                      *)
(***************************************************************************)

CONSTANTS
    Ingress,     \* the Ingresses, by namespace and name
    Slot,        \* the requests that can be under way
    None,        \* no object, or nothing shown
    Outcome,     \* the annotations that a conversion without polling writes
    Foreign      \* the other annotations found in a cluster

Annotation == {"new"} \cup Outcome \cup Foreign

VARIABLES
    mark,         \* what the page shows of each Ingress in the cluster
    shown,        \* the table: the status of each row
    selected,     \* the selected keys
    current,      \* currentPreview, with previewMode
    modal,        \* the preview on the screen: its title, its convert button
    picked,       \* ghost: every Ingress ever ticked, or previewed by name
    req           \* the requests under way

page  == <<shown, selected, current, modal, picked>>
dvars == <<mark, page, req>>

Marks    == [skip : BOOLEAN, status : Annotation]
Marked   == Marks \cup {None}
Shown    == Annotation \cup {"skipped", None}
Previews == {"single", "batch", "resource"}
Converts == {"convert", "convertBatch"}
Kinds    == {"none", "list", "skip", "delete"} \cup Previews \cup Converts
Phases   == {"free", "sent", "reading", "applying", "found", "answered"}

Requests ==
    [kind   : Kinds,
     phase  : Phases,
     keys   : SUBSET Ingress,           \* what it names
     left   : SUBSET Ingress,           \* what is still to be read or applied
     seen   : [Ingress -> Marked],      \* what the handler read
     held   : SUBSET Ingress,           \* where that is still the current version
     rows   : [Ingress -> Shown],       \* the list in the answer
     dialog : BOOLEAN]                  \* the modal's button waits for its end

Unseen    == [i \in Ingress |-> None]
NoRequest == [kind |-> "none", phase |-> "free", keys |-> {}, left |-> {}, seen |-> Unseen,
              held |-> {}, rows |-> Unseen, dialog |-> FALSE]

Request(kind, keys) ==
    [NoRequest EXCEPT !.kind = kind, !.phase = "sent", !.keys = keys]

Targeted == [mode : Previews, keys : SUBSET Ingress]
Dialogs  == [title : Targeted, convert : BOOLEAN]

ASSUME DashboardAssumption ==
    /\ None \notin Marks \cup Annotation \cup {"skipped"}
    /\ None \notin Targeted \cup Dialogs

TypeOK ==
    /\ mark \in [Ingress -> Marked]
    /\ shown \in [Ingress -> Shown]
    /\ selected \in SUBSET Ingress
    /\ current \in Targeted \cup {None}
    /\ modal \in Dialogs \cup {None}
    /\ picked \in SUBSET Ingress
    /\ req \in [Slot -> Requests]

Init ==
    /\ mark \in [Ingress -> Marked]
    /\ shown = [i \in Ingress |-> None]
    /\ selected = {}
    /\ current = None
    /\ modal = None
    /\ picked = {}
    /\ req = [q \in Slot |-> NoRequest]

(* extractInfo, the same in api.go and in internal/ingress/list.go. *)
ExtractInfo(m) ==
    CASE m = None             -> None
      [] m # None /\ m.skip   -> "skipped"
      [] m # None /\ ~m.skip  -> m.status

(* The list that an answer carries. *)
View == [i \in Ingress |-> ExtractInfo(mark[i])]

(* canConvert of renderTable: only such rows can be ticked, unticked or skipped. *)
CanConvert(i) == shown[i] \in {"new", "failed"}

Is(q, kinds, phase) == req[q].kind \in kinds /\ req[q].phase = phase

Key(q) == CHOOSE i \in Ingress : req[q].keys = {i}

ModalBusy == \E q \in Slot : req[q].dialog

-----------------------------------------------------------------------------
(* What the user and the timer do with the page. *)

Send(q, request) ==
    /\ req[q].phase = "free"
    /\ req' = [req EXCEPT ![q] = request]

(* A checkbox, or all of them.  updateSelectedCount enables convertBtn with the
   first, while a conversion is under way as well: that it was disabled for one
   keeps nobody from another and is left out. *)
Tick(S) ==
    /\ selected' = selected \cup S
    /\ picked' = picked \cup S
    /\ UNCHANGED <<mark, shown, current, modal, req>>

Untick(S) ==
    /\ selected' = selected \ S
    /\ UNCHANGED <<mark, shown, current, modal, picked, req>>

TickRow(i)   == CanConvert(i) /\ i \notin selected /\ Tick({i})
UntickRow(i) == CanConvert(i) /\ i \in selected /\ Untick({i})
SelectAll    == Tick({i \in Ingress : CanConvert(i)})
SelectNone   == Untick({i \in Ingress : CanConvert(i)})

(* Mutant: the table is not refreshed while something is selected. *)
MutRefreshUnselected(q) ==
    /\ selected = {}
    /\ Send(q, Request("list", {}))
    /\ UNCHANGED <<mark, page>>

(* fetchIngresses, every five seconds and on request. *)
Refresh(q) ==
    /\ Send(q, Request("list", {}))
    /\ UNCHANGED <<mark, page>>

ShowPreview(q, i) ==
    /\ shown[i] # None
    /\ Send(q, Request("single", {i}))
    /\ picked' = picked \cup {i}
    /\ UNCHANGED <<mark, shown, selected, current, modal>>

(* The keys are those of the click.  Whether previewBtn is disabled is left out:
   a preview only reads. *)
PreviewSelected(q) ==
    /\ selected # {}
    /\ Send(q, Request("batch", selected))
    /\ UNCHANGED <<mark, page>>

PreviewResource(q, i) ==
    /\ Send(q, Request("resource", {i}))
    /\ UNCHANGED <<mark, page>>

(* Mutant: the click is not ignored when nothing is selected. *)
MutConvertNothing(q) ==
    /\ Send(q, Request("convertBatch", selected))
    /\ UNCHANGED <<mark, shown, selected, current, modal, picked>>

ConvertSelected(q) ==
    /\ selected # {}
    /\ Send(q, Request("convertBatch", selected))
    /\ UNCHANGED <<mark, shown, selected, current, modal, picked>>

(* A resource's preview would be converted like an Ingress's: what prevents it
   is that its convert button is hidden. *)
ConvertFromPreview(q) ==
    /\ modal # None /\ modal.convert
    /\ ~ModalBusy
    /\ current # None
    /\ LET kind == IF current.mode = "batch" THEN "convertBatch" ELSE "convert"
       IN Send(q, [Request(kind, current.keys) EXCEPT !.dialog = TRUE])
    /\ UNCHANGED <<mark, page>>

(* closeModal: the cross, Escape, or a click beside it. *)
CloseModal ==
    /\ modal # None
    /\ modal' = None
    /\ current' = None
    /\ UNCHANGED <<mark, shown, selected, picked, req>>

(* Mutant: the row shows the exclusion before the server has made it. *)
MutSkipAhead(q, i) ==
    /\ CanConvert(i)
    /\ Send(q, Request("skip", {i}))
    /\ shown' = [shown EXCEPT ![i] = "skipped"]
    /\ UNCHANGED <<mark, selected, current, modal, picked>>

SkipIngress(q, i) ==
    /\ CanConvert(i)
    /\ Send(q, Request("skip", {i}))
    /\ UNCHANGED <<mark, page>>

DeleteIngress(q, i) ==
    /\ shown[i] # None
    /\ Send(q, Request("delete", {i}))
    /\ UNCHANGED <<mark, page>>

-----------------------------------------------------------------------------
(* The handlers. *)

(* handleListIngresses. *)
ServeList(q) ==
    /\ Is(q, {"list"}, "sent")
    /\ req' = [req EXCEPT ![q].phase = "answered", ![q].rows = View]
    /\ UNCHANGED <<mark, page>>

(* Preview wants an Ingress that is there and not to be skipped, BatchPreview
   makes warnings of those that are not. *)
Preview(q)      == Is(q, {"single"}, "sent") /\ mark[Key(q)] # None /\ ~mark[Key(q)].skip
BatchPreview(q) == Is(q, {"batch"}, "sent") /\ req[q].keys # {}

(* The resource that is called like the Ingress may be there or not. *)
ResourcePreview(q) == Is(q, {"resource"}, "sent")

(* handlePreview, handleBatchPreview and handleResourcePreview only read. *)
ServePreview(q) ==
    /\ Preview(q) \/ BatchPreview(q) \/ ResourcePreview(q)
    /\ req' = [req EXCEPT ![q].phase = "answered"]
    /\ UNCHANGED <<mark, page>>

(* handleConvert and handleBatchConvert: buildIngressList takes no names for
   all Ingresses of the cluster. *)
Targets(keys) == IF keys = {} THEN Ingress ELSE keys

BeginConvert(q) ==
    /\ Is(q, Converts, "sent")
    /\ req' = [req EXCEPT ![q].phase = "reading", ![q].left =
                  IF req[q].keys = {} THEN {i \in Ingress : mark[i] # None} ELSE req[q].keys]
    /\ UNCHANGED <<mark, page>>

(* convertIngresses: what is gone has failed, which a single conversion does not
   survive, and what is to be skipped is left. *)
ReadIngress(q, i) ==
    /\ req[q].phase = "reading"
    /\ i \in req[q].left
    /\ req[q].kind = "convert" => mark[i] # None
    /\ req' =
          IF mark[i] # None /\ ~mark[i].skip
            THEN [req EXCEPT ![q].left = @ \ {i}, ![q].seen[i] = mark[i], ![q].held = @ \cup {i}]
            ELSE [req EXCEPT ![q].left = @ \ {i}]
    /\ UNCHANGED <<mark, page>>

AllRead(q) ==
    /\ req[q].phase = "reading"
    /\ req[q].left = {}
    /\ req' = [req EXCEPT ![q].phase = "applying",
                          ![q].left = {i \in Ingress : req[q].seen[i] # None}]
    /\ UNCHANGED <<mark, page>>

(* A write to an Ingress takes its version from every handler. *)
Written(i, r) == [q \in Slot |-> [r[q] EXCEPT !.held = @ \ {i}]]

(* Mutant: the annotation is written without a version. *)
MutBlindAnnotate(q, i) ==
    /\ req[q].phase = "applying"
    /\ i \in req[q].left
    /\ \E status \in Outcome : mark' = [mark EXCEPT ![i] = [req[q].seen[i] EXCEPT !.status = status]]
    /\ req' = Written(i, [req EXCEPT ![q].left = @ \ {i}, ![q].seen[i] = None])
    /\ UNCHANGED page

(* updateIngressStatus, after the routes: also of an Ingress with a failed one. *)
Annotate(q, i) ==
    /\ req[q].phase = "applying"
    /\ i \in req[q].left \cap req[q].held
    /\ \E status \in Outcome : mark' = [mark EXCEPT ![i] = [req[q].seen[i] EXCEPT !.status = status]]
    /\ req' = Written(i, [req EXCEPT ![q].left = @ \ {i}, ![q].seen[i] = None])
    /\ UNCHANGED page

(* A conflict is only a warning. *)
AnnotateFails(q, i) ==
    /\ req[q].phase = "applying"
    /\ i \in req[q].left
    /\ req' = [req EXCEPT ![q].left = @ \ {i}, ![q].seen[i] = None, ![q].held = @ \ {i}]
    /\ UNCHANGED <<mark, page>>

Answered(q) ==
    [NoRequest EXCEPT !.kind = req[q].kind, !.phase = "answered", !.dialog = req[q].dialog]

(* A batch reports its failures; a single conversion with one is Refused.  The
   lists that the answer carries are not looked at. *)
ConvertDone(q) ==
    /\ req[q].phase = "applying"
    /\ req[q].left = {}
    /\ req' = [req EXCEPT ![q] = Answered(q)]
    /\ UNCHANGED <<mark, page>>

(* handleSkipIngress and handleDeleteIngress first fetch the Ingress. *)
GetIngress(q) ==
    /\ Is(q, {"skip", "delete"}, "sent")
    /\ mark[Key(q)] # None
    /\ req' = IF req[q].kind = "skip"
                 THEN [req EXCEPT ![q].phase = "found", ![q].held = {Key(q)},
                                  ![q].seen[Key(q)] = mark[Key(q)]]
                 ELSE [req EXCEPT ![q].phase = "found"]
    /\ UNCHANGED <<mark, page>>

UpdateSkip(q) ==
    /\ Is(q, {"skip"}, "found")
    /\ Key(q) \in req[q].held
    /\ mark' = [mark EXCEPT ![Key(q)] = [req[q].seen[Key(q)] EXCEPT !.skip = TRUE]]
    /\ req' = Written(Key(q), [req EXCEPT ![q] = Answered(q)])
    /\ UNCHANGED page

(* Delete goes by the name, whatever has it by now. *)
DeleteFound(q) ==
    /\ Is(q, {"delete"}, "found")
    /\ mark[Key(q)] # None
    /\ mark' = [mark EXCEPT ![Key(q)] = None]
    /\ req' = Written(Key(q), [req EXCEPT ![q] = Answered(q)])
    /\ UNCHANGED page

(* A user, a converter, another page: anything may become of an Ingress. *)
OthersWrite(i) ==
    /\ \E new \in Marked \ {mark[i]} : mark' = [mark EXCEPT ![i] = new]
    /\ req' = Written(i, req)
    /\ UNCHANGED page

-----------------------------------------------------------------------------
(* What the page does with an answer.  Until its button is enabled again a
   conversion waits for the list that it asks for. *)

Release(q) == req' = [req EXCEPT ![q] = NoRequest]

(* Any call fails, an Update conflicts, the object is not there, a conversion
   failed, or the connection is lost, which cancels the handler's context: the
   page shows the error, and nothing else. *)
Refused(q) ==
    /\ req[q].phase # "free"
    /\ Release(q)
    /\ UNCHANGED <<mark, shown, selected, current, modal, picked>>

ListArrives(q) ==
    /\ Is(q, {"list"}, "answered")
    /\ shown' = req[q].rows
    /\ Release(q)
    /\ UNCHANGED <<mark, selected, current, modal, picked>>

(* Mutant: a preview opens the modal, but what it is of was set for another. *)
MutTitleOnly(q) ==
    /\ Is(q, Previews, "answered")
    /\ LET target == [mode |-> req[q].kind, keys |-> req[q].keys]
       IN /\ current' = IF current = None THEN target ELSE current
          /\ modal' = [title |-> target,
                       convert |-> target.mode # "resource" /\ (modal = None \/ modal.convert)]
    /\ Release(q)
    /\ UNCHANGED <<mark, shown, selected, picked>>

(* showPreview, previewSelected, previewResource: the last answer wins.  Only a
   resource touches the convert button, and hides it. *)
PreviewArrives(q) ==
    /\ Is(q, Previews, "answered")
    /\ LET target == [mode |-> req[q].kind, keys |-> req[q].keys]
       IN /\ current' = target
          /\ modal' = [title |-> target,
                       convert |-> target.mode # "resource" /\ (modal = None \/ modal.convert)]
    /\ Release(q)
    /\ UNCHANGED <<mark, shown, selected, picked>>

(* A batch drops the selection, also what was ticked since it was sent; a
   conversion from a preview closes whatever preview is on the screen. *)
ConvertArrives(q) ==
    /\ Is(q, Converts, "answered")
    /\ selected' = IF req[q].kind = "convertBatch" THEN {} ELSE selected
    /\ IF req[q].dialog
         THEN modal' = None /\ current' = None
         ELSE UNCHANGED <<modal, current>>
    /\ req' = [req EXCEPT ![q] = [Request("list", {}) EXCEPT !.dialog = req[q].dialog]]
    /\ UNCHANGED <<mark, shown, picked>>

ChangeArrives(q) ==
    /\ Is(q, {"skip", "delete"}, "answered")
    /\ req' = [req EXCEPT ![q] = Request("list", {})]
    /\ UNCHANGED <<mark, page>>

-----------------------------------------------------------------------------
UserStep ==
    \/ \E i \in Ingress : TickRow(i) \/ UntickRow(i)
    \/ SelectAll \/ SelectNone \/ CloseModal
    \/ \E q \in Slot :
          \/ PreviewSelected(q) \/ ConvertSelected(q) \/ ConvertFromPreview(q)
          \/ \E i \in Ingress :
                \/ ShowPreview(q, i) \/ PreviewResource(q, i)
                \/ SkipIngress(q, i) \/ DeleteIngress(q, i)

ServerStep(q) ==
    \/ ServeList(q) \/ ServePreview(q)
    \/ BeginConvert(q) \/ AllRead(q) \/ ConvertDone(q)
    \/ \E i \in Ingress : ReadIngress(q, i) \/ Annotate(q, i) \/ AnnotateFails(q, i)
    \/ GetIngress(q) \/ UpdateSkip(q) \/ DeleteFound(q)

Arrival(q) ==
    ListArrives(q) \/ PreviewArrives(q) \/ ConvertArrives(q) \/ ChangeArrives(q)

Next ==
    \/ UserStep
    \/ \E q \in Slot : Refresh(q) \/ ServerStep(q) \/ Arrival(q) \/ Refused(q)
    \/ \E i \in Ingress : OthersWrite(i)

Spec == Init /\ [][Next]_dvars

(* Handlers and answers make progress, and auto-refresh is on: its timer does
   not wait for earlier requests, so that clicks cannot keep it out. *)
Fairness ==
    /\ \A q \in Slot : WF_dvars(ServerStep(q) \/ Arrival(q) \/ Refused(q))
    /\ SF_dvars(\E q \in Slot : Refresh(q))

FairSpec == Spec /\ Fairness

-----------------------------------------------------------------------------
(* Correctness. *)

(* The preview's convert button converts what the preview's title says, an
   Ingress or a batch and never a resource, whichever answers came late. *)
TitleConverts ==
    modal # None =>
        /\ modal.title = current
        /\ modal.convert => modal.title.mode # "resource"

(* The server converts nothing for this page but Ingresses its user ticked or
   previewed: not all of the cluster for an empty batch, not the Ingress that
   happens to be called like a previewed resource. *)
OnlyPicked ==
    \A q \in Slot : req[q].kind \in Converts /\ req[q].phase # "answered" =>
        Targets(req[q].keys) \cup req[q].left \subseteq picked

(* What a handler writes to an Ingress it changes in nothing else, whoever
   wrote since it was read: no annotation of what was excluded meanwhile, no
   exclusion that takes an annotation back. *)
WritesAreAtomic ==
    [][\A i \in Ingress : mark'[i] # mark[i] =>
          \/ OthersWrite(i)
          \/ mark[i] # None /\ mark'[i] = None
          \/ /\ mark[i] # None
             /\ \/ mark'[i] = [mark[i] EXCEPT !.skip = TRUE]
                \/ ~mark[i].skip /\ \E s \in Outcome : mark'[i] = [mark[i] EXCEPT !.status = s]]_dvars

(* Answers that were read before the cluster came to be as it is. *)
Outdated == {q \in Slot : Is(q, {"list"}, "answered") /\ req[q].rows # View}

(* While the cluster stays as it is, no click and no answer takes the table away
   from it but lists that were read before, and each of these only once: rows are
   never changed ahead of a list, and lists under way never grow old of themselves. *)
TableFollows ==
    [][UNCHANGED mark =>
          /\ Outdated' \subseteq Outdated
          /\ shown' \in {shown, View} \cup {req[q].rows : q \in Outdated \ Outdated'}]_dvars

(* When nothing changes in the cluster any more and no list is refused, the
   table comes to show the cluster and goes on to, late answers included.  A list
   with nothing new arrives as if it were refused, and is not meant. *)
ListRefused(q) == req[q].kind = "list" /\ Refused(q) /\ ~ListArrives(q)

TableConverges ==
    <>[][UNCHANGED mark /\ \A q \in Slot : ~ListRefused(q)]_dvars => <>[](shown = View)

(* What makes them inductive: the selection, what is on the screen and every
   request that can come to convert name only what was picked, ... *)
RequestPicked(r) ==
    /\ r.kind \in {"single", "batch"} => r.keys # {} /\ r.keys \subseteq picked
    /\ r.kind \in Converts /\ r.phase # "answered" =>
          /\ r.keys # {} /\ r.keys \cup r.left \subseteq picked
          /\ \A i \in Ingress : r.seen[i] # None => i \in picked

PicksAreKept ==
    /\ selected \subseteq picked
    /\ current # None /\ current.mode # "resource" =>
          current.keys # {} /\ current.keys \subseteq picked
    /\ \A q \in Slot : RequestPicked(req[q])

(* ... and what a handler holds, nobody has written since it was read. *)
RequestCurrent(r) ==
    /\ r.phase = "sent" => r.held = {}
    /\ \A i \in r.held : r.seen[i] = mark[i] /\ mark[i] # None
    /\ r.phase \in {"reading", "applying"} =>
          r.kind \in Converts /\ \A i \in r.held : ~mark[i].skip

HeldIsCurrent == \A q \in Slot : RequestCurrent(req[q])

OneNamed ==
    \A q \in Slot : Is(q, {"skip", "delete"}, "sent") => \E i \in Ingress : req[q].keys = {i}

DashboardInv ==
    /\ TypeOK
    /\ (modal = None) = (current = None)
    /\ TitleConverts
    /\ PicksAreKept
    /\ OneNamed
    /\ HeldIsCurrent
=============================================================================
