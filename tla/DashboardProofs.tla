---------------------------- MODULE DashboardProofs ----------------------------
(***************************************************************************)
(* The safety of the dashboard, for every set of Ingresses and any number  *)
(* of requests at once.  What is converted is traced from the click: a tick *)
(* or a preview puts an Ingress among those picked, the selection and the  *)
(* preview on the screen hold nothing else, and neither does a conversion  *)
(* under way.  What is written is traced to what was read: as long as a    *)
(* handler holds the current version, what it saw is what is there.        *)
(***************************************************************************)
EXTENDS Dashboard, TLAPS

(* A request that is sent is one. *)
LEMMA RequestType ==
    ASSUME NEW kind \in Kinds, NEW keys \in SUBSET Ingress, NEW b \in BOOLEAN
    PROVE  /\ Request(kind, keys) \in Requests
           /\ [Request(kind, keys) EXCEPT !.dialog = b] \in Requests
           /\ NoRequest \in Requests
BY DEF Request, NoRequest, Requests, Kinds, Phases, Unseen, Marked, Shown

(* Taking a version from every handler keeps the requests' type. *)
LEMMA WrittenType ==
    ASSUME NEW i, NEW r \in [Slot -> Requests]
    PROVE  Written(i, r) \in [Slot -> Requests]
<1>1. ASSUME NEW q \in Slot PROVE [r[q] EXCEPT !.held = @ \ {i}] \in Requests
    <2>1. r[q] \in Requests
        OBVIOUS
    <2> QED BY <2>1 DEF Requests
<1> QED BY <1>1 DEF Written

(* Every row of a list is a status, none of which can be taken for a mark. *)
LEMMA ViewType ==
    ASSUME TypeOK PROVE View \in [Ingress -> Shown]
<1>1. ASSUME NEW i \in Ingress PROVE ExtractInfo(mark[i]) \in Shown
    <2>1. mark[i] \in Marks \cup {None}
        BY DEF TypeOK, Marked
    <2>2. CASE mark[i] = None
        BY <2>2 DEF ExtractInfo, Shown
    <2>3. CASE mark[i] # None /\ mark[i].skip
        BY <2>3 DEF ExtractInfo, Shown
    <2>4. CASE mark[i] # None /\ ~mark[i].skip
        BY <2>1, <2>4 DEF ExtractInfo, Shown, Marks
    <2> QED BY <2>2, <2>3, <2>4
<1> QED BY <1>1 DEF View

(* An answer is a request in its last phase. *)
LEMMA AnsweredType ==
    ASSUME TypeOK, NEW q \in Slot PROVE Answered(q) \in Requests
<1>1. req[q] \in Requests
    BY DEF TypeOK
<1> QED BY <1>1 DEF Answered, NoRequest, Requests, Kinds, Phases, Unseen, Marked, Shown

(* The type is kept by what the user does with the page. *)
LEMMA TypeOfUserStep ==
    ASSUME TypeOK, UserStep \/ \E q \in Slot : Refresh(q) PROVE TypeOK'
<1> USE DEF TypeOK
<1>1. ASSUME NEW S \in SUBSET Ingress, Tick(S) \/ Untick(S) PROVE TypeOK'
    BY <1>1 DEF Tick, Untick
<1>2. ASSUME NEW q \in Slot, NEW r \in Requests, Send(q, r) PROVE req' \in [Slot -> Requests]
    BY <1>2 DEF Send
<1>3. ASSUME NEW i \in Ingress, TickRow(i) \/ UntickRow(i) PROVE TypeOK'
    BY <1>1, <1>3 DEF TickRow, UntickRow
<1>4. ASSUME SelectAll \/ SelectNone PROVE TypeOK'
    BY <1>1, <1>4 DEF SelectAll, SelectNone
<1>5. CASE CloseModal
    BY <1>5 DEF CloseModal
<1>6. ASSUME NEW q \in Slot, Refresh(q) PROVE TypeOK'
    BY <1>2, <1>6, RequestType DEF Refresh, page, Kinds
<1>7. ASSUME NEW q \in Slot, PreviewSelected(q) \/ ConvertSelected(q) PROVE TypeOK'
    BY <1>2, <1>7, RequestType DEF PreviewSelected, ConvertSelected, page, Kinds, Previews, Converts
<1>8. ASSUME NEW q \in Slot, ConvertFromPreview(q) PROVE TypeOK'
    <2>1. current \in Targeted
        BY <1>8 DEF ConvertFromPreview
    <2> DEFINE kind == IF current.mode = "batch" THEN "convertBatch" ELSE "convert"
    <2>2. [Request(kind, current.keys) EXCEPT !.dialog = TRUE] \in Requests
        BY <2>1, RequestType DEF Kinds, Converts, Targeted
    <2> QED BY <1>2, <1>8, <2>2 DEF ConvertFromPreview, page
<1>9. ASSUME NEW q \in Slot, NEW i \in Ingress,
             ShowPreview(q, i) \/ PreviewResource(q, i) \/ SkipIngress(q, i) \/ DeleteIngress(q, i)
      PROVE  TypeOK'
    <2>1. \A k \in Kinds : Request(k, {i}) \in Requests
        BY RequestType
    <2> QED BY <1>2, <1>9, <2>1 DEF ShowPreview, PreviewResource, SkipIngress, DeleteIngress, page,
                                     Kinds, Previews
<1> QED BY <1>3, <1>4, <1>5, <1>6, <1>7, <1>8, <1>9 DEF UserStep

(* The type is kept by the handlers and by everybody else who writes. *)
LEMMA TypeOfServerStep ==
    ASSUME TypeOK, OneNamed, HeldIsCurrent,
           (\E q \in Slot : ServerStep(q)) \/ (\E i \in Ingress : OthersWrite(i))
    PROVE  TypeOK'
<1> USE DEF TypeOK
<1>1. ASSUME NEW q \in Slot, ServeList(q) PROVE TypeOK'
    <2>1. req[q] \in Requests /\ View \in [Ingress -> Shown]
        BY ViewType
    <2> QED BY <1>1, <2>1 DEF ServeList, page, Requests, Phases
<1>2. ASSUME NEW q \in Slot, ServePreview(q) PROVE TypeOK'
    <2>1. req[q] \in Requests
        OBVIOUS
    <2> QED BY <1>2, <2>1 DEF ServePreview, Preview, BatchPreview, ResourcePreview, page, Requests, Phases
<1>3. ASSUME NEW q \in Slot, BeginConvert(q) PROVE TypeOK'
    <2>1. req[q] \in Requests
        OBVIOUS
    <2>2. PICK L \in SUBSET Ingress :
             req' = [req EXCEPT ![q] = [req[q] EXCEPT !.phase = "reading", !.left = L]]
        <3>1. (IF req[q].keys = {} THEN {i \in Ingress : mark[i] # None} ELSE req[q].keys)
                 \in SUBSET Ingress
            BY <2>1 DEF Requests
        <3> QED BY <1>3, <3>1 DEF BeginConvert
    <2>3. [req[q] EXCEPT !.phase = "reading", !.left = L] \in Requests
        BY <2>1 DEF Requests, Phases
    <2> QED BY <1>3, <2>2, <2>3 DEF BeginConvert, page
<1>4. ASSUME NEW q \in Slot, AllRead(q) PROVE TypeOK'
    <2>1. req[q] \in Requests
        OBVIOUS
    <2>2. PICK L \in SUBSET Ingress :
             req' = [req EXCEPT ![q] = [req[q] EXCEPT !.phase = "applying", !.left = L]]
        BY <1>4 DEF AllRead
    <2>3. [req[q] EXCEPT !.phase = "applying", !.left = L] \in Requests
        BY <2>1 DEF Requests, Phases
    <2> QED BY <1>4, <2>2, <2>3 DEF AllRead, page
<1>5. ASSUME NEW q \in Slot, ConvertDone(q) PROVE TypeOK'
    BY <1>5, AnsweredType DEF ConvertDone, page
<1>6. ASSUME NEW q \in Slot, NEW i \in Ingress, ReadIngress(q, i) PROVE TypeOK'
    <2>1. req[q] \in Requests /\ mark[i] \in Marked
        OBVIOUS
    <2>2. [req[q].seen EXCEPT ![i] = mark[i]] \in [Ingress -> Marked]
        BY <2>1 DEF Requests
    <2>3. [req[q] EXCEPT !.left = @ \ {i}, !.seen[i] = mark[i], !.held = @ \cup {i}] \in Requests
        BY <2>1, <2>2 DEF Requests
    <2>4. [req[q] EXCEPT !.left = @ \ {i}] \in Requests
        BY <2>1 DEF Requests
    <2> QED BY <1>6, <2>3, <2>4 DEF ReadIngress, page
<1>7. ASSUME NEW q \in Slot, NEW i \in Ingress, Annotate(q, i) PROVE TypeOK'
    <2>1. req[q] \in Requests /\ None \in Marked
        BY DEF Marked
    <2>2. [req[q] EXCEPT !.left = @ \ {i}, !.seen[i] = None] \in Requests
        BY <2>1 DEF Requests
    <2>3. req' \in [Slot -> Requests]
        BY <1>7, <2>2, WrittenType DEF Annotate
    <2>4. req[q].seen[i] \in Marks
        BY <1>7 DEF Annotate, HeldIsCurrent, RequestCurrent, Marked
    <2>5. \A s \in Outcome : [req[q].seen[i] EXCEPT !.status = s] \in Marked
        BY <2>4 DEF Marked, Marks, Annotation
    <2>6. mark' \in [Ingress -> Marked]
        BY <1>7, <2>5 DEF Annotate
    <2> QED BY <1>7, <2>3, <2>6 DEF Annotate, page
<1>8. ASSUME NEW q \in Slot, NEW i \in Ingress, AnnotateFails(q, i) PROVE TypeOK'
    <2>1. req[q] \in Requests /\ None \in Marked
        BY DEF Marked
    <2>2. [req[q] EXCEPT !.left = @ \ {i}, !.seen[i] = None, !.held = @ \ {i}] \in Requests
        BY <2>1 DEF Requests
    <2> QED BY <1>8, <2>2 DEF AnnotateFails, page
<1>9. ASSUME NEW q \in Slot, GetIngress(q) PROVE TypeOK'
    <2>1. PICK i \in Ingress : req[q].keys = {i}
        BY <1>9 DEF GetIngress, OneNamed
    <2>2. Key(q) = i
        BY <2>1 DEF Key
    <2>3. req[q] \in Requests /\ mark[i] \in Marked
        OBVIOUS
    <2>4. [req[q] EXCEPT !.phase = "found"] \in Requests
        BY <2>3 DEF Requests, Phases
    <2>5. [req[q].seen EXCEPT ![i] = mark[i]] \in [Ingress -> Marked]
        BY <2>3 DEF Requests
    <2>6. [req[q] EXCEPT !.phase = "found", !.held = {i}, !.seen[i] = mark[i]] \in Requests
        BY <2>3, <2>5 DEF Requests, Phases
    <2> QED BY <1>9, <2>2, <2>4, <2>6 DEF GetIngress, page
<1>10. ASSUME NEW q \in Slot, UpdateSkip(q) PROVE TypeOK'
    <2>1. req[q] \in Requests
        OBVIOUS
    <2>2. Key(q) \in Ingress
        BY <1>10, <2>1 DEF UpdateSkip, Requests
    <2>3. [req EXCEPT ![q] = Answered(q)] \in [Slot -> Requests]
        BY AnsweredType
    <2>4. req' \in [Slot -> Requests]
        BY <1>10, <2>2, <2>3, WrittenType DEF UpdateSkip
    <2>5. req[q].seen[Key(q)] \in Marks
        BY <1>10, <2>2 DEF UpdateSkip, HeldIsCurrent, RequestCurrent, Marked
    <2>6. [req[q].seen[Key(q)] EXCEPT !.skip = TRUE] \in Marked
        BY <2>5 DEF Marked, Marks
    <2>7. mark' \in [Ingress -> Marked]
        BY <1>10, <2>6 DEF UpdateSkip
    <2> QED BY <1>10, <2>4, <2>7 DEF UpdateSkip, page
<1>11. ASSUME NEW q \in Slot, DeleteFound(q) PROVE TypeOK'
    <2>1. [req EXCEPT ![q] = Answered(q)] \in [Slot -> Requests]
        BY AnsweredType
    <2>2. Written(Key(q), [req EXCEPT ![q] = Answered(q)]) \in [Slot -> Requests]
        BY <2>1, WrittenType
    <2>3. mark' \in [Ingress -> Marked]
        BY <1>11 DEF DeleteFound, Marked
    <2> QED BY <1>11, <2>2, <2>3 DEF DeleteFound, page
<1>12. ASSUME NEW i \in Ingress, OthersWrite(i) PROVE TypeOK'
    <2>1. req' \in [Slot -> Requests]
        BY <1>12, WrittenType DEF OthersWrite
    <2> QED BY <1>12, <2>1 DEF OthersWrite, page
<1> QED BY <1>1, <1>2, <1>3, <1>4, <1>5, <1>6, <1>7, <1>8, <1>9, <1>10, <1>11, <1>12 DEF ServerStep

(* The type is kept by the answers and errors that arrive. *)
LEMMA TypeOfArrival ==
    ASSUME TypeOK, NEW q \in Slot, Arrival(q) \/ Refused(q) PROVE TypeOK'
<1> USE DEF TypeOK
<1>1. req[q] \in Requests
    OBVIOUS
<1>2. Release(q) => req' \in [Slot -> Requests]
    BY RequestType DEF Release, Kinds
<1>3. CASE ListArrives(q)
    BY <1>1, <1>2, <1>3 DEF ListArrives, Requests
<1>4. CASE PreviewArrives(q)
    <2> DEFINE target == [mode |-> req[q].kind, keys |-> req[q].keys]
    <2>1. target \in Targeted
        BY <1>1, <1>4 DEF PreviewArrives, Is, Targeted, Requests
    <2>2. ASSUME NEW b \in BOOLEAN PROVE [title |-> target, convert |-> b] \in Dialogs
        BY <2>1 DEF Dialogs
    <2>3. (target.mode # "resource" /\ (modal = None \/ modal.convert)) \in BOOLEAN
        OBVIOUS
    <2>4. modal' \in Dialogs
        BY <1>4, <2>2, <2>3 DEF PreviewArrives
    <2> QED BY <1>2, <1>4, <2>1, <2>4 DEF PreviewArrives
<1>5. CASE ConvertArrives(q)
    <2>1. [Request("list", {}) EXCEPT !.dialog = req[q].dialog] \in Requests
        <3>1. req[q].dialog \in BOOLEAN
            BY <1>1 DEF Requests
        <3>2. "list" \in Kinds /\ {} \in SUBSET Ingress
            BY DEF Kinds
        <3> QED BY <3>1, <3>2, RequestType
    <2> QED BY <1>5, <2>1 DEF ConvertArrives
<1>6. CASE ChangeArrives(q)
    BY <1>6, RequestType DEF ChangeArrives, page, Kinds
<1>7. CASE Refused(q)
    BY <1>2, <1>7 DEF Refused
<1> QED BY <1>3, <1>4, <1>5, <1>6, <1>7 DEF Arrival

-----------------------------------------------------------------------------
(* What is converted was picked. *)

(* A step that changes one request, and takes nothing from what was picked,
   keeps the others within it. *)
LEMMA OneRequestPicked ==
    ASSUME NEW q \in Slot, \A s \in Slot : s # q => req'[s] = req[s],
           \A s \in Slot : RequestPicked(req[s]), picked \subseteq picked', RequestPicked(req[q])'
    PROVE  (\A s \in Slot : RequestPicked(req[s]))'
<1>1. ASSUME NEW s \in Slot, s # q PROVE RequestPicked(req[s])'
    <2>1. req'[s] = req[s] /\ RequestPicked(req[s])
        BY <1>1
    <2> QED BY <2>1 DEF RequestPicked
<1> QED BY <1>1

(* A version that is lost changes nothing in what a request names. *)
LEMMA WrittenPicked ==
    ASSUME NEW i, NEW r \in [Slot -> Requests], req' = Written(i, r), picked' = picked,
           \A s \in Slot : RequestPicked(r[s])
    PROVE  (\A s \in Slot : RequestPicked(req[s]))'
<1>1. ASSUME NEW s \in Slot PROVE RequestPicked(req[s])'
    <2>1. r[s] \in Requests /\ req'[s] = [r[s] EXCEPT !.held = @ \ {i}]
        BY DEF Written
    <2>2. /\ req'[s].kind = r[s].kind /\ req'[s].phase = r[s].phase /\ req'[s].keys = r[s].keys
          /\ req'[s].left = r[s].left /\ req'[s].seen = r[s].seen
        BY <2>1 DEF Requests
    <2> QED BY <2>2 DEF RequestPicked
<1> QED BY <1>1

(* What is sent names what it is sent with, and nothing else. *)
LEMMA SentPicked ==
    ASSUME NEW q \in Slot, NEW kind, NEW keys, NEW b, req \in [Slot -> Requests],
           \/ req' = [req EXCEPT ![q] = Request(kind, keys)]
           \/ req' = [req EXCEPT ![q] = [Request(kind, keys) EXCEPT !.dialog = b]],
           kind \in {"single", "batch"} \cup Converts => keys # {} /\ keys \subseteq picked',
           \A s \in Slot : RequestPicked(req[s]), picked \subseteq picked'
    PROVE  (\A s \in Slot : RequestPicked(req[s]))'
<1>1. /\ req'[q].kind = kind /\ req'[q].keys = keys /\ req'[q].left = {}
      /\ \A i \in Ingress : req'[q].seen[i] = None
    <2>1. req'[q] = Request(kind, keys) \/ req'[q] = [Request(kind, keys) EXCEPT !.dialog = b]
        OBVIOUS
    <2>2. req'[q].kind = kind /\ req'[q].keys = keys /\ req'[q].left = {} /\ req'[q].seen = Unseen
        BY <2>1 DEF Request, NoRequest
    <2> QED BY <2>2 DEF Unseen
<1>2. RequestPicked(req[q])'
    BY <1>1 DEF RequestPicked
<1> QED BY <1>2, OneRequestPicked

(* A request that is over names nothing. *)
LEMMA OverPicked ==
    ASSUME NEW q \in Slot, req \in [Slot -> Requests],
           \/ req' = [req EXCEPT ![q] = NoRequest]
           \/ req' = [req EXCEPT ![q] = Answered(q)],
           req' = [req EXCEPT ![q] = NoRequest] \/ req[q].kind \notin {"single", "batch"},
           \A s \in Slot : RequestPicked(req[s]), picked \subseteq picked'
    PROVE  (\A s \in Slot : RequestPicked(req[s]))'
<1>1. /\ req'[q].kind \notin {"single", "batch"}
      /\ req'[q].kind \in Converts => req'[q].phase = "answered"
    <2>1. CASE req' = [req EXCEPT ![q] = NoRequest]
        BY <2>1 DEF NoRequest, Converts
    <2>2. CASE req' = [req EXCEPT ![q] = Answered(q)] /\ req[q].kind \notin {"single", "batch"}
        <3>1. req'[q] = Answered(q)
            BY <2>2
        <3> QED BY <2>2, <3>1 DEF Answered, NoRequest
    <2> QED BY <2>1, <2>2
<1>2. RequestPicked(req[q])'
    BY <1>1 DEF RequestPicked
<1> QED BY <1>2, OneRequestPicked

(* The picks are kept by the page's user and its timer. *)
LEMMA PicksOfUserStep ==
    ASSUME TypeOK, TitleConverts, PicksAreKept, UserStep \/ \E q \in Slot : Refresh(q)
    PROVE  PicksAreKept'
<1> USE DEF PicksAreKept
<1>0. req \in [Slot -> Requests]
    BY DEF TypeOK
<1>1. ASSUME NEW S \in SUBSET Ingress, Tick(S) \/ Untick(S) PROVE PicksAreKept'
    <2>1. picked \subseteq picked' /\ req' = req /\ current' = current /\ selected' \subseteq picked'
        BY <1>1 DEF Tick, Untick
    <2> QED BY <2>1 DEF RequestPicked
<1>2. ASSUME NEW i \in Ingress, TickRow(i) \/ UntickRow(i) PROVE PicksAreKept'
    BY <1>1, <1>2 DEF TickRow, UntickRow
<1>3. ASSUME SelectAll \/ SelectNone PROVE PicksAreKept'
    BY <1>1, <1>3 DEF SelectAll, SelectNone
<1>4. CASE CloseModal
    BY <1>4 DEF CloseModal, RequestPicked
<1>5. ASSUME NEW q \in Slot, Refresh(q) PROVE PicksAreKept'
    BY <1>0, <1>5, SentPicked DEF Refresh, Send, page, Converts
<1>6. ASSUME NEW q \in Slot, PreviewSelected(q) PROVE PicksAreKept'
    BY <1>0, <1>6, SentPicked DEF PreviewSelected, Send, page
<1>7. ASSUME NEW q \in Slot, ConvertSelected(q) PROVE PicksAreKept'
    BY <1>0, <1>7, SentPicked DEF ConvertSelected, Send
<1>8. ASSUME NEW q \in Slot, ConvertFromPreview(q) PROVE PicksAreKept'
    <2>1. PICK kind : req' = [req EXCEPT ![q] = [Request(kind, current.keys) EXCEPT !.dialog = TRUE]]
        BY <1>8 DEF ConvertFromPreview, Send
    <2>2. current.mode # "resource"
        BY <1>8 DEF ConvertFromPreview, TitleConverts
    <2>3. current.keys # {} /\ current.keys \subseteq picked'
        BY <1>8, <2>2 DEF ConvertFromPreview, page
    <2> QED BY <1>0, <1>8, <2>1, <2>3, SentPicked DEF ConvertFromPreview, page
<1>9. ASSUME NEW q \in Slot, NEW i \in Ingress, ShowPreview(q, i) PROVE PicksAreKept'
    BY <1>0, <1>9, SentPicked DEF ShowPreview, Send
<1>10. ASSUME NEW q \in Slot, NEW i \in Ingress,
              PreviewResource(q, i) \/ SkipIngress(q, i) \/ DeleteIngress(q, i)
       PROVE  PicksAreKept'
    <2>1. PICK kind \in {"resource", "skip", "delete"} : req' = [req EXCEPT ![q] = Request(kind, {i})]
        BY <1>10 DEF PreviewResource, SkipIngress, DeleteIngress, Send
    <2>2. UNCHANGED page
        BY <1>10 DEF PreviewResource, SkipIngress, DeleteIngress
    <2> QED BY <1>0, <2>1, <2>2, SentPicked DEF page, Converts
<1> QED BY <1>2, <1>3, <1>4, <1>5, <1>6, <1>7, <1>8, <1>9, <1>10 DEF UserStep

(* The picks are kept by the handlers and by everybody else who writes. *)
LEMMA PicksOfServerStep ==
    ASSUME TypeOK, PicksAreKept, HeldIsCurrent,
           (\E q \in Slot : ServerStep(q)) \/ (\E i \in Ingress : OthersWrite(i))
    PROVE  PicksAreKept'
<1> USE DEF PicksAreKept
<1>0. req \in [Slot -> Requests]
    BY DEF TypeOK
<1>1. UNCHANGED page
    <2>1. ASSUME NEW q \in Slot, ServerStep(q) PROVE UNCHANGED page
        BY <2>1 DEF ServerStep, ServeList, ServePreview, Preview, BatchPreview, ResourcePreview, BeginConvert, AllRead, ConvertDone,
                    ReadIngress, Annotate, AnnotateFails, GetIngress, UpdateSkip, DeleteFound
    <2>2. ASSUME NEW i \in Ingress, OthersWrite(i) PROVE UNCHANGED page
        BY <2>2 DEF OthersWrite
    <2> QED BY SMTT(30), <2>1, <2>2
<1>2. SUFFICES (\A q \in Slot : RequestPicked(req[q]))'
    BY <1>1 DEF page
<1>3. picked' = picked
    BY <1>1 DEF page
<1>4. ASSUME NEW q \in Slot, ServeList(q) \/ ServePreview(q)
      PROVE  (\A s \in Slot : RequestPicked(req[s]))'
    <2>1. /\ req'[q].kind = req[q].kind /\ req'[q].keys = req[q].keys
          /\ req[q].kind \notin Converts
        BY <1>0, <1>4 DEF ServeList, ServePreview, Preview, BatchPreview, ResourcePreview, Is, Previews, Converts, Requests
    <2>2. RequestPicked(req[q])'
        BY <1>3, <2>1 DEF RequestPicked
    <2> QED BY <1>0, <1>3, <1>4, <2>2, OneRequestPicked DEF ServeList, ServePreview, Preview, BatchPreview, ResourcePreview
<1>5. ASSUME NEW q \in Slot, BeginConvert(q) PROVE (\A s \in Slot : RequestPicked(req[s]))'
    <2>1. /\ req[q].kind \in Converts /\ req[q].phase = "sent" /\ req[q].keys # {}
          /\ req[q].keys \subseteq picked
        BY <1>5 DEF BeginConvert, Is, RequestPicked
    <2>2. /\ req'[q].kind = req[q].kind /\ req'[q].keys = req[q].keys
          /\ req'[q].left = req[q].keys /\ req'[q].seen = req[q].seen
        BY <1>0, <1>5, <2>1 DEF BeginConvert, Requests
    <2>3. RequestPicked(req[q])'
        BY <1>3, <2>1, <2>2 DEF RequestPicked, Converts
    <2> QED BY <1>0, <1>3, <1>5, <2>3, OneRequestPicked DEF BeginConvert
<1>6. ASSUME NEW q \in Slot, AllRead(q) PROVE (\A s \in Slot : RequestPicked(req[s]))'
    <2>1. /\ req'[q].kind = req[q].kind /\ req'[q].keys = req[q].keys
          /\ req'[q].left \subseteq {i \in Ingress : req[q].seen[i] # None}
          /\ req'[q].seen = req[q].seen /\ req[q].phase = "reading"
        BY <1>0, <1>6 DEF AllRead, Requests
    <2>2. RequestPicked(req[q])'
        BY <1>3, <2>1 DEF RequestPicked
    <2> QED BY <1>0, <1>3, <1>6, <2>2, OneRequestPicked DEF AllRead
<1>7. ASSUME NEW q \in Slot, ConvertDone(q) PROVE (\A s \in Slot : RequestPicked(req[s]))'
    <2>1. req[q].kind \notin {"single", "batch"}
        BY <1>7 DEF ConvertDone, HeldIsCurrent, RequestCurrent, Converts
    <2> QED BY <1>0, <1>3, <1>7, <2>1, OverPicked DEF ConvertDone
<1>8. ASSUME NEW q \in Slot, NEW i \in Ingress, ReadIngress(q, i)
      PROVE  (\A s \in Slot : RequestPicked(req[s]))'
    <2>1. /\ req'[q].kind = req[q].kind /\ req'[q].keys = req[q].keys /\ i \in req[q].left
          /\ req'[q].left = req[q].left \ {i} /\ req[q].phase = "reading"
        BY <1>0, <1>8 DEF ReadIngress, Requests
    <2>2. \A j \in Ingress : j # i => req'[q].seen[j] = req[q].seen[j]
        BY <1>0, <1>8 DEF ReadIngress, Requests
    <2>3. RequestPicked(req[q])'
        BY <1>3, <2>1, <2>2 DEF RequestPicked
    <2>4. \A s \in Slot : s # q => req'[s] = req[s]
        BY <1>0, <1>8 DEF ReadIngress
    <2> QED BY <1>3, <2>3, <2>4, OneRequestPicked
<1>9. ASSUME NEW q \in Slot, NEW i \in Ingress, NEW r,
             \/ r = [req EXCEPT ![q].left = @ \ {i}, ![q].seen[i] = None]
             \/ r = [req EXCEPT ![q].left = @ \ {i}, ![q].seen[i] = None, ![q].held = @ \ {i}],
             req[q].phase = "applying"
      PROVE  r \in [Slot -> Requests] /\ \A s \in Slot : RequestPicked(r[s])
    <2>1. req[q] \in Requests /\ RequestPicked(req[q]) /\ None \in Marked
        BY <1>0 DEF Marked
    <2>2. CASE r = [req EXCEPT ![q].left = @ \ {i}, ![q].seen[i] = None]
        <3>1. r[q] = [req[q] EXCEPT !.left = @ \ {i}, !.seen[i] = None]
            BY <1>0, <2>2
        <3>2. r \in [Slot -> Requests] /\ \A s \in Slot : s # q => r[s] = req[s]
            BY <1>0, <2>1, <2>2 DEF Requests
        <3>3. /\ r[q].kind = req[q].kind /\ r[q].keys = req[q].keys
              /\ r[q].left \subseteq req[q].left /\ r[q].phase = "applying"
              /\ \A j \in Ingress : r[q].seen[j] # None => req[q].seen[j] # None
            BY <1>9, <2>1, <3>1 DEF Requests
        <3>4. RequestPicked(r[q])
            BY <2>1, <3>3, <1>9 DEF RequestPicked
        <3> QED BY <3>2, <3>4
    <2>3. CASE r = [req EXCEPT ![q].left = @ \ {i}, ![q].seen[i] = None, ![q].held = @ \ {i}]
        <3>1. r[q] = [req[q] EXCEPT !.left = @ \ {i}, !.seen[i] = None, !.held = @ \ {i}]
            BY <1>0, <2>3
        <3>2. r \in [Slot -> Requests] /\ \A s \in Slot : s # q => r[s] = req[s]
            BY <1>0, <2>1, <2>3 DEF Requests
        <3>3. /\ r[q].kind = req[q].kind /\ r[q].keys = req[q].keys
              /\ r[q].left \subseteq req[q].left /\ r[q].phase = "applying"
              /\ \A j \in Ingress : r[q].seen[j] # None => req[q].seen[j] # None
            BY <1>9, <2>1, <3>1 DEF Requests
        <3>4. RequestPicked(r[q])
            BY <2>1, <3>3, <1>9 DEF RequestPicked
        <3> QED BY <3>2, <3>4
    <2> QED BY <1>9, <2>2, <2>3
<1>10. ASSUME NEW q \in Slot, NEW i \in Ingress, Annotate(q, i)
       PROVE  (\A s \in Slot : RequestPicked(req[s]))'
    <2> DEFINE r == [req EXCEPT ![q].left = @ \ {i}, ![q].seen[i] = None]
    <2>1. req' = Written(i, r) /\ req[q].phase = "applying"
        BY <1>10 DEF Annotate
    <2>2. r \in [Slot -> Requests] /\ \A s \in Slot : RequestPicked(r[s])
        BY <1>9, <2>1
    <2> HIDE DEF r
    <2> QED BY <1>3, <2>1, <2>2, WrittenPicked
<1>11. ASSUME NEW q \in Slot, NEW i \in Ingress, AnnotateFails(q, i)
       PROVE  (\A s \in Slot : RequestPicked(req[s]))'
    <2> DEFINE r == [req EXCEPT ![q].left = @ \ {i}, ![q].seen[i] = None, ![q].held = @ \ {i}]
    <2>1. req' = r /\ req[q].phase = "applying"
        BY <1>11 DEF AnnotateFails
    <2>2. \A s \in Slot : RequestPicked(r[s])
        BY <1>9, <2>1
    <2> HIDE DEF r
    <2> QED BY <1>3, <2>1, <2>2 DEF RequestPicked
<1>12. ASSUME NEW q \in Slot, GetIngress(q) PROVE (\A s \in Slot : RequestPicked(req[s]))'
    <2>1. req'[q].kind = req[q].kind /\ req[q].kind \in {"skip", "delete"}
        BY <1>0, <1>12 DEF GetIngress, Is, Requests
    <2>2. RequestPicked(req[q])'
        BY <2>1 DEF RequestPicked, Converts
    <2>3. \A s \in Slot : s # q => req'[s] = req[s]
        BY <1>0, <1>12 DEF GetIngress
    <2> QED BY <1>3, <2>2, <2>3, OneRequestPicked
<1>13. ASSUME NEW q \in Slot, UpdateSkip(q) \/ DeleteFound(q)
       PROVE  (\A s \in Slot : RequestPicked(req[s]))'
    <2>1. /\ req[q].kind \in {"skip", "delete"}
          /\ req' = Written(Key(q), [req EXCEPT ![q] = Answered(q)])
        BY <1>13 DEF UpdateSkip, DeleteFound, Is
    <2>2. Answered(q) \in Requests /\ RequestPicked(Answered(q))
        <3>1. Answered(q).kind = req[q].kind
            BY DEF Answered, NoRequest
        <3> QED BY <2>1, <3>1, AnsweredType DEF RequestPicked, Converts
    <2>3. /\ [req EXCEPT ![q] = Answered(q)] \in [Slot -> Requests]
          /\ \A s \in Slot : RequestPicked([req EXCEPT ![q] = Answered(q)][s])
        BY <1>0, <2>2
    <2> QED BY <1>3, <2>1, <2>3, WrittenPicked
<1>14. ASSUME NEW i \in Ingress, OthersWrite(i) PROVE (\A s \in Slot : RequestPicked(req[s]))'
    BY <1>0, <1>3, <1>14, WrittenPicked DEF OthersWrite
<1> QED
    BY <1>4, <1>5, <1>6, <1>7, <1>8, <1>10, <1>11, <1>12, <1>13, <1>14 DEF ServerStep

(* The picks are kept by the answers and errors that arrive. *)
LEMMA PicksOfArrival ==
    ASSUME TypeOK, PicksAreKept, NEW q \in Slot, Arrival(q) \/ Refused(q) PROVE PicksAreKept'
<1> USE DEF PicksAreKept
<1>0. req \in [Slot -> Requests] /\ picked' = picked
    BY DEF TypeOK, Arrival, ListArrives, PreviewArrives, ConvertArrives, ChangeArrives, Refused, page
<1>1. Release(q) => (\A s \in Slot : RequestPicked(req[s]))'
    BY <1>0, OverPicked DEF Release
<1>2. CASE ListArrives(q) \/ Refused(q)
    BY <1>0, <1>1, <1>2 DEF ListArrives, Refused
<1>3. CASE PreviewArrives(q)
    <2>1. req[q].kind \in Previews /\ current' = [mode |-> req[q].kind, keys |-> req[q].keys]
        BY <1>3 DEF PreviewArrives, Is
    <2>2. current'.mode # "resource" => current'.keys # {} /\ current'.keys \subseteq picked
        BY <2>1 DEF Previews, RequestPicked
    <2> QED BY <1>0, <1>1, <1>3, <2>2 DEF PreviewArrives
<1>4. CASE ConvertArrives(q)
    <2>1. /\ selected' \subseteq selected
          /\ current' = None \/ current' = current
        BY <1>4 DEF ConvertArrives
    <2>2. (\A s \in Slot : RequestPicked(req[s]))'
        BY <1>0, <1>4, SentPicked DEF ConvertArrives, Converts
    <2> QED BY <1>0, <2>1, <2>2
<1>5. CASE ChangeArrives(q)
    BY <1>0, <1>5, SentPicked DEF ChangeArrives, page, Converts
<1> QED BY <1>2, <1>3, <1>4, <1>5 DEF Arrival

-----------------------------------------------------------------------------
(* What is held is current. *)

(* A step that changes one request and no Ingress leaves what the others hold. *)
LEMMA OneRequestCurrent ==
    ASSUME NEW q \in Slot, \A s \in Slot : s # q => req'[s] = req[s], mark' = mark,
           HeldIsCurrent, RequestCurrent(req[q])'
    PROVE  HeldIsCurrent'
<1>1. ASSUME NEW s \in Slot, s # q PROVE RequestCurrent(req[s])'
    <2>1. req'[s] = req[s] /\ RequestCurrent(req[s])
        BY <1>1 DEF HeldIsCurrent
    <2> QED BY <2>1 DEF RequestCurrent
<1> QED BY <1>1 DEF HeldIsCurrent

(* A write to an Ingress takes nothing but that Ingress from what is held. *)
LEMMA WrittenCurrent ==
    ASSUME NEW i, NEW r \in [Slot -> Requests], req' = Written(i, r),
           \A j \in Ingress : j # i => mark'[j] = mark[j], \A s \in Slot : RequestCurrent(r[s])
    PROVE  HeldIsCurrent'
<1>1. ASSUME NEW s \in Slot PROVE RequestCurrent(req[s])'
    <2>1. r[s] \in Requests /\ req'[s] = [r[s] EXCEPT !.held = @ \ {i}]
        BY DEF Written
    <2>2. /\ req'[s].kind = r[s].kind /\ req'[s].phase = r[s].phase /\ req'[s].seen = r[s].seen
          /\ req'[s].held = r[s].held \ {i} /\ r[s].held \subseteq Ingress
        BY <2>1 DEF Requests
    <2> QED BY <2>2 DEF RequestCurrent
<1> QED BY <1>1 DEF HeldIsCurrent

(* A request that is new, answered or gone holds nothing. *)
LEMMA NothingHeld ==
    ASSUME NEW r, r.held = {}, r.phase \notin {"reading", "applying"}
    PROVE  RequestCurrent(r)
BY DEF RequestCurrent

(* What is held stays current while the page's user is at work. *)
LEMMA HeldOfUserStep ==
    ASSUME TypeOK, HeldIsCurrent, UserStep \/ \E q \in Slot : Refresh(q) PROVE HeldIsCurrent'
<1>0. req \in [Slot -> Requests]
    BY DEF TypeOK
<1>1. mark' = mark
    BY DEF UserStep, Refresh, page, TickRow, UntickRow, Tick, Untick, SelectAll, SelectNone, CloseModal,
           PreviewSelected, ConvertSelected, ConvertFromPreview, ShowPreview, PreviewResource,
           SkipIngress, DeleteIngress
<1>2. ASSUME NEW q \in Slot, NEW kind, NEW keys, NEW b,
             \/ Send(q, Request(kind, keys))
             \/ Send(q, [Request(kind, keys) EXCEPT !.dialog = b])
      PROVE  HeldIsCurrent'
    <2>1. req'[q] = Request(kind, keys) \/ req'[q] = [Request(kind, keys) EXCEPT !.dialog = b]
        BY <1>0, <1>2 DEF Send
    <2>2. req'[q].held = {} /\ req'[q].phase = "sent"
        BY <2>1 DEF Request, NoRequest
    <2>3. RequestCurrent(req[q])'
        BY <2>2 DEF RequestCurrent
    <2>4. \A s \in Slot : s # q => req'[s] = req[s]
        BY <1>0, <1>2 DEF Send
    <2> QED BY <1>1, <2>3, <2>4, OneRequestCurrent
<1>3. ASSUME req' = req PROVE HeldIsCurrent'
    BY <1>1, <1>3 DEF HeldIsCurrent, RequestCurrent
<1>4. ASSUME NEW q \in Slot,
             Refresh(q) \/ PreviewSelected(q) \/ ConvertSelected(q) \/ ConvertFromPreview(q)
      PROVE  HeldIsCurrent'
    BY <1>2, <1>4 DEF Refresh, PreviewSelected, ConvertSelected, ConvertFromPreview
<1>5. ASSUME NEW q \in Slot, NEW i \in Ingress,
             ShowPreview(q, i) \/ PreviewResource(q, i) \/ SkipIngress(q, i) \/ DeleteIngress(q, i)
      PROVE  HeldIsCurrent'
    BY <1>2, <1>5 DEF ShowPreview, PreviewResource, SkipIngress, DeleteIngress
<1>6. ASSUME NEW i \in Ingress, TickRow(i) \/ UntickRow(i) PROVE HeldIsCurrent'
    BY <1>3, <1>6 DEF TickRow, UntickRow, Tick, Untick
<1>7. CASE SelectAll \/ SelectNone \/ CloseModal
    BY <1>3, <1>7 DEF SelectAll, SelectNone, Tick, Untick, CloseModal
<1> QED BY <1>4, <1>5, <1>6, <1>7 DEF UserStep

(* What is held stays current while handlers and others write. *)
LEMMA HeldOfServerStep ==
    ASSUME TypeOK, OneNamed, HeldIsCurrent,
           (\E q \in Slot : ServerStep(q)) \/ (\E i \in Ingress : OthersWrite(i))
    PROVE  HeldIsCurrent'
<1>0. req \in [Slot -> Requests] /\ \A s \in Slot : RequestCurrent(req[s])
    BY DEF TypeOK, HeldIsCurrent
<1>1. ASSUME NEW q \in Slot, ServeList(q) \/ ServePreview(q) \/ BeginConvert(q) \/ AllRead(q)
      PROVE  HeldIsCurrent'
    <2>1. req[q] \in Requests /\ RequestCurrent(req[q])
        BY <1>0
    <2>2. /\ req'[q].held = req[q].held /\ req'[q].seen = req[q].seen /\ req'[q].kind = req[q].kind
          /\ req'[q].phase # "sent"
          /\ req'[q].phase \in {"reading", "applying"} =>
                req[q].kind \in Converts /\ \A i \in req[q].held : ~mark[i].skip
        <3>1. CASE ServeList(q) \/ ServePreview(q)
            <4>1. req'[q].phase = "answered"
                BY <1>0, <2>1, <3>1 DEF ServeList, ServePreview, Preview, BatchPreview, ResourcePreview, Requests
            <4> QED BY <1>0, <2>1, <3>1, <4>1 DEF ServeList, ServePreview, Preview, BatchPreview, ResourcePreview, Requests
        <3>2. CASE BeginConvert(q)
            <4>1. PICK L : req' = [req EXCEPT ![q] = [req[q] EXCEPT !.phase = "reading", !.left = L]]
                BY <3>2 DEF BeginConvert
            <4>2. req[q].kind \in Converts
                BY <3>2 DEF BeginConvert, Is
            <4>3. req'[q] = [req[q] EXCEPT !.phase = "reading", !.left = L]
                BY <1>0, <4>1
            <4>4. req[q].held = {}
                BY <1>0, <3>2 DEF BeginConvert, Is, RequestCurrent
            <4> QED BY <2>1, <4>2, <4>3, <4>4 DEF Requests
        <3>3. CASE AllRead(q)
            <4>1. PICK L : req' = [req EXCEPT ![q] = [req[q] EXCEPT !.phase = "applying", !.left = L]]
                BY <3>3 DEF AllRead
            <4>2. req[q].phase = "reading"
                BY <3>3 DEF AllRead
            <4>3. req'[q] = [req[q] EXCEPT !.phase = "applying", !.left = L]
                BY <1>0, <4>1
            <4> QED BY <2>1, <4>2, <4>3 DEF Requests, RequestCurrent
        <3> QED BY <1>1, <3>1, <3>2, <3>3
    <2>3. mark' = mark /\ \A s \in Slot : s # q => req'[s] = req[s]
        BY <1>0, <1>1 DEF ServeList, ServePreview, Preview, BatchPreview, ResourcePreview, BeginConvert, AllRead
    <2>4. RequestCurrent(req[q])'
        BY <2>1, <2>2, <2>3 DEF RequestCurrent
    <2> QED BY <2>3, <2>4, OneRequestCurrent
<1>2. ASSUME NEW q \in Slot, ConvertDone(q) PROVE HeldIsCurrent'
    <2>1. req'[q] = Answered(q) /\ mark' = mark /\ \A s \in Slot : s # q => req'[s] = req[s]
        BY <1>0, <1>2 DEF ConvertDone
    <2>2. RequestCurrent(req[q])'
        <3>1. req'[q].held = {} /\ req'[q].phase = "answered"
            BY <2>1 DEF Answered, NoRequest
        <3> QED BY <3>1 DEF RequestCurrent
    <2> QED BY <2>1, <2>2, OneRequestCurrent
<1>3. ASSUME NEW q \in Slot, NEW i \in Ingress, ReadIngress(q, i) PROVE HeldIsCurrent'
    <2>1. req[q] \in Requests /\ RequestCurrent(req[q])
        BY <1>0
    <2>2. mark' = mark /\ \A s \in Slot : s # q => req'[s] = req[s]
        BY <1>0, <1>3 DEF ReadIngress
    <2>3. CASE mark[i] # None /\ ~mark[i].skip
        <3>1. req'[q] = [req[q] EXCEPT !.left = @ \ {i}, !.seen[i] = mark[i], !.held = @ \cup {i}]
            BY <1>0, <1>3, <2>3 DEF ReadIngress
        <3>2. /\ req'[q].held = req[q].held \cup {i} /\ req'[q].seen[i] = mark[i]
              /\ \A j \in Ingress : j # i => req'[q].seen[j] = req[q].seen[j]
              /\ req'[q].kind = req[q].kind /\ req'[q].phase = req[q].phase /\ req[q].held \subseteq Ingress
            BY <2>1, <3>1 DEF Requests
        <3>3. req[q].phase = "reading"
            BY <1>3 DEF ReadIngress
        <3> QED BY <2>1, <2>2, <2>3, <3>2, <3>3, OneRequestCurrent DEF RequestCurrent
    <2>4. CASE ~(mark[i] # None /\ ~mark[i].skip)
        <3>1. req'[q] = [req[q] EXCEPT !.left = @ \ {i}]
            BY <1>0, <1>3, <2>4 DEF ReadIngress
        <3>2. /\ req'[q].held = req[q].held /\ req'[q].seen = req[q].seen
              /\ req'[q].kind = req[q].kind /\ req'[q].phase = req[q].phase
            BY <2>1, <3>1 DEF Requests
        <3> QED BY <2>1, <2>2, <3>2, OneRequestCurrent DEF RequestCurrent
    <2> QED BY <2>3, <2>4
<1>4. ASSUME NEW q \in Slot, NEW i \in Ingress, Annotate(q, i) PROVE HeldIsCurrent'
    <2> DEFINE r == [req EXCEPT ![q].left = @ \ {i}, ![q].seen[i] = None]
    <2>1. req' = Written(i, r) /\ \A j \in Ingress : j # i => mark'[j] = mark[j]
        BY <1>4 DEF Annotate, TypeOK
    <2>2. r \in [Slot -> Requests]
        <3>1. req[q] \in Requests /\ None \in Marked
            BY <1>0 DEF Marked
        <3> QED BY <1>0, <3>1 DEF Requests
    <2>3. ASSUME NEW s \in Slot
          PROVE  /\ r[s].held = req[s].held /\ r[s].kind = req[s].kind /\ r[s].phase = req[s].phase
                 /\ \A j \in Ingress \ {i} : r[s].seen[j] = req[s].seen[j]
        <3>1. req[s] \in Requests
            BY <1>0
        <3> QED BY <1>0, <3>1 DEF Requests
    <2> HIDE DEF r
    <2>4. ASSUME NEW s \in Slot PROVE RequestCurrent(req[s])'
        <3>1. req'[s] = [r[s] EXCEPT !.held = @ \ {i}] /\ r[s] \in Requests
            BY <2>1, <2>2 DEF Written
        <3>2. /\ req'[s].held = r[s].held \ {i} /\ req'[s].seen = r[s].seen
              /\ req'[s].kind = r[s].kind /\ req'[s].phase = r[s].phase /\ r[s].held \subseteq Ingress
            BY <3>1 DEF Requests
        <3> QED BY <1>0, <2>1, <2>3, <3>2 DEF RequestCurrent
    <2> QED BY <2>4 DEF HeldIsCurrent
<1>5. ASSUME NEW q \in Slot, NEW i \in Ingress, AnnotateFails(q, i) PROVE HeldIsCurrent'
    <2>1. req[q] \in Requests /\ RequestCurrent(req[q]) /\ None \in Marked
        BY <1>0 DEF Marked
    <2>2. req'[q] = [req[q] EXCEPT !.left = @ \ {i}, !.seen[i] = None, !.held = @ \ {i}]
        BY <1>0, <1>5 DEF AnnotateFails
    <2>3. /\ req'[q].held = req[q].held \ {i} /\ req[q].held \subseteq Ingress
          /\ \A j \in Ingress : j # i => req'[q].seen[j] = req[q].seen[j]
          /\ req'[q].kind = req[q].kind /\ req'[q].phase = req[q].phase
        BY <2>1, <2>2 DEF Requests
    <2>4. mark' = mark /\ \A s \in Slot : s # q => req'[s] = req[s]
        BY <1>0, <1>5 DEF AnnotateFails
    <2> QED BY <2>1, <2>3, <2>4, OneRequestCurrent DEF RequestCurrent
<1>6. ASSUME NEW q \in Slot, GetIngress(q) PROVE HeldIsCurrent'
    <2>1. PICK i \in Ingress : req[q].keys = {i}
        BY <1>6 DEF GetIngress, OneNamed
    <2>2. Key(q) = i
        BY <2>1 DEF Key
    <2>3. mark' = mark /\ \A s \in Slot : s # q => req'[s] = req[s]
        BY <1>0, <1>6 DEF GetIngress
    <2>4. req[q] \in Requests /\ RequestCurrent(req[q]) /\ mark[i] # None
        BY <1>0, <1>6, <2>2 DEF GetIngress
    <2>5. CASE req[q].kind = "skip"
        <3>1. req'[q] = [req[q] EXCEPT !.phase = "found", !.held = {i}, !.seen[i] = mark[i]]
            BY <1>0, <1>6, <2>2, <2>5 DEF GetIngress
        <3>2. req'[q].held = {i} /\ req'[q].seen[i] = mark[i] /\ req'[q].phase = "found"
            BY <2>4, <3>1 DEF Requests
        <3> QED BY <2>3, <2>4, <3>2, OneRequestCurrent DEF RequestCurrent
    <2>6. CASE req[q].kind # "skip"
        <3>1. req'[q] = [req[q] EXCEPT !.phase = "found"]
            BY <1>0, <1>6, <2>2, <2>6 DEF GetIngress
        <3>2. req'[q].held = req[q].held /\ req'[q].seen = req[q].seen /\ req'[q].phase = "found"
            BY <2>4, <3>1 DEF Requests
        <3> QED BY <2>3, <2>4, <3>2, OneRequestCurrent DEF RequestCurrent
    <2> QED BY <2>5, <2>6
<1>7. ASSUME NEW q \in Slot, UpdateSkip(q) \/ DeleteFound(q) PROVE HeldIsCurrent'
    <2>1. /\ req' = Written(Key(q), [req EXCEPT ![q] = Answered(q)])
          /\ \A j \in Ingress : j # Key(q) => mark'[j] = mark[j]
        BY <1>7 DEF UpdateSkip, DeleteFound, TypeOK
    <2>2. Answered(q) \in Requests /\ RequestCurrent(Answered(q))
        BY AnsweredType, NothingHeld DEF Answered, NoRequest
    <2>3. /\ [req EXCEPT ![q] = Answered(q)] \in [Slot -> Requests]
          /\ \A s \in Slot : RequestCurrent([req EXCEPT ![q] = Answered(q)][s])
        BY <1>0, <2>2
    <2> QED BY <2>1, <2>3, WrittenCurrent
<1>8. ASSUME NEW i \in Ingress, OthersWrite(i) PROVE HeldIsCurrent'
    <2>1. req' = Written(i, req) /\ \A j \in Ingress : j # i => mark'[j] = mark[j]
        BY <1>8 DEF OthersWrite, TypeOK
    <2> QED BY <1>0, <2>1, WrittenCurrent
<1> QED BY <1>1, <1>2, <1>3, <1>4, <1>5, <1>6, <1>7, <1>8 DEF ServerStep

(* What is held stays current when an answer or an error arrives. *)
LEMMA HeldOfArrival ==
    ASSUME TypeOK, HeldIsCurrent, NEW q \in Slot, Arrival(q) \/ Refused(q) PROVE HeldIsCurrent'
<1>0. req \in [Slot -> Requests]
    BY DEF TypeOK
<1>1. mark' = mark
    BY DEF Arrival, ListArrives, PreviewArrives, ConvertArrives, ChangeArrives, Refused, page
<1>2. \/ req' = [req EXCEPT ![q] = NoRequest]
      \/ req' = [req EXCEPT ![q] = Request("list", {})]
      \/ req' = [req EXCEPT ![q] = [Request("list", {}) EXCEPT !.dialog = req[q].dialog]]
    BY DEF Arrival, ListArrives, PreviewArrives, ConvertArrives, ChangeArrives, Refused, Release
<1>3. req'[q] \in {NoRequest, Request("list", {}), [Request("list", {}) EXCEPT !.dialog = req[q].dialog]}
    BY <1>0, <1>2
<1>4. req'[q].held = {} /\ req'[q].phase \in {"free", "sent"}
    <2>1. CASE req'[q] = NoRequest
        BY <2>1 DEF NoRequest
    <2>2. CASE req'[q] = Request("list", {})
        BY <2>2 DEF NoRequest, Request
    <2>3. CASE req'[q] = [Request("list", {}) EXCEPT !.dialog = req[q].dialog]
        BY <2>3 DEF NoRequest, Request
    <2> QED BY <1>3, <2>1, <2>2, <2>3
<1>5. \A s \in Slot : s # q => req'[s] = req[s]
    BY <1>0, <1>2
<1>6. RequestCurrent(req[q])'
    BY <1>4 DEF RequestCurrent
<1> QED BY <1>1, <1>5, <1>6, OneRequestCurrent

-----------------------------------------------------------------------------
(* An exclusion or a deletion names one Ingress, and a title is what it says. *)

(* One step of one request keeps what the others name. *)
LEMMA OneRequestNamed ==
    ASSUME NEW q \in Slot, \A s \in Slot : s # q => req'[s] = req[s], OneNamed,
           Is(q, {"skip", "delete"}, "sent")' => \E i \in Ingress : req'[q].keys = {i}
    PROVE  OneNamed'
<1>1. ASSUME NEW s \in Slot, s # q, Is(s, {"skip", "delete"}, "sent")'
      PROVE  \E i \in Ingress : req'[s].keys = {i}
    BY <1>1 DEF OneNamed, Is
<1> QED BY <1>1 DEF OneNamed

(* A conversion that begins reads, and one that has read applies. *)
LEMMA PhaseOfConversion ==
    ASSUME req \in [Slot -> Requests], NEW q \in Slot, BeginConvert(q) \/ AllRead(q)
    PROVE  /\ req'[q].phase \in {"reading", "applying"}
           /\ \A s \in Slot : s # q => req'[s] = req[s]
<1>1. req[q] \in Requests
    OBVIOUS
<1>2. CASE BeginConvert(q)
    <2> DEFINE L == IF req[q].keys = {} THEN {i \in Ingress : mark[i] # None} ELSE req[q].keys
    <2>1. req' = [req EXCEPT ![q] = [req[q] EXCEPT !.phase = "reading", !.left = L]]
        BY <1>2 DEF BeginConvert
    <2> HIDE DEF L
    <2>2. req'[q] = [req[q] EXCEPT !.phase = "reading", !.left = L]
        BY <2>1
    <2>3. req'[q].phase = "reading"
        BY <1>1, <2>2 DEF Requests
    <2> QED BY <2>1, <2>3
<1>3. CASE AllRead(q)
    <2> DEFINE L == {i \in Ingress : req[q].seen[i] # None}
    <2>1. req' = [req EXCEPT ![q] = [req[q] EXCEPT !.phase = "applying", !.left = L]]
        BY <1>3 DEF AllRead
    <2> HIDE DEF L
    <2>2. req'[q] = [req[q] EXCEPT !.phase = "applying", !.left = L]
        BY <2>1
    <2>3. req'[q].phase = "applying"
        BY <1>1, <2>2 DEF Requests
    <2> QED BY <2>1, <2>3
<1> QED BY <1>2, <1>3

(* Every exclusion and every deletion names one Ingress, whatever is done. *)
LEMMA NamedOfStep ==
    ASSUME TypeOK, OneNamed, Next PROVE OneNamed'
<1>0. req \in [Slot -> Requests]
    BY DEF TypeOK
<1>a. \A kind, keys, b :
          /\ Request(kind, keys).kind = kind /\ Request(kind, keys).keys = keys
          /\ [Request(kind, keys) EXCEPT !.dialog = b].kind = kind
          /\ [Request(kind, keys) EXCEPT !.dialog = b].keys = keys
    BY DEF Request, NoRequest
<1>1. ASSUME NEW q \in Slot, NEW r, req' = [req EXCEPT ![q] = r],
             r.kind \in {"skip", "delete"} => \E i \in Ingress : r.keys = {i}
      PROVE  OneNamed'
    <2>1. req'[q] = r /\ \A s \in Slot : s # q => req'[s] = req[s]
        BY <1>0, <1>1
    <2> QED BY <1>1, <2>1, OneRequestNamed DEF Is
<1>2. ASSUME req' = req PROVE OneNamed'
    BY <1>2 DEF OneNamed, Is
<1>3. ASSUME NEW i, NEW r \in [Slot -> Requests], req' = Written(i, r),
             \A s \in Slot : r[s] = req[s] \/ r[s].phase # "sent"
      PROVE  OneNamed'
    <2>1. ASSUME NEW s \in Slot, Is(s, {"skip", "delete"}, "sent")'
          PROVE  \E j \in Ingress : req'[s].keys = {j}
        <3>1. r[s] \in Requests /\ req'[s] = [r[s] EXCEPT !.held = @ \ {i}]
            BY <1>3 DEF Written
        <3>2. req'[s].kind = r[s].kind /\ req'[s].phase = r[s].phase /\ req'[s].keys = r[s].keys
            BY <3>1 DEF Requests
        <3>3. r[s] = req[s]
            BY <1>3, <2>1, <3>2 DEF Is
        <3> QED BY <2>1, <3>2, <3>3 DEF OneNamed, Is
    <2> QED BY <2>1 DEF OneNamed
<1>4. ASSUME NEW q \in Slot, \A s \in Slot : s # q => req'[s] = req[s], req'[q].phase # "sent"
      PROVE  OneNamed'
    BY <1>4, OneRequestNamed DEF Is
<1>5. ASSUME NEW q \in Slot,
             Refresh(q) \/ PreviewSelected(q) \/ ConvertSelected(q) \/ ConvertFromPreview(q)
      PROVE  OneNamed'
    <2>1. CASE Refresh(q)
        BY <1>a, <1>1, <2>1 DEF Refresh, Send
    <2>2. CASE PreviewSelected(q)
        BY <1>a, <1>1, <2>2 DEF PreviewSelected, Send
    <2>3. CASE ConvertSelected(q)
        BY <1>a, <1>1, <2>3 DEF ConvertSelected, Send
    <2>4. CASE ConvertFromPreview(q)
        <3> DEFINE kind == IF current.mode = "batch" THEN "convertBatch" ELSE "convert"
        <3>1. req' = [req EXCEPT ![q] = [Request(kind, current.keys) EXCEPT !.dialog = TRUE]]
            BY <2>4 DEF ConvertFromPreview, Send
        <3>2. kind \notin {"skip", "delete"}
            OBVIOUS
        <3> HIDE DEF kind
        <3>3. [Request(kind, current.keys) EXCEPT !.dialog = TRUE].kind = kind
            BY <1>a
        <3> QED BY <1>1, <3>1, <3>2, <3>3
    <2> QED BY <1>5, <2>1, <2>2, <2>3, <2>4
<1>6. ASSUME NEW q \in Slot, NEW i \in Ingress,
             ShowPreview(q, i) \/ PreviewResource(q, i) \/ SkipIngress(q, i) \/ DeleteIngress(q, i)
      PROVE  OneNamed'
    <2>1. CASE ShowPreview(q, i)
        <3>1. req' = [req EXCEPT ![q] = Request("single", {i})]
            BY <2>1 DEF ShowPreview, Send
        <3>2. Request("single", {i}).kind = "single" /\ Request("single", {i}).keys = {i}
            BY <1>a
        <3> QED BY <1>1, <3>1, <3>2
    <2>2. CASE PreviewResource(q, i)
        <3>1. req' = [req EXCEPT ![q] = Request("resource", {i})]
            BY <2>2 DEF PreviewResource, Send
        <3>2. Request("resource", {i}).kind = "resource" /\ Request("resource", {i}).keys = {i}
            BY <1>a
        <3> QED BY <1>1, <3>1, <3>2
    <2>3. CASE SkipIngress(q, i)
        <3>1. req' = [req EXCEPT ![q] = Request("skip", {i})]
            BY <2>3 DEF SkipIngress, Send
        <3>2. Request("skip", {i}).kind = "skip" /\ Request("skip", {i}).keys = {i}
            BY <1>a
        <3> QED BY <1>1, <3>1, <3>2
    <2>4. CASE DeleteIngress(q, i)
        <3>1. req' = [req EXCEPT ![q] = Request("delete", {i})]
            BY <2>4 DEF DeleteIngress, Send
        <3>2. Request("delete", {i}).kind = "delete" /\ Request("delete", {i}).keys = {i}
            BY <1>a
        <3> QED BY <1>1, <3>1, <3>2
    <2> QED BY <1>6, <2>1, <2>2, <2>3, <2>4
<1>7. ASSUME NEW i \in Ingress, TickRow(i) \/ UntickRow(i) PROVE OneNamed'
    BY <1>2, <1>7 DEF TickRow, UntickRow, Tick, Untick
<1>8. CASE SelectAll \/ SelectNone \/ CloseModal
    BY <1>2, <1>8 DEF SelectAll, SelectNone, Tick, Untick, CloseModal
<1>9. ASSUME NEW q \in Slot, ServeList(q) \/ ServePreview(q) PROVE OneNamed'
    <2>1. req'[q].phase = "answered" /\ \A s \in Slot : s # q => req'[s] = req[s]
        <3>1. req[q] \in Requests
            BY <1>0
        <3> QED BY <1>0, <1>9, <3>1 DEF ServeList, ServePreview, Preview, BatchPreview, ResourcePreview, Requests
    <2> QED BY <1>4, <2>1
<1>10. ASSUME NEW q \in Slot, BeginConvert(q) \/ AllRead(q) PROVE OneNamed'
    <2>1. req'[q].phase # "sent" /\ \A s \in Slot : s # q => req'[s] = req[s]
        BY <1>0, <1>10, PhaseOfConversion
    <2> QED BY <1>4, <2>1
<1>11. ASSUME NEW q \in Slot, ConvertDone(q) PROVE OneNamed'
    <2>1. req'[q] = Answered(q) /\ \A s \in Slot : s # q => req'[s] = req[s]
        BY <1>0, <1>11 DEF ConvertDone
    <2>2. req'[q].phase = "answered"
        BY <2>1 DEF Answered, NoRequest
    <2> QED BY <1>4, <2>1, <2>2
<1>12. ASSUME NEW q \in Slot, NEW i \in Ingress, ReadIngress(q, i) \/ AnnotateFails(q, i) PROVE OneNamed'
    <2>1. req[q] \in Requests /\ \A s \in Slot : s # q => req'[s] = req[s]
        BY <1>0, <1>12 DEF ReadIngress, AnnotateFails
    <2>2. req'[q].phase = req[q].phase
        BY <1>0, <1>12, <2>1 DEF ReadIngress, AnnotateFails, Requests
    <2>3. req[q].phase # "sent"
        BY <1>12 DEF ReadIngress, AnnotateFails
    <2> QED BY <1>4, <2>1, <2>2, <2>3
<1>13. ASSUME NEW q \in Slot, NEW i \in Ingress, Annotate(q, i) PROVE OneNamed'
    <2> DEFINE r == [req EXCEPT ![q].left = @ \ {i}, ![q].seen[i] = None]
    <2>1. req' = Written(i, r) /\ req[q].phase = "applying"
        BY <1>13 DEF Annotate
    <2>2. req[q] \in Requests /\ None \in Marked
        BY <1>0 DEF Marked
    <2>3. r \in [Slot -> Requests]
        BY <1>0, <2>2 DEF Requests
    <2>4. \A s \in Slot : r[s] = req[s] \/ r[s].phase # "sent"
        BY <1>0, <2>1, <2>2 DEF Requests
    <2> HIDE DEF r
    <2> QED BY <1>3, <2>1, <2>3, <2>4
<1>14. ASSUME NEW q \in Slot, GetIngress(q) PROVE OneNamed'
    <2>1. req[q] \in Requests /\ \A s \in Slot : s # q => req'[s] = req[s]
        BY <1>0, <1>14 DEF GetIngress
    <2>2. req'[q].phase = "found"
        BY <1>0, <1>14, <2>1 DEF GetIngress, Requests
    <2> QED BY <1>4, <2>1, <2>2
<1>15. ASSUME NEW q \in Slot, UpdateSkip(q) \/ DeleteFound(q) PROVE OneNamed'
    <2>1. req' = Written(Key(q), [req EXCEPT ![q] = Answered(q)])
        BY <1>15 DEF UpdateSkip, DeleteFound
    <2>2. Answered(q) \in Requests /\ Answered(q).phase = "answered"
        BY AnsweredType DEF Answered, NoRequest
    <2>3. [req EXCEPT ![q] = Answered(q)] \in [Slot -> Requests]
        BY <1>0, <2>2
    <2>4. \A s \in Slot : \/ [req EXCEPT ![q] = Answered(q)][s] = req[s]
                         \/ [req EXCEPT ![q] = Answered(q)][s].phase # "sent"
        BY <1>0, <2>2
    <2> QED BY <1>3, <2>1, <2>3, <2>4
<1>16. ASSUME NEW i \in Ingress, OthersWrite(i) PROVE OneNamed'
    BY <1>0, <1>3, <1>16 DEF OthersWrite
<1>17. ASSUME NEW q \in Slot, ConvertArrives(q) \/ ChangeArrives(q) PROVE OneNamed'
    <2>1. CASE ConvertArrives(q)
        <3>1. req' = [req EXCEPT ![q] = [Request("list", {}) EXCEPT !.dialog = req[q].dialog]]
            BY <2>1 DEF ConvertArrives
        <3>2. [Request("list", {}) EXCEPT !.dialog = req[q].dialog].kind = "list"
            BY <1>a
        <3> QED BY <1>1, <3>1, <3>2
    <2>2. CASE ChangeArrives(q)
        <3>1. req' = [req EXCEPT ![q] = Request("list", {})]
            BY <2>2 DEF ChangeArrives
        <3>2. Request("list", {}).kind = "list"
            BY <1>a
        <3> QED BY <1>1, <3>1, <3>2
    <2> QED BY <1>17, <2>1, <2>2
<1>18. ASSUME NEW q \in Slot, ListArrives(q) \/ PreviewArrives(q) \/ Refused(q) PROVE OneNamed'
    <2>1. req'[q] = NoRequest /\ \A s \in Slot : s # q => req'[s] = req[s]
        BY <1>0, <1>18 DEF ListArrives, PreviewArrives, Refused, Release
    <2>2. req'[q].phase = "free"
        BY <2>1 DEF NoRequest
    <2> QED BY <1>4, <2>1, <2>2
<1>19. CASE UserStep
    BY <1>5, <1>6, <1>7, <1>8, <1>19 DEF UserStep
<1>20. ASSUME NEW q \in Slot, ServerStep(q) PROVE OneNamed'
    BY <1>9, <1>10, <1>11, <1>12, <1>13, <1>14, <1>15, <1>20 DEF ServerStep
<1>21. ASSUME NEW q \in Slot, Arrival(q) \/ Refused(q) PROVE OneNamed'
    BY <1>17, <1>18, <1>21 DEF Arrival
<1> QED BY <1>5, <1>16, <1>19, <1>20, <1>21 DEF Next

(* The title, the button and what would be converted are set together. *)
LEMMA TitleOfStep ==
    ASSUME TypeOK, (modal = None) = (current = None), TitleConverts, Next
    PROVE  (modal' = None) = (current' = None) /\ TitleConverts'
<1>1. ASSUME UNCHANGED <<modal, current>> PROVE (modal' = None) = (current' = None) /\ TitleConverts'
    BY <1>1 DEF TitleConverts
<1>2. ASSUME modal' = None, current' = None PROVE (modal' = None) = (current' = None) /\ TitleConverts'
    BY <1>2 DEF TitleConverts
<1>3. ASSUME NEW q \in Slot, PreviewArrives(q)
      PROVE  (modal' = None) = (current' = None) /\ TitleConverts'
    <2> DEFINE target == [mode |-> req[q].kind, keys |-> req[q].keys]
    <2>1. target \in Targeted /\ current' = target
        <3>1. req[q] \in Requests
            BY DEF TypeOK
        <3> QED BY <1>3, <3>1 DEF PreviewArrives, Is, Targeted, Requests
    <2>2. ASSUME NEW b \in BOOLEAN PROVE [title |-> target, convert |-> b] \in Dialogs
        BY <2>1 DEF Dialogs
    <2>3. modal' \in Dialogs
        <3>1. (target.mode # "resource" /\ (modal = None \/ modal.convert)) \in BOOLEAN
            OBVIOUS
        <3> QED BY <1>3, <2>2, <3>1 DEF PreviewArrives
    <2>5. modal'.title = target /\ (modal'.convert => target.mode # "resource")
        BY <1>3 DEF PreviewArrives
    <2> HIDE DEF target
    <2>4. modal' # None /\ current' # None
        BY <2>1, <2>3, DashboardAssumption
    <2> QED BY <2>1, <2>4, <2>5 DEF TitleConverts
<1>4. ASSUME NEW q \in Slot, ListArrives(q) \/ ConvertArrives(q) \/ ChangeArrives(q) \/ Refused(q)
      PROVE  UNCHANGED <<modal, current>> \/ (modal' = None /\ current' = None)
    BY <1>4 DEF ListArrives, ConvertArrives, ChangeArrives, Refused, page
<1>5. CASE UserStep
    <2>1. UNCHANGED <<modal, current>> \/ (modal' = None /\ current' = None)
        BY <1>5 DEF UserStep, page, TickRow, UntickRow, Tick, Untick, SelectAll, SelectNone, CloseModal,
                    PreviewSelected, ConvertSelected, ConvertFromPreview, ShowPreview, PreviewResource,
                    SkipIngress, DeleteIngress
    <2> QED BY <1>1, <1>2, <2>1
<1>6. ASSUME NEW q \in Slot, ServerStep(q) \/ Refresh(q) PROVE UNCHANGED <<modal, current>>
    BY <1>6 DEF Refresh, ServerStep, ServeList, ServePreview, Preview, BatchPreview, ResourcePreview, BeginConvert, AllRead, ConvertDone,
                ReadIngress, Annotate, AnnotateFails, GetIngress, UpdateSkip, DeleteFound, page
<1>7. ASSUME NEW i \in Ingress, OthersWrite(i) PROVE UNCHANGED <<modal, current>>
    BY <1>7 DEF OthersWrite, page
<1> QED BY <1>1, <1>2, <1>3, <1>4, <1>5, <1>6, <1>7 DEF Next, Arrival

-----------------------------------------------------------------------------
(* The theorems. *)

(* The inductive invariant: whatever is on its way between the page, the
   handlers and the cluster, in whatever order it arrives. *)
THEOREM DashboardInvariance == Spec => []DashboardInv
<1>1. Init => DashboardInv
    <2> SUFFICES ASSUME Init PROVE DashboardInv
        OBVIOUS
    <2>1. NoRequest \in Requests
        BY RequestType DEF Kinds
    <2>2. TypeOK
        BY <2>1 DEF Init, TypeOK, Shown
    <2>3. \A q \in Slot : req[q] = NoRequest
        BY DEF Init
    <2>4. PicksAreKept
        BY <2>3 DEF PicksAreKept, RequestPicked, NoRequest, Converts, Init
    <2>5. OneNamed /\ HeldIsCurrent
        BY <2>3 DEF OneNamed, Is, HeldIsCurrent, RequestCurrent, NoRequest
    <2> QED BY <2>2, <2>4, <2>5 DEF DashboardInv, TitleConverts, Init
<1>2. DashboardInv /\ [Next]_dvars => DashboardInv'
    <2> SUFFICES ASSUME DashboardInv, [Next]_dvars PROVE DashboardInv'
        OBVIOUS
    <2> USE DEF DashboardInv
    <2>1. CASE UNCHANGED dvars
        <3>1. /\ mark' = mark /\ shown' = shown /\ selected' = selected /\ current' = current
              /\ modal' = modal /\ picked' = picked /\ req' = req
            BY <2>1 DEF dvars, page
        <3>2. TypeOK' /\ TitleConverts' /\ (modal' = None) = (current' = None)
            BY <3>1 DEF TypeOK, TitleConverts
        <3>3. PicksAreKept' /\ OneNamed' /\ HeldIsCurrent'
            BY <3>1 DEF PicksAreKept, RequestPicked, OneNamed, Is, HeldIsCurrent, RequestCurrent
        <3> QED BY <3>2, <3>3
    <2>2. CASE Next
        <3>1. OneNamed' /\ TitleConverts' /\ (modal' = None) = (current' = None)
            BY <2>2, NamedOfStep, TitleOfStep
        <3>2. CASE UserStep \/ \E q \in Slot : Refresh(q)
            BY <3>1, <3>2, TypeOfUserStep, PicksOfUserStep, HeldOfUserStep
        <3>3. CASE (\E q \in Slot : ServerStep(q)) \/ (\E i \in Ingress : OthersWrite(i))
            BY <3>1, <3>3, TypeOfServerStep, PicksOfServerStep, HeldOfServerStep
        <3>4. ASSUME NEW q \in Slot, Arrival(q) \/ Refused(q) PROVE DashboardInv'
            BY <3>1, <3>4, TypeOfArrival, PicksOfArrival, HeldOfArrival
        <3> QED BY <2>2, <3>2, <3>3, <3>4 DEF Next
    <2> QED BY <2>1, <2>2
<1> QED BY <1>1, <1>2, PTL DEF Spec

(* Nothing is converted for this page but what its user ticked or previewed, for
   any number of requests at once. *)
THEOREM OnlyPickedConverted == Spec => []OnlyPicked
<1>1. DashboardInv => OnlyPicked
    BY DEF DashboardInv, PicksAreKept, RequestPicked, OnlyPicked, Targets
<1> QED BY <1>1, DashboardInvariance, PTL

(* What a handler writes changes one mark of an Ingress as it is. *)
THEOREM AtomicWrites == Spec => WritesAreAtomic
<1> DEFINE Atomic(i) ==
              \/ OthersWrite(i)
              \/ mark[i] # None /\ mark'[i] = None
              \/ /\ mark[i] # None
                 /\ \/ mark'[i] = [mark[i] EXCEPT !.skip = TRUE]
                    \/ ~mark[i].skip /\ \E s \in Outcome : mark'[i] = [mark[i] EXCEPT !.status = s]
<1>1. DashboardInv /\ [Next]_dvars => [\A i \in Ingress : mark'[i] # mark[i] => Atomic(i)]_dvars
    <2> SUFFICES ASSUME DashboardInv, Next, NEW i \in Ingress, mark'[i] # mark[i] PROVE Atomic(i)
        OBVIOUS
    <2>0. mark \in [Ingress -> Marked] /\ req \in [Slot -> Requests] /\ HeldIsCurrent
        BY DEF DashboardInv, TypeOK
    <2>1. ASSUME NEW q \in Slot, NEW j \in Ingress, Annotate(q, j) PROVE Atomic(i)
        <3>1. RequestCurrent(req[q]) /\ j \in req[q].held /\ req[q].phase = "applying"
            BY <2>0, <2>1 DEF HeldIsCurrent, Annotate
        <3>2. req[q].seen[j] = mark[j] /\ mark[j] # None /\ ~mark[j].skip
            BY <3>1 DEF RequestCurrent
        <3>3. PICK s \in Outcome : mark' = [mark EXCEPT ![j] = [mark[j] EXCEPT !.status = s]]
            BY <2>1, <3>2 DEF Annotate
        <3>4. i = j
            BY <2>0, <3>3
        <3>5. mark'[i] = [mark[i] EXCEPT !.status = s]
            BY <2>0, <3>3, <3>4
        <3> QED BY <3>2, <3>4, <3>5
    <2>2. ASSUME NEW q \in Slot, UpdateSkip(q) PROVE Atomic(i)
        <3>1. RequestCurrent(req[q]) /\ Key(q) \in req[q].held
            BY <2>0, <2>2 DEF HeldIsCurrent, UpdateSkip
        <3>2. req[q].seen[Key(q)] = mark[Key(q)] /\ mark[Key(q)] # None
            BY <3>1 DEF RequestCurrent
        <3>3. mark' = [mark EXCEPT ![Key(q)] = [mark[Key(q)] EXCEPT !.skip = TRUE]]
            BY <2>2, <3>2 DEF UpdateSkip
        <3>4. i = Key(q)
            BY <2>0, <3>3
        <3>5. mark'[i] = [mark[i] EXCEPT !.skip = TRUE]
            BY <2>0, <3>3, <3>4
        <3> QED BY <3>2, <3>4, <3>5
    <2>3. ASSUME NEW q \in Slot, DeleteFound(q) PROVE Atomic(i)
        <3>1. mark[Key(q)] # None /\ mark' = [mark EXCEPT ![Key(q)] = None]
            BY <2>3 DEF DeleteFound
        <3>2. i = Key(q)
            BY <2>0, <3>1
        <3> QED BY <2>0, <3>1, <3>2
    <2>4. ASSUME NEW j \in Ingress, OthersWrite(j) PROVE Atomic(i)
        <3>1. PICK new : mark' = [mark EXCEPT ![j] = new]
            BY <2>4 DEF OthersWrite
        <3>2. i = j
            BY <2>0, <3>1
        <3> QED BY <2>4, <3>2
    <2>5. ASSUME NEW q \in Slot,
                 \/ Refresh(q) \/ Arrival(q) \/ Refused(q)
                 \/ ServeList(q) \/ ServePreview(q) \/ BeginConvert(q) \/ AllRead(q) \/ ConvertDone(q)
                 \/ GetIngress(q)
          PROVE  mark' = mark
        BY <2>5 DEF Refresh, Arrival, ListArrives, PreviewArrives, ConvertArrives, ChangeArrives, Refused,
                    ServeList, ServePreview, BeginConvert, AllRead, ConvertDone, GetIngress, page
    <2>6. ASSUME NEW q \in Slot, NEW j \in Ingress, ReadIngress(q, j) \/ AnnotateFails(q, j)
          PROVE  mark' = mark
        BY <2>6 DEF ReadIngress, AnnotateFails
    <2>7. CASE UserStep
        BY <2>7 DEF UserStep, page, TickRow, UntickRow, Tick, Untick, SelectAll, SelectNone, CloseModal,
                    PreviewSelected, ConvertSelected, ConvertFromPreview, ShowPreview, PreviewResource,
                    SkipIngress, DeleteIngress
    <2> HIDE DEF Atomic
    <2> QED BY <2>1, <2>2, <2>3, <2>4, <2>5, <2>6, <2>7 DEF Next, ServerStep
<1>2. DashboardInv /\ [Next]_dvars =>
          [\A i \in Ingress : mark'[i] # mark[i] =>
              \/ OthersWrite(i)
              \/ mark[i] # None /\ mark'[i] = None
              \/ /\ mark[i] # None
                 /\ \/ mark'[i] = [mark[i] EXCEPT !.skip = TRUE]
                    \/ ~mark[i].skip /\ \E s \in Outcome : mark'[i] = [mark[i] EXCEPT !.status = s]]_dvars
    BY <1>1
<1> QED BY <1>2, DashboardInvariance, PTL DEF Spec, WritesAreAtomic

(* A click on the preview's convert button sends what the preview on the screen is
   titled: a batch as a batch, an Ingress alone, never a resource, and never no
   names, which the server would take for all (convertFromPreview). *)
THEOREM ButtonConvertsTitle ==
    Spec => [][\A q \in Slot : ConvertFromPreview(q) =>
                  /\ modal.title.mode # "resource"
                  /\ req'[q].keys = modal.title.keys
                  /\ req'[q].keys # {} /\ req'[q].keys \subseteq picked
                  /\ (req'[q].kind = "convertBatch") = (modal.title.mode = "batch")]_dvars
<1>1. ASSUME DashboardInv, NEW q \in Slot, ConvertFromPreview(q)
      PROVE  /\ modal.title.mode # "resource"
             /\ req'[q].keys = modal.title.keys
             /\ req'[q].keys # {} /\ req'[q].keys \subseteq picked
             /\ (req'[q].kind = "convertBatch") = (modal.title.mode = "batch")
    <2>1. modal # None /\ modal.convert /\ current # None
        BY <1>1 DEF ConvertFromPreview
    <2>2. modal.title = current /\ current.mode # "resource"
        BY <1>1, <2>1 DEF DashboardInv, TitleConverts
    <2>3. current.keys # {} /\ current.keys \subseteq picked
        BY <1>1, <2>1, <2>2 DEF DashboardInv, PicksAreKept
    <2> DEFINE kind == IF current.mode = "batch" THEN "convertBatch" ELSE "convert"
               r == [Request(kind, current.keys) EXCEPT !.dialog = TRUE]
    <2>4. req \in [Slot -> Requests] /\ req' = [req EXCEPT ![q] = r]
        BY <1>1 DEF DashboardInv, TypeOK, ConvertFromPreview, Send
    <2>5. r.keys = current.keys /\ r.kind = kind
        BY DEF Request, NoRequest
    <2>6. req'[q] = r
        BY <2>4
    <2> HIDE DEF r
    <2> QED BY <2>2, <2>3, <2>5, <2>6
<1>2. DashboardInv /\ [Next]_dvars =>
          [\A q \in Slot : ConvertFromPreview(q) =>
              /\ modal.title.mode # "resource"
              /\ req'[q].keys = modal.title.keys
              /\ req'[q].keys # {} /\ req'[q].keys \subseteq picked
              /\ (req'[q].kind = "convertBatch") = (modal.title.mode = "batch")]_dvars
    BY <1>1
<1> QED BY <1>2, DashboardInvariance, PTL DEF Spec
(* Only the list handler makes an answer with a list, and makes it of the cluster
   as it is; nobody touches one that is on its way. *)
LEMMA ListsOfStep ==
    ASSUME TypeOK, HeldIsCurrent, Next, NEW p \in Slot, Is(p, {"list"}, "answered")'
    PROVE  \/ Is(p, {"list"}, "answered") /\ req'[p].rows = req[p].rows
           \/ req'[p].rows = View
<1> DEFINE Kept == Is(p, {"list"}, "answered") /\ req'[p].rows = req[p].rows
           AList(r) == r.kind = "list" /\ r.phase = "answered"
<1>0. req \in [Slot -> Requests] /\ AList(req'[p])
    BY DEF TypeOK, Is
<1>a. \A kind, keys, b :
          /\ Request(kind, keys).phase = "sent"
          /\ [Request(kind, keys) EXCEPT !.dialog = b].phase = "sent"
    BY DEF Request, NoRequest
<1>1. ASSUME NEW q \in Slot, NEW r, req' = [req EXCEPT ![q] = r], ~AList(r) PROVE Kept
    <2>1. req'[p] = req[p]
        BY <1>0, <1>1
    <2> QED BY <1>0, <2>1 DEF Is
<1>2. ASSUME req' = req PROVE Kept
    BY <1>0, <1>2 DEF Is
<1>3. ASSUME NEW i, NEW r \in [Slot -> Requests], req' = Written(i, r),
             \A s \in Slot : r[s] = req[s] \/ ~AList(r[s])
      PROVE  Kept
    <2>1. r[p] \in Requests /\ req'[p] = [r[p] EXCEPT !.held = @ \ {i}]
        BY <1>3 DEF Written
    <2>2. req'[p].kind = r[p].kind /\ req'[p].phase = r[p].phase /\ req'[p].rows = r[p].rows
        BY <2>1 DEF Requests
    <2> QED BY <1>0, <1>3, <2>2 DEF Is
<1>4. ASSUME NEW q \in Slot, \A s \in Slot : s # q => req'[s] = req[s], ~AList(req'[q]) PROVE Kept
    BY <1>0, <1>4 DEF Is
<1> HIDE DEF Kept
<1>5. ASSUME NEW q \in Slot, NEW kind, NEW keys, NEW b, 
             \/ req' = [req EXCEPT ![q] = Request(kind, keys)]
             \/ req' = [req EXCEPT ![q] = [Request(kind, keys) EXCEPT !.dialog = b]]
      PROVE  Kept
    BY <1>a, <1>1, <1>5
<1>6. ASSUME UserStep PROVE Kept
    <2>1. ASSUME NEW q \in Slot, PreviewSelected(q) \/ ConvertSelected(q) \/ ConvertFromPreview(q)
          PROVE  Kept
        BY <1>5, <2>1 DEF PreviewSelected, ConvertSelected, ConvertFromPreview, Send
    <2>2. ASSUME NEW q \in Slot, NEW i \in Ingress,
                 ShowPreview(q, i) \/ PreviewResource(q, i) \/ SkipIngress(q, i) \/ DeleteIngress(q, i)
          PROVE  Kept
        BY <1>5, <2>2 DEF ShowPreview, PreviewResource, SkipIngress, DeleteIngress, Send
    <2>3. ASSUME NEW i \in Ingress, TickRow(i) \/ UntickRow(i) PROVE Kept
        BY <1>2, <2>3 DEF TickRow, UntickRow, Tick, Untick
    <2>4. ASSUME SelectAll \/ SelectNone \/ CloseModal PROVE Kept
        BY <1>2, <2>4 DEF SelectAll, SelectNone, Tick, Untick, CloseModal
    <2> QED BY <1>6, <2>1, <2>2, <2>3, <2>4 DEF UserStep
<1>7. ASSUME NEW q \in Slot, ServerStep(q) PROVE Kept \/ req'[p].rows = View
    <2>0. req[q] \in Requests
        BY <1>0
    <2>1. CASE ServeList(q)
        <3>1. CASE p = q
            <4>1. req'[q] = [req[q] EXCEPT !.phase = "answered", !.rows = View]
                BY <1>0, <2>1 DEF ServeList
            <4>2. req'[q].rows = View
                BY <2>0, <4>1 DEF Requests
            <4> QED BY <3>1, <4>2
        <3>2. CASE p # q
            <4>1. req'[p] = req[p]
                BY <1>0, <2>1, <3>2 DEF ServeList
            <4> QED BY <1>0, <4>1 DEF Kept, Is
        <3> QED BY <3>1, <3>2
    <2>2. CASE ServePreview(q)
        <3>1. req'[q].kind = req[q].kind /\ \A s \in Slot : s # q => req'[s] = req[s]
            BY <1>0, <2>0, <2>2 DEF ServePreview, Requests
        <3>2. req[q].kind # "list"
            BY <2>2 DEF ServePreview, Preview, BatchPreview, ResourcePreview, Is
        <3> QED BY <1>4, <3>1, <3>2
    <2>3. CASE BeginConvert(q) \/ AllRead(q)
        <3>1. req'[q].phase \in {"reading", "applying"} /\ \A s \in Slot : s # q => req'[s] = req[s]
            BY <1>0, <2>3, PhaseOfConversion
        <3> QED BY <1>4, <3>1
    <2>4. CASE ConvertDone(q)
        <3>1. req[q].kind \in Converts
            BY <2>4 DEF ConvertDone, HeldIsCurrent, RequestCurrent
        <3>2. Answered(q).kind = req[q].kind
            BY DEF Answered, NoRequest
        <3> QED BY <1>1, <2>4, <3>1, <3>2 DEF ConvertDone, Converts
    <2>5. ASSUME NEW i \in Ingress, ReadIngress(q, i) \/ AnnotateFails(q, i) PROVE Kept
        <3>1. req'[q].phase = req[q].phase /\ \A s \in Slot : s # q => req'[s] = req[s]
            BY <1>0, <2>0, <2>5 DEF ReadIngress, AnnotateFails, Requests
        <3>2. req[q].phase # "answered"
            BY <2>5 DEF ReadIngress, AnnotateFails
        <3> QED BY <1>4, <3>1, <3>2
    <2>6. ASSUME NEW i \in Ingress, Annotate(q, i) PROVE Kept
        <3> DEFINE r == [req EXCEPT ![q].left = @ \ {i}, ![q].seen[i] = None]
        <3>1. req' = Written(i, r) /\ req[q].phase = "applying"
            BY <2>6 DEF Annotate
        <3>2. r \in [Slot -> Requests]
            BY <1>0, <2>0 DEF Requests, Marked
        <3>3. \A s \in Slot : r[s] = req[s] \/ r[s].phase = "applying"
            BY <1>0, <2>0, <3>1 DEF Requests
        <3> HIDE DEF r
        <3> QED BY <1>3, <3>1, <3>2, <3>3
    <2>7. CASE GetIngress(q)
        <3>1. req'[q].phase = "found" /\ \A s \in Slot : s # q => req'[s] = req[s]
            BY <1>0, <2>0, <2>7 DEF GetIngress, Requests
        <3> QED BY <1>4, <3>1
    <2>8. CASE UpdateSkip(q) \/ DeleteFound(q)
        <3>1. req' = Written(Key(q), [req EXCEPT ![q] = Answered(q)])
            BY <2>8 DEF UpdateSkip, DeleteFound
        <3>2. Answered(q) \in Requests /\ Answered(q).kind = req[q].kind
            <4>1. Answered(q) \in Requests
                BY AnsweredType
            <4> QED BY <4>1 DEF Answered, NoRequest
        <3>3. req[q].kind \in {"skip", "delete"}
            BY <2>8 DEF UpdateSkip, DeleteFound, Is
        <3>4. /\ [req EXCEPT ![q] = Answered(q)] \in [Slot -> Requests]
              /\ \A s \in Slot : \/ [req EXCEPT ![q] = Answered(q)][s] = req[s]
                                 \/ [req EXCEPT ![q] = Answered(q)][s].kind # "list"
            BY <1>0, <3>2, <3>3
        <3> QED BY <1>3, <3>1, <3>4
    <2> QED BY <1>7, <2>1, <2>2, <2>3, <2>4, <2>5, <2>6, <2>7, <2>8 DEF ServerStep
<1>8. ASSUME NEW q \in Slot, Arrival(q) \/ Refused(q) PROVE Kept
    <2>1. CASE ConvertArrives(q) \/ ChangeArrives(q)
        BY <1>5, <2>1 DEF ConvertArrives, ChangeArrives
    <2>2. CASE ListArrives(q) \/ PreviewArrives(q) \/ Refused(q)
        <3>1. req' = [req EXCEPT ![q] = NoRequest]
            BY <2>2 DEF ListArrives, PreviewArrives, Refused, Release
        <3> QED BY <1>1, <3>1 DEF NoRequest
    <2> QED BY <1>8, <2>1, <2>2 DEF Arrival
<1>9. ASSUME NEW q \in Slot, Refresh(q) PROVE Kept
    BY <1>5, <1>9 DEF Refresh, Send
<1>10. ASSUME NEW i \in Ingress, OthersWrite(i) PROVE Kept
    BY <1>0, <1>3, <1>10 DEF OthersWrite
<1> QED BY <1>6, <1>7, <1>8, <1>9, <1>10 DEF Next, Kept

(* Nothing but a list that arrives changes the table. *)
LEMMA TableOfStep ==
    ASSUME Next, shown' # shown PROVE \E q \in Slot : ListArrives(q)
<1>1. ASSUME UserStep PROVE shown' = shown
    <2>1. \A q \in Slot : PreviewSelected(q) \/ ConvertSelected(q) \/ ConvertFromPreview(q) =>
             shown' = shown
        BY DEF page, PreviewSelected, ConvertSelected, ConvertFromPreview
    <2>2. \A q \in Slot, i \in Ingress :
             ShowPreview(q, i) \/ PreviewResource(q, i) \/ SkipIngress(q, i) \/ DeleteIngress(q, i) =>
                shown' = shown
        BY DEF page, ShowPreview, PreviewResource, SkipIngress, DeleteIngress
    <2>3. \A i \in Ingress : TickRow(i) \/ UntickRow(i) => shown' = shown
        BY DEF TickRow, UntickRow, Tick, Untick
    <2>4. SelectAll \/ SelectNone \/ CloseModal => shown' = shown
        BY DEF SelectAll, SelectNone, Tick, Untick, CloseModal
    <2> QED BY <1>1, <2>1, <2>2, <2>3, <2>4 DEF UserStep
<1>2. ASSUME NEW q \in Slot, ServerStep(q) PROVE shown' = shown
    <2>1. ServeList(q) \/ ServePreview(q) \/ BeginConvert(q) \/ AllRead(q) \/ ConvertDone(q) =>
             shown' = shown
        BY DEF page, ServeList, ServePreview, BeginConvert, AllRead, ConvertDone
    <2>2. \A i \in Ingress : ReadIngress(q, i) \/ Annotate(q, i) \/ AnnotateFails(q, i) =>
             shown' = shown
        BY DEF page, ReadIngress, Annotate, AnnotateFails
    <2>3. GetIngress(q) \/ UpdateSkip(q) \/ DeleteFound(q) => shown' = shown
        BY DEF page, GetIngress, UpdateSkip, DeleteFound
    <2> QED BY <1>2, <2>1, <2>2, <2>3 DEF ServerStep
<1>3. \A q \in Slot : Refresh(q) \/ Refused(q) \/ PreviewArrives(q) \/ ConvertArrives(q)
                         \/ ChangeArrives(q) => shown' = shown
    BY DEF page, Refresh, Refused, PreviewArrives, ConvertArrives, ChangeArrives
<1>4. \A i \in Ingress : OthersWrite(i) => shown' = shown
    BY DEF page, OthersWrite
<1> QED BY <1>1, <1>2, <1>3, <1>4 DEF Next, Arrival

(* While the cluster stays, outdated lists die out, each changes the table once at
   most, and nothing else takes it away from the cluster (fetchIngresses). *)
THEOREM TableFollowsCluster == Spec => TableFollows
<1> DEFINE Follows ==
              /\ Outdated' \subseteq Outdated
              /\ shown' \in {shown, View} \cup {req[q].rows : q \in Outdated \ Outdated'}
<1>1. ASSUME DashboardInv, Next, UNCHANGED mark PROVE Follows
    <2>1. View' = View
        BY <1>1 DEF View
    <2>2. Outdated' \subseteq Outdated
        <3> SUFFICES ASSUME NEW p \in Slot, Is(p, {"list"}, "answered")', req'[p].rows # View
                     PROVE  p \in Outdated
            BY <2>1 DEF Outdated
        <3> QED BY <1>1, ListsOfStep DEF DashboardInv, Outdated
    <2>3. ASSUME NEW q \in Slot, ListArrives(q), shown' # View
          PROVE  q \in Outdated \ Outdated' /\ shown' = req[q].rows
        <3>1. shown' = req[q].rows /\ Is(q, {"list"}, "answered") /\ req' = [req EXCEPT ![q] = NoRequest]
            BY <2>3 DEF ListArrives, Release
        <3>2. req'[q].phase = "free"
            BY <1>1, <3>1 DEF DashboardInv, TypeOK, NoRequest
        <3> QED BY <2>3, <3>1, <3>2 DEF Outdated, Is
    <2>4. shown' \in {shown, View} \cup {req[q].rows : q \in Outdated \ Outdated'}
        BY <1>1, <2>3, TableOfStep
    <2> QED BY <2>2, <2>4
<1>2. DashboardInv /\ [Next]_dvars =>
          [UNCHANGED mark =>
              /\ Outdated' \subseteq Outdated
              /\ shown' \in {shown, View} \cup {req[q].rows : q \in Outdated \ Outdated'}]_dvars
    BY <1>1
<1> QED BY <1>2, DashboardInvariance, PTL DEF Spec, TableFollows
================================================================================
