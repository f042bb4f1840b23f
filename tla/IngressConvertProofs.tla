------------------------ MODULE IngressConvertProofs --------------------------
(***************************************************************************)
(* What holds of IngressConvert for any number of Ingresses, contents,     *)
(* parts, listeners and converters.                                        *)
(*                                                                         *)
(* ConvertInv is inductive.  Its heart is KnownIsCurrent: a version that a *)
(* converter still knows stands for what it read, so that an Update with   *)
(* that version writes on top of what it read and nothing else.  From this *)
(* follow that merges and annotations are atomic (MergesAreAtomic,         *)
(* EditsAreKept), that listeners go only with a deleted Gateway, and so    *)
(* that a run past the Gateway has provided its listeners for good         *)
(* (MergedFirst); and from that, that routes and policies never exist      *)
(* without their listeners.                                                *)
(*                                                                         *)
(* Each conjunct has a lemma, with one step for each action.  The first    *)
(* lemmas say field by field what a write does to the versions known, and  *)
(* what becomes of a run, so that the steps need not look into records.    *)
(***************************************************************************)
EXTENDS IngressConvert, TLAPS

(* What each converter knows after a write, field by field. *)
IngressUnknown(i) ==
    \A d \in Converter :
        /\ known'[d].ingress = known[d].ingress \ {i}
        /\ known'[d].gateway = known[d].gateway
        /\ known'[d].parts = known[d].parts

GatewayUnknown ==
    \A d \in Converter :
        /\ known'[d].ingress = known[d].ingress
        /\ known'[d].gateway = FALSE
        /\ known'[d].parts = known[d].parts

PartKnown(x, W) ==
    \A d \in Converter :
        /\ known'[d].ingress = known[d].ingress
        /\ known'[d].gateway = known[d].gateway
        /\ known'[d].parts = IF d \in W THEN known[d].parts \cup {x}
                                        ELSE known[d].parts \ {x}

(* Writing an Ingress takes its version from everybody. *)
LEMMA IngressWrite ==
  ASSUME TypeOK, NEW i, known' = AfterIngressWrite(i)
  PROVE  IngressUnknown(i)
BY DEF AfterIngressWrite, IngressUnknown, TypeOK, Versions

(* Writing the Gateway takes its version from everybody. *)
LEMMA GatewayWrite ==
  ASSUME TypeOK, known' = AfterGatewayWrite
  PROVE  GatewayUnknown
BY DEF AfterGatewayWrite, GatewayUnknown, TypeOK, Versions

(* Writing a part takes its version from everybody but the writer. *)
LEMMA PartWrite ==
  ASSUME TypeOK, NEW x, NEW W, known' = AfterPartWrite(x, W)
  PROVE  PartKnown(x, W)
<1> SUFFICES ASSUME NEW d \in Converter
             PROVE  /\ known'[d].ingress = known[d].ingress
                    /\ known'[d].gateway = known[d].gateway
                    /\ known'[d].parts = IF d \in W THEN known[d].parts \cup {x}
                                                    ELSE known[d].parts \ {x}
  BY DEF PartKnown
<1> QED
  BY DEF AfterPartWrite, TypeOK, Versions

(* What becomes of the run when a part is dealt with. *)
OthersKept(c) == \A d \in Converter \ {c} : run'[d] = run[d]

PartDealtWith(c, p, ok) ==
    /\ OthersKept(c)
    /\ run'[c].pc = "parts"
    /\ run'[c].left = run[c].left \ {p}
    /\ run'[c].applied = IF ok THEN run[c].applied \cup {<<run[c].current, p>>}
                               ELSE run[c].applied
    /\ run'[c].failed = IF ok \/ p \in Policies THEN run[c].failed
                                                ELSE run[c].failed \cup {run[c].current}
    /\ run'[c].snap = run[c].snap
    /\ run'[c].merge = run[c].merge
    /\ run'[c].queue = run[c].queue
    /\ run'[c].current = run[c].current
    /\ run'[c].converted = run[c].converted

(* PartDone says so field by field, of a run that is typed. *)
LEMMA PartDoneRun ==
  ASSUME TypeOK, NEW c \in Converter, NEW p \in Parts, NEW ok \in BOOLEAN, PartDone(c, p, ok)
  PROVE  PartDealtWith(c, p, ok)
<1>1. run[c] \in Runs /\ run \in [Converter -> Runs]
  BY DEF TypeOK
<1> DEFINE q == [run[c] EXCEPT
        !.pc = "parts", !.part = None, !.left = run[c].left \ {p},
        !.applied = IF ok THEN run[c].applied \cup {<<run[c].current, p>>}
                          ELSE run[c].applied,
        !.failed = IF ok \/ p \in Policies THEN run[c].failed
                                           ELSE run[c].failed \cup {run[c].current}]
<1>2. run' = [run EXCEPT ![c] = q]
  BY DEF PartDone
<1>3. run'[c] = q /\ OthersKept(c)
  BY <1>1, <1>2 DEF OthersKept
<1>4. /\ q.pc = "parts" /\ q.left = run[c].left \ {p}
      /\ q.applied = IF ok THEN run[c].applied \cup {<<run[c].current, p>>}
                           ELSE run[c].applied
      /\ q.failed = IF ok \/ p \in Policies THEN run[c].failed
                                            ELSE run[c].failed \cup {run[c].current}
      /\ q.snap = run[c].snap /\ q.merge = run[c].merge /\ q.queue = run[c].queue
      /\ q.current = run[c].current /\ q.converted = run[c].converted
  BY <1>1 DEF Runs
<1> QED
  BY <1>3, <1>4 DEF PartDealtWith

(* What becomes of the run that has written the Gateway, whether it hears of that or
   not. *)
GatewayDealtWith(c) ==
    /\ OthersKept(c)
    /\ run'[c].pc \in {"secrets", "done"}
    /\ run'[c].merge = {}
    /\ run'[c].queue \subseteq run[c].queue
    /\ run'[c].left = run[c].left
    /\ run'[c].snap = run[c].snap
    /\ run'[c].current = run[c].current
    /\ run'[c].applied = run[c].applied
    /\ run'[c].failed = run[c].failed
    /\ run'[c].converted = run[c].converted

(* GatewayAnswered says so field by field, of a run that is typed. *)
LEMMA GatewayAnsweredRun ==
  ASSUME TypeOK, NEW c \in Converter, GatewayAnswered(c)
  PROVE  GatewayDealtWith(c) /\ run' \in [Converter -> Runs]
<1>1. run[c] \in Runs /\ run \in [Converter -> Runs]
  BY DEF TypeOK
<1>2. CASE run' = [run EXCEPT ![c].pc = "secrets", ![c].merge = {}]
  BY <1>1, <1>2 DEF GatewayDealtWith, OthersKept, Runs, Phases
<1>3. CASE run' = [run EXCEPT ![c].pc = "done", ![c].merge = {}, ![c].queue = {}]
  BY <1>1, <1>3 DEF GatewayDealtWith, OthersKept, Runs, Phases
<1> QED
  BY <1>2, <1>3 DEF GatewayAnswered

(* The part that a run creates or updates, and what it then knows of it. *)
LEMMA PartWritten ==
  ASSUME TypeOK, NEW c \in Converter, PartCreated(c) \/ PartUpdated(c),
         run[c].part \in Parts
  PROVE  \E ok \in BOOLEAN :
            PartDealtWith(c, run[c].part, ok) /\ PartKnown(Id(c), IF ok THEN {c} ELSE {})
BY PartDoneRun, PartWrite DEF PartCreated, PartUpdated, PartAnswered

(* What becomes of the run while it polls. *)
PollGoesOn(c) ==
    /\ OthersKept(c)
    /\ run'[c].pc \in {"poll", "annotate"}
    /\ run'[c].left = run[c].left
    /\ run'[c].applied = run[c].applied
    /\ run'[c].failed = run[c].failed
    /\ run'[c].snap = run[c].snap
    /\ run'[c].queue = run[c].queue
    /\ run'[c].current = run[c].current
    /\ run'[c].converted = run[c].converted

(* A route found accepted changes nothing but the round. *)
LEMMA PollHitRun ==
  ASSUME TypeOK, NEW c \in Converter, NEW r, PollHit(c, r)
  PROVE  PollGoesOn(c)
BY DEF PollHit, PollGoesOn, OthersKept, TypeOK, At, Runs

(* Desired covers what was read, and nothing else. *)
LEMMA DesiredCovers ==
  ASSUME NEW c \in Converter
  PROVE  /\ \A i \in Ingress : Snap(c, i) # None => ListenersOf[Snap(c, i)] \subseteq Desired(c)
         /\ \A L : (\A i \in Ingress : Snap(c, i) # None => ListenersOf[Snap(c, i)] \subseteq L)
                   => Desired(c) \subseteq L
BY DEF Desired, Conversions

(* The actions that write to the cluster. *)
LEMMA ClusterWriters ==
  ASSUME [Next]_ivars
  PROVE  \/ UNCHANGED cluster
         \/ \E c \in Converter :
               \/ GatewayCreated(c) \/ GatewayUpdated(c) \/ CopySecrets(c)
               \/ PartCreated(c) \/ PartUpdated(c)
               \/ AnnotateSucceeds(c)
         \/ \E i \in Ingress : UserEdits(i)
         \/ \E x \in PartIds : PartDeleted(x)
         \/ \E x \in RouteIds : ControllerJudges(x)
         \/ GatewayDeleted
<1>1. ASSUME NEW c \in Converter, Start(c) \/ ReadStep(c) PROVE UNCHANGED cluster
  BY <1>1 DEF Start, ReadStep, ReadFails, ReadSkips, ReadConverts, ReadDone
<1>2. ASSUME NEW c \in Converter, GatewayMissing(c) \/ GatewayRead(c) \/ GatewayFails(c)
      PROVE  UNCHANGED cluster
  BY <1>2 DEF GatewayMissing, GatewayRead, GatewayFails
<1>3. ASSUME NEW c \in Converter, NEW p \in Parts,
             PartMissing(c, p) \/ PartRead(c, p) \/ PartFails(c, p)
      PROVE  UNCHANGED cluster
  BY <1>3 DEF PartMissing, PartRead, PartFails
<1>4. ASSUME NEW c \in Converter,
             (\E i \in Ingress : NextIngress(c, i)) \/ AllApplied(c) \/ PartsApplied(c)
      PROVE  UNCHANGED cluster
  BY <1>4 DEF NextIngress, AllApplied, PartsApplied
<1>5. ASSUME NEW c \in Converter,
             \/ PollStep(c) \/ PollMiss(c) \/ AnnotateFails(c) \/ Finish(c) \/ CutOff(c)
      PROVE  UNCHANGED cluster
  BY <1>5 DEF PollStep, PollHit, PollMiss, PollTimesOut, AnnotateFails, Finish, CutOff
<1>6. ASSUME GatewayTouched \/ UNCHANGED ivars PROVE UNCHANGED cluster
  BY <1>6 DEF GatewayTouched, ivars
<1> QED
  BY <1>1, <1>2, <1>3, <1>4, <1>5, <1>6
  DEF Next, RunStep, GatewayStep, PartStep, EnvironmentStep

(* No run takes part in a step of the environment. *)
LEMMA RunsLeftAlone ==
  ASSUME EnvironmentStep \/ UNCHANGED ivars
  PROVE  run' = run
BY DEF EnvironmentStep, UserEdits, PartDeleted, ControllerJudges, GatewayTouched,
       GatewayDeleted, ivars

-----------------------------------------------------------------------------
(* Types. *)

(* A run that has dealt with a part is typed. *)
LEMMA PartDoneType ==
  ASSUME TypeOK, NEW c \in Converter, NEW p \in Parts, NEW ok \in BOOLEAN,
         run[c].current \in Ingress, PartDone(c, p, ok)
  PROVE  run' \in [Converter -> Runs]
<1>1. run[c] \in Runs /\ run \in [Converter -> Runs]
  BY DEF TypeOK
<1> DEFINE q == [run[c] EXCEPT
        !.pc = "parts", !.part = None, !.left = run[c].left \ {p},
        !.applied = IF ok THEN run[c].applied \cup {<<run[c].current, p>>}
                          ELSE run[c].applied,
        !.failed = IF ok \/ p \in Policies THEN run[c].failed
                                           ELSE run[c].failed \cup {run[c].current}]
<1>2. run' = [run EXCEPT ![c] = q]
  BY DEF PartDone
<1>3. /\ run[c].applied \cup {<<run[c].current, p>>} \in SUBSET PartIds
      /\ run[c].failed \cup {run[c].current} \in SUBSET Ingress
      /\ run[c].left \ {p} \in SUBSET Parts
  BY <1>1 DEF Runs, PartIds
<1>4. q \in Runs
  BY <1>1, <1>3 DEF Runs, Phases
<1> QED
  BY <1>1, <1>2, <1>4

(* A step of a converter keeps every run typed. *)
LEMMA RunsStep ==
  ASSUME ConvertInv, NEW c \in Converter,
         Start(c) \/ RunStep(c) \/ PollMiss(c) \/ CutOff(c)
  PROVE  run' \in [Converter -> Runs]
<1>0. /\ TypeOK
      /\ run[c] \in Runs
      /\ run \in [Converter -> Runs]
      /\ content \in [Ingress -> Contents]
      /\ listeners \in SUBSET Listener
      /\ OnlyWhatWasRead
      /\ RunsInOrder
  BY DEF ConvertInv, TypeOK
<1> DEFINE Goal == run' \in [Converter -> Runs]
<1>1. ASSUME Start(c) PROVE Goal
  <2>1. PICK names \in (SUBSET Ingress) \ {{}}, polls \in Polling :
          run' = [run EXCEPT ![c].pc = "read", ![c].todo = names, ![c].polls = polls]
    BY <1>1 DEF Start
  <2>2. polls \in BOOLEAN
    BY ConversionAssumption
  <2> QED
    BY <1>0, <2>1, <2>2 DEF Runs, Phases
<1>2. ASSUME NEW i \in Ingress, ReadFails(c, i) PROVE Goal
  <2>1. run[c].todo \ {i} \in SUBSET Ingress /\ run[c].failed \cup {i} \in SUBSET Ingress
    BY <1>0 DEF Runs
  <2> QED
    BY <1>0, <1>2, <2>1 DEF ReadFails, Runs
<1>3. ASSUME NEW i \in Ingress, ReadSkips(c, i) PROVE Goal
  BY <1>0, <1>3 DEF ReadSkips, Runs, Phases
<1>4. ASSUME NEW i \in Ingress, ReadConverts(c, i) PROVE Goal
  BY ZenonT(60), <1>0, <1>4 DEF ReadConverts, Runs, Phases
<1>5. ASSUME ReadDone(c) PROVE Goal
  BY <1>0, <1>5 DEF ReadDone, Conversions, Runs, Phases
<1>6. ASSUME GatewayMissing(c) PROVE Goal
  BY <1>0, <1>6 DEF GatewayMissing, Runs, Phases
<1>7. ASSUME GatewayRead(c) PROVE Goal
  BY <1>0, <1>7 DEF GatewayRead, Runs, Phases
<1>8. ASSUME GatewayFails(c) PROVE Goal
  BY <1>0, <1>8 DEF GatewayFails, Runs, Phases
<1>9. ASSUME GatewayCreated(c) PROVE Goal
  BY <1>0, <1>9, GatewayAnsweredRun DEF GatewayCreated
<1>10. ASSUME GatewayUpdated(c) PROVE Goal
  BY <1>0, <1>10, GatewayAnsweredRun DEF GatewayUpdated
<1>11. ASSUME CopySecrets(c) PROVE Goal
  BY <1>0, <1>11 DEF CopySecrets, Runs, Phases
<1>12. ASSUME NEW i \in Ingress, NextIngress(c, i) PROVE Goal
  BY <1>0, <1>12, ConversionAssumption DEF NextIngress, Snap, Contents, Runs,
    Phases
<1>13. ASSUME AllApplied(c) PROVE Goal
  BY <1>0, <1>13 DEF AllApplied, Runs, Phases
<1>14. ASSUME NEW p \in Parts, PartMissing(c, p) PROVE Goal
  BY ZenonT(60), <1>0, <1>14 DEF PartMissing, IsNextPart, Runs, Phases
<1>15. ASSUME NEW p \in Parts, PartRead(c, p) PROVE Goal
  BY <1>0, <1>15 DEF PartRead, IsNextPart, Runs, Phases
<1>16. ASSUME NEW p \in Parts, PartFails(c, p) PROVE Goal
  <2>1. run[c].current \in Ingress
    BY <1>0, <1>16 DEF OnlyWhatWasRead, PartFails, IsNextPart, At, Applying
  <2> QED
    BY <1>0, <1>16, <2>1, PartDoneType DEF PartFails
<1>17. ASSUME PartCreated(c) PROVE Goal
  <2>1. run[c].current \in Ingress /\ run[c].part \in Parts
    BY <1>0, <1>17 DEF OnlyWhatWasRead, RunsInOrder, PartCreated, At, Applying, Runs
  <2> QED
    BY <1>0, <1>17, <2>1, PartDoneType DEF PartCreated, PartAnswered
<1>18. ASSUME PartUpdated(c) PROVE Goal
  <2>1. run[c].current \in Ingress /\ run[c].part \in Parts
    BY <1>0, <1>18 DEF OnlyWhatWasRead, RunsInOrder, PartUpdated, At, Applying, Runs
  <2> QED
    BY <1>0, <1>18, <2>1, PartDoneType DEF PartUpdated, PartAnswered
<1>19. ASSUME PartsApplied(c) PROVE Goal
  BY <1>0, <1>19 DEF PartsApplied, Runs, Phases
<1>20. ASSUME NEW r \in Routes, PollHit(c, r) PROVE Goal
  BY <1>0, <1>20 DEF PollHit, RoutesAt, Runs, Phases
<1>21. ASSUME PollMiss(c) PROVE Goal
  BY <1>0, <1>21 DEF PollMiss, Runs, Phases
<1>22. ASSUME PollTimesOut(c) PROVE Goal
  BY <1>0, <1>22 DEF PollTimesOut, Runs, Phases
<1>23. ASSUME AnnotateSucceeds(c) PROVE Goal
  <2>1. run[c].current \in Ingress
    BY <1>0, <1>23 DEF OnlyWhatWasRead, AnnotateSucceeds, At, Applying
  <2>2. run[c].converted \cup {run[c].current} \in SUBSET Ingress
    BY <1>0, <2>1 DEF Runs
  <2> QED
    BY ZenonT(60), <1>0, <1>23, <2>2 DEF AnnotateSucceeds, IngressDone, Runs, Phases
<1>24. ASSUME AnnotateFails(c) PROVE Goal
  <2>1. run[c].current \in Ingress
    BY <1>0, <1>24 DEF OnlyWhatWasRead, AnnotateFails, At, Applying
  <2>2. run[c].converted \cup {run[c].current} \in SUBSET Ingress
    BY <1>0, <2>1 DEF Runs
  <2> QED
    BY ZenonT(60), <1>0, <1>24, <2>2 DEF AnnotateFails, IngressDone, Runs, Phases
<1>25. ASSUME Finish(c) PROVE Goal
  BY <1>0, <1>25 DEF Finish, IdleRun, Contents, Runs, Phases
<1>26. ASSUME CutOff(c) PROVE Goal
  BY <1>0, <1>26 DEF CutOff, IdleRun, Contents, Runs, Phases
<1> QED BY <1>1, <1>2, <1>3, <1>4, <1>5, <1>6, <1>7, <1>8, <1>9, <1>10,
  <1>11, <1>12, <1>13, <1>14, <1>15, <1>16, <1>17, <1>18, <1>19, <1>20,
  <1>21, <1>22, <1>23, <1>24, <1>25, <1>26 DEF RunStep, ReadStep,
  GatewayStep, PartStep, PollStep

(* TypeOK but for the runs, in two halves. *)
ClusterTyped ==
    /\ content \in [Ingress -> Contents]
    /\ status \in [Ingress -> Statuses \cup {"new"}]
    /\ gateway \in BOOLEAN
    /\ listeners \in SUBSET Listener
    /\ lost \in SUBSET Listener
    /\ secrets \in SUBSET Listener
    /\ object \in [PartIds -> Contents]
    /\ accepted \in [RouteIds -> Contents]

KnownTyped == known \in [Converter -> Versions]

(* The values that a run writes. *)
LEMMA Written ==
  ASSUME TypeOK, NEW c \in Converter
  PROVE  /\ Desired(c) \subseteq Listener
         /\ StatusFor(c) \in Statuses
         /\ \A i \in Ingress : Snap(c, i) \in Contents
<1>1. \A i \in Ingress : Snap(c, i) \in Contents
  BY DEF TypeOK, Runs, Snap
<1>2. \A i \in Conversions(c) : ListenersOf[Snap(c, i)] \subseteq Listener
  BY <1>1, ConversionAssumption DEF Conversions, Contents
<1> QED
  BY <1>1, <1>2 DEF Desired, StatusFor, Statuses

(* Every step keeps what is in the cluster typed. *)
LEMMA ClusterStep == ConvertInv /\ [Next]_ivars => ClusterTyped'
<1> SUFFICES ASSUME ConvertInv, [Next]_ivars
             PROVE  ClusterTyped'
  OBVIOUS
<1>0. /\ TypeOK
      /\ OnlyWhatWasRead
      /\ ClusterTyped
  BY DEF ConvertInv, TypeOK, ClusterTyped
<1>1. ASSUME UNCHANGED cluster PROVE ClusterTyped'
  BY <1>0, <1>1 DEF ClusterTyped, cluster
<1>2. ASSUME NEW c \in Converter, GatewayCreated(c) PROVE ClusterTyped'
  BY <1>0, <1>2, Written DEF ClusterTyped, GatewayCreated, cluster
<1>3. ASSUME NEW c \in Converter, GatewayUpdated(c) PROVE ClusterTyped'
  <2>1. run[c].merge \subseteq Listener
    BY <1>0 DEF TypeOK, Runs
  <2> QED
    BY <1>0, <1>3, <2>1, Written DEF ClusterTyped, GatewayUpdated
<1>4. ASSUME NEW c \in Converter, CopySecrets(c) PROVE ClusterTyped'
  BY <1>0, <1>4, Written DEF ClusterTyped, CopySecrets, cluster
<1>5. ASSUME NEW c \in Converter, PartCreated(c) PROVE ClusterTyped'
  <2>1. run[c].current \in Ingress /\ run[c].part \in Parts
    BY <1>0, <1>5 DEF OnlyWhatWasRead, RunsInOrder, ConvertInv, TypeOK, Runs, PartCreated, At,
       Applying
  <2> QED
    BY <1>0, <1>5, <2>1, Written DEF ClusterTyped, PartCreated, Id, PartIds,
      Contents
<1>6. ASSUME NEW c \in Converter, PartUpdated(c) PROVE ClusterTyped'
  <2>1. run[c].current \in Ingress /\ run[c].part \in Parts
    BY <1>0, <1>6 DEF OnlyWhatWasRead, RunsInOrder, ConvertInv, TypeOK, Runs, PartUpdated, At,
       Applying
  <2> QED
    BY <1>0, <1>6, <2>1, Written DEF ClusterTyped, PartUpdated, Id, PartIds,
      Contents
<1>7. ASSUME NEW c \in Converter, AnnotateSucceeds(c) PROVE ClusterTyped'
  <2>1. run[c].current \in Ingress
    BY <1>0, <1>7 DEF OnlyWhatWasRead, RunsInOrder, ConvertInv, TypeOK, Runs, AnnotateSucceeds, At,
       Applying
  <2> QED
    BY <1>0, <1>7, <2>1, Written DEF ClusterTyped, AnnotateSucceeds, Id,
      PartIds, Contents
<1>8. ASSUME NEW i \in Ingress, UserEdits(i) PROVE ClusterTyped'
  BY <1>0, <1>8 DEF ClusterTyped, UserEdits, cluster, Contents, RouteIds,
    PartIds, Parts
<1>9. ASSUME NEW x \in PartIds, PartDeleted(x) PROVE ClusterTyped'
  BY <1>0, <1>9 DEF ClusterTyped, PartDeleted, cluster, Contents, RouteIds,
    PartIds, Parts
<1>10. ASSUME NEW y \in RouteIds, ControllerJudges(y) PROVE ClusterTyped'
  BY <1>0, <1>10 DEF ClusterTyped, ControllerJudges, cluster, Contents,
    RouteIds, PartIds, Parts
<1>11. ASSUME GatewayDeleted PROVE ClusterTyped'
  BY <1>0, <1>11 DEF ClusterTyped, GatewayDeleted
<1> QED
  BY <1>1, <1>2, <1>3, <1>4, <1>5, <1>6, <1>7, <1>8, <1>9, <1>10,
     <1>11, ClusterWriters

(* Every step keeps what the converters know typed. *)
LEMMA KnownTypeStep == ConvertInv /\ [Next]_ivars => KnownTyped'
<1> SUFFICES ASSUME ConvertInv, [Next]_ivars
             PROVE  KnownTyped'
  OBVIOUS
<1>0. /\ TypeOK
      /\ run \in [Converter -> Runs]
      /\ OnlyWhatWasRead
      /\ KnownTyped
  BY DEF ConvertInv, TypeOK, KnownTyped
<1>1. ASSUME UNCHANGED known PROVE KnownTyped'
  BY <1>0, <1>1 DEF KnownTyped
<1>2. ASSUME NEW c \in Converter, NEW i \in Ingress, ReadConverts(c, i) PROVE
  KnownTyped'
  BY <1>0, <1>2 DEF KnownTyped, Versions, ReadConverts
<1>3. ASSUME NEW c \in Converter, GatewayRead(c) PROVE KnownTyped'
  BY <1>0, <1>3 DEF KnownTyped, Versions, GatewayRead
<1>4. ASSUME NEW c \in Converter, GatewayFails(c) PROVE KnownTyped'
  BY <1>0, <1>4 DEF KnownTyped, Versions, GatewayFails
<1>5. ASSUME NEW c \in Converter, GatewayCreated(c) PROVE KnownTyped'
  BY <1>0, <1>5 DEF KnownTyped, Versions, GatewayCreated, AfterGatewayWrite
<1>6. ASSUME NEW c \in Converter, GatewayUpdated(c) PROVE KnownTyped'
  BY <1>0, <1>6 DEF KnownTyped, Versions, GatewayUpdated, AfterGatewayWrite
<1>7. ASSUME NEW c \in Converter, NEW p \in Parts, PartRead(c, p) PROVE
  KnownTyped'
  BY <1>0, <1>7 DEF KnownTyped, Versions, PartRead, IsNextPart, PartIds,
    OnlyWhatWasRead, At, Applying
<1>8. ASSUME NEW c \in Converter, NEW p \in Parts, PartFails(c, p) PROVE
  KnownTyped'
  BY <1>0, <1>8 DEF KnownTyped, Versions, PartFails
<1>9. ASSUME NEW c \in Converter, PartCreated(c) PROVE KnownTyped'
  <2>1. Id(c) \in PartIds
    BY <1>0, <1>9 DEF OnlyWhatWasRead, RunsInOrder, ConvertInv, TypeOK, Runs, PartCreated, At,
       Applying, Id, PartIds
  <2>2. PICK W : known' = AfterPartWrite(Id(c), W)
    BY <1>9 DEF PartCreated, PartAnswered
  <2> QED
    BY <1>0, <2>1, <2>2 DEF KnownTyped, Versions, AfterPartWrite
<1>10. ASSUME NEW c \in Converter, PartUpdated(c) PROVE KnownTyped'
  <2>1. Id(c) \in PartIds
    BY <1>0, <1>10 DEF OnlyWhatWasRead, RunsInOrder, ConvertInv, TypeOK, Runs, PartUpdated, At,
       Applying, Id, PartIds
  <2>2. PICK W : known' = AfterPartWrite(Id(c), W)
    BY <1>10 DEF PartUpdated, PartAnswered
  <2> QED
    BY <1>0, <2>1, <2>2 DEF KnownTyped, Versions, AfterPartWrite
<1>11. ASSUME NEW c \in Converter, AnnotateSucceeds(c) PROVE KnownTyped'
  BY <1>0, <1>11 DEF KnownTyped, Versions, AnnotateSucceeds,
    AfterIngressWrite
<1>12. ASSUME NEW c \in Converter, Finish(c) PROVE KnownTyped'
  BY <1>0, <1>12 DEF KnownTyped, Versions, Finish, NothingKnown
<1>13. ASSUME NEW c \in Converter, CutOff(c) PROVE KnownTyped'
  BY <1>0, <1>13 DEF KnownTyped, Versions, CutOff, NothingKnown
<1>14. ASSUME NEW i \in Ingress, UserEdits(i) PROVE KnownTyped'
  BY ZenonT(60), <1>0, <1>14 DEF KnownTyped, Versions, UserEdits, AfterIngressWrite
<1>15. ASSUME NEW x \in PartIds, PartDeleted(x) PROVE KnownTyped'
  BY <1>0, <1>15 DEF KnownTyped, Versions, PartDeleted, AfterPartWrite
<1>16. ASSUME NEW y \in RouteIds, ControllerJudges(y) PROVE KnownTyped'
  BY <1>0, <1>16 DEF KnownTyped, Versions, ControllerJudges, AfterPartWrite,
    RouteIds, PartIds, Parts
<1>17. ASSUME GatewayTouched PROVE KnownTyped'
  BY <1>0, <1>17 DEF KnownTyped, Versions, GatewayTouched, AfterGatewayWrite
<1>18. ASSUME GatewayDeleted PROVE KnownTyped'
  BY <1>0, <1>18 DEF KnownTyped, Versions, GatewayDeleted, AfterGatewayWrite
<1> QED
  BY ZenonT(60), <1>1, <1>2, <1>3, <1>4, <1>5, <1>6, <1>7, <1>8, <1>9, <1>10, <1>11,
     <1>12, <1>13, <1>14, <1>15, <1>16, <1>17, <1>18
  DEF Next, RunStep, ReadStep, GatewayStep, PartStep, PollStep,
     EnvironmentStep, ivars, Start, ReadFails, ReadSkips, ReadDone,
     GatewayMissing, CopySecrets, NextIngress, AllApplied, PartMissing,
     PartsApplied, PollHit, PollMiss, PollTimesOut, AnnotateFails

(* What is in the cluster and what converters know are typed, and so are runs:
   the others write none. *)
LEMMA TypeStep == ConvertInv /\ [Next]_ivars => TypeOK'
<1> SUFFICES ASSUME ConvertInv, [Next]_ivars
             PROVE  TypeOK'
  OBVIOUS
<1>1. ClusterTyped' /\ KnownTyped'
  BY ClusterStep, KnownTypeStep
<1>2. (run \in [Converter -> Runs])'
  <2>1. run \in [Converter -> Runs]
    BY DEF ConvertInv, TypeOK
  <2> QED
    BY <2>1, RunsLeftAlone, RunsStep DEF Next
<1> QED
  BY <1>1, <1>2 DEF TypeOK, ClusterTyped, KnownTyped

-----------------------------------------------------------------------------
(* The conjuncts of ConvertInv. *)

(* A version that is still known stands for what was read: a write to an
   object takes it from everybody, and a run reads before it knows. *)
LEMMA KnownStep == ConvertInv /\ [Next]_ivars => KnownIsCurrent'
<1> SUFFICES ASSUME ConvertInv, [Next]_ivars
             PROVE  KnownIsCurrent'
  OBVIOUS
<1>0. /\ TypeOK
      /\ run \in [Converter -> Runs]
      /\ known \in [Converter -> Versions]
      /\ content \in [Ingress -> Contents]
      /\ KnownIsCurrent
  BY DEF ConvertInv, TypeOK
<1>1. ASSUME NEW c \in Converter, Start(c) PROVE KnownIsCurrent'
  BY <1>0, <1>1 DEF KnownIsCurrent, Start, cluster, Snap, At
<1>2. ASSUME NEW c \in Converter, NEW i \in Ingress, ReadFails(c, i) PROVE
  KnownIsCurrent'
  BY <1>0, <1>2 DEF KnownIsCurrent, ReadFails, cluster, Snap, At
<1>3. ASSUME NEW c \in Converter, NEW i \in Ingress, ReadSkips(c, i) PROVE
  KnownIsCurrent'
  BY <1>0, <1>3 DEF KnownIsCurrent, ReadSkips, cluster, Snap, At
<1>4. ASSUME NEW c \in Converter, NEW i \in Ingress, ReadConverts(c, i) PROVE
  KnownIsCurrent'
  BY <1>0, <1>4 DEF KnownIsCurrent, ReadConverts, Runs, Versions, cluster,
    Snap, At
<1>5. ASSUME NEW c \in Converter, ReadDone(c) PROVE KnownIsCurrent'
  BY <1>0, <1>5 DEF KnownIsCurrent, ReadDone, cluster, Snap, At
<1>6. ASSUME NEW c \in Converter, GatewayMissing(c) PROVE KnownIsCurrent'
  BY <1>0, <1>6 DEF KnownIsCurrent, GatewayMissing, cluster, Snap, At
<1>7. ASSUME NEW c \in Converter, GatewayRead(c) PROVE KnownIsCurrent'
  BY <1>0, <1>7 DEF KnownIsCurrent, GatewayRead, cluster, Snap, At
<1>8. ASSUME NEW c \in Converter, GatewayFails(c) PROVE KnownIsCurrent'
  BY <1>0, <1>8 DEF KnownIsCurrent, GatewayFails, cluster, Snap, At
<1>9. ASSUME NEW c \in Converter, GatewayCreated(c) PROVE KnownIsCurrent'
  <2>1. GatewayUnknown
    BY <1>0, <1>9, GatewayWrite DEF GatewayCreated
  <2> QED
    BY <1>0, <1>9, <2>1, GatewayAnsweredRun
       DEF KnownIsCurrent, GatewayCreated, GatewayDealtWith, OthersKept, GatewayUnknown, Snap, At
<1>10. ASSUME NEW c \in Converter, GatewayUpdated(c) PROVE KnownIsCurrent'
  <2>1. GatewayUnknown
    BY <1>0, <1>10, GatewayWrite DEF GatewayUpdated
  <2> QED
    BY <1>0, <1>10, <2>1, GatewayAnsweredRun
       DEF KnownIsCurrent, GatewayUpdated, GatewayDealtWith, OthersKept, GatewayUnknown, Snap, At
<1>11. ASSUME NEW c \in Converter, CopySecrets(c) PROVE KnownIsCurrent'
  BY <1>0, <1>11 DEF KnownIsCurrent, CopySecrets, Snap, At
<1>12. ASSUME NEW c \in Converter, NEW i \in Ingress, NextIngress(c, i) PROVE
  KnownIsCurrent'
  BY <1>0, <1>12 DEF KnownIsCurrent, NextIngress, cluster, Snap, At
<1>13. ASSUME NEW c \in Converter, AllApplied(c) PROVE KnownIsCurrent'
  BY <1>0, <1>13 DEF KnownIsCurrent, AllApplied, cluster, Snap, At
<1>14. ASSUME NEW c \in Converter, NEW p \in Parts, PartMissing(c, p) PROVE
  KnownIsCurrent'
  BY <1>0, <1>14 DEF KnownIsCurrent, PartMissing, IsNextPart, cluster, Snap,
    At
<1>15. ASSUME NEW c \in Converter, NEW p \in Parts, PartRead(c, p) PROVE
  KnownIsCurrent'
  BY <1>0, <1>15 DEF KnownIsCurrent, PartRead, IsNextPart, cluster, Snap, At
<1>16. ASSUME NEW c \in Converter, NEW p \in Parts, PartFails(c, p) PROVE
  KnownIsCurrent'
  BY <1>0, <1>16 DEF KnownIsCurrent, PartFails, PartDone, IsNextPart,
    cluster, Snap, At
<1>17. ASSUME NEW c \in Converter, PartCreated(c) PROVE KnownIsCurrent'
  <2>1. PICK ok \in BOOLEAN :
           PartDealtWith(c, run[c].part, ok) /\ PartKnown(Id(c), IF ok THEN {c} ELSE {})
    BY <1>0, <1>17, ConvertInv, PartWritten DEF ConvertInv, RunsInOrder, PartCreated, TypeOK, Runs, At
  <2>2. \A d \in Converter :
          /\ run'[d].snap = run[d].snap /\ run'[d].merge = run[d].merge
          /\ At(d, "gatewayUpdate") => At(d, "gatewayUpdate")'
          /\ known'[d].ingress = known[d].ingress
          /\ known'[d].gateway = known[d].gateway
    BY <1>0, <1>17, <2>1 DEF PartCreated, PartDealtWith, OthersKept, PartKnown, At
  <2>3. content' = content /\ listeners' = listeners /\ gateway' = gateway
    BY <1>17 DEF PartCreated
  <2>4. ASSUME NEW d \in Converter, NEW i \in known'[d].ingress
        PROVE  Snap(d, i)' = content'[i]
    BY <1>0, <2>2, <2>3, <2>4 DEF KnownIsCurrent, Snap
  <2>5. ASSUME NEW d \in Converter, known'[d].gateway
        PROVE  At(d, "gatewayUpdate")' /\ gateway' /\ run'[d].merge = listeners'
    BY <1>0, <2>2, <2>3, <2>5 DEF KnownIsCurrent
  <2> QED
    BY <2>4, <2>5 DEF KnownIsCurrent
<1>18. ASSUME NEW c \in Converter, PartUpdated(c) PROVE KnownIsCurrent'
  <2>1. PICK ok \in BOOLEAN :
           PartDealtWith(c, run[c].part, ok) /\ PartKnown(Id(c), IF ok THEN {c} ELSE {})
    BY <1>0, <1>18, ConvertInv, PartWritten DEF ConvertInv, RunsInOrder, PartUpdated, TypeOK, Runs, At
  <2>2. \A d \in Converter :
          /\ run'[d].snap = run[d].snap /\ run'[d].merge = run[d].merge
          /\ At(d, "gatewayUpdate") => At(d, "gatewayUpdate")'
          /\ known'[d].ingress = known[d].ingress
          /\ known'[d].gateway = known[d].gateway
    BY <1>0, <1>18, <2>1 DEF PartUpdated, PartDealtWith, OthersKept, PartKnown, At
  <2>3. content' = content /\ listeners' = listeners /\ gateway' = gateway
    BY <1>18 DEF PartUpdated
  <2>4. ASSUME NEW d \in Converter, NEW i \in known'[d].ingress
        PROVE  Snap(d, i)' = content'[i]
    BY <1>0, <2>2, <2>3, <2>4 DEF KnownIsCurrent, Snap
  <2>5. ASSUME NEW d \in Converter, known'[d].gateway
        PROVE  At(d, "gatewayUpdate")' /\ gateway' /\ run'[d].merge = listeners'
    BY <1>0, <2>2, <2>3, <2>5 DEF KnownIsCurrent
  <2> QED
    BY <2>4, <2>5 DEF KnownIsCurrent
<1>19. ASSUME NEW c \in Converter, PartsApplied(c) PROVE KnownIsCurrent'
  BY <1>0, <1>19 DEF KnownIsCurrent, PartsApplied, cluster, Snap, At
<1>20. ASSUME NEW c \in Converter, NEW r \in Routes, PollHit(c, r) PROVE
  KnownIsCurrent'
  <2>1. PollGoesOn(c)
    BY <1>0, <1>20, PollHitRun
  <2> QED
    BY <1>0, <1>20, <2>1 DEF KnownIsCurrent, PollHit, PollGoesOn, OthersKept,
      cluster, Snap, At
<1>21. ASSUME NEW c \in Converter, PollMiss(c) PROVE KnownIsCurrent'
  BY <1>0, <1>21 DEF KnownIsCurrent, PollMiss, cluster, Snap, At
<1>22. ASSUME NEW c \in Converter, PollTimesOut(c) PROVE KnownIsCurrent'
  BY <1>0, <1>22 DEF KnownIsCurrent, PollTimesOut, cluster, Snap, At
<1>23. ASSUME NEW c \in Converter, AnnotateSucceeds(c) PROVE KnownIsCurrent'
  <2>1. IngressUnknown(run[c].current)
    BY <1>0, <1>23, IngressWrite DEF AnnotateSucceeds
  <2> QED
    BY <1>0, <1>23, <2>1 DEF KnownIsCurrent, AnnotateSucceeds, IngressDone,
      IngressUnknown, Snap, At
<1>24. ASSUME NEW c \in Converter, AnnotateFails(c) PROVE KnownIsCurrent'
  BY <1>0, <1>24 DEF KnownIsCurrent, AnnotateFails, IngressDone, cluster,
    Snap, At
<1>25. ASSUME NEW c \in Converter, Finish(c) PROVE KnownIsCurrent'
  BY <1>0, <1>25 DEF KnownIsCurrent, Finish, IdleRun, NothingKnown, cluster,
    Snap, At
<1>26. ASSUME NEW c \in Converter, CutOff(c) PROVE KnownIsCurrent'
  BY <1>0, <1>26 DEF KnownIsCurrent, CutOff, IdleRun, NothingKnown, cluster,
    Snap, At
<1>27. ASSUME NEW i \in Ingress, UserEdits(i) PROVE KnownIsCurrent'
  <2>1. IngressUnknown(i)
    BY <1>0, <1>27, IngressWrite DEF UserEdits
  <2> QED
    BY <1>0, <1>27, <2>1 DEF KnownIsCurrent, UserEdits, IngressUnknown,
      cluster, Snap, At
<1>28. ASSUME NEW x \in PartIds, PartDeleted(x) PROVE KnownIsCurrent'
  <2>1. PartKnown(x, {})
    BY <1>0, <1>28, PartWrite DEF PartDeleted
  <2> QED
    BY <1>0, <1>28, <2>1 DEF KnownIsCurrent, PartDeleted, PartKnown, cluster,
      Snap, At
<1>29. ASSUME NEW y \in RouteIds, ControllerJudges(y) PROVE KnownIsCurrent'
  <2>1. PartKnown(y, {})
    BY <1>0, <1>29, PartWrite DEF ControllerJudges
  <2> QED
    BY <1>0, <1>29, <2>1 DEF KnownIsCurrent, ControllerJudges, PartKnown,
      cluster, Snap, At
<1>30. ASSUME GatewayTouched PROVE KnownIsCurrent'
  <2>1. GatewayUnknown
    BY <1>0, <1>30, GatewayWrite DEF GatewayTouched
  <2> QED
    BY <1>0, <1>30, <2>1 DEF KnownIsCurrent, GatewayTouched, GatewayUnknown,
      cluster, Snap, At
<1>31. CASE UNCHANGED ivars
  BY <1>0, <1>31 DEF KnownIsCurrent, ivars, cluster, Snap, At
<1>32. ASSUME GatewayDeleted PROVE KnownIsCurrent'
  <2>1. GatewayUnknown
    BY <1>0, <1>32, GatewayWrite DEF GatewayDeleted
  <2> QED
    BY <1>0, <1>32, <2>1 DEF KnownIsCurrent, GatewayDeleted, GatewayUnknown,
      cluster, Snap, At
<1> QED BY <1>1, <1>2, <1>3, <1>4, <1>5, <1>6, <1>7, <1>8, <1>9, <1>10,
  <1>11, <1>12, <1>13, <1>14, <1>15, <1>16, <1>17, <1>18, <1>19, <1>20,
  <1>21, <1>22, <1>23, <1>24, <1>25, <1>26, <1>27, <1>28, <1>29, <1>30, <1>31,
  <1>32 DEF Next, RunStep, ReadStep, GatewayStep, PartStep, PollStep,
  EnvironmentStep

(* A run passes the Gateway only by a create or an Update that puts all its
   listeners there; after that they can only be lost with it. *)
LEMMA MergedStep == ConvertInv /\ [Next]_ivars => MergedFirst'
<1> SUFFICES ASSUME ConvertInv, [Next]_ivars
             PROVE  MergedFirst'
  OBVIOUS
<1>0. /\ TypeOK
      /\ run \in [Converter -> Runs]
      /\ MergedFirst
      /\ KnownIsCurrent
      /\ ~gateway => listeners = {}
  BY DEF ConvertInv, TypeOK
<1>1. ASSUME NEW c \in Converter, Start(c) PROVE MergedFirst'
  BY <1>0, <1>1 DEF MergedFirst, Provided, Start, cluster, Snap, At, Applying, Merged,
    KnownIsCurrent
<1>2. ASSUME NEW c \in Converter, NEW i \in Ingress, ReadFails(c, i) PROVE
  MergedFirst'
  BY <1>0, <1>2 DEF MergedFirst, Provided, ReadFails, cluster, Snap, At, Applying,
    Merged, KnownIsCurrent
<1>3. ASSUME NEW c \in Converter, NEW i \in Ingress, ReadSkips(c, i) PROVE
  MergedFirst'
  BY <1>0, <1>3 DEF MergedFirst, Provided, ReadSkips, cluster, Snap, At, Applying,
    Merged, KnownIsCurrent
<1>4. ASSUME NEW c \in Converter, NEW i \in Ingress, ReadConverts(c, i) PROVE
  MergedFirst'
  BY <1>0, <1>4 DEF MergedFirst, Provided, ReadConverts, cluster, Snap, At, Applying,
    Merged, KnownIsCurrent
<1>5. ASSUME NEW c \in Converter, ReadDone(c) PROVE MergedFirst'
  BY <1>0, <1>5 DEF MergedFirst, Provided, ReadDone, cluster, Snap, At, Applying,
    Merged, KnownIsCurrent
<1>6. ASSUME NEW c \in Converter, GatewayMissing(c) PROVE MergedFirst'
  BY <1>0, <1>6 DEF MergedFirst, Provided, GatewayMissing, cluster, Snap, At, Applying,
    Merged, KnownIsCurrent
<1>7. ASSUME NEW c \in Converter, GatewayRead(c) PROVE MergedFirst'
  BY <1>0, <1>7 DEF MergedFirst, Provided, GatewayRead, cluster, Snap, At, Applying,
    Merged, KnownIsCurrent
<1>8. ASSUME NEW c \in Converter, GatewayFails(c) PROVE MergedFirst'
  BY <1>0, <1>8 DEF MergedFirst, Provided, GatewayFails, cluster, Snap, At, Applying,
    Merged, KnownIsCurrent
<1>9. ASSUME NEW c \in Converter, GatewayCreated(c) PROVE MergedFirst'
  BY <1>0, <1>9, DesiredCovers, GatewayAnsweredRun
     DEF MergedFirst, Provided, GatewayCreated, GatewayDealtWith, OthersKept, Snap, At, Applying, Merged, KnownIsCurrent
<1>10. ASSUME NEW c \in Converter, GatewayUpdated(c) PROVE MergedFirst'
  BY <1>0, <1>10, DesiredCovers, GatewayAnsweredRun
     DEF MergedFirst, Provided, GatewayUpdated, GatewayDealtWith, OthersKept, Snap, At, Applying, Merged, KnownIsCurrent
<1>11. ASSUME NEW c \in Converter, CopySecrets(c) PROVE MergedFirst'
  BY <1>0, <1>11 DEF MergedFirst, Provided, CopySecrets, Snap, At, Applying, Merged,
    KnownIsCurrent
<1>12. ASSUME NEW c \in Converter, NEW i \in Ingress, NextIngress(c, i) PROVE
  MergedFirst'
  BY <1>0, <1>12 DEF MergedFirst, Provided, NextIngress, cluster, Snap, At, Applying,
    Merged, KnownIsCurrent
<1>13. ASSUME NEW c \in Converter, AllApplied(c) PROVE MergedFirst'
  BY <1>0, <1>13 DEF MergedFirst, Provided, AllApplied, cluster, Snap, At, Applying,
    Merged, KnownIsCurrent
<1>14. ASSUME NEW c \in Converter, NEW p \in Parts, PartMissing(c, p) PROVE
  MergedFirst'
  BY <1>0, <1>14 DEF MergedFirst, Provided, PartMissing, IsNextPart, cluster, Snap, At,
    Applying, Merged, KnownIsCurrent
<1>15. ASSUME NEW c \in Converter, NEW p \in Parts, PartRead(c, p) PROVE
  MergedFirst'
  BY SMTT(30), <1>0, <1>15 DEF MergedFirst, Provided, PartRead, IsNextPart, cluster, Snap, At,
    Applying, Merged, KnownIsCurrent
<1>16. ASSUME NEW c \in Converter, NEW p \in Parts, PartFails(c, p) PROVE
  MergedFirst'
  BY <1>0, <1>16 DEF MergedFirst, Provided, PartFails, PartDone, IsNextPart, cluster,
    Snap, At, Applying, Merged, KnownIsCurrent
<1>17. ASSUME NEW c \in Converter, PartCreated(c) PROVE MergedFirst'
  <2>1. PICK ok \in BOOLEAN :
           PartDealtWith(c, run[c].part, ok) /\ PartKnown(Id(c), IF ok THEN {c} ELSE {})
    BY <1>0, <1>17, ConvertInv, PartWritten DEF ConvertInv, RunsInOrder,
      PartCreated, TypeOK, Runs, At
  <2> QED
    BY <1>0, <1>17, <2>1 DEF MergedFirst, Provided, PartCreated, PartDealtWith,
      OthersKept, PartKnown, Snap, At, Applying, Merged, KnownIsCurrent
<1>18. ASSUME NEW c \in Converter, PartUpdated(c) PROVE MergedFirst'
  <2>1. PICK ok \in BOOLEAN :
           PartDealtWith(c, run[c].part, ok) /\ PartKnown(Id(c), IF ok THEN {c} ELSE {})
    BY <1>0, <1>18, ConvertInv, PartWritten DEF ConvertInv, RunsInOrder,
      PartUpdated, TypeOK, Runs, At
  <2> QED
    BY <1>0, <1>18, <2>1 DEF MergedFirst, Provided, PartUpdated, PartDealtWith,
      OthersKept, PartKnown, Snap, At, Applying, Merged, KnownIsCurrent
<1>19. ASSUME NEW c \in Converter, PartsApplied(c) PROVE MergedFirst'
  BY <1>0, <1>19 DEF MergedFirst, Provided, PartsApplied, cluster, Snap, At, Applying,
    Merged, KnownIsCurrent
<1>20. ASSUME NEW c \in Converter, NEW r \in Routes, PollHit(c, r) PROVE
  MergedFirst'
  <2>1. PollGoesOn(c)
    BY <1>0, <1>20, PollHitRun
  <2> QED
    BY <1>0, <1>20, <2>1 DEF MergedFirst, Provided, PollHit, PollGoesOn, OthersKept,
      cluster, Snap, At, Applying, Merged, KnownIsCurrent
<1>21. ASSUME NEW c \in Converter, PollMiss(c) PROVE MergedFirst'
  BY <1>0, <1>21 DEF MergedFirst, Provided, PollMiss, cluster, Snap, At, Applying,
    Merged, KnownIsCurrent
<1>22. ASSUME NEW c \in Converter, PollTimesOut(c) PROVE MergedFirst'
  BY <1>0, <1>22 DEF MergedFirst, Provided, PollTimesOut, cluster, Snap, At, Applying,
    Merged, KnownIsCurrent
<1>23. ASSUME NEW c \in Converter, AnnotateSucceeds(c) PROVE MergedFirst'
  BY <1>0, <1>23 DEF MergedFirst, Provided, AnnotateSucceeds, IngressDone, Snap, At,
    Applying, Merged, KnownIsCurrent
<1>24. ASSUME NEW c \in Converter, AnnotateFails(c) PROVE MergedFirst'
  BY <1>0, <1>24 DEF MergedFirst, Provided, AnnotateFails, IngressDone, cluster, Snap,
    At, Applying, Merged, KnownIsCurrent
<1>25. ASSUME NEW c \in Converter, Finish(c) PROVE MergedFirst'
  BY <1>0, <1>25 DEF MergedFirst, Provided, Finish, IdleRun, cluster, Snap, At,
    Applying, Merged, KnownIsCurrent
<1>26. ASSUME NEW c \in Converter, CutOff(c) PROVE MergedFirst'
  BY <1>0, <1>26 DEF MergedFirst, Provided, CutOff, IdleRun, cluster, Snap, At,
    Applying, Merged, KnownIsCurrent
<1>27. ASSUME NEW i \in Ingress, UserEdits(i) PROVE MergedFirst'
  BY <1>0, <1>27 DEF MergedFirst, Provided, UserEdits, cluster, Snap, At, Applying,
    Merged, KnownIsCurrent
<1>28. ASSUME NEW x \in PartIds, PartDeleted(x) PROVE MergedFirst'
  BY <1>0, <1>28 DEF MergedFirst, Provided, PartDeleted, cluster, Snap, At, Applying,
    Merged, KnownIsCurrent
<1>29. ASSUME NEW y \in RouteIds, ControllerJudges(y) PROVE MergedFirst'
  BY <1>0, <1>29 DEF MergedFirst, Provided, ControllerJudges, cluster, Snap, At,
    Applying, Merged, KnownIsCurrent
<1>30. ASSUME GatewayTouched PROVE MergedFirst'
  BY <1>0, <1>30 DEF MergedFirst, Provided, GatewayTouched, cluster, Snap, At,
    Applying, Merged, KnownIsCurrent
<1>31. CASE UNCHANGED ivars
  BY <1>0, <1>31 DEF MergedFirst, Provided, ivars, cluster, Snap, At, Applying, Merged,
    KnownIsCurrent
<1>32. ASSUME GatewayDeleted PROVE MergedFirst'
  BY <1>0, <1>32 DEF MergedFirst, Provided, GatewayDeleted, cluster, Snap, At,
    Applying, Merged, KnownIsCurrent
<1> QED BY <1>1, <1>2, <1>3, <1>4, <1>5, <1>6, <1>7, <1>8, <1>9, <1>10,
  <1>11, <1>12, <1>13, <1>14, <1>15, <1>16, <1>17, <1>18, <1>19, <1>20,
  <1>21, <1>22, <1>23, <1>24, <1>25, <1>26, <1>27, <1>28, <1>29, <1>30, <1>31,
  <1>32 DEF Next, RunStep, ReadStep, GatewayStep, PartStep, PollStep,
  EnvironmentStep

(* A part is written, and a secret copied, by a run past the Gateway only. *)
LEMMA ListenersStep == ConvertInv /\ [Next]_ivars => PartsHaveListeners'
<1> SUFFICES ASSUME ConvertInv, [Next]_ivars
             PROVE  PartsHaveListeners'
  OBVIOUS
<1>0. /\ TypeOK
      /\ run \in [Converter -> Runs]
      /\ object \in [PartIds -> Contents]
      /\ MergedFirst
      /\ OnlyWhatWasRead
      /\ KnownIsCurrent
      /\ ~gateway => listeners = {}
      /\ PartsHaveListeners
  BY DEF ConvertInv, TypeOK
<1>1. ASSUME NEW c \in Converter, Start(c) PROVE PartsHaveListeners'
  BY <1>0, <1>1 DEF PartsHaveListeners, Provided, Start, cluster, Snap, At,
    KnownIsCurrent, MergedFirst, OnlyWhatWasRead, Merged, Applying
<1>2. ASSUME NEW c \in Converter, NEW i \in Ingress, ReadFails(c, i) PROVE
  PartsHaveListeners'
  BY <1>0, <1>2 DEF PartsHaveListeners, Provided, ReadFails, cluster, Snap, At,
    KnownIsCurrent, MergedFirst, OnlyWhatWasRead, Merged, Applying
<1>3. ASSUME NEW c \in Converter, NEW i \in Ingress, ReadSkips(c, i) PROVE
  PartsHaveListeners'
  BY <1>0, <1>3 DEF PartsHaveListeners, Provided, ReadSkips, cluster, Snap, At,
    KnownIsCurrent, MergedFirst, OnlyWhatWasRead, Merged, Applying
<1>4. ASSUME NEW c \in Converter, NEW i \in Ingress, ReadConverts(c, i) PROVE
  PartsHaveListeners'
  BY <1>0, <1>4 DEF PartsHaveListeners, Provided, ReadConverts, cluster, Snap, At,
    KnownIsCurrent, MergedFirst, OnlyWhatWasRead, Merged, Applying
<1>5. ASSUME NEW c \in Converter, ReadDone(c) PROVE PartsHaveListeners'
  BY <1>0, <1>5 DEF PartsHaveListeners, Provided, ReadDone, cluster, Snap, At,
    KnownIsCurrent, MergedFirst, OnlyWhatWasRead, Merged, Applying
<1>6. ASSUME NEW c \in Converter, GatewayMissing(c) PROVE PartsHaveListeners'
  BY <1>0, <1>6 DEF PartsHaveListeners, Provided, GatewayMissing, cluster, Snap, At,
    KnownIsCurrent, MergedFirst, OnlyWhatWasRead, Merged, Applying
<1>7. ASSUME NEW c \in Converter, GatewayRead(c) PROVE PartsHaveListeners'
  BY <1>0, <1>7 DEF PartsHaveListeners, Provided, GatewayRead, cluster, Snap, At,
    KnownIsCurrent, MergedFirst, OnlyWhatWasRead, Merged, Applying
<1>8. ASSUME NEW c \in Converter, GatewayFails(c) PROVE PartsHaveListeners'
  BY <1>0, <1>8 DEF PartsHaveListeners, Provided, GatewayFails, cluster, Snap, At,
    KnownIsCurrent, MergedFirst, OnlyWhatWasRead, Merged, Applying
<1>9. ASSUME NEW c \in Converter, GatewayCreated(c) PROVE PartsHaveListeners'
  BY <1>0, <1>9, GatewayAnsweredRun DEF PartsHaveListeners, Provided, GatewayCreated, Snap, At,
    KnownIsCurrent, MergedFirst, OnlyWhatWasRead, Merged, Applying
<1>10. ASSUME NEW c \in Converter, GatewayUpdated(c) PROVE
  PartsHaveListeners'
  BY <1>0, <1>10, GatewayAnsweredRun DEF PartsHaveListeners, Provided, GatewayUpdated, Snap, At,
    KnownIsCurrent, MergedFirst, OnlyWhatWasRead, Merged, Applying
<1>11. ASSUME NEW c \in Converter, CopySecrets(c) PROVE PartsHaveListeners'
  <2>1. Desired(c) \subseteq Provided
    BY <1>0, <1>11, DesiredCovers DEF CopySecrets, MergedFirst, Merged, At
  <2> QED
    BY <1>0, <1>11, <2>1 DEF PartsHaveListeners, Provided, CopySecrets
<1>12. ASSUME NEW c \in Converter, NEW i \in Ingress, NextIngress(c, i) PROVE
  PartsHaveListeners'
  BY <1>0, <1>12 DEF PartsHaveListeners, Provided, NextIngress, cluster, Snap, At,
    KnownIsCurrent, MergedFirst, OnlyWhatWasRead, Merged, Applying
<1>13. ASSUME NEW c \in Converter, AllApplied(c) PROVE PartsHaveListeners'
  BY <1>0, <1>13 DEF PartsHaveListeners, Provided, AllApplied, cluster, Snap, At,
    KnownIsCurrent, MergedFirst, OnlyWhatWasRead, Merged, Applying
<1>14. ASSUME NEW c \in Converter, NEW p \in Parts, PartMissing(c, p) PROVE
  PartsHaveListeners'
  BY <1>0, <1>14 DEF PartsHaveListeners, Provided, PartMissing, IsNextPart, cluster,
    Snap, At, KnownIsCurrent, MergedFirst, OnlyWhatWasRead, Merged, Applying
<1>15. ASSUME NEW c \in Converter, NEW p \in Parts, PartRead(c, p) PROVE
  PartsHaveListeners'
  BY <1>0, <1>15 DEF PartsHaveListeners, Provided, PartRead, IsNextPart, cluster, Snap,
    At, KnownIsCurrent, MergedFirst, OnlyWhatWasRead, Merged, Applying
<1>16. ASSUME NEW c \in Converter, NEW p \in Parts, PartFails(c, p) PROVE
  PartsHaveListeners'
  BY <1>0, <1>16 DEF PartsHaveListeners, Provided, PartFails, PartDone, IsNextPart,
    cluster, Snap, At, KnownIsCurrent, MergedFirst, OnlyWhatWasRead, Merged,
    Applying
<1>17. ASSUME NEW c \in Converter, PartCreated(c) PROVE PartsHaveListeners'
  <2>1. PICK ok \in BOOLEAN :
           PartDealtWith(c, run[c].part, ok) /\ PartKnown(Id(c), IF ok THEN {c} ELSE {})
    BY <1>0, <1>17, ConvertInv, PartWritten DEF ConvertInv, RunsInOrder,
      PartCreated, TypeOK, Runs, At
  <2> QED
    BY <1>0, <1>17, <2>1 DEF PartsHaveListeners, Provided, PartCreated, PartDealtWith,
      OthersKept, PartKnown, Snap, At, KnownIsCurrent, MergedFirst,
      OnlyWhatWasRead, Merged, Applying
<1>18. ASSUME NEW c \in Converter, PartUpdated(c) PROVE PartsHaveListeners'
  <2>1. PICK ok \in BOOLEAN :
           PartDealtWith(c, run[c].part, ok) /\ PartKnown(Id(c), IF ok THEN {c} ELSE {})
    BY <1>0, <1>18, ConvertInv, PartWritten DEF ConvertInv, RunsInOrder,
      PartUpdated, TypeOK, Runs, At
  <2> QED
    BY <1>0, <1>18, <2>1 DEF PartsHaveListeners, Provided, PartUpdated, PartDealtWith,
      OthersKept, PartKnown, Snap, At, KnownIsCurrent, MergedFirst,
      OnlyWhatWasRead, Merged, Applying
<1>19. ASSUME NEW c \in Converter, PartsApplied(c) PROVE PartsHaveListeners'
  BY <1>0, <1>19 DEF PartsHaveListeners, Provided, PartsApplied, cluster, Snap, At,
    KnownIsCurrent, MergedFirst, OnlyWhatWasRead, Merged, Applying
<1>20. ASSUME NEW c \in Converter, NEW r \in Routes, PollHit(c, r) PROVE
  PartsHaveListeners'
  <2>1. PollGoesOn(c)
    BY <1>0, <1>20, PollHitRun
  <2> QED
    BY <1>0, <1>20, <2>1 DEF PartsHaveListeners, Provided, PollHit, PollGoesOn,
      OthersKept, cluster, Snap, At, KnownIsCurrent, MergedFirst,
      OnlyWhatWasRead, Merged, Applying
<1>21. ASSUME NEW c \in Converter, PollMiss(c) PROVE PartsHaveListeners'
  BY <1>0, <1>21 DEF PartsHaveListeners, Provided, PollMiss, cluster, Snap, At,
    KnownIsCurrent, MergedFirst, OnlyWhatWasRead, Merged, Applying
<1>22. ASSUME NEW c \in Converter, PollTimesOut(c) PROVE PartsHaveListeners'
  BY <1>0, <1>22 DEF PartsHaveListeners, Provided, PollTimesOut, cluster, Snap, At,
    KnownIsCurrent, MergedFirst, OnlyWhatWasRead, Merged, Applying
<1>23. ASSUME NEW c \in Converter, AnnotateSucceeds(c) PROVE
  PartsHaveListeners'
  BY <1>0, <1>23 DEF PartsHaveListeners, Provided, AnnotateSucceeds, IngressDone, Snap,
    At, KnownIsCurrent, MergedFirst, OnlyWhatWasRead, Merged, Applying
<1>24. ASSUME NEW c \in Converter, AnnotateFails(c) PROVE PartsHaveListeners'
  BY <1>0, <1>24 DEF PartsHaveListeners, Provided, AnnotateFails, IngressDone, cluster,
    Snap, At, KnownIsCurrent, MergedFirst, OnlyWhatWasRead, Merged, Applying
<1>25. ASSUME NEW c \in Converter, Finish(c) PROVE PartsHaveListeners'
  BY <1>0, <1>25 DEF PartsHaveListeners, Provided, Finish, IdleRun, cluster, Snap, At,
    KnownIsCurrent, MergedFirst, OnlyWhatWasRead, Merged, Applying
<1>26. ASSUME NEW c \in Converter, CutOff(c) PROVE PartsHaveListeners'
  BY <1>0, <1>26 DEF PartsHaveListeners, Provided, CutOff, IdleRun, cluster, Snap, At,
    KnownIsCurrent, MergedFirst, OnlyWhatWasRead, Merged, Applying
<1>27. ASSUME NEW i \in Ingress, UserEdits(i) PROVE PartsHaveListeners'
  BY <1>0, <1>27 DEF PartsHaveListeners, Provided, UserEdits, cluster, Snap, At,
    KnownIsCurrent, MergedFirst, OnlyWhatWasRead, Merged, Applying
<1>28. ASSUME NEW x \in PartIds, PartDeleted(x) PROVE PartsHaveListeners'
  BY <1>0, <1>28 DEF PartsHaveListeners, Provided, PartDeleted, cluster, Snap, At,
    KnownIsCurrent, MergedFirst, OnlyWhatWasRead, Merged, Applying
<1>29. ASSUME NEW y \in RouteIds, ControllerJudges(y) PROVE
  PartsHaveListeners'
  BY <1>0, <1>29 DEF PartsHaveListeners, Provided, ControllerJudges, cluster, Snap, At,
    KnownIsCurrent, MergedFirst, OnlyWhatWasRead, Merged, Applying
<1>30. ASSUME GatewayTouched PROVE PartsHaveListeners'
  BY <1>0, <1>30 DEF PartsHaveListeners, Provided, GatewayTouched, cluster, Snap, At,
    KnownIsCurrent, MergedFirst, OnlyWhatWasRead, Merged, Applying
<1>31. CASE UNCHANGED ivars
  BY <1>0, <1>31 DEF PartsHaveListeners, Provided, ivars, cluster, Snap, At,
    KnownIsCurrent, MergedFirst, OnlyWhatWasRead, Merged, Applying
<1>32. ASSUME GatewayDeleted PROVE PartsHaveListeners'
  BY <1>0, <1>32 DEF PartsHaveListeners, Provided, GatewayDeleted, cluster, Snap, At,
    KnownIsCurrent, MergedFirst, OnlyWhatWasRead, Merged, Applying
<1> QED BY <1>1, <1>2, <1>3, <1>4, <1>5, <1>6, <1>7, <1>8, <1>9, <1>10,
  <1>11, <1>12, <1>13, <1>14, <1>15, <1>16, <1>17, <1>18, <1>19, <1>20,
  <1>21, <1>22, <1>23, <1>24, <1>25, <1>26, <1>27, <1>28, <1>29, <1>30, <1>31,
  <1>32 DEF Next, RunStep, ReadStep, GatewayStep, PartStep, PollStep,
  EnvironmentStep

(* What is queued, at hand or converted was read by that run. *)
LEMMA ReadFirstStep == ConvertInv /\ [Next]_ivars => OnlyWhatWasRead'
<1> SUFFICES ASSUME ConvertInv, [Next]_ivars
             PROVE  OnlyWhatWasRead'
  OBVIOUS
<1>0. /\ TypeOK
      /\ run \in [Converter -> Runs]
      /\ OnlyWhatWasRead
  BY DEF ConvertInv, TypeOK
<1>1. ASSUME NEW c \in Converter, Start(c) PROVE OnlyWhatWasRead'
  BY <1>0, <1>1 DEF OnlyWhatWasRead, Start, cluster, Snap, At, Applying
<1>2. ASSUME NEW c \in Converter, NEW i \in Ingress, ReadFails(c, i) PROVE
  OnlyWhatWasRead'
  BY <1>0, <1>2 DEF OnlyWhatWasRead, ReadFails, cluster, Snap, At, Applying
<1>3. ASSUME NEW c \in Converter, NEW i \in Ingress, ReadSkips(c, i) PROVE
  OnlyWhatWasRead'
  BY <1>0, <1>3 DEF OnlyWhatWasRead, ReadSkips, cluster, Snap, At, Applying
<1>4. ASSUME NEW c \in Converter, NEW i \in Ingress, ReadConverts(c, i) PROVE
  OnlyWhatWasRead'
  BY SMTT(30), <1>0, <1>4, ConversionAssumption DEF OnlyWhatWasRead, ReadConverts,
    Runs, cluster, Snap, At, Applying
<1>5. ASSUME NEW c \in Converter, ReadDone(c) PROVE OnlyWhatWasRead'
  BY <1>0, <1>5 DEF OnlyWhatWasRead, ReadDone, Conversions, cluster, Snap,
    At, Applying
<1>6. ASSUME NEW c \in Converter, GatewayMissing(c) PROVE OnlyWhatWasRead'
  BY <1>0, <1>6 DEF OnlyWhatWasRead, GatewayMissing, cluster, Snap, At,
    Applying
<1>7. ASSUME NEW c \in Converter, GatewayRead(c) PROVE OnlyWhatWasRead'
  BY <1>0, <1>7 DEF OnlyWhatWasRead, GatewayRead, cluster, Snap, At, Applying
<1>8. ASSUME NEW c \in Converter, GatewayFails(c) PROVE OnlyWhatWasRead'
  BY <1>0, <1>8 DEF OnlyWhatWasRead, GatewayFails, cluster, Snap, At,
    Applying
<1>9. ASSUME NEW c \in Converter, GatewayCreated(c) PROVE OnlyWhatWasRead'
  BY <1>0, <1>9, GatewayAnsweredRun
     DEF OnlyWhatWasRead, GatewayCreated, GatewayDealtWith, OthersKept, Snap, At, Applying
<1>10. ASSUME NEW c \in Converter, GatewayUpdated(c) PROVE OnlyWhatWasRead'
  BY <1>0, <1>10, GatewayAnsweredRun
     DEF OnlyWhatWasRead, GatewayUpdated, GatewayDealtWith, OthersKept, Snap, At, Applying
<1>11. ASSUME NEW c \in Converter, CopySecrets(c) PROVE OnlyWhatWasRead'
  BY <1>0, <1>11 DEF OnlyWhatWasRead, CopySecrets, Snap, At, Applying
<1>12. ASSUME NEW c \in Converter, NEW i \in Ingress, NextIngress(c, i) PROVE
  OnlyWhatWasRead'
  BY <1>0, <1>12 DEF OnlyWhatWasRead, NextIngress, cluster, Snap, At,
    Applying
<1>13. ASSUME NEW c \in Converter, AllApplied(c) PROVE OnlyWhatWasRead'
  BY <1>0, <1>13 DEF OnlyWhatWasRead, AllApplied, cluster, Snap, At, Applying
<1>14. ASSUME NEW c \in Converter, NEW p \in Parts, PartMissing(c, p) PROVE
  OnlyWhatWasRead'
  BY <1>0, <1>14 DEF OnlyWhatWasRead, PartMissing, IsNextPart, cluster, Snap,
    At, Applying
<1>15. ASSUME NEW c \in Converter, NEW p \in Parts, PartRead(c, p) PROVE
  OnlyWhatWasRead'
  BY SMTT(30), <1>0, <1>15 DEF OnlyWhatWasRead, PartRead, IsNextPart, cluster, Snap,
    At, Applying
<1>16. ASSUME NEW c \in Converter, NEW p \in Parts, PartFails(c, p) PROVE
  OnlyWhatWasRead'
  BY <1>0, <1>16 DEF OnlyWhatWasRead, PartFails, PartDone, IsNextPart,
    cluster, Snap, At, Applying
<1>17. ASSUME NEW c \in Converter, PartCreated(c) PROVE OnlyWhatWasRead'
  <2>1. PICK ok \in BOOLEAN :
           PartDealtWith(c, run[c].part, ok) /\ PartKnown(Id(c), IF ok THEN {c} ELSE {})
    BY <1>0, <1>17, ConvertInv, PartWritten DEF ConvertInv, RunsInOrder,
      PartCreated, TypeOK, Runs, At
  <2> QED
    BY <1>0, <1>17, <2>1 DEF OnlyWhatWasRead, PartCreated, PartDealtWith,
      OthersKept, PartKnown, Snap, At, Applying
<1>18. ASSUME NEW c \in Converter, PartUpdated(c) PROVE OnlyWhatWasRead'
  <2>1. PICK ok \in BOOLEAN :
           PartDealtWith(c, run[c].part, ok) /\ PartKnown(Id(c), IF ok THEN {c} ELSE {})
    BY <1>0, <1>18, ConvertInv, PartWritten DEF ConvertInv, RunsInOrder,
      PartUpdated, TypeOK, Runs, At
  <2> QED
    BY <1>0, <1>18, <2>1 DEF OnlyWhatWasRead, PartUpdated, PartDealtWith,
      OthersKept, PartKnown, Snap, At, Applying
<1>19. ASSUME NEW c \in Converter, PartsApplied(c) PROVE OnlyWhatWasRead'
  BY <1>0, <1>19 DEF OnlyWhatWasRead, PartsApplied, cluster, Snap, At,
    Applying
<1>20. ASSUME NEW c \in Converter, NEW r \in Routes, PollHit(c, r) PROVE
  OnlyWhatWasRead'
  <2>1. PollGoesOn(c)
    BY <1>0, <1>20, PollHitRun
  <2> QED
    BY <1>0, <1>20, <2>1 DEF OnlyWhatWasRead, PollHit, PollGoesOn,
      OthersKept, cluster, Snap, At, Applying
<1>21. ASSUME NEW c \in Converter, PollMiss(c) PROVE OnlyWhatWasRead'
  BY <1>0, <1>21 DEF OnlyWhatWasRead, PollMiss, cluster, Snap, At, Applying
<1>22. ASSUME NEW c \in Converter, PollTimesOut(c) PROVE OnlyWhatWasRead'
  BY <1>0, <1>22 DEF OnlyWhatWasRead, PollTimesOut, cluster, Snap, At,
    Applying
<1>23. ASSUME NEW c \in Converter, AnnotateSucceeds(c) PROVE OnlyWhatWasRead'
  BY <1>0, <1>23 DEF OnlyWhatWasRead, AnnotateSucceeds, IngressDone, Snap,
    At, Applying
<1>24. ASSUME NEW c \in Converter, AnnotateFails(c) PROVE OnlyWhatWasRead'
  BY <1>0, <1>24 DEF OnlyWhatWasRead, AnnotateFails, IngressDone, cluster,
    Snap, At, Applying
<1>25. ASSUME NEW c \in Converter, Finish(c) PROVE OnlyWhatWasRead'
  BY <1>0, <1>25 DEF OnlyWhatWasRead, Finish, IdleRun, cluster, Snap, At,
    Applying
<1>26. ASSUME NEW c \in Converter, CutOff(c) PROVE OnlyWhatWasRead'
  BY <1>0, <1>26 DEF OnlyWhatWasRead, CutOff, IdleRun, cluster, Snap, At,
    Applying
<1>27. ASSUME EnvironmentStep \/ UNCHANGED ivars PROVE OnlyWhatWasRead'
  <2>1. run' = run
    BY <1>27, RunsLeftAlone
  <2> QED
    BY <1>0, <2>1 DEF OnlyWhatWasRead, Snap, At, Applying
<1> QED
  BY <1>1, <1>2, <1>3, <1>4, <1>5, <1>6, <1>7, <1>8, <1>9, <1>10, <1>11,
     <1>12, <1>13, <1>14, <1>15, <1>16, <1>17, <1>18, <1>19, <1>20, <1>21, <1>22,
     <1>23, <1>24, <1>25, <1>26, <1>27
  DEF Next, RunStep, ReadStep, GatewayStep, PartStep, PollStep

(* What a run works on was not excluded when it was read, and it applies no part
   but those that are needed. *)
LEMMA NeededStep == ConvertInv /\ [Next]_ivars => OnlyWhatIsNeeded'
<1> SUFFICES ASSUME ConvertInv, [Next]_ivars
             PROVE  OnlyWhatIsNeeded'
  OBVIOUS
<1>0. /\ TypeOK
      /\ run \in [Converter -> Runs]
      /\ OnlyWhatIsNeeded
  BY DEF ConvertInv, TypeOK
<1> USE <1>0 DEF OnlyWhatIsNeeded, Snap, At, Applying
<1>1. ASSUME NEW c \in Converter, NEW i \in Ingress, ReadFails(c, i) \/ ReadSkips(c, i)
      PROVE  OnlyWhatIsNeeded'
  BY <1>1 DEF ReadFails, ReadSkips, Runs
<1>2. ASSUME NEW c \in Converter, NEW i \in Ingress, ReadConverts(c, i)
      PROVE  OnlyWhatIsNeeded'
  BY <1>2 DEF ReadConverts, Runs
<1>3. ASSUME NEW c \in Converter, Start(c) \/ ReadDone(c)
      PROVE  OnlyWhatIsNeeded'
  <2>1. CASE Start(c)
    BY <2>1 DEF Start, Runs
  <2>2. CASE ReadDone(c)
    BY <2>2 DEF ReadDone, Runs
  <2> QED
    BY <1>3, <2>1, <2>2
<1>4. ASSUME NEW c \in Converter, GatewayMissing(c) \/ GatewayRead(c) \/ GatewayFails(c)
      PROVE  OnlyWhatIsNeeded'
  <2>1. CASE GatewayMissing(c)
    BY <2>1 DEF GatewayMissing, Runs
  <2>2. CASE GatewayRead(c)
    BY <2>2 DEF GatewayRead, Runs
  <2>3. CASE GatewayFails(c)
    BY <2>3 DEF GatewayFails, Runs
  <2> QED
    BY <1>4, <2>1, <2>2, <2>3
<1>5. ASSUME NEW c \in Converter, GatewayCreated(c) \/ GatewayUpdated(c) \/ CopySecrets(c)
      PROVE  OnlyWhatIsNeeded'
  <2>1. CASE GatewayCreated(c)
    BY <2>1, GatewayAnsweredRun DEF GatewayCreated, GatewayDealtWith, OthersKept, Runs
  <2>2. CASE GatewayUpdated(c)
    BY <2>2, GatewayAnsweredRun DEF GatewayUpdated, GatewayDealtWith, OthersKept, Runs
  <2>3. CASE CopySecrets(c)
    BY <2>3 DEF CopySecrets, Runs
  <2> QED
    BY <1>5, <2>1, <2>2, <2>3
<1>6. ASSUME NEW c \in Converter, NEW i \in Ingress, NextIngress(c, i)
      PROVE  OnlyWhatIsNeeded'
  BY <1>6 DEF NextIngress
<1>7. ASSUME NEW c \in Converter, NEW p \in Parts, PartMissing(c, p) \/ PartRead(c, p)
      PROVE  OnlyWhatIsNeeded'
  <2>1. CASE PartMissing(c, p)
    BY <2>1 DEF PartMissing, IsNextPart, Runs
  <2>2. CASE PartRead(c, p)
    BY <2>2 DEF PartRead, IsNextPart, Runs
  <2> QED
    BY <1>7, <2>1, <2>2
<1>8. ASSUME NEW c \in Converter, NEW p \in Parts, PartFails(c, p)
      PROVE  OnlyWhatIsNeeded'
  <2>1. PartDealtWith(c, p, FALSE)
    BY <1>0, <1>8, PartDoneRun DEF PartFails
  <2>2. run[c].pc \in Applying
    BY <1>8 DEF PartFails, IsNextPart
  <2> QED
    BY <2>1, <2>2 DEF PartDealtWith, OthersKept
<1>9. ASSUME NEW c \in Converter, PartCreated(c) \/ PartUpdated(c)
      PROVE  OnlyWhatIsNeeded'
  <2>1. run[c].pc \in Applying /\ run[c].part \in Parts
    BY <1>9 DEF ConvertInv, RunsInOrder, PartCreated, PartUpdated, TypeOK, Runs
  <2>2. PICK ok \in BOOLEAN : PartDealtWith(c, run[c].part, ok)
    BY <1>9, <2>1, PartWritten
  <2> QED
    BY <2>1, <2>2 DEF PartDealtWith, OthersKept
<1>10. ASSUME NEW c \in Converter, PartsApplied(c)
       PROVE  OnlyWhatIsNeeded'
  BY <1>10 DEF PartsApplied
<1>11. ASSUME NEW c \in Converter, NEW r \in Routes, PollHit(c, r)
       PROVE  OnlyWhatIsNeeded'
  <2>1. PollGoesOn(c) /\ At(c, "poll")
    BY <1>11, PollHitRun DEF PollHit
  <2> QED
    BY <2>1 DEF PollGoesOn, OthersKept
<1>12. ASSUME NEW c \in Converter, PollMiss(c) \/ PollTimesOut(c)
       PROVE  OnlyWhatIsNeeded'
  <2>1. CASE PollMiss(c)
    BY <2>1 DEF PollMiss, Runs
  <2>2. CASE PollTimesOut(c)
    BY <2>2 DEF PollTimesOut, Runs
  <2> QED
    BY <1>12, <2>1, <2>2
<1>13. ASSUME NEW c \in Converter, AllApplied(c) \/ AnnotateSucceeds(c) \/ AnnotateFails(c)
       PROVE  OnlyWhatIsNeeded'
  BY <1>13 DEF AllApplied, AnnotateSucceeds, AnnotateFails, IngressDone, Runs
<1>14. ASSUME NEW c \in Converter, Finish(c) \/ CutOff(c)
       PROVE  OnlyWhatIsNeeded'
  BY <1>14, ConversionAssumption DEF Finish, CutOff, IdleRun
<1>15. ASSUME EnvironmentStep \/ UNCHANGED ivars
       PROVE  OnlyWhatIsNeeded'
  BY <1>15, RunsLeftAlone
<1> QED
  BY <1>1, <1>2, <1>3, <1>4, <1>5, <1>6, <1>7, <1>8, <1>9, <1>10, <1>11, <1>12,
     <1>13, <1>14, <1>15
  DEF Next, RunStep, ReadStep, GatewayStep, PartStep, PollStep

(* Parts and results belong to the loop, and the loop ends with no part left. *)
LEMMA OrderStep == ConvertInv /\ [Next]_ivars => RunsInOrder'
<1> SUFFICES ASSUME ConvertInv, [Next]_ivars
             PROVE  RunsInOrder'
  OBVIOUS
<1>0. /\ TypeOK
      /\ run \in [Converter -> Runs]
      /\ RunsInOrder
  BY DEF ConvertInv, TypeOK
<1>1. ASSUME NEW c \in Converter, Start(c) PROVE RunsInOrder'
  BY <1>0, <1>1 DEF RunsInOrder, Start, cluster, At, Applying
<1>2. ASSUME NEW c \in Converter, NEW i \in Ingress, ReadFails(c, i) PROVE
  RunsInOrder'
  BY <1>0, <1>2 DEF RunsInOrder, ReadFails, cluster, At, Applying
<1>3. ASSUME NEW c \in Converter, NEW i \in Ingress, ReadSkips(c, i) PROVE
  RunsInOrder'
  BY <1>0, <1>3 DEF RunsInOrder, ReadSkips, cluster, At, Applying
<1>4. ASSUME NEW c \in Converter, NEW i \in Ingress, ReadConverts(c, i) PROVE
  RunsInOrder'
  BY <1>0, <1>4 DEF RunsInOrder, ReadConverts, cluster, At, Applying
<1>5. ASSUME NEW c \in Converter, ReadDone(c) PROVE RunsInOrder'
  BY <1>0, <1>5 DEF RunsInOrder, ReadDone, cluster, At, Applying
<1>6. ASSUME NEW c \in Converter, GatewayMissing(c) PROVE RunsInOrder'
  BY <1>0, <1>6 DEF RunsInOrder, GatewayMissing, cluster, At, Applying
<1>7. ASSUME NEW c \in Converter, GatewayRead(c) PROVE RunsInOrder'
  BY <1>0, <1>7 DEF RunsInOrder, GatewayRead, cluster, At, Applying
<1>8. ASSUME NEW c \in Converter, GatewayFails(c) PROVE RunsInOrder'
  BY <1>0, <1>8 DEF RunsInOrder, GatewayFails, cluster, At, Applying
<1>9. ASSUME NEW c \in Converter, GatewayCreated(c) PROVE RunsInOrder'
  BY <1>0, <1>9, GatewayAnsweredRun
     DEF RunsInOrder, GatewayCreated, GatewayDealtWith, OthersKept, At, Applying
<1>10. ASSUME NEW c \in Converter, GatewayUpdated(c) PROVE RunsInOrder'
  BY <1>0, <1>10, GatewayAnsweredRun
     DEF RunsInOrder, GatewayUpdated, GatewayDealtWith, OthersKept, At, Applying
<1>11. ASSUME NEW c \in Converter, CopySecrets(c) PROVE RunsInOrder'
  BY <1>0, <1>11 DEF RunsInOrder, CopySecrets, At, Applying
<1>12. ASSUME NEW c \in Converter, NEW i \in Ingress, NextIngress(c, i) PROVE
  RunsInOrder'
  BY <1>0, <1>12 DEF RunsInOrder, NextIngress, cluster, At, Applying
<1>13. ASSUME NEW c \in Converter, AllApplied(c) PROVE RunsInOrder'
  BY <1>0, <1>13 DEF RunsInOrder, AllApplied, cluster, At, Applying
<1>14. ASSUME NEW c \in Converter, NEW p \in Parts, PartMissing(c, p) PROVE
  RunsInOrder'
  BY <1>0, <1>14 DEF RunsInOrder, PartMissing, IsNextPart, cluster, At,
    Applying
<1>15. ASSUME NEW c \in Converter, NEW p \in Parts, PartRead(c, p) PROVE
  RunsInOrder'
  BY <1>0, <1>15 DEF RunsInOrder, PartRead, IsNextPart, cluster, At, Applying
<1>16. ASSUME NEW c \in Converter, NEW p \in Parts, PartFails(c, p) PROVE
  RunsInOrder'
  BY <1>0, <1>16 DEF RunsInOrder, PartFails, PartDone, IsNextPart, cluster,
    At, Applying
<1>17. ASSUME NEW c \in Converter, PartCreated(c) PROVE RunsInOrder'
  <2>1. PICK ok \in BOOLEAN :
           PartDealtWith(c, run[c].part, ok) /\ PartKnown(Id(c), IF ok THEN {c} ELSE {})
    BY <1>0, <1>17, ConvertInv, PartWritten DEF ConvertInv, RunsInOrder,
      PartCreated, TypeOK, Runs, At
  <2> QED
    BY <1>0, <1>17, <2>1 DEF RunsInOrder, PartCreated, PartDealtWith,
      OthersKept, PartKnown, At, Applying
<1>18. ASSUME NEW c \in Converter, PartUpdated(c) PROVE RunsInOrder'
  <2>1. PICK ok \in BOOLEAN :
           PartDealtWith(c, run[c].part, ok) /\ PartKnown(Id(c), IF ok THEN {c} ELSE {})
    BY <1>0, <1>18, ConvertInv, PartWritten DEF ConvertInv, RunsInOrder,
      PartUpdated, TypeOK, Runs, At
  <2> QED
    BY <1>0, <1>18, <2>1 DEF RunsInOrder, PartUpdated, PartDealtWith,
      OthersKept, PartKnown, At, Applying
<1>19. ASSUME NEW c \in Converter, PartsApplied(c) PROVE RunsInOrder'
  BY <1>0, <1>19 DEF RunsInOrder, PartsApplied, cluster, At, Applying
<1>20. ASSUME NEW c \in Converter, NEW r \in Routes, PollHit(c, r) PROVE
  RunsInOrder'
  <2>1. PollGoesOn(c)
    BY <1>0, <1>20, PollHitRun
  <2> QED
    BY <1>0, <1>20, <2>1 DEF RunsInOrder, PollHit, PollGoesOn, OthersKept,
      cluster, At, Applying
<1>21. ASSUME NEW c \in Converter, PollMiss(c) PROVE RunsInOrder'
  BY <1>0, <1>21 DEF RunsInOrder, PollMiss, cluster, At, Applying
<1>22. ASSUME NEW c \in Converter, PollTimesOut(c) PROVE RunsInOrder'
  BY <1>0, <1>22 DEF RunsInOrder, PollTimesOut, cluster, At, Applying
<1>23. ASSUME NEW c \in Converter, AnnotateSucceeds(c) PROVE RunsInOrder'
  BY <1>0, <1>23 DEF RunsInOrder, AnnotateSucceeds, IngressDone, At, Applying
<1>24. ASSUME NEW c \in Converter, AnnotateFails(c) PROVE RunsInOrder'
  BY <1>0, <1>24 DEF RunsInOrder, AnnotateFails, IngressDone, cluster, At,
    Applying
<1>25. ASSUME NEW c \in Converter, Finish(c) PROVE RunsInOrder'
  BY <1>0, <1>25 DEF RunsInOrder, Finish, IdleRun, cluster, At, Applying
<1>26. ASSUME NEW c \in Converter, CutOff(c) PROVE RunsInOrder'
  BY <1>0, <1>26 DEF RunsInOrder, CutOff, IdleRun, cluster, At, Applying
<1>27. ASSUME EnvironmentStep \/ UNCHANGED ivars PROVE RunsInOrder'
  <2>1. run' = run
    BY <1>27, RunsLeftAlone
  <2> QED
    BY <1>0, <2>1 DEF RunsInOrder, At, Applying
<1> QED
  BY <1>1, <1>2, <1>3, <1>4, <1>5, <1>6, <1>7, <1>8, <1>9, <1>10, <1>11,
     <1>12, <1>13, <1>14, <1>15, <1>16, <1>17, <1>18, <1>19, <1>20, <1>21, <1>22,
     <1>23, <1>24, <1>25, <1>26, <1>27
  DEF Next, RunStep, ReadStep, GatewayStep, PartStep, PollStep

(* To deal with a part keeps the order of the parts, whether it was applied or not. *)
LEMMA DealingKeepsOrder ==
  ASSUME OnlyWhatWasRead, PartsInOrder, NEW c \in Converter, NEW p \in Parts,
         NEW ok \in BOOLEAN, PartDealtWith(c, p, ok), run[c].pc \in Applying
  PROVE  PartsInOrder'
<1>1. CASE ok = TRUE
  BY <1>1, ConversionAssumption DEF PartDealtWith, OthersKept, PartsInOrder, OnlyWhatWasRead,
     Applying, RoutesAt, Snap, At
<1>2. CASE ok = FALSE
  BY <1>2, ConversionAssumption DEF PartDealtWith, OthersKept, PartsInOrder, Applying,
     RoutesAt, Snap
<1> QED
  BY <1>1, <1>2

(* A route that a run has gone past was applied, or its Ingress has failed. *)
LEMMA PartsStep == ConvertInv /\ [Next]_ivars => PartsInOrder'
<1> SUFFICES ASSUME ConvertInv, [Next]_ivars
             PROVE  PartsInOrder'
  OBVIOUS
<1>0. /\ TypeOK
      /\ run \in [Converter -> Runs]
      /\ RunsInOrder
      /\ OnlyWhatWasRead
      /\ PartsInOrder
  BY DEF ConvertInv, TypeOK
<1>1. ASSUME NEW c \in Converter, Start(c) PROVE PartsInOrder'
  BY <1>0, <1>1 DEF PartsInOrder, Start, cluster, OnlyWhatWasRead, Snap, At,
    RunsInOrder, Applying, RoutesAt, Id
<1>2. ASSUME NEW c \in Converter, NEW i \in Ingress, ReadFails(c, i) PROVE
  PartsInOrder'
  BY <1>0, <1>2 DEF PartsInOrder, ReadFails, cluster, OnlyWhatWasRead, Snap,
    At, RunsInOrder, Applying, RoutesAt, Id
<1>3. ASSUME NEW c \in Converter, NEW i \in Ingress, ReadSkips(c, i) PROVE
  PartsInOrder'
  BY <1>0, <1>3 DEF PartsInOrder, ReadSkips, cluster, OnlyWhatWasRead, Snap,
    At, RunsInOrder, Applying, RoutesAt, Id
<1>4. ASSUME NEW c \in Converter, NEW i \in Ingress, ReadConverts(c, i) PROVE
  PartsInOrder'
  BY <1>0, <1>4 DEF PartsInOrder, ReadConverts, cluster, OnlyWhatWasRead,
    Snap, At, RunsInOrder, Applying, RoutesAt, Id
<1>5. ASSUME NEW c \in Converter, ReadDone(c) PROVE PartsInOrder'
  BY <1>0, <1>5 DEF PartsInOrder, ReadDone, cluster, OnlyWhatWasRead, Snap,
    At, RunsInOrder, Applying, RoutesAt, Id
<1>6. ASSUME NEW c \in Converter, GatewayMissing(c) PROVE PartsInOrder'
  BY <1>0, <1>6 DEF PartsInOrder, GatewayMissing, cluster, OnlyWhatWasRead,
    Snap, At, RunsInOrder, Applying, RoutesAt, Id
<1>7. ASSUME NEW c \in Converter, GatewayRead(c) PROVE PartsInOrder'
  BY <1>0, <1>7 DEF PartsInOrder, GatewayRead, cluster, OnlyWhatWasRead,
    Snap, At, RunsInOrder, Applying, RoutesAt, Id
<1>8. ASSUME NEW c \in Converter, GatewayFails(c) PROVE PartsInOrder'
  BY <1>0, <1>8 DEF PartsInOrder, GatewayFails, cluster, OnlyWhatWasRead,
    Snap, At, RunsInOrder, Applying, RoutesAt, Id
<1>9. ASSUME NEW c \in Converter, GatewayCreated(c) PROVE PartsInOrder'
  <2>1. GatewayUnknown
    BY <1>0, <1>9, GatewayWrite DEF GatewayCreated
  <2> QED
    BY <1>0, <1>9, <2>1, GatewayAnsweredRun
    DEF PartsInOrder, GatewayCreated, GatewayDealtWith, OthersKept, GatewayUnknown,
      OnlyWhatWasRead, Snap, At, RunsInOrder, Applying, RoutesAt, Id
<1>10. ASSUME NEW c \in Converter, GatewayUpdated(c) PROVE PartsInOrder'
  <2>1. GatewayUnknown
    BY <1>0, <1>10, GatewayWrite DEF GatewayUpdated
  <2> QED
    BY <1>0, <1>10, <2>1, GatewayAnsweredRun
    DEF PartsInOrder, GatewayUpdated, GatewayDealtWith, OthersKept, GatewayUnknown,
      OnlyWhatWasRead, Snap, At, RunsInOrder, Applying, RoutesAt, Id
<1>11. ASSUME NEW c \in Converter, CopySecrets(c) PROVE PartsInOrder'
  BY SMTT(30), <1>0, <1>11 DEF PartsInOrder, CopySecrets, OnlyWhatWasRead, Snap, At,
    RunsInOrder, Applying, RoutesAt, Id
<1>12. ASSUME NEW c \in Converter, NEW i \in Ingress, NextIngress(c, i) PROVE
  PartsInOrder'
  BY <1>0, <1>12 DEF PartsInOrder, NextIngress, cluster, OnlyWhatWasRead,
    Snap, At, RunsInOrder, Applying, RoutesAt, Id
<1>13. ASSUME NEW c \in Converter, AllApplied(c) PROVE PartsInOrder'
  BY <1>0, <1>13 DEF PartsInOrder, AllApplied, cluster, OnlyWhatWasRead,
    Snap, At, RunsInOrder, Applying, RoutesAt, Id
<1>14. ASSUME NEW c \in Converter, NEW p \in Parts, PartMissing(c, p) PROVE
  PartsInOrder'
  BY <1>0, <1>14 DEF PartsInOrder, PartMissing, IsNextPart, cluster,
    OnlyWhatWasRead, Snap, At, RunsInOrder, Applying, RoutesAt, Id
<1>15. ASSUME NEW c \in Converter, NEW p \in Parts, PartRead(c, p) PROVE
  PartsInOrder'
  BY <1>0, <1>15 DEF PartsInOrder, PartRead, IsNextPart, cluster,
    OnlyWhatWasRead, Snap, At, RunsInOrder, Applying, RoutesAt, Id
<1>16. ASSUME NEW c \in Converter, NEW p \in Parts, PartFails(c, p) PROVE
  PartsInOrder'
  <2>1. PartDealtWith(c, p, FALSE)
    BY <1>0, <1>16, PartDoneRun DEF PartFails
  <2>2. run[c].pc \in Applying
    BY <1>16 DEF PartFails, IsNextPart, At, Applying
  <2> QED
    BY <1>0, <2>1, <2>2, ConversionAssumption DEF PartDealtWith, OthersKept,
       PartsInOrder, Applying, RoutesAt, Snap
<1>17. ASSUME NEW c \in Converter, PartCreated(c) PROVE PartsInOrder'
  <2>1. PICK ok \in BOOLEAN :
           PartDealtWith(c, run[c].part, ok) /\ PartKnown(Id(c), IF ok THEN {c} ELSE {})
    BY <1>0, <1>17, ConvertInv, PartWritten DEF ConvertInv, RunsInOrder,
      PartCreated, TypeOK, Runs, At
  <2>2. run[c].pc \in Applying
    BY <1>17 DEF PartCreated, At, Applying
  <2>3. run[c].part \in Parts
    BY <1>0, <1>17, ConvertInv DEF ConvertInv, RunsInOrder, PartCreated, PartUpdated, TypeOK, Runs, At
  <2> QED
    BY <1>0, <2>1, <2>2, <2>3, DealingKeepsOrder
<1>18. ASSUME NEW c \in Converter, PartUpdated(c) PROVE PartsInOrder'
  <2>1. PICK ok \in BOOLEAN :
           PartDealtWith(c, run[c].part, ok) /\ PartKnown(Id(c), IF ok THEN {c} ELSE {})
    BY <1>0, <1>18, ConvertInv, PartWritten DEF ConvertInv, RunsInOrder,
      PartUpdated, TypeOK, Runs, At
  <2>2. run[c].pc \in Applying
    BY <1>18 DEF PartUpdated, At, Applying
  <2>3. run[c].part \in Parts
    BY <1>0, <1>18, ConvertInv DEF ConvertInv, RunsInOrder, PartCreated, PartUpdated, TypeOK, Runs, At
  <2> QED
    BY <1>0, <2>1, <2>2, <2>3, DealingKeepsOrder
<1>19. ASSUME NEW c \in Converter, PartsApplied(c) PROVE PartsInOrder'
  BY <1>0, <1>19 DEF PartsInOrder, PartsApplied, cluster, OnlyWhatWasRead,
    Snap, At, RunsInOrder, Applying, RoutesAt, Id
<1>20. ASSUME NEW c \in Converter, NEW r \in Routes, PollHit(c, r) PROVE
  PartsInOrder'
  <2>1. PollGoesOn(c) /\ At(c, "poll")
    BY <1>0, <1>20, PollHitRun DEF PollHit
  <2> QED
    BY <1>0, <2>1 DEF PollGoesOn, OthersKept, PartsInOrder, At, Applying, RoutesAt,
       Snap
<1>21. ASSUME NEW c \in Converter, PollMiss(c) PROVE PartsInOrder'
  BY <1>0, <1>21 DEF PartsInOrder, PollMiss, cluster, OnlyWhatWasRead, Snap,
    At, RunsInOrder, Applying, RoutesAt, Id
<1>22. ASSUME NEW c \in Converter, PollTimesOut(c) PROVE PartsInOrder'
  BY SMTT(30), <1>0, <1>22 DEF PartsInOrder, PollTimesOut, cluster, OnlyWhatWasRead,
    Snap, At, RunsInOrder, Applying, RoutesAt, Id
<1>23. ASSUME NEW c \in Converter, AnnotateSucceeds(c) PROVE PartsInOrder'
  <2>1. IngressUnknown(run[c].current)
    BY <1>0, <1>23, IngressWrite DEF AnnotateSucceeds
  <2> QED
    BY <1>0, <1>23, <2>1 DEF PartsInOrder, AnnotateSucceeds, IngressDone,
      IngressUnknown, OnlyWhatWasRead, Snap, At, RunsInOrder, Applying,
      RoutesAt, Id
<1>24. ASSUME NEW c \in Converter, AnnotateFails(c) PROVE PartsInOrder'
  BY <1>0, <1>24 DEF PartsInOrder, AnnotateFails, IngressDone, cluster,
    OnlyWhatWasRead, Snap, At, RunsInOrder, Applying, RoutesAt, Id
<1>25. ASSUME NEW c \in Converter, Finish(c) PROVE PartsInOrder'
  BY <1>0, <1>25 DEF PartsInOrder, Finish, IdleRun, cluster, OnlyWhatWasRead,
    Snap, At, RunsInOrder, Applying, RoutesAt, Id
<1>26. ASSUME NEW c \in Converter, CutOff(c) PROVE PartsInOrder'
  BY <1>0, <1>26 DEF PartsInOrder, CutOff, IdleRun, cluster, OnlyWhatWasRead,
    Snap, At, RunsInOrder, Applying, RoutesAt, Id
<1>27. ASSUME NEW i \in Ingress, UserEdits(i) PROVE PartsInOrder'
  <2>1. IngressUnknown(i)
    BY <1>0, <1>27, IngressWrite DEF UserEdits
  <2> QED
    BY <1>0, <1>27, <2>1 DEF PartsInOrder, UserEdits, IngressUnknown,
      cluster, OnlyWhatWasRead, Snap, At, RunsInOrder, Applying, RoutesAt, Id
<1>28. ASSUME NEW x \in PartIds, PartDeleted(x) PROVE PartsInOrder'
  <2>1. PartKnown(x, {})
    BY <1>0, <1>28, PartWrite DEF PartDeleted
  <2> QED
    BY <1>0, <1>28, <2>1 DEF PartsInOrder, PartDeleted, PartKnown, cluster,
      OnlyWhatWasRead, Snap, At, RunsInOrder, Applying, RoutesAt, Id
<1>29. ASSUME NEW y \in RouteIds, ControllerJudges(y) PROVE PartsInOrder'
  <2>1. PartKnown(y, {})
    BY <1>0, <1>29, PartWrite DEF ControllerJudges
  <2> QED
    BY <1>0, <1>29, <2>1 DEF PartsInOrder, ControllerJudges, PartKnown,
      cluster, OnlyWhatWasRead, Snap, At, RunsInOrder, Applying, RoutesAt, Id
<1>30. ASSUME GatewayTouched PROVE PartsInOrder'
  <2>1. GatewayUnknown
    BY <1>0, <1>30, GatewayWrite DEF GatewayTouched
  <2> QED
    BY <1>0, <1>30, <2>1 DEF PartsInOrder, GatewayTouched, GatewayUnknown,
      cluster, OnlyWhatWasRead, Snap, At, RunsInOrder, Applying, RoutesAt, Id
<1>31. CASE UNCHANGED ivars
  BY <1>0, <1>31 DEF PartsInOrder, ivars, cluster, OnlyWhatWasRead, Snap, At,
    RunsInOrder, Applying, RoutesAt, Id
<1>32. ASSUME GatewayDeleted PROVE PartsInOrder'
  <2>1. GatewayUnknown
    BY <1>0, <1>32, GatewayWrite DEF GatewayDeleted
  <2> QED
    BY <1>0, <1>32, <2>1 DEF PartsInOrder, GatewayDeleted, GatewayUnknown,
      cluster, OnlyWhatWasRead, Snap, At, RunsInOrder, Applying, RoutesAt, Id
<1> QED BY <1>1, <1>2, <1>3, <1>4, <1>5, <1>6, <1>7, <1>8, <1>9, <1>10,
  <1>11, <1>12, <1>13, <1>14, <1>15, <1>16, <1>17, <1>18, <1>19, <1>20,
  <1>21, <1>22, <1>23, <1>24, <1>25, <1>26, <1>27, <1>28, <1>29, <1>30, <1>31,
  <1>32 DEF Next, RunStep, ReadStep, GatewayStep, PartStep, PollStep,
  EnvironmentStep

(* An Ingress is reported after its last part; a part that was written since
   is no longer known. *)
LEMMA ReportStep == ConvertInv /\ [Next]_ivars => ReportIsTrue'
<1> SUFFICES ASSUME ConvertInv, [Next]_ivars
             PROVE  ReportIsTrue'
  OBVIOUS
<1>0. /\ TypeOK
      /\ run \in [Converter -> Runs]
      /\ known \in [Converter -> Versions]
      /\ object \in [PartIds -> Contents]
      /\ RunsInOrder
      /\ OnlyWhatWasRead
      /\ PartsInOrder
      /\ ReportIsTrue
  BY DEF ConvertInv, TypeOK
<1>1. ASSUME NEW c \in Converter, Start(c) PROVE ReportIsTrue'
  BY <1>0, <1>1 DEF ReportIsTrue, Start, cluster, Snap, At, OnlyWhatWasRead,
    RunsInOrder, PartsInOrder, Applying, RoutesAt, Id
<1>2. ASSUME NEW c \in Converter, NEW i \in Ingress, ReadFails(c, i) PROVE
  ReportIsTrue'
  BY <1>0, <1>2 DEF ReportIsTrue, ReadFails, cluster, Snap, At,
    OnlyWhatWasRead, RunsInOrder, PartsInOrder, Applying, RoutesAt, Id
<1>3. ASSUME NEW c \in Converter, NEW i \in Ingress, ReadSkips(c, i) PROVE
  ReportIsTrue'
  BY <1>0, <1>3 DEF ReportIsTrue, ReadSkips, cluster, Snap, At,
    OnlyWhatWasRead, RunsInOrder, PartsInOrder, Applying, RoutesAt, Id
<1>4. ASSUME NEW c \in Converter, NEW i \in Ingress, ReadConverts(c, i) PROVE
  ReportIsTrue'
  BY <1>0, <1>4 DEF ReportIsTrue, ReadConverts, cluster, Snap, At,
    OnlyWhatWasRead, RunsInOrder, PartsInOrder, Applying, RoutesAt, Id
<1>5. ASSUME NEW c \in Converter, ReadDone(c) PROVE ReportIsTrue'
  BY <1>0, <1>5 DEF ReportIsTrue, ReadDone, cluster, Snap, At,
    OnlyWhatWasRead, RunsInOrder, PartsInOrder, Applying, RoutesAt, Id
<1>6. ASSUME NEW c \in Converter, GatewayMissing(c) PROVE ReportIsTrue'
  BY <1>0, <1>6 DEF ReportIsTrue, GatewayMissing, cluster, Snap, At,
    OnlyWhatWasRead, RunsInOrder, PartsInOrder, Applying, RoutesAt, Id
<1>7. ASSUME NEW c \in Converter, GatewayRead(c) PROVE ReportIsTrue'
  BY <1>0, <1>7 DEF ReportIsTrue, GatewayRead, cluster, Snap, At,
    OnlyWhatWasRead, RunsInOrder, PartsInOrder, Applying, RoutesAt, Id
<1>8. ASSUME NEW c \in Converter, GatewayFails(c) PROVE ReportIsTrue'
  BY <1>0, <1>8 DEF ReportIsTrue, GatewayFails, cluster, Snap, At,
    OnlyWhatWasRead, RunsInOrder, PartsInOrder, Applying, RoutesAt, Id
<1>9. ASSUME NEW c \in Converter, GatewayCreated(c) PROVE ReportIsTrue'
  <2>1. GatewayUnknown
    BY <1>0, <1>9, GatewayWrite DEF GatewayCreated
  <2> QED
    BY <1>0, <1>9, <2>1, GatewayAnsweredRun
    DEF ReportIsTrue, GatewayCreated, GatewayDealtWith, OthersKept, GatewayUnknown,
      Snap, At, OnlyWhatWasRead, RunsInOrder, PartsInOrder, Applying,
      RoutesAt, Id
<1>10. ASSUME NEW c \in Converter, GatewayUpdated(c) PROVE ReportIsTrue'
  <2>1. GatewayUnknown
    BY <1>0, <1>10, GatewayWrite DEF GatewayUpdated
  <2> QED
    BY <1>0, <1>10, <2>1, GatewayAnsweredRun
    DEF ReportIsTrue, GatewayUpdated, GatewayDealtWith, OthersKept, GatewayUnknown,
      Snap, At, OnlyWhatWasRead, RunsInOrder, PartsInOrder, Applying,
      RoutesAt, Id
<1>11. ASSUME NEW c \in Converter, CopySecrets(c) PROVE ReportIsTrue'
  BY <1>0, <1>11 DEF ReportIsTrue, CopySecrets, Snap, At, OnlyWhatWasRead,
    RunsInOrder, PartsInOrder, Applying, RoutesAt, Id
<1>12. ASSUME NEW c \in Converter, NEW i \in Ingress, NextIngress(c, i) PROVE
  ReportIsTrue'
  BY <1>0, <1>12 DEF ReportIsTrue, NextIngress, cluster, Snap, At,
    OnlyWhatWasRead, RunsInOrder, PartsInOrder, Applying, RoutesAt, Id
<1>13. ASSUME NEW c \in Converter, AllApplied(c) PROVE ReportIsTrue'
  BY <1>0, <1>13 DEF ReportIsTrue, AllApplied, cluster, Snap, At,
    OnlyWhatWasRead, RunsInOrder, PartsInOrder, Applying, RoutesAt, Id
<1>14. ASSUME NEW c \in Converter, NEW p \in Parts, PartMissing(c, p) PROVE
  ReportIsTrue'
  BY <1>0, <1>14 DEF ReportIsTrue, PartMissing, IsNextPart, cluster, Snap,
    At, OnlyWhatWasRead, RunsInOrder, PartsInOrder, Applying, RoutesAt, Id
<1>15. ASSUME NEW c \in Converter, NEW p \in Parts, PartRead(c, p) PROVE
  ReportIsTrue'
  BY SMTT(30), <1>0, <1>15 DEF ReportIsTrue, PartRead, IsNextPart, cluster, Snap, At,
    OnlyWhatWasRead, RunsInOrder, PartsInOrder, Applying, RoutesAt, Id
<1>16. ASSUME NEW c \in Converter, NEW p \in Parts, PartFails(c, p) PROVE
  ReportIsTrue'
  BY <1>0, <1>16 DEF ReportIsTrue, PartFails, PartDone, IsNextPart, cluster,
    Snap, At, OnlyWhatWasRead, RunsInOrder, PartsInOrder, Applying, RoutesAt,
    Id
<1>17. ASSUME NEW c \in Converter, PartCreated(c) PROVE ReportIsTrue'
  <2>1. PICK ok \in BOOLEAN :
           PartDealtWith(c, run[c].part, ok) /\ PartKnown(Id(c), IF ok THEN {c} ELSE {})
    BY <1>0, <1>17, ConvertInv, PartWritten DEF ConvertInv, RunsInOrder, PartCreated, TypeOK, Runs, At
  <2>2. object' = [object EXCEPT ![Id(c)] = Snap(c, run[c].current)]
    BY <1>17 DEF PartCreated
  <2>3. run[c].part \in Parts /\ run[c].current \in Ingress
    BY <1>0, <1>17 DEF RunsInOrder, OnlyWhatWasRead, PartCreated, At, Applying, Runs
  <2>4. Id(c) \in PartIds /\ Id(c)[1] = run[c].current
    BY <2>3 DEF Id, PartIds
  <2>5. \A d \in Converter : run'[d].snap = run[d].snap /\ run'[d].converted = run[d].converted
                           /\ run[d].applied \subseteq run'[d].applied
                           /\ \A x \in run'[d].applied : x \in run[d].applied \/ x = Id(c)
    BY <1>0, <2>1 DEF PartDealtWith, OthersKept, Id
  <2>6. ASSUME NEW d \in Converter, NEW x \in run'[d].applied \cap known'[d].parts
        PROVE  object'[x] = Snap(d, x[1])'
    <3>1. CASE x = Id(c)
      BY <1>0, <2>1, <2>2, <2>4, <2>5, <3>1 DEF PartKnown, Snap
    <3>2. CASE x # Id(c)
      <4>1. x \in run[d].applied \cap known[d].parts
        BY <2>1, <2>5, <3>2 DEF PartKnown
      <4>2. x \in PartIds
        BY <1>0, <4>1 DEF Runs
      <4> QED
        BY <1>0, <2>2, <2>5, <3>2, <4>1, <4>2 DEF ReportIsTrue, Snap
    <3> QED
      BY <3>1, <3>2
  <2> QED
    BY <1>0, <2>5, <2>6 DEF ReportIsTrue, Snap
<1>18. ASSUME NEW c \in Converter, PartUpdated(c) PROVE ReportIsTrue'
  <2>1. PICK ok \in BOOLEAN :
           PartDealtWith(c, run[c].part, ok) /\ PartKnown(Id(c), IF ok THEN {c} ELSE {})
    BY <1>0, <1>18, ConvertInv, PartWritten DEF ConvertInv, RunsInOrder, PartUpdated, TypeOK, Runs, At
  <2>2. object' = [object EXCEPT ![Id(c)] = Snap(c, run[c].current)]
    BY <1>18 DEF PartUpdated
  <2>3. run[c].part \in Parts /\ run[c].current \in Ingress
    BY <1>0, <1>18 DEF RunsInOrder, OnlyWhatWasRead, PartUpdated, At, Applying, Runs
  <2>4. Id(c) \in PartIds /\ Id(c)[1] = run[c].current
    BY <2>3 DEF Id, PartIds
  <2>5. \A d \in Converter : run'[d].snap = run[d].snap /\ run'[d].converted = run[d].converted
                           /\ run[d].applied \subseteq run'[d].applied
                           /\ \A x \in run'[d].applied : x \in run[d].applied \/ x = Id(c)
    BY <1>0, <2>1 DEF PartDealtWith, OthersKept, Id
  <2>6. ASSUME NEW d \in Converter, NEW x \in run'[d].applied \cap known'[d].parts
        PROVE  object'[x] = Snap(d, x[1])'
    <3>1. CASE x = Id(c)
      BY <1>0, <2>1, <2>2, <2>4, <2>5, <3>1 DEF PartKnown, Snap
    <3>2. CASE x # Id(c)
      <4>1. x \in run[d].applied \cap known[d].parts
        BY <2>1, <2>5, <3>2 DEF PartKnown
      <4>2. x \in PartIds
        BY <1>0, <4>1 DEF Runs
      <4> QED
        BY <1>0, <2>2, <2>5, <3>2, <4>1, <4>2 DEF ReportIsTrue, Snap
    <3> QED
      BY <3>1, <3>2
  <2> QED
    BY <1>0, <2>5, <2>6 DEF ReportIsTrue, Snap
<1>19. ASSUME NEW c \in Converter, PartsApplied(c) PROVE ReportIsTrue'
  BY <1>0, <1>19 DEF ReportIsTrue, PartsApplied, cluster, Snap, At,
    OnlyWhatWasRead, RunsInOrder, PartsInOrder, Applying, RoutesAt, Id
<1>20. ASSUME NEW c \in Converter, NEW r \in Routes, PollHit(c, r) PROVE
  ReportIsTrue'
  <2>1. PollGoesOn(c) /\ known' = known /\ object' = object
    BY <1>0, <1>20, PollHitRun DEF PollHit, cluster
  <2> QED
    BY <1>0, <2>1 DEF PollGoesOn, OthersKept, ReportIsTrue, Snap
<1>21. ASSUME NEW c \in Converter, PollMiss(c) PROVE ReportIsTrue'
  BY <1>0, <1>21 DEF ReportIsTrue, PollMiss, cluster, Snap, At,
    OnlyWhatWasRead, RunsInOrder, PartsInOrder, Applying, RoutesAt, Id
<1>22. ASSUME NEW c \in Converter, PollTimesOut(c) PROVE ReportIsTrue'
  BY <1>0, <1>22 DEF ReportIsTrue, PollTimesOut, cluster, Snap, At,
    OnlyWhatWasRead, RunsInOrder, PartsInOrder, Applying, RoutesAt, Id
<1>23. ASSUME NEW c \in Converter, AnnotateSucceeds(c) PROVE ReportIsTrue'
  <2>1. IngressUnknown(run[c].current)
    BY <1>0, <1>23, IngressWrite DEF AnnotateSucceeds
  <2> QED
    BY <1>0, <1>23, <2>1 DEF ReportIsTrue, AnnotateSucceeds, IngressDone,
      IngressUnknown, Snap, At, OnlyWhatWasRead, RunsInOrder, PartsInOrder,
      Applying, RoutesAt, Id
<1>24. ASSUME NEW c \in Converter, AnnotateFails(c) PROVE ReportIsTrue'
  BY <1>0, <1>24 DEF ReportIsTrue, AnnotateFails, IngressDone, cluster, Snap,
    At, OnlyWhatWasRead, RunsInOrder, PartsInOrder, Applying, RoutesAt, Id
<1>25. ASSUME NEW c \in Converter, Finish(c) PROVE ReportIsTrue'
  BY <1>0, <1>25 DEF ReportIsTrue, Finish, IdleRun, cluster, Snap, At,
    OnlyWhatWasRead, RunsInOrder, PartsInOrder, Applying, RoutesAt, Id
<1>26. ASSUME NEW c \in Converter, CutOff(c) PROVE ReportIsTrue'
  BY <1>0, <1>26 DEF ReportIsTrue, CutOff, IdleRun, cluster, Snap, At,
    OnlyWhatWasRead, RunsInOrder, PartsInOrder, Applying, RoutesAt, Id
<1>27. ASSUME NEW i \in Ingress, UserEdits(i) PROVE ReportIsTrue'
  <2>1. IngressUnknown(i)
    BY <1>0, <1>27, IngressWrite DEF UserEdits
  <2> QED
    BY <1>0, <1>27, <2>1 DEF ReportIsTrue, UserEdits, IngressUnknown,
      cluster, Snap, At, OnlyWhatWasRead, RunsInOrder, PartsInOrder,
      Applying, RoutesAt, Id
<1>28. ASSUME NEW x \in PartIds, PartDeleted(x) PROVE ReportIsTrue'
  <2>1. PartKnown(x, {})
    BY <1>0, <1>28, PartWrite DEF PartDeleted
  <2> QED
    BY <1>0, <1>28, <2>1 DEF ReportIsTrue, PartDeleted, PartKnown, cluster,
      Snap, At, OnlyWhatWasRead, RunsInOrder, PartsInOrder, Applying,
      RoutesAt, Id
<1>29. ASSUME NEW y \in RouteIds, ControllerJudges(y) PROVE ReportIsTrue'
  <2>1. PartKnown(y, {})
    BY <1>0, <1>29, PartWrite DEF ControllerJudges
  <2> QED
    BY <1>0, <1>29, <2>1 DEF ReportIsTrue, ControllerJudges, PartKnown,
      cluster, Snap, At, OnlyWhatWasRead, RunsInOrder, PartsInOrder,
      Applying, RoutesAt, Id
<1>30. ASSUME GatewayTouched PROVE ReportIsTrue'
  <2>1. GatewayUnknown
    BY <1>0, <1>30, GatewayWrite DEF GatewayTouched
  <2> QED
    BY <1>0, <1>30, <2>1 DEF ReportIsTrue, GatewayTouched, GatewayUnknown,
      cluster, Snap, At, OnlyWhatWasRead, RunsInOrder, PartsInOrder,
      Applying, RoutesAt, Id
<1>31. CASE UNCHANGED ivars
  BY <1>0, <1>31 DEF ReportIsTrue, ivars, cluster, Snap, At, OnlyWhatWasRead,
    RunsInOrder, PartsInOrder, Applying, RoutesAt, Id
<1>32. ASSUME GatewayDeleted PROVE ReportIsTrue'
  <2>1. GatewayUnknown
    BY <1>0, <1>32, GatewayWrite DEF GatewayDeleted
  <2> QED
    BY <1>0, <1>32, <2>1 DEF ReportIsTrue, GatewayDeleted, GatewayUnknown,
      cluster, Snap, At, OnlyWhatWasRead, RunsInOrder, PartsInOrder,
      Applying, RoutesAt, Id
<1> QED BY <1>1, <1>2, <1>3, <1>4, <1>5, <1>6, <1>7, <1>8, <1>9, <1>10,
  <1>11, <1>12, <1>13, <1>14, <1>15, <1>16, <1>17, <1>18, <1>19, <1>20,
  <1>21, <1>22, <1>23, <1>24, <1>25, <1>26, <1>27, <1>28, <1>29, <1>30, <1>31,
  <1>32 DEF Next, RunStep, ReadStep, GatewayStep, PartStep, PollStep,
  EnvironmentStep

-----------------------------------------------------------------------------
(* The theorems. *)

(* Nothing is in the cluster but Ingresses, and no run has begun. *)
LEMMA InitInv == Init => ConvertInv
<1> SUFFICES ASSUME Init PROVE ConvertInv
  OBVIOUS
<1>1. IdleRun \in Runs /\ NothingKnown \in Versions
  BY DEF IdleRun, Runs, Phases, Contents, NothingKnown, Versions
<1>2. TypeOK
  BY <1>1 DEF Init, TypeOK, Contents
<1>3. \A c \in Converter : run[c] = IdleRun /\ known[c] = NothingKnown
  BY DEF Init
<1>4. KnownIsCurrent /\ MergedFirst /\ OnlyWhatWasRead /\ OnlyWhatIsNeeded
  BY <1>3, ConversionAssumption DEF KnownIsCurrent, OnlyWhatIsNeeded, Snap, MergedFirst, OnlyWhatWasRead, IdleRun, NothingKnown,
     Merged, Applying
<1>5. RunsInOrder /\ PartsInOrder /\ ReportIsTrue
  BY <1>3 DEF RunsInOrder, PartsInOrder, ReportIsTrue, IdleRun, Applying
<1>6. PartsHaveListeners
  BY DEF Init, PartsHaveListeners
<1> QED
  BY <1>2, <1>4, <1>5, <1>6 DEF ConvertInv, Init

(* Only a write to the Gateway and its deletion change it; creating it and
   filling it are one call. *)
LEMMA GatewayStays ==
  ASSUME ConvertInv, [Next]_ivars
  PROVE  \/ gateway' = gateway /\ listeners' = listeners
         \/ gateway' /\ \E c \in Converter : listeners' = listeners \cup Desired(c)
         \/ GatewayDeleted
<1>1. ASSUME NEW c \in Converter, GatewayCreated(c)
      PROVE  gateway' /\ listeners' = listeners \cup Desired(c)
  BY <1>1 DEF GatewayCreated, ConvertInv
<1>2. ASSUME NEW c \in Converter, GatewayUpdated(c)
      PROVE  gateway' /\ listeners' = listeners \cup Desired(c)
  BY <1>2 DEF GatewayUpdated, ConvertInv, KnownIsCurrent
<1>3. ASSUME NEW c \in Converter,
             \/ CopySecrets(c) \/ PartCreated(c) \/ PartUpdated(c) \/ AnnotateSucceeds(c)
      PROVE  gateway' = gateway /\ listeners' = listeners
  BY <1>3 DEF CopySecrets, PartCreated, PartUpdated, AnnotateSucceeds
<1>4. ASSUME \/ \E i \in Ingress : UserEdits(i)
             \/ \E x \in PartIds : PartDeleted(x)
             \/ \E x \in RouteIds : ControllerJudges(x)
             \/ UNCHANGED cluster
      PROVE  gateway' = gateway /\ listeners' = listeners
  BY <1>4 DEF UserEdits, PartDeleted, ControllerJudges, cluster
<1> QED
  BY <1>1, <1>2, <1>3, <1>4, ClusterWriters

(* The inductive step, conjunct by conjunct. *)
LEMMA StepInv == ConvertInv /\ [Next]_ivars => ConvertInv'
<1> SUFFICES ASSUME ConvertInv, [Next]_ivars
             PROVE  ConvertInv'
  OBVIOUS
<1>1. (~gateway => listeners = {})'
  BY GatewayStays DEF ConvertInv, GatewayDeleted
<1> QED
  BY <1>1, TypeStep, KnownStep, MergedStep, ListenersStep, ReadFirstStep, NeededStep,
     OrderStep, PartsStep, ReportStep DEF ConvertInv

(* The invariant that the others follow from. *)
THEOREM ConvertInvariance == Spec => []ConvertInv
<1> QED
  BY InitInv, StepInv, PTL DEF Spec

(* Routes, policies and copied secrets never exist without the listeners they
   need, whoever else converts, edits or fails, but for listeners that went with a
   Gateway that somebody deleted. *)
THEOREM ListenersOfParts == Spec => []PartsHaveListeners
<1>1. ConvertInv => PartsHaveListeners
  BY DEF ConvertInv
<1> QED
  BY <1>1, ConvertInvariance, PTL

(* What a run reports as converted has had all its routes applied. *)
THEOREM TrueReports == Spec => []ReportIsTrue
<1>1. ConvertInv => ReportIsTrue
  BY DEF ConvertInv
<1> QED
  BY <1>1, ConvertInvariance, PTL

(* The Gateway gains the listeners of one run at a time and loses none but by
   being deleted. *)
THEOREM AtomicMerges == Spec => MergesAreAtomic
<1>1. ConvertInv /\ [Next]_ivars =>
        [\/ listeners' = listeners
         \/ \E c \in Converter : listeners' = listeners \cup Desired(c)
         \/ GatewayDeleted]_ivars
  BY GatewayStays
<1> QED
  BY <1>1, ConvertInvariance, PTL DEF Spec, MergesAreAtomic

(* Only a user's edit changes the user's part of an Ingress: an annotation
   writes back what is there. *)
THEOREM KeptEdits == Spec => EditsAreKept
<1>1. ConvertInv /\ [Next]_ivars =>
        [\A i \in Ingress : content'[i] # content[i] => UserEdits(i)]_ivars
  <2> SUFFICES ASSUME ConvertInv, [Next]_ivars,
                      NEW i \in Ingress, content'[i] # content[i]
               PROVE  UserEdits(i)
    OBVIOUS
  <2>1. content \in [Ingress -> Contents]
    BY DEF ConvertInv, TypeOK
  <2>2. ASSUME NEW c \in Converter, AnnotateSucceeds(c) PROVE content' = content
    <3>1. Snap(c, run[c].current) = content[run[c].current]
      BY <2>2 DEF AnnotateSucceeds, ConvertInv, KnownIsCurrent
    <3> QED
      BY <2>1, <2>2, <3>1 DEF AnnotateSucceeds
  <2>3. ASSUME NEW c \in Converter,
               \/ GatewayCreated(c) \/ GatewayUpdated(c) \/ CopySecrets(c)
               \/ PartCreated(c) \/ PartUpdated(c)
        PROVE  content' = content
    BY <2>3 DEF GatewayCreated, GatewayUpdated, CopySecrets, PartCreated, PartUpdated
  <2>4. ASSUME NEW j \in Ingress, UserEdits(j) PROVE UserEdits(i)
    <3>1. j = i
      BY <2>1, <2>4 DEF UserEdits
    <3> QED
      BY <2>4, <3>1
  <2>5. ASSUME \/ \E x \in PartIds : PartDeleted(x)
               \/ \E x \in RouteIds : ControllerJudges(x)
               \/ GatewayDeleted
               \/ UNCHANGED cluster
        PROVE  content' = content
    BY <2>5 DEF PartDeleted, ControllerJudges, GatewayDeleted, cluster
  <2> QED
    BY <2>2, <2>3, <2>4, <2>5, ClusterWriters
<1> QED
  BY <1>1, ConvertInvariance, PTL DEF Spec, EditsAreKept
-----------------------------------------------------------------------------
(* The way of a run.  Of a step it is enough to know what it makes of the run. *)

(* What a step does to the run of a converter, if it does anything. *)
Keeps(c) ==
    run'[c] # run[c] =>
        \/ At(c, "idle") \/ At(c, "idle")'
        \/ Advances(run[c], run'[c]) \/ Rounds(run[c], run'[c])

(* To read, to merge and to copy take a run forward. *)
LEMMA BeginningsAdvance ==
  ASSUME ConvertInv, NEW c \in Converter, ReadStep(c) \/ GatewayStep(c)
  PROVE  OthersKept(c) /\ Advances(run[c], run'[c])
<1>0. run \in [Converter -> Runs] /\ run[c] \in Runs
  BY DEF ConvertInv, TypeOK
<1>1. ASSUME NEW i \in run[c].todo,
             /\ run[c].pc = "read"
             /\ OthersKept(c) /\ run'[c].pc = run[c].pc /\ run'[c].todo = run[c].todo \ {i}
      PROVE  OthersKept(c) /\ Advances(run[c], run'[c])
  BY <1>1 DEF Advances, Fewer
<1>2. ASSUME NEW i \in Ingress, ReadFails(c, i) PROVE OthersKept(c) /\ Advances(run[c], run'[c])
  <2>1. /\ i \in run[c].todo /\ run[c].pc = "read" /\ OthersKept(c)
        /\ run'[c].pc = run[c].pc /\ run'[c].todo = run[c].todo \ {i}
    BY <1>0, <1>2 DEF ReadFails, At, OthersKept, Runs
  <2> QED
    BY <1>1, <2>1
<1>3. ASSUME NEW i \in Ingress, ReadSkips(c, i) PROVE OthersKept(c) /\ Advances(run[c], run'[c])
  <2>1. /\ i \in run[c].todo /\ run[c].pc = "read" /\ OthersKept(c)
        /\ run'[c].pc = run[c].pc /\ run'[c].todo = run[c].todo \ {i}
    BY <1>0, <1>3 DEF ReadSkips, At, OthersKept, Runs
  <2> QED
    BY <1>1, <2>1
<1>4. ASSUME NEW i \in Ingress, ReadConverts(c, i) PROVE OthersKept(c) /\ Advances(run[c], run'[c])
  <2>1. /\ i \in run[c].todo /\ run[c].pc = "read" /\ OthersKept(c)
        /\ run'[c].pc = run[c].pc /\ run'[c].todo = run[c].todo \ {i}
    BY <1>0, <1>4 DEF ReadConverts, At, OthersKept, Runs
  <2> QED
    BY <1>1, <2>1
<1>5. ASSUME OthersKept(c), Place[run[c].pc] < Place[run'[c].pc], run[c].pc \notin Applying
      PROVE  OthersKept(c) /\ Advances(run[c], run'[c])
  BY <1>5 DEF Advances
<1>6. CASE ReadDone(c)
  <2>1. run[c].pc = "read" /\ run'[c].pc \in {"gateway", "done"} /\ OthersKept(c)
    BY <1>0, <1>6 DEF ReadDone, At, OthersKept, Runs
  <2> QED
    BY <1>5, <2>1 DEF Place, Applying
<1>7. CASE GatewayMissing(c) \/ GatewayRead(c)
  <2>1. run[c].pc = "gateway" /\ run'[c].pc \in {"gatewayCreate", "gatewayUpdate"} /\ OthersKept(c)
    BY <1>0, <1>7 DEF GatewayMissing, GatewayRead, At, OthersKept, Runs
  <2> QED
    BY <1>5, <2>1 DEF Place, Applying
<1>8. CASE GatewayFails(c)
  <2>1. /\ run[c].pc \in {"gateway", "gatewayCreate", "gatewayUpdate"} /\ run'[c].pc = "done"
        /\ OthersKept(c)
    BY <1>0, <1>8 DEF GatewayFails, OthersKept, Runs
  <2> QED
    BY <1>5, <2>1 DEF Place, Applying
<1>9. CASE GatewayCreated(c) \/ GatewayUpdated(c)
  <2>1. /\ run[c].pc \in {"gatewayCreate", "gatewayUpdate"} /\ run'[c].pc \in {"secrets", "done"}
        /\ OthersKept(c)
    BY <1>0, <1>9, ConvertInv, GatewayAnsweredRun
       DEF ConvertInv, GatewayCreated, GatewayUpdated, GatewayDealtWith, At, OthersKept, Runs
  <2> QED
    BY <1>5, <2>1 DEF Place, Applying
<1>10. CASE CopySecrets(c)
  <2>1. run[c].pc = "secrets" /\ run'[c].pc = "next" /\ OthersKept(c)
    BY <1>0, <1>10 DEF CopySecrets, At, OthersKept, Runs
  <2> QED
    BY <1>5, <2>1 DEF Place, Applying
<1> QED
  BY <1>2, <1>3, <1>4, <1>6, <1>7, <1>8, <1>9, <1>10 DEF ReadStep, GatewayStep

(* So do to take up an Ingress, to deal with its parts and to annotate it: what is
   left for the run, or for the Ingress, grows less. *)
LEMMA LoopAdvances ==
  ASSUME ConvertInv, NEW c \in Converter,
         \/ \E i \in Ingress : NextIngress(c, i)
         \/ AllApplied(c) \/ PartStep(c)
         \/ PollTimesOut(c) \/ AnnotateSucceeds(c) \/ AnnotateFails(c)
  PROVE  OthersKept(c) /\ Advances(run[c], run'[c])
<1>0. run \in [Converter -> Runs] /\ run[c] \in Runs /\ TypeOK /\ RunsInOrder
  BY DEF ConvertInv, TypeOK
<1>1. ASSUME NEW i \in Ingress, NextIngress(c, i)
      PROVE  OthersKept(c) /\ Advances(run[c], run'[c])
  <2>1. /\ i \in run[c].queue /\ run[c].pc = "next" /\ OthersKept(c)
        /\ run'[c].pc = "parts" /\ run'[c].queue = run[c].queue \ {i}
    BY <1>0, <1>1 DEF NextIngress, At, OthersKept, Runs
  <2> QED
    BY <2>1 DEF Advances, Fewer
<1>2. CASE AllApplied(c)
  <2>1. run[c].pc = "next" /\ run'[c].pc = "done" /\ OthersKept(c)
    BY <1>0, <1>2 DEF AllApplied, At, OthersKept, Runs
  <2> QED
    BY <2>1 DEF Advances, Place, Applying
<1>3. ASSUME OthersKept(c), Place[run[c].pc] < Place[run'[c].pc],
             run'[c].queue = run[c].queue, run'[c].left = run[c].left
      PROVE  OthersKept(c) /\ Advances(run[c], run'[c])
  BY <1>3 DEF Advances
<1>4. ASSUME NEW p \in Parts, PartMissing(c, p) \/ PartRead(c, p)
      PROVE  OthersKept(c) /\ Advances(run[c], run'[c])
  <2>1. /\ run[c].pc = "parts" /\ run'[c].pc \in {"partCreate", "partUpdate"} /\ OthersKept(c)
        /\ run'[c].queue = run[c].queue /\ run'[c].left = run[c].left
    BY <1>0, <1>4 DEF PartMissing, PartRead, IsNextPart, At, OthersKept, Runs
  <2> QED
    BY <1>3, <2>1 DEF Place
<1>5. ASSUME NEW p \in Parts, NEW ok \in BOOLEAN, p \in run[c].left, PartDealtWith(c, p, ok),
             run[c].pc \in {"parts", "partCreate", "partUpdate"}
      PROVE  OthersKept(c) /\ Advances(run[c], run'[c])
  BY <1>5 DEF PartDealtWith, Advances, Fewer
<1>6. ASSUME NEW p \in Parts, PartFails(c, p) PROVE OthersKept(c) /\ Advances(run[c], run'[c])
  <2>1. /\ run[c].pc \in {"parts", "partCreate", "partUpdate"} /\ p \in run[c].left
        /\ PartDone(c, p, FALSE)
    BY <1>0, <1>6 DEF PartFails, IsNextPart, At, RunsInOrder
  <2> QED
    BY <1>0, <1>5, <2>1, PartDoneRun
<1>7. CASE PartCreated(c) \/ PartUpdated(c)
  <2>1. run[c].pc \in {"partCreate", "partUpdate"} /\ run[c].part \in run[c].left
    BY <1>0, <1>7 DEF PartCreated, PartUpdated, At, RunsInOrder
  <2>2. run[c].part \in Parts
    BY <1>0, <2>1 DEF Runs
  <2> QED
    BY <1>0, <1>5, <1>7, <2>1, <2>2, PartWritten
<1>8. CASE PartsApplied(c)
  <2>1. /\ run[c].pc = "parts" /\ run'[c].pc \in {"poll", "annotate"} /\ OthersKept(c)
        /\ run'[c].queue = run[c].queue /\ run'[c].left = run[c].left
    BY <1>0, <1>8 DEF PartsApplied, At, OthersKept, Runs
  <2> QED
    BY <1>3, <2>1 DEF Place
<1>9. CASE PollTimesOut(c)
  <2>1. /\ run[c].pc = "poll" /\ run'[c].pc = "annotate" /\ OthersKept(c)
        /\ run'[c].queue = run[c].queue /\ run'[c].left = run[c].left
    BY <1>0, <1>9 DEF PollTimesOut, At, OthersKept, Runs
  <2> QED
    BY <1>3, <2>1 DEF Place
<1>10. CASE AnnotateSucceeds(c) \/ AnnotateFails(c)
  <2>1. /\ run[c].pc = "annotate" /\ run'[c].pc = "next" /\ OthersKept(c)
        /\ run'[c].queue = run[c].queue /\ run'[c].left = run[c].left
    BY <1>0, <1>10 DEF AnnotateSucceeds, AnnotateFails, IngressDone, At, OthersKept, Runs
  <2> QED
    BY <1>3, <2>1 DEF Place
<1> QED
  BY <1>1, <1>2, <1>4, <1>6, <1>7, <1>8, <1>9, <1>10 DEF PartStep

(* Polling goes round, or on. *)
LEMMA PollsGoRound ==
  ASSUME ConvertInv, NEW c \in Converter,
         PollMiss(c) \/ \E r \in Routes : PollHit(c, r)
  PROVE  OthersKept(c) /\ (Advances(run[c], run'[c]) \/ Rounds(run[c], run'[c]))
<1>0. run \in [Converter -> Runs] /\ run[c] \in Runs /\ run[c].pc = "poll"
  BY DEF ConvertInv, TypeOK, PollMiss, PollHit, At
<1>1. ASSUME NEW round, run' = [run EXCEPT ![c].round = round]
      PROVE  OthersKept(c) /\ Rounds(run[c], run'[c])
  <2>1. OthersKept(c) /\ run'[c] = [run[c] EXCEPT !.round = round]
    BY <1>0, <1>1 DEF OthersKept
  <2>2. [run[c] EXCEPT !.round = round].round = round
    BY <1>0 DEF Runs
  <2>3. run'[c].round = round
    BY <2>1, <2>2
  <2> QED
    BY <1>0, <2>1, <2>3 DEF Rounds
<1>2. ASSUME run' = [run EXCEPT ![c].pc = "annotate", ![c].round = {}]
      PROVE  OthersKept(c) /\ Advances(run[c], run'[c])
  <2>1. /\ run'[c].pc = "annotate" /\ OthersKept(c)
        /\ run'[c].queue = run[c].queue /\ run'[c].left = run[c].left
    BY <1>0, <1>2 DEF OthersKept, Runs
  <2> QED
    BY <1>0, <2>1 DEF Advances, Place
<1> QED
  BY <1>1, <1>2 DEF PollMiss, PollHit

(* A run goes over Gateway, Ingresses and parts once, for any number of them and
   of other runs: each step leaves it less to do, but for a round of polling.  That
   it comes to its end is then a matter of the deadline and of fairness. *)
THEOREM RunsGoForward == Spec => RunsAdvance
<1>1. ASSUME ConvertInv, Next, NEW c \in Converter PROVE Keeps(c)
  <2>0. run \in [Converter -> Runs]
    BY <1>1 DEF ConvertInv, TypeOK
  <2>1. ASSUME NEW d \in Converter, RunStep(d) \/ PollMiss(d), ~Finish(d) PROVE Keeps(c)
    <3>1. OthersKept(d) /\ (Advances(run[d], run'[d]) \/ Rounds(run[d], run'[d]))
      BY <1>1, <2>1, BeginningsAdvance, LoopAdvances, PollsGoRound DEF RunStep, PollStep
    <3> QED
      BY <3>1 DEF Keeps, OthersKept
  <2>2. ASSUME NEW d \in Converter, Start(d) PROVE Keeps(c)
    BY <2>0, <2>2 DEF Start, Keeps, At
  <2>3. ASSUME NEW d \in Converter, Finish(d) \/ CutOff(d) PROVE Keeps(c)
    BY <2>0, <2>3 DEF Finish, CutOff, IdleRun, Keeps, At
  <2>4. CASE EnvironmentStep
    BY <2>4, RunsLeftAlone DEF Keeps
  <2> QED
    BY <1>1, <2>1, <2>2, <2>3, <2>4 DEF Next
<1>2. ConvertInv /\ [Next]_ivars => [\A c \in Converter : Keeps(c)]_ivars
  BY <1>1
<1>3. ConvertInv /\ [Next]_ivars =>
        [\A c \in Converter : run'[c] # run[c] =>
            \/ At(c, "idle") \/ At(c, "idle")'
            \/ Advances(run[c], run'[c]) \/ Rounds(run[c], run'[c])]_ivars
  BY <1>2 DEF Keeps
<1> QED
  BY <1>3, ConvertInvariance, PTL DEF Spec, RunsAdvance
-----------------------------------------------------------------------------
(* The refinement of ConvertedCluster: six actions of a run change the cluster,
   each as one step of it does; all other steps of a run stutter. *)

(* A run that is past the Gateway has all it needs there. *)
LEMMA AtHand ==
  ASSUME ConvertInv, NEW c \in Converter, run[c].pc \in Applying
  PROVE  LET i == run[c].current
         IN  /\ i \in Ingress
             /\ Snap(c, i) \in Content \ Skipped
             /\ ListenersOf[Snap(c, i)] \subseteq Provided
             /\ run[c].left \subseteq PartsOf[Snap(c, i)]
<1>1. run[c].current \in Ingress /\ Snap(c, run[c].current) # None
  BY DEF ConvertInv, OnlyWhatWasRead
<1>2. Snap(c, run[c].current) \in Contents
  BY <1>1 DEF ConvertInv, TypeOK, Runs, Snap
<1> QED
  BY <1>1, <1>2 DEF ConvertInv, OnlyWhatIsNeeded, MergedFirst, Merged, Contents

(* A write of the Gateway on top of what was read is a merge of contents. *)
LEMMA MergeRefines ==
  ASSUME ConvertInv, NEW c \in Converter, GatewayCreated(c) \/ GatewayUpdated(c)
  PROVE  Cluster!Merge
<1> DEFINE S == {Snap(c, i) : i \in Conversions(c)}
<1>1. S \in SUBSET Cluster!Convertible
  BY DEF ConvertInv, TypeOK, Runs, Contents, OnlyWhatIsNeeded, Conversions, Snap,
     Cluster!Convertible
<1>2. Desired(c) = UNION {ListenersOf[s] : s \in S}
  BY DEF Desired
<1>3. listeners' = listeners \cup Desired(c)
  BY DEF GatewayCreated, GatewayUpdated, ConvertInv, KnownIsCurrent
<1>4. gateway' = TRUE /\ lost' = lost \ listeners'
  BY <1>3 DEF GatewayCreated, GatewayUpdated, ConvertInv, KnownIsCurrent, TypeOK
<1>5. UNCHANGED <<content, status, secrets, object, accepted>>
  BY DEF GatewayCreated, GatewayUpdated
<1> HIDE DEF S
<1> QED
  BY <1>1, <1>2, <1>3, <1>4, <1>5 DEF Cluster!Merge, Cluster!ingressVars, Cluster!partVars

(* Secrets are copied for listeners that are provided. *)
LEMMA CopyRefines ==
  ASSUME ConvertInv, NEW c \in Converter, CopySecrets(c)
  PROVE  Cluster!CopySecrets
<1>1. Desired(c) \subseteq Provided
  BY DesiredCovers DEF CopySecrets, At, ConvertInv, MergedFirst, Merged
<1> QED
  BY <1>1 DEF CopySecrets, Cluster!CopySecrets, Cluster!Provided, Provided,
     Cluster!ingressVars, Cluster!gatewayVars, Cluster!partVars

(* A part is made of a content that needs it and whose listeners are there. *)
LEMMA PartRefines ==
  ASSUME ConvertInv, NEW c \in Converter, PartCreated(c) \/ PartUpdated(c)
  PROVE  \E x \in PartIds : Cluster!Apply(x)
<1>1. run[c].pc \in {"partCreate", "partUpdate"}
  BY DEF PartCreated, PartUpdated, At
<1>2. run[c].part \in run[c].left
  BY <1>1 DEF ConvertInv, RunsInOrder
<1>3. run[c].left \subseteq Parts
  BY DEF ConvertInv, TypeOK, Runs
<1>4. Id(c) \in PartIds /\ Id(c)[2] = run[c].part
  BY <1>1, <1>2, <1>3, AtHand DEF Id, PartIds, Applying
<1>5. Cluster!Apply(Id(c))
  BY <1>1, <1>2, <1>4, AtHand
  DEF Applying, PartCreated, PartUpdated, Cluster!Apply, Cluster!Convertible,
      Cluster!Provided, Provided, Cluster!ingressVars, Cluster!gatewayVars
<1> QED
  BY <1>4, <1>5

(* An annotation is one of the Ingress as it is. *)
LEMMA AnnotationRefines ==
  ASSUME ConvertInv, NEW c \in Converter, AnnotateSucceeds(c)
  PROVE  \E i \in Ingress : Cluster!Annotate(i)
<1> DEFINE i == run[c].current
<1>1. /\ i \in Ingress
      /\ Snap(c, i) \in Content \ Skipped
      /\ ListenersOf[Snap(c, i)] \subseteq Provided
  BY AtHand DEF AnnotateSucceeds, At, Applying
<1>2. content[i] = Snap(c, i)
  BY DEF AnnotateSucceeds, ConvertInv, KnownIsCurrent
<1>3. content' = content
  BY <1>2 DEF AnnotateSucceeds, ConvertInv, TypeOK
<1>4. StatusFor(c) \in {"pending", IF content[i] \in Warned THEN "partial" ELSE "converted"}
  BY <1>2 DEF StatusFor
<1>5. /\ status' = [status EXCEPT ![i] = StatusFor(c)]
      /\ UNCHANGED <<gateway, listeners, lost, secrets, object, accepted>>
  BY DEF AnnotateSucceeds
<1> HIDE DEF i
<1> QED
  BY <1>1, <1>2, <1>3, <1>4, <1>5
  DEF Cluster!Annotate, Cluster!Convertible, Cluster!Provided, Provided,
      Cluster!gatewayVars, Cluster!partVars

(* The others do to the cluster what they do there. *)
LEMMA EnvironmentRefines ==
  ASSUME \/ \E i \in Ingress : UserEdits(i)
         \/ \E x \in PartIds : PartDeleted(x)
         \/ \E x \in RouteIds : ControllerJudges(x)
         \/ GatewayDeleted
  PROVE  Cluster!Next
<1> USE DEF Cluster!ingressVars, Cluster!gatewayVars, Cluster!partVars, Cluster!PartIds,
            Cluster!RouteIds, PartIds, RouteIds, Parts
<1>1. ASSUME NEW i \in Ingress, UserEdits(i) PROVE Cluster!Edit(i)
  BY <1>1 DEF UserEdits, Cluster!Edit, Contents
<1>2. ASSUME NEW x \in PartIds, PartDeleted(x) PROVE Cluster!DeletePart(x)
  BY <1>2 DEF PartDeleted, Cluster!DeletePart
<1>3. ASSUME NEW x \in RouteIds, ControllerJudges(x) PROVE Cluster!Judge(x)
  BY <1>3 DEF ControllerJudges, Cluster!Judge
<1>4. CASE GatewayDeleted
  BY <1>4 DEF GatewayDeleted, Cluster!DeleteGateway, Cluster!Next
<1> QED
  BY <1>1, <1>2, <1>3, <1>4 DEF Cluster!Next

(* Whatever runs, users and controllers do, the cluster undergoes nothing but
   what ConvertedCluster describes: every write of a run amounts to a change made
   at one moment to what is then there. *)
THEOREM ClusterRefinement == Spec => ImplementsCluster
<1>1. Init => Cluster!Init
  BY DEF Init, Cluster!Init, Contents, PartIds, RouteIds, Cluster!PartIds, Cluster!RouteIds,
     Parts
<1>2. ConvertInv /\ [Next]_ivars => [Cluster!Next]_(Cluster!clusterVars)
  <2> SUFFICES ASSUME ConvertInv, [Next]_ivars
               PROVE  [Cluster!Next]_(Cluster!clusterVars)
    OBVIOUS
  <2>1. CASE UNCHANGED cluster
    BY <2>1 DEF cluster, Cluster!clusterVars, Cluster!ingressVars, Cluster!gatewayVars,
       Cluster!partVars
  <2>2. ASSUME NEW c \in Converter,
               \/ GatewayCreated(c) \/ GatewayUpdated(c) \/ CopySecrets(c)
               \/ PartCreated(c) \/ PartUpdated(c) \/ AnnotateSucceeds(c)
        PROVE  Cluster!Next
    BY <2>2, MergeRefines, CopyRefines, PartRefines, AnnotationRefines
    DEF Cluster!Next, PartIds, Cluster!PartIds, Parts
  <2> QED
    BY <2>1, <2>2, ClusterWriters, EnvironmentRefines
<1> QED
  BY <1>1, <1>2, ConvertInvariance, PTL DEF Spec, ImplementsCluster, Cluster!Spec
=============================================================================
