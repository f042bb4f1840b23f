----------------------------- MODULE StartupProofs -----------------------------
(***************************************************************************)
(* The cache keeps the clusters of a kubeconfig apart, for every number of *)
(* processes, contexts and tenants, and whatever the lifetime of the cache *)
(* is.  As long as the context stays what it was when a command built its  *)
(* client, the file it reads and the file it writes are those of the       *)
(* cluster its client connects to; a switch makes the command unsteady,    *)
(* and then nothing is claimed of what it leaves in a file.                *)
(***************************************************************************)
EXTENDS Startup, SequenceTheorems, TLAPS

(* The names of a command that has them give the name of a cache file. *)
LEMMA KeyType ==
    ASSUME NEW f \in File, NEW c \in Context, NEW t \in Tenant PROVE Identifier(f, c, t) \in Key
BY DEF Key

(* An edition is something. *)
LEMMA EditionIsSome == None \notin Editions
BY StartupAssumption

(* Nor is a name nothing. *)
LEMMA NamesAreSome == None \notin File \cup Context \cup Tenant
BY StartupAssumption

(* A command that starts can name its file. *)
LEMMA KeyOfType ==
    ASSUME TypeOK, NEW p \in Process, PhaseAgrees(p), cmd[p].phase \in Starting
    PROVE  /\ KeyOf(p) \in Key
           /\ cmd[p].file \in File /\ cmd[p].tenant \in Tenant /\ cmd[p].context \in Context
<1>1. cmd[p] \in Command
    BY DEF TypeOK
<1>2. cmd[p].file \in File /\ cmd[p].tenant \in Tenant /\ cmd[p].context \in Context
    BY <1>1 DEF Command, PhaseAgrees
<1>3. current[cmd[p].file] \in Context
    BY <1>2 DEF TypeOK
<1> QED BY <1>2, <1>3, KeyType DEF KeyOf

(* What a process is about to do concerns no other one. *)
LEMMA OthersKept ==
    ASSUME NEW p \in Process, \A q \in Process : q # p => cmd'[q] = cmd[q], current' = current,
           \A q \in Process : PhaseAgrees(q) /\ SteadyIsCurrent(q) /\ RunsRight(q),
           PhaseAgrees(p)', SteadyIsCurrent(p)', RunsRight(p)'
    PROVE  \A q \in Process : PhaseAgrees(q)' /\ SteadyIsCurrent(q)' /\ RunsRight(q)'
<1>1. ASSUME NEW q \in Process, q # p PROVE PhaseAgrees(q)' /\ SteadyIsCurrent(q)' /\ RunsRight(q)'
    <2>1. cmd'[q] = cmd[q] /\ PhaseAgrees(q) /\ SteadyIsCurrent(q) /\ RunsRight(q)
        BY <1>1
    <2> QED BY <2>1 DEF PhaseAgrees, SteadyIsCurrent, RunsRight, At, Alike
<1> QED BY <1>1

(* A file that is emptied loses its name; one that is not touched keeps it. *)
LEMMA LessIsNamed ==
    ASSUME EntryIsNamed, \A k \in Key : cache'[k] = cache[k] \/ cache'[k] = None
    PROVE  EntryIsNamed'
BY DEF EntryIsNamed

(* A command with neither a file nor a tenant says nothing. *)
LEMMA NoCommandHolds ==
    ASSUME NEW p \in Process, cmd'[p].phase \in {"idle", "failed", "running"}, cmd'[p].tenant = None
    PROVE  PhaseAgrees(p)' /\ SteadyIsCurrent(p)' /\ RunsRight(p)'
BY DEF PhaseAgrees, SteadyIsCurrent, RunsRight, At, Starting

(* It is a command all the same. *)
LEMMA NoCommandType ==
    ASSUME NEW phase \in {"idle", "failed", "running"}
    PROVE  /\ NoCommand \in Command /\ [NoCommand EXCEPT !.phase = phase] \in Command
           /\ NoCommand.tenant = None /\ NoCommand.phase = "idle"
           /\ [NoCommand EXCEPT !.phase = phase].tenant = None
           /\ [NoCommand EXCEPT !.phase = phase].phase = phase
BY DEF NoCommand, Command, Phases

(* One command moves, within its type and its own invariants; no file is written. *)
LEMMA OneMoves ==
    ASSUME StartupInv, NEW p \in Process, NEW r \in Command, cmd' = [cmd EXCEPT ![p] = r],
           UNCHANGED <<backend, current>>, cache' \in [Key -> Entry \cup {None}], EntryIsNamed',
           PhaseAgrees(p)' /\ SteadyIsCurrent(p)' /\ RunsRight(p)'
    PROVE  StartupInv'
<1>1. TypeOK'
    BY DEF StartupInv, TypeOK
<1>2. \A q \in Process : q # p => cmd'[q] = cmd[q]
    BY DEF StartupInv, TypeOK
<1>3. \A q \in Process : PhaseAgrees(q)' /\ SteadyIsCurrent(q)' /\ RunsRight(q)'
    BY <1>2, OthersKept DEF StartupInv, EditionOfContext
<1> QED BY <1>1, <1>3 DEF StartupInv, EditionOfContext

(* Resolving the configuration keeps the invariant. *)
LEMMA StartKeeps ==
    ASSUME StartupInv, NEW p \in Process, Start(p) PROVE StartupInv'
<1>0. /\ UNCHANGED <<backend, current, cache>> /\ cmd \in [Process -> Command]
      /\ cache' \in [Key -> Entry \cup {None}] /\ EntryIsNamed'
    BY DEF StartupInv, TypeOK, Start, EntryIsNamed
<1>1. ASSUME NEW phase \in {"failed", "running"}, cmd' = [cmd EXCEPT ![p] = [NoCommand EXCEPT !.phase = phase]]
      PROVE  StartupInv'
    <2>1. cmd'[p] = [NoCommand EXCEPT !.phase = phase]
        BY <1>0, <1>1
    <2>2. cmd'[p].phase = phase /\ cmd'[p].tenant = None /\ [NoCommand EXCEPT !.phase = phase] \in Command
        BY <2>1, NoCommandType
    <2> QED BY <1>0, <1>1, <2>2, NoCommandHolds, OneMoves
<1>2. ASSUME NEW file \in File, NEW tenant \in Tenant \cup {None},
             cmd' = [cmd EXCEPT ![p] = [NoCommand EXCEPT
                       !.phase = "resolved", !.file = file, !.tenant = tenant]]
      PROVE  StartupInv'
    <2> DEFINE r == [NoCommand EXCEPT !.phase = "resolved", !.file = file, !.tenant = tenant]
    <2>1. r \in Command /\ r.phase = "resolved" /\ r.file # None
        BY StartupAssumption DEF NoCommand, Command, Phases
    <2>2. cmd'[p] = r
        BY <1>0, <1>2
    <2>3. PhaseAgrees(p)' /\ SteadyIsCurrent(p)' /\ RunsRight(p)'
        BY <2>1, <2>2 DEF PhaseAgrees, SteadyIsCurrent, RunsRight, At, Starting
    <2> HIDE DEF r
    <2> QED BY <1>0, <1>2, <2>1, <2>3, OneMoves DEF r
<1>3. PICK i \in Invocation :
          \/ cmd' = [cmd EXCEPT ![p] = [NoCommand EXCEPT !.phase = "running"]]
          \/ cmd' = [cmd EXCEPT ![p] = [NoCommand EXCEPT !.phase = "failed"]]
          \/ \E file \in File, tenant \in Tenant \cup {None} :
                cmd' = [cmd EXCEPT ![p] = [NoCommand EXCEPT
                          !.phase = "resolved", !.file = file, !.tenant = tenant]]
    <2>1. PICK i \in Invocation :
              LET file   == Resolve(i.file, i.KUBECONFIG)
                  tenant == IF i.kind = "full" THEN Resolve(i.tenant, i.TENANT_NAME) ELSE None
              IN  \/ cmd' = [cmd EXCEPT ![p] = [NoCommand EXCEPT !.phase = "running"]]
                  \/ Ends(p)
                  \/ /\ file # None
                     /\ cmd' = [cmd EXCEPT ![p] = [NoCommand EXCEPT
                                   !.phase = "resolved", !.file = file, !.tenant = tenant]]
        BY DEF Start
    <2>2. /\ Resolve(i.file, i.KUBECONFIG) \in File \cup {None}
          /\ Resolve(i.tenant, i.TENANT_NAME) \in Tenant \cup {None}
        BY DEF Invocation, Resolve
    <2> QED BY <2>1, <2>2 DEF Ends
<1> QED BY <1>1, <1>2, <1>3

(* Building the client fixes the context; from here on its switch is noticed. *)
LEMMA ConfigKeeps ==
    ASSUME StartupInv, NEW p \in Process, CreateKubernetesConfig(p) \/ ConfigFails(p)
    PROVE  StartupInv'
<1>0. /\ UNCHANGED <<backend, current, cache>> /\ cmd[p] \in Command /\ PhaseAgrees(p)
      /\ cache' \in [Key -> Entry \cup {None}] /\ EntryIsNamed' /\ cmd[p].phase = "resolved"
      /\ cmd \in [Process -> Command] /\ current \in [File -> Context]
    BY DEF StartupInv, TypeOK, CreateKubernetesConfig, ConfigFails, EntryIsNamed, At
<1>1. CASE ConfigFails(p)
    <2>1. cmd' = [cmd EXCEPT ![p] = [NoCommand EXCEPT !.phase = "failed"]]
        BY <1>1 DEF ConfigFails, Ends
    <2>2. cmd'[p] = [NoCommand EXCEPT !.phase = "failed"]
        BY <1>0, <2>1
    <2>3. /\ cmd'[p].phase = "failed" /\ cmd'[p].tenant = None
          /\ [NoCommand EXCEPT !.phase = "failed"] \in Command
        BY <2>2, NoCommandType
    <2> QED BY <1>0, <2>1, <2>3, NoCommandHolds, OneMoves
<1>2. CASE CreateKubernetesConfig(p)
    <2>1. cmd[p].file \in File /\ current[cmd[p].file] \in Context
        BY <1>0 DEF PhaseAgrees, Command
    <2>2. PICK phase \in {"running", "configured"} :
             /\ cmd' = [cmd EXCEPT ![p] =
                   [cmd[p] EXCEPT !.context = current[cmd[p].file], !.phase = phase]]
             /\ phase = "running" <=> cmd[p].tenant = None
        BY <1>2 DEF CreateKubernetesConfig
    <2> DEFINE r == [cmd[p] EXCEPT !.context = current[cmd[p].file], !.phase = phase]
    <2>3. /\ r \in Command /\ r.phase = phase /\ r.context = current[cmd[p].file]
          /\ r.file = cmd[p].file /\ r.tenant = cmd[p].tenant
        BY <1>0, <2>1 DEF Command, Phases
    <2>4. cmd'[p] = r
        BY <1>0, <2>2
    <2> HIDE DEF r
    <2>5. PhaseAgrees(p)' /\ SteadyIsCurrent(p)' /\ RunsRight(p)'
        BY <1>0, <2>1, <2>2, <2>3, <2>4, StartupAssumption
           DEF PhaseAgrees, SteadyIsCurrent, RunsRight, At, Starting
    <2> QED BY <1>0, <2>2, <2>3, <2>5, OneMoves DEF r
<1> QED BY <1>1, <1>2

(* A hit gives a steady command what was determined under its own name. *)
LEMMA HitKeeps ==
    ASSUME StartupInv, NEW p \in Process, LoadHits(p) PROVE StartupInv'
<1>0. /\ UNCHANGED <<backend, current, cache>> /\ cmd[p] \in Command /\ PhaseAgrees(p)
      /\ cache \in [Key -> Entry \cup {None}] /\ EntryIsNamed' /\ cmd[p].phase = "configured"
      /\ cmd \in [Process -> Command] /\ SteadyIsCurrent(p) /\ EntryIsNamed
    BY DEF StartupInv, TypeOK, LoadHits, EntryIsNamed, At
<1>1. /\ KeyOf(p) \in Key /\ cmd[p].file \in File /\ cmd[p].tenant \in Tenant
      /\ cmd[p].context \in Context
    BY <1>0, KeyOfType DEF Starting, StartupInv
<1>2. cache[KeyOf(p)] \in Entry /\ cache[KeyOf(p)] # None
    BY <1>0, <1>1 DEF LoadHits
<1> DEFINE of == IF cmd[p].steady THEN cache[KeyOf(p)].of ELSE None
           r  == [cmd[p] EXCEPT !.phase = "running", !.edition = cache[KeyOf(p)].edition,
                                !.of = of, !.steady = TRUE]
<1>3. cmd' = [cmd EXCEPT ![p] = r]
    BY DEF LoadHits
<1>4. of \in Origin \cup {None} /\ cache[KeyOf(p)].edition \in Editions
    BY <1>2 DEF Entry
<1>5. /\ r \in Command /\ r.phase = "running" /\ r.edition = cache[KeyOf(p)].edition /\ r.of = of
      /\ r.file = cmd[p].file /\ r.tenant = cmd[p].tenant /\ r.context = cmd[p].context
    BY <1>0, <1>4 DEF Command, Phases
<1>6. ASSUME of # None
      PROVE  \E f \in File :
                Identifier(f, of[1], of[2]) = Identifier(cmd[p].file, cmd[p].context, cmd[p].tenant)
    <2>1. cmd[p].steady /\ of = cache[KeyOf(p)].of
        BY <1>6
    <2>2. KeyOf(p) = Identifier(cmd[p].file, cmd[p].context, cmd[p].tenant)
        BY <1>0, <2>1 DEF SteadyIsCurrent, KeyOf, Starting
    <2>3. PICK f \in File : KeyOf(p) = Identifier(f, of[1], of[2])
        BY <1>0, <1>1, <1>2, <1>6, <2>1 DEF EntryIsNamed
    <2> QED BY <2>2, <2>3
<1>7. cmd'[p] = r
    BY <1>0, <1>3
<1> HIDE DEF r, of
<1>8. PhaseAgrees(p)' /\ SteadyIsCurrent(p)' /\ RunsRight(p)'
    <2>1. PhaseAgrees(p)' /\ SteadyIsCurrent(p)'
        BY <1>1, <1>5, <1>7, NamesAreSome DEF PhaseAgrees, SteadyIsCurrent, At, Starting
    <2>2. RunsRight(p)'
        BY <1>4, <1>5, <1>6, <1>7, EditionIsSome DEF RunsRight, Alike, At
    <2> QED BY <2>1, <2>2
<1> QED BY <1>0, <1>3, <1>5, <1>8, OneMoves

(* A miss and the calls of the detection change nothing but the phase and, in the
   end, the edition. *)
LEMMA DetectionKeeps ==
    ASSUME StartupInv, NEW p \in Process,
           LoadMisses(p) \/ GetDefault(p) \/ GetNamed(p) \/ GetCRD(p) \/ GetFails(p)
    PROVE  StartupInv'
<1>0. /\ UNCHANGED <<backend, current, cache>> /\ cmd[p] \in Command /\ PhaseAgrees(p)
      /\ cache \in [Key -> Entry \cup {None}] /\ EntryIsNamed' /\ cmd[p].phase \in Starting
      /\ cmd \in [Process -> Command] /\ SteadyIsCurrent(p)
    BY DEF StartupInv, TypeOK, LoadMisses, GetDefault, GetNamed, GetCRD, GetFails, EntryIsNamed, At,
           Starting
<1>1. PICK phase \in Starting, edition \in Editions \cup {cmd[p].edition} :
         /\ cmd' = [cmd EXCEPT ![p] = [cmd[p] EXCEPT !.phase = phase, !.edition = edition]]
         /\ phase = "decided" => edition \in Editions
    <2>1. ASSUME NEW phase \in {"default", "named", "crd"}, cmd' = [cmd EXCEPT ![p].phase = phase]
          PROVE  cmd' = [cmd EXCEPT ![p] = [cmd[p] EXCEPT !.phase = phase, !.edition = cmd[p].edition]]
        <3>1. [cmd[p] EXCEPT !.phase = phase] = [cmd[p] EXCEPT !.phase = phase, !.edition = cmd[p].edition]
            BY <1>0 DEF Command
        <3> QED BY <1>0, <2>1, <3>1
    <2>2. ASSUME NEW edition, Decides(p, edition)
          PROVE  cmd' = [cmd EXCEPT ![p] = [cmd[p] EXCEPT !.phase = "decided", !.edition = edition]]
        BY <2>2 DEF Decides
    <2>3. \/ \E phase \in {"default", "named", "crd"} : cmd' = [cmd EXCEPT ![p].phase = phase]
          \/ \E edition \in Editions : Decides(p, edition)
        <3>1. "CE" \in Editions /\ "EE" \in Editions
            BY DEF Editions
        <3>2. CASE LoadMisses(p)
            BY <3>2 DEF LoadMisses
        <3>3. CASE GetDefault(p)
            BY <3>3 DEF GetDefault
        <3>4. CASE GetNamed(p)
            BY <3>4 DEF GetNamed
        <3>5. CASE GetCRD(p)
            BY <3>1, <3>5 DEF GetCRD
        <3>6. CASE GetFails(p)
            BY <3>1, <3>6 DEF GetFails
        <3> QED BY <3>2, <3>3, <3>4, <3>5, <3>6
    <2>4. CASE \E phase \in {"default", "named", "crd"} : cmd' = [cmd EXCEPT ![p].phase = phase]
        <3>1. PICK phase \in {"default", "named", "crd"} : cmd' = [cmd EXCEPT ![p].phase = phase]
            BY <2>4
        <3> QED BY <2>1, <3>1 DEF Starting
    <2>5. CASE \E edition \in Editions : Decides(p, edition)
        <3>1. PICK edition \in Editions : Decides(p, edition)
            BY <2>5
        <3> QED BY <2>2, <3>1 DEF Starting
    <2> QED BY <2>3, <2>4, <2>5
<1> DEFINE r == [cmd[p] EXCEPT !.phase = phase, !.edition = edition]
<1>2. /\ r \in Command /\ r.phase = phase /\ r.edition = edition /\ r.steady = cmd[p].steady
      /\ r.file = cmd[p].file /\ r.tenant = cmd[p].tenant /\ r.context = cmd[p].context
    BY ZenonT(60), <1>0 DEF Command, Phases, Starting
<1>3. cmd'[p] = r
    BY <1>0, <1>1
<1> HIDE DEF r
<1>4. PhaseAgrees(p)' /\ SteadyIsCurrent(p)' /\ RunsRight(p)'
    BY <1>0, <1>1, <1>2, <1>3, EditionIsSome
       DEF PhaseAgrees, SteadyIsCurrent, RunsRight, At, Starting
<1> QED BY <1>0, <1>1, <1>2, <1>4, OneMoves DEF r

(* Emptying a file keeps the names of the others; a steady command has opened the
   file of the context of its client. *)
LEMMA TruncateKeeps ==
    ASSUME StartupInv, NEW p \in Process, Truncate(p) PROVE StartupInv'
<1>0. /\ UNCHANGED <<backend, current>> /\ cmd[p] \in Command /\ PhaseAgrees(p)
      /\ cache \in [Key -> Entry \cup {None}] /\ EntryIsNamed /\ cmd[p].phase = "decided"
      /\ cmd \in [Process -> Command] /\ SteadyIsCurrent(p)
    BY DEF StartupInv, TypeOK, Truncate, At
<1>1. /\ KeyOf(p) \in Key /\ cmd[p].file \in File /\ cmd[p].tenant \in Tenant
      /\ cmd[p].context \in Context
    BY <1>0, KeyOfType DEF Starting, StartupInv
<1>2. cache' \in [Key -> Entry \cup {None}] /\ EntryIsNamed'
    <2>1. cache' = [cache EXCEPT ![KeyOf(p)] = None]
        BY DEF Truncate
    <2>2. \A k \in Key : cache'[k] = cache[k] \/ cache'[k] = None
        BY <1>0, <2>1
    <2> QED BY <1>0, <2>1, <2>2, LessIsNamed
<1> DEFINE r == [cmd[p] EXCEPT !.phase = "truncated", !.key = KeyOf(p)]
<1>3. cmd' = [cmd EXCEPT ![p] = r]
    BY DEF Truncate
<1>4. /\ r \in Command /\ r.phase = "truncated" /\ r.key = KeyOf(p) /\ r.steady = cmd[p].steady
      /\ r.file = cmd[p].file /\ r.tenant = cmd[p].tenant /\ r.context = cmd[p].context
      /\ r.edition = cmd[p].edition
    BY <1>0, <1>1 DEF Command, Phases
<1>5. cmd'[p] = r
    BY <1>0, <1>3
<1>6. cmd[p].steady => KeyOf(p) = Identifier(cmd[p].file, cmd[p].context, cmd[p].tenant)
    BY <1>0 DEF SteadyIsCurrent, KeyOf, Starting
<1> HIDE DEF r
<1>7. PhaseAgrees(p)' /\ SteadyIsCurrent(p)' /\ RunsRight(p)'
    BY <1>0, <1>1, <1>4, <1>5, <1>6, StartupAssumption
       DEF PhaseAgrees, SteadyIsCurrent, RunsRight, At, Starting
<1> QED BY <1>0, <1>2, <1>3, <1>4, <1>7, OneMoves

(* What a command has determined itself is of its tenant and of the cluster its client
   connects to. *)
LEMMA UsesRight ==
    ASSUME StartupInv, NEW p \in Process, Uses(p), UNCHANGED <<backend, current>>,
           cmd[p].phase \in {"decided", "truncated"},
           cache' \in [Key -> Entry \cup {None}], EntryIsNamed'
    PROVE  StartupInv'
<1>0. cmd[p] \in Command /\ PhaseAgrees(p) /\ cmd \in [Process -> Command]
    BY DEF StartupInv, TypeOK
<1>1. /\ cmd[p].file \in File /\ cmd[p].tenant \in Tenant
      /\ cmd[p].context \in Context /\ cmd[p].edition \in Editions
    BY <1>0 DEF Command, PhaseAgrees, Starting
<1> DEFINE r == [cmd[p] EXCEPT !.phase = "running", !.of = OriginOf(p), !.key = None,
                               !.steady = TRUE]
<1>2. cmd' = [cmd EXCEPT ![p] = r]
    BY DEF Uses
<1>3. /\ r \in Command /\ r.phase = "running" /\ r.of = OriginOf(p)
      /\ r.of[1] = cmd[p].context /\ r.of[2] = cmd[p].tenant
      /\ r.file = cmd[p].file /\ r.tenant = cmd[p].tenant /\ r.context = cmd[p].context
      /\ r.edition = cmd[p].edition
    BY <1>0, <1>1 DEF Command, Phases, OriginOf, Origin
<1>4. cmd'[p] = r
    BY <1>0, <1>2
<1> HIDE DEF r
<1>5. PhaseAgrees(p)' /\ SteadyIsCurrent(p)' /\ RunsRight(p)'
    BY <1>1, <1>3, <1>4, EditionIsSome, NamesAreSome
       DEF PhaseAgrees, SteadyIsCurrent, RunsRight, Alike, At, Starting
<1> QED BY <1>2, <1>3, <1>5, OneMoves

(* A steady command writes its edition under the name of its own context; an
   unsteady one leaves an entry of which nothing is claimed. *)
LEMMA SaveKeeps ==
    ASSUME StartupInv, NEW p \in Process, Write(p) \/ WriteSpoils(p) \/ SaveFails(p)
    PROVE  StartupInv'
<1>0. /\ UNCHANGED <<backend, current>> /\ cmd[p] \in Command /\ PhaseAgrees(p)
      /\ cache \in [Key -> Entry \cup {None}] /\ EntryIsNamed /\ SteadyIsCurrent(p)
      /\ Uses(p) /\ cmd[p].phase \in {"decided", "truncated"}
    BY DEF StartupInv, TypeOK, Write, WriteSpoils, SaveFails, At
<1>1. CASE SaveFails(p)
    <2>1. UNCHANGED cache
        BY <1>1 DEF SaveFails
    <2> QED BY <1>0, <2>1, LessIsNamed, UsesRight
<1>2. CASE WriteSpoils(p)
    <2>1. cache' = [cache EXCEPT ![cmd[p].key] = None]
        BY <1>2 DEF WriteSpoils
    <2>2. \A k \in Key : cache'[k] = cache[k] \/ cache'[k] = None
        BY <1>0, <2>1
    <2> QED BY <1>0, <2>1, <2>2, LessIsNamed, UsesRight
<1>3. CASE Write(p)
    <2>1. cmd[p].phase = "truncated" /\ cache' = [cache EXCEPT ![cmd[p].key] = Saved(p)]
        BY <1>3 DEF Write, At
    <2>2. /\ cmd[p].file \in File /\ cmd[p].tenant \in Tenant /\ cmd[p].key \in Key
          /\ cmd[p].context \in Context /\ cmd[p].edition \in Editions
        BY <1>0, <2>1 DEF Command, PhaseAgrees, At
    <2>3. 0 \in 0..CacheTTL
        BY StartupAssumption
    <2>4. Saved(p) \in Entry /\ Saved(p).of = (IF cmd[p].steady THEN OriginOf(p) ELSE None)
        BY <2>2, <2>3 DEF Saved, Entry, OriginOf, Origin
    <2>5. ASSUME NEW k \in Key, cache'[k] # None, cache'[k].of # None
          PROVE  \E f \in File : k = Identifier(f, cache'[k].of[1], cache'[k].of[2])
        <3>1. CASE k # cmd[p].key
            BY <1>0, <2>1, <2>5, <3>1 DEF EntryIsNamed
        <3>2. CASE k = cmd[p].key
            <4>1. cache'[k] = Saved(p)
                BY <1>0, <2>1, <3>2
            <4>2. /\ cmd[p].steady
                  /\ cache'[k].of[1] = cmd[p].context /\ cache'[k].of[2] = cmd[p].tenant
                BY <2>4, <2>5, <4>1 DEF OriginOf
            <4>3. k = Identifier(cmd[p].file, cmd[p].context, cmd[p].tenant)
                BY <1>0, <2>1, <3>2, <4>2 DEF SteadyIsCurrent, At
            <4> QED BY <2>2, <4>2, <4>3
        <3> QED BY <3>1, <3>2
    <2>6. EntryIsNamed'
        BY <2>5 DEF EntryIsNamed
    <2>7. cache' \in [Key -> Entry \cup {None}]
        BY <1>0, <2>1, <2>4
    <2> QED BY <1>0, <2>6, <2>7, UsesRight
<1> QED BY <1>1, <1>2, <1>3

(* The end of a command leaves nothing. *)
LEMMA ExitKeeps ==
    ASSUME StartupInv, NEW p \in Process, Exit(p) PROVE StartupInv'
<1>0. /\ UNCHANGED <<backend, current, cache>> /\ cmd \in [Process -> Command]
      /\ cache' \in [Key -> Entry \cup {None}] /\ EntryIsNamed'
      /\ cmd' = [cmd EXCEPT ![p] = NoCommand]
    BY DEF StartupInv, TypeOK, Exit, EntryIsNamed
<1>1. cmd'[p] = NoCommand
    BY <1>0
<1>2. NoCommand \in Command /\ cmd'[p].phase = "idle" /\ cmd'[p].tenant = None
    BY <1>1, NoCommandType
<1> QED BY <1>0, <1>2, NoCommandHolds, OneMoves

(* A switch of the context makes the commands that start unsteady; one that has
   opened its file has the name already. *)
LEMMA SwitchKeeps ==
    ASSUME StartupInv, NEW f \in File, SwitchContext(f) PROVE StartupInv'
<1>0. UNCHANGED <<backend, cache>> /\ cmd \in [Process -> Command] /\ current \in [File -> Context]
    BY DEF StartupInv, TypeOK, SwitchContext
<1>1. PICK c \in Context : current' = [current EXCEPT ![f] = c]
    BY DEF SwitchContext
<1>2. current' \in [File -> Context] /\ \A g \in File : g # f => current'[g] = current[g]
    BY <1>0, <1>1
<1>3. ASSUME NEW q \in Process
      PROVE  cmd'[q] \in Command /\ PhaseAgrees(q)' /\ SteadyIsCurrent(q)' /\ RunsRight(q)'
    <2>0. /\ cmd[q] \in Command /\ PhaseAgrees(q) /\ SteadyIsCurrent(q) /\ RunsRight(q)
          /\ cmd'[q] = IF cmd[q].file = f /\ cmd[q].phase \in Starting
                       THEN [cmd[q] EXCEPT !.steady = FALSE] ELSE cmd[q]
        BY <1>0 DEF StartupInv, EditionOfContext, SwitchContext
    <2>1. CASE cmd[q].file = f /\ cmd[q].phase \in Starting
        <3> DEFINE r == [cmd[q] EXCEPT !.steady = FALSE]
        <3>1. /\ r \in Command /\ r.phase = cmd[q].phase /\ r.steady = FALSE
              /\ r.file = cmd[q].file /\ r.tenant = cmd[q].tenant /\ r.context = cmd[q].context
              /\ r.edition = cmd[q].edition /\ r.key = cmd[q].key
            BY <2>0 DEF Command
        <3>2. cmd'[q] = r
            BY <2>0, <2>1
        <3> HIDE DEF r
        <3> QED BY <2>0, <2>1, <3>1, <3>2 DEF PhaseAgrees, SteadyIsCurrent, RunsRight, At, Starting
    <2>2. CASE ~(cmd[q].file = f /\ cmd[q].phase \in Starting)
        <3>1. cmd'[q] = cmd[q]
            BY <2>0, <2>2
        <3>2. PhaseAgrees(q)' /\ RunsRight(q)'
            BY <2>0, <3>1 DEF PhaseAgrees, RunsRight, Alike, At
        <3>3. cmd[q].phase \in Starting => cmd[q].file \in File /\ cmd[q].file # f
            BY <2>0, <2>2 DEF PhaseAgrees, Command
        <3>4. SteadyIsCurrent(q)'
            BY <1>2, <2>0, <3>1, <3>3 DEF SteadyIsCurrent, At
        <3> QED BY <2>0, <3>1, <3>2, <3>4
    <2> QED BY <2>1, <2>2
<1>4. cmd' \in [Process -> Command]
    <2>1. cmd' = [q \in Process |-> cmd'[q]]
        BY DEF SwitchContext
    <2> QED BY <1>3, <2>1
<1>5. TypeOK' /\ EntryIsNamed'
    BY <1>0, <1>2, <1>4 DEF StartupInv, TypeOK, EntryIsNamed
<1> QED BY <1>3, <1>5 DEF StartupInv, EditionOfContext

(* Nothing in the invariant is about what a cluster shows now. *)
LEMMA BackendKeeps ==
    ASSUME StartupInv, NEW c \in Context, BackendChanges(c) PROVE StartupInv'
<1>1. UNCHANGED <<current, cache, cmd>>
    BY DEF BackendChanges
<1>2. PICK b \in Backends[c] : backend' = [backend EXCEPT ![c] = b]
    BY DEF BackendChanges
<1>3. b \in Backend
    BY <1>2, StartupAssumption
<1>4. TypeOK'
    BY <1>1, <1>2, <1>3 DEF StartupInv, TypeOK
<1> QED BY <1>1, <1>4
        DEF StartupInv, EntryIsNamed, PhaseAgrees, SteadyIsCurrent, EditionOfContext, RunsRight,
            Alike, At

(* An entry that gets older keeps its name. *)
LEMMA TickKeeps ==
    ASSUME StartupInv, Tick PROVE StartupInv'
<1>0. /\ UNCHANGED <<backend, current, cmd>> /\ cache \in [Key -> Entry \cup {None}]
      /\ cache' = [k \in Key |-> Older(cache[k])] /\ EntryIsNamed
    BY DEF StartupInv, TypeOK, Tick
<1>1. ASSUME NEW k \in Key, cache'[k] # None
      PROVE  cache'[k] \in Entry /\ cache[k] # None /\ cache'[k].of = cache[k].of
    <2>1. /\ cache[k] # None /\ cache[k].age # CacheTTL
          /\ cache'[k] = [cache[k] EXCEPT !.age = cache[k].age + 1]
        BY <1>0, <1>1 DEF Older
    <2>2. cache[k] \in Entry
        BY <1>0, <2>1
    <2>3. cache[k].age + 1 \in 0..CacheTTL
        BY <2>1, <2>2, StartupAssumption DEF Entry
    <2> QED BY <2>1, <2>2, <2>3 DEF Entry
<1>2. cache' \in [Key -> Entry \cup {None}]
    BY <1>0, <1>1
<1>3. EntryIsNamed'
    BY <1>0, <1>1 DEF EntryIsNamed
<1> QED BY <1>0, <1>2, <1>3
        DEF StartupInv, TypeOK, PhaseAgrees, SteadyIsCurrent, EditionOfContext, RunsRight, Alike, At

(* There is no file at first, and no command. *)
LEMMA StartupStarts == Init => StartupInv
<1> SUFFICES ASSUME Init PROVE StartupInv
    OBVIOUS
<1>1. TypeOK
    BY NoCommandType DEF Init, TypeOK
<1>2. \A p \in Process : cmd[p].phase = "idle"
    BY NoCommandType DEF Init
<1>3. EntryIsNamed
    BY DEF Init, EntryIsNamed
<1> QED BY <1>1, <1>2, <1>3
        DEF StartupInv, PhaseAgrees, SteadyIsCurrent, EditionOfContext, RunsRight, At, Starting

(* The invariant of the startup of commands: types, what a command has in each
   phase, and for whom the entries of the cache speak (cmd/root.go 127-181,
   internal/cache/edition.go), whatever other processes and the user do. *)
THEOREM StartupInvariance == Spec => []StartupInv
<1>1. StartupInv /\ [Next]_svars => StartupInv'
    <2> SUFFICES ASSUME StartupInv, [Next]_svars PROVE StartupInv'
        OBVIOUS
    <2>1. ASSUME NEW p \in Process, Start(p) PROVE StartupInv'
        BY <2>1, StartKeeps
    <2>2. ASSUME NEW p \in Process, StartupStep(p) PROVE StartupInv'
        BY <2>2, ConfigKeeps, HitKeeps, DetectionKeeps, TruncateKeeps, SaveKeeps DEF StartupStep
    <2>3. ASSUME NEW p \in Process, Exit(p) PROVE StartupInv'
        BY <2>3, ExitKeeps
    <2>4. ASSUME NEW f \in File, SwitchContext(f) PROVE StartupInv'
        BY <2>4, SwitchKeeps
    <2>5. ASSUME NEW c \in Context, BackendChanges(c) PROVE StartupInv'
        BY <2>5, BackendKeeps
    <2>6. CASE Tick
        BY <2>6, TickKeeps
    <2>7. CASE UNCHANGED svars
        BY <2>7 DEF svars, StartupInv, TypeOK, EntryIsNamed, PhaseAgrees, SteadyIsCurrent,
                    EditionOfContext, RunsRight, Alike, At
    <2> QED BY <2>1, <2>2, <2>3, <2>4, <2>5, <2>6, <2>7 DEF Next
<1> QED BY <1>1, StartupStarts, PTL DEF Spec

(* A command of a tenant never runs with the edition of another cluster than that
   of its client, as long as no context is switched under a command that starts
   and the names of the two are not joined to the same one. *)
THEOREM EditionsKeptApart == Spec => []EditionOfContext
<1>1. StartupInv => EditionOfContext
    BY DEF StartupInv
<1> QED BY <1>1, StartupInvariance, PTL
-----------------------------------------------------------------------------
(* Two sequences that go on from beginnings of one length are equal only if they
   begin and go on alike. *)
LEMMA SplitsOnce ==
    ASSUME NEW S, NEW s \in Seq(S), NEW t \in Seq(S), NEW u \in Seq(S), NEW v \in Seq(S),
           Len(s) = Len(t), s \o u = t \o v
    PROVE  s = t /\ u = v
<1>1. \A i \in 1..Len(s) : s[i] = t[i]
    <2>1. ASSUME NEW i \in 1..Len(s) PROVE s[i] = t[i]
        <3>1. i \in 1..(Len(s) + Len(u)) /\ i \in 1..(Len(t) + Len(v))
            OBVIOUS
        <3>2. (s \o u)[i] = s[i] /\ (t \o v)[i] = t[i]
            BY <3>1, ConcatProperties
        <3> QED BY <3>2
    <2> QED BY <2>1
<1>2. s = t
    BY <1>1, SeqEqual
<1>3. u = v
    BY <1>2, ConcatSimplifications
<1> QED BY <1>2, <1>3

(* The file of a cache is told apart by its three names (getCacheFilePath joins
   them by dashes) where the names of a kind have equally many dashes: only a dash
   that can belong to either of two neighbours makes two files one. *)
THEOREM UniformNamesAreDistinct ==
    ASSUME NEW Word, File \subseteq Seq(Word), Context \subseteq Seq(Word),
           Tenant \subseteq Seq(Word), NEW m, NEW n,
           \A f \in File : Len(f) = m, \A c \in Context : Len(c) = n
    PROVE  DistinctNames
<1> SUFFICES ASSUME NEW f \in File, NEW g \in File, NEW c \in Context, NEW d \in Context,
                    NEW t \in Tenant, NEW u \in Tenant,
                    Identifier(f, c, t) = Identifier(g, d, u)
             PROVE  f = g /\ c = d /\ t = u
    BY DEF DistinctNames
<1>1. /\ f \in Seq(Word) /\ g \in Seq(Word) /\ c \in Seq(Word)
      /\ d \in Seq(Word) /\ t \in Seq(Word) /\ u \in Seq(Word)
      /\ Len(f) = Len(g) /\ Len(c) = Len(d)
    OBVIOUS
<1>2. \A s1, s2, s3 \in Seq(Word) : (s1 \o s2) \o s3 = s1 \o (s2 \o s3)
    <2> TAKE s1, s2, s3 \in Seq(Word)
    <2> QED BY ONLY ConcatAssociative, s1 \in Seq(Word), s2 \in Seq(Word), s3 \in Seq(Word)
<1>3. \A s1, s2, s3, s4 \in Seq(Word) :
          Len(s1) = Len(s2) /\ s1 \o s3 = s2 \o s4 => s1 = s2 /\ s3 = s4
    BY SplitsOnce
<1>4. c \o t \in Seq(Word) /\ d \o u \in Seq(Word)
    BY <1>1, ConcatProperties
<1>5. f \o (c \o t) = g \o (d \o u)
    <2>1. (f \o c) \o t = f \o (c \o t)
        <3>1. f \in Seq(Word) /\ c \in Seq(Word) /\ t \in Seq(Word)
            BY <1>1
        <3> QED BY ONLY <1>2, <3>1, ZenonT(60)
    <2>2. (g \o d) \o u = g \o (d \o u)
        <3>1. g \in Seq(Word) /\ d \in Seq(Word) /\ u \in Seq(Word)
            BY <1>1
        <3> QED BY ONLY <1>2, <3>1, ZenonT(60)
    <2>3. (f \o c) \o t = (g \o d) \o u
        BY DEF Identifier
    <2> QED BY ONLY <2>1, <2>2, <2>3, Zenon
<1>6. f = g /\ c \o t = d \o u
    <2>1. \A s3, s4 \in Seq(Word) : f \o s3 = g \o s4 => f = g /\ s3 = s4
        BY <1>1, <1>3, ZenonT(60)
    <2> QED BY <1>4, <1>5, <2>1, ZenonT(60)
<1>7. c = d /\ t = u
    BY <1>1, <1>3, <1>6, ZenonT(60)
<1> QED BY <1>6, <1>7

(* With such names a command goes on with an edition that was determined at its
   own cluster and for its own tenant, whatever other commands, switches and unfinished writes do. *)
THEOREM EditionIsOwn == Spec => []OwnEdition
<1>1. StartupInv => OwnEdition
    <2> SUFFICES ASSUME StartupInv, DistinctNames, NEW p \in Process,
                        At(p, "running"), cmd[p].tenant # None, cmd[p].of # None
                 PROVE  cmd[p].of = OriginOf(p)
        BY DEF OwnEdition
    <2>1. PhaseAgrees(p) /\ RunsRight(p) /\ cmd[p] \in Command
        BY DEF StartupInv, EditionOfContext, TypeOK
    <2>2. /\ cmd[p].file \in File /\ cmd[p].context \in Context
          /\ cmd[p].tenant \in Tenant /\ cmd[p].of \in Origin
        BY <2>1 DEF PhaseAgrees, Command
    <2>3. Alike(cmd[p].of, p)
        BY <2>1 DEF RunsRight
    <2>4. cmd[p].of[1] \in Context /\ cmd[p].of[2] \in Tenant
        BY <2>2 DEF Origin
    <2>5. cmd[p].of[1] = cmd[p].context /\ cmd[p].of[2] = cmd[p].tenant
        BY <2>2, <2>3, <2>4 DEF Alike, DistinctNames
    <2> QED BY <2>2, <2>5 DEF Origin, OriginOf
<1> QED BY <1>1, StartupInvariance, PTL
-----------------------------------------------------------------------------
(* What is right stays right.  The edition that is found depends on the first
   TenantState, then on the second, then on the CRD. *)
LEMMA EditionFound ==
    ASSUME NEW b \in Views
    PROVE  /\ b.default \in Editions => Edition(b) = b.default
           /\ b.default = "absent" /\ b.named \in Editions => Edition(b) = b.named
           /\ b.default = "silent" \/ (b.default = "absent" /\ b.named \notin Editions) =>
                 Edition(b) = IF b.tunnels THEN "EE" ELSE "CE"
BY DEF Edition, Views, States, Editions

(* What a tenant sees is a view. *)
LEMMA ViewType ==
    ASSUME backend \in [Context -> Backend], NEW c \in Context, NEW t \in Tenant
    PROVE  View(c, t) \in Views
<1>1. backend[c] \in Backend
    OBVIOUS
<1>2. /\ backend[c].default[t] \in States /\ backend[c].named[t] \in States
      /\ backend[c].tunnels \in BOOLEAN
    BY <1>1 DEF Backend
<1> QED BY <1>2 DEF View, Views

(* What another command has found stays what it was. *)
LEMMA FoundKept ==
    ASSUME NEW q, FoundRight(q), cmd'[q] = cmd[q], UNCHANGED <<backend, current>>
    PROVE  FoundRight(q)'
BY DEF FoundRight, At, Shown, View

(* A file that only loses what it holds, or ages, holds nothing wrong. *)
LEMMA FilesKept ==
    ASSUME FilesAreRight, UNCHANGED backend,
           \A k \in Key : cache'[k] # None =>
               cache[k] # None /\ cache'[k].edition = cache[k].edition
    PROVE  FilesAreRight'
<1> SUFFICES ASSUME NEW f \in File, NEW c \in Context, NEW t \in Tenant,
                    cache'[Identifier(f, c, t)] # None
             PROVE  cache'[Identifier(f, c, t)].edition = Edition(View(c, t))
    BY DEF FilesAreRight, View
<1>1. Identifier(f, c, t) \in Key /\ View(c, t)' = View(c, t)
    BY KeyType DEF View
<1> QED BY <1>1 DEF FilesAreRight

(* One command moves, and what it has found is right. *)
LEMMA MoveIsRight ==
    ASSUME StartupInv, AllRight, NEW p \in Process, NEW r, cmd' = [cmd EXCEPT ![p] = r],
           UNCHANGED <<backend, current>>, FilesAreRight', FoundRight(p)',
           cmd[p].phase # "running" /\ r.phase = "running" /\ r.tenant # None =>
               r.edition = Edition(Shown(p))
    PROVE  AllRight' /\ StartsRight
<1>1. cmd'[p] = r /\ \A q \in Process : q # p => cmd'[q] = cmd[q]
    BY DEF StartupInv, TypeOK
<1>2. \A q \in Process : FoundRight(q)'
    BY <1>1, FoundKept DEF AllRight
<1>3. StartsRight
    BY <1>1 DEF StartsRight, At
<1> QED BY <1>2, <1>3 DEF AllRight

(* A command that has found nothing yet, or has no use for it, can be wrong in nothing. *)
LEMMA NothingFound ==
    ASSUME NEW p, cmd'[p].phase \in {"idle", "failed", "resolved", "running"}
    PROVE  FoundRight(p)'
BY DEF FoundRight, At, Starting

(* Before a command knows its cluster it finds nothing, and after its end. *)
LEMMA EndsAreRight ==
    ASSUME StartupInv, AllRight, NEW p \in Process, UNCHANGED <<backend, current>>,
           Start(p) \/ ConfigFails(p) \/ Exit(p)
    PROVE  AllRight' /\ StartsRight
<1>0. cmd \in [Process -> Command] /\ UNCHANGED cache
    BY DEF StartupInv, TypeOK, Start, ConfigFails, Exit
<1>1. FilesAreRight'
    BY <1>0, FilesKept DEF AllRight
<1>2. PICK r : /\ cmd' = [cmd EXCEPT ![p] = r]
               /\ r.phase \in {"idle", "failed", "resolved", "running"}
               /\ r.phase = "running" => r.tenant = None
    <2>1. CASE Exit(p)
        BY <2>1, NoCommandType DEF Exit
    <2>2. CASE Ends(p)
        BY <2>2, NoCommandType DEF Ends
    <2>3. ASSUME NEW file, NEW tenant,
                 cmd' = [cmd EXCEPT ![p] = [NoCommand EXCEPT
                           !.phase = "resolved", !.file = file, !.tenant = tenant]]
          PROVE  \E r : /\ cmd' = [cmd EXCEPT ![p] = r]
                        /\ r.phase \in {"idle", "failed", "resolved", "running"}
                        /\ r.phase = "running" => r.tenant = None
        <3>1. [NoCommand EXCEPT !.phase = "resolved", !.file = file, !.tenant = tenant].phase
                  = "resolved"
            BY DEF NoCommand
        <3> QED BY <2>3, <3>1
    <2>4. CASE cmd' = [cmd EXCEPT ![p] = [NoCommand EXCEPT !.phase = "running"]]
        BY <2>4, NoCommandType
    <2>5. CASE Start(p)
        <3>1. \/ cmd' = [cmd EXCEPT ![p] = [NoCommand EXCEPT !.phase = "running"]]
              \/ Ends(p)
              \/ \E file, tenant : cmd' = [cmd EXCEPT ![p] = [NoCommand EXCEPT
                                         !.phase = "resolved", !.file = file, !.tenant = tenant]]
            BY <2>5 DEF Start
        <3> QED BY <2>2, <2>3, <2>4, <3>1
    <2> QED BY <2>1, <2>2, <2>5 DEF ConfigFails
<1>3. FoundRight(p)'
    BY <1>0, <1>2, NothingFound
<1> QED BY <1>1, <1>2, <1>3, MoveIsRight

(* A client is built for the context that is current, and a miss finds nothing. *)
LEMMA ConfigIsRight ==
    ASSUME StartupInv, AllRight, NEW p \in Process, UNCHANGED <<backend, current>>,
           CreateKubernetesConfig(p) \/ LoadMisses(p)
    PROVE  AllRight' /\ StartsRight
<1>0. /\ cmd \in [Process -> Command] /\ cmd[p] \in Command /\ UNCHANGED cache
      /\ PhaseAgrees(p) /\ FoundRight(p)
    BY DEF StartupInv, TypeOK, CreateKubernetesConfig, LoadMisses, AllRight
<1>1. FilesAreRight'
    BY <1>0, FilesKept DEF AllRight
<1>2. CASE CreateKubernetesConfig(p)
    <2>1. PICK phase \in {"running", "configured"} :
             /\ cmd' = [cmd EXCEPT ![p] =
                   [cmd[p] EXCEPT !.context = current[cmd[p].file], !.phase = phase]]
             /\ phase = "running" <=> cmd[p].tenant = None
        BY <1>2 DEF CreateKubernetesConfig
    <2> DEFINE r == [cmd[p] EXCEPT !.context = current[cmd[p].file], !.phase = phase]
    <2>2. /\ r.phase = phase /\ r.context = current[cmd[p].file] /\ r.file = cmd[p].file
          /\ r.tenant = cmd[p].tenant
        BY <1>0 DEF Command
    <2>3. cmd'[p] = r /\ cmd' = [cmd EXCEPT ![p] = r]
        BY <1>0, <2>1
    <2> HIDE DEF r
    <2>4. FoundRight(p)'
        BY <2>2, <2>3 DEF FoundRight, At, Starting
    <2> QED BY <1>1, <2>1, <2>2, <2>3, <2>4, MoveIsRight
<1>3. CASE LoadMisses(p)
    <2> DEFINE r == [cmd[p] EXCEPT !.phase = "default"]
    <2>1. /\ cmd[p].phase = "configured" /\ r.phase = "default" /\ r.file = cmd[p].file
          /\ r.context = cmd[p].context
        BY <1>0, <1>3 DEF LoadMisses, At, Command
    <2>2. cmd'[p] = r /\ cmd' = [cmd EXCEPT ![p] = r]
        BY <1>0, <1>3 DEF LoadMisses
    <2> HIDE DEF r
    <2>3. FoundRight(p)'
        BY <1>0, <2>1, <2>2 DEF FoundRight, At, Starting
    <2> QED BY <1>1, <2>1, <2>2, <2>3, MoveIsRight
<1> QED BY <1>2, <1>3

(* A hit is of the command's own cluster. *)
LEMMA HitIsRight ==
    ASSUME StartupInv, AllRight, NEW p \in Process, UNCHANGED <<backend, current>>, LoadHits(p)
    PROVE  AllRight' /\ StartsRight
<1>0. /\ cmd \in [Process -> Command] /\ cmd[p] \in Command /\ UNCHANGED cache
      /\ PhaseAgrees(p) /\ FoundRight(p) /\ cmd[p].phase = "configured" /\ TypeOK
    BY DEF StartupInv, TypeOK, LoadHits, AllRight, At
<1>1. FilesAreRight'
    BY <1>0, FilesKept DEF AllRight
<1>2. /\ cmd[p].file \in File /\ cmd[p].tenant \in Tenant /\ cmd[p].context \in Context
      /\ cmd[p].context = current[cmd[p].file]
    BY <1>0, KeyOfType DEF FoundRight, Starting
<1>3. cache[KeyOf(p)].edition = Edition(Shown(p))
    BY <1>2 DEF LoadHits, KeyOf, AllRight, FilesAreRight, Shown
<1> DEFINE of == IF cmd[p].steady THEN cache[KeyOf(p)].of ELSE None
           r  == [cmd[p] EXCEPT !.phase = "running", !.edition = cache[KeyOf(p)].edition,
                                !.of = of, !.steady = TRUE]
<1>4. r.phase = "running" /\ r.edition = cache[KeyOf(p)].edition
    BY <1>0 DEF Command
<1>5. cmd'[p] = r /\ cmd' = [cmd EXCEPT ![p] = r]
    BY <1>0 DEF LoadHits
<1> HIDE DEF r
<1>6. FoundRight(p)'
    BY <1>4, <1>5, NothingFound
<1> QED BY <1>1, <1>3, <1>4, <1>5, <1>6, MoveIsRight

(* A call that does not fail leads on to the edition that the cluster shows. *)
LEMMA CallIsRight ==
    ASSUME StartupInv, AllRight, NEW p \in Process, UNCHANGED <<backend, current>>,
           GetDefault(p) \/ GetNamed(p) \/ GetCRD(p)
    PROVE  AllRight' /\ StartsRight
<1>0. /\ cmd \in [Process -> Command] /\ cmd[p] \in Command /\ UNCHANGED cache
      /\ PhaseAgrees(p) /\ FoundRight(p) /\ cmd[p].phase \in {"default", "named", "crd"} /\ TypeOK
    BY DEF StartupInv, TypeOK, GetDefault, GetNamed, GetCRD, AllRight, At
<1>1. FilesAreRight'
    BY <1>0, FilesKept DEF AllRight
<1>2. /\ cmd[p].context \in Context /\ cmd[p].context = current[cmd[p].file]
      /\ Shown(p) \in Views
    BY <1>0, KeyOfType, ViewType DEF FoundRight, Starting, Shown, TypeOK
<1>3. ASSUME NEW phase \in {"named", "crd"}, cmd' = [cmd EXCEPT ![p].phase = phase],
             phase = "named" => Shown(p).default = "absent",
             phase = "crd" => \/ Shown(p).default = "silent"
                              \/ Shown(p).default = "absent" /\ Shown(p).named \notin Editions
      PROVE  AllRight' /\ StartsRight
    <2> DEFINE r == [cmd[p] EXCEPT !.phase = phase]
    <2>1. /\ r.phase = phase /\ r.file = cmd[p].file /\ r.context = cmd[p].context
          /\ r.tenant = cmd[p].tenant
        BY <1>0 DEF Command
    <2>2. cmd'[p] = r /\ cmd' = [cmd EXCEPT ![p] = r]
        BY <1>0, <1>3
    <2> HIDE DEF r
    <2>4. Shown(p)' = Shown(p)
        BY <2>1, <2>2 DEF Shown, View
    <2>3. FoundRight(p)'
        BY <1>2, <1>3, <2>1, <2>2, <2>4 DEF FoundRight, At
    <2> QED BY <1>1, <2>1, <2>2, <2>3, MoveIsRight
<1>4. ASSUME NEW edition, Decides(p, edition), edition = Edition(Shown(p))
      PROVE  AllRight' /\ StartsRight
    <2> DEFINE r == [cmd[p] EXCEPT !.phase = "decided", !.edition = edition]
    <2>1. /\ r.phase = "decided" /\ r.file = cmd[p].file /\ r.context = cmd[p].context
          /\ r.edition = edition /\ r.tenant = cmd[p].tenant
        BY <1>0 DEF Command
    <2>2. cmd'[p] = r /\ cmd' = [cmd EXCEPT ![p] = r]
        BY <1>0, <1>4 DEF Decides
    <2> HIDE DEF r
    <2>4. Shown(p)' = Shown(p)
        BY <2>1, <2>2 DEF Shown, View
    <2>3. FoundRight(p)'
        BY <1>2, <1>4, <2>1, <2>2, <2>4 DEF FoundRight, At
    <2> QED BY <1>1, <2>1, <2>2, <2>3, MoveIsRight
<1>5. CASE GetDefault(p)
    BY <1>2, <1>3, <1>4, <1>5, EditionFound DEF GetDefault
<1>6. CASE GetNamed(p)
    <2>1. Shown(p).default = "absent"
        BY <1>0, <1>6 DEF GetNamed, FoundRight, At
    <2> QED BY <1>2, <1>3, <1>4, <1>6, <2>1, EditionFound DEF GetNamed
<1>7. CASE GetCRD(p)
    <2>1. \/ Shown(p).default = "silent"
          \/ Shown(p).default = "absent" /\ Shown(p).named \notin Editions
        BY <1>0, <1>7 DEF GetCRD, FoundRight, At
    <2> QED BY <1>2, <1>4, <1>7, <2>1, EditionFound DEF GetCRD
<1> QED BY <1>5, <1>6, <1>7

(* What is saved is saved under the name of its cluster, and of no other one. *)
LEMMA SaveIsRight ==
    ASSUME StartupInv, AllRight, DistinctNames, NEW p \in Process, UNCHANGED <<backend, current>>,
           Truncate(p) \/ Write(p) \/ WriteSpoils(p) \/ SaveFails(p)
    PROVE  AllRight' /\ StartsRight
<1>0. /\ cmd \in [Process -> Command] /\ cmd[p] \in Command /\ PhaseAgrees(p) /\ FoundRight(p)
      /\ cmd[p].phase \in {"decided", "truncated"} /\ TypeOK /\ cache \in [Key -> Entry \cup {None}]
    BY DEF StartupInv, TypeOK, Truncate, Write, WriteSpoils, SaveFails, AllRight, At
<1>1. /\ cmd[p].file \in File /\ cmd[p].tenant \in Tenant /\ cmd[p].context \in Context
      /\ cmd[p].edition = Edition(Shown(p))
    BY <1>0 DEF Command, PhaseAgrees, Starting, FoundRight
<1>2. ASSUME UNCHANGED cache PROVE FilesAreRight'
    BY <1>2, FilesKept DEF AllRight
<1>3. ASSUME NEW k, cache' = [cache EXCEPT ![k] = None] PROVE FilesAreRight'
    <2>1. \A j \in Key : cache'[j] # None => cache'[j] = cache[j]
        BY <1>0, <1>3
    <2> QED BY <2>1, FilesKept DEF AllRight
<1>4. CASE Truncate(p)
    <2> DEFINE r == [cmd[p] EXCEPT !.phase = "truncated", !.key = KeyOf(p)]
    <2>1. /\ r.phase = "truncated" /\ r.key = KeyOf(p) /\ r.file = cmd[p].file
          /\ r.context = cmd[p].context /\ r.tenant = cmd[p].tenant /\ r.edition = cmd[p].edition
        BY <1>0 DEF Command
    <2>2. cmd'[p] = r /\ cmd' = [cmd EXCEPT ![p] = r]
        BY <1>0, <1>4 DEF Truncate
    <2>3. cmd[p].context = current[cmd[p].file]
        BY <1>0, <1>4 DEF Truncate, At, FoundRight, Starting
    <2>4. KeyOf(p) = Identifier(cmd[p].file, cmd[p].context, cmd[p].tenant)
        BY <2>3 DEF KeyOf
    <2> HIDE DEF r
    <2>7. Shown(p)' = Shown(p)
        BY <2>1, <2>2 DEF Shown, View
    <2>5. FoundRight(p)'
        BY <1>1, <2>1, <2>2, <2>4, <2>7 DEF FoundRight, At, Starting
    <2>6. FilesAreRight'
        BY <1>3, <1>4 DEF Truncate
    <2> QED BY <2>1, <2>2, <2>5, <2>6, MoveIsRight
<1>5. ASSUME Uses(p), FilesAreRight' PROVE AllRight' /\ StartsRight
    <2> DEFINE r == [cmd[p] EXCEPT !.phase = "running", !.of = OriginOf(p), !.key = None,
                                   !.steady = TRUE]
    <2>1. r.phase = "running" /\ r.edition = cmd[p].edition
        BY <1>0 DEF Command
    <2>2. cmd'[p] = r /\ cmd' = [cmd EXCEPT ![p] = r]
        BY <1>0, <1>5 DEF Uses
    <2> HIDE DEF r
    <2>3. FoundRight(p)'
        BY <2>1, <2>2, NothingFound
    <2> QED BY <1>1, <1>5, <2>1, <2>2, <2>3, MoveIsRight
<1>6. CASE Write(p)
    <2>1. /\ cmd[p].key = Identifier(cmd[p].file, cmd[p].context, cmd[p].tenant)
          /\ cache' = [cache EXCEPT ![cmd[p].key] = Saved(p)]
        BY <1>0, <1>6 DEF Write, At, FoundRight
    <2>2. Saved(p).edition = Edition(Shown(p))
        BY <1>1 DEF Saved
    <2>3. ASSUME NEW f \in File, NEW c \in Context, NEW t \in Tenant,
                 cache'[Identifier(f, c, t)] # None
          PROVE  cache'[Identifier(f, c, t)].edition = Edition(View(c, t))
        <3>1. Identifier(f, c, t) \in Key
            BY KeyType
        <3>2. CASE Identifier(f, c, t) = cmd[p].key
            <4>1. c = cmd[p].context /\ t = cmd[p].tenant /\ View(c, t)' = View(c, t)
                BY <1>1, <2>1, <3>2 DEF DistinctNames, View
            <4>2. cache'[Identifier(f, c, t)] = Saved(p)
                BY <1>0, <2>1, <3>1, <3>2
            <4> QED BY <2>2, <4>1, <4>2 DEF Shown
        <3>3. CASE Identifier(f, c, t) # cmd[p].key
            <4>1. cache'[Identifier(f, c, t)] = cache[Identifier(f, c, t)]
                BY <1>0, <2>1, <3>1, <3>3
            <4> QED BY <2>3, <4>1 DEF AllRight, FilesAreRight
        <3> QED BY <3>2, <3>3
    <2>4. FilesAreRight'
        BY <2>3 DEF FilesAreRight, View
    <2> QED BY <1>5, <1>6, <2>4 DEF Write
<1>7. CASE WriteSpoils(p)
    BY <1>3, <1>5, <1>7 DEF WriteSpoils
<1>8. CASE SaveFails(p)
    BY <1>2, <1>5, <1>8 DEF SaveFails
<1> QED BY <1>4, <1>6, <1>7, <1>8

(* The cache and the detection give a command the edition that its cluster shows, in
   a state from which all is right and for as long as nobody changes a cluster or a
   context and no call fails: for every number of processes, with any of them ending
   anywhere, misses, failed and spoilt writes included. *)
THEOREM RightOnceAndForAll == Spec => RightStays
<1>1. ASSUME StartupInv, DistinctNames, AllRight, Calm, Next PROVE AllRight' /\ StartsRight
    <2>0. UNCHANGED <<backend, current>>
        BY <1>1 DEF Calm
    <2>1. ASSUME NEW p \in Process, Start(p) \/ Exit(p) PROVE AllRight' /\ StartsRight
        BY <1>1, <2>0, <2>1, EndsAreRight
    <2>2. ASSUME NEW p \in Process, StartupStep(p) PROVE AllRight' /\ StartsRight
        <3>1. GetFails(p) => GetDefault(p) \/ GetNamed(p) \/ GetCRD(p)
            BY <1>1 DEF Calm, CallFails
        <3> QED BY <1>1, <2>0, <2>2, <3>1, EndsAreRight, ConfigIsRight, HitIsRight, CallIsRight, SaveIsRight
                DEF StartupStep
    <2>3. ASSUME UNCHANGED cmd,
                 \A k \in Key : cache'[k] # None =>
                     cache[k] # None /\ cache'[k].edition = cache[k].edition
          PROVE  AllRight' /\ StartsRight
        <3>1. \A p \in Process : FoundRight(p)'
            BY <1>1, <2>0, <2>3, FoundKept DEF AllRight
        <3>2. FilesAreRight'
            BY <1>1, <2>0, <2>3, FilesKept DEF AllRight
        <3>3. StartsRight
            BY <2>3 DEF StartsRight, At
        <3> QED BY <3>1, <3>2, <3>3 DEF AllRight
    <2>4. CASE Tick
        <3>1. ASSUME NEW k \in Key, cache'[k] # None
              PROVE  cache[k] # None /\ cache'[k].edition = cache[k].edition
            <4>1. cache[k] # None /\ cache'[k] = [cache[k] EXCEPT !.age = cache[k].age + 1]
                BY <2>4, <3>1 DEF Tick, Older
            <4>2. cache[k] \in Entry
                BY <1>1, <4>1 DEF StartupInv, TypeOK
            <4> QED BY <4>1, <4>2 DEF Entry
        <3> QED BY <2>3, <2>4, <3>1 DEF Tick
    <2>5. ASSUME NEW f \in File, SwitchContext(f) PROVE FALSE
        <3>1. current \in [File -> Context]
            BY <1>1 DEF StartupInv, TypeOK
        <3>2. PICK c \in Context \ {current[f]} : current' = [current EXCEPT ![f] = c]
            BY <2>5 DEF SwitchContext
        <3> QED BY <2>0, <3>1, <3>2
    <2>6. ASSUME NEW c \in Context, BackendChanges(c) PROVE FALSE
        <3>1. backend \in [Context -> Backend]
            BY <1>1 DEF StartupInv, TypeOK
        <3>2. PICK b \in Backends[c] \ {backend[c]} : backend' = [backend EXCEPT ![c] = b]
            BY <2>6 DEF BackendChanges
        <3> QED BY <2>0, <3>1, <3>2
    <2> QED BY <1>1, <2>1, <2>2, <2>4, <2>5, <2>6 DEF Next
<1>2. StartupInv /\ [Next]_svars =>
          [DistinctNames /\ AllRight /\ Calm => AllRight' /\ StartsRight]_svars
    BY <1>1
<1> QED BY <1>2, StartupInvariance, PTL DEF Spec, RightStays

(* From the beginning, when there are no files: while nothing changes and no call
   fails, every command starts with the edition of its cluster. *)
THEOREM CalmStartsRight ==
    ASSUME DistinctNames
    PROVE  Spec /\ [][Calm]_svars => []AllRight /\ [][StartsRight]_svars
<1>1. Init => AllRight
    <2> SUFFICES ASSUME Init PROVE AllRight
        OBVIOUS
    <2>1. \A p \in Process : FoundRight(p)
        BY NoCommandType DEF Init, FoundRight, At, Starting
    <2>2. FilesAreRight
        BY KeyType DEF Init, FilesAreRight
    <2> QED BY <2>1, <2>2 DEF AllRight
<1>2. AllRight /\ [DistinctNames /\ AllRight /\ Calm => AllRight' /\ StartsRight]_svars
          /\ [Calm]_svars => AllRight' /\ [StartsRight]_svars
    <2> SUFFICES ASSUME AllRight, [DistinctNames /\ AllRight /\ Calm => AllRight' /\ StartsRight]_svars,
                        [Calm]_svars
                 PROVE  AllRight' /\ [StartsRight]_svars
        OBVIOUS
    <2>1. CASE UNCHANGED svars
        BY <2>1, FoundKept DEF svars, AllRight, FilesAreRight, FoundRight, At, Shown, View
    <2>2. CASE Calm /\ (DistinctNames /\ AllRight /\ Calm => AllRight' /\ StartsRight)
        BY <2>2
    <2> QED BY <2>1, <2>2
<1> QED BY <1>1, <1>2, RightOnceAndForAll, PTL DEF Spec, RightStays
================================================================================
