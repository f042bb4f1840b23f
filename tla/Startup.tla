------------------------------- MODULE Startup --------------------------------
(***************************************************************************)
(* What every command does before its own work (cmd/root.go): resolve the  *)
(* configuration (internal/config), build a client, and for commands of a  *)
(* tenant find out the edition of KubeLB, from a file that remembers it    *)
(* (internal/cache) or from the cluster (internal/edition).                *)
(*                                                                         *)
(* Commands run side by side, in any number of processes that share the    *)
(* kubeconfig and the cache files.  The kubeconfig is read anew at every   *)
(* use and the user may switch its context in between; a call may fail,    *)
(* also because the user interrupts it; a process may end anywhere.        *)
(*                                                                         *)
(* Names are tuples of words, what they are joined from by dashes.         *)
(***************************************************************************)
EXTENDS Naturals, Sequences

CONSTANTS
    Process,     \* the processes, each one command after another
    File,        \* paths of kubeconfigs
    Context,     \* the contexts in them, each with a cluster of its own
    Tenant,      \* tenant names
    Backends,    \* what the cluster of each context may come to show of its edition
    CacheTTL,    \* in units of time that are long for a command
    None         \* nothing: no flag, no variable, no usable content

Editions == {"CE", "EE"}

(* The TenantStates of either name that the detection looks for, in the namespace
   of each tenant: absent, saying the edition, or without one; and the CRD of
   tunnels, which is the cluster's. *)
States == {"absent", "silent"} \cup Editions

Backend == [default : [Tenant -> States], named : [Tenant -> States], tunnels : BOOLEAN]

(* getCacheFilePath hashes the three names with dashes between them. *)
Identifier(f, c, t) == f \o c \o t

Key == {Identifier(f, c, t) : f \in File, c \in Context, t \in Tenant}

(* of is a ghost: at the cluster of which context, and in the namespace of which
   tenant, the edition was determined, or None if that cannot be told any more
   because the context was switched in the midst of a command's start. *)
Origin == Context \X Tenant

Entry == [edition : Editions, age : 0..CacheTTL, of : Origin \cup {None}]

ASSUME StartupAssumption ==
    /\ CacheTTL \in Nat
    /\ Backends \in [Context -> SUBSET Backend]
    /\ None \notin File \cup Context \cup Tenant \cup Key \cup Editions \cup Origin
    /\ None \notin Entry

VARIABLES
    backend,     \* what each cluster shows
    current,     \* the current context of each kubeconfig
    cache,       \* the usable content of each cache file
    cmd          \* what each process is at

svars == <<backend, current, cache, cmd>>

(* What a command is asked to be: its kind, its flags, its environment. *)
Invocation ==
    [kind : {"skipped", "minimal", "full"},
     file : File \cup {None}, tenant : Tenant \cup {None},
     KUBECONFIG : File \cup {None}, TENANT_NAME : Tenant \cup {None},
     INSECURE : {"unset", "valid", "invalid"}]

Phases == {"idle", "failed", "resolved", "configured", "default", "named", "crd", "decided",
           "truncated", "running"}

Command ==
    [phase   : Phases,
     file    : File \cup {None},
     tenant  : Tenant \cup {None},      \* None for a command without one
     context : Context \cup {None},     \* where its client connects
     edition : Editions \cup {None},
     steady  : BOOLEAN,                 \* ghost: the context was not switched so far
     of      : Origin \cup {None},      \* ghost, as that of the entries
     key     : Key \cup {None}]         \* the cache file it has open

NoCommand == [phase |-> "idle", file |-> None, tenant |-> None, context |-> None,
              edition |-> None, steady |-> TRUE, of |-> None, key |-> None]

TypeOK ==
    /\ backend \in [Context -> Backend]
    /\ current \in [File -> Context]
    /\ cache \in [Key -> Entry \cup {None}]
    /\ cmd \in [Process -> Command]

Init ==
    /\ backend \in [Context -> Backend]
    /\ \A c \in Context : backend[c] \in Backends[c]
    /\ current \in [File -> Context]
    /\ cache = [k \in Key |-> None]
    /\ cmd = [p \in Process |-> NoCommand]

(* Mutant: the file is known by the kubeconfig and the tenant alone. *)
MutKeyOf(p) == Identifier(cmd[p].file, CHOOSE c \in Context : TRUE, cmd[p].tenant)

(* The file a command would use now. *)
KeyOf(p) == Identifier(cmd[p].file, current[cmd[p].file], cmd[p].tenant)

At(p, phase) == cmd[p].phase = phase

Ends(p) == cmd' = [cmd EXCEPT ![p] = [NoCommand EXCEPT !.phase = "failed"]]

-----------------------------------------------------------------------------
(* Configuration. *)

(* resolveKubeConfig and resolveTenant: a flag precedes the environment. *)
Resolve(flag, variable) == IF flag # None THEN flag ELSE variable

(* LoadConfig, or what initializeMinimalClient does instead of it; nothing for
   version, help, completion and docs. *)
Start(p) ==
    /\ At(p, "idle")
    /\ \E i \in Invocation :
          LET file   == Resolve(i.file, i.KUBECONFIG)
              tenant == IF i.kind = "full" THEN Resolve(i.tenant, i.TENANT_NAME) ELSE None
              valid  == /\ file # None
                        /\ i.kind = "full" => tenant # None /\ i.INSECURE # "invalid"
          IN  \/ /\ i.kind = "skipped"
                 /\ cmd' = [cmd EXCEPT ![p] = [NoCommand EXCEPT !.phase = "running"]]
              \/ i.kind # "skipped" /\ ~valid /\ Ends(p)
              \/ /\ i.kind # "skipped" /\ valid
                 /\ cmd' = [cmd EXCEPT ![p] = [NoCommand EXCEPT
                               !.phase = "resolved", !.file = file, !.tenant = tenant]]
    /\ UNCHANGED <<backend, current, cache>>

(* CreateKubernetesConfig: the client will connect to the current context.  A
   command without a tenant needs no more. *)
CreateKubernetesConfig(p) ==
    /\ At(p, "resolved")
    /\ cmd' = [cmd EXCEPT
          ![p].context = current[cmd[p].file],
          ![p].phase = IF cmd[p].tenant = None THEN "running" ELSE "configured"]
    /\ UNCHANGED <<backend, current, cache>>

ConfigFails(p) ==
    /\ At(p, "resolved")
    /\ Ends(p)
    /\ UNCHANGED <<backend, current, cache>>

-----------------------------------------------------------------------------
(* The cache and the detection. *)

(* Mutant: an edition that is used is kept for another while. *)
MutLoadRenews(p) ==
    /\ At(p, "configured")
    /\ cache[KeyOf(p)] # None
    /\ cmd' = [cmd EXCEPT ![p].phase = "running", ![p].edition = cache[KeyOf(p)].edition,
                          ![p].of = IF cmd[p].steady THEN cache[KeyOf(p)].of ELSE None,
                          ![p].steady = TRUE]
    /\ cache' = [cache EXCEPT ![KeyOf(p)].age = 0]
    /\ UNCHANGED <<backend, current>>

(* LoadCache finds an edition. *)
LoadHits(p) ==
    /\ At(p, "configured")
    /\ cache[KeyOf(p)] # None
    /\ cmd' = [cmd EXCEPT ![p].phase = "running", ![p].edition = cache[KeyOf(p)].edition,
                          ![p].of = IF cmd[p].steady THEN cache[KeyOf(p)].of ELSE None,
                          ![p].steady = TRUE]
    /\ UNCHANGED <<backend, current, cache>>

(* LoadCache finds nothing to use; or it cannot read one of the files. *)
LoadMisses(p) ==
    /\ At(p, "configured")
    /\ cmd' = [cmd EXCEPT ![p].phase = "default"]
    /\ UNCHANGED <<backend, current, cache>>

Decides(p, edition) ==
    cmd' = [cmd EXCEPT ![p].phase = "decided", ![p].edition = edition]

(* What a tenant can see of a cluster's edition. *)
Views == [default : States, named : States, tunnels : BOOLEAN]

View(c, t) == [default |-> backend[c].default[t], named |-> backend[c].named[t],
               tunnels |-> backend[c].tunnels]

Shown(p) == View(cmd[p].context, cmd[p].tenant)

(* Mutant: the second name is tried also when the first TenantState says nothing. *)
MutGetDefault(p) ==
    /\ At(p, "default")
    /\ \/ Shown(p).default \in Editions /\ Decides(p, Shown(p).default)
       \/ Shown(p).default \notin Editions /\ cmd' = [cmd EXCEPT ![p].phase = "named"]
    /\ UNCHANGED <<backend, current, cache>>

(* DetectEdition looks for a TenantState under two names; without an edition in
   the first one it finds it asks for the CRD. *)
GetDefault(p) ==
    /\ At(p, "default")
    /\ \/ Shown(p).default \in Editions /\ Decides(p, Shown(p).default)
       \/ Shown(p).default = "silent" /\ cmd' = [cmd EXCEPT ![p].phase = "crd"]
       \/ Shown(p).default = "absent" /\ cmd' = [cmd EXCEPT ![p].phase = "named"]
    /\ UNCHANGED <<backend, current, cache>>

GetNamed(p) ==
    /\ At(p, "named")
    /\ \/ Shown(p).named \in Editions /\ Decides(p, Shown(p).named)
       \/ Shown(p).named \notin Editions /\ cmd' = [cmd EXCEPT ![p].phase = "crd"]
    /\ UNCHANGED <<backend, current, cache>>

(* detectEditionByCRDs. *)
GetCRD(p) ==
    /\ At(p, "crd")
    /\ Decides(p, IF Shown(p).tunnels THEN "EE" ELSE "CE")
    /\ UNCHANGED <<backend, current, cache>>

(* Any call can fail: no network, no permission, the user's Ctrl+C.  The next is
   tried, and when all have failed the edition is CE. *)
GetFails(p) ==
    /\ \/ At(p, "default") /\ cmd' = [cmd EXCEPT ![p].phase = "named"]
       \/ At(p, "named") /\ cmd' = [cmd EXCEPT ![p].phase = "crd"]
       \/ At(p, "crd") /\ Decides(p, "CE")
    /\ UNCHANGED <<backend, current, cache>>

(* SaveCache: the name of the file is made anew, and os.WriteFile empties the
   file before it writes. *)
Truncate(p) ==
    /\ At(p, "decided")
    /\ cache' = [cache EXCEPT ![KeyOf(p)] = None]
    /\ cmd' = [cmd EXCEPT ![p].phase = "truncated", ![p].key = KeyOf(p)]
    /\ UNCHANGED <<backend, current>>

OriginOf(p) == <<cmd[p].context, cmd[p].tenant>>

Saved(p) == [edition |-> cmd[p].edition, age |-> 0,
             of |-> IF cmd[p].steady THEN OriginOf(p) ELSE None]

(* What it has determined it uses, whatever becomes of the file. *)
Uses(p) == cmd' = [cmd EXCEPT ![p].phase = "running", ![p].of = OriginOf(p), ![p].key = None,
                                ![p].steady = TRUE]

Write(p) ==
    /\ At(p, "truncated")
    /\ cache' = [cache EXCEPT ![cmd[p].key] = Saved(p)]
    /\ Uses(p)
    /\ UNCHANGED <<backend, current>>

(* The write fails; or what another process wrote meanwhile was longer, and its
   end makes the whole unreadable. *)
WriteSpoils(p) ==
    /\ At(p, "truncated")
    /\ cache' = [cache EXCEPT ![cmd[p].key] = None]
    /\ Uses(p)
    /\ UNCHANGED <<backend, current>>

(* SaveCache fails before that, and it does not matter. *)
SaveFails(p) ==
    /\ At(p, "decided")
    /\ Uses(p)
    /\ UNCHANGED <<backend, current, cache>>

(* The end of the command: its own, an error of client.New, or a signal. *)
Exit(p) ==
    /\ ~At(p, "idle")
    /\ cmd' = [cmd EXCEPT ![p] = NoCommand]
    /\ UNCHANGED <<backend, current, cache>>

-----------------------------------------------------------------------------
(* The world. *)

Starting == {"configured", "default", "named", "crd", "decided"}

SwitchContext(f) ==
    /\ \E c \in Context \ {current[f]} : current' = [current EXCEPT ![f] = c]
    /\ cmd' = [p \in Process |->
                 IF cmd[p].file = f /\ cmd[p].phase \in Starting
                 THEN [cmd[p] EXCEPT !.steady = FALSE] ELSE cmd[p]]
    /\ UNCHANGED <<backend, cache>>

BackendChanges(c) ==
    /\ \E b \in Backends[c] \ {backend[c]} : backend' = [backend EXCEPT ![c] = b]
    /\ UNCHANGED <<current, cache, cmd>>

Older(entry) ==
    IF entry = None \/ entry.age = CacheTTL THEN None ELSE [entry EXCEPT !.age = @ + 1]

(* Time passes: what is older than CacheTTL is not used any more. *)
Tick ==
    /\ cache' = [k \in Key |-> Older(cache[k])]
    /\ UNCHANGED <<backend, current, cmd>>

-----------------------------------------------------------------------------
StartupStep(p) ==
    \/ CreateKubernetesConfig(p) \/ ConfigFails(p)
    \/ LoadHits(p) \/ LoadMisses(p)
    \/ GetDefault(p) \/ GetNamed(p) \/ GetCRD(p) \/ GetFails(p)
    \/ Truncate(p) \/ Write(p) \/ WriteSpoils(p) \/ SaveFails(p)

Next ==
    \/ \E p \in Process : Start(p) \/ StartupStep(p) \/ Exit(p)
    \/ \E f \in File : SwitchContext(f)
    \/ \E c \in Context : BackendChanges(c)
    \/ Tick

Spec == Init /\ [][Next]_svars

(* A command that has been started gets on with it, and time passes. *)
Fairness ==
    /\ \A p \in Process : WF_svars(StartupStep(p))
    /\ WF_svars(Tick)

FairSpec == Spec /\ Fairness

-----------------------------------------------------------------------------
(* Correctness. *)

(* A command of a tenant runs with an edition that was determined for its tenant
   at the cluster its client connects to, or where a file of the same name stands
   for, unless the context was switched while a command was starting. *)
Alike(o, p) == \E f \in File :
    Identifier(f, o[1], o[2]) = Identifier(cmd[p].file, cmd[p].context, cmd[p].tenant)

RunsRight(p) ==
    At(p, "running") /\ cmd[p].tenant # None =>
        cmd[p].edition # None /\ (cmd[p].of # None => Alike(cmd[p].of, p))

EditionOfContext == \A p \in Process : RunsRight(p)

(* The edition of a cluster for a tenant when no call fails. *)
Edition(b) ==
    CASE b.default \in Editions                             -> b.default
      [] b.default = "absent" /\ b.named \in Editions       -> b.named
      [] b.default # "absent" /\ b.default \notin Editions   -> IF b.tunnels THEN "EE" ELSE "CE"
      [] b.default = "absent" /\ b.named \notin Editions    -> IF b.tunnels THEN "EE" ELSE "CE"

DistinctNames ==
    \A f, g \in File, c, d \in Context, t, u \in Tenant :
        Identifier(f, c, t) = Identifier(g, d, u) => f = g /\ c = d /\ t = u

(* Where no two sets of names are joined to one, these are its own: the edition
   with which a command goes on was determined at the cluster that it will talk
   to and for its tenant, by itself or by another process up to CacheTTL ago,
   however the files were written over in between. *)
OwnEdition ==
    DistinctNames =>
        \A p \in Process :
            At(p, "running") /\ cmd[p].tenant # None /\ cmd[p].of # None =>
                cmd[p].of = OriginOf(p)

(* Whatever was remembered wrong, from a failed detection, a cluster that has
   been upgraded since, a context switched at the wrong moment or an unreadable
   file, is forgotten: when clusters and contexts stay as they are and calls do
   not fail, commands come to start with the edition of their cluster.  (A call
   whose failure leads where its success would have led is not meant.) *)
CallFails(p) == GetFails(p) /\ ~GetDefault(p) /\ ~GetNamed(p) /\ ~GetCRD(p)

Calm == UNCHANGED <<backend, current>> /\ \A p \in Process : ~CallFails(p)

StartsRight ==
    \A p \in Process : ~At(p, "running") /\ At(p, "running")' /\ cmd'[p].tenant # None =>
        cmd'[p].edition = Edition(Shown(p))

(* Everything is right when the files hold the editions of their clusters, and
   commands have found out of theirs what is so. *)
FilesAreRight ==
    \A f \in File, c \in Context, t \in Tenant :
        LET entry == cache[Identifier(f, c, t)]
        IN entry # None => entry.edition = Edition(View(c, t))

FoundRight(p) ==
    /\ cmd[p].phase \in Starting => cmd[p].context = current[cmd[p].file]
    /\ At(p, "named") => Shown(p).default = "absent"
    /\ At(p, "crd") => \/ Shown(p).default = "silent"
                       \/ Shown(p).default = "absent" /\ Shown(p).named \notin Editions
    /\ cmd[p].phase \in {"decided", "truncated"} => cmd[p].edition = Edition(Shown(p))
    /\ At(p, "truncated") => cmd[p].key = Identifier(cmd[p].file, cmd[p].context, cmd[p].tenant)

AllRight == FilesAreRight /\ \A p \in Process : FoundRight(p)

(* As long as it is calm, what is right stays so, and commands start with the
   edition of their cluster, whatever becomes of files and of other commands. *)
RightStays == [][DistinctNames /\ AllRight /\ Calm => AllRight' /\ StartsRight]_svars

EditionConverges == DistinctNames /\ <>[][Calm]_svars => <>[][StartsRight]_svars

(* What makes the invariants inductive. *)
EntryIsNamed ==
    \A k \in Key : cache[k] # None /\ cache[k].of # None =>
        \E f \in File : k = Identifier(f, cache[k].of[1], cache[k].of[2])

SteadyIsCurrent(p) ==
    /\ cmd[p].phase \in Starting /\ cmd[p].steady => cmd[p].context = current[cmd[p].file]
    /\ At(p, "truncated") /\ cmd[p].steady =>
          cmd[p].key = Identifier(cmd[p].file, cmd[p].context, cmd[p].tenant)

PhaseAgrees(p) ==
    /\ cmd[p].phase \in {"resolved", "truncated"} \cup Starting => cmd[p].file # None
    /\ cmd[p].phase \in {"truncated"} \cup Starting => cmd[p].tenant # None /\ cmd[p].context # None
    /\ cmd[p].phase \in {"decided", "truncated"} => cmd[p].edition # None
    /\ At(p, "truncated") => cmd[p].key # None
    /\ At(p, "running") /\ cmd[p].tenant # None => cmd[p].file # None /\ cmd[p].context # None

StartupInv ==
    /\ TypeOK
    /\ EntryIsNamed
    /\ \A p \in Process : PhaseAgrees(p) /\ SteadyIsCurrent(p)
    /\ EditionOfContext
=============================================================================
