----------------------------- MODULE FileProbes -----------------------------
(***************************************************************************)
(* What a ParseCache remembers of the file system between builds           *)
(* (pkg/project/cache.go, resolver.go, model.go): the results of os.Stat   *)
(* (stats, statErrors), the resolutions of includes (includes) and whole   *)
(* models (models); and InvalidateFiles, which forgets them in two steps   *)
(* under two locks.                                                        *)
(*                                                                         *)
(* Each build resolves one include of the same file over a list of         *)
(* candidate paths, takes the first that exists and reads it.  Files       *)
(* appear, change and disappear at any time.  A host that watches files    *)
(* may call InvalidateFiles at any time, builds in flight or not; an       *)
(* analyzer session never does.                                            *)
(***************************************************************************)
EXTENDS ParseCache

CONSTANTS
    Candidates,   \* number of candidate paths of the include
    Absent,       \* no such file
    MaxProbes,    \* maxFilesystemProbes
    MaxChanges,   \* bound on the changes of files
    MaxBuilds     \* bound on the builds started

Places == 1 .. Candidates

ASSUME FileProbesAssumption ==
    /\ Candidates \in Nat \ {0}
    /\ Absent \notin Contents /\ None \notin Contents \cup {Absent, "found", "failed"}
    /\ \A s \in SUBSET Places : s # None
    /\ MaxProbes \in Nat \ {0}
    /\ MaxChanges \in Nat /\ MaxBuilds \in Nat

VARIABLES
    disk,       \* the candidate files
    stats,      \* path -> "found", "failed" or None
    includes,   \* the cached resolution of the include: a set of paths or None
    model,      \* the cached model: the include it holds, or None
    host,       \* where InvalidateFiles is: "idle" or "models"
    probing,    \* where each build is
    whole,      \* TRUE when the request came with include sources: it may use cached models
    at,         \* the candidate being probed
    probe,      \* what os.Stat said of it
    existing,   \* candidates found so far, then the resolution
    result,     \* the include the build ends with
    steady,     \* TRUE while nothing changed since the build began on a clean memory
    quiet,      \* TRUE while nothing changed since the build began
    clean,      \* TRUE when no file changed since an InvalidateFiles that met no build in flight
    changes, builds

memory == <<stats, includes, model>>
own == <<probing, whole, at, probe, existing, result>>
watch == <<steady, quiet>>
probeVars == <<disk, memory, host, own, watch, clean, changes, builds>>

\* What a resolution of the include on the disk as it is would find.
Present == {k \in Places : disk[k] # Absent}
First(s) == CHOOSE k \in s : \A l \in s : k <= l
IncludeOf(s) == IF s = {} THEN Absent ELSE disk[First(s)]

Probed == {k \in Places : stats[k] # None}

ProbesInit ==
    /\ disk \in [Places -> Contents \cup {Absent}]
    /\ stats = [k \in Places |-> None]
    /\ includes = None
    /\ model = None
    /\ host = "idle"
    /\ probing = [b \in Builders |-> "idle"]
    /\ whole = [b \in Builders |-> FALSE]
    /\ at = [b \in Builders |-> 1]
    /\ probe = [b \in Builders |-> None]
    /\ existing = [b \in Builders |-> {}]
    /\ result = [b \in Builders |-> None]
    /\ steady = [b \in Builders |-> FALSE]
    /\ quiet = [b \in Builders |-> FALSE]
    /\ clean = TRUE
    /\ changes = 0
    /\ builds = 0

-----------------------------------------------------------------------------
(* A build *)

Running(b) == probing[b] \notin {"idle", "done", "failed"}

\* BuildContext looks for the whole model first.
Begin(b, cacheable) ==
    /\ probing[b] \in {"idle", "done", "failed"}
    /\ builds < MaxBuilds
    /\ builds' = builds + 1
    /\ steady' = [steady EXCEPT ![b] = clean /\ host = "idle"]
    /\ quiet' = [quiet EXCEPT ![b] = TRUE]
    /\ at' = [at EXCEPT ![b] = 1]
    /\ existing' = [existing EXCEPT ![b] = {}]
    /\ probe' = [probe EXCEPT ![b] = None]
    /\ whole' = [whole EXCEPT ![b] = cacheable]
    /\ IF cacheable /\ model # None
       THEN /\ result' = [result EXCEPT ![b] = model]
            /\ probing' = [probing EXCEPT ![b] = "done"]
       ELSE /\ result' = [result EXCEPT ![b] = None]
            /\ probing' = [probing EXCEPT ![b] = "resolve"]
    /\ UNCHANGED <<disk, memory, host, clean, changes>>

\* ResolveAll asks for the cached resolution.
Resolve(b) ==
    /\ probing[b] = "resolve"
    /\ IF includes # None
       THEN /\ existing' = [existing EXCEPT ![b] = includes]
            /\ probing' = [probing EXCEPT ![b] = "read"]
       ELSE /\ probing' = [probing EXCEPT ![b] = "probe"]
            /\ UNCHANGED existing
    /\ UNCHANGED <<disk, memory, host, whole, at, probe, result, watch, clean, changes, builds>>

\* The candidate is settled: on to the next one, or store the resolution.
Settle(b, found) ==
    /\ existing' = [existing EXCEPT ![b] = IF found THEN @ \cup {at[b]} ELSE @]
    /\ IF at[b] < Candidates
       THEN at' = [at EXCEPT ![b] = @ + 1] /\ probing' = [probing EXCEPT ![b] = "probe"]
       ELSE probing' = [probing EXCEPT ![b] = "put"] /\ UNCHANGED at

\* ParseCache.stat under the read lock.
Recall(b) ==
    /\ probing[b] = "probe"
    /\ IF stats[at[b]] # None
       THEN Settle(b, stats[at[b]] = "found")
       ELSE probing' = [probing EXCEPT ![b] = "stat"] /\ UNCHANGED <<at, existing>>
    /\ UNCHANGED <<disk, memory, host, whole, probe, result, watch, clean, changes, builds>>

\* os.Stat, without a lock.
Stat(b) ==
    /\ probing[b] = "stat"
    /\ probe' = [probe EXCEPT ![b] = IF disk[at[b]] = Absent THEN "failed" ELSE "found"]
    /\ probing' = [probing EXCEPT ![b] = "remember"]
    /\ UNCHANGED <<disk, memory, host, whole, at, existing, result, watch, clean, changes, builds>>

\* ParseCache.stat under the write lock: the first answer stays, and a new one
\* empties a full cache.
Remember(b) ==
    /\ probing[b] = "remember"
    /\ IF stats[at[b]] # None
       THEN Settle(b, stats[at[b]] = "found") /\ UNCHANGED stats
       ELSE /\ stats' = [k \in Places |->
                  IF k = at[b] THEN probe[b]
                  ELSE IF Cardinality(Probed) >= MaxProbes THEN None ELSE stats[k]]
            /\ Settle(b, probe[b] = "found")
    /\ UNCHANGED <<disk, includes, model, host, whole, probe, result, watch, clean, changes, builds>>

\* putIncludeResolution, for the one include there is.
PutResolution(b) ==
    /\ probing[b] = "put"
    /\ includes' = existing[b]
    /\ probing' = [probing EXCEPT ![b] = "read"]
    /\ UNCHANGED <<disk, stats, model, host, whole, at, probe, existing, result, watch, clean,
                   changes, builds>>

\* resolveInclude reads the first candidate; when it is gone the build fails.
Read(b) ==
    /\ probing[b] = "read"
    /\ IF existing[b] # {} /\ disk[First(existing[b])] = Absent
       THEN /\ probing' = [probing EXCEPT ![b] = "failed"]
            /\ UNCHANGED result
       ELSE /\ result' = [result EXCEPT ![b] = IncludeOf(existing[b])]
            /\ probing' = [probing EXCEPT ![b] = "finish"]
    /\ UNCHANGED <<disk, memory, host, whole, at, probe, existing, watch, clean, changes, builds>>

\* BuildContext stores the model of a request that came with include sources.
\* They need not be all the includes there are: this one is on the disk.
Finish(b) ==
    /\ probing[b] = "finish"
    /\ model' = IF whole[b] THEN result[b] ELSE model
    /\ probing' = [probing EXCEPT ![b] = "done"]
    /\ UNCHANGED <<disk, stats, includes, host, whole, at, probe, existing, result, watch, clean,
                   changes, builds>>

-----------------------------------------------------------------------------
(* The host and the file system *)

\* Only the probes are forgotten (a plausible bug).
ForgetProbes_KeepsIncludes ==
    /\ host = "idle"
    /\ stats' = [k \in Places |-> None]
    /\ host' = "models"
    /\ clean' = (clean \/ \A b \in Builders : ~Running(b))
    /\ UNCHANGED <<disk, includes, model, own, watch, changes, builds>>

\* InvalidateFiles under resolutionMu.
ForgetProbes ==
    /\ host = "idle"
    /\ stats' = [k \in Places |-> None]
    /\ includes' = None
    /\ host' = "models"
    /\ clean' = (clean \/ \A b \in Builders : ~Running(b))
    /\ UNCHANGED <<disk, model, own, watch, changes, builds>>

\* InvalidateFiles under analysisMu.
ForgetModels ==
    /\ host = "models"
    /\ model' = None
    /\ host' = "idle"
    /\ UNCHANGED <<disk, stats, includes, own, watch, clean, changes, builds>>

\* A candidate file is created, saved or deleted.
Change(k, c) ==
    /\ changes < MaxChanges
    /\ disk[k] # c
    /\ disk' = [disk EXCEPT ![k] = c]
    /\ clean' = FALSE
    /\ steady' = [b \in Builders |-> FALSE]
    /\ quiet' = [b \in Builders |-> FALSE]
    /\ changes' = changes + 1
    /\ UNCHANGED <<memory, host, own, builds>>

ProbesNext ==
    \/ \E b \in Builders :
        \/ \E cacheable \in BOOLEAN : Begin(b, cacheable)
        \/ Resolve(b) \/ Recall(b) \/ Stat(b) \/ Remember(b)
        \/ PutResolution(b) \/ Read(b) \/ Finish(b)
    \/ ForgetProbes
    \/ ForgetModels
    \/ \E k \in Places, c \in Contents \cup {Absent} : Change(k, c)

ProbesSpec == ProbesInit /\ [][ProbesNext]_probeVars

-----------------------------------------------------------------------------
(* Properties *)

ProbesTypeOK ==
    /\ disk \in [Places -> Contents \cup {Absent}]
    /\ stats \in [Places -> {None, "found", "failed"}]
    /\ includes \in (SUBSET Places) \cup {None}
    /\ model \in Contents \cup {Absent, None}
    /\ host \in {"idle", "models"}
    /\ probing \in [Builders -> {"idle", "resolve", "probe", "stat", "remember", "put", "read",
                            "finish", "done", "failed"}]
    /\ whole \in [Builders -> BOOLEAN]
    /\ at \in [Builders -> Places]
    /\ probe \in [Builders -> {None, "found", "failed"}]
    /\ existing \in [Builders -> SUBSET Places]
    /\ result \in [Builders -> Contents \cup {Absent, None}]
    /\ steady \in [Builders -> BOOLEAN]
    /\ quiet \in [Builders -> BOOLEAN]
    /\ clean \in BOOLEAN
    /\ changes \in 0 .. MaxChanges
    /\ builds \in 0 .. MaxBuilds

Ended(b) == probing[b] \in {"done", "failed"}

\* TestParseCacheInvalidatesFilesystemProbes: after InvalidateFiles the cache
\* answers from the disk.  When no build was in flight as it began to clear, a
\* build that begins after it returned, and until the end of which no file
\* changes, succeeds and ends with the include that is on the disk.  (A build
\* in flight may put back afterwards what it saw before.)
CurrentWhenSteady ==
    \A b \in Builders : Ended(b) /\ steady[b] => result[b] = IncludeOf(Present)

\* TestParseCacheDoesNotReuseModelsWithFilesystemIncludes: when cached models
\* are out of the question the content of the include is read again in every
\* build, even when the choice of the file is remembered.
IncludeIsReread ==
    \A b \in Builders :
        probing[b] = "done" /\ quiet[b] /\ ~whole[b] /\ existing[b] # {}
            => result[b] = disk[First(existing[b])]

\* Builds end with what is on the disk, as far as the cache promises it.
BuildsReadTheDisk == CurrentWhenSteady /\ IncludeIsReread
=============================================================================
