------------------------------- MODULE Report -------------------------------
(***************************************************************************)
(* What the command line does with the findings of a run                   *)
(* (internal/cli/output.go, emit) and with the baseline file               *)
(* (internal/baseline/baseline.go): generate it, hide what is in it, prune *)
(* what is resolved, sort, decide on the exit code, cut to the limit.      *)
(* Users edit sources and run pawnlint at the same time; a run may fail to *)
(* write and may die.                                                      *)
(*                                                                         *)
(* A source file is the sequence of its findings in the order of their     *)
(* offsets.  A finding is its identity: rule, code, message and the text   *)
(* it is about, so equal findings may occur several times.  A baseline     *)
(* entry is its fingerprint: path, identity and how many equal findings    *)
(* came before.                                                            *)
(***************************************************************************)
EXTENDS Naturals, Sequences, FiniteSets

CONSTANTS
    Procs,      \* processes
    Files,      \* numbers of the files, in the order of their names
    Texts,      \* file -> sequences of findings it may have
    Ids,        \* identities of findings
    Eligible,   \* those a baseline takes: no parse or internal error
    Failing,    \* those whose severity fails the run
    Roots,      \* sets of files that may be given as arguments
    Limit,      \* max-diagnostics, 0 for none
    None        \* no file, nothing read

Modes == {"plain", "check", "generate", "prune"}

ASSUME ReportAssumption ==
    /\ Files \subseteq Nat /\ IsFiniteSet(Files)
    /\ Texts \in [Files -> SUBSET Seq(Ids)]
    /\ Eligible \subseteq Ids /\ Failing \subseteq Ids
    /\ Roots \subseteq SUBSET Files
    /\ Limit \in Nat
    /\ None \notin {"ok", "findings", "usage", "internal"}

VARIABLES
    src,     \* file -> its findings
    disk,    \* the baseline file: a set of entries, or None
    pc,      \* where each process is
    mode,    \* its flags and configuration
    seen,    \* file -> findings, for the files it was given
    base,    \* the entries it hides findings by
    temp,    \* the content of its temporary file, or None
    saved,   \* it replaced the baseline file
    shown,   \* the findings it printed
    exit     \* its exit code

local == <<pc, mode, seen, base, temp, saved, shown, exit>>
vars == <<src, disk, local>>

Entries == Files \X Ids \X Nat
AnyText == UNION {Texts[f] : f \in Files}
Sources == UNION {[r -> AnyText] : r \in SUBSET Files}

-----------------------------------------------------------------------------
(* Fingerprints *)

Items(s) == UNION {{f} \X DOMAIN s[f] : f \in DOMAIN s}
Id(s, i) == s[i[1]][i[2]]

\* The order of diagnostic.Sort.
Precedes(j, i) == j[1] < i[1] \/ (j[1] = i[1] /\ j[2] < i[2])

\* One counter for all files (a plausible bug).
Occurrence_AllFiles(s, i) ==
    Cardinality({j \in Items(s) : Precedes(j, i) /\ Id(s, j) = Id(s, i)})

\* Equal findings of the same file that come before.
Occurrence(s, i) ==
    Cardinality({k \in DOMAIN s[i[1]] : k < i[2] /\ s[i[1]][k] = Id(s, i)})

Fingerprint(s, i) == <<i[1], Id(s, i), Occurrence(s, i)>>

EligibleItems(s) == {i \in Items(s) : Id(s, i) \in Eligible}

\* Parser errors are taken into the baseline (a plausible bug).
Generated_All(s) == {Fingerprint(s, i) : i \in Items(s)}

\* Generate
Generated(s) == {Fingerprint(s, i) : i \in EligibleItems(s)}

\* Apply: the findings that remain and the entries that were matched.
Remaining(b, s) == {i \in Items(s) : Id(s, i) \in Eligible => Fingerprint(s, i) \notin b}

\* Prune keeps the stale entries (a plausible bug).
Current_Stale(b, s) == b \ Generated(s)

Current(b, s) == b \cap Generated(s)

-----------------------------------------------------------------------------
Fresh(p) ==
    /\ base' = [base EXCEPT ![p] = {}]
    /\ temp' = [temp EXCEPT ![p] = None]
    /\ saved' = [saved EXCEPT ![p] = FALSE]
    /\ shown' = [shown EXCEPT ![p] = {}]
    /\ exit' = [exit EXCEPT ![p] = None]

Empty == [f \in {} |-> <<>>]

Init ==
    /\ src \in [Files -> AnyText]
    /\ \A f \in Files : src[f] \in Texts[f]
    /\ disk = None
    /\ pc = [p \in Procs |-> "idle"]
    /\ mode = [p \in Procs |-> "plain"]
    /\ seen = [p \in Procs |-> Empty]
    /\ base = [p \in Procs |-> {}]
    /\ temp = [p \in Procs |-> None]
    /\ saved = [p \in Procs |-> FALSE]
    /\ shown = [p \in Procs |-> {}]
    /\ exit = [p \in Procs |-> None]

\* A user edits a file.
Edit(f, t) ==
    /\ src[f] # t
    /\ src' = [src EXCEPT ![f] = t]
    /\ UNCHANGED <<disk, local>>

\* A run has linted the files it was given.
Start(p, m, r) ==
    /\ pc[p] \in {"idle", "done"}
    /\ mode' = [mode EXCEPT ![p] = m]
    /\ seen' = [seen EXCEPT ![p] = [f \in r |-> src[f]]]
    /\ pc' = [pc EXCEPT ![p] = CASE m = "plain" -> "emit"
                                 [] m = "generate" -> "write"
                                 [] OTHER -> "load"]
    /\ Fresh(p)
    /\ UNCHANGED <<src, disk>>

Exit(p, code) ==
    /\ exit' = [exit EXCEPT ![p] = code]
    /\ pc' = [pc EXCEPT ![p] = "done"]

\* Load reads the file as a whole: it is only ever replaced by a rename.
Load(p) ==
    /\ pc[p] = "load"
    /\ IF disk = None
       THEN Exit(p, "usage") /\ UNCHANGED base
       ELSE /\ base' = [base EXCEPT ![p] = disk]
            /\ pc' = [pc EXCEPT ![p] = IF mode[p] = "prune" THEN "write" ELSE "emit"]
            /\ UNCHANGED exit
    /\ UNCHANGED <<src, disk, mode, seen, temp, saved, shown>>

\* Write up to the rename: a temporary file in the same directory.
WriteTemp(p) ==
    /\ pc[p] = "write"
    /\ temp' = [temp EXCEPT ![p] = IF mode[p] = "generate"
                                   THEN Generated(seen[p])
                                   ELSE Current(base[p], seen[p])]
    /\ pc' = [pc EXCEPT ![p] = "rename"]
    /\ UNCHANGED <<src, disk, mode, seen, base, saved, shown, exit>>

\* Rename; what was generated is applied at once.
Rename(p) ==
    /\ pc[p] = "rename"
    /\ disk' = temp[p]
    /\ temp' = [temp EXCEPT ![p] = None]
    /\ saved' = [saved EXCEPT ![p] = TRUE]
    /\ base' = [base EXCEPT ![p] = IF mode[p] = "generate" THEN temp[p] ELSE @]
    /\ pc' = [pc EXCEPT ![p] = "emit"]
    /\ UNCHANGED <<src, mode, seen, shown, exit>>

\* A file operation of Write fails: the temporary file is removed, emit returns.
FailWrite(p) ==
    /\ pc[p] \in {"write", "rename"}
    /\ temp' = [temp EXCEPT ![p] = None]
    /\ Exit(p, "internal")
    /\ UNCHANGED <<src, disk, mode, seen, base, saved, shown>>

\* The first findings, in order, up to the limit.
Cut(items) ==
    IF Limit = 0
    THEN items
    ELSE {i \in items : Cardinality({j \in items : Precedes(j, i)}) < Limit}

\* reachedThreshold
Fails(s, items) == \E i \in items : Id(s, i) \in Failing

\* The limit is applied before the threshold (a plausible bug).
Emit_CutFirst(p) ==
    /\ pc[p] = "emit"
    /\ LET rest == Cut(Remaining(base[p], seen[p]))
       IN  /\ shown' = [shown EXCEPT ![p] = rest]
           /\ Exit(p, IF Fails(seen[p], rest) THEN "findings" ELSE "ok")
    /\ UNCHANGED <<src, disk, mode, seen, base, temp, saved>>

\* The end of emit: threshold, limit, output.
Emit(p) ==
    /\ pc[p] = "emit"
    /\ LET rest == Remaining(base[p], seen[p])
       IN  /\ shown' = [shown EXCEPT ![p] = Cut(rest)]
           /\ Exit(p, IF Fails(seen[p], rest) THEN "findings" ELSE "ok")
    /\ UNCHANGED <<src, disk, mode, seen, base, temp, saved>>

\* Printing fails; what was saved stays saved.  How much was printed is left out.
FailOutput(p) ==
    /\ pc[p] = "emit"
    /\ Exit(p, "internal")
    /\ UNCHANGED <<src, disk, mode, seen, base, temp, saved, shown>>

\* A process dies; a temporary file it leaves behind is never read.
Crash(p) ==
    /\ pc[p] \notin {"idle", "done"}
    /\ pc' = [pc EXCEPT ![p] = "idle"]
    /\ mode' = [mode EXCEPT ![p] = "plain"]
    /\ seen' = [seen EXCEPT ![p] = Empty]
    /\ Fresh(p)
    /\ UNCHANGED <<src, disk>>

Next ==
    \/ \E f \in Files : \E t \in Texts[f] : Edit(f, t)
    \/ \E p \in Procs :
        \/ \E m \in Modes, r \in Roots : Start(p, m, r)
        \/ Load(p) \/ WriteTemp(p) \/ Rename(p) \/ FailWrite(p)
        \/ Emit(p) \/ FailOutput(p) \/ Crash(p)

Spec == Init /\ [][Next]_vars

-----------------------------------------------------------------------------
(* Properties *)

TypeOK ==
    /\ src \in [Files -> AnyText]
    /\ disk \in {None} \cup SUBSET Entries
    /\ pc \in [Procs -> {"idle", "load", "write", "rename", "emit", "done"}]
    /\ mode \in [Procs -> Modes]
    /\ seen \in [Procs -> Sources]
    /\ base \in [Procs -> SUBSET Entries]
    /\ temp \in [Procs -> {None} \cup SUBSET Entries]
    /\ saved \in [Procs -> BOOLEAN]
    /\ shown \in [Procs -> SUBSET (Files \X Nat)]
    /\ exit \in [Procs -> {None, "ok", "findings", "usage", "internal"}]

Same(b, f, id) == {e \in b : e[1] = f /\ e[2] = id}

\* docs/configuration.md "suppress matching existing findings": when the
\* baseline has k entries for a finding and the file has it n times, n - k of
\* them remain, whichever of them were fixed and whatever was pruned before.
NewFindingsRemain ==
    \A p \in Procs : pc[p] = "emit" /\ mode[p] # "plain" =>
        \A f \in DOMAIN seen[p], id \in Eligible :
            LET n == Cardinality({k \in DOMAIN seen[p][f] : seen[p][f][k] = id})
                k == Cardinality(Same(base[p], f, id))
                r == {i \in Remaining(base[p], seen[p]) : i[1] = f /\ Id(seen[p], i) = id}
            IN  Cardinality(r) = IF n > k THEN n - k ELSE 0

\* The entries for a finding are numbered without gaps, so the numbers that are
\* left when one of several equal findings is fixed are those of the others.
NoGaps(b) == \A e \in b : \A n \in 0 .. e[3] : <<e[1], e[2], n>> \in b
BaselineHasNoGaps == disk # None => NoGaps(disk)

\* docs/configuration.md "Parser and internal errors are never baselined".
ErrorsStay ==
    \A p \in Procs : exit[p] \in {"ok", "findings"} =>
        /\ \A i \in Items(seen[p]) :
              Id(seen[p], i) \in Failing \ Eligible => exit[p] = "findings"
        /\ disk # None => \A e \in disk : e[2] \in Eligible

\* The exit code tells of all that remains, of what is cut off as well; what is
\* printed remains, and is all of it unless the limit is reached.
ExitTellsAll ==
    \A p \in Procs : exit[p] \in {"ok", "findings"} =>
        LET rest == Remaining(base[p], seen[p])
        IN  /\ exit[p] = "ok" <=> ~Fails(seen[p], rest)
            /\ shown[p] \subseteq rest
            /\ shown[p] # rest => Cardinality(shown[p]) = Limit

\* A run that was to update the baseline and ends well has replaced the file; a
\* run that only checks, or that found no baseline, has not.
UpdateReported ==
    \A p \in Procs : pc[p] = "done" =>
        /\ mode[p] \in {"generate", "prune"} /\ exit[p] \in {"ok", "findings"} => saved[p]
        /\ saved[p] => mode[p] \in {"generate", "prune"} /\ exit[p] # "usage"

\* Pruning does not change what the same run reports: what it is about to write
\* hides what the old baseline hid.
PruneHidesTheSame ==
    \A p \in Procs : pc[p] = "rename" /\ mode[p] = "prune" =>
        Remaining(temp[p], seen[p]) = Remaining(base[p], seen[p])

\* Why these hold: where a process is tells what it may have written.
ProcInv(p) ==
    /\ pc[p] = "load" => mode[p] \in {"check", "prune"}
    /\ pc[p] \in {"write", "rename"} => mode[p] \in {"generate", "prune"}
    /\ pc[p] \in {"idle", "load", "write", "rename"} => ~saved[p]
    /\ pc[p] = "emit" => (saved[p] <=> mode[p] \in {"generate", "prune"})
    /\ pc[p] = "rename" =>
          temp[p] = IF mode[p] = "generate"
                    THEN Generated(seen[p])
                    ELSE Current(base[p], seen[p])
    /\ exit[p] # None => pc[p] = "done"
    /\ \A e \in base[p] : e[2] \in Eligible
    /\ exit[p] \in {"ok", "findings"} =>
          (exit[p] = "ok" <=> ~Fails(seen[p], Remaining(base[p], seen[p])))

DiskInv == disk # None => \A e \in disk : e[2] \in Eligible

IInv == TypeOK /\ DiskInv /\ UpdateReported /\ \A p \in Procs : ProcInv(p)
=============================================================================
