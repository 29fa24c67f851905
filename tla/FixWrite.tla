------------------------------ MODULE FixWrite ------------------------------
(***************************************************************************)
(* `pawnlint --fix` as the file system sees it: internal/cli/files.go      *)
(* reads the sources, builds a plan, and internal/fix/fix.go writes it in  *)
(* two passes.  The first pass re-reads every file of the plan and refuses *)
(* the plan when one differs from what was analysed; the second replaces   *)
(* the files one after another, each through a temporary file and a        *)
(* rename.  Then the command lints once more with fixing switched off.     *)
(*                                                                         *)
(* Several such processes run at once (two terminals, an editor hook), a   *)
(* user saves and deletes files between any two of their steps, every file *)
(* operation may fail, and a process may be killed at any point.           *)
(*                                                                         *)
(* A file is its position in the sorted list of paths.  A content is an    *)
(* opaque value; Fixed maps it to what its fixes make of it and Conflicted *)
(* holds the contents for which fix.Build returns an error.                *)
(***************************************************************************)
EXTENDS Naturals

CONSTANTS
    N,           \* number of source files
    Procs,       \* pawnlint processes
    Contents,    \* possible contents of a file
    Fixed,       \* what the fixes of a content turn it into
    Conflicted,  \* contents whose fixes overlap or are out of range
    Missing,     \* not a content: the path does not exist
    Partial,     \* not a content: a temporary file not yet written in full
    None,        \* no temporary file, or a file not read yet
    MaxSaves     \* bound on the number of saves by the user

ASSUME FixAssumption ==
    /\ N \in Nat
    /\ MaxSaves \in Nat
    /\ Fixed \in [Contents -> Contents]
    /\ Conflicted \subseteq Contents
    /\ Missing \notin Contents
    /\ Partial \notin Contents \cup {Missing}
    /\ None \notin Contents \cup {Missing, Partial}

Files == 1 .. N

VARIABLES
    disk,      \* what each path holds
    pc,        \* where each process is
    fixing,    \* opts.Fix || opts.FixSafe: FALSE in the second lint
    before,    \* the sources each process analysed
    plan,      \* the files its plan changes
    verified,  \* the files of the plan found unchanged
    written,   \* the files of the plan renamed into place
    temp,      \* its temporary file, if any
    touched,   \* files somebody else changed since the process verified them
    saves      \* saves by the user so far

vars == <<disk, pc, fixing, before, plan, verified, written, temp, touched, saves>>

Running  == {"read", "preflight", "write", "fill", "rename"}
Stopped  == {"done", "stale", "failed"}
Unread   == [f \in Files |-> None]

\* The file a loop over the sorted plan handles next.
NextOf(S, f) == f \in S /\ \A g \in S : f <= g

\* The files the fixes of process p change.
Changed(p) == {f \in Files : Fixed[before[p][f]] # before[p][f]}

\* Everybody but the processes of S has now missed a change of f.
TouchedBy(S, f) ==
    [q \in Procs |-> IF q \in S THEN touched[q] ELSE touched[q] \cup {f}]

Init ==
    /\ disk \in [Files -> Contents]
    /\ pc = [p \in Procs |-> "read"]
    /\ fixing = [p \in Procs |-> TRUE]
    /\ before = [p \in Procs |-> Unread]
    /\ plan = [p \in Procs |-> {}]
    /\ verified = [p \in Procs |-> {}]
    /\ written = [p \in Procs |-> {}]
    /\ temp = [p \in Procs |-> None]
    /\ touched = [p \in Procs |-> {}]
    /\ saves = 0

-----------------------------------------------------------------------------
(* Plausible bugs in the process: each breaks one of the properties below *)

\* The first pass trusts the analysed sources.
Verify_NoCompare(p, f) ==
    /\ pc[p] = "preflight"
    /\ NextOf(plan[p] \ verified[p], f)
    /\ verified' = [verified EXCEPT ![p] = @ \cup {f}]
    /\ touched' = [touched EXCEPT ![p] = @ \ {f}]
    /\ pc' = [pc EXCEPT ![p] = IF plan[p] = verified'[p] THEN "write" ELSE @]
    /\ UNCHANGED <<disk, fixing, before, plan, written, temp, saves>>

\* One loop instead of two: a file is replaced as soon as it is verified.
Verify_OnePass(p, f) ==
    /\ pc[p] = "preflight"
    /\ NextOf(plan[p] \ verified[p], f)
    /\ IF disk[f] = before[p][f]
       THEN /\ verified' = [verified EXCEPT ![p] = @ \cup {f}]
            /\ written' = [written EXCEPT ![p] = @ \cup {f}]
            /\ disk' = [disk EXCEPT ![f] = Fixed[before[p][f]]]
            /\ touched' = TouchedBy({p}, f)
            /\ pc' = [pc EXCEPT ![p] = IF plan[p] = verified'[p] THEN "write" ELSE @]
       ELSE /\ pc' = [pc EXCEPT ![p] = IF disk[f] = Missing THEN "failed" ELSE "stale"]
            /\ UNCHANGED <<disk, verified, written, touched>>
    /\ UNCHANGED <<fixing, before, plan, temp, saves>>

\* The error of a short write is dropped.
FillTemp_ShortWrite(p, f) ==
    /\ pc[p] = "fill"
    /\ NextOf(plan[p] \ written[p], f)
    /\ \E t \in {Partial, Fixed[before[p][f]]} : temp' = [temp EXCEPT ![p] = t]
    /\ pc' = [pc EXCEPT ![p] = "rename"]
    /\ UNCHANGED <<disk, fixing, before, plan, verified, written, touched, saves>>

\* A stale source is retried instead of refused.
Verify_Retries(p, f) ==
    /\ pc[p] = "preflight"
    /\ NextOf(plan[p] \ verified[p], f)
    /\ IF disk[f] = before[p][f]
       THEN /\ verified' = [verified EXCEPT ![p] = @ \cup {f}]
            /\ touched' = [touched EXCEPT ![p] = @ \ {f}]
            /\ pc' = [pc EXCEPT ![p] = IF plan[p] = verified'[p] THEN "write" ELSE @]
       ELSE UNCHANGED <<pc, verified, touched>>
    /\ UNCHANGED <<disk, fixing, before, plan, written, temp, saves>>

\* The second lint fixes like the first.
Relint_StillFixing(p) ==
    /\ pc[p] = "write"
    /\ plan[p] = written[p]
    /\ before' = [before EXCEPT ![p] = Unread]
    /\ plan' = [plan EXCEPT ![p] = {}]
    /\ verified' = [verified EXCEPT ![p] = {}]
    /\ written' = [written EXCEPT ![p] = {}]
    /\ pc' = [pc EXCEPT ![p] = "read"]
    /\ UNCHANGED <<disk, fixing, temp, touched, saves>>

-----------------------------------------------------------------------------
(* The process *)

\* Discovery reads one source file; a missing one ends the run.
Read(p, f) ==
    /\ pc[p] = "read"
    /\ before[p][f] = None
    /\ IF disk[f] = Missing
       THEN /\ pc' = [pc EXCEPT ![p] = "failed"]
            /\ UNCHANGED before
       ELSE /\ before' = [before EXCEPT ![p][f] = disk[f]]
            /\ UNCHANGED pc
    /\ UNCHANGED <<disk, fixing, plan, verified, written, temp, touched, saves>>

\* All sources are read: build the plan, or emit the findings when there is
\* nothing to fix or fixing is off.
Plan(p) ==
    /\ pc[p] = "read"
    /\ \A f \in Files : before[p][f] # None
    /\ IF ~fixing[p]
       THEN /\ pc' = [pc EXCEPT ![p] = "done"]
            /\ UNCHANGED plan
       ELSE IF \E f \in Files : before[p][f] \in Conflicted
       THEN /\ pc' = [pc EXCEPT ![p] = "failed"]
            /\ UNCHANGED plan
       ELSE /\ plan' = [plan EXCEPT ![p] = Changed(p)]
            /\ pc' = [pc EXCEPT ![p] = IF Changed(p) = {} THEN "done" ELSE "preflight"]
    /\ UNCHANGED <<disk, fixing, before, verified, written, temp, touched, saves>>

\* First pass of fix.Write: the next file must still hold what was analysed.
Verify(p, f) ==
    /\ pc[p] = "preflight"
    /\ NextOf(plan[p] \ verified[p], f)
    /\ IF disk[f] = before[p][f]
       THEN /\ verified' = [verified EXCEPT ![p] = @ \cup {f}]
            /\ touched' = [touched EXCEPT ![p] = @ \ {f}]
            /\ pc' = [pc EXCEPT ![p] = IF plan[p] = verified'[p] THEN "write" ELSE @]
       ELSE /\ pc' = [pc EXCEPT ![p] = IF disk[f] = Missing THEN "failed" ELSE "stale"]
            /\ UNCHANGED <<verified, touched>>
    /\ UNCHANGED <<disk, fixing, before, plan, written, temp, saves>>

\* Second pass: os.CreateTemp for the next file.
CreateTemp(p) ==
    /\ pc[p] = "write"
    /\ plan[p] # written[p]
    /\ temp' = [temp EXCEPT ![p] = Partial]
    /\ pc' = [pc EXCEPT ![p] = "fill"]
    /\ UNCHANGED <<disk, fixing, before, plan, verified, written, touched, saves>>

\* Chmod, Write, Sync and Close of the temporary file.
FillTemp(p, f) ==
    /\ pc[p] = "fill"
    /\ NextOf(plan[p] \ written[p], f)
    /\ temp' = [temp EXCEPT ![p] = Fixed[before[p][f]]]
    /\ pc' = [pc EXCEPT ![p] = "rename"]
    /\ UNCHANGED <<disk, fixing, before, plan, verified, written, touched, saves>>

\* os.Rename puts the temporary file in place of the source in one step.
Rename(p, f) ==
    /\ pc[p] = "rename"
    /\ NextOf(plan[p] \ written[p], f)
    /\ disk' = [disk EXCEPT ![f] = temp[p]]
    /\ temp' = [temp EXCEPT ![p] = None]
    /\ written' = [written EXCEPT ![p] = @ \cup {f}]
    /\ touched' = TouchedBy({p}, f)
    /\ pc' = [pc EXCEPT ![p] = "write"]
    /\ UNCHANGED <<fixing, before, plan, verified, saves>>

\* An operation of the second pass fails: the deferred function removes the
\* temporary file, the files renamed earlier stay as they are.
WriteFails(p) ==
    /\ pc[p] \in {"write", "fill", "rename"}
    /\ plan[p] # written[p]
    /\ temp' = [temp EXCEPT ![p] = None]
    /\ pc' = [pc EXCEPT ![p] = "failed"]
    /\ UNCHANGED <<disk, fixing, before, plan, verified, written, touched, saves>>

\* The whole plan is written: run again with fixing switched off.
Relint(p) ==
    /\ pc[p] = "write"
    /\ plan[p] = written[p]
    /\ fixing' = [fixing EXCEPT ![p] = FALSE]
    /\ before' = [before EXCEPT ![p] = Unread]
    /\ pc' = [pc EXCEPT ![p] = "read"]
    /\ UNCHANGED <<disk, plan, verified, written, temp, touched, saves>>

\* The process is killed: no deferred function runs.
Crash(p) ==
    /\ pc[p] \in Running
    /\ pc' = [pc EXCEPT ![p] = "crashed"]
    /\ UNCHANGED <<disk, fixing, before, plan, verified, written, temp, touched, saves>>

-----------------------------------------------------------------------------
(* The user *)

\* The user saves or deletes a file.
Save(f, c) ==
    /\ saves < MaxSaves
    /\ c # disk[f]
    /\ disk' = [disk EXCEPT ![f] = c]
    /\ touched' = TouchedBy({}, f)
    /\ saves' = saves + 1
    /\ UNCHANGED <<pc, fixing, before, plan, verified, written, temp>>

\* Every process has ended.
Ended ==
    /\ \A p \in Procs : pc[p] \notin Running
    /\ UNCHANGED vars

Step(p) ==
    \/ \E f \in Files : Read(p, f) \/ Verify(p, f) \/ FillTemp(p, f) \/ Rename(p, f)
    \/ Plan(p)
    \/ CreateTemp(p)
    \/ Relint(p)

Next ==
    \/ \E p \in Procs : Step(p) \/ WriteFails(p) \/ Crash(p)
    \/ \E f \in Files, c \in Contents \cup {Missing} : Save(f, c)
    \/ Ended

Spec == Init /\ [][Next]_vars

\* The operating system runs every process.
FairSpec == Spec /\ \A p \in Procs : WF_vars(Step(p))

-----------------------------------------------------------------------------
(* Properties *)

TypeOK ==
    /\ disk \in [Files -> Contents \cup {Missing, Partial}]
    /\ pc \in [Procs -> Running \cup Stopped \cup {"crashed"}]
    /\ fixing \in [Procs -> BOOLEAN]
    /\ before \in [Procs -> [Files -> Contents \cup {None}]]
    /\ plan \in [Procs -> SUBSET Files]
    /\ verified \in [Procs -> SUBSET Files]
    /\ written \in [Procs -> SUBSET Files]
    /\ temp \in [Procs -> Contents \cup {Partial, None}]
    /\ touched \in [Procs -> SUBSET Files]
    /\ saves \in 0 .. MaxSaves

\* A plan refused because a source changed has written nothing: the first
\* pass of fix.Write looks at every file before the second replaces any.
RefusedPlanWritesNothing ==
    \A p \in Procs :
        /\ pc[p] = "stale" => written[p] = {}
        /\ written[p] # {} => verified[p] = plan[p]

\* A reader of a source never sees a half-written file, whatever fails or is
\* killed: only complete contents reach a path.
NoTornSource == \A f \in Files : disk[f] # Partial

\* A process that returned, with or without an error, left no temporary file
\* behind; only a killed one may.
NoTempLeft == \A p \in Procs : pc[p] \in Stopped => temp[p] = None

\* A process that fixed files and ended well replaced every file of its plan.
SuccessIsComplete == \A p \in Procs : pc[p] = "done" => written[p] = plan[p]

\* Why the properties hold: what each point of the process knows.
WritePhase == {"write", "fill", "rename"}

ProcInv(p) ==
    /\ pc[p] = "read" => temp[p] = None
    /\ pc[p] = "read" /\ fixing[p] => plan[p] = {} /\ verified[p] = {} /\ written[p] = {}
    /\ pc[p] = "read" /\ ~fixing[p] => verified[p] = plan[p] /\ written[p] = plan[p]
    /\ pc[p] = "preflight" => temp[p] = None /\ written[p] = {}
    /\ pc[p] = "write" => temp[p] = None
    /\ pc[p] = "rename" => temp[p] \in Contents
    /\ pc[p] \in WritePhase => verified[p] = plan[p]
    /\ pc[p] \in WritePhase \cup {"preflight"} =>
          fixing[p] /\ \A f \in Files : before[p][f] \in Contents

UnchangedSinceVerified(p) ==
    \A f \in verified[p] \ written[p] : disk[f] = before[p][f] \/ f \in touched[p]

IInv ==
    /\ TypeOK
    /\ RefusedPlanWritesNothing
    /\ NoTornSource
    /\ NoTempLeft
    /\ SuccessIsComplete
    /\ \A p \in Procs : ProcInv(p) /\ UnchangedSinceVerified(p)

\* What a rename of fix.Write may overwrite: the content that was analysed,
\* or a save made after the first pass read the file.  A save that came
\* before the first pass is never lost.
EarlierSavesSurvive ==
    [][\A p \in Procs, f \in Files :
          f \in written'[p] \ written[p]
              => disk[f] = before[p][f] \/ f \in touched[p]]_vars

\* A command that is not killed ends.
EveryRunEnds == \A p \in Procs : <>(pc[p] \notin Running)
=============================================================================
