------------------------------ MODULE LintBatch ------------------------------
(***************************************************************************)
(* What linting the files of one build or variant promises                 *)
(* (internal/cli/files.go, pkg/lint/engine.go): every file gets the        *)
(* findings of the rules that ran on it and an internal error for each     *)
(* rule that panicked, and the findings come out in the order of the       *)
(* files, whatever the order in which they were linted.                    *)
(***************************************************************************)
EXTENDS Naturals

CONSTANTS
    Size,    \* number of files to lint
    Rules,   \* number of active rules
    None     \* nothing yet

Batch == 1 .. Size
RuleSet == 1 .. Rules

VARIABLES
    panics,    \* the pairs <<file, rule>> for which the rule panics
    perFile,   \* the slots of the files
    out        \* the findings of the batch, or None

\* The findings of the rules that returned and the errors of those that did not.
Expected(f) ==
    [found |-> {r \in RuleSet : <<f, r>> \notin panics},
     failed |-> {r \in RuleSet : <<f, r>> \in panics}]

Init ==
    /\ panics \in SUBSET (Batch \X RuleSet)
    /\ perFile = [f \in Batch |-> None]
    /\ out = None

\* The files are linted in any order.
Lint(f) ==
    /\ perFile[f] = None
    /\ perFile' = [perFile EXCEPT ![f] = Expected(f)]
    /\ UNCHANGED <<panics, out>>

\* The slots are joined when all are filled.
Collect ==
    /\ out = None
    /\ \A f \in Batch : perFile[f] # None
    /\ out' = perFile
    /\ UNCHANGED <<panics, perFile>>

Next == Collect \/ \E f \in Batch : Lint(f)

vars == <<panics, perFile, out>>

Safety == Init /\ [][Next]_vars

Spec == Safety /\ WF_vars(Next)
=============================================================================
