----------------------------- MODULE MCLintRun ------------------------------
(* Values of Kind and Reach for LintRun. *)
EXTENDS LintRun

\* The second rule is a project rule of the given kind, the first a local one.
SyntaxKind == <<"local", "syntax">>
FlowKind == <<"local", "flow">>

AllReach == [f \in Batch |-> All]
IncludeReach == [f \in Batch |-> Includes]
=============================================================================
