------------------------------ MODULE LintRun ------------------------------
(***************************************************************************)
(* The files of one build or variant linted by goroutines                  *)
(* (internal/cli/files.go, runFiles and runConfiguredBuilds), each through *)
(* Engine.lintFile, over the syntax the project model shares among them    *)
(* (pkg/project/access.go, internal/source/walk/query.go).                 *)
(*                                                                         *)
(* Two parts of that syntax change while rules run.  An include kept in    *)
(* compact form gets its pointer tree, walk and semantic model when a rule *)
(* first asks for a node of it: ensurePointerSyntax writes the three       *)
(* fields under a sync.Once, lintFile reads them without it.  And the map  *)
(* of enclosing functions of a tree is filled by EnclosingFunction without *)
(* a lock.                                                                 *)
(***************************************************************************)
EXTENDS Naturals, FiniteSets

CONSTANTS
    Size,        \* number of files to lint, in the order they are submitted
    Rules,       \* number of active rules, in the order of the registry
    None,
    Limit,       \* goroutines at a time
    Includes,    \* files of the project that are not linted
    Provided,    \* files whose pointer syntax the model holds from the start
    Kind,        \* rule -> "local", "syntax" or "flow"
    Reach        \* file -> files of which its project rules look at nodes

Batch == 1 .. Size
RuleSet == 1 .. Rules
All == Batch \cup Includes

\* What a file gets: rules that reported and rules that panicked.
Findings == [found : SUBSET RuleSet, failed : SUBSET RuleSet]

ASSUME LintRunAssumption ==
    /\ Size \in Nat \ {0} /\ Rules \in Nat \ {0} /\ Limit \in Nat \ {0}
    /\ None \notin All
    /\ Provided \subseteq All
    /\ Kind \in [RuleSet -> {"local", "syntax", "flow"}]
    /\ Reach \in [Batch -> SUBSET All]

\* An empty slot is told apart from a filled one.
ASSUME NoneAssumption == None \notin Findings

VARIABLES
    panics,      \* the pairs <<file, rule>> for which the rule panics
    submitted,   \* files submitted so far
    pc,          \* where the goroutine of each file is
    level,       \* fields of a file's pointer syntax set so far: Parsed, Walk, Semantic
    once,        \* pointerOnce of a file: "new", "busy" or "done"
    cached,      \* rules whose nodes are in the enclosing map of a file's shared tree
    access,      \* what each goroutine does with which enclosing map
    tree,        \* the syntax lintFile took: the tree each of its three parts belongs to,
                 \* the file's shared one or one of its own, and whose index its walk has
    rule,        \* the rule that runs
    todo,        \* files it has yet to look at
    target,      \* the file it looks at
    result,      \* findings and internal errors so far
    perFile,     \* the slots
    out,         \* the findings of the batch, or None
    dead         \* the runtime threw: concurrent map access is not recoverable

shared == <<level, once, cached, access>>
work == <<tree, rule, todo, target, result>>
vars == <<panics, submitted, pc, shared, work, perFile, out, dead>>

Running == {f \in Batch : pc[f] \notin {"waiting", "done"}}

\* The files a rule looks at: its own one only, or those in reach as well.
Looks(f, r) == IF Kind[r] = "local" THEN {f} ELSE Reach[f]

\* Nodes of one tree are looked up in the maps of another.
Mixed(f) == \E a, b \in {"parsed", "walk", "semantic"} : tree[f][a] # tree[f][b]

Init ==
    /\ panics \in SUBSET (Batch \X RuleSet)
    /\ submitted = 0
    /\ pc = [f \in Batch |-> "waiting"]
    /\ level = [g \in All |-> IF g \in Provided THEN 3 ELSE 0]
    /\ once = [g \in All |-> "new"]
    /\ cached = [g \in All |-> {}]
    /\ access = [f \in Batch |-> "idle"]
    /\ tree = [f \in Batch |->
                  [parsed |-> "own", walk |-> "own", semantic |-> "own", index |-> "own"]]
    /\ rule = [f \in Batch |-> 1]
    /\ todo = [f \in Batch |-> {}]
    /\ target = [f \in Batch |-> None]
    /\ result = [f \in Batch |-> [found |-> {}, failed |-> {}]]
    /\ perFile = [f \in Batch |-> None]
    /\ out = None
    /\ dead = FALSE

-----------------------------------------------------------------------------
(* errgroup.Go and the start of lintFile *)

\* Go blocks while Limit goroutines run.
Submit(f) ==
    /\ f = submitted + 1
    /\ Cardinality(Running) < Limit
    /\ submitted' = f
    /\ pc' = [pc EXCEPT ![f] = "parsed"]
    /\ UNCHANGED <<panics, shared, work, perFile, out, dead>>

\* A nil tree is replaced by one that lintFile parses itself.
ReadParsed(f) ==
    /\ pc[f] = "parsed"
    /\ tree' = [tree EXCEPT ![f].parsed = IF level[f] >= 1 THEN "shared" ELSE "own"]
    /\ pc' = [pc EXCEPT ![f] = "walk"]
    /\ UNCHANGED <<panics, submitted, shared, rule, todo, target, result, perFile, out, dead>>

\* A nil walk is built over the tree that was taken (PointerWalk).
ReadWalk(f) ==
    /\ pc[f] = "walk"
    /\ tree' = [tree EXCEPT ![f].walk = IF level[f] >= 2 THEN "shared" ELSE tree[f].parsed,
                            ![f].index = IF level[f] >= 2 THEN "shared" ELSE "own"]
    /\ pc' = [pc EXCEPT ![f] = "semantic"]
    /\ UNCHANGED <<panics, submitted, shared, rule, todo, target, result, perFile, out, dead>>

\* A nil semantic model is built over the tree and the walk that were taken.
ReadSemantic(f) ==
    /\ pc[f] = "semantic"
    /\ tree' = [tree EXCEPT ![f].semantic = IF level[f] >= 3 THEN "shared" ELSE tree[f].walk]
    /\ pc' = [pc EXCEPT ![f] = "rule"]
    /\ todo' = [todo EXCEPT ![f] = Looks(f, 1)]
    /\ UNCHANGED <<panics, submitted, shared, rule, target, result, perFile, out, dead>>

-----------------------------------------------------------------------------
(* A rule looks at nodes of files *)

Looked(f) ==
    /\ todo' = [todo EXCEPT ![f] = @ \ {target[f]}]
    /\ target' = [target EXCEPT ![f] = None]
    /\ pc' = [pc EXCEPT ![f] = "rule"]

\* A project rule asks for the pointer nodes of a file, a local one has a walk.
Look(f, g) ==
    /\ pc[f] = "rule"
    /\ g \in todo[f]
    /\ target' = [target EXCEPT ![f] = g]
    /\ pc' = [pc EXCEPT ![f] = IF Kind[rule[f]] = "local" THEN "lookup" ELSE "once"]
    /\ UNCHANGED <<panics, submitted, shared, tree, rule, todo, result, perFile, out, dead>>

\* pointerOnce.Do: the first one builds, the others wait for it.
EnterOnce(f) ==
    /\ pc[f] = "once"
    /\ IF once[target[f]] = "done"
       THEN pc' = [pc EXCEPT ![f] = "lookup"] /\ UNCHANGED once
       ELSE /\ once[target[f]] = "new"
            /\ once' = [once EXCEPT ![target[f]] = "busy"]
            /\ pc' = [pc EXCEPT ![f] = "build"]
    /\ UNCHANGED <<panics, submitted, level, cached, access, work, perFile, out, dead>>

\* ensurePointerSyntax sets Parsed, Walk and Semantic one after the other.
Build(f) ==
    /\ pc[f] = "build"
    /\ IF level[target[f]] < 3
       THEN level' = [level EXCEPT ![target[f]] = @ + 1] /\ UNCHANGED <<once, pc>>
       ELSE /\ once' = [once EXCEPT ![target[f]] = "done"]
            /\ pc' = [pc EXCEPT ![f] = "lookup"]
            /\ UNCHANGED level
    /\ UNCHANGED <<panics, submitted, cached, access, work, perFile, out, dead>>

\* The enclosing map that is asked is one that others can reach.
Reachable(f) == target[f] # f \/ tree[f].index = "shared"

\* EnclosingFunction reads the map, unless the rule never asks for it.
Lookup(f) ==
    /\ pc[f] = "lookup"
    /\ IF Kind[rule[f]] # "syntax" /\ Reachable(f)
       THEN /\ access' = [access EXCEPT ![f] = "read"]
            /\ pc' = [pc EXCEPT ![f] = "reading"]
            /\ UNCHANGED <<todo, target>>
       ELSE Looked(f) /\ UNCHANGED access
    /\ UNCHANGED <<panics, submitted, level, once, cached, tree, rule, result, perFile, out, dead>>

Found(f) ==
    /\ pc[f] = "reading"
    /\ rule[f] \in cached[target[f]]
    /\ access' = [access EXCEPT ![f] = "idle"]
    /\ Looked(f)
    /\ UNCHANGED <<panics, submitted, level, once, cached, tree, rule, result, perFile, out, dead>>

\* A node that is not there is looked for along its parents and stored.
NotFound(f) ==
    /\ pc[f] = "reading"
    /\ rule[f] \notin cached[target[f]]
    /\ access' = [access EXCEPT ![f] = "write"]
    /\ pc' = [pc EXCEPT ![f] = "writing"]
    /\ UNCHANGED <<panics, submitted, level, once, cached, work, perFile, out, dead>>

Store(f) ==
    /\ pc[f] = "writing"
    /\ cached' = [cached EXCEPT ![target[f]] = @ \cup {rule[f]}]
    /\ access' = [access EXCEPT ![f] = "idle"]
    /\ Looked(f)
    /\ UNCHANGED <<panics, submitted, level, once, tree, rule, result, perFile, out, dead>>

Conflict ==
    \E f, h \in Batch :
        /\ f # h /\ target[f] = target[h]
        /\ access[f] = "write" /\ access[h] # "idle"

\* The map's own check may notice and end the process; it need not.
Throw ==
    /\ Conflict
    /\ dead' = TRUE
    /\ UNCHANGED <<panics, submitted, pc, shared, work, perFile, out>>

-----------------------------------------------------------------------------
(* The end of a rule, of a file and of the batch *)

NextRule(f, findings) ==
    /\ result' = [result EXCEPT ![f] = findings]
    /\ target' = [target EXCEPT ![f] = None]
    /\ IF rule[f] < Rules
       THEN /\ rule' = [rule EXCEPT ![f] = @ + 1]
            /\ todo' = [todo EXCEPT ![f] = Looks(f, rule[f] + 1)]
            /\ UNCHANGED pc
       ELSE /\ pc' = [pc EXCEPT ![f] = "report"]
            /\ todo' = [todo EXCEPT ![f] = {}]
            /\ UNCHANGED rule

\* Findings are lost when the trees are mixed.
Return(f) ==
    /\ pc[f] = "rule"
    /\ todo[f] = {}
    /\ <<f, rule[f]>> \notin panics
    /\ \E lost \in IF Mixed(f) THEN BOOLEAN ELSE {FALSE} :
        NextRule(f, IF lost THEN result[f] ELSE [result[f] EXCEPT !.found = @ \cup {rule[f]}])
    /\ UNCHANGED <<panics, submitted, shared, tree, perFile, out, dead>>

\* The loop over the rules ends at the first panic (a plausible bug).
Panic_Stops(f) ==
    /\ pc[f] = "rule"
    /\ <<f, rule[f]>> \in panics
    /\ result' = [result EXCEPT ![f].failed = @ \cup {rule[f]}]
    /\ pc' = [pc EXCEPT ![f] = "report"]
    /\ todo' = [todo EXCEPT ![f] = {}]
    /\ UNCHANGED <<panics, submitted, shared, tree, rule, target, perFile, out, dead>>

\* A panic is recovered: the findings of the rule are dropped, the others run.
Panic(f) ==
    /\ pc[f] = "rule"
    /\ <<f, rule[f]>> \in panics
    /\ NextRule(f, [result[f] EXCEPT !.failed = @ \cup {rule[f]}])
    /\ UNCHANGED <<panics, submitted, shared, tree, perFile, out, dead>>

\* The goroutine fills the slot of its file.
Report(f) ==
    /\ pc[f] = "report"
    /\ perFile' = [perFile EXCEPT ![f] = result[f]]
    /\ pc' = [pc EXCEPT ![f] = "done"]
    /\ UNCHANGED <<panics, submitted, shared, work, out, dead>>

\* The slots are joined when all files have been submitted (a plausible bug).
Collect_NoWait ==
    /\ out = None
    /\ submitted = Size
    /\ out' = perFile
    /\ UNCHANGED <<panics, submitted, pc, shared, work, perFile, dead>>

\* Wait, then the slots are joined in the order of the files.
Collect ==
    /\ out = None
    /\ submitted = Size /\ Running = {}
    /\ out' = perFile
    /\ UNCHANGED <<panics, submitted, pc, shared, work, perFile, dead>>

Step(f) ==
    \/ ReadParsed(f) \/ ReadWalk(f) \/ ReadSemantic(f)
    \/ \E g \in All : Look(f, g)
    \/ EnterOnce(f) \/ Build(f)
    \/ Lookup(f) \/ Found(f) \/ NotFound(f) \/ Store(f)
    \/ Return(f) \/ Panic(f) \/ Report(f)

Next ==
    /\ ~dead
    /\ \/ \E f \in Batch : Submit(f) \/ Step(f)
       \/ Collect
       \/ Throw

Spec == Init /\ [][Next]_vars

\* The scheduler lets every goroutine and the submitting one go on.
FairSpec ==
    /\ Spec
    /\ \A f \in Batch : WF_vars(~dead /\ Step(f)) /\ WF_vars(~dead /\ Submit(f))
    /\ WF_vars(~dead /\ Collect)

-----------------------------------------------------------------------------
(* Properties *)

Trees ==
    [parsed : {"shared", "own"}, walk : {"shared", "own"}, semantic : {"shared", "own"},
     index : {"shared", "own"}]

TypeOK ==
    /\ panics \in SUBSET (Batch \X RuleSet)
    /\ submitted \in 0 .. Size
    /\ pc \in [Batch -> {"waiting", "parsed", "walk", "semantic", "rule", "once", "build",
                         "lookup", "reading", "writing", "report", "done"}]
    /\ level \in [All -> 0 .. 3]
    /\ once \in [All -> {"new", "busy", "done"}]
    /\ cached \in [All -> SUBSET RuleSet]
    /\ access \in [Batch -> {"idle", "read", "write"}]
    /\ tree \in [Batch -> Trees]
    /\ rule \in [Batch -> RuleSet]
    /\ todo \in [Batch -> SUBSET All]
    /\ target \in [Batch -> All \cup {None}]
    /\ result \in [Batch -> Findings]
    /\ perFile \in [Batch -> Findings \cup {None}]
    /\ out \in [Batch -> Findings \cup {None}] \cup {None}
    /\ dead \in BOOLEAN

Promise == INSTANCE LintBatch
    WITH Size <- Size, Rules <- Rules, None <- None,
         panics <- panics, perFile <- perFile, out <- out

\* TestCLIParallelLintingIsRaceFreeAndDeterministic: the findings of a run that
\* ends do not depend on how the goroutines were scheduled.
Deterministic == out # None => \A f \in Batch : out[f] = Promise!Expected(f)

\* TestCLIParallelLintingIsRaceFreeAndDeterministic: no goroutine writes an
\* enclosing map while another one reads or writes it.
RaceFree == ~Conflict

\* lintFile: each rule that panics on a file, and no other, leaves an internal
\* error there, and a rule that panics leaves no findings.
FailuresExact ==
    \A f \in Batch : perFile[f] # None =>
        /\ perFile[f].failed = {r \in RuleSet : <<f, r>> \in panics}
        /\ perFile[f].found \cap perFile[f].failed = {}

\* ensurePointerSyntax: what a file's pointer syntax holds is never replaced,
\* so nodes handed out earlier stay the nodes of the file.
SyntaxStays == [][\A g \in All : level'[g] >= level[g]]_level

\* The files linted at once implement the batch: slot by slot, in any order,
\* each with what its rules found, and in the end all of them.
ImplementsBatch == Promise!Spec
=============================================================================
