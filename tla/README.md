# pawnlint verification

TLA+ models of pawnlint, the linter for Pawn, with the TLC runs that check them
on small instances and the theorems TLAPS proves about them for every instance.
Every definition is translated from the Go source; `PROJECT.json` names the
lines each one stands for.

    tlc -workers 2 -config FixWrite.cfg MCFixWrite.tla     # a run
    tlapm FixWrite_proofs.tla                              # a proof module

## 1. The system

A command reads a configuration, finds files, builds one project model per
variant or configured build, lints the files by goroutines, asks external
programs, merges what they found, and then fixes the sources or reports. An editor
or a service uses the same engine through an API that keeps caches between
analyses.

| component | state it keeps | operations | hard because |
|---|---|---|---|
| fix plans and writing (`internal/fix`) | sources on disk, temporary files | Build, Write, second lint | users save meanwhile, any file operation fails, processes die |
| diagnostics cache (`internal/cache`, `internal/cli/cache.go`, `pkg/analyzer`) | one file per slot | Key, Load, Validate, Write | processes share slots; the key must cover every input; analyses are cancelled |
| parse cache (`pkg/project/cache.go`) | trees, indexes, walks, semantic models | parseHashed, prepare, get/put | builds race; four pieces are fetched under four locks; it is emptied at its limit |
| file probes (`cache.go`, `resolver.go`) | results of `Stat`, include resolutions, models | stat, ResolveAll, InvalidateFiles | the disk is probed outside the lock, files change, invalidation has two steps |
| lint run (`internal/cli/files.go`, `pkg/lint/engine.go`, `pkg/project/access.go`) | a slot per file, lazily built syntax | LintFile, ensurePointerSyntax, EnclosingFunction | goroutines share syntax that changes under them; rules panic |
| report (`internal/cli/output.go`, `internal/baseline`) | the baseline file | Generate, Apply, prune, emit | equal findings are told apart by number only; several processes replace the file |
| suppressions (`pkg/lint/suppress`, `suppression.go`) | used marks | IsSuppressed, reports of unused and unmatched directives, merge of variants | nesting by rule and for all; several variants must agree |
| configuration (`internal/config`), registry and options (`pkg/lint`) | none after loading | presets, rules, overrides, flags, features | a later layer must win over an earlier one; the model is built before paths are known |
| file discovery (`internal/project`) | none | globs, roots, excludes, files of builds | backtracking patterns, exclusion before inclusion |
| external rules (`internal/external`, `pkg/externalrule`) | a child process, a pipe, a buffer | one request, one answer | deadline, output limit, children that inherit the output |
| project model (`pkg/project`) | files by context, includes, units | Build, resolveFileIncludes, references, duplicates, conflicts, unused includes | cycles; a file is analysed once per set of defines; an include changes what its includer knows |
| call graph, effects and taint (`callgraph.go`, `effects.go`, `tainted_data_to_sink.go`) | summaries, a work list | fixpoints | recursion, unknown callees, order of work |
| control flow, values, aliases (`internal/controlflow`) and the rules on them | blocks, values, classes of locals | builders, data flow | joins, loops, jumps |
| preprocessor (`internal/preprocess`) | macros per file | define, expand, include | limits on depth and output, unknown conditions |
| semantic model and rules on expressions (`internal/semantic`, `pkg/rules`) | scopes, constants | evaluation, equivalence | width of cells, operands that may not be evaluated |
| other rules, metadata, formats, tools | none | – | – |

How they interact: `runFiles` calls `project.Build` once per variant, asks the
diagnostics cache, runs `Engine.LintFile` in goroutines and then the external
programs, merges the variants, then calls `fix.Build`/`fix.Write` (and itself once
more), or `emit`, which applies the baseline. The engine passes every finding through
the suppression matcher. The project model parses through the `ParseCache`, asks the
preprocessor for expanded trees, and gives rules the call graph, effects and control
flow. `pkg/analyzer` does the same over a `ParseCache` that outlives a call;
`pkg/editor` puts the trees of its host into that cache.

What makes each part correct: a source is never torn and a save never lost
without notice; cached diagnostics are those an analysis would give; a build
never mixes pieces of two contents; what is linted does not depend on the
schedule; a baseline hides what it lists and nothing else; a suppression hides
what it encloses; what the last layer of the configuration says is done; what the
linter says of a program (what is reached, known, open, tainted, bound, always
true) is so when the program runs. Section 3 has the exact statements.

## 2. The modules

Systems with actors:

| module | models | state and actions |
|---|---|---|
| `FixWrite` | `fix.Build`, `fix.Write`, the fixing part of `runFiles` | a program counter per process, `before` (the sources analysed), `plan`, `temp`; one action per file operation, its failure, `Crash`, and `Save` by a user |
| `DiagnosticsCache` | `cache.Key/Load/Validate/Write`, `cachedDiagnostics`, `cachedAnalyzerDiagnostics` | `slots` on disk; per process the command, the context and the model; `Hit`, `Miss`, `LintOne`, `Cancel`, `Store`, `Rename` |
| `ParseCache` | the four caches and their use by `addFile` and the editor's `prepare` | one action per critical section: look-up, parse, insert, and the same for index, walk and semantic model; `resetAnalysisLocked` is part of the insert |
| `FileProbes` | `stat`, `ResolveAll`, include and model caches, `InvalidateFiles` | look-up, probe and store of a path are three actions; invalidation is two |
| `LintBatch` | what a batch promises | one slot per file, filled in any order, then joined |
| `LintRun` | goroutines of a batch through `lintFile`, `ensurePointerSyntax`, `EnclosingFunction` | three reads of the shared syntax, `sync.Once`, the unlocked map as a read and a write with a duration |
| `Report` | `baseline.go` and `emit` | `Start` has the findings of a run, then `Load`, `WriteTemp`, `Rename`, `FailWrite`, `Emit`, `FailOutput`, `Crash`; users `Edit` |
| `ExternalRules` | `Run` of `pkg/externalrule` and `internal/external` | the process, its deadline, pipe, buffer and answer; programs write chunks, fork, exit, hang; the linter receives, kills, reaps, decodes |
| `Suppression` | `parser.go`, `matcher.go`, `suppression.go`, the unknown-suppression rule, `mergeVariantDiagnostics`, `mergeBuildDiagnostics` | `Filter` passes a finding, `NextVariant`, `Count`, `Merge`; the matcher is a set of functions |

One file from its settings to what is reported of it:

| module | models |
|---|---|
| `Selection` | `glob.go`, `discover.go`: matching by segments with backtracking, roots, excludes, the files of a build |
| `Settings` | the registry with aliases, typed options and profiles; finding and decoding files, presets, severities, overrides, `ApplyCLIOverrides`, `ProjectFeatures` |
| `FileLint` | `resolveConfig`, the choice between paths, builds and standard input, the contexts of a file, external programs in each: composes `Settings`, `Suppression` and `ExternalRules` |

The linter's view of a program, each beside a machine that runs the program:

| module | models |
|---|---|
| `ControlFlow` | `internal/controlflow`: blocks and edges, reachability, values, aliases |
| `FlowRules` | unreachable-code, missing-return-value, infinite-loop, invariant-loop-condition, dead-write, redundant-initialization, possibly-uninitialized, required-call-order; redundant-else, cyclomatic-complexity, npath-complexity |
| `ResourceRules` | unreleased-resource-handle, read-after-release, overwritten-resource-handle |
| `LoopRules` | loop-invariant-call, repeated-strlen-in-loop, repeated-format-work, string-concatenation-loop, overwritten-copy, unsafe-string-termination, unconditional-recursion, prefer-const, and the facts about calls they share |
| `FunctionRun` | a function runs statement by statement as the language has it, following the statements and not the edges |
| `CallGraph`, `TaintAnalysis` | edges and recursive components, effects to their fixpoint, the work list of tainted-data-to-sink |
| `CallRun` | both analyses at work, one step per element of a queue; what a program really does by running every function every way |
| `Includes` | which lines are active under which defines; the includes of a file, its contexts, what an include leaves defined |
| `ProjectModel`, `ProjectRun` | units, cycles, symbols, references, duplicates, conflicts, unused includes; the compiler that reads the same files as one text |
| `Macros` | `expand.go`: definitions, invocations, substitution, the limits, what files hand to their includers |
| `Expressions`, `ExpressionRules`, `SyntaxRules` | evaluation, ranges, equivalence; constant-overflow, constant errors and conditions, impossible-comparison, duplicate-condition, incomplete-enum-switch, discarded-expression; redundant-parentheses with its fix, unparenthesized-macro, macro-repeated-parameter |
| `ExpressionRun` | a file with its includes is preprocessed by the linter and by the compiler, the rules look at it, the program runs in cells of a few bits |

Compositions. `LintRun` has `Promise == INSTANCE LintBatch WITH ...` with the mapping
of its slots and its order spelled out: the detailed run is shown to implement
the batch. `FileLint` interleaves nothing it does not have to: contexts follow each
other, and within one the matcher runs before the programs are asked.
`FileProbes` extends `ParseCache`, since both are the memory of one session; the two halves
are under different locks and share no variable, so `MCSessionCache` explores each
while the other rests.

Each `MC...` module gives the constants of one module values that a `.cfg` cannot spell; each `..._proofs`
module holds its theorems (`SessionCache_proofs` those of `ParseCache` and `FileProbes`, `Settings_proofs` those of `Selection` and
`Settings`, `FileLint_proofs` also those of `Suppression` and `ExternalRules`, `ProjectRun_proofs` those of
`Includes` too). `RECURSIVE` operators stay in modules that no theorem
is about.

A definition whose name ends in `_Something` (`Generated_All`) and whose
comment says "a plausible bug" is not part of a specification. It is what the
definition before the underscore would be with a mistake in it, and is there to
show that a property notices.

## 3. What is checked

| run | question | properties | size |
|---|---|---|---|
| `fix_write` | Two processes fix two files while a user saves twice, operations fail and processes die. Is a source ever torn, or a save lost that came before the check? Does every command end? | `RefusedPlanWritesNothing NoTornSource EarlierSavesSurvive EveryRunEnds` | 2 processes, 2 files, 4 contents, 2 saves; 2.27 million states |
| `cache_shared` | A command and an API user share the cache. Is what is served what their own inputs and rules in force give, and is what was stored found again? | `ServedMatchesInputs StoredIsComplete UnchangedInputsHit` | 2 processes, 2 contexts, 2 contents, 2 configurations, 2 commands, 2 changes; 1.07 million |
| `session_cache` | Two builds and an editor race over one path; two builds race with changes of files and `InvalidateFiles`. | `HeldIsOwn FirstParseWins BuildsReadTheDisk` | 2 contents, at most 2 trees, a limit of 1; 2 candidates, 2 changes, 3 builds; 4.56 million |
| `lint_batch` | Does every schedule of a batch give the same findings and implement `LintBatch`? | `Deterministic ImplementsBatch` | 3 files, 2 at a time, 1 include, 2 rules, every set of panics; 114,000 |
| `lint_race` | (violated) Is the map of enclosing functions written by one goroutine at a time? | `RaceFree` | 2 files |
| `report` | Two processes generate, check and prune while users edit. | `NewFindingsRemain BaselineHasNoGaps ErrorsStay ExitTellsAll PruneHidesTheSame` | 2 processes, 2 files of up to 3 findings, 3 identities, a limit of 1; 443,000 |
| `file_lint` | One file, its settings, comments, contexts and programs. Does the last word win, is what is selected what is meant, are directives judged truly, are answers taken whole or not at all, does the lint end? | `StacksPair ReportedDirectivesAreIdle LastWordWins FeaturesSuffice GlobsMatch AnswersAreWholeOrNothing LintsEnd` | 12,841 requests: see below; 249,000 |
| `external_limit` | (violated) Does an answer over the limit fail? | `LongAnswersFail` | a limit of 1 chunk |
| `flow` | A function runs, with what the linter says of it. Does it get only where it is said to, hold the values it is said to hold, use only what is assigned and open, unless that is reported? | `FlowIsSound WritesAreTracked HandlesAreFollowed RepeatedWorkIsSteady` | 10,092 functions of up to 11 statements, `NPathLimit` 12; 225,000 |
| `calls` | Are the cycles of calls, the effects of functions and the flows from sources to sinks those of the program? | `SummariesAreExact FlowsAreExact AnalysisAdvances` | programs of 3 and 4 functions, calls to a depth of 6; 125,000 |
| `project` | Is what the linter says of units, includes, names and clashes what the compiler makes of the text? | `UnitsAreTexts IncludesAreJudged NamesAreBound ClashesAreReported` | workspaces of 3 to 5 files of up to 3 parts; 334,000 |
| `expressions` | Are macros expanded, parentheses removed and expressions evaluated as by the compiler and the machine? | `MacrosAreExpanded ParenthesesKeepTheTree EvaluationIsTheMachines VerdictsHold CoveredSwitchMatches` | cells of 4 bits, expansion to depth 3 and 8 tokens; 54,000 |

The right hand side of the last four. `FunctionRun`, `CallRun`, `ProjectRun` and
`ExpressionRun` have, beside the linter's computation, what it is about: a program
that runs, or a compiler that reads. That part is written from the language and
does not use the linter's definitions, so that a disagreement is possible. Several
properties are conjunctions of named parts:

* `FlowIsSound` = `RunsOnlyReachable`, `KnownValuesHold`, `AliasesHoldOutsideFor`,
  `RecursionsRecur`; `WritesAreTracked` = `DroppedValuesAreDead`, `EarlyUsesAreReported`,
  `ReplacedCopiesAreDead`, `OpenStringsAreReported`, `ConstantsStay`;
  `HandlesAreFollowed` = `LossesAreReported`, `UsesAfterReleaseAreReported`;
  `RepeatedWorkIsSteady` = `SteadyCallsAgree`, `EveryRoundWorks`.
* `SummariesAreExact` = `RecursionIsFound`, `EffectsAreExact`; `FlowsAreExact` =
  `FindingsAreReal`, `FlowsAreReported`. `AnalysisAdvances` is the measure by which
  both work lists come to an end.
* `IncludesAreJudged` = `CyclesAreEndless`, `UnusedIncludesAreFree`; `NamesAreBound` =
  `ReferencesAreBindings`, `UnusedIsUnbound`; `ClashesAreReported` =
  `DuplicatesClash`, `ConflictsClash`.
* `MacrosAreExpanded` = `ExpansionIsTheCompilers`, `QuietMacrosAreHygienic`;
  `ReportedDirectivesAreIdle` = `LooseIsIdle`, `SinglesAreAgreed`; `BuildsReadTheDisk` =
  `CurrentWhenSteady`, `IncludeIsReread`.

Where such a property has a condition, its comment says why: it excludes a weakness of
the code that the list below describes, or what the linter cannot know and says so
(a define in a branch that is not decided, a call of something unknown).

### Bounds

The races are between two parties over one or two objects: two processes over
two files have a first and a last file of a plan, so a plan can fail or be overtaken
in its middle. One path is all that a build looks at at a time in the parse cache,
and a limit of one analysis makes every second insert a reset. Two candidates have a
first and a shadowed one. A batch of three with two goroutines has one that waits
for a place. Of the contents of `fix_write` two
are each other's fix, so a process that went on fixing would never end. A file with two equal findings next to one with one has occurrences 0 and
1 and the same finding in two files. Three directives are what it takes to open twice
and close once. `MaxSaves`, `MaxCommands`, `MaxChanges`, `MaxBuilds`, `MaxTrees` bound
the environment only; they are guards of the actions that count and of nothing else.

The requests of `file_lint` are eight sets, each large where it matters and small
elsewhere: what two presets and a file say of a rule and its alias, by string, table
or neither, in every combination; the same with a preset that has a preset of its own,
odd values and tables in tables; overrides of two files with profiles and flags; what
is refused; patterns of one and two segments against paths of one and two, as
override, root and exclude at once; comments in two variants; comments in paths, builds
and standard input; one or two programs in one or two contexts, with answers that are
good, damaged, long or of another version. `Longest` and `LastLine` bound the
comments, `Capacity` the pipe.

`flow` fills the shapes of control of the language (sequence, branch, loop of each
kind, nested loops, switch, goto in both directions, bare blocks) with every choice
of a few operations at each place: a value has to survive a join, a loop back, a
copy and a call, and each of these is one place. Values are 0, 1 and 2; a run stops
counting there. Three conditions in a row have more than `NPathLimit` ways through them. `calls` has all graphs of three functions with up to two calls each
and all rings of four, which contain every way a cycle can be entered; a depth of six
goes twice round the longest. `project` needs three files for an include of an include
that undoes what the first knew, five for two programs that share one. `Elsewhere` is one name,
which conditions ask for; includes that nest more than `Depth` = 5 deep are taken for endless. Cells of four
bits have every boundary that cells of 32 bits have, and a shift by 16 is out of
range in both; the limits on macros are reached by chains of four.

Processes and builders are interchangeable, hence the symmetry sets; symmetry is
used in runs without liveness only.

Deadlock. `FixWrite`, `DiagnosticsCache` and `ExpressionRun` end in an explicit
stuttering step and are checked for deadlock. In the other runs the batch, the
bounded environment, the function or the single file comes to its end:
`CHECK_DEADLOCK FALSE`. For `LintRun` that no goroutine waits for ever follows from
`ImplementsBatch`, whose specification demands that the batch ends, for `FileLint` from
`LintsEnd`.

### Fairness

`FixWrite!FairSpec` says the operating system runs every process; a process that was
killed takes no step. `LintRun!FairSpec` says the Go scheduler runs every goroutine
that can go on; nothing is assumed of the race detector (`Throw`), of users, of
failing operations. `FileLint!Fairness` says the linter's own goroutine goes on, the
copier receives what is in the pipe, deadlines pass, the kernel lets the parent reap
a process that ended, and `Finish` follows: nothing is assumed of programs and their
children. Its first conjunct is `WF_vars(Lint)` with `ENABLED Lint` written out as
`LintReady`, which TLC evaluates faster; on the requests with programs the two
agree in every state. `LintsEnd` has the condition that no
child holds the output for ever, which is a weakness of the code. The other
specifications have no fairness and need none.

### Where the code and its documents differ

Shown by a run:

* `lint_race`. `EnclosingFunction` fills a map without a lock; rules that follow
  calls ask for it across files while those are linted.
* `external_limit`. `limitedBuffer` embeds `bytes.Buffer`, so `io.Copy` fills it
  through `ReadFrom`; its `Write`, with the 8 MiB limit of `docs/external-rules.md`, is
  never called.

Stated, and not true of the code. Each is a definition that no run claims; added as an
INVARIANT to the configuration that is named, TLC finds a run of the program against it.
What the runs do claim leaves the case out.

* `ServedRulesAreOwn` (`DiagnosticsCache.cfg`). The key of the command line holds the enabled
  rules without overrides, and not the flags, which win over overrides: after an
  override enabled a rule, a run with `--disable` of it is served its findings
  (`docs/configuration.md:47` promises reuse for an unchanged effective configuration).
  `ServedMatchesInputs` claims the rules in force for the API, which has no flags, and for
  commands without an override of the target.
* `ServedIncludesAreOwn` (`DiagnosticsCache.cfg`). The candidates of an include that were not
  chosen are in no key, though ambiguous-include reports them. `ServedMatchesInputs` says nothing
  of them.
* `ProfileOutranksRules` (`FileLint.cfg`). `[rules]` win over `--profile`;
  `docs/configuration.md:296-301` ranks the profile above them. `LastWordWins` leaves out
  severities on which the two are the ones to decide (`Disputed`).
* `OverwritesAreLinear` (`FunctionRun.cfg`). overwritten-resource-handle says of itself
  (`overwritten_resource_handle.go:20`, its page, line 16) that it reports along one linear
  path without references only. The code reports across branches and behind calls
  that only borrow the handle, as `ReplaceFile` among the Bad examples of that page and
  `testdata/rules/overwritten-resource-handle` (`valid.pwn:16`) expect. The documents
  disagree among themselves; `LossesAreReported` sides with the tests, and demands such reports.

Met while modelling. Each is either visible in the model, where a property excludes
it by a condition, or lies in a part the model leaves out.

Caches and runs
* All variants of a command line share one slot of the diagnostics cache and evict each
  other.
* A file whose syntax is not there from the start may be linted with the tree, the walk and the
  semantic model of two parses; whether a rule loses findings by it is not modelled.
* Trees with and without trivia are told apart by the entries of the parse cache but not
  by its index, walk and semantic entries.
* A build in flight during `InvalidateFiles` puts an old probe back. An analyzer
  session never invalidates: it keeps an outdated choice of an include.
* A panic while pointer syntax is built counts as done: later look-ups find no node.
* Pruning while a part of the project is linted drops the entries of the other files;
  of two processes that prune at once one update is lost.

Suppressions and merging
* `disable r`, `disable r`, `enable r`, finding: the second directive hides nothing and
  is reported as one that can be removed; without it the finding is no longer hidden.
  More generally a directive with an enable after it is judged by what it hid, not by
  what its removal would do.
* A directive that names two unknown rules is reported twice at one place; two
  variants make four reports, which are not two, and all are dropped.
* Configured builds have no "every variant agreed" exception: a directive one build
  uses and another does not is reported. Different findings of one rule and range are merged.
* A finding a rule reports in another file is suppressed there without marking the
  directive as used. Findings of external programs are not suppressed at all.
* A directive in a comment of several lines counts from the first of them.

Configuration
* A preset that uses an alias and a file that uses the new id are refused as
  "configured by both", although the file would win.
* A table without severity over a preset's string loses that severity; a string in a
  nested preset does not undo an outer preset's table. `--enable` resets a configured
  severity to the default. `overrides = []` in a preset clears nothing, in a file it does.
* The command line never uses `include`, since roots are always given, and a file
  without `exclude` has none of the default excludes.
* `wildcardMatch` compares a star of a pattern with the name before it takes it for a star:
  `*b` does not match a file named `*ab`.

External programs
* The timeout kills the program, but `Run` waits for everyone who inherited its
  output (no `WaitDelay`): a child that never ends keeps the lint for ever. An exit before
  the deadline is accepted even when the deadline passes during that wait.

Control flow and rules on it
* redundant-else takes a block with a jump in it for one that cannot be left otherwise: a
  label behind the jump is overlooked, and the fix then lets control run on into the former
  alternative. npath-complexity saturates by a rounded quotient, so a product above half the
  limit may be called "at least" the limit; a count below the limit is exact.
* `buildSwitch` gives `break` in a clause a target of its own; Pawn's `break` leaves the
  enclosing loop. The runs have no `break` in a clause.
* `aliases.go` takes the head of a `for` statement for straight-line code. The increment of
  a `for` belongs to its block with an offset behind the condition, so a condition is
  evaluated with the body's value; a call there counts as made whenever the loop is entered
  (unconditional-recursion).
* A prefix `++x` on a local, and `(x) = 1`, are no events for `values.go`: a stale value
  stays known and a division by it is reported. `references.go` does count the former.
* infinite-loop ignores writes to its counter after the loop's start in an outer loop.
  dead-write reports static locals. `c && (x = 1)` counts as a definite assignment.
* A second release by the same statement in a loop, and a handle overwritten on the
  way back in a loop, are missed.
* Rules that go by the nearest block (repeated-format-work, string-concatenation-loop,
  overwritten-copy) do not see jumps out of a bare block nested in it. An unbraced
  `if (c) s[0] = EOS;` counts as a termination, a braced one does not.
* prefer-const asks the API before the project: a function of the project with the name of
  a native is taken for the native.

Calls and taint
* A label a function both makes and is handed is left out of its summary if it is handed
  first; `enqueueCallers` ranges over a map, so the findings vary between runs.
* `x = f(x)` loses the labels of `x`; a global of the same file passed by reference is
  never in `WritesGlobals`; results of `CallLocalFunction` and conditional calls that write
  to an argument are not followed.

Project
* unused-include judges each set of defines a file is analysed under alone: a directive
  one of them needs is reported for the other.
* include-cycle enabled alone is never reported: `needsUnits` does not count it.
* A static of the same name in another file makes references ambiguous; a forward
  declaration in an include takes the calls of that file from the definition elsewhere:
  both make unused-function wrong.
* Defines in branches that are not decided count as not defined where the file is
  complete. Declarations after `#endinput` are declared. The "first" of two
  duplicates is the first in the order of the walk over files, not of the text.

Expressions, macros, parentheses
* redundant-parentheses turns `-(-b)` and `a-(-b)` into `--`: two marks become one. It
  reports `(M) * 2` where the body of `M` is bare.
* duplicate-condition ignores side effects of a condition in between;
  discarded-expression reports `M + 1;` where `M` has one.
* A macro that expands to the name of another is not applied to the parentheses after it,
  yet called complete; chains of macros with empty bodies escape the limit on tokens.
  unparenthesized-macro says nothing of bodies that are a parameter, a tagged
  expression or an assignment. An included file's expander does not know the macros of
  its includer.
* Decimals from 2^31 to 2^32 - 1 wrap without a report.

## 4. What is proved

For every value of the constants, under the named `ASSUME` of each module: types of the
constants, that the special values are none of the ordinary ones and no severity (`NoneAssumption`,
`TagAssumption`), that a report has finitely many files (`ReportAssumption`), that
answers are sequences of diagnostics (`ExternalAssumption`), that no rule is called "all"
and findings are on lines (`SuppressionAssumption`), that there is a candidate and
room for a probe (`FileProbesAssumption`), that registering the rules one by one fails
nowhere, since the program panics otherwise (`RegistrationAssumption`), that a disk is
finite, the lists of a file are lists, what is linted is a file of its tree with nothing
below it, and comments come in the order of the text (`RunsAssumption`), that a workspace is
one (its files are sequences of lines, what is linted is among them, each named once, and neither
the configuration nor a line defines or undefines a name of the compiler: `WorkspacesAssumption`),
that includes nest to some depth (`DepthAssumption`), and that no name a file declares or
refers to is defined where the linter does not see it (`ElsewhereAssumption`: such a name would be a
macro, and none of the program's names). TLC evaluates all
of them, and `PlainNames`, the condition of `GlobsAlwaysMatch` and
`LastWordAlwaysWins`.

| module | theorems |
|---|---|
| `FixWrite_proofs` | `TypeCorrect`, `RefusalIsSafe`, `SourcesStayWhole`, `EarlierSavesAreSafe` |
| `DiagnosticsCache_proofs` | `TypeCorrect`, `ServedIsOwn`, `EntriesAreComplete`, `StoredIsFound` |
| `SessionCache_proofs` | of `ParseCache` `ParseTypes`, `HeldIsOwnAlways`, `FirstParseWinsAlways`; of `FileProbes` `ProbeTypes`, `BuildsAreCurrent` |
| `LintRun_proofs` | `TypeCorrect`, `ProvidedIsDeterministic`, `RunImplementsBatch`, `FailuresStayExact`, `LocalIsRaceFree`, `SyntaxIsStable` |
| `Report_proofs` | `TypeCorrect`, `UpdatesAreReported`, `PruneIsInvisible`, `ErrorsAreNeverHidden`, `BaselineStaysWithoutGaps`, `NewFindingsAlwaysRemain`, `ExitsTellAll` |
| `Settings_proofs` | `WildMeans`, `MatchSegmentsMeans`, and the other lemmas on patterns, loading, merging and layers |
| `FileLint_proofs` | `TakenIsWhole`, `StacksAlwaysPair`, `DirectivesAlwaysIdle`, `AnswersAlwaysWholeOrNothing`, `FeaturesAlwaysSuffice`, `GlobsAlwaysMatch`, `LastWordAlwaysWins`, and the lemmas on directives, stacks and reports |
| `ProjectRun_proofs` | `UnitsAlwaysTexts`, and the lemmas on walks, includes and texts |

Each module proves `Init => IInv`, one lemma or step per action that `IInv` is kept, and
reads its theorems off `Spec => []IInv`. None of the properties is inductive as
it stands.

* `FixWrite`: a rename may overwrite a save unless the process has compared the
  file, so `IInv` says which files have been compared at each point
  (`ProcInv`) and that those still hold what was analysed or were touched since
  (`UnchangedSinceVerified`).
* `DiagnosticsCache`: what is served may come from anyone's entry, so `IInv` says
  of every entry, in a slot or a temporary file, that its key names its writer and the inputs
  of its diagnostics (`Sound`). From these follow the rules in force (`Own`): the API has no
  flags, so its configuration tells them; for a command they are the enabled rules
  of the key if no override matches, and the key tells no more. `StoredIsFound` needs more: an API user that stored under
  a key finds it there until someone interferes, so `WarmInv` says of every slot that is
  still warm that it has the entry, and `CarriedInv` that a process about to rename has
  it in its temporary file; a process of the command line uses other slots.
* `ParseCache`: `CacheInv` says of every cached piece that it was made from the
  content it is cached under; `ProcInv` which pieces a build holds where.
* `FileProbes`: a build in flight may put what it holds into the memory at any time, also
  after an invalidation. So `BuildInv` says of everything such a build has gathered at each
  point, and `MemoryInv` of everything remembered, that it agrees with the disk as long as
  no file has changed since an invalidation that met no build in flight (`clean`); `SteadyInv`
  carries this to the builds that began then.
* `LintRun`: what a file has found so far is what its rules up to the current
  one give, provided the three parts of its syntax came from one tree; that they
  do when it was there from the start is why `ProvidedIsDeterministic` has that
  condition. `RunImplementsBatch` maps every step to a step of `LintBatch` or to
  a stutter.
* `Report`: entries are for eligible findings wherever they are (`DiskInv`,
  `ProcInv`), and where a process is tells whether it has replaced the file.
  `CurrentHidesTheSame` is a lemma about all baselines and all findings.
  Then, with `CountInv`: numbers below one that is given out are given out (a least and
  a greatest element argument over positions, without induction), pruning keeps it so, and
  a finite set of numbers without gaps is what lies below its size; so occurrences
  correspond to numbers, entries to the first `k` of them, and the rest remain. Last, with
  `ShownInv`: the order of findings is total, so the ranks of a finite set of them have no
  gaps either (`RanksHaveNoGaps`), and a cut that leaves something out has just as many as
  the limit (`CutIsFull`).
* `ExternalRules`: chunks are conserved (`Conserved`: those in the pipe and in the buffer
  are those written, and one more if a child wrote), so that a buffer of the right length
  that nobody else wrote to is the whole answer.
* `FileLint` composes, so its theorems rest on those of its parts and on what no step of it
  touches. `Kept` says that what a lint reads stays what the request has, `Collected` that its
  programs take steps of `ExternalRules` (`LintSteps`; so `TakenIsWhole` carries over),
  `Counted` how many answers there are at each point of each context, and `Suited` that what
  the settings enable on any path is what the features were computed from.
  The matcher's stacks (`Open`), loading (`LoadPresets`, `OnTop`), the layers of overrides
  (`Layered`) and the collected answers are recursive functions, of which TLA+ knows nothing
  until one is shown to exist: `Stepwise` builds one value after the other, by the induction
  that a least counterexample gives (`Least`), and `SameSteps` says there is no other. Then
  `OpenIsLeftOpen` says of every sequence of directives what the matcher has open after each of
  them, with `FromFileInOrder` for the order they come in. `DirectivesAlwaysIdle` adds that what
  a context has looked at has marked all that hides it (`Marked`). A directive that no later
  enable could pair with is open from its line to the end of the text (`LooseStaysOpen`), so
  for a finding that is looked at it is used or does not count; an unmatched enable
  finds an empty stack, also when the lines looked at go further (`OpenBeyond`); and
  what neither pushes nor pops leaves the stack as high as it was, by induction on the
  directives (`RestOpens`). `Told` carries what the contexts so far say of a directive: it hid
  nothing in any of them if and only if all of them report it and this one has not marked
  it yet; `CountSingles` that a sum of zeros and ones is their number only if all are one.
  `LoadShape` that loading, however
  presets name each other, gives files or an error, by induction on the files that are not
  above yet; `LayeredIs` that after any number of overrides a path has a rule exactly as the
  last layer that has it. `LastWordWins` leaves out
  severities on which a profile of the command line and `[rules]` differ (`Disputed`); what the
  code makes of those is in `ConfiguredIsLastWord`. For `LastWordWins` the invariant (`Meaning`) is only that settings
  are what the request configures; the lemmas of `Settings` below say what that is.
* `Selection`: both matchers are recursive functions over the states of a loop and the
  cells of a table. What comes of a state of `wildcardMatch` (`Found`) is that the rest of
  the pattern lies on the rest of the text, or would if the last star had taken more:
  going back to the last star only is enough, since what lies between it and the current
  place has no star, so a later end of that star is a later end of what follows it
  (`LaterEnd`, by induction on the characters between). `AtEnd`, `OnMatch`, `OnStar` and
  `OnNeither` show that each branch of the loop keeps `Found`; `LoopExists` and `LoopIsOne`
  that the function with these values is the loop and the only one, by a least state, first
  in what is left for the last star and then in what is left of the pattern. The table of
  `matchSegments` is done the same way on whole segments. `FileLint` adds that a file is
  linted if there is a context for it (`Picked`) and that loading and flags leave lists
  of patterns such lists (`Shaped`, `Lists`, `Settled`).
* `Settings`: what is configured is what was said last (`ConfiguredIsLastWord`), by way of
  what a merged table of rules tells of the files it was made from (`Tells`): the files since
  the last one that replaced a key, option by option the last of those with it.
  Laying one table on another keeps this if the upper one has lost nothing (`RulesOnTop`): a
  string in a file among the upper ones would have taken away only what it knew. So every
  preset but the last must be `Lossless`, which it is where the files are `Flat`
  (`FlatLossless`). `PresetsTell` adds the presets of a file one by one and `ChainTells` the
  files that name each other, by induction on the files that are not above yet, with the
  sequence of speakers shown to exist the same way (`SpeakSteps`); `LastOverrides` does the
  same for the one list of overrides that remains. Then names become rules: one table has one
  name for a rule, or it is refused (`OneName`), so what is told of a name is told of the
  rule (`FilesName`, `FilesSeverity`, `FilesOptions`; a table where an option
  should be a value is refused too, hence tables in tables may be merged in any way).
  `MatchingHits` says which overrides have a say on a path, `LayeredIs` that the
  last of them wins, and `FlagsMean` that flags come after all of them.

* `ProjectRun`: walks, texts and the lines of a unit are recursive functions; `WalkSteps`,
  `ReadSteps`, `TextsAreRead` and `LinesAreSeen` show that they are what their recursion says.
  `IInv` says of every context what the resolver has made of its includes up to the line it is
  at (`IsRecorded`): each that is compiled leads to the file that the walk, with what the
  includes before it left defined, sends it to, and nothing else is recorded. The walk changes
  while it is used: what an include leaves defined is put in afterwards, so the lines up to
  that include must be those it was resolved by (`WalkSame`, `RecordedFinal`). What is
  defined after an include is what its file leaves, unless the file leads back to it
  (`IsJudged`); that a context met on the stack does, is why `IsBelow` says where each
  context of the stack leads (`MetIsLoop`).
  The rest is about one state in which all is resolved. Line by line the walk and the compiler
  stay near (`LineNear`): the compiler has the names the linter knows and no others but
  those from elsewhere, and takes no branch the linter rules out (`NestStep`). Then by
  induction on the includes that are left: a text that ends has no include that leads back to
  itself, so it leaves what the linter says (`AllFinal`), and it has the lines the linter sees
  (`AllSeen`).

`GlobsAlwaysMatch` and `LastWordAlwaysWins` have the condition that no name of a path has a
star of its own (`PlainNames`): for such names `wildcardMatch` does not find what the pattern means.
`LocalIsRaceFree` has the condition that no rule is a project rule that asks for
enclosing functions: with one, `lint_race` shows the race.

Only model-checked: liveness (`EveryRunEnds`, `LintsEnd`, the fairness of
`ImplementsBatch`), which is out of TLAPS's reach, as are `ENABLED` and induction over
data; everything about flow, calls and expressions, whose definitions are recursive or folds over data: what a
fixpoint computes for every input is such an induction; and of projects `IncludesAreJudged`,
`NamesAreBound` and `ClashesAreReported`, which are about visits of all contexts.
`UnitsAlwaysTexts` has a condition as the property has it, that a unit is settled: no
define, include or end of input depends on what the linter does not know.

## 5. What is left out

Of the modelled parts: texts, messages, hashes and encodings, which are values
told apart by identity; `Diff`, timing output and formats, which are layout; the
expansions cache, which holds the result of a pure function under its whole
input; cancellation inside a lint run and `CachedFlow`; errors of the file system in
discovery; conditional regions inside functions and syntax errors, which make a function
uncertain and silence the rules; states, inner scopes, strings, floats, `sizeof` and tags
of the semantic model; what is sent to an external program; the fix of
unparenthesized-macro.

External, and modelled from how the code uses it: the parser, with the precedences of the
rule's own table; the file system; users; the programs that are asked; Pawn's compiler and
machine (division truncates, text of macros is taken as separated tokens).

Not modelled: the rules that look at one node and its text, of which there are some two
hundred; output formats, generated metadata, documentation and other tools, which keep no
state and decide nothing; quick fixes and the conversions of `pkg/editor` and
`pkg/analyzer`, which turn one result into another; flag parsing.

## 6. What a later extension could take up

* Functions with conditional regions in `ControlFlow`, and with them the rules'
  silence where a function is uncertain.
* States and several definitions of a function in `CallGraph`; the merge of
  configured builds over several files, composed with `ProjectModel`.
* Tags and inner scopes in `Expressions`.
* Proofs of the parts of `AnalysisAdvances`, which are about single steps and need no
  induction.
