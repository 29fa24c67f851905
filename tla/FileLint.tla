------------------------------ MODULE FileLint ------------------------------
(***************************************************************************)
(* One file from its configuration to what is reported of it: Settings say *)
(* what is enabled, each context filters what the rules find through the   *)
(* comments of the file and then asks the external programs, and the       *)
(* contexts are merged (resolveConfig in internal/cli/cli.go, runFiles,    *)
(* runConfiguredBuilds, runStdin).                                         *)
(***************************************************************************)
EXTENDS Suppression, ExternalRules

CONSTANT Runs \* sequence of sets of what is linted: disk, level, cli, the path and the
              \* tree and roots it is found in, mode, comments

\* A disk is finite, what is linted of it is a file, below which there is nothing, and a
\* parser finds comments in the order of the text.
ASSUME RunsAssumption ==
    \A n \in DOMAIN Runs : \A q \in Runs[n] :
        /\ IsFiniteSet(DOMAIN q.disk)
        /\ \A p \in DOMAIN q.disk : q.disk[p] # None => IsFile(q.disk[p])
        /\ q.mode # "stdin" => q.path \in q.tree /\ \A f \in q.tree : ~Below(f, q.path)
        /\ IsSeq(q.comments)
        /\ \A i \in DOMAIN q.comments :
              LET c == q.comments[i]
              IN  c.line \in Nat /\ IsSeq(c.lines) /\ \A k \in DOMAIN c.lines : IsSeq(c.lines[k].ids)
        /\ \A i, j \in DOMAIN q.comments : i <= j => q.comments[i].line <= q.comments[j].line

VARIABLES
    request,  \* the one of Runs
    settings, \* the configuration, None: none
    exit      \* "none", "emit", "usage" or "internal"

vars == <<request, settings, exit, lintVars, externalVars>>

\* The contexts in which the file is linted: the configured builds that select it if
\* no paths are given, else the variants; standard input has one.
Contexts(r, q) ==
    IF q.mode = "builds"
    THEN Cardinality({k \in DOMAIN r.source.builds :
             LET b == r.source.builds[k] IN q.path \in BuildFiles(q.tree, b.entry, b.files, b.exclude)})
    ELSE IF q.mode = "paths" /\ q.path \notin Discover(q.roots, r.source.exclude, q.tree, q.tree) THEN 0
    ELSE IF q.mode = "stdin" \/ Len(r.source.variants) = 0 THEN 1
    ELSE Len(r.source.variants)

Init ==
    /\ \E k \in DOMAIN Runs : request \in Runs[k]
    /\ settings = None /\ exit = "none"
    /\ comments = request.comments
    /\ LintInit /\ ExternalInit

\* resolveConfig, and the start of the first context; a file that is not selected is
\* not looked at.
Configure ==
    /\ stage = "waiting" /\ exit = "none"
    /\ settings' = Configured(request.disk, request.level, request.cli)
    /\ IF settings' = None
       THEN exit' = "usage" /\ UNCHANGED lintVars
       ELSE IF request.mode = "builds" /\ settings'.source.builds = <<>>
       THEN exit' = "usage" /\ UNCHANGED lintVars
       ELSE IF Contexts(settings', request) = 0
       THEN exit' = "emit" /\ UNCHANGED lintVars
       ELSE /\ Start(DOMAIN EnabledForPath(settings', request.path), Contexts(settings', request),
                     IF request.mode = "builds" THEN "builds" ELSE "variants")
            /\ UNCHANGED exit
    /\ UNCHANGED <<request, externalVars>>

Rule ==
    /\ exit = "none"
    /\ \E f \in todo : Filter(f)
    /\ UNCHANGED <<request, settings, exit, externalVars>>

\* The programs are asked when a context has been linted, or taken from the cache.
Ask ==
    /\ stage = "linting" /\ todo = {} /\ exit = "none"
    /\ Begin(Len(settings.source.externals))
    /\ UNCHANGED <<request, settings, exit, lintVars>>

Answer == Linter /\ UNCHANGED <<request, settings, exit, lintVars>>
World == Program /\ UNCHANGED <<request, settings, exit, lintVars>>

Asked ==
    /\ stage = "linting"
    /\ outcome = "done" \/ (outcome = "idle" /\ settings.source.externals = <<>>)

NextContext ==
    /\ exit = "none" /\ Asked
    /\ NextVariant /\ Again
    /\ UNCHANGED <<request, settings, exit>>

Emit ==
    /\ exit = "none" /\ Asked
    /\ Merge
    /\ exit' = "emit"
    /\ UNCHANGED <<request, settings, externalVars>>

\* One program that fails ends the run: nothing is reported.
Fail ==
    /\ exit = "none" /\ outcome = "failed"
    /\ exit' = "internal"
    /\ UNCHANGED <<request, settings, lintVars, externalVars>>

Lint == Configure \/ Rule \/ Ask \/ NextContext \/ Emit \/ Fail

Next == Lint \/ Answer \/ World

\* ENABLED Lint, without evaluating what the step computes.
LintReady ==
    /\ exit = "none"
    /\ \/ settings = None \/ outcome \in {"idle", "failed"}
       \/ outcome = "done" /\ todo = {}

\* The linter goes on, its deadlines pass; programs do what they like.  The first
\* line is WF_vars(Lint).
Fairness ==
    /\ []<>~LintReady \/ []<><<Lint>>_vars
    /\ WF_vars(Receive /\ UNCHANGED <<request, settings, exit, lintVars>>)
    /\ WF_vars(Deadline /\ UNCHANGED <<request, settings, exit, lintVars>>)
    /\ WF_vars(Reap /\ UNCHANGED <<request, settings, exit, lintVars>>)
    /\ WF_vars(Finish /\ UNCHANGED <<request, settings, exit, lintVars>>)

Spec == Init /\ [][Next]_vars /\ Fairness

-----------------------------------------------------------------------------
(* Properties *)

\* The settings have just been found.
Configuring ==
    /\ settings # None
    /\ stage # "waiting" => stage = "linting" /\ todo = raw /\ reports = <<>> /\ outcome = "idle"

\* The severity of a rule is said by --profile and by the rules of the files, and by
\* nothing that stands above both.
Disputed(q, fs, id) ==
    /\ q.cli.profile # ""
    /\ \E n \in DOMAIN fs : Speaks(fs[n].rules, id)
    /\ \A n \in q.cli.disable \cup q.cli.enable : ResolveID(n) # id
    /\ \A n \in Matching(q, fs, id) : SeverityOf(Word(OverridesOf(fs)[n].rules, id)) = None

\* docs/configuration.md "Later presets override earlier ones, then the local config
\* wins", "Later overrides win over earlier ones", and --disable over --enable over
\* all of them: what a path gets is what the last to speak said, rule by rule and
\* option by option.  Who wins where the severity is disputed is left to
\* ProfileOutranksRules.
LastWordWins ==
    Configuring /\ Flat(Top(request)) =>
        \A id \in IDs :
            /\ \/ Disputed(request, Top(request), id)
               \/ SeverityGiven(settings, request.path, id) = LastWord(request, Top(request), id)
            /\ \A o \in NamesOf(Registry.rules[id].options) :
                  OptionGiven(settings, request.path, id, o) = OptionWord(request, Top(request), id, o)

\* docs/configuration.md "Precedence": --profile is third and [rules] are fourth, so a
\* profile given on the command line decides what the rules of a file say too.  The
\* code (ApplyCLIOverrides) lays those rules on the new profile again, so this is not
\* true of it: no run claims it, and LastWordWins leaves the case out.
ProfileOutranksRules ==
    Configuring =>
        \A id \in IDs : Disputed(request, Top(request), id) =>
            SeverityGiven(settings, request.path, id) = ByProfile(request, Top(request), id)

\* Whatever enables a rule on some path, the model that is built once for all files
\* holds what the rule reads.
FeaturesSuffice ==
    Configuring =>
        \A id \in DOMAIN EnabledForPath(settings, request.path) :
            Registry.rules[id].features \subseteq ProjectFeatures(settings, {})

\* Files are selected, by runs, builds and overrides, as their patterns mean.
Excluded(patterns) ==
    \E k \in DOMAIN patterns : \/ MeansPath(patterns[k], request.path)
                               \/ MeansPath(patterns[k], Base(request.path))
Meant(patterns) == \E k \in DOMAIN patterns : MeansPath(patterns[k], request.path)

\* The names that are matched have no star.
PlainNames == \A n \in DOMAIN Runs : \A q \in Runs[n] : IsPlainPath(q.path) /\ Len(q.path) > 0

GlobsMatch ==
    Configuring =>
        /\ \A k \in DOMAIN settings.overrides :
              MatchesAny(settings.overrides[k].paths, request.path) = Meant(settings.overrides[k].paths)
        /\ request.mode = "paths" =>
              (stage # "waiting" <=> \/ request.path \in request.roots
                                     \/ /\ \E r \in request.roots : Below(r, request.path)
                                        /\ ~Excluded(settings.source.exclude))
        /\ request.mode = "builds" =>
              (stage # "waiting" <=> \E k \in DOMAIN settings.source.builds :
                   LET b == settings.source.builds[k]
                   IN  b.entry = request.path \/ (Meant(b.files) /\ ~Meant(b.exclude)))

\* What is emitted has the answers of every program in every context, all whole.
AnswersAreWholeOrNothing ==
    /\ WholeAnswers
    /\ exit = "emit" =>
          Len(given) = Len(settings.source.externals) * (IF stage = "waiting" THEN 0 ELSE total)

\* A lint ends, whatever programs do, unless one of them leaves a child behind that
\* holds its output for ever: the timeout does not reach that one.
LintsEnd == []<>~child => <>(exit # "none")
=============================================================================
