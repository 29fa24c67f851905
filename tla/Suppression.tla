---------------------------- MODULE Suppression ----------------------------
(***************************************************************************)
(* Suppression comments of one file: which findings they hide, which of    *)
(* them are reported as unused, unknown or unmatched, and what is left of  *)
(* those reports when several variants are merged                          *)
(* (pkg/lint/suppress/matcher.go, pkg/lint/suppression.go, the end of      *)
(* Engine.lintFile, pkg/rules/correctness/unknown_suppression.go and       *)
(* mergeVariantDiagnostics in internal/cli/files.go).                      *)
(*                                                                         *)
(* Variants lint the same text under other defines: the directives are the *)
(* same, the findings are not.                                             *)
(***************************************************************************)
EXTENDS Settings

CONSTANTS
    SuppressionID,
    All,     \* the id "all"
    Raw      \* what the rules may report in one variant, sets of findings

ASSUME SuppressionAssumption == All \notin IDs /\ \A r \in Raw : \A f \in r : f.line \in Nat

Unknown(k) == k # All /\ ~Known(k)

VARIABLES
    comments, \* the comments of the file: their line, and the lines in them that
              \* look like directives, with an action and the ids it lists
    enabled,  \* the rules that run
    merging,  \* how contexts are merged: "variants" or "builds"
    total,    \* how many there are
    ds,      \* the directives of the file: line, kind, and the ids; none: malformed
    raw,     \* findings of the rules in the current variant
    todo,    \* those that are not looked at yet
    used,    \* the directives that hid one of them
    hid,     \* history: the directives that hid a finding in any variant
    out,     \* those that are reported
    kept,    \* those of the variants before
    reports, \* the variants linted so far: what each reports on directives
    stage,   \* "waiting", "linting" or "merged"
    merged   \* what is left of the reports on directives

lintVars == <<comments, enabled, merging, total, ds, raw, todo, used, hid, out, kept, reports,
              stage, merged>>

NamesIn(d) == UNION {d[i].names : i \in DOMAIN d} \cup IDs \cup {All}

-----------------------------------------------------------------------------
(* Directives in comments (suppress/parser.go, pkg/lint/aliases.go)         *)

KindOf(action) == IF action = "disable-next-line" THEN "next"
                  ELSE IF action \in {"disable", "enable"} THEN action ELSE None

Renamed(k) == IF Known(k) THEN ResolveID(k) ELSE k

\* parseIDs: an id is listed once; none: the directive is malformed.
Listed(ids) == {Renamed(ids[n]) : n \in {m \in DOMAIN ids : ids[m] # ""}}

\* parseTrivia: whatever line of a comment a directive is on, it counts from the first.
Parsed(c) ==
    LET upTo[n \in 0 .. Len(c.lines)] ==
            IF n = 0 THEN <<>>
            ELSE IF KindOf(c.lines[n].action) = None THEN upTo[n - 1]
            ELSE Append(upTo[n - 1], [line |-> c.line, kind |-> KindOf(c.lines[n].action),
                                      names |-> Listed(c.lines[n].ids)])
    IN  upTo[Len(c.lines)]

\* FromFile: of all comments, in the order of the text.
FromFile(cs) ==
    LET upTo[n \in 0 .. Len(cs)] == IF n = 0 THEN <<>> ELSE upTo[n - 1] \o Parsed(cs[n])
    IN  upTo[Len(cs)]

\* The comments that are reported for an id that was renamed.
Outdated(cs) ==
    {cs[n].line : n \in {m \in DOMAIN cs : \E k \in DOMAIN cs[m].lines :
                            LET l == cs[m].lines[k]
                            IN  /\ KindOf(l.action) # None
                                /\ \E i \in DOMAIN l.ids : Known(l.ids[i]) /\ ResolveID(l.ids[i]) # l.ids[i]}}

-----------------------------------------------------------------------------
(* The matcher *)

\* An enable closes every open directive of its ids (a plausible bug).
Open_ClosesAll(d, line, k) ==
    LET says(i, kind) == d[i].line <= line /\ k \in d[i].names /\ d[i].kind = kind
        after[i \in 0 .. Len(d)] ==
            IF i = 0 THEN <<>>
            ELSE IF says(i, "disable") THEN Append(after[i - 1], i)
            ELSE IF says(i, "enable") THEN <<>>
            ELSE after[i - 1]
    IN  after[Len(d)]

Pop(s) == IF s = <<>> THEN s ELSE SubSeq(s, 1, Len(s) - 1)

\* blockSuppresses: for an id the stack of disable directives open at a line.
Open(d, line, k) ==
    LET says(i, kind) == d[i].line <= line /\ k \in d[i].names /\ d[i].kind = kind
        after[i \in 0 .. Len(d)] ==
            IF i = 0 THEN <<>>
            ELSE IF says(i, "disable") THEN Append(after[i - 1], i)
            ELSE IF says(i, "enable") THEN Pop(after[i - 1])
            ELSE after[i - 1]
    IN  after[Len(d)]

Elements(s) == {s[i] : i \in DOMAIN s}
First(S) == {i \in S : \A j \in S : i <= j}

NextLine(d, f) ==
    {i \in DOMAIN d : /\ d[i].kind = "next"
                      /\ d[i].names \cap {f.rule, All} # {}
                      /\ d[i].line + 1 = f.line}

\* IsSuppressed: the directives it marks as used; none: the finding is reported.
Marks(d, f) ==
    IF NextLine(d, f) # {}
    THEN First(NextLine(d, f))
    ELSE Elements(Open(d, f.line, f.rule)) \cup Elements(Open(d, f.line, All))

Hidden(d, f) == Marks(d, f) # {}

-----------------------------------------------------------------------------
(* Reports on directives *)

\* unknown_suppression.go: malformed, unknown and unmatched, one report for each
\* id.  The depth it counts for an id is the height of the matcher's stack.
Problems(d, i) ==
    IF d[i].kind = "enable"
    THEN {k \in d[i].names : Open(SubSeq(d, 1, i - 1), d[i].line, k) = <<>>}
    ELSE IF d[i].names = {} THEN {"malformed"}
    ELSE IF All \in d[i].names THEN {}
    ELSE {k \in d[i].names : Unknown(k)}

Own(d) == {[rule |-> SuppressionID, line |-> d[i].line] :
              i \in {j \in DOMAIN d : Problems(d, j) # {}}}

\* unusedSuppressionDiagnostics
Unused(d, u) == {i \in DOMAIN d : d[i].kind # "enable" /\ d[i].names # {} /\ i \notin u}

\* The reports of a variant by their range: how many there are at the start of
\* the comment on a line, and over the whole comment.
Lines(d) == {d[i].line : i \in DOMAIN d}
Ranges(d) == Lines(d) \X {"start", "whole"}

Reported(d, u) ==
    [r \in Ranges(d) |->
        IF r[2] = "whole"
        THEN Cardinality({i \in Unused(d, u) : d[i].line = r[1]})
        ELSE Cardinality(UNION {{i} \X Problems(d, i) :
                 i \in {j \in DOMAIN d : /\ d[j].line = r[1]
                                         /\ ~Hidden(d, [rule |-> SuppressionID, line |-> r[1]])}})]

-----------------------------------------------------------------------------
LintInit ==
    /\ enabled = {} /\ merging = "variants" /\ total = 0
    /\ ds = <<>> /\ raw = {} /\ todo = {} /\ used = {} /\ hid = {} /\ out = {} /\ kept = {}
    /\ reports = <<>>
    /\ stage = "waiting"
    /\ merged = {}

\* What the rules report of a file under one set of defines.
Raised(e, d) ==
    {{f \in r : f.rule \in e} \cup (IF SuppressionID \in e THEN Own(d) ELSE {}) : r \in Raw}

\* The first of n contexts starts.
Start(e, n, how) ==
    /\ stage = "waiting"
    /\ stage' = "linting"
    /\ enabled' = e /\ merging' = how /\ total' = n
    /\ ds' = FromFile(comments)
    /\ raw' \in Raised(e, ds')
    /\ todo' = raw'
    /\ UNCHANGED <<comments, used, hid, out, kept, reports, merged>>

\* A next-line directive is not marked (a plausible bug).
Filter_NextUnmarked(f) ==
    /\ stage = "linting"
    /\ f \in todo
    /\ todo' = todo \ {f}
    /\ used' = used \cup (Marks(ds, f) \ NextLine(ds, f))
    /\ hid' = hid \cup Marks(ds, f)
    /\ out' = IF Hidden(ds, f) THEN out ELSE out \cup {f}
    /\ UNCHANGED <<comments, enabled, merging, total, ds, raw, kept, reports, stage, merged>>

\* lintFile passes a finding through the matcher.
Filter(f) ==
    /\ stage = "linting"
    /\ f \in todo
    /\ todo' = todo \ {f}
    /\ used' = used \cup Marks(ds, f)
    /\ hid' = hid \cup Marks(ds, f)
    /\ out' = IF Hidden(ds, f) THEN out ELSE out \cup {f}
    /\ UNCHANGED <<comments, enabled, merging, total, ds, raw, kept, reports, stage, merged>>

\* What a context reports on directives, if the rule for them is enabled.
Judged == IF SuppressionID \in enabled THEN Reported(ds, used) ELSE [r \in Ranges(ds) |-> 0]

Ordinary(fs) == {f \in fs : f.rule # SuppressionID}

\* A context is done and the next one starts.
NextVariant ==
    /\ stage = "linting" /\ todo = {} /\ Len(reports) + 1 < total
    /\ reports' = Append(reports, Judged)
    /\ kept' = kept \cup Ordinary(out)
    /\ raw' \in Raised(enabled, ds)
    /\ todo' = raw'
    /\ used' = {}
    /\ out' = {}
    /\ UNCHANGED <<comments, enabled, merging, total, ds, hid, stage, merged>>

\* How often the contexts make a report.
Count(rs, k) ==
    LET upTo[n \in 0 .. Len(rs)] == IF n = 0 THEN 0 ELSE upTo[n - 1] + rs[n][k]
    IN  upTo[Len(rs)]

\* mergeVariantDiagnostics: one variant keeps its reports, of several those that
\* were made as often as there are variants.  mergeBuildDiagnostics keeps them all.
Merged(d, rs, how) ==
    {k \in Ranges(d) : IF Len(rs) = 1 \/ how = "builds" THEN Count(rs, k) > 0
                       ELSE Count(rs, k) = Len(rs)}

\* The last context is done.
Merge ==
    /\ stage = "linting" /\ todo = {} /\ Len(reports) + 1 = total
    /\ reports' = Append(reports, Judged)
    /\ kept' = kept \cup Ordinary(out)
    /\ stage' = "merged"
    /\ merged' = Merged(ds, reports', merging) \cup (Outdated(comments) \X {"renamed"})
    /\ UNCHANGED <<comments, enabled, merging, total, ds, raw, todo, used, hid, out>>

-----------------------------------------------------------------------------
(* Properties *)

\* Directives n of a kind and an id with i < n <= j.
Between(kind, k, i, j) ==
    Cardinality({n \in i + 1 .. j : ds[n].kind = kind /\ k \in ds[n].names})

\* docs/suppression.md "Always pair block disable and enable directives": a
\* disable is open at a line until the enable of the same id that pairs with it,
\* as brackets pair; ids do not disturb each other.
StacksPair ==
    \A line \in Lines(ds), k \in NamesIn(ds) :
        Elements(Open(ds, line, k)) =
            {i \in DOMAIN ds :
                /\ ds[i].kind = "disable" /\ k \in ds[i].names /\ ds[i].line <= line
                /\ \A j \in i + 1 .. Len(ds) :
                      ds[j].line <= line
                          => Between("enable", k, i, j) <= Between("disable", k, i, j)}

\* The directives that are left when those of I are taken out.
Rest(d, I) ==
    LET rest[n \in 0 .. Len(d)] ==
            IF n = 0 THEN <<>> ELSE IF n \in I THEN rest[n - 1] ELSE Append(rest[n - 1], d[n])
    IN  rest[Len(d)]

\* Taking out directives leaves the rules' findings as they are.
Idle(I) ==
    \A f \in raw : f.rule # SuppressionID => Hidden(Rest(ds, I), f) = Hidden(ds, f)

\* docs/rules/unknown-suppression.md "These directives can be removed safely
\* because they do not affect reported diagnostics".  What of it holds: idle
\* together are the unused directives that no later
\* enable could pair with, and the enables of which no id is open.
LooseUnused ==
    {i \in Unused(ds, used) :
        \/ ds[i].kind = "next"
        \/ \A j \in i + 1 .. Len(ds) : ds[j].kind = "enable" => ds[i].names \cap ds[j].names = {}}
Unmatched == {i \in DOMAIN ds : ds[i].kind = "enable" /\ Problems(ds, i) = ds[i].names}

LooseIsIdle == todo = {} => Idle(LooseUnused \cup Unmatched)

\* docs/configuration.md "only reported if every variant agreed the directive
\* went unused": a report is left if and only if every variant made it.
Agreed(k) == \A v \in DOMAIN reports : reports[v][k] > 0

\* What of it holds: for reports that no variant makes twice, and a directive
\* that is alone on its line is reported as unused if it hid nothing anywhere.
Single(k) == \A v \in DOMAIN reports : reports[v][k] <= 1
Alone(i) == \A j \in DOMAIN ds \ {i} : ds[j].line # ds[i].line
SinglesAreAgreed ==
    stage = "merged" /\ merging = "variants" /\ SuppressionID \in enabled =>
        /\ \A k \in Ranges(ds) : Single(k) => (k \in merged <=> Agreed(k))
        /\ \A i \in DOMAIN ds :
              Alone(i) => (<<ds[i].line, "whole">> \in merged <=> i \in Unused(ds, hid))

\* What is said of directives is true: of the removable ones in one variant, and of
\* those that all variants agree on.
ReportedDirectivesAreIdle == LooseIsIdle /\ SinglesAreAgreed
=============================================================================
