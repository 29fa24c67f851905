----------------------------- MODULE MCFileLint -----------------------------
(* Four rules and an alias; settings with few directives, directives with few
   settings, and programs with neither. *)
EXTENDS FileLint, SequencesExt

CONSTANTS Longest, LastLine

Option == [name |-> "limit", type |-> "integer", least |-> None, most |-> None, choices |-> {},
           refused |-> {}, required |-> FALSE, default |-> None, fields |-> <<>>]
Rule0 == [id |-> "r", severity |-> "warning", on |-> TRUE, curated |-> FALSE, stability |-> "stable",
          options |-> <<>>, features |-> {}]
RuleListDef ==
    << [Rule0 EXCEPT !.features = {"references"},
                     !.options = <<[Option EXCEPT !.least = 1, !.most = 9, !.default = [int |-> 3]],
                                   [Option EXCEPT !.name = "names", !.type = "string-list",
                                                  !.choices = {"x", "y"}],
                                   [Option EXCEPT !.name = "layers", !.type = "object-list",
                                                  !.fields = <<[Option EXCEPT !.name = "depth", !.default = [int |-> 1]],
                                                               [Option EXCEPT !.name = "of", !.type = "string", !.required = TRUE]>>]>>],
       [Rule0 EXCEPT !.id = "s", !.severity = "error", !.on = FALSE, !.curated = TRUE, !.features = {"calls"}],
       [Rule0 EXCEPT !.id = "p", !.stability = "preview", !.features = {"trivia"}],
       [Rule0 EXCEPT !.id = "unknown-suppression"] >>
AliasListDef == << <<"old", "r">> >>

-----------------------------------------------------------------------------
(* Requests *)

A == <<"a">>
B == <<"b">>
NoFlags == [config |-> None, profile |-> "", target |-> "", enable |-> {}, disable |-> {}]
Plain == [disk |-> [k \in {<<0, "toml">>} |-> Defaults], level |-> 1, cli |-> NoFlags,
          path |-> <<A, B>>, tree |-> {<<A, B>>}, roots |-> {<<A>>}, mode |-> "paths", comments |-> <<>>]

Local == <<0, "toml">>
OnDisk(f) == [Plain EXCEPT !.disk = [k \in {Local} |-> f]]

\* What files say of the rules.
Limit3 == Table([k \in {"limit"} |-> [half |-> 6]])
Loud == Table([k \in {"limit", "severity"} |-> IF k = "limit" THEN [int |-> 5] ELSE Says("hint")])
Names1 == Table([k \in {"names"} |-> [list |-> <<Says("x")>>]])
Values == {Says("error"), Says("off"), Limit3, Loud, Names1, Table(Nowhere)}
Layer(f) == Table([k \in {"layers"} |-> [list |-> <<Table(f)>>]])
Odd == {Says("loud"), [flag |-> TRUE], Table([k \in {"limit"} |-> [half |-> 5]]),
        Table([k \in {"limit"} |-> [int |-> 10]]), Table([k \in {"names"} |-> [list |-> <<Says("z")>>]]),
        Table([k \in {"severity"} |-> [flag |-> TRUE]]), Table([k \in {"unheard"} |-> [int |-> 1]]),
        Layer(Nowhere), Layer([k \in {"of"} |-> Says("x")]),
        Layer([k \in {"of", "depth"} |-> IF k = "of" THEN Says("x") ELSE [half |-> 4]]),
        Layer([k \in {"of", "odd"} |-> Says("x")])}

On(id, v) == [k \in {id} |-> v]
Tables0(vs) == {Nowhere} \cup {On(id, v) : id \in {"r", "old"}, v \in vs}
Override(pat, rules) == [paths |-> <<pat>>, rules |-> rules]
Here == <<A, <<"*">>>>
There == <<B>>

\* A local file with two presets, each saying something of the rule.
Presets(v1, v2, v3) ==
    [k \in {Local, <<1, "p">>, <<1, "q">>} |->
        IF k = Local THEN [Defaults EXCEPT !.presets = << <<1, "p">>, <<1, "q">> >>, !.rules = v3]
        ELSE [Empty EXCEPT !.rules = IF k = <<1, "p">> THEN v1 ELSE v2]]

Flags == {[NoFlags EXCEPT !.profile = p, !.enable = e, !.disable = d] :
             p \in {"", "all"}, e \in {{}, {"s"}, {"old"}}, d \in {{}, {"r"}}}

SpeakingRuns ==
    {[Plain EXCEPT !.disk = Presets(v1, v2, v3), !.cli = c] :
        v1 \in Tables0(Values) \ {On("old", v) : v \in Values}, v2 \in Tables0(Values \ {Limit3}) \ {On("old", v) : v \in Values},
        v3 \in Tables0(Values), c \in {NoFlags, [NoFlags EXCEPT !.profile = "strict"]}}

\* A preset that has a preset, and then another.
Deep == Table([k \in {"limit"} |-> Table([l \in {"deeper"} |-> [int |-> 1]])])
Nested == {Nowhere} \cup {On("r", v) : v \in {Says("off"), [flag |-> TRUE], Limit3, Loud, Deep}}
NestedRuns ==
    {[Plain EXCEPT !.disk =
        [k \in {Local, <<1, "p">>, <<1, "q">>, <<1, "r">>} |->
            IF k = Local THEN [Defaults EXCEPT !.presets = << <<1, "p">>, <<1, "r">> >>, !.rules = v4]
            ELSE IF k = <<1, "p">> THEN [Empty EXCEPT !.presets = << <<1, "q">> >>, !.rules = v2,
                                                      !.overrides = o, !.profile = "all"]
            ELSE IF k = <<1, "q">> THEN [Empty EXCEPT !.rules = v1, !.overrides = <<Override(Here, On("s", Says("info")))>>]
            ELSE [Empty EXCEPT !.rules = v3, !.profile = p]]] :
        v1 \in Nested, v2 \in Nested, v3 \in Nested, v4 \in Nested, o \in {None, <<>>}, p \in {"", "strict"}}

Lists == {None, <<>>, <<Override(Here, On("r", Says("off")))>>,
          <<Override(Here, On("s", Says("info"))), Override(Here, On("r", Loud))>>,
          <<Override(Here, On("s", Says("info"))), Override(There, On("s", Says("off")))>>,
          <<Override(Here, On("old", Limit3)), Override(Here, On("r", Says("off"))), Override(Here, On("r", Names1))>>}
OverrideRuns ==
    {[Plain EXCEPT !.disk = [Presets(Nowhere, On("r", v), Nowhere) EXCEPT ![<<1, "p">>].overrides = o1,
                                                                    ![<<1, "q">>].profile = p,
                                                                    ![Local].overrides = o2,
                                                                    ![Local].profile = ""],
                   !.cli = c] :
        v \in {Says("off"), Limit3}, o1 \in Lists, o2 \in Lists, p \in {"", "strict"}, c \in Flags}

Bad == {[Defaults EXCEPT !.profile = "none"], [Defaults EXCEPT !.target = "none"], [Defaults EXCEPT !.api = <<None>>],
        [Defaults EXCEPT !.max = -1], [Defaults EXCEPT !.overrides = <<[paths |-> <<>>, rules |-> On("r", Loud)]>>],
        [Defaults EXCEPT !.overrides = <<Override(Here, Nowhere)>>],
        [Defaults EXCEPT !.presets = << Local >>], [Defaults EXCEPT !.presets = << <<1, "none">> >>], None}
        \cup {[Defaults EXCEPT !.rules = On("r", v)] : v \in Odd}
        \cup {[Defaults EXCEPT !.rules = [k \in {"r", "old"} |-> Says("error")]]}
BadRuns == {OnDisk(f) : f \in Bad}
    \cup {[Plain EXCEPT !.cli = [NoFlags EXCEPT !.enable = {"none"}]], [Plain EXCEPT !.disk = Nowhere],
          [Plain EXCEPT !.disk = [k \in {<<0, "json">>, <<1, "yml">>} |-> IF k[1] = 1 THEN Defaults ELSE None]]}

\* Patterns of two segments against paths of one and two.
Texts == {<<"a">>, <<"b">>, <<"a", "b">>, <<"a", "b", "b">>}
Parts == {<<"*">>, <<"*", "*">>, <<"a">>, <<"?", "b">>, <<"a", "*">>, <<"*", "b">>, <<"*", "a", "*", "b">>, <<"?">>}
Patterns == {<<p>> : p \in Parts} \cup (Parts \X Parts)
Paths == {<<t>> : t \in Texts} \cup (Texts \X Texts)
GlobRuns ==
    {[Plain EXCEPT !.disk = [k \in {Local} |-> [Defaults EXCEPT !.overrides = <<Override(p, On("r", Says("off")))>>,
                                                              !.exclude = <<p>>]],
                   !.path = path, !.tree = {path}, !.roots = {<<>>}] : p \in Patterns, path \in Paths}

\* Comments, in variants and in builds.
Text(action, ids) == [action |-> action, ids |-> ids]
Comments ==
    {[line |-> n, lines |-> <<Text(a, i)>>] :
        n \in 1 .. LastLine, a \in {"disable-next-line", "disable", "enable"},
        i \in {<<"r">>, <<"all">>, <<"old", "x">>}}
Sorted(cs) == \A i \in 1 .. Len(cs) - 1 : cs[i].line <= cs[i + 1].line
Few == {<<>>} \cup {<<[line |-> 1, lines |-> <<Text("disabled", <<"r">>), Text("disable", <<"", "r", "r">>), Text("enable", ids)>>]>> :
                       ids \in {<<>>, <<"old">>}}
Variants2 == <<[name |-> "v"], [name |-> "w"]>>
Build(n, entry) == [name |-> n, entry |-> entry, target |-> "", files |-> <<Here>>, exclude |-> << >>]
Quiet == On("unknown-suppression", Says("off"))
CommentRuns ==
    {[OnDisk([Defaults EXCEPT !.variants = Variants2]) EXCEPT !.comments = cs] :
        cs \in {s \in BoundedSeq(Comments, Longest) : Sorted(s)} \cup Few}
FewCommentRuns ==
    {[OnDisk(f) EXCEPT !.comments = cs, !.mode = m] :
        cs \in {s \in BoundedSeq(Comments, 1) : Sorted(s)} \cup Few, m \in {"paths", "builds", "stdin"},
        f \in {Defaults, [Defaults EXCEPT !.rules = Quiet],
               [Defaults EXCEPT !.builds = <<Build("b", <<A, B>>), Build("c", <<B>>)>>]}}

AtMostOne == {{}} \cup {{[rule |-> "r", line |-> n]} : n \in 2 .. LastLine + 1}

-----------------------------------------------------------------------------
(* Programs *)

External(n) == [name |-> n, plain |-> TRUE, command |-> "run", timeout |-> 0]
ProgramRuns ==
    {OnDisk([Defaults EXCEPT !.externals = e, !.variants = v, !.rules = On("r", Says("off"))]) :
        e \in {<<External("e")>>, <<External("e"), External("f")>>}, v \in {<<>>, Variants2}}

Range0 == [path |-> "f", start |-> 0, end |-> 2]
Good == [named |-> TRUE, message |-> TRUE, severity |-> "hint", category |-> TRUE, related |-> <<Range0>>,
         fixes |-> <<[described |-> TRUE, safe |-> TRUE, edits |-> <<Range0>>]>>] @@ Range0
Damaged == {[Good EXCEPT !.end = 3], [Good EXCEPT !.path = "g"], [Good EXCEPT !.related[1].start = -1],
            [Good EXCEPT !.fixes[1].edits = <<>>], [Good EXCEPT !.severity = "off"]}
Reply(n, ds0) == [size |-> n, form |-> "valid", version |-> 1, diagnostics |-> ds0]
AnswersDef == {Reply(1, <<>>), Reply(2, <<Good>>), [Reply(1, <<Good>>) EXCEPT !.version = 2],
               [Reply(1, <<Good>>) EXCEPT !.form = "trailing data"]} \cup {Reply(1, <<Good, d>>) : d \in Damaged}
LengthsDef == [f \in {"f"} |-> 2]

RunsDef == <<SpeakingRuns, NestedRuns, OverrideRuns, BadRuns, GlobRuns, CommentRuns, FewCommentRuns, ProgramRuns>>
LongRuns == <<ProgramRuns>>

\* The runs are of what the theorem about patterns speaks of.
ASSUME NamesArePlain == PlainNames
=============================================================================
