---------------------------- MODULE MCProjectRun ----------------------------
(* Small workspaces: two or three files that include each other. *)
EXTENDS ProjectRun

L(op, name, how) == [op |-> op, name |-> name, how |-> how]
Inc(name) == <<L("include", name, "quoted")>>
Def(name) == <<L("define", name, "")>>
Undef(name) == <<L("undef", name, "")>>
Fn(name, how) == <<L("function", name, how)>>
Forward(name) == <<L("forward", name, "")>>
Var(name, how) == <<L("global", name, how)>>
Call(name) == <<L("call", name, "")>>
Use(name) == <<L("use", name, "")>>
IfDef(name, then, else) ==
    <<L("if", name, "defined")>> \o then \o (IF else = << >> THEN << >> ELSE <<L("else", "", "")>> \o else) \o <<L("endif", "", "")>>
IfNot(name, then) == <<L("if", name, "undefined")>> \o then \o <<L("endif", "", "")>>
IfValue(then, else) ==
    <<L("if", "", "value")>> \o then \o <<L("else", "", "")>> \o else \o <<L("endif", "", "")>>
Guard(body) == IfNot("G", Def("G") \o body)
GuardOnce(body) == IfDef("G", <<L("endinput", "", "")>>, << >>) \o Def("G") \o body

Up(n, S) == UNION {{FlattenSeq(s) : s \in [1 .. k -> S]} : k \in 1 .. n}
Exactly(n, S) == {FlattenSeq(s) : s \in [1 .. n -> S]}

Base == [dir |-> [m |-> "s", a |-> "s", b |-> "s"], base |-> [m |-> "m", a |-> "a", b |-> "b"],
         paths |-> <<"s">>, provided |-> <<"m">>, pwn |-> {"m"}, defines |-> {}, complete |-> TRUE,
         features |-> {"includeCycles", "duplicates", "conflicts", "references", "unusedIncludes"}]

Texts(ms, as, bs) == {Base @@ [text |-> [m |-> x, a |-> y, b |-> z]] : x \in ms, y \in as, z \in bs}

-----------------------------------------------------------------------------
\* Includes under conditions, with guards of both kinds, and cycles.
ConditionTexts ==
    Texts({x \o y : x \in {Inc("a"), Def("X")}, y \in Exactly(2, {Inc("a"), Inc("b"), Def("X"), Undef("X"), IfDef("X", Inc("a"), Inc("b"))})},
          {Guard(x) : x \in Up(2, {Inc("b"), Def("X"), Undef("X"), IfDef("X", Fn("f", ""), << >>)})}
              \cup Up(2, {Inc("b"), Def("X"), IfNot("X", Inc("a"))}),
          {GuardOnce(Inc("a")), GuardOnce(IfDef("X", Fn("g", ""), Undef("X"))), Inc("a"),
           IfNot("X", Def("X") \o Inc("a")), Undef("X"), IfDef("X", Undef("X"), Def("X"))})

\* Names that files declare and use.
NameTexts ==
    Texts({Inc("a") \o x : x \in Exactly(2, {Inc("b"), Fn("f", ""), Fn("f", "static"), Call("f"), Use("f")})},
          Up(2, {Inc("b"), Fn("f", "stock"), Fn("f", "static"), Call("f"), Forward("f"), Var("f", "const"), Use("f")}),
          {Fn("f", "stock"), Fn("f", "static"), Call("f"), Var("f", "new"), Var("f", "static"), Use("f"), Def("f")})

\* Conditions the linter cannot decide.
UncertainTexts ==
    {[x EXCEPT !.complete = FALSE] : x \in
        Texts(Exactly(2, {Inc("a"), Inc("b"), IfDef("X", Fn("f", "static"), Fn("f", "")), IfValue(Fn("f", ""), Call("f")), Fn("f", ""), Call("f")}),
              Up(2, {IfNot("X", Fn("f", "stock")), Call("f"), IfValue(Call("f"), Var("f", "new")), Inc("b")}),
              {Fn("f", "stock"), IfNot("X", Use("f")), IfValue(Use("f"), Call("f"))})}

\* Two programs in directories of their own.  The files b of the two directories have
\* the same name, and a, on the include path, may include either.
ProgramsBase ==
    [dir |-> [m |-> "s", n |-> "t", a |-> "i", b |-> "s", c |-> "t"],
     base |-> [m |-> "m", n |-> "n", a |-> "a", b |-> "b", c |-> "b"],
     paths |-> <<"i">>, provided |-> <<"m", "n">>, pwn |-> {"m", "n"}, defines |-> {}, complete |-> TRUE,
     features |-> {"includeCycles", "duplicates", "conflicts", "references", "unusedIncludes"}]

Programs(pwns, ms, ns, as, bs) ==
    {[ProgramsBase EXCEPT !.pwn = p] @@ [text |-> [m |-> v, n |-> x, a |-> y, b |-> z, c |-> z]] :
        p \in pwns, v \in ms, x \in ns, y \in as, z \in bs}

ProgramTexts ==
    Programs({{"m", "n"}, {"m"}, {}},
             Exactly(2, {Inc("a"), Inc("b"), Fn("f", ""), Fn("g", ""), Call("f")}),
             {Inc("a") \o x : x \in {Call("f"), Fn("f", ""), Fn("g", "static"), Def("X") \o Inc("a")}},
             {x \o y : x \in {Inc("b"), Call("f"), IfDef("X", Call("f"), << >>)}, y \in {Call("g"), Inc("b"), Fn("f", "static")}},
             {Fn("f", "stock"), Fn("g", "stock"), Fn("f", "static"), Call("f"), Inc("a"), Def("X")})

MCWorkspaces == <<ConditionTexts, NameTexts, UncertainTexts, ProgramTexts>>
=============================================================================
