---------------------------- MODULE MCFunctionRun ---------------------------
(* Small functions: the shapes of control with what their statements may do. *)
EXTENDS FunctionRun

S(kind, cond, neg, label, acts, post) ==
    [kind |-> kind, cond |-> cond, neg |-> neg, label |-> label, acts |-> acts, post |-> post]

Ev(op, v, arg) == [op |-> op, var |-> v, arg |-> arg]

Plain(kind) == S(kind, "any", FALSE, "", << >>, << >>)
Asks(kind, cond) == S(kind, cond, FALSE, "", << >>, << >>)
Not(kind, cond) == S(kind, cond, TRUE, "", << >>, << >>)
Does(a) == S("expr", "any", FALSE, "", <<a>>, << >>)
New(a) == S("decl", "any", FALSE, "", <<a>>, << >>)
Bare(v) == S("decl", "any", FALSE, "bare", <<Ev("set", v, 0)>>, << >>)
For(cond, acts, post) == S("for", cond, FALSE, "", acts, post)
Label(kind) == S(kind, "any", FALSE, "l", << >>, << >>)
Value == S("return", "yes", FALSE, "", << >>, << >>)

\* A shape gives each place a parent and the statements it may hold.
At(up, choices) == [up |-> up, choices |-> choices]

Fill(shape) ==
    LET f[n \in 0 .. Len(shape)] ==
        IF n = 0 THEN {<< >>}
        ELSE {Append(q, s @@ [up |-> shape[n].up]) : q \in f[n - 1], s \in shape[n].choices}
    IN  f[Len(shape)]

Body == At(0, {Plain("block")})
Nothing == {Plain("empty")}
Leaves == {Plain("return"), Plain("break"), Plain("continue")}

-----------------------------------------------------------------------------
X == {Bare("x"), New(Ev("set", "x", 1))}
Y == {New(Ev("set", "y", 0))}
XOps == {Does(Ev("copy", "x", "x")), Does(Ev("set", "x", 1)), Does(Ev("copy", "x", "y")), Does(Ev("read", "x", "")),
         Does(Ev("maybe", "x", 1)), Does(Ev("bump", "x", "")), Does(Ev("call", "x", "writes")),
         Does(Ev("call", "x", "none")), Does(Ev("call", "x", "output"))}
YOps == {Does(Ev("copy", "y", "x")), Does(Ev("set", "y", 1)), Does(Ev("read", "y", ""))}
Conds(kind) == {Asks(kind, "any"), Asks(kind, "x"), Not(kind, "x")}

Few == {Does(Ev("set", "x", 1)), Does(Ev("read", "x", "")), Does(Ev("call", "x", "writes"))}

ValueShapes ==
    { \* One after the other.
      <<Body, At(1, X), At(1, Y), At(1, XOps \cup YOps), At(1, XOps \cup YOps), At(1, Few)>>,
      \* An if with two arms.
      <<Body, At(1, X), At(1, Y), At(1, Conds("if")), At(4, XOps), At(4, YOps \cup {Plain("return")}), At(1, Few)>>,
      \* A loop.
      <<Body, At(1, X), At(1, Y), At(1, Conds("while") \cup Conds("do")), At(4, {Plain("block")}),
        At(5, XOps), At(5, {Does(Ev("copy", "y", "x"))} \cup Leaves), At(1, {Does(Ev("read", "x", "")), Value})>>,
      \* A loop with a condition in it.
      <<Body, At(1, X), At(1, {Asks("while", "yes"), Asks("while", "no"), Asks("do", "x")}),
        At(3, {Plain("block")}),
        At(4, {Asks("if", "any")}), At(5, Leaves \cup Few), At(4, XOps \ {Does(Ev("copy", "x", "y"))}),
        At(1, Nothing \cup {Value})>>,
      \* A for statement.
      <<Body, At(1, X), At(1, Y),
        At(1, {For("any", <<Ev("set", "x", 1)>>, <<Ev("bump", "x", "")>>),
               For("x", <<Ev("copy", "x", "y")>>, <<Ev("set", "x", 0)>>),
               For("any", << >>, <<Ev("set", "y", 1)>>)}),
        At(4, {Plain("block")}), At(5, XOps), At(5, Nothing \cup Leaves), At(1, Few)>>,
      \* A loop in a loop.
      <<Body, At(1, X), At(1, {Asks("while", "any")}), At(3, {Plain("block")}),
        At(4, Conds("while") \cup Conds("do")), At(5, Few \cup Leaves), At(4, Few \cup Leaves), At(1, Few)>>,
      \* A switch.
      <<Body, At(1, X), At(1, Y), At(1, {Plain("switch")}), At(4, {Plain("case")}), At(5, Few \cup {Plain("return")}),
        At(4, {Plain("case"), Plain("default")}), At(7, XOps), At(1, Few)>>,
      \* A goto, forward or back.
      <<Body, At(1, X), At(1, {Plain("empty"), Label("label")}), At(1, Conds("if")), At(4, {Label("goto")}),
        At(1, Few), At(1, {Plain("empty"), Label("label")}), At(1, Few)>>,
      \* A native that another one has to come before.
      <<Body, At(1, {Asks("if", "any"), Asks("while", "any"), Asks("do", "any")}),
        At(2, {Does(Ev("first", "", "")), Plain("return"), Does(Ev("then", "", ""))}),
        At(1, {Does(Ev("first", "", "")), Does(Ev("then", "", ""))}), At(1, {Does(Ev("then", "", ""))})>>,
      \* An else after a jump, of one arm or of two, and after a label.
      <<Body, At(1, {Asks("while", "any"), Asks("do", "any")}), At(2, {Plain("block")}),
        At(3, {Asks("if", "any")}), At(4, {Plain("block")}), At(5, Leaves \cup Few), At(5, Nothing \cup {Plain("break")}),
        At(4, Nothing \cup Leaves), At(3, Nothing)>>,
      <<Body, At(1, {Asks("while", "any")}), At(2, {Asks("if", "any")}), At(3, {Asks("if", "any")}), At(4, Leaves \cup Nothing),
        At(4, Leaves \cup Nothing), At(3, Nothing), At(1, Nothing)>>,
      <<Body, At(1, {Asks("if", "any")}), At(2, {Asks("if", "any")}), At(3, {Plain("return")}), At(2, Nothing \cup {Plain("return")}),
        At(1, {Asks("if", "any")}), At(6, Nothing \cup {Plain("return")}), At(1, {Asks("if", "any")}), At(8, Nothing),
        At(1, {Asks("if", "any"), Asks("while", "any")}), At(10, Nothing)>>,
      <<Body, At(1, {Asks("if", "any")}), At(2, {Label("goto")}), At(1, {Asks("if", "any")}), At(4, {Plain("block")}),
        At(5, {Plain("return")}), At(5, {Label("label")}), At(5, Nothing), At(4, Nothing), At(1, Nothing)>>,
      \* A declaration in a loop.
      <<Body, At(1, {Asks("while", "any"), Asks("do", "any")}), At(2, {Plain("block")}),
        At(3, {Asks("if", "any")}), At(4, Leaves), At(3, X), At(3, Few), At(3, Leaves \cup Few),
        At(1, {Plain("return"), Value})>> }

-----------------------------------------------------------------------------
Opens == {Does(Ev("open", "x", ""))}
HandleOps == {Does(Ev("close", "x", "")), Does(Ev("lend", "x", "")), Does(Ev("close", "y", "")),
              Does(Ev("give", "x", "")), Does(Ev("copy", "y", "x")), Does(Ev("set", "x", 0)),
              Does(Ev("open", "x", ""))}
Ends == {Does(Ev("close", "x", "")), Does(Ev("lend", "x", "")), Does(Ev("open", "x", ""))}
Guards == {Asks("if", "x"), Not("if", "x"), Asks("if", "any")}

HandleShapes ==
    { <<Body, At(1, {New(Ev("open", "x", ""))}), At(1, Y), At(1, HandleOps), At(1, HandleOps), At(1, Ends)>>,
      <<Body, At(1, {New(Ev("open", "x", ""))}), At(1, Y), At(1, Guards), At(4, HandleOps), At(4, Ends \cup {Plain("return")}),
        At(1, Ends)>>,
      <<Body, At(1, {New(Ev("open", "x", ""))}), At(1, Guards), At(3, {Plain("return")}), At(1, HandleOps \ {Does(Ev("close", "y", ""))}),
        At(1, Ends \cup Nothing)>>,
      <<Body, At(1, {Bare("x")}), At(1, {Asks("while", "any"), Asks("do", "any"), Asks("while", "x")}), At(3, {Plain("block")}),
        At(4, Ends), At(4, Ends \cup Leaves), At(1, Ends)>>,
      <<Body, At(1, {New(Ev("open", "x", ""))}), At(1, {Asks("while", "any"), Asks("while", "x")}),
        At(3, {Plain("block")}), At(4, Guards), At(5, Leaves \cup Ends), At(4, Ends), At(1, Ends \cup Nothing)>> }

-----------------------------------------------------------------------------
Name(variants, declared, here, api) ==
    [variants |-> variants, declared |-> declared, here |-> here, api |-> api]

MCCallees ==
    [pure |-> Name({"pure"}, TRUE, TRUE, "none"), native |-> Name({"native"}, TRUE, FALSE, "pure"),
     either |-> Name({"pure", "writes"}, TRUE, FALSE, "none"), elsewhere |-> Name({}, TRUE, FALSE, "pure"),
     impure |-> Name({"impure"}, TRUE, TRUE, "none"), unheard |-> Name({}, FALSE, FALSE, "none"),
     leaves |-> Name({}, FALSE, FALSE, "leaves")]

Asked(v) == {Does(Ev("ask", v, f)) : f \in DOMAIN MCCallees}
Array(b) == S("decl", "any", FALSE, "array", <<Ev("blank", b, "")>>, << >>)
Condition(kind, a) == S(kind, "any", FALSE, "", << >>, <<a>>)
Strcat == Does(Ev("append", "s", ""))
Uses == {Does(Ev("text", "s", "")), Does(Ev("read", "s", ""))}
Copied == {Does(Ev("raw", "s", "all")), Does(Ev("raw", "s", "low")), Does(Ev("shift", "s", "all"))}
Ended == {Does(Ev("poke", "s", 0)), Does(Ev("poke", "s", 1)), Does(Ev("format", "s", "x"))}
Recurs == {Does(Ev("recur", "", "sure")), Does(Ev("recur", "", "maybe"))}

WorkShapes ==
    { \* A call in a loop, and what else the loop does.
      <<Body, At(1, X), At(1, {Asks("while", "any"), Asks("do", "any"), For("any", << >>, <<Ev("bump", "x", "")>>),
                               For("any", <<Ev("set", "x", 0)>>, << >>),
                               For("any", << >>, <<Ev("ask", "x", "pure")>>)}),
        At(3, {Plain("block")}), At(4, Asked("x")), At(4, XOps \ {Does(Ev("copy", "x", "y"))})>>,
      \* A call in an inner loop, with what the outer loop does.
      <<Body, At(1, {Asks("while", "any")}), At(2, {Plain("block")}), At(3, X),
        At(3, {Condition("while", Ev("ask", "x", "pure")), Condition("do", Ev("ask", "x", "native")), Asks("while", "any")}),
        At(5, {Does(Ev("ask", "x", "pure")), Does(Ev("set", "x", 1)), Plain("break")}), At(3, Few)>>,
      \* The length of a string in a condition.
      <<Body, At(1, {Array("s")}), At(1, X), At(1, {Condition("while", Ev("len", "s", "")), Condition("do", Ev("len", "s", "")),
          S("while", "any", FALSE, "", << >>, <<Ev("len", "s", ""), Ev("poke", "s", 1)>>)}),
        At(4, {Plain("block")}), At(5, Ended \cup Uses \cup {Plain("continue")}), At(5, Copied \cup {Strcat, Plain("empty")})>>,
      \* A string built in a loop.
      <<Body, At(1, {Array("s")}), At(1, X), At(1, {Asks("while", "any"), Asks("do", "any"), For("any", << >>, <<Ev("bump", "x", "")>>)}),
        At(4, {Plain("block")}), At(5, {Asks("if", "any"), Plain("block")}), At(6, Leaves \cup {Does(Ev("set", "x", 1))}),
        At(5, {Strcat, Does(Ev("format", "s", "x")), Does(Ev("format", "s", ""))}), At(1, Uses)>>,
      \* Two of them, or one that is used.
      <<Body, At(1, {Array("s")}), At(1, {Asks("while", "any")}), At(3, {Plain("block"), Strcat}),
        At(4, {Strcat, Does(Ev("format", "s", ""))}), At(4, {Strcat, Plain("empty")} \cup Uses), At(1, Uses)>>,
      \* Copies one after the other.
      <<Body, At(1, {Array("s")}), At(1, X), At(1, Copied), At(1, Ended \cup Uses \cup {Plain("empty")}),
        At(1, Copied \cup Ended), At(1, Uses \cup {Strcat})>>,
      \* Copies around a condition or in a loop.
      <<Body, At(1, {Array("s")}), At(1, X), At(1, {Asks("while", "any"), Plain("block")}), At(4, {Plain("block")}), At(5, Copied),
        At(5, {Asks("if", "any")}), At(7, Ended \cup Leaves), At(5, Copied \cup Uses), At(1, Uses)>>,
      \* Copies around a block with a condition in it.
      <<Body, At(1, {Array("s")}), At(1, {Asks("while", "any")}), At(3, {Plain("block")}), At(4, Copied),
        At(4, {Plain("block")}), At(6, {Asks("if", "any")}), At(7, Leaves \cup Uses \cup Ended), At(4, Copied \cup Uses),
        At(1, Uses)>>,
      \* Recursion.
      <<Body, At(1, {Asks("if", "any"), Asks("while", "any"), Asks("do", "any"), Asks("while", "yes"),
                     Condition("while", Ev("recur", "", "sure")), For("any", <<Ev("recur", "", "sure")>>, << >>),
                     For("any", << >>, <<Ev("recur", "", "sure")>>)}),
        At(2, Recurs \cup Leaves \cup {Plain("empty")}), At(1, Recurs \cup {Plain("return"), Plain("empty")})>>,
      <<Body, At(1, {Asks("if", "any")}), At(2, Recurs \cup {Plain("return")}), At(2, Recurs \cup {Plain("empty")}),
        At(1, {Asks("while", "any"), Plain("block")}), At(5, Recurs \cup {Plain("return")}), At(1, Recurs \cup {Plain("return")})>>,
      \* A local that could be const.
      <<Body, At(1, X), At(1, Y), At(1, Asked("x") \cup XOps), At(1, YOps)>> }

Shapes == ValueShapes \cup HandleShapes \cup WorkShapes

MCPrograms == UNION {Fill(shape) : shape \in Shapes}
=============================================================================
