----------------------------- MODULE SyntaxRules ------------------------------
(***************************************************************************)
(* The rules that look at how an expression or a macro is written:         *)
(* redundant-parentheses with its fix, unparenthesized-macro and           *)
(* macro-repeated-parameter (pkg/rules).  The role of a line says what the *)
(* whole expression is of: "condition" (with its parentheses), "case",     *)
(* "value" or "statement".                                                 *)
(***************************************************************************)
EXTENDS Expressions

\* redundantParenthesesPrecedence, on the scale of the parser's levels.
Comma == 1
Assignment == 2
Ternary == 3
Relational == 10
Unary == 14
Postfix == 15
Primary == 16

Level(op) == CHOOSE i \in DOMAIN BinaryLevels : op \in BinaryLevels[i]

precedence(n) ==
    LET m == unwrap(n) IN
    CASE m.k = "list" -> Comma
      [] m.k = "assign" -> Assignment
      [] m.k = "ternary" -> Ternary
      [] m.k = "binary" -> 3 + Level(m.op)
      [] m.k = "unary" -> Unary
      [] m.k \in {"call", "subscript", "update"} -> Postfix
      [] OTHER -> Primary

Tagged(n) == n.k = "unary" /\ n.op = "_:"

\* redundantParenthesesRequiredCondition: the parentheses of an if, while or switch.
RequiredCondition(role, path) == role = "condition" /\ path = << >>

\* What the whole expression of a line needs.
RequiredWhole(role, inner) ==
    CASE role = "condition" -> TRUE
      [] role = "case" -> precedence(inner) <= Assignment
      [] role = "value" -> precedence(inner) = Comma
      [] OTHER -> Tagged(inner)

\* An argument of a call.
Argument(n, path) ==
    \/ Up(n, path).k = "call"
    \/ Up(n, path).k = "list" /\ Up(n, Front(path)).k = "call"

\* The right operand needs no parentheses at equal precedence (a plausible bug).
Required_Left(role, n, path) ==
    LET inner == Sub(n, path).kids[1]
        parent == Up(n, path)
    IN  IF path # << >> /\ parent.k = "binary" THEN precedence(inner) < precedence(parent)
        ELSE path = << >> /\ RequiredWhole(role, inner)

\* redundantParenthesesRequired.
Required(role, n, path) ==
    LET inner == Sub(n, path).kids[1]
        parent == Up(n, path)
        own == precedence(inner)
        outer == precedence(parent)
    IN  CASE path = << >> -> RequiredWhole(role, inner)
          [] parent.k = "par" -> RequiredCondition(role, Front(path)) /\ inner.k = "assign"
          [] parent.k = "binary" /\ own # outer -> own < outer
          [] parent.k = "binary" -> outer = Relational \/ Which(path) = 2
          [] parent.k = "assign" -> IF own # Assignment THEN own < Assignment ELSE Which(path) = 1
          [] parent.k = "ternary" -> IF Which(path) = 1 THEN own <= Ternary ELSE own = Comma
          [] parent.k = "unary" -> own < Unary
          [] parent.k = "update" -> own < Postfix
          [] Argument(n, path) -> own = Comma
          [] OTHER -> FALSE

\* RedundantParentheses.Run: the parentheses reported.
Redundant(role, n) ==
    {p \in PathsOf(n, {"par"}) :
        /\ ~Required(role, n, p)
        /\ Up(n, p).k = "par" => Required(role, n, Front(p))}

RECURSIVE Nested(_, _)
\* The parentheses within those at a path with nothing between.
Nested(n, path) ==
    {path} \cup (IF Sub(n, path).kids[1].k = "par" THEN Nested(n, Append(path, 1)) ELSE {})

\* redundantParenthesesAssignmentOptOut: of the parentheses around an assignment that
\* is a condition.
OptOut(role, n, path) ==
    /\ role = "condition" /\ unwrap(Sub(n, path)).k = "assign"
    /\ \A i \in 0 .. Len(path) : Sub(n, SubSeq(path, 1, i)).k = "par"

\* redundantParenthesesFix: the tokens it takes out.
Removed(role, n, path) ==
    UNION {{Sub(n, p).from, Sub(n, p).to} : p \in IF OptOut(role, n, path) THEN {path} ELSE Nested(n, path)}

\* The text without some of its tokens, read again.
TakeOut(ts, places) ==
    LET kept == InOrder(DOMAIN ts \ places)
        near(i) == i > 1 /\ \A j \in kept[i - 1] + 1 .. kept[i] : ts[j].near
    IN  [i \in DOMAIN kept |-> [ts[kept[i]] EXCEPT !.near = near(i)]]

-----------------------------------------------------------------------------
(* Macros *)

\* macroOperandNeedsParens; a tagged expression is of a kind of its own.
macroOperandNeedsParens(n) == n.k \in {"binary", "unary", "ternary", "update"} /\ ~Tagged(n)

signedLiteral(n) == n.k = "unary" /\ n.op \in {"+", "-"} /\ n.kids[1].k = "number"

\* The identifiers of a replacement list, of a call and of an array too, that are
\* parameters.
ParameterPaths(macro, n) == {p \in PathsOf(n, {"name"}) : \E i \in DOMAIN macro.parameters : macro.parameters[i] = <<Sub(n, p).op>>}

\* Only the replacement list is looked at (a plausible bug).
Unparenthesized_Lists(macro) ==
    LET n == Parse(macro.body) IN
    IF macroOperandNeedsParens(n) /\ ~signedLiteral(n) THEN {<< >>} ELSE {}

\* UnparenthesizedMacro.Run: the places reported in a replacement list that is an
\* expression.
Unparenthesized(macro) ==
    LET n == Parse(macro.body) IN
    (IF macroOperandNeedsParens(n) /\ ~signedLiteral(n) THEN {<< >>} ELSE {})
    \cup {p \in ParameterPaths(macro, n) \ {<< >>} : macroOperandNeedsParens(Up(n, p))}

\* macroParameterEvaluations: how often a parameter is in the replacement list.
Evaluations(macro, i) ==
    LET n == Parse(macro.body) IN
    Cardinality({p \in ParameterPaths(macro, n) : macro.parameters[i] = <<Sub(n, p).op>>})

\* MacroRepeatedParameter.Run: the parameters reported.
Repeated(macro) == {i \in DOMAIN macro.parameters : Evaluations(macro, i) > 1}
=============================================================================
