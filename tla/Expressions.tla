---------------------------- MODULE Expressions -----------------------------
(***************************************************************************)
(* Expressions: what their text means, which values are known of them      *)
(* (internal/semantic), and the rules that look at them.                   *)
(*                                                                         *)
(* A node has a kind k, an op (its mark, name or text), its kids, and the  *)
(* tokens from .. to that it is written with.  Kinds: number, name, par,   *)
(* unary (with the prefix ++, and a tag as _:), update (the postfix ++),   *)
(* binary, ternary, assign, list, call, subscript.                         *)
(*                                                                         *)
(* What the names of an expression stand for, a scope s:                   *)
(*   constants  the constants, with the expressions of their values        *)
(*   enum       the entries of an enum: name, value and widths             *)
(*   locals     the local variables whose values are followed              *)
(*   known      pairs of such a local and the value it is known to have    *)
(*   globals    the other variables                                        *)
(*   arrays     the arrays, with the expressions of their sizes            *)
(*   calls      the functions, "pure", "none" (leaves its arguments),      *)
(*              "writes" (its argument) or "changes" (a global)            *)
(***************************************************************************)
EXTENDS Macros, Integers

CONSTANTS
    CellBits,  \* the width of a cell, 32 in the code
    Numerals   \* the number tokens: magnitude, and whether it has a prefix

Numeral(node) == Numerals[node.op]

-----------------------------------------------------------------------------
(* The parser, of a library *)

Node(k, op, kids, from, to) == [k |-> k, op |-> op, kids |-> kids, from |-> from, to |-> to]
NoNode == Node("none", "", << >>, 0, 0)

\* From loose to tight, after comma, assignment and ternary.
BinaryLevels ==
    << {"||"}, {"&&"}, {"|"}, {"^"}, {"&"}, {"==", "!="}, {"<", ">", "<=", ">="},
       {"<<", ">>", ">>>"}, {"+", "-"}, {"*", "/", "%"} >>
Assignments == {"=", "+=", "/=", "<<="}
PrefixMarks == {"!", "~", "-", "+", "++", "--", "_:"}
Updates == {"++", "--"}

Parsed(node, next) == [node |-> node, next |-> next]
Failed == Parsed(NoNode, 0)

At(ts, i) == IF i \in DOMAIN ts THEN ts[i].text[1] ELSE ""
MarkAt(ts, i, marks) == i \in DOMAIN ts /\ ts[i].kind = "mark" /\ ts[i].text[1] \in marks

RECURSIVE ParseLevel(_, _, _), ParseRest(_, _, _), ParsePostfix(_, _)

\* The expression of this level that starts at token i: 1 list, 2 assignment,
\* 3 ternary, then the binary levels, 14 unary, 15 postfix.
ParseLevel(ts, i, level) ==
    CASE level \in {1} \cup 4 .. 13 -> ParseRest(ts, ParseLevel(ts, i, level + 1), level)
      [] level = 2 ->
            LET left == ParseLevel(ts, i, 3)
                right == ParseLevel(ts, left.next + 1, 2)
            IN  IF ~MarkAt(ts, left.next, Assignments) THEN left
                ELSE IF right.next = 0 THEN Failed
                ELSE Parsed(Node("assign", At(ts, left.next), <<left.node, right.node>>, i, right.node.to), right.next)
      [] level = 3 ->
            LET test == ParseLevel(ts, i, 4)
                yes == ParseLevel(ts, test.next + 1, 2)
                no == ParseLevel(ts, yes.next + 1, 2)
            IN  IF ~MarkAt(ts, test.next, {"?"}) THEN test
                ELSE IF ~MarkAt(ts, yes.next, {":"}) \/ no.next = 0 THEN Failed
                ELSE Parsed(Node("ternary", "?", <<test.node, yes.node, no.node>>, i, no.node.to), no.next)
      [] level = 14 ->
            LET inner == ParseLevel(ts, i + 1, 14) IN
            IF ~MarkAt(ts, i, PrefixMarks) THEN ParsePostfix(ts, ParseLevel(ts, i, 15))
            ELSE IF inner.next = 0 THEN Failed
            ELSE Parsed(Node("unary", At(ts, i), <<inner.node>>, i, inner.node.to), inner.next)
      [] OTHER ->
            LET inner == ParseLevel(ts, i + 1, 1)
                arguments == ParseLevel(ts, i + 2, 1)
                bracket == IF MarkAt(ts, i + 1, {"("}) THEN ")" ELSE "]"
            IN  CASE i \notin DOMAIN ts -> Failed
                  [] ts[i].kind = "number" -> Parsed(Node("number", At(ts, i), << >>, i, i), i + 1)
                  [] ts[i].kind = "name" /\ MarkAt(ts, i + 1, {"(", "["}) ->
                        IF ~MarkAt(ts, arguments.next, {bracket}) THEN Failed
                        ELSE Parsed(Node(IF bracket = ")" THEN "call" ELSE "subscript", At(ts, i),
                                         <<arguments.node>>, i, arguments.next), arguments.next + 1)
                  [] ts[i].kind = "name" -> Parsed(Node("name", At(ts, i), << >>, i, i), i + 1)
                  [] MarkAt(ts, i, {"("}) /\ MarkAt(ts, inner.next, {")"}) ->
                        Parsed(Node("par", "(", <<inner.node>>, i, inner.next), inner.next + 1)
                  [] OTHER -> Failed

ParseRest(ts, left, level) ==
    LET marks == IF level = 1 THEN {","} ELSE BinaryLevels[level - 3]
        right == ParseLevel(ts, left.next + 1, level + 1)
    IN  IF ~MarkAt(ts, left.next, marks) THEN left
        ELSE IF right.next = 0 THEN Failed
        ELSE ParseRest(ts, Parsed(Node(IF level = 1 THEN "list" ELSE "binary", At(ts, left.next),
                                       <<left.node, right.node>>, left.node.from, right.node.to), right.next), level)

ParsePostfix(ts, left) ==
    IF MarkAt(ts, left.next, Updates)
    THEN ParsePostfix(ts, Parsed(Node("update", At(ts, left.next), <<left.node>>, left.node.from, left.next), left.next + 1))
    ELSE left

\* The expression of a sequence of tokens; NoNode if it is none.
Parse(ts) == LET p == ParseLevel(ts, 1, 1) IN IF p.next = Len(ts) + 1 THEN p.node ELSE NoNode

\* The tokens the lexer reads where some were taken out: neighbours with nothing
\* between them may be one.
Lex(ts) ==
    FoldLeft(LAMBDA done, t : IF t.near THEN concatenateReplacementBoundary(done, <<t>>) ELSE Append(done, t),
             << >>, ts)

-----------------------------------------------------------------------------
(* Trees *)

RECURSIVE Paths(_)
\* The nodes of a tree, each as the way to it.
Paths(n) == {<< >>} \cup UNION {{<<i>> \o p : p \in Paths(n.kids[i])} : i \in DOMAIN n.kids}

RECURSIVE Sub(_, _)
Sub(n, path) == IF path = << >> THEN n ELSE Sub(n.kids[path[1]], Tail(path))

PathsOf(n, kinds) == {p \in Paths(n) : Sub(n, p).k \in kinds}
Up(n, path) == IF path = << >> THEN NoNode ELSE Sub(n, Front(path))
Which(path) == IF path = << >> THEN 0 ELSE Last(path)

RECURSIVE Strip(_)
\* The tree without parentheses and places.
Strip(n) == IF n.k = "par" THEN Strip(n.kids[1])
            ELSE [k |-> n.k, op |-> n.op, kids |-> [i \in DOMAIN n.kids |-> Strip(n.kids[i])]]

RECURSIVE unwrap(_)
unwrap(n) == IF n.k = "par" THEN unwrap(n.kids[1]) ELSE n

RECURSIVE untag(_)
untag(n) == IF n.k = "par" \/ (n.k = "unary" /\ n.op = "_:") THEN untag(n.kids[1]) ELSE n

-----------------------------------------------------------------------------
(* Cells *)

Modulus == 2 ^ CellBits
CellMax == 2 ^ (CellBits - 1) - 1
CellMin == -(2 ^ (CellBits - 1))

Cell(x) == ((x - CellMin) % Modulus) + CellMin
Truth(b) == IF b THEN 1 ELSE 0
Abs(x) == IF x < 0 THEN -x ELSE x

\* Division and remainder truncate, in the code as in the program.
Quotient(a, b) == (IF (a < 0) = (b < 0) THEN 1 ELSE -1) * (Abs(a) \div Abs(b))

Bits(x) == {i \in 0 .. CellBits - 1 : ((x % Modulus) \div 2 ^ i) % 2 = 1}
FromBits(s) == Cell(SumSet({2 ^ i : i \in s}))

Arithmetic == {"+", "-", "*", "/"}
Divisions == {"/", "%", "/="}
Shifts == {"<<", ">>", ">>>", "<<="}

\* What an operator makes of two cells, before the result is made a cell.
Exact(op, a, b) ==
    CASE op = "+" -> a + b
      [] op = "-" -> a - b
      [] op = "*" -> a * b
      [] op = "/" -> Quotient(a, b)
      [] op = "%" -> a - Quotient(a, b) * b
      [] op = "<<" -> FromBits({i + b : i \in Bits(a)} \cap (0 .. CellBits - 1))
      [] op = ">>" -> a \div 2 ^ b
      [] op = ">>>" -> FromBits({i - b : i \in Bits(a)} \cap (0 .. CellBits - 1))
      [] op = "&" -> FromBits(Bits(a) \cap Bits(b))
      [] op = "|" -> FromBits(Bits(a) \cup Bits(b))
      [] op = "^" -> FromBits((Bits(a) \cup Bits(b)) \ (Bits(a) \cap Bits(b)))
      [] op = "&&" -> Truth(a # 0 /\ b # 0)
      [] op = "||" -> Truth(a # 0 \/ b # 0)
      [] op = "==" -> Truth(a = b)
      [] op = "!=" -> Truth(a # b)
      [] op = "<" -> Truth(a < b)
      [] op = ">" -> Truth(a > b)
      [] op = "<=" -> Truth(a <= b)
      [] OTHER -> Truth(a >= b)

-----------------------------------------------------------------------------
(* What is known of a value: the set of it, or nothing *)

\* builtinValue.
Builtins == ("true" :> 1) @@ ("false" :> 0) @@ ("cellmax" :> CellMax) @@ ("cellmin" :> CellMin)
            @@ ("cellbits" :> CellBits)

\* Variables and constants hide the names of the language.
Declared(s) == DOMAIN s.constants \cup s.locals \cup s.globals \cup DOMAIN s.arrays
               \cup {s.enum[i].name : i \in DOMAIN s.enum}

\* constantLiteralCellValue, evalLiteral: what fits in the bits of a cell is one.
literal(n) == {Cell(m) : m \in {Numeral(n).magnitude} \cap (0 .. Modulus - 1)}

\* evalBinary, but that a shift may be of any count (a plausible bug).
evalBinary_AnyShift(op, a, b) ==
    IF b = 0 /\ op \in Divisions THEN {} ELSE {Cell(Exact(op, a, Abs(b)))}

evalBinary(op, a, b) ==
    CASE op \in Divisions /\ b = 0 -> {}
      [] op \in Shifts /\ b \notin 0 .. CellBits - 1 -> {}
      [] OTHER -> {Cell(Exact(op, a, b))}

RECURSIVE eval(_, _, _, _, _)
\* Model.eval: enums has what is known of the entries of the enum, values of the
\* locals; a constant is not followed within itself.
eval(s, enums, n, values, visiting) ==
    LET of(i) == eval(s, enums, n.kids[i], values, visiting)
        entry == {v[2] : v \in {e \in enums : e[1] = n.op}}
        value == {v[2] : v \in {e \in values : e[1] = n.op}}
    IN  CASE n.k = "number" -> literal(n)
          [] n.k = "par" -> of(1)
          [] n.k = "unary" ->
                UNION {CASE n.op = "+" -> {a}
                         [] n.op = "-" -> {Cell(-a)}
                         [] n.op = "!" -> {Truth(a = 0)}
                         [] n.op = "~" -> {-a - 1}
                         [] OTHER -> {} : a \in of(1)}
          [] n.k = "binary" -> UNION {UNION {evalBinary(n.op, a, b) : b \in of(2)} : a \in of(1)}
          [] n.k = "ternary" -> UNION {IF c # 0 THEN of(2) ELSE of(3) : c \in of(1)}
          [] n.k = "name" ->
                CASE n.op \in DOMAIN Builtins \ Declared(s) -> {Builtins[n.op]}
                  [] value # {} -> value
                  [] entry # {} -> entry
                  [] n.op \in DOMAIN s.constants \ visiting ->
                        eval(s, enums, s.constants[n.op], values, visiting \cup {n.op})
                  [] OTHER -> {}
          [] OTHER -> {}

\* enumEntryWidth: the product of the sizes of an entry; nothing if one is not known
\* or not positive.
enumEntryWidth(s, enums, entry) ==
    FoldLeft(LAMBDA width, size :
                {w \in UNION {{Cell(a * b) : b \in {x \in eval(s, enums, size, {}, {}) : x > 0}} : a \in width} : w > 0},
             {1}, entry.widths)

\* evaluateEnums, with every entry one wide (a plausible bug).
evaluateEnum_One(s) ==
    FoldLeft(LAMBDA st, entry :
        LET now == IF entry.value = NoNode THEN st.current ELSE eval(s, st.known, entry.value, {}, {})
        IN  [known |-> st.known \cup {<<entry.name, v>> : v \in now},
             current |-> {Cell(v + 1) : v \in now}],
        [known |-> {}, current |-> {0}], s.enum).known

\* evaluateEnums: an entry is one more, or its width more, than the one before it;
\* once that is not known, nothing is until an explicit value.
evaluateEnum(s) ==
    FoldLeft(LAMBDA st, entry :
        LET now == IF entry.value = NoNode THEN st.current ELSE eval(s, st.known, entry.value, {}, {})
        IN  [known |-> st.known \cup {<<entry.name, v>> : v \in now},
             current |-> {Cell(v + w) : v \in now, w \in enumEntryWidth(s, st.known, entry)}],
        [known |-> {}, current |-> {0}], s.enum).known

\* Context.Constant.
Constant(s, n) == eval(s, s.entries, n, {}, {})

\* The operand of an operator that is only evaluated sometimes: conditionallyExecuted.
Conditional(n, path) ==
    \E i \in DOMAIN path : LET u == Sub(n, SubSeq(path, 1, i - 1)) IN
        path[i] > 1 /\ (u.k = "ternary" \/ (u.k = "binary" /\ u.op \in {"&&", "||"}))

NameOf(n) == IF n.k = "name" THEN {n.op} ELSE {}

\* callEffects: a call that is known leaves its argument, unless it takes a reference.
Spares(s, call) == call.op \in DOMAIN s.calls /\ s.calls[call.op] # "writes"

\* valueEvents: the local each of them is about, what it is set to if that is known
\* to happen, and the token the event is at.  A prefix increment is none.
ValueEvents(s, n) ==
    LET event(p) ==
            LET m == Sub(n, p)
                target == CASE m.k # "call" -> NameOf(m.kids[1])
                            [] Spares(s, m) -> {}
                            [] OTHER -> NameOf(untag(m.kids[1]))  \* callArgumentSymbol
            IN  {[var |-> v, at |-> m.to, to |-> IF m.k = "assign" /\ m.op = "=" /\ ~Conditional(n, p)
                                                 THEN m.kids[2] ELSE NoNode] : v \in target \cap s.locals}
        all == UNION {event(p) : p \in PathsOf(n, {"assign", "update", "call"})}
    IN  SetToSortSeq(all, LAMBDA a, b : a.at < b.at \/ (a.at = b.at /\ a.to = NoNode /\ b.to # NoNode))

\* applyValueEvents up to a token of the expression.
applyValueEvents(s, n, values, until) ==
    FoldLeft(LAMBDA known, e :
        IF e.at > until THEN known
        ELSE {v \in known : v[1] # e.var}
             \cup {<<e.var, x>> : x \in IF e.to = NoNode THEN {} ELSE eval(s, s.entries, e.to, known, {})},
        values, ValueEvents(s, n))

\* Context.Eval of the node at a path, with what is known of the locals before.
Eval(s, n, values, path) ==
    LET m == Sub(n, path)
        constant == Constant(s, m)
    IN  IF constant # {} THEN constant
        ELSE eval(s, s.entries, m, applyValueEvents(s, n, values, m.from - 1), {})

\* Equivalent, equivalentCertain: the same tree, but for parentheses, of names that
\* stand for something.
Equivalent(s, a, b) ==
    /\ Strip(a) = Strip(b)
    /\ \A p \in PathsOf(a, {"name", "call", "subscript"}) :
           Sub(a, p).op \in Declared(s) \cup DOMAIN s.calls

Runs(s, name, kinds) == name \in DOMAIN s.calls /\ s.calls[name] \in kinds

\* Context.Pure, and PureCall for natives that are pure.
Pure(s, n) ==
    \A p \in Paths(n) : LET m == Sub(n, p) IN
        /\ m.k \notin {"assign", "update", "list"}
        /\ m.k = "unary" => m.op \notin Updates
        /\ m.k = "call" => Runs(s, m.op, {"pure"})
=============================================================================
