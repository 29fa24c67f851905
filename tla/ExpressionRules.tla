--------------------------- MODULE ExpressionRules ----------------------------
(***************************************************************************)
(* The rules that look at expressions, conditions, cases and macros        *)
(* (pkg/rules), on the tree of the source: what each reports.  A node is   *)
(* named by its way in the expression n of a line; the values known of the *)
(* locals before the line are `values'.                                    *)
(***************************************************************************)
EXTENDS Expressions

Comparisons == {"==", "!=", "<", ">", "<=", ">="}
Relations == {"<", ">", "<=", ">="}

Right(n, path) == Sub(n, Append(path, 2))

-----------------------------------------------------------------------------
(* constant-overflow *)

\* constantUnsignedMagnitude: of a plain decimal.
Minimum(n) ==
    LET m == untag(n) IN
    m.k = "number" /\ Numeral(m).magnitude = 2 ^ (CellBits - 1) /\ ~Numeral(m).prefix

\* constantNegatedMinimum: the decimal is negated, with nothing but parentheses and
\* tags between.
NegatedMinimum(n, path) ==
    /\ Minimum(Sub(n, path))
    /\ \E i \in 1 .. Len(path) :
        LET m == Sub(n, SubSeq(path, 1, i - 1)) IN
        /\ m.k = "unary" /\ m.op = "-"
        /\ untag(m.kids[1]) = Sub(n, path)

RECURSIVE constantOverflowValue(_, _)
\* constantOverflowValue: the value of an expression whose negations do not overflow.
constantOverflowValue(s, n) ==
    CASE n.k = "number" -> literal(n)
      [] n.k = "par" \/ (n.k = "unary" /\ n.op \in {"_:", "+"}) -> constantOverflowValue(s, n.kids[1])
      [] n.k = "unary" /\ n.op = "-" ->
            IF Minimum(n.kids[1]) THEN {CellMin}
            ELSE {-v : v \in constantOverflowValue(s, n.kids[1]) \ {CellMin}}
      [] OTHER -> Constant(s, n)

InRange(v) == v \in CellMin .. CellMax

\* ConstantOverflow.Run: the literals, negations and operations that are reported.
Overflows(s, n) ==
    {p \in Paths(n) : LET m == Sub(n, p) IN
        \/ m.k = "number" /\ literal(m) = {} /\ ~NegatedMinimum(n, p)
        \/ m.k = "unary" /\ m.op = "-" /\ ~Minimum(m.kids[1]) /\ CellMin \in constantOverflowValue(s, m.kids[1])
        \/ /\ m.k = "binary" /\ m.op \in Arithmetic
           /\ \E a \in constantOverflowValue(s, m.kids[1]), b \in constantOverflowValue(s, m.kids[2]) :
                (m.op = "/" => b # 0) /\ ~InRange(Exact(m.op, a, b))}

-----------------------------------------------------------------------------
(* division-by-zero, invalid-shift-count, out-of-bounds-constant-index *)

\* canEvaluateConstant.
canEvaluateConstant(n) ==
    \A p \in Paths(n) : Sub(n, p).k \in {"name", "number", "par", "unary", "binary", "ternary"}

\* DivisionByZero.Run: the operations whose right operand is reported.
ZeroDivisions(s, n, values) ==
    {p \in PathsOf(n, {"binary", "assign"}) :
        /\ Sub(n, p).op \in Divisions
        /\ canEvaluateConstant(Right(n, p))
        /\ 0 \in Eval(s, n, values, Append(p, 2))}

\* InvalidShiftCount.Run.
InvalidShifts(s, n, values) ==
    {p \in PathsOf(n, {"binary", "assign"}) :
        /\ Sub(n, p).op \in Shifts
        /\ \E v \in Eval(s, n, values, Append(p, 2)) : v \notin 0 .. CellBits - 1}

\* OutOfBoundsConstantIndex.Run.
OutOfBounds(s, n, values) ==
    {p \in PathsOf(n, {"subscript"}) :
        /\ Sub(n, p).op \in DOMAIN s.arrays
        /\ \E v \in Eval(s, n, values, Append(p, 1)), size \in Constant(s, s.arrays[Sub(n, p).op]) :
                v \notin 0 .. size - 1}

\* InvalidArraySize.Run.
InvalidSizes(s) == {a \in DOMAIN s.arrays : \E v \in Constant(s, s.arrays[a]) : v <= 0}

-----------------------------------------------------------------------------
(* impossible-comparison; a range is {<<least, greatest>>}, or nothing *)

Span(ranges) == {<<Min({r[1] : r \in ranges}), Max({r[2] : r \in ranges})>>}

RECURSIVE expressionComparisonRange(_, _)
\* expressionComparisonRange and binaryComparisonRange.
expressionComparisonRange(s, n) ==
    LET of(i) == expressionComparisonRange(s, n.kids[i])
        masks(i) == {v \in Constant(s, n.kids[i]) : v >= 0}
    IN  CASE Constant(s, n) # {} -> {<<v, v>> : v \in Constant(s, n)}
          [] n.k = "par" \/ (n.k = "unary" /\ n.op \in {"_:", "+"}) -> of(1)
          [] n.k = "unary" /\ n.op = "!" -> {<<0, 1>>}
          [] n.k = "unary" /\ n.op = "-" -> {<<-r[2], -r[1]>> : r \in {x \in of(1) : x[1] > CellMin}}
          [] n.k = "binary" /\ n.op \in Comparisons \cup {"&&", "||"} -> {<<0, 1>>}
          [] n.k = "binary" /\ n.op = "%" ->
                UNION {LET d == Abs(v) - 1 IN
                       {<<IF \E r \in of(1) : r[1] >= 0 THEN 0 ELSE -d,
                          IF \E r \in of(1) : r[2] <= 0 THEN 0 ELSE d>>}
                       : v \in Constant(s, n.kids[2]) \ {0, CellMin}}
          [] n.k = "binary" /\ n.op = "&" ->
                {<<0, m>> : m \in IF masks(2) # {} THEN masks(2) ELSE masks(1)}
          [] n.k = "binary" /\ n.op = ">>>" ->
                {<<0, 2 ^ (CellBits - v) - 1>> : v \in Constant(s, n.kids[2]) \cap (1 .. CellBits - 1)}
          [] n.k = "ternary" /\ of(2) # {} /\ of(3) # {} -> Span(of(2) \cup of(3))
          [] n.k = "list" -> of(2)
          [] OTHER -> {}

\* comparisonResult, with a touching range taken for a strict one (a plausible bug).
comparisonResult_Touching(op, l, r) ==
    CASE op = "<" -> IF l[2] <= r[1] THEN {1} ELSE IF l[1] >= r[2] THEN {0} ELSE {}
      [] op = ">" -> IF l[1] >= r[2] THEN {1} ELSE IF l[2] <= r[1] THEN {0} ELSE {}
      [] OTHER -> {}

\* comparisonResult: what the comparison of two ranges always is.
comparisonResult(op, l, r) ==
    LET apart == l[2] < r[1] \/ r[2] < l[1] IN
    CASE op = "==" -> IF apart THEN {0} ELSE {}
      [] op = "!=" -> IF apart THEN {1} ELSE {}
      [] op = "<" -> IF l[2] < r[1] THEN {1} ELSE IF l[1] >= r[2] THEN {0} ELSE {}
      [] op = ">" -> IF l[1] > r[2] THEN {1} ELSE IF l[2] <= r[1] THEN {0} ELSE {}
      [] op = "<=" -> IF l[2] <= r[1] THEN {1} ELSE IF l[1] > r[2] THEN {0} ELSE {}
      [] OTHER -> IF l[1] >= r[2] THEN {1} ELSE IF l[2] < r[1] THEN {0} ELSE {}

Relates(n) == n.k = "binary" /\ n.op \in Relations

\* chainedRelationalComparison.
Chained(n, p) ==
    /\ Relates(Sub(n, p))
    /\ Relates(Up(n, p)) \/ Relates(Sub(n, p).kids[1]) \/ Relates(Sub(n, p).kids[2])

\* ImpossibleComparison.Run: the comparisons reported, with what they always are.
Impossible(s, n) ==
    {<<p, v>> \in Paths(n) \X {0, 1} :
        LET m == Sub(n, p) IN
        /\ m.k = "binary" /\ m.op \in Comparisons /\ ~Chained(n, p)
        /\ \E l \in expressionComparisonRange(s, m.kids[1]), r \in expressionComparisonRange(s, m.kids[2]) :
            /\ ~(l[1] = l[2] /\ r[1] = r[2])
            /\ v \in comparisonResult(m.op, l, r)}

-----------------------------------------------------------------------------
(* Conditions, cases and statements *)

\* ConstantCondition.Run: ternaries, and the condition of a line, with their value.
ConstantConditions(s, n, values) ==
    {<<p, v>> \in UNION {{p} \X Eval(s, n, values, p)
            : p \in {<< >>} \cup {Append(q, 1) : q \in PathsOf(n, {"ternary"})}} : TRUE}

\* DuplicateCondition.Run: the conditions of a chain that an earlier one is equivalent
\* to; a line that is no expression has the tree NoNode.
DuplicateConditions(s, lines) ==
    {i \in DOMAIN lines : \E j \in 1 .. i - 1 :
        lines[j] # NoNode /\ Equivalent(s, lines[j], lines[i]) /\ Pure(s, lines[j]) /\ Pure(s, lines[i])}

\* hasSideEffect.
hasSideEffect(n) ==
    \E p \in Paths(n) : Sub(n, p).k \in {"call", "assign", "update"} \/ Sub(n, p).op \in Updates

\* DiscardedExpression.Run.
Discarded(n) == ~hasSideEffect(n) /\ n.k \notin {"name", "number", "none"}

\* A clause is a sequence of pairs, the same value twice if it is no range.
CaseRange(pair) == pair[1] # pair[2]

\* DuplicateSwitchCase.Run: the values reported, each as <<clause, place>>.
DuplicateCases(s, clauses) ==
    LET places == {<<i, j>> \in (DOMAIN clauses) \X (1 .. 3) : j \in DOMAIN clauses[i] /\ ~CaseRange(clauses[i][j])}
        value(p) == Constant(s, clauses[p[1]][p[2]][1])
    IN  {p \in places : \E q \in places :
            (q[1] < p[1] \/ (q[1] = p[1] /\ q[2] < p[2])) /\ value(p) # {} /\ value(q) = value(p)}

\* buildEnumSwitchDefinition: the values of the entries, if all of them are known.
EnumValues(s) ==
    IF \/ s.enum = << >> \/ Cardinality(s.entries) < Len(s.enum)
       \/ \E i \in DOMAIN s.enum : enumEntryWidth(s, s.entries, s.enum[i]) = {}
    THEN {} ELSE {{e[2] : e \in s.entries}}

\* enumSwitchCaseValue, with its tag left aside.
caseValue(s, n) == IF Constant(s, n) # {} THEN Constant(s, n) ELSE Constant(s, untag(n))

\* coveredEnumSwitchValues: nothing if a value is not known or a range is reversed.
covered(s, clauses, values) ==
    LET pairs == UNION {{clauses[i][j] : j \in DOMAIN clauses[i]} : i \in DOMAIN clauses}
        ends(pair) == caseValue(s, pair[1]) \X caseValue(s, pair[2])
        good == \A pair \in pairs : \E e \in ends(pair) : e[1] <= e[2]
    IN  IF ~good THEN {}
        ELSE {{v \in values : \E pair \in pairs : \E e \in ends(pair) : v \in e[1] .. e[2]}}

\* IncompleteEnumSwitch.Run of a switch over the enum without a default: the values
\* that are missing; nothing if that cannot be told.
MissingCases(s, clauses) ==
    {v \ c : <<v, c>> \in UNION {{v} \X covered(s, clauses, v) : v \in EnumValues(s)}}
=============================================================================
