----------------------------- MODULE ExpressionRun ----------------------------
(***************************************************************************)
(* A file, with the files it includes, is preprocessed line by line, by    *)
(* the linter for its expanded trees and by the compiler; the rules look   *)
(* at the expressions as they are written; the compiled program runs.      *)
(*                                                                         *)
(* A program has files, sequences of lines; a line is "define", "undef",   *)
(* "include" or "code", and on, off or "maybe" as its conditional branch   *)
(* is active, inactive or not known to be either.  The code lines of the   *)
(* file "main" are a chain of conditions, the condition of a switch over   *)
(* the clauses of the program, or statements.                              *)
(***************************************************************************)
EXTENDS ExpressionRules, SyntaxRules

CONSTANTS
    Programs,   \* the programs, a sequence of sets of them
    Surprises   \* the values of what the program does not determine

VARIABLES
    program,    \* the program: files, scope, kind, role, clauses
    phase,      \* "preprocess", "lint", "start", "run", "over"
    stack,      \* the files being read, innermost last: file, line, and whether the linter reads it too
    expander,   \* the linter's expander of each file
    macros,     \* the macros of the compiler
    code,       \* the code lines of "main": raw, expanded, compiled, and the macros there
    facts,      \* what the rules report, for each code line
    memory,     \* the variables of the running program
    at,         \* the line that runs
    log,        \* the evaluations of the nodes of that line
    outcome     \* how the run ended

vars == <<program, phase, stack, expander, macros, code, facts, memory, at, log, outcome>>

scope == program.scope

-----------------------------------------------------------------------------
(* The compiler: the leftmost invocation is replaced, and read again *)

\* The body with the arguments put in place of the parameters, read as tokens.
Substituted(macro, arguments) ==
    Lex(FoldLeft(LAMBDA result, token :
            LET i == ParameterOf(macro, token) IN
            result \o (IF i = {} THEN <<token>>
                       ELSE LET argument == arguments[Max(i)]
                            IN  [j \in DOMAIN argument |-> IF j = 1 THEN [argument[j] EXCEPT !.near = token.near]
                                                           ELSE argument[j]]),
            << >>, macro.body))

RECURSIVE Rewrite(_, _, _, _)
\* What the tokens from the i-th on are rewritten to, in so many steps at most.
Rewrite(definitions, input, i, fuel) ==
    LET rest == SubSeq(input, i, Len(input))
        call == Invocation(definitions, rest)
        macro == definitions[Head(rest).text]
    IN  CASE i > Len(input) -> input
          [] fuel = 0 \/ call.what # "good" -> Rewrite(definitions, input, i + 1, fuel)
          [] OTHER ->
                Rewrite(definitions,
                        SubSeq(input, 1, i - 1)
                        \o Substituted(macro, IF macro.function THEN Arguments(rest).list ELSE << >>)
                        \o After(rest, call.size), i, fuel - 1)

Fuel == 6
Compile(definitions, input) == Rewrite(definitions, input, 1, Fuel)

Texts(ts) == [i \in DOMAIN ts |-> ts[i].text]

-----------------------------------------------------------------------------
(* Preprocessing *)

Init ==
    /\ \E i \in DOMAIN Programs : program \in Programs[i]
    /\ phase = "preprocess"
    /\ stack = <<[file |-> "main", line |-> 1, both |-> TRUE]>>
    /\ expander = [f \in DOMAIN program.files |-> NewExpander]
    /\ macros = << >>
    /\ code = << >>
    /\ facts = << >>
    /\ memory = << >>
    /\ at = 0
    /\ log = {}
    /\ outcome = "none"

Top == Last(stack)
AtEnd == Top.line > Len(program.files[Top.file])
Line == program.files[Top.file][Top.line]
Advanced == [stack EXCEPT ![Len(stack)].line = @ + 1]

\* The linter's expander of the file being read, after a directive of a branch that
\* is active, or not known to be.
Linter(state, new) ==
    IF ~Top.both THEN expander
    ELSE [expander EXCEPT ![Top.file] = CASE state = "on" -> new
                                          [] state = "maybe" -> Incomplete(@)
                                          [] OTHER -> @]

\* Whether the compiler takes the line.
Takes(takes) == takes = (Line.state = "on") \/ Line.state = "maybe"

Reading(what) == phase = "preprocess" /\ ~AtEnd /\ Line.what = what

Unread == UNCHANGED <<program, phase, facts, memory, at, log, outcome>>

\* applyDirective of a #define.
Define(takes) ==
    /\ Reading("define") /\ Takes(takes)
    /\ expander' = Linter(Line.state, define(expander[Top.file], Line.name, Line.macro))
    /\ macros' = IF takes THEN (Line.name :> Line.macro) @@ macros ELSE macros
    /\ stack' = Advanced
    /\ UNCHANGED code
    /\ Unread

\* applyDirective of an #undef.
Undefine(takes) ==
    /\ Reading("undef") /\ Takes(takes)
    /\ expander' = Linter(Line.state, undefine(expander[Top.file], Line.name))
    /\ macros' = IF takes THEN Without(macros, {Line.name}) ELSE macros
    /\ stack' = Advanced
    /\ UNCHANGED code
    /\ Unread

\* An #include: the linter starts the file with no macros of its own, and follows no
\* include it is uncertain about.
Include(takes) ==
    /\ Reading("include") /\ Takes(takes)
    /\ LET both == Top.both /\ Line.state = "on" IN
       /\ expander' = IF both THEN [expander EXCEPT ![Line.name] = NewExpander]
                      ELSE Linter(Line.state, expander[Top.file])
       /\ stack' = IF takes THEN Append(Advanced, [file |-> Line.name, line |-> 1, both |-> both])
                   ELSE Advanced
    /\ UNCHANGED <<macros, code>>
    /\ Unread

\* The end of an included file: its macros are merged into the file that includes it.
EndFile ==
    /\ phase = "preprocess" /\ AtEnd /\ Len(stack) > 1
    /\ LET file == Front(stack)[Len(stack) - 1].file
           merged == merge(expander[file], expander[Top.file])
       IN  expander' = IF ~Top.both THEN expander
                       ELSE [expander EXCEPT ![file] = [merged EXCEPT !.complete = @ /\ expander[Top.file].complete]]
    /\ stack' = Front(stack)
    /\ UNCHANGED <<macros, code>>
    /\ Unread

\* A line of code, of "main".
Code ==
    /\ Reading("code")
    /\ LET raw == Line.tokens
           expanded == expandTokens(expander["main"].definitions, raw, expander["main"])
       IN  /\ expander' = [expander EXCEPT !["main"] = expanded.state]
           /\ code' = Append(code, [raw |-> raw, expanded |-> expanded.out, compiled |-> Compile(macros, raw), macros |-> macros])
    /\ stack' = Advanced
    /\ UNCHANGED macros
    /\ Unread

EndMain ==
    /\ phase = "preprocess" /\ AtEnd /\ Len(stack) = 1
    /\ phase' = "lint"
    /\ UNCHANGED <<program, stack, expander, macros, code, facts, memory, at, log, outcome>>

-----------------------------------------------------------------------------
(* Linting *)

Tree(i) == Parse(code[i].raw)
Compiled(i) == Parse(code[i].compiled)

\* The macros a sequence of tokens may need.
Used(definitions, ts) ==
    LET names(t) == {t[i].text : i \in DOMAIN t} \cap DOMAIN definitions
    IN  FoldLeft(LAMBDA used, i : used \cup UNION {names(definitions[m].body) : m \in used},
                 names(ts), [i \in 1 .. Cardinality(DOMAIN definitions) |-> i])

RECURSIVE Listed(_)
Listed(n) == IF n.k = "list" THEN Listed(n.kids[1]) \o <<n.kids[2]>> ELSE <<n>>

RECURSIVE Filled(_, _, _)
\* The replacement list with trees for its parameters.
Filled(macro, n, trees) ==
    LET is == {i \in DOMAIN macro.parameters : n.k = "name" /\ macro.parameters[i] = <<n.op>>}
    IN  IF is # {} THEN trees[Max(is)]
        ELSE [n EXCEPT !.kids = [i \in DOMAIN n.kids |-> Filled(macro, n.kids[i], trees)]]

RECURSIVE Unfolded(_, _)
\* The tree with the trees of the macros in the place of their invocations.
Unfolded(definitions, n) ==
    LET kids == [n EXCEPT !.kids = [i \in DOMAIN n.kids |-> Unfolded(definitions, n.kids[i])]]
        macro == definitions[<<n.op>>]
    IN  CASE <<n.op>> \notin DOMAIN definitions \/ n.k \notin {"name", "call", "subscript"} -> kids
          [] n.k # "name" /\ ~macro.function -> Unfolded(definitions, [n EXCEPT !.op = macro.body[1].text[1]])
          [] (n.k = "call") # macro.function -> kids
          [] OTHER -> Unfolded(definitions, Filled(macro, Parse(macro.body),
                                                   IF n.k = "call" THEN Listed(kids.kids[1]) ELSE << >>))

RECURSIVE Shape(_)
Shape(n) == [k |-> n.k, op |-> n.op, kids |-> [i \in DOMAIN n.kids |-> Shape(n.kids[i])]]

\* A macro that unparenthesized-macro has nothing to say of, though it does look at
\* it, and at all of it.
Quiet(macro) ==
    LET n == Parse(macro.body) IN
    /\ Unparenthesized(macro) = {}
    /\ n.k \in {"par", "number", "name", "call", "subscript", "unary"} /\ ~Tagged(n)
    /\ \A p \in ParameterPaths(macro, n) : Up(n, p).k \notin {"none", "assign"} /\ ~Tagged(Up(n, p))

QuietLine(i) == \A m \in Used(code[i].macros, code[i].raw) : Quiet(code[i].macros[m])

\* The nodes of the source are those of the program, but for the macros.
Aligned(i) ==
    /\ QuietLine(i)
    /\ \A m \in Used(code[i].macros, code[i].raw) : ~code[i].macros[m].function
    /\ Shape(Compiled(i)) = Shape(Unfolded(code[i].macros, Tree(i)))

\* The values known of the locals before a line.
ValuesBefore(s, i) ==
    FoldLeft(LAMBDA values, j : applyValueEvents(s, Tree(j), values, Len(code[j].raw)),
             s.known, [j \in 1 .. i - 1 |-> j])

\* The reports on a line, and the values the linter knows of its nodes.
Reports(s, i) ==
    LET n == Tree(i)
        values == ValuesBefore(s, i)
    IN  [aligned |-> Tree(i) # NoNode /\ expander["main"].complete /\ Aligned(i),
         values |-> UNION {{p} \X Eval(s, n, values, p) : p \in Paths(n)},
         overflows |-> Overflows(s, n),
         zeros |-> ZeroDivisions(s, n, values),
         shifts |-> InvalidShifts(s, n, values),
         indexes |-> OutOfBounds(s, n, values),
         impossible |-> Impossible(s, n),
         constant |-> ConstantConditions(s, n, values),
         discarded |-> program.kind = "statement" /\ Discarded(n),
         duplicate |-> program.kind = "chain" /\ i \in DuplicateConditions(s, [j \in DOMAIN code |-> Tree(j)]),
         redundant |-> Redundant(program.role, n)]

Lint ==
    /\ phase = "lint"
    /\ LET s == [scope EXCEPT !.entries = evaluateEnum(scope)] IN
       /\ program' = [program EXCEPT !.scope = s]
       /\ facts' = [i \in DOMAIN code |-> Reports(s, i)]
    /\ phase' = "start"
    /\ UNCHANGED <<stack, expander, macros, code, memory, at, log, outcome>>

-----------------------------------------------------------------------------
(* The machine *)

Event(path, v, fault) == [at |-> path, v |-> v, fault |-> fault]
Result(v, mem, events, ok) == [v |-> v, mem |-> mem, log |-> events, ok |-> ok]

\* What follows each of some results, unless the program has stopped.
Then(results, Next_(_)) ==
    UNION {IF ~r.ok THEN {r}
           ELSE {[q EXCEPT !.log = @ \cup r.log] : q \in Next_(r)} : r \in results}

\* The cell an operator makes of two, and what is wrong with it; a shift by a count
\* out of range may give anything.
Computed(n, a, b) ==
    CASE n.op \in Divisions /\ b = 0 -> {<<0, "zero">>}
      [] n.op \in Shifts /\ b \notin 0 .. CellBits - 1 -> Surprises \X {"shift"}
      [] OTHER -> LET exact == Exact(IF n.op = "/=" THEN "/" ELSE IF n.op = "<<=" THEN "<<" ELSE n.op, a, b)
                  IN  {<<Cell(exact), IF InRange(exact) THEN "" ELSE "wrap">>}

\* The value of each entry of the enum, and the place after the last.
RECURSIVE EnumPlace(_, _)
RECURSIVE Evaluate(_, _, _, _)
RECURSIVE Fixed(_, _)

\* The value of an expression that the compiler computes.
Fixed(s, n) == (CHOOSE r \in Evaluate(s, n, << >>, << >>) : TRUE).v

EnumPlace(s, i) ==
    CASE i \in DOMAIN s.enum /\ s.enum[i].value # NoNode -> Fixed(s, s.enum[i].value)
      [] i = 1 -> 0
      [] OTHER -> EnumPlace(s, i - 1)
                  + FoldLeft(LAMBDA width, size : width * Fixed(s, size), 1, s.enum[i - 1].widths)

EnumTruth(s) == {EnumPlace(s, i) : i \in DOMAIN s.enum}

\* The values a name may have.
Named(s, name, mem) ==
    CASE name \in DOMAIN mem -> {mem[name]}
      [] name \in DOMAIN s.constants -> {Fixed(s, s.constants[name])}
      [] \E i \in DOMAIN s.enum : s.enum[i].name = name ->
            {EnumPlace(s, i) : i \in {j \in DOMAIN s.enum : s.enum[j].name = name}}
      [] OTHER -> {Builtins[name]}

\* A variable is set.
Stored(r, name, v) == [r EXCEPT !.v = v, !.mem = IF name \in DOMAIN @ THEN [@ EXCEPT ![name] = v] ELSE @]

Evaluate(s, n, path, mem) ==
    LET of(i, m) == Evaluate(s, n.kids[i], Append(path, i), m)
        target == unwrap(n.kids[1])
        \* The result of the node itself.
        self(r, v, fault) == [r EXCEPT !.v = v, !.ok = fault \notin {"zero", "index"},
                                       !.log = {Event(path, v, fault)}]
        operate(r, a, b) == {self(r, c[1], c[2]) : c \in Computed(n, a, b)}
        short(a) == (n.op = "&&" /\ a = 0) \/ (n.op = "||" /\ a # 0)
        called(r) == LET kind == s.calls[n.op] IN
            CASE kind = "pure" -> {self(r, r.v, "")}
              [] kind = "none" -> {self(r, v, "") : v \in Surprises}
              [] kind = "writes" -> {self(Stored(r, untag(n.kids[1]).op, v), 0, "") : v \in Surprises}
              [] OTHER -> {self([r EXCEPT !.mem = [@ EXCEPT !["g"] = v]], 0, "") : v \in Surprises}
    IN  CASE n.k = "number" ->
                {Result(Cell(Numeral(n).magnitude), mem,
                        {Event(path, Cell(Numeral(n).magnitude), IF Numeral(n).magnitude < Modulus THEN "" ELSE "wrap")},
                        TRUE)}
          [] n.k = "name" -> {Result(v, mem, {Event(path, v, "")}, TRUE) : v \in Named(s, n.op, mem)}
          [] n.k = "par" \/ Tagged(n) -> Then(of(1, mem), LAMBDA r : {self(r, r.v, "")})
          [] n.k = "unary" /\ n.op \in Updates ->
                Then(of(1, mem), LAMBDA r :
                    {LET v == Cell(r.v + (IF n.op = "++" THEN 1 ELSE -1)) IN self(Stored(r, target.op, v), v, "")})
          [] n.k = "unary" ->
                Then(of(1, mem), LAMBDA r :
                    {CASE n.op = "-" -> self(r, Cell(-r.v), IF r.v = CellMin /\ ~Minimum(n.kids[1]) THEN "wrap" ELSE "")
                       [] n.op = "!" -> self(r, Truth(r.v = 0), "")
                       [] n.op = "~" -> self(r, -r.v - 1, "")
                       [] OTHER -> self(r, r.v, "")})
          [] n.k = "update" ->
                Then(of(1, mem), LAMBDA r :
                    {self(Stored(r, target.op, Cell(r.v + (IF n.op = "++" THEN 1 ELSE -1))), r.v, "")})
          [] n.k = "list" -> Then(of(1, mem), LAMBDA r : Then(of(2, r.mem), LAMBDA q : {self(q, q.v, "")}))
          [] n.k = "assign" ->
                Then(of(2, mem), LAMBDA r :
                    {IF c.ok THEN self(Stored(c, target.op, c.v), c.v, (CHOOSE e \in c.log : e.at = path).fault) ELSE c
                     : c \in IF n.op = "=" THEN {self(r, r.v, "")} ELSE operate(r, mem[target.op], r.v)})
          [] n.k = "ternary" ->
                Then(of(1, mem), LAMBDA r : Then(of(IF r.v # 0 THEN 2 ELSE 3, r.mem), LAMBDA q : {self(q, q.v, "")}))
          [] n.k = "binary" ->
                Then(of(1, mem), LAMBDA r :
                    IF short(r.v) THEN {self(r, Truth(n.op = "||"), "")}
                    ELSE Then(of(2, r.mem), LAMBDA q : operate(q, r.v, q.v)))
          [] n.k = "call" -> Then(of(1, mem), called)
          [] OTHER ->
                Then(of(1, mem), LAMBDA r :
                    IF r.v \in 0 .. Fixed(s, s.arrays[n.op]) - 1 THEN {self(r, r.mem[n.op], "")}
                    ELSE {self(r, 0, "index")})

\* The compiler knows every name of an expression, and its arrays have elements.
Sound(s, n) ==
    /\ n # NoNode
    /\ \A p \in Paths(n) : LET m == Sub(n, p) IN
        /\ m.k = "name" => m.op \in Declared(s) \cup DOMAIN Builtins
        /\ m.k = "call" => m.op \in DOMAIN s.calls
        /\ m.k = "subscript" => m.op \in DOMAIN s.arrays
Compiles(s) ==
    /\ \A i \in DOMAIN code : Sound(s, Compiled(i))
    /\ \A a \in DOMAIN s.arrays : Fixed(s, s.arrays[a]) > 0

\* The variables, with values the linter's knowledge allows, and the arrays, with the
\* value of all their elements; the one a switch is over
\* has a value of the enum.
Memories(s) ==
    LET names == s.locals \cup s.globals \cup DOMAIN s.arrays
        values(v) == CASE v = program.over -> EnumTruth(s)
                       [] \E k \in s.known : k[1] = v -> {k[2] : k \in {x \in s.known : x[1] = v}}
                       [] OTHER -> Surprises
    IN  {m \in [names -> UNION {values(v) : v \in names}] : \A v \in names : m[v] \in values(v)}

Start ==
    /\ phase = "start"
    /\ IF Compiles(scope)
       THEN phase' = "run" /\ memory' \in Memories(scope) /\ at' = 1
       ELSE phase' = "over" /\ UNCHANGED <<memory, at>>
    /\ UNCHANGED <<program, stack, expander, macros, code, facts, log, outcome>>

\* The clause a value selects.
Selected(s, v) ==
    {i \in DOMAIN program.clauses : \E j \in DOMAIN program.clauses[i] :
        LET pair == program.clauses[i][j] IN v \in Fixed(s, pair[1]) .. Fixed(s, pair[2])}

\* A line runs: a condition that holds ends a chain, as the last line does.
RunLine ==
    /\ phase = "run" /\ log = {}
    /\ \E r \in Evaluate(scope, Compiled(at), << >>, memory) :
        /\ memory' = r.mem
        /\ log' = r.log
        /\ outcome' = CASE ~r.ok -> "trap"
                        [] program.kind = "chain" /\ r.v # 0 -> "branch"
                        [] program.kind = "switch" /\ Selected(scope, r.v) # {} -> "clause"
                        [] at = Len(code) -> "end"
                        [] OTHER -> "none"
    /\ UNCHANGED <<program, phase, stack, expander, macros, code, facts, at>>

NextLine ==
    /\ phase = "run" /\ log # {}
    /\ IF outcome = "none" THEN at' = at + 1 /\ log' = {} /\ UNCHANGED phase
       ELSE phase' = "over" /\ UNCHANGED <<at, log>>
    /\ UNCHANGED <<program, stack, expander, macros, code, facts, memory, outcome>>

Over == phase = "over" /\ UNCHANGED vars

Next ==
    \/ \E takes \in BOOLEAN : Define(takes) \/ Undefine(takes) \/ Include(takes)
    \/ EndFile \/ Code \/ EndMain \/ Lint \/ Start \/ RunLine \/ NextLine \/ Over

Spec == Init /\ [][Next]_vars

-----------------------------------------------------------------------------
(* What the preprocessor promises *)

Left(i) == \E j \in DOMAIN code[i].expanded :
    Invocation(code[i].macros, SubSeq(code[i].expanded, j, Len(code[i].expanded))).what = "good"

\* A file whose expansion is complete has the macros of the compiler, and its lines
\* are the ones the compiler reads, unless an invocation is left in them: the result
\* of a macro does not make one with the tokens after it.
\* (internal/preprocess/expand.go, pkg/project/includes.go)
ExpansionIsTheCompilers ==
    phase = "lint" /\ expander["main"].complete =>
        /\ expander["main"].definitions = macros
        /\ \A i \in DOMAIN code : ~Left(i) => Texts(code[i].expanded) = Texts(code[i].compiled)

Increments(ts) == Cardinality({i \in DOMAIN ts : Is(ts[i], "++")})

\* Macros that unparenthesized-macro has nothing to say of keep their meaning in every
\* expression that compiles, and an argument with a side effect has it once where
\* macro-repeated-parameter has nothing to say of them either.
\* (unparenthesized_macro.go, macro_repeated_parameter.go)
QuietMacrosAreHygienic ==
    phase = "lint" /\ expander["main"].complete =>
        \A i \in DOMAIN code :
            /\ Tree(i) # NoNode /\ Compiled(i) # NoNode /\ QuietLine(i) /\ ~Left(i)
                => Strip(Compiled(i)) = Strip(Unfolded(code[i].macros, Tree(i)))
            /\ (\A m \in Used(code[i].macros, code[i].raw) :
                    LET macro == code[i].macros[m] IN
                    Parse(macro.body) # NoNode /\ Increments(macro.body) = 0 /\ Repeated(macro) = {})
               => Increments(code[i].compiled) <= Increments(code[i].raw)

\* Macros are expanded as by the compiler, and those that are not reported keep their
\* shape wherever they are used.
MacrosAreExpanded == ExpansionIsTheCompilers /\ QuietMacrosAreHygienic

\* The program a fix of redundant parentheses leaves has the same trees, where its
\* macros are quiet and no two marks become one.
\* (redundant_parentheses.go)
ParenthesesKeepTheTree ==
    phase = "start" =>
        \A i \in DOMAIN code : QuietLine(i) =>
            \A p \in facts[i].redundant :
                LET kept == TakeOut(code[i].raw, Removed(program.role, Tree(i), p)) IN
                Len(Lex(kept)) = Len(kept) =>
                    Strip(Parse(Compile(code[i].macros, kept))) = Strip(Compiled(i))

-----------------------------------------------------------------------------
(* What the rules promise of the running program *)

Ran == phase = "run" /\ log # {} /\ facts[at].aligned

\* What the linter says an expression is worth, it is worth.
\* (internal/semantic/eval.go, enums.go, internal/controlflow/values.go)
ConstantsHold ==
    Ran => \A e \in log : e.fault \notin {"zero", "index"} =>
                \A f \in facts[at].values : f[1] = e.at => f[2] = e.v

\* An expression whose value follows from the source, but for tags.
Certain(s, n) ==
    \A p \in Paths(n) : LET m == Sub(n, p) IN
        /\ m.k \in {"number", "name", "par", "unary", "binary", "ternary"}
        /\ m.k = "unary" => m.op \notin Updates \cup {"_:"}
        /\ m.k = "name" => m.op \in (Declared(s) \cup DOMAIN Builtins) \ (s.locals \cup s.globals \cup DOMAIN s.arrays)

Reported(fault) ==
    CASE fault = "zero" -> facts[at].zeros
      [] fault = "shift" -> facts[at].shifts
      [] fault = "index" -> facts[at].indexes
      [] OTHER -> facts[at].overflows

\* What a fault at a node comes from.
Cause(n, fault) ==
    CASE fault = "wrap" -> n
      [] fault = "index" -> n.kids[1]
      [] OTHER -> n.kids[2]

\* A division by zero, a shift or an index out of range and an overflow that is
\* reported happens when it is evaluated; one that follows from the source is
\* reported, or one in its operands is.
\* (constant_errors.go, constant_overflow.go)
ErrorsAreFound ==
    Ran => LET n == Tree(at) IN
        /\ \A fault \in {"zero", "shift", "index", "wrap"}, e \in log :
                e.at \in Reported(fault) => e.fault = fault
        /\ \A e \in log : e.fault # "" /\ e.at \in Paths(n) /\ Certain(scope, Cause(Sub(n, e.at), e.fault)) =>
                \E fault \in {"zero", "shift", "index", "wrap"}, p \in Paths(Sub(n, e.at)) :
                    e.at \o p \in Reported(fault)

\* What is said of values, and of what goes wrong with them, is what happens.
EvaluationIsTheMachines == ConstantsHold /\ ErrorsAreFound

Earlier(i) == \A j \in 1 .. i - 1 : Pure(scope, Tree(j))

\* A comparison said to be always true, or false, is; a condition said to duplicate an
\* earlier one never holds, if those before it leave things as they are; a statement
\* said to have no effect changes nothing.
\* (impossible_comparison.go, duplicate_condition.go, discarded_expression.go)
VerdictsHold ==
    [][RunLine /\ facts[at].aligned =>
        /\ \A f \in facts[at].impossible, e \in log' : e.at = f[1] => e.v = f[2]
        /\ facts[at].duplicate /\ Earlier(at) => outcome' # "branch"
        /\ facts[at].discarded /\ Used(code[at].macros, code[at].raw) = {} => memory' = memory]_vars

\* A switch over an enum that is not reported has a clause for every value of it, one
\* that is has none for the values it is said to lack; a case said to be a duplicate
\* is selected together with an earlier one.
\* (incomplete_enum_switch.go, constant_conditions.go)
CoveredSwitchMatches ==
    phase = "over" /\ program.kind = "switch" /\ log # {} =>
        /\ \A missing \in MissingCases(scope, program.clauses) :
                (outcome = "end") = (memory[program.over] \in missing)
        /\ \A d \in DuplicateCases(scope, program.clauses) :
                Fixed(scope, program.clauses[d[1]][d[2]][1]) = memory[program.over] =>
                    \E i \in 1 .. d[1], j \in 1 .. 3 :
                        /\ i < d[1] \/ j < d[2]
                        /\ j \in DOMAIN program.clauses[i]
                        /\ Fixed(scope, program.clauses[i][j][1]) = memory[program.over]
=============================================================================
