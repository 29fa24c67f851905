----------------------------- MODULE FlowRules ------------------------------
(***************************************************************************)
(* Rules that read the control flow of a function: unreachable-code,       *)
(* missing-return-value, infinite-loop, invariant-loop-condition,          *)
(* dead-write, redundant-initialization, possibly-uninitialized and        *)
(* required-call-order.  Each is the set of what it reports; none reports  *)
(* anything in a function whose control flow is uncertain.  Those after    *)
(* them, redundant-else, cyclomatic-complexity and npath-complexity, read  *)
(* the statements only.                                                    *)
(***************************************************************************)
EXTENDS ControlFlow

CONSTANT NPathLimit  \* where npath-complexity stops counting (10^9 in the code)

ASSUME NPathLimitAssumption == NPathLimit \in Nat \ {0}

Writes == {"set", "copy", "maybe", "bump", "open"}
Calls == {"call", "lend", "close", "give", "ask", "len", "text", "append", "shift"}

\* What is known of a call and its argument: it is read, an output, or unknown.
callArgumentEffect(a) ==
    CASE a.op = "call" -> CASE a.arg = "none" -> "read" [] a.arg = "output" -> "output" [] OTHER -> "unknown"
      [] a.op = "ask" -> IF calleeMutates(a.arg) THEN "unknown" ELSE "read"
      [] a.op = "give" -> "unknown"
      [] OTHER -> "read"

\* The locals an event reads; an argument known to be an output is not read.
Reads(a) ==
    CASE a.op \in {"copy", "format"} -> {a.arg} \ {""}
      [] callArgumentEffect(a) = "output" -> {}
      [] a.op \in Calls \cup {"bump", "read"} -> {a.var}
      [] OTHER -> {}

\* The local in the condition that block b evaluates.
Tested(p, b) ==
    IF b[1] # 0 /\ p[b[1]].kind \in {"if", "switch"} \cup Loops
       /\ b[2] = (IF p[b[1]].kind = "do" THEN "test" ELSE "in")
    THEN {p[b[1]].cond} \ {"any", "yes", "no"}
    ELSE {}

ReadsIn(p, b) == UNION {Reads(a) : a \in Range(Events(p, b))} \cup Tested(p, b)

Statement(p, n, ops) == Len(p[n].acts) = 1 /\ p[n].acts[1].op \in ops

-----------------------------------------------------------------------------
(* unreachable-code and missing-return-value *)

\* unreachableVisit: the first of the statements that cannot be reached, and
\* nothing within it or after it.
unreachable(p, graph) ==
    LET gone == {n \in Nodes(p) : In(n) \notin graph.reach}
        previous(n) == {m \in Kids(p, p[n].up) : m < n}
    IN  {n \in gone :
            /\ p[n].kind # "empty"
            /\ \A m \in gone : m # n => ~Inside(p, n, m)
            /\ previous(n) # {} => Max(previous(n)) \notin gone}

\* Bare returns, and 0 for the end of the body, once a value is returned.
missingReturns(p, graph) ==
    LET returns == {n \in OfKind(p, {"return"}) : In(n) \in graph.reach} IN
    IF \E n \in returns : p[n].cond = "yes"
    THEN {n \in returns : p[n].cond # "yes"} \cup {n \in {0} : graph.falls}
    ELSE {}

-----------------------------------------------------------------------------
(* infinite-loop and invariant-loop-condition *)

\* A reference to the local that may change it: a write, or an argument.
invariantReferenceMayChange(a, v) ==
    (a.op \in Writes \cup Calls /\ a.var = v) \/ (a.op = "format" /\ v \in {a.var, a.arg})

\* The body of the loop, or the increment of a for, writes the local or passes it on.
invariantLoopChangesSymbol(p, n, v) ==
    LET inside == {m \in Nodes(p) : m # n /\ Inside(p, m, n)}
        events == UNION {Range(p[m].acts \o p[m].post) : m \in inside}
                  \cup (IF p[n].kind = "for" THEN Range(p[n].post) ELSE {})
    IN  \E a \in events : invariantReferenceMayChange(a, v)

\* Loops that test a local which they do not change.
invariantLoops(p) ==
    {n \in OfKind(p, Loops) :
        p[n].cond \in valueSymbols(p) /\ ~invariantLoopChangesSymbol(p, n, p[n].cond)}

\* ctx.Eval of the condition: what is known of the local where it is tested.
conditionValues(p, values, n) ==
    LET block == IF p[n].kind = "do" THEN Test(n) ELSE In(n)
        state == IF block \in DOMAIN values
                 THEN FoldLeft(LAMBDA s, a : applyValueEvent(p, block, s, a), values[block],
                               IF p[n].kind = "for" THEN p[n].acts ELSE p[n].post)
                 ELSE {}
    IN  {s[2] : s \in {t \in state : t[1] = p[n].cond}}

\* The constant a local is declared with, if what stands between its declaration
\* and the loop only reads it.
infiniteInitialValues(p, n, v) ==
    {p[d].acts[1].arg : d \in {m \in OfKind(p, {"decl"}) :
        /\ m < n /\ p[m].acts[1].var = v /\ p[m].acts[1].op = "set"
        /\ \A k \in m + 1 .. n - 1 : \A a \in Range(p[k].acts \o p[k].post) :
                ~invariantReferenceMayChange(a, v)}}

infiniteLoopCondition(p, values, n) ==
    LET known == conditionValues(p, values, n)
        initial == infiniteInitialValues(p, n, p[n].cond)
    IN  \/ p[n].cond = "yes"
        \/ /\ n \in invariantLoops(p)
           /\ \E value \in IF known # {} THEN known ELSE initial : (value # 0) # p[n].neg

infiniteLoopHasNoExit(p, graph, n) ==
    \A m \in {k \in Nodes(p) : k # n /\ Inside(p, k, n)} :
        /\ p[m].kind # "goto"
        /\ In(m) \in graph.reach =>
              p[m].kind # "return" /\ ~(p[m].kind = "break" /\ BreakTo(p, m) = n)

infiniteLoops(p, graph, values) ==
    {n \in OfKind(p, Loops) :
        In(n) \in graph.reach /\ infiniteLoopCondition(p, values, n)
        /\ infiniteLoopHasNoExit(p, graph, n)}

-----------------------------------------------------------------------------
(* dead-write and redundant-initialization *)

\* Assignments that are statements of their own.
deadWriteCandidates(p, graph) ==
    {n \in OfKind(p, {"expr"}) :
        /\ Statement(p, n, {"set", "copy", "open"})
        /\ p[n].acts[1].var \in valueSymbols(p)
        /\ In(n) \in graph.reach}

\* A reference in a block is a use, unless it is the one its candidate writes.
deadWriteUses(p, candidates, b) ==
    CASE b[2] = "in" /\ b[1] \in candidates \cup OfKind(p, {"decl"}) -> ReadsIn(p, b)
      [] OTHER -> ReadsIn(p, b) \cup {a.var : a \in Range(Events(p, b))}

definitions(p, candidates, v) == {In(n) : n \in {m \in candidates : p[m].acts[1].var = v}}

\* A write ends the search on all paths (a plausible bug).
valueReadAfter_AnyWrite(p, graph, candidates, n, v) ==
    LET after == Behind(graph.edges, Successors(graph.edges, In(n)), definitions(p, candidates, v)) IN
    /\ definitions(p, candidates, v) \cap after = {}
    /\ \E b \in after : v \in deadWriteUses(p, candidates, b)

\* The local is used on a path from n before another candidate writes it.
valueReadAfter(p, graph, candidates, n, v) ==
    \E b \in Behind(graph.edges, Successors(graph.edges, In(n)), definitions(p, candidates, v)) :
        v \in deadWriteUses(p, candidates, b)

deadWrites(p, graph) ==
    LET candidates == deadWriteCandidates(p, graph) IN
    {n \in candidates : ~valueReadAfter(p, graph, candidates, n, p[n].acts[1].var)}

\* Pure initial values that something overwrites and nothing reads before.
redundantInitializations(p, graph) ==
    LET candidates == deadWriteCandidates(p, graph) IN
    {n \in OfKind(p, {"decl"}) :
        LET v == p[n].acts[1].var IN
        /\ p[n].label # "bare" /\ Statement(p, n, {"set", "copy"})
        /\ In(n) \in graph.reach
        /\ Behind(graph.edges, Successors(graph.edges, In(n)), {}) \cap definitions(p, candidates, v) # {}
        /\ ~valueReadAfter(p, graph, candidates, n, v)}

-----------------------------------------------------------------------------
(* possibly-uninitialized and required-call-order *)

\* Locals that are never in the head of a for and of which no call may take a hold.
initializationCandidates(p) ==
    {v \in valueSymbols(p) :
        /\ \A n \in OfKind(p, {"for"}) :
              v # p[n].cond /\ v \notin UNION {Reads(a) \cup {a.var} : a \in Range(p[n].acts \o p[n].post)}
        /\ \A n \in Nodes(p) : \A a \in Range(p[n].acts \o p[n].post) :
              a.var = v => callArgumentEffect(a) # "unknown"}

\* Whatever a local is passed to assigns it (a plausible bug).
applyAssignmentEvent_AnyCall(p, n, state, a) ==
    IF p[n].kind = "decl" /\ p[n].label = "bare" THEN state \ {a.var}
    ELSE IF a.op \in Writes \cup {"call"} THEN state \cup {a.var}
    ELSE state

\* A declaration without an initializer is labelled "bare": it resets.
applyAssignmentEvent(p, n, state, a) ==
    IF p[n].kind = "decl" /\ p[n].label = "bare" THEN state \ {a.var}
    ELSE IF a.op \in Writes \/ callArgumentEffect(a) = "output" THEN state \cup {a.var}
    ELSE state

definiteAssignment(p, graph) ==
    MustFlow(graph, {}, LAMBDA b, state :
        FoldLeft(LAMBDA s, a : applyAssignmentEvent(p, b[1], s, a), state, Events(p, b)))

\* Pairs of a statement and a local that it reads on some path before it is assigned.
possiblyUninitialized(p, graph) ==
    LET assigned == definiteAssignment(p, graph) IN
    {<<b[1], v>> : b \in DOMAIN assigned, v \in initializationCandidates(p)}
    \cap UNION {{<<b[1], v>> : v \in ReadsIn(p, b) \ assigned[b]} : b \in DOMAIN assigned}

definitePriorCalls(p, graph) ==
    MustFlow(graph, {}, LAMBDA b, state :
        state \cup {a.op : a \in {e \in Range(Events(p, b)) : e.op = "first" /\ ~InFor(p, b)}})

requiredCallOrder(p, graph) ==
    LET called == definitePriorCalls(p, graph) IN
    {n \in OfKind(p, {"expr"}) :
        In(n) \in DOMAIN called /\ Statement(p, n, {"then"}) /\ "first" \notin called[In(n)]}

-----------------------------------------------------------------------------
(* redundant-else *)

\* redundantElseTransfers, of an if with one arm that does (a plausible bug).
transfers_OneArm(p) ==
    LET jumps[n \in Nodes(p)] ==
        \/ p[n].kind \in {"return", "break", "continue", "goto"}
        \/ p[n].kind \in {"block", "if"} /\ \E m \in Kids(p, n) : jumps[m]
    IN  jumps

\* redundantElseTransfers: the statements that go elsewhere by a jump, in a block the
\* first of them; a label behind it is overlooked.
transfers(p) ==
    LET jumps[n \in Nodes(p)] ==
        LET kids == Kids(p, n) IN
        \/ p[n].kind \in {"return", "break", "continue", "goto"}
        \/ p[n].kind = "block" /\ \E m \in kids : jumps[m]
        \/ p[n].kind = "if" /\ Cardinality(kids) = 2 /\ \A m \in kids : jumps[m]
    IN  jumps

\* RedundantElse.Run: the if statements whose else is to be taken out.
redundantElses(p) ==
    {n \in OfKind(p, {"if"}) : Cardinality(Kids(p, n)) = 2 /\ transfers(p)[Min(Kids(p, n))]}

-----------------------------------------------------------------------------
(* cyclomatic-complexity and npath-complexity *)

\* npathExpressionDecisions: the ternaries, && and || in what a statement does.
Decisions(p, n) ==
    LET does == p[n].acts \o p[n].post IN
    Cardinality({i \in DOMAIN does : does[i].op = "maybe" \/ (does[i].op = "recur" /\ does[i].arg = "maybe")})

\* cyclomaticDecisionCount, and one.
cyclomatic(p) ==
    1 + Cardinality(OfKind(p, Loops \cup {"if", "case"})) + FoldLeft(LAMBDA sum, n : sum + Decisions(p, n), 0, [n \in Nodes(p) |-> n])

npathAdd(left, right) == IF left >= NPathLimit - right THEN NPathLimit ELSE left + right

\* Saturates by a rounded quotient, for some products below the limit too.
npathMultiply(left, right) ==
    IF left = 0 \/ right = 0 THEN 0
    ELSE IF left >= NPathLimit \div right THEN NPathLimit
    ELSE left * right

\* npathSwitch: no way past the clauses (a plausible bug).
npathSwitch_Clauses(p, n, paths) ==
    FoldLeft(LAMBDA sum, m : npathAdd(sum, paths[m]), Decisions(p, n), SetToSortSeq(Kids(p, n), <))

\* npathSwitch.
npathSwitch(p, n, paths) ==
    LET sum == FoldLeft(LAMBDA s, m : npathAdd(s, paths[m]), 0, SetToSortSeq(Kids(p, n), <))
        past == IF \E m \in Kids(p, n) : p[m].kind = "default" THEN sum ELSE npathAdd(sum, 1)
        all == npathAdd(past, Decisions(p, n))
    IN  IF all = 0 THEN 1 ELSE all

\* npathNode: the ways through each statement, of which a loop has one more than its
\* body, and one that jumps as many as one that does not.
npath(p) ==
    LET paths[n \in Nodes(p)] ==
        LET kids == Kids(p, n) IN
        CASE p[n].kind \in {"block", "case", "default"} ->
                FoldLeft(LAMBDA product, m : npathMultiply(product, paths[m]), 1, SetToSortSeq(kids, <))
          [] p[n].kind = "if" ->
                npathAdd(npathAdd(paths[Min(kids)], IF Cardinality(kids) = 2 THEN paths[Max(kids)] ELSE 1), Decisions(p, n))
          [] p[n].kind \in Loops -> npathAdd(npathAdd(paths[Max(kids)], 1), Decisions(p, n))
          [] p[n].kind = "switch" -> npathSwitch(p, n, paths)
          [] OTHER -> npathAdd(1, Decisions(p, n))
    IN  paths[1]
=============================================================================
