----------------------------- MODULE LoopRules ------------------------------
(***************************************************************************)
(* Rules about work that is done again or for nothing, and about locals    *)
(* that never change: loop-invariant-call, repeated-strlen-in-loop,        *)
(* repeated-format-work, string-concatenation-loop, overwritten-copy       *)
(* (pkg/rules/performance), unsafe-string-termination,                     *)
(* unconditional-recursion and prefer-const.  All but one of them go by    *)
(* the text: where a reference stands, in which loop and in which block.   *)
(***************************************************************************)
EXTENDS ResourceRules

\* A place of a call: a statement and which of its events.
Places(p) ==
    UNION {{[node |-> n, part |-> "acts", i |-> i] : i \in DOMAIN p[n].acts}
           \cup {[node |-> n, part |-> "post", i |-> i] : i \in DOMAIN p[n].post} : n \in Nodes(p)}

EventAt(p, s) == IF s.part = "post" THEN p[s.node].post[s.i] ELSE p[s.node].acts[s.i]

\* Locals an event refers to.
References(a) == (Reads(a) \cup {a.var}) \ {""}

\* What passes its local to a function that is not known to be pure.
PassesOn == (Calls \ {"ask", "len", "give"}) \cup {"format", "raw"}

Strings(p) == {p[n].acts[1].var : n \in {m \in OfKind(p, {"decl"}) : p[m].label = "array"}}

\* The local is not declared within statement n; a parameter is declared nowhere.
DeclaredOutside(p, v, n) == \A d \in OfKind(p, {"decl"}) : p[d].acts[1].var = v => ~Inside(p, d, n)

-----------------------------------------------------------------------------
(* Loops and their calls *)

EnclosingLoop(p, s) == IF p[s.node].kind \in Loops THEN s.node ELSE Enclosing(p, s.node, Loops)

\* The calls that have this loop as the nearest.
LoopCalls(p, loop, ops) ==
    {s \in Places(p) : EnclosingLoop(p, s) = loop /\ EventAt(p, s).op \in ops}

\* The condition, the body or the increment of the loop: what may run again.
RepeatedRegion(p, loop, s) ==
    Inside(p, s.node, loop) /\ ~(s.node = loop /\ s.part = "acts")

\* One definition of the name that is pure makes it so (a plausible bug).
PureCall_AnyVariant(name) ==
    LET c == Callees[name] IN
    ("pure" \in c.variants) \/ (c.api = "pure")

\* Every variant that is not a native is a pure function of the project; without
\* one, a name that the project does not declare otherwise may be a pure native.
PureCall(name) ==
    LET c == Callees[name] IN
    /\ c.variants \subseteq {"native", "pure"}
    /\ ("pure" \in c.variants) \/ (c.api = "pure" /\ ~(c.variants = {} /\ c.declared))

\* Something in the loop, besides statement n, writes the local or hands it on.
loopInvariantSymbolChanges(p, loop, v, n) ==
    \E s \in Places(p) :
        LET a == EventAt(p, s) IN
        /\ s.node # n /\ RepeatedRegion(p, loop, s) /\ v \in References(a)
        /\ \/ a.op \in Writes \cup PassesOn
           \/ (a.op = "ask" /\ ~PureCall(a.arg))

\* A constant, or a scalar from outside the loop that does not change in it.
loopInvariantExpression(p, loop, v, n) ==
    v # "" => /\ v \notin Strings(p) /\ DeclaredOutside(p, v, loop)
              /\ ~loopInvariantSymbolChanges(p, loop, v, n)

loopInvariantCalls(p) ==
    UNION {{s \in LoopCalls(p, loop, {"ask"}) :
               /\ RepeatedRegion(p, loop, s)
               /\ PureCall(EventAt(p, s).arg)
               /\ loopInvariantExpression(p, loop, EventAt(p, s).var, 0)} : loop \in OfKind(p, Loops)}

\* Only the body of the loop is looked at (a plausible bug).
stringMayChange_Body(p, loop, s) ==
    \E t \in Places(p) \ {s} :
        LET a == EventAt(p, t) IN
        Inside(p, t.node, loop) /\ t.node # loop /\ EventAt(p, s).var \in References(a) /\ a.op # "read"

\* Anything in the loop but the call s refers to its string, except to read a cell.
stringMayChange(p, loop, s) ==
    \E t \in Places(p) \ {s} :
        LET a == EventAt(p, t) IN
        Inside(p, t.node, loop) /\ EventAt(p, s).var \in References(a) /\ a.op # "read"

\* The condition of a while or do statement measures the string each time.
repeatedStrlens(p) ==
    UNION {{s \in LoopCalls(p, loop, {"len"}) :
               s.node = loop /\ s.part = "post" /\ ~stringMayChange(p, loop, s)} :
           loop \in OfKind(p, {"while", "do"})}

-----------------------------------------------------------------------------
(* Strings built in loops *)

\* The call is a statement of its own.
Direct(p, n, ops) == p[n].kind = "expr" /\ Statement(p, n, ops)

BlockOf(p, n) == Enclosing(p, n, {"block"})
LoopBody(p, loop) == Max(Kids(p, loop))

Controls == Loops \cup {"if", "switch", "return", "goto", "break", "continue", "label"}

\* Only loops and jumps count (a plausible bug).
controlBetween_Jumps(p, block, n, m) ==
    \E k \in OfKind(p, Controls \ {"if", "switch"}) : n < k /\ k < m /\ p[k].up = block

\* A statement that may take control elsewhere, after n and before m in this block.
controlBetween(p, block, n, m) ==
    \E k \in OfKind(p, Controls) : n < k /\ k < m /\ BlockOf(p, k) = block

\* Called in each round of the loop, on a string from before it that is used after it.
LoopStatement(p, loop, n, ops) ==
    /\ Direct(p, n, ops) /\ Enclosing(p, n, Loops) = loop
    /\ LET body == LoopBody(p, loop) IN
       p[body].kind = "block" /\ BlockOf(p, n) = body /\ ~controlBetween(p, body, 0, n)
    /\ LET v == p[n].acts[1].var IN
       /\ v \in Strings(p)
       /\ \E d \in OfKind(p, {"decl"}) : d < loop /\ p[d].acts[1].var = v
       /\ \E s \in Places(p) : /\ s.node > loop /\ ~Inside(p, s.node, loop)
                               /\ v \in References(EventAt(p, s))

\* Nothing else in the loop refers to the string.
repeatedFormatBufferAccessed(p, loop, n) ==
    \E s \in Places(p) : s.node # n /\ Inside(p, s.node, loop)
                         /\ p[n].acts[1].var \in References(EventAt(p, s))

repeatedFormats(p) ==
    {s \in Places(p) : \E loop \in OfKind(p, Loops) :
        /\ LoopStatement(p, loop, s.node, {"format"})
        /\ loopInvariantExpression(p, loop, p[s.node].acts[1].arg, s.node)
        /\ ~repeatedFormatBufferAccessed(p, loop, s.node)}

\* Another reference than by strcat, in the block of the loop itself.
stringConcatenationBufferAccessed(p, loop, v) ==
    \E s \in Places(p) :
        /\ Inside(p, s.node, loop) /\ v \in References(EventAt(p, s))
        /\ ~(Direct(p, s.node, {"append"}) /\ Enclosing(p, s.node, Loops) = loop
             /\ BlockOf(p, s.node) = LoopBody(p, loop))

\* Reported once for a loop and a string.
stringConcatenations(p) ==
    LET found(loop, v) ==
            {n \in Nodes(p) : /\ LoopStatement(p, loop, n, {"append"}) /\ p[n].acts[1].var = v
                              /\ ~stringConcatenationBufferAccessed(p, loop, v)}
    IN  {Min(found(pair[1], pair[2])) : pair \in {q \in OfKind(p, Loops) \X Strings(p) : found(q[1], q[2]) # {}}}

-----------------------------------------------------------------------------
(* Copies into strings *)

\* The cells of a range of bytes.
Cells(range) == IF range = "all" THEN {1, 2} ELSE IF range = "low" THEN {1} ELSE {2}

Copies(p) == {n \in Nodes(p) : Direct(p, n, {"raw", "shift"}) /\ p[n].acts[1].var \in Strings(p)}

\* Only the block of the copies is looked at (a plausible bug).
overwrittenCopyAccessBetween_Block(p, n, m) ==
    \E s \in Places(p) : /\ n < s.node /\ s.node < m /\ BlockOf(p, s.node) = BlockOf(p, n)
                         /\ p[n].acts[1].var \in References(EventAt(p, s))

overwrittenCopyAccessBetween(p, n, m) ==
    \E s \in Places(p) : n < s.node /\ s.node < m /\ p[n].acts[1].var \in References(EventAt(p, s))

\* Only the next copy into the string in the same block can overwrite one.
overwrittenCopies(p) ==
    {n \in Copies(p) :
        LET later == {m \in Copies(p) : m > n /\ BlockOf(p, m) = BlockOf(p, n)
                                        /\ p[m].acts[1].var = p[n].acts[1].var}
            m == Min(later)
        IN  /\ later # {}
            /\ ~overwrittenCopyAccessBetween(p, n, m)
            /\ ~controlBetween(p, BlockOf(p, n), n, m)
            /\ p[m].acts[1].op # "shift"
            /\ Cells(p[n].acts[1].arg) \subseteq Cells(p[m].acts[1].arg)}

\* An end of string is looked for in the whole function (a plausible bug).
unsafeStringTerminated_AnyBlock(p, n, m) ==
    \E s \in Places(p) :
        LET a == EventAt(p, s) IN
        /\ n < s.node /\ s.node < m /\ a.var = p[n].acts[1].var
        /\ \/ a.op = "format"
           \/ (a.op = "poke" /\ a.arg = 0)

\* Between n and m, in their block, the string is ended or written with its end.
unsafeStringTerminated(p, n, m) ==
    \E s \in Places(p) :
        LET a == EventAt(p, s) IN
        /\ n < s.node /\ s.node < m /\ BlockOf(p, s.node) = BlockOf(p, n)
        /\ a.var = p[n].acts[1].var
        /\ \/ a.op = "format"
           \/ (a.op = "poke" /\ a.arg = 0)

\* The first use as a string behind the copy n in its block.
unsafeStringNextUse(p, n) ==
    {m \in Nodes(p) :
        /\ m > n /\ BlockOf(p, m) = BlockOf(p, n)
        /\ \E a \in Range(p[m].acts \o p[m].post) :
              a.op \in {"text", "len", "append"} /\ a.var = p[n].acts[1].var}

unterminatedCopies(p) ==
    {n \in Nodes(p) :
        /\ Statement(p, n, {"raw", "shift"}) /\ p[n].acts[1].var \in Strings(p)
        /\ unsafeStringNextUse(p, n) # {}
        /\ ~unsafeStringTerminated(p, n, Min(unsafeStringNextUse(p, n)))}

-----------------------------------------------------------------------------
(* unconditional-recursion and prefer-const *)

\* The reachable blocks with a call into the cycle that is made whenever they run.
RecursiveBlocks(p, graph) ==
    {b \in graph.reach : \E a \in Range(Events(p, b)) : a.op = "recur" /\ a.arg = "sure"}

\* It is enough that the end is not reached (a plausible bug).
allPathsReachRecursiveCall_Somewhere(graph, targets) ==
    Behind(graph.edges, {Entry}, {}) \cap targets # {}

\* No way from the entry ends, or goes in a circle, without a recursive call.
allPathsReachRecursiveCall(graph, targets) ==
    LET free == Behind(graph.edges, {Entry}, targets) \ targets
        onwards(b) == Behind(graph.edges, Successors(graph.edges, b) \ targets, targets)
    IN  \A b \in free : b # Exit /\ Successors(graph.edges, b) # {} /\ b \notin onwards(b)

\* The function does not return without a call into its own cycle; the cycle is
\* reported if this is so of each of its functions.
unconditionalComponent(p, graph) ==
    LET targets == RecursiveBlocks(p, graph) IN
    targets # {} /\ allPathsReachRecursiveCall(graph, targets)

\* An argument can be changed only by what is known to change it (a plausible bug).
preferConstParameterReadOnly_Known(a) ==
    ~(a.op = "call" /\ a.arg \in {"writes", "output"})

\* An argument of a function that is known and takes it by value.
preferConstParameterReadOnly(a) ==
    CASE a.op = "call" -> a.arg = "none"
      [] a.op = "ask" ->
            LET c == Callees[a.arg] IN
            IF c.api # "none" THEN c.api # "writes"
            ELSE c.here /\ c.variants \cap {"writes", "unknown", "other"} = {}
      [] OTHER -> TRUE

\* Declarations of locals that are initialized, read, and never written or handed to
\* something that may write them.
preferConst(p) ==
    {d \in OfKind(p, {"decl"}) :
        LET v == p[d].acts[1].var
            refs == {EventAt(p, s) : s \in {t \in Places(p) : t.node # d /\ v \in References(EventAt(p, t))}}
        IN  /\ p[d].label \notin {"bare", "array"}
            /\ \A a \in refs : ~(a.op \in Writes /\ a.var = v) /\ preferConstParameterReadOnly(a)
            /\ (refs # {}) \/ \E n \in Nodes(p) : p[n].cond = v}
=============================================================================
