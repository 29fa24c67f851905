---------------------------- MODULE ControlFlow -----------------------------
(***************************************************************************)
(* The control flow of one function (internal/controlflow): blocks and     *)
(* edges built from its statements, what can be reached, the values and    *)
(* the aliases of its scalar locals.                                       *)
(*                                                                         *)
(* A function p is the sequence of its statements in source order, each    *)
(* with the statement it is part of ("up").  Statement 1 is the body.  A   *)
(* statement has a kind, a condition ("any", the constants "yes" and "no", *)
(* or a local, with neg its negation), a label, and what it does, in       *)
(* order: acts.  A for statement has its initializer in acts and its       *)
(* increment in post; a while or do statement has in post what its         *)
(* condition does.  A return of a value has the condition "yes".           *)
(* Inactive statements are not in p, and the statements of a conditional   *)
(* region stand in its place, which is how buildNode walks them.           *)
(*                                                                         *)
(* What a statement can do, to the local a.var:                            *)
(*   set, copy   an assignment of the constant, or of the local, a.arg     *)
(*   maybe       an assignment of a constant under && or in a ternary      *)
(*   bump        an increment                                              *)
(*   open        an assignment of a new resource handle                    *)
(*   call        passed to a function that leaves it ("none"), writes it   *)
(*               ("writes"), always sets it ("output") or is unknown       *)
(*   lend, close passed to a native that borrows or releases the handle    *)
(*   give        returned, or stored where the function has no hold of it  *)
(*   read        read in any other way                                     *)
(*   first, then a native, and one that requires it to be called before    *)
(*   ask         an argument of the function a.arg, one of Callees         *)
(*   recur       a call into the function's own cycle of calls, "sure" or  *)
(*               under a condition, "maybe"                                *)
(* and to a local array, a string:                                         *)
(*   format      built by format from the local a.arg, or a constant       *)
(*   append      another string appended to it by strcat                   *)
(*   raw, shift  the bytes a.arg copied into it by memcpy, from another    *)
(*               array or from itself                                      *)
(*   poke        an assignment of the constant a.arg to one of its cells   *)
(*   len, text   passed to strlen, and to a native that expects a string   *)
(* A declaration is a statement that sets its local, to zero at least; one *)
(* of an array is labelled "array".                                        *)
(***************************************************************************)
EXTENDS Naturals, Sequences, FiniteSets, SequencesExt

\* What the project and the API know of the name of a function: the variants of its
\* definition ("native", "pure", "impure", "writes" its argument, "unknown" with a
\* reference to it, or "other" than a function), whether any file declares it, whether
\* this file has its only definition, and what the API says of a native ("pure",
\* "leaves" or "writes" its argument, or "none").
CONSTANT Callees

Nodes(p) == DOMAIN p
Kids(p, n) == {m \in Nodes(p) : p[m].up = n}
OfKind(p, kinds) == {n \in Nodes(p) : p[n].kind \in kinds}

Loops == {"while", "for", "do"}

RECURSIVE Enclosing(_, _, _)
\* The nearest statement around n of one of these kinds, 0 if there is none.
Enclosing(p, n, kinds) ==
    LET u == p[n].up IN
    IF u = 0 \/ p[u].kind \in kinds THEN u ELSE Enclosing(p, u, kinds)

RECURSIVE Inside(_, _, _)
\* Statement n is m or a part of it.
Inside(p, n, m) == n = m \/ (n # 0 /\ p[n].up # 0 /\ Inside(p, p[n].up, m))

Variables(p) ==
    UNION {UNION {{a.var, IF a.op \in {"copy", "format"} THEN a.arg ELSE a.var} : a \in Range(p[n].acts \o p[n].post)} :
              n \in Nodes(p)} \ {""}

-----------------------------------------------------------------------------
(* Blocks and edges *)

Entry == <<0, "entry">>
Exit == <<0, "exit">>
In(n) == <<n, "in">>
After(n) == <<n, "after">>
Test(n) == <<n, "test">>

Blocks(p) ==
    {Entry, Exit} \cup {In(n) : n \in Nodes(p)}
    \cup {After(n) : n \in OfKind(p, Loops \cup {"switch"})}
    \cup {Test(n) : n \in OfKind(p, {"do"})}

BreakTo(p, n) == Enclosing(p, n, Loops \cup {"switch"})
ContinueTo(p, n) == Enclosing(p, n, Loops)

Labelled(p, name) == {m \in OfKind(p, {"label"}) : p[m].label = name}

\* A goto without its label, two labels of one name, a break outside of all loops.
Uncertain(p) ==
    \/ \E n \in OfKind(p, {"goto"}) : Labelled(p, p[n].label) = {}
    \/ \E n, m \in OfKind(p, {"label"}) : n # m /\ p[n].label = p[m].label
    \/ \E n \in OfKind(p, {"break"}) : BreakTo(p, n) = 0
    \/ \E n \in OfKind(p, {"continue"}) : ContinueTo(p, n) = 0

\* The blocks that control leaves statement n by, for each n.
Exits(p) ==
    LET exits[n \in Nodes(p)] ==
        LET kids == Kids(p, n) IN
        CASE p[n].kind \in {"block", "case", "default"} ->
                IF kids = {} THEN {In(n)} ELSE exits[Max(kids)]
          [] p[n].kind = "if" ->
                UNION {exits[m] : m \in kids}
                \cup (IF Cardinality(kids) = 1 THEN {In(n)} ELSE {})
          [] p[n].kind \in Loops \cup {"switch"} -> {After(n)}
          [] p[n].kind \in {"return", "goto", "break", "continue"} -> {}
          [] OTHER -> {In(n)}
    IN  exits

\* The blocks from which buildNode enters statement n.
Incoming(p, exits, n) ==
    LET u == p[n].up
        before == {m \in Kids(p, u) : m < n}
    IN  CASE u = 0 -> {Entry}
          [] p[u].kind = "block" /\ before # {} -> exits[Max(before)]
          [] p[u].kind \in {"while", "for"} /\ p[u].cond = "no" -> {}
          [] OTHER -> {In(u)}

\* A loop ends without asking its condition again (a plausible bug).
LoopEdges_NoBackEdge(p, exits, n) ==
    LET ask == IF p[n].kind = "do" THEN Test(n) ELSE In(n) IN
    {<<b, After(n)>> : b \in exits[Max(Kids(p, n))]}
    \cup {<<ask, After(n)>> : c \in {p[n].cond} \ {"yes"}}

\* From the body to the condition, from there on or, in a do loop, back: Incoming
\* has the way from the condition into the body of the others.
LoopEdges(p, exits, n) ==
    LET body == Max(Kids(p, n))
        ask == IF p[n].kind = "do" THEN Test(n) ELSE In(n)
    IN  {<<b, ask>> : b \in exits[body]}
        \cup {<<ask, After(n)>> : c \in {p[n].cond} \ {"yes"}}
        \cup {<<ask, In(body)>> : c \in {p[n].cond} \ IF p[n].kind = "do" THEN {"no"} ELSE {p[n].cond}}

\* The clauses of a switch, and the way past them unless one is a default.
SwitchEdges(p, exits, n) ==
    LET clauses == Kids(p, n) IN
    UNION {{<<b, After(n)>> : b \in exits[m]} : m \in clauses}
    \cup {<<In(n), After(n)>> : x \in {m \in {n} : \A k \in clauses : p[k].kind # "default"}}

\* The edges statement n adds besides those into it.
Jumps(p, exits, n) ==
    CASE p[n].kind \in Loops -> LoopEdges(p, exits, n)
      [] p[n].kind = "switch" -> SwitchEdges(p, exits, n)
      [] p[n].kind = "return" -> {<<In(n), Exit>>}
      [] p[n].kind = "goto" -> {<<In(n), In(m)>> : m \in Labelled(p, p[n].label)}
      [] p[n].kind = "break" -> {<<In(n), After(BreakTo(p, n))>>}
      [] p[n].kind = "continue" ->
            LET loop == ContinueTo(p, n) IN
            {<<In(n), IF p[loop].kind = "do" THEN Test(loop) ELSE In(loop)>>}
      [] OTHER -> {}

Edges(p) ==
    LET exits == Exits(p) IN
    {<<b, Exit>> : b \in exits[1]}
    \cup UNION {{<<b, In(n)>> : b \in Incoming(p, exits, n)} : n \in Nodes(p)}
    \cup UNION {Jumps(p, exits, n) : n \in Nodes(p)}

\* What lies behind a set of blocks, these included; a block in stop is not left.
RECURSIVE Behind(_, _, _)
Behind(edges, blocks, stop) ==
    LET more == {e[2] : e \in {f \in edges : f[1] \in blocks \ stop}} \ blocks IN
    IF more = {} THEN blocks ELSE Behind(edges, blocks \cup more, stop)

Successors(edges, b) == {e[2] : e \in {f \in edges : f[1] = b}}

markReachable(edges) == Behind(edges, {Entry}, {})

\* Model.Functions: the graph of a function, on its reachable blocks.
Build(p) ==
    LET edges == Edges(p)
        reach == markReachable(edges)
    IN  [edges |-> {e \in edges : e[1] \in reach},
         reach |-> IF Uncertain(p) THEN Blocks(p) ELSE reach,
         falls |-> Uncertain(p) \/ Exits(p)[1] \cap reach # {}]

-----------------------------------------------------------------------------
(* What holds on every path *)

\* The blocks reached with what has been computed for them, from start at the
\* entry: a block gets what all its predecessors so far agree on, until nothing
\* changes.  The order of the queue does not matter for what it ends with.
MustFlow(graph, start, Transfer(_, _)) ==
    LET RECURSIVE Settle(_)
        Settle(in) ==
            LET out == [b \in DOMAIN in |-> Transfer(b, in[b])]
                from(b) == {e[1] : e \in {f \in graph.edges : f[2] = b}} \cap DOMAIN in
                next == [b \in DOMAIN in \cup {e[2] : e \in {f \in graph.edges : f[1] \in DOMAIN in}} |->
                            IF b = Entry THEN start
                            ELSE {x \in UNION {out[q] : q \in from(b)} : \A q \in from(b) : x \in out[q]}]
            IN  IF next = in THEN in ELSE Settle(next)
    IN  Settle([b \in {Entry} |-> start])

\* What the statement of a block does, in source order.
Events(p, b) ==
    CASE b[2] = "in" -> p[b[1]].acts \o (IF p[b[1]].kind = "do" THEN << >> ELSE p[b[1]].post)
      [] b[2] = "test" -> p[b[1]].post
      [] OTHER -> << >>

-----------------------------------------------------------------------------
(* Values *)

InFor(p, b) == b[1] # 0 /\ p[b[1]].kind = "for"

\* Scalars declared by a statement of their own; parameters are not followed.
valueSymbols(p) ==
    {a.var : a \in UNION {Range(p[n].acts) : n \in {m \in OfKind(p, {"decl"}) : p[m].label # "array"}}}

\* resolveCallEffects: whether a function may write its argument, as far as is known.
\* One of a name that has a definition is one of its variants; without a definition
\* but with a declaration it is unknown; else the API may know it.
calleeMutates(name) ==
    LET c == Callees[name]
        functions == c.variants \ {"native", "other"}
    IN  IF functions # {} THEN functions \cap {"writes", "unknown"} # {}
        ELSE (c.variants = {} /\ c.declared) \/ c.api \in {"writes", "none"}

\* What a call does to the argument it gets: a callee whose effects are not known
\* or not complete may write every argument.
callMutates(a) ==
    \/ a.op = "call" /\ a.arg # "none"
    \/ a.op = "ask" /\ calleeMutates(a.arg)

\* applyValueEvents: an assignment that is only made under a condition counts as
\* one of a known value (a plausible bug).
applyValueEvent_Always(p, b, state, a) ==
    LET rest == {s \in state : s[1] # a.var} IN
    CASE a.var \notin valueSymbols(p) -> state
      [] a.op \in {"set", "maybe"} /\ ~InFor(p, b) -> rest \cup {<<a.var, a.arg>>}
      [] a.op = "copy" /\ ~InFor(p, b) ->
            rest \cup {<<a.var, s[2]>> : s \in {t \in state : t[1] = a.arg}}
      [] a.op \in {"set", "copy", "bump", "maybe", "open"} \/ callMutates(a) -> rest
      [] OTHER -> state

\* applyValueEvents, on the set of pairs of a local and its known value.  Within
\* the head of a for statement, and under a condition, an assignment only
\* invalidates.
applyValueEvent(p, b, state, a) ==
    LET rest == {s \in state : s[1] # a.var} IN
    CASE a.var \notin valueSymbols(p) -> state
      [] a.op = "set" /\ ~InFor(p, b) -> rest \cup {<<a.var, a.arg>>}
      [] a.op = "copy" /\ ~InFor(p, b) ->
            rest \cup {<<a.var, s[2]>> : s \in {t \in state : t[1] = a.arg}}
      [] a.op \in {"set", "copy", "bump", "maybe", "open"} \/ callMutates(a) -> rest
      [] OTHER -> state

propagateValues(p, graph) ==
    MustFlow(graph, {}, LAMBDA b, state :
        FoldLeft(LAMBDA s, a : applyValueEvent(p, b, s, a), state, Events(p, b)))

-----------------------------------------------------------------------------
(* Aliases *)

\* buildAliasFlow: whatever may write a local is an event of its block.
aliasEvent(a) == a.op \in {"set", "copy", "bump", "maybe", "open"} \/ callMutates(a)

\* applyAliasEvents, on the classes of locals that hold the same value, as a
\* relation; a write does not take the local out of its class (a plausible bug).
applyAliasEvent_Stay(state, a) ==
    IF a.op = "copy" /\ a.arg # a.var
    THEN state \cup UNION {{<<a.var, s[2]>>, <<s[2], a.var>>} : s \in {t \in state : t[1] = a.arg}}
    ELSE state

\* applyAliasEvents, on the classes of locals that hold the same value, as a
\* relation.  A write detaches the local (detachAlias), a copy joins it to the
\* class of its source unless that is itself; this also in the head of a for statement.
applyAliasEvent(state, a) ==
    LET rest == {s \in state : a.var \notin {s[1], s[2]}} \cup {<<a.var, a.var>>} IN
    IF a.op = "copy" /\ a.arg = a.var THEN state
    ELSE rest \cup UNION {{<<a.var, s[2]>>, <<s[2], a.var>>} :
                            s \in {t \in rest : a.op = "copy" /\ t[1] = a.arg}}

propagateAliases(p, graph) ==
    MustFlow(graph, {<<v, v>> : v \in Variables(p)}, LAMBDA b, state :
        FoldLeft(applyAliasEvent, state, SelectSeq(Events(p, b), aliasEvent)))
=============================================================================
