--------------------------- MODULE ResourceRules ----------------------------
(***************************************************************************)
(* Rules about resource handles: unreleased-resource-handle,               *)
(* read-after-release and overwritten-resource-handle                      *)
(* (pkg/rules/openmp).  They follow one handle at a time, the one that a   *)
(* statement opens, through every reference to a local that is certain to  *)
(* hold what the opened local holds.                                       *)
(***************************************************************************)
EXTENDS FlowRules

\* resourceAcquisitions: statements that open a handle and keep it in a local.
resourceAcquisitions(p, graph) ==
    {n \in OfKind(p, {"expr", "decl"}) : Statement(p, n, {"open"}) /\ In(n) \in graph.reach}

\* Model.Aliased: the classes of locals before the i-th event of block b.
aliasesBefore(p, aliases, b, i) ==
    FoldLeft(applyAliasEvent, aliases[b], SelectSeq(SubSeq(Events(p, b), 1, i - 1), aliasEvent))

\* The locals an event refers to; the name in a declaration is not a reference.
Refers(p, b, e) ==
    Reads(e) \cup (IF p[b[1]].kind = "decl" THEN {} ELSE {e.var})

\* What block b does, with the condition it evaluates as the last of its events.
EventsAndTest(p, b) ==
    Events(p, b) \o SetToSeq({[op |-> "test", var |-> w, arg |-> ""] : w \in Tested(p, b)})

\* resourceReferencesByBlock: the events of block b with the locals that they refer
\* to and that are sure to hold what v holds there.
resourceReferencesByBlock(p, aliases, v, b) ==
    LET events == EventsAndTest(p, b) IN
    UNION {{[e |-> events[i], w |-> w, i |-> i] : w \in {x \in Refers(p, b, events[i]) :
               x = v \/ <<v, x>> \in aliasesBefore(p, aliases, b, i)}} : i \in DOMAIN events}

\* resourceOwnershipEscapes, taking a condition on the handle for a use that may keep
\* it (a plausible bug).
resourceOwnershipEscapes_Tested(v, r) ==
    \/ r.e.op \in Writes /\ r.w = r.e.var
       /\ ~(r.e.op = "copy" /\ r.e.arg = v)
    \/ r.e.op \in {"call", "give", "close", "test"}

\* resourceOwnershipEscapes: the local is written, unless by a copy of v; or what it
\* holds goes to the releaser, to a caller, or to a function that may keep it.  A
\* copy into another local is followed.
resourceOwnershipEscapes(v, r) ==
    \/ r.e.op \in Writes /\ r.w = r.e.var
       /\ ~(r.e.op = "copy" /\ r.e.arg = v)
    \/ r.e.op \in {"call", "give", "close"}

Escapes(p, aliases, v, b) ==
    \E r \in resourceReferencesByBlock(p, aliases, v, b) : resourceOwnershipEscapes(v, r)

-----------------------------------------------------------------------------
(* unreleased-resource-handle *)

\* The edges out of "if (v)" and "if (!v)" that are taken when v holds no handle.
resourceUnacquiredGuardEdges(p, graph, v) ==
    {e \in graph.edges : \E n \in OfKind(p, {"if"}) :
        /\ p[n].cond = v /\ e[1] = In(n)
        /\ IF p[n].neg THEN e[2] = In(Min(Kids(p, n))) ELSE e[2] # In(Min(Kids(p, n)))}

resourceReachesExit(p, graph, aliases, n) ==
    LET v == p[n].acts[1].var
        open == graph.edges \ resourceUnacquiredGuardEdges(p, graph, v)
        stop == {b \in graph.reach \ {In(n)} : Escapes(p, aliases, v, b)}
    IN  Exit \in Behind(open, {In(n)}, stop)

unreleased(p, graph, aliases) ==
    {n \in resourceAcquisitions(p, graph) : resourceReachesExit(p, graph, aliases, n)}

-----------------------------------------------------------------------------
(* read-after-release *)

\* The blocks behind n in which the handle n opens is released, looking no further
\* on a path than the first place where it is released or escapes.
resourceReleases(p, graph, aliases, n) ==
    LET v == p[n].acts[1].var
        stop == {b \in graph.reach \ {In(n)} : Escapes(p, aliases, v, b)}
    IN  {b \in Behind(graph.edges, {In(n)}, stop) \ {In(n)} :
            \E r \in resourceReferencesByBlock(p, aliases, v, b) : r.e.op = "close"}

\* The search ends at the first use on a path (a plausible bug).
resourceUsesAfterRelease_First(p, graph, aliases, v, b) ==
    LET refs(q) == resourceReferencesByBlock(p, aliases, v, q)
        writes(r) == r.e.op \in Writes \ {"bump"} /\ r.w = r.e.var
        behind == Behind(graph.edges, {b}, {q \in graph.reach \ {b} : refs(q) # {}})
    IN  {q \in behind \ {b} :
            \E r \in refs(q) : ~writes(r) /\ \A t \in refs(q) : writes(t) => t.i > r.i}

\* The blocks that refer to v after its release in block b, up to where it is
\* written; a second release in the block of the first is not looked for.
resourceUsesAfterRelease(p, graph, aliases, v, b) ==
    LET refs(q) == resourceReferencesByBlock(p, aliases, v, q)
        writes(r) == r.e.op \in Writes \ {"bump"} /\ r.w = r.e.var
        behind == Behind(graph.edges, {b}, {q \in graph.reach \ {b} : \E r \in refs(q) : writes(r)})
    IN  {q \in behind \ {b} :
            \E r \in refs(q) : ~writes(r) /\ \A t \in refs(q) : writes(t) => t.i > r.i}

usesAfterRelease(p, graph, aliases) ==
    UNION {LET v == p[n].acts[1].var IN
           UNION {resourceUsesAfterRelease(p, graph, aliases, v, b) :
                     b \in resourceReleases(p, graph, aliases, n)} :
           n \in resourceAcquisitions(p, graph)}

-----------------------------------------------------------------------------
(* overwritten-resource-handle *)

\* Openings of a local that come after an earlier one, in the source and on a path
\* on which the first handle did not escape.
overwritten(p, graph, aliases) ==
    LET opened == resourceAcquisitions(p, graph)
        v(n) == p[n].acts[1].var
        stop(n) == {b \in graph.reach \ {In(n)} : Escapes(p, aliases, v(n), b)}
    IN  {n \in opened : \E m \in opened :
            m < n /\ v(m) = v(n) /\ In(n) \in Behind(graph.edges, {In(m)}, stop(m))}
=============================================================================
