---------------------------- MODULE FunctionRun -----------------------------
(***************************************************************************)
(* A function runs, statement by statement, as the language has it; and    *)
(* what the linter says of it, which is computed once.  The control of the *)
(* run is found by following the statements and not the edges of           *)
(* ControlFlow, so that the two can disagree.                              *)
(*                                                                         *)
(* Conditions that are not constants or locals may be true or false each   *)
(* time, functions may do what their events allow, and opening may fail.   *)
(***************************************************************************)
EXTENDS LoopRules

CONSTANT Programs  \* functions, as ControlFlow describes them

VARIABLES
    prog,     \* the function
    flow,     \* what is found out about it
    at,       \* where it is: a statement, a phase of it, the next of its events
    mem,      \* what the locals hold
    writer,   \* the statement that wrote a local last, 0 before the first
    assigned, \* the locals assigned since they were last declared
    called,   \* the natives and the cycle of calls that have been called
    handles,  \* what became of the handles: open, closed, and known to others
    work      \* what calls in loops were given, which are due, what is in strings

vars == <<prog, flow, at, mem, writer, assigned, called, handles, work>>

\* The value of a handle: not zero, and no other value is one.
Handle(n) == 10 + n
Lost == 9
Numbers == 0 .. 2

Analysis(p) ==
    LET graph == Build(p)
        values == propagateValues(p, graph)
        aliases == propagateAliases(p, graph)
    IN  [reach |-> graph.reach, falls |-> graph.falls,
         values |-> values, aliases |-> aliases,
         gone |-> unreachable(p, graph),
         missing |-> missingReturns(p, graph),
         infinite |-> infiniteLoops(p, graph, values),
         invariant |-> invariantLoops(p),
         dropped |-> deadWrites(p, graph) \cup redundantInitializations(p, graph),
         candidates |-> initializationCandidates(p),
         early |-> possiblyUninitialized(p, graph),
         order |-> requiredCallOrder(p, graph),
         leaks |-> unreleased(p, graph, aliases),
         late |-> usesAfterRelease(p, graph, aliases),
         lost |-> overwritten(p, graph, aliases),
         steady |-> loopInvariantCalls(p) \cup repeatedStrlens(p) \cup repeatedFormats(p),
         rounds |-> {s.node : s \in repeatedFormats(p)} \cup stringConcatenations(p),
         replaced |-> overwrittenCopies(p),
         open |-> unterminatedCopies(p),
         recurs |-> unconditionalComponent(p, graph),
         constant |-> preferConst(p),
         elseless |-> redundantElses(p),
         decisions |-> cyclomatic(p),
         paths |-> npath(p)]

Locals == Variables(prog)

Init ==
    /\ prog \in {p \in Programs : ~Uncertain(p)}
    /\ flow = Analysis(prog)
    /\ at = [node |-> 1, phase |-> "do", i |-> 1]
    /\ mem = [v \in Locals |-> 0]
    /\ writer = [v \in Locals |-> 0]
    /\ assigned = {}
    /\ called = {}
    /\ work = [args |-> {}, due |-> {}, cells |-> {}, raw |-> {}]
    /\ handles = [open |-> {}, closed |-> {}, shared |-> {}]

-----------------------------------------------------------------------------
(* Where the run goes *)

Do(n) == [node |-> n, phase |-> "do", i |-> 1]
Ask(n) == [node |-> n, phase |-> "test", i |-> 1]
Post(n) == [node |-> n, phase |-> "post", i |-> 1]
Done == [node |-> 0, phase |-> "done", i |-> 1]

\* From the body of a loop to its increment or what its condition does, and on.
Round(n) == IF prog[n].post = << >> THEN Ask(n) ELSE Post(n)

RECURSIVE Resume(_)
\* Where the run goes after statement n.
Resume(n) ==
    LET u == prog[n].up
        later == {m \in Kids(prog, u) : m > n}
    IN  CASE u = 0 -> Done
          [] prog[u].kind = "block" /\ later # {} -> Do(Min(later))
          [] prog[u].kind \in Loops -> Round(u)
          [] OTHER -> Resume(u)

Continue(n) == Round(ContinueTo(prog, n))

\* A break, as a continue, is for the nearest loop: Pawn has no break out of a
\* switch, whose clauses end by themselves.
Clauses(n) == {m \in Kids(prog, n) : prog[m].kind \in {"case", "default"}}

\* Where the run may go once statement n has done what it does.
After_(n) ==
    CASE prog[n].kind \in {"block", "case", "default", "do"} ->
            {IF Kids(prog, n) = {} THEN Resume(n) ELSE Do(Min(Kids(prog, n)))}
      [] prog[n].kind \in {"if", "for"} -> {Ask(n)}
      [] prog[n].kind = "while" -> {Round(n)}
      [] prog[n].kind = "switch" ->
            {Do(m) : m \in Clauses(n)}
            \cup {Resume(n) : x \in {y \in {n} : \A m \in Clauses(n) : prog[m].kind # "default"}}
      [] prog[n].kind = "return" -> {Done}
      [] prog[n].kind = "goto" -> {Do(m) : m \in Labelled(prog, prog[n].label)}
      [] prog[n].kind = "break" -> {Resume(ContinueTo(prog, n))}
      [] prog[n].kind = "continue" -> {Continue(n)}
      [] OTHER -> {Resume(n)}

-----------------------------------------------------------------------------
(* Events *)

Sequence == IF at.phase = "post" THEN prog[at.node].post ELSE prog[at.node].acts
Pending == at.phase \in {"do", "post"} /\ at.i <= Len(Sequence)
Event == Sequence[at.i]

Holds(v, n) == mem[v] = Handle(n)
Held(v) == {n \in Nodes(prog) : Holds(v, n)}

Skip == UNCHANGED <<mem, writer, assigned>>

Put(v, values) ==
    /\ \E x \in values : mem' = [mem EXCEPT ![v] = x]
    /\ writer' = [writer EXCEPT ![v] = at.node]
    /\ assigned' = IF prog[at.node].kind = "decl" /\ prog[at.node].label = "bare"
                   THEN assigned \ {v} ELSE assigned \cup {v}

Share(v) == handles' = [handles EXCEPT !.shared = @ \cup Held(v)]

\* Assignments.
Assign(a) ==
    /\ \/ a.op = "set" /\ Put(a.var, {a.arg}) /\ UNCHANGED handles
       \/ a.op = "copy" /\ Put(a.var, {mem[a.arg]}) /\ Share(a.arg)
       \/ a.op = "bump" /\ UNCHANGED handles
             /\ Put(a.var, {IF mem[a.var] \in Numbers THEN (mem[a.var] + 1) % 3 ELSE Lost})
       \/ a.op = "maybe" /\ Put(a.var, {a.arg}) /\ UNCHANGED handles
       \* Not made after all: it counts as assigned, and the handle as known elsewhere.
       \/ a.op = "maybe" /\ assigned' = assigned \cup {a.var}
             /\ Share(a.var) /\ UNCHANGED <<mem, writer>>
    /\ UNCHANGED called

\* A new handle, or none.  Locals that hold the one opened here before lose it.
Open(a) ==
    /\ a.op = "open"
    /\ \/ LET n == at.node IN
          /\ mem' = [v \in Locals |-> IF v = a.var THEN Handle(n)
                                      ELSE IF Holds(v, n) THEN Lost ELSE mem[v]]
          /\ handles' = [open |-> handles.open \cup {n}, closed |-> {c \in handles.closed : c[1] # n},
                         shared |-> handles.shared \ {n}]
          /\ writer' = [writer EXCEPT ![a.var] = n]
          /\ assigned' = assigned \cup {a.var}
       \/ Put(a.var, {0}) /\ UNCHANGED handles
    /\ UNCHANGED called

\* One of the variants of a function is compiled; one that nobody here defines may be
\* defined anywhere.
MayWrite(name) ==
    LET c == Callees[name] IN
    \/ c.variants \cap {"writes", "unknown"} # {}
    \/ c.variants \subseteq {"native"} /\ (c.api \in {"writes", "none"} \/ (c.variants = {} /\ c.declared))

\* Calls that take a local.
Pass(a) ==
    /\ \/ /\ a.op = "call"
          /\ Share(a.var)
          /\ CASE a.arg = "none" -> Skip
               [] a.arg = "output" -> Put(a.var, {0, 1})
               [] OTHER -> Skip \/ Put(a.var, {0, 1})
       \/ a.op = "close" /\ Skip
             /\ handles' = [handles EXCEPT !.open = @ \ Held(a.var), !.closed = @ \cup {<<n, at.node>> : n \in Held(a.var)}]
       \/ a.op = "give" /\ Skip /\ Share(a.var)
       \/ a.op \in {"lend", "read"} /\ Skip /\ UNCHANGED handles
       \/ a.op = "ask" /\ Skip /\ UNCHANGED handles
       \/ a.op = "ask" /\ a.var # "" /\ MayWrite(a.arg) /\ Put(a.var, {0, 1}) /\ UNCHANGED handles
    /\ UNCHANGED called

\* The natives that are required in an order, and the functions that call this one.
Order(a) ==
    /\ a.op \in {"first", "then", "recur"}
    /\ \/ called' = called \cup {a.op}
       \/ a.op = "recur" /\ a.arg = "maybe" /\ UNCHANGED called
    /\ Skip /\ UNCHANGED handles

\* Strings, by a number that stands for what is in them.
Text(a) ==
    /\ \/ a.op = "blank" /\ Put(a.var, {0})
       \/ a.op = "format" /\ Put(a.var, {IF a.arg = "" THEN 1 ELSE mem[a.arg]})
       \/ a.op = "append" /\ Put(a.var, {(mem[a.var] + 1) % 3})
       \/ a.op = "raw" /\ Put(a.var, {1, 2})
       \/ a.op = "poke" /\ Put(a.var, {a.arg})
       \/ a.op \in {"shift", "len", "text"} /\ Skip
    /\ UNCHANGED <<called, handles>>

-----------------------------------------------------------------------------
(* Steps *)

Site == [node |-> at.node, part |-> IF at.phase = "post" THEN "post" ELSE "acts", i |-> at.i]

\* What a call in a loop depends on.
Given(a) == IF a.op = "format" THEN IF a.arg = "" THEN 1 ELSE mem[a.arg]
            ELSE IF a.var = "" THEN 0 ELSE mem[a.var]

\* A raw copy leaves a string without an end and fills some of its cells.
Noted(a) ==
    [args |-> work.args \cup {<<s, Given(a)>> : s \in {Site} \cap flow.steady},
     due |-> work.due \ {at.node},
     cells |-> CASE a.op \in {"raw", "shift"} ->
                       {c \in work.cells : c[1] # a.var \/ c[2] \notin Cells(a.arg)}
                       \cup {<<a.var, x, at.node>> : x \in Cells(a.arg)}
                 [] a.op = "format" -> {c \in work.cells : c[1] # a.var}
                 [] OTHER -> work.cells,
     raw |-> CASE a.op \in {"raw", "shift"} -> {r \in work.raw : r[1] # a.var} \cup {<<a.var, at.node>>}
               [] (a.op = "format") \/ (a.op = "poke" /\ a.arg = 0) -> {r \in work.raw : r[1] # a.var}
               [] OTHER -> work.raw]

Act ==
    /\ Pending
    /\ Assign(Event) \/ Open(Event) \/ Pass(Event) \/ Order(Event) \/ Text(Event)
    /\ at' = [at EXCEPT !.i = @ + 1]
    /\ work' = Noted(Event)
    /\ UNCHANGED <<prog, flow>>

\* A loop that is left is forgotten; with its body starts what each round has to do.
Arrived(place) ==
    LET within(loop) == Inside(prog, place.node, loop) IN
    [work EXCEPT !.args = {x \in @ : within(EnclosingLoop(prog, x[1]))},
                 !.due = {n \in @ : within(Enclosing(prog, n, Loops))}
                         \cup {n \in flow.rounds : place = Do(LoopBody(prog, Enclosing(prog, n, Loops)))}]

Go(places) ==
    /\ at' \in places
    /\ work' = Arrived(at')
    /\ UNCHANGED <<prog, flow, mem, writer, assigned, called, handles>>

Leave == at.phase = "do" /\ ~Pending /\ Go(After_(at.node))

Again == at.phase = "post" /\ ~Pending /\ Go({Ask(at.node)})

\* What the condition of statement n may be.
Truth(n) ==
    LET c == prog[n].cond IN
    CASE c = "any" -> BOOLEAN
      [] c = "yes" -> {TRUE}
      [] c = "no" -> {FALSE}
      [] OTHER -> {(mem[c] # 0) # prog[n].neg}

Chosen(n, truth) ==
    LET kids == Kids(prog, n) IN
    IF prog[n].kind = "if"
    THEN IF truth THEN Do(Min(kids))
         ELSE IF Cardinality(kids) = 2 THEN Do(Max(kids)) ELSE Resume(n)
    ELSE IF truth THEN Do(Max(kids)) ELSE Resume(n)

Decide == at.phase = "test" /\ Go({Chosen(at.node, truth) : truth \in Truth(at.node)})

Next == Act \/ Leave \/ Again \/ Decide

Spec == Init /\ [][Next]_vars

-----------------------------------------------------------------------------
Here == IF at.phase = "done" THEN Exit
        ELSE IF at.phase # "do" /\ prog[at.node].kind = "do" THEN Test(at.node)
        ELSE In(at.node)

\* No jump stands in a block that is itself only a statement of a block.
NoHiddenJumps ==
    \A n \in OfKind(prog, {"return", "goto", "break", "continue"}), b \in OfKind(prog, {"block"}) :
        prog[b].up # 0 /\ prog[prog[b].up].kind = "block" => ~Inside(prog, n, b)

\* The locals the run is about to read, for certain.
Reading ==
    IF Pending THEN Reads(Event)
    ELSE IF at.phase = "test" THEN {prog[at.node].cond} \cap Locals ELSE {}

\* What is known before the next event of the block, statically.
Known == FoldLeft(LAMBDA s, a : applyValueEvent(prog, Here, s, a), flow.values[Here],
                  SubSeq(Events(prog, Here), 1, IF at.phase = "post" THEN Len(prog[at.node].acts) + at.i - 1
                                                ELSE IF at.phase = "test"
                                                THEN IF prog[at.node].kind = "for" THEN Len(prog[at.node].acts)
                                                     ELSE Len(Events(prog, Here))
                                                ELSE at.i - 1))

\* A run is only ever where the linter says that the function can get to: it calls
\* no statement unreachable that runs (Build, markReachable, unreachable_code.go).
RunsOnlyReachable ==
    /\ Here \in flow.reach
    /\ at.phase = "done" => Exit \in flow.reach
    /\ at.phase # "done" => \A n \in flow.gone : ~Inside(prog, at.node, n)

\* The increment of a for statement writes the local, which its condition overlooks:
\* it is in the same block, and behind the condition in the text.
Incremented(v) ==
    at.phase = "test" /\ prog[at.node].kind = "for"
    /\ \E a \in Range(prog[at.node].post) : a.var = v

\* A local that is known to hold a value holds it, whatever way the run came, but in
\* the condition of a for statement that increments it (propagateValues,
\* applyValueEvents).
KnownValuesHold ==
    at.phase \in {"do", "test"} => \A s \in Known : Incremented(s[1]) \/ mem[s[1]] = s[2]

\* Two locals that are known to hold the same do, in functions that copy no local in
\* the head of a for statement (propagateAliases, applyAliasEvents).
AliasesHoldOutsideFor ==
    (at.phase = "do" /\ at.i = 1
        /\ \A n \in OfKind(prog, {"for"}) : \A a \in Range(prog[n].acts \o prog[n].post) : a.op # "copy")
    => \A s \in flow.aliases[Here] : {s[1], s[2]} \subseteq Locals => mem[s[1]] = mem[s[2]]

\* A function that is reported to recurse unconditionally does not return without
\* having called itself, unless the call is in the increment of a for statement
\* (allPathsReachRecursiveCall, Function.Block).
RecursionsRecur ==
    (at.phase = "done" /\ flow.recurs
        /\ \A n \in OfKind(prog, {"for"}) : \A a \in Range(prog[n].post) : a.op # "recur")
    => "recur" \in called

\* Where the run may go next, once the statement it is at has done what it does.
Ways == CASE at.phase = "test" -> {Chosen(at.node, truth) : truth \in Truth(at.node)}
          [] at.phase = "do" /\ ~Pending -> After_(at.node)
          [] OTHER -> {}

\* An else that is to be taken out has no effect: control leaves the statement before
\* it by a jump only, unless a label stands in it (redundant_else.go).
ElsesAreRedundant ==
    \A n \in flow.elseless :
        LET before == Min(Kids(prog, n)) IN
        (/\ at.phase # "done" /\ Inside(prog, at.node, before)
         /\ prog[at.node].kind \notin {"return", "break", "continue", "goto"}
         /\ \A m \in OfKind(prog, {"label"}) : ~Inside(prog, m, before))
        => \A place \in Ways : Inside(prog, place.node, before)

\* The ways through the control flow from block b to the exit that meet no block twice.
RECURSIVE WaysThrough(_, _, _)
WaysThrough(edges, b, met) ==
    IF b = Exit THEN 1
    ELSE FoldLeft(LAMBDA sum, c : sum + WaysThrough(edges, c, met \cup {b}), 0,
                  SetToSeq(Successors(edges, b) \ (met \cup {b})))

\* The complexities that are counted in the statements are those of the control flow.
\* If all of it can be reached, cyclomatic-complexity is the number of its edges less
\* that of its blocks, and two.  npath-complexity is not less than the ways through it,
\* up to the limit; without jumps, loops and decisions in expressions, and below the
\* limit, it is their number (cyclomatic_complexity.go, npath_complexity.go).
ComplexitiesAgree ==
    at = Do(1) =>
        LET graph == Build(prog)
            ways == WaysThrough(graph.edges, Entry, {})
            plain == \A n \in Nodes(prog) : Decisions(prog, n) = 0
        IN  /\ (plain /\ graph.reach = Blocks(prog) /\ \A n \in OfKind(prog, Loops) : prog[n].cond \notin {"yes", "no"})
               => flow.decisions = Cardinality(graph.edges) + 2 - Cardinality(graph.reach)
            /\ flow.paths <= NPathLimit /\ (flow.paths = NPathLimit \/ ways <= flow.paths)
            /\ (plain /\ flow.paths < NPathLimit
                   /\ OfKind(prog, Loops \cup {"return", "goto", "break", "continue"}) = {})
               => flow.paths = ways

\* What the control flow, or a count of it, says of where a run gets to, and of what it
\* then finds.
FlowIsSound ==
    /\ RunsOnlyReachable /\ KnownValuesHold /\ AliasesHoldOutsideFor /\ RecursionsRecur
    /\ ElsesAreRedundant /\ ComplexitiesAgree

\* What is read was never written by an assignment that is reported as dead, nor by
\* an initial value that is reported as redundant (dead_write.go,
\* redundant_initialization.go).
DroppedValuesAreDead ==
    \A v \in Reading : writer[v] \notin flow.dropped

\* Whoever reads a local that was not assigned, or calls a native before the one it
\* requires, is reported: a definite answer holds on every path
\* (definiteAssignment, definitePriorCalls).
EarlyUsesAreReported ==
    /\ \A v \in (Reading \cap flow.candidates) \ assigned : <<at.node, v>> \in flow.early
    /\ Pending /\ Event.op = "then" /\ "first" \notin called /\ prog[at.node].kind = "expr"
            /\ Len(Sequence) = 1
       => at.node \in flow.order

\* What is read of a string is not what a copy left there that is reported as
\* overwritten (overwritten_copy.go), if no block between copies hides a jump.
ReplacedCopiesAreDead ==
    NoHiddenJumps => \A c \in work.cells : c[1] \in Reading => c[3] \notin flow.replaced

\* A string that a copy left without an end, and that is used as one further down in
\* the same block, with no statement of control in between, is reported
\* (unsafe_string_termination.go).
OpenStringsAreReported ==
    \A r \in work.raw :
        (/\ Pending /\ Event.op \in {"text", "len", "append"} /\ Event.var = r[1]
         /\ at.node > r[2] /\ BlockOf(prog, at.node) = BlockOf(prog, r[2])
         /\ ~controlBetween(prog, BlockOf(prog, r[2]), r[2], at.node))
        => r[2] \in flow.open

\* A local that could be const is written by its declaration only, if no function is
\* called that the API and another file know by one name (prefer_const.go).
ConstantsStay ==
    (\A s \in Places(prog) : EventAt(prog, s).op = "ask" =>
        LET c == Callees[EventAt(prog, s).arg] IN ~(c.declared /\ c.variants = {} /\ c.api # "none"))
    => \A d \in flow.constant : writer[prog[d].acts[1].var] \in {0, d}

\* Writes are tracked forward and back: none that is read is dropped, what is read
\* without one is reported, and where none is seen there is none.
WritesAreTracked ==
    DroppedValuesAreDead /\ EarlyUsesAreReported /\ ReplacedCopiesAreDead
    /\ OpenStringsAreReported /\ ConstantsStay

\* A call that is reported to be repeated for nothing gets the same each time until
\* its loop is left: what it depends on does not change, whatever the rest of the
\* loop does (loop_invariant_call.go, repeated_strlen.go, repeated_format_work.go).
SteadyCallsAgree ==
    Pending => \A x \in work.args : x[1] = Site => x[2] = Given(Event)

\* A statement that is reported for what it does in every round of a loop does it in
\* every round, if no block before it hides a jump (repeated_format_work.go,
\* string_concatenation_loop.go).
EveryRoundWorks ==
    NoHiddenJumps => \A n \in work.due :
        at.phase \in {"post", "test"} => at.node # Enclosing(prog, n, Loops)

\* Work is repeated where that is said, and to no effect.
RepeatedWorkIsSteady == SteadyCallsAgree /\ EveryRoundWorks

\* A handle that only the local it was opened into ever held.
Own(n) == n \notin handles.shared
          /\ Statement(prog, n, {"open"}) /\ prog[n].kind \in {"expr", "decl"}
Keeps(n) == Own(n) /\ Holds(prog[n].acts[1].var, n)

\* A handle that is still open at the end, in the local that it was opened into and
\* that nobody else knows, is reported where it was opened; one that is lost to a
\* later opening, there, also in or behind a branch and after a call that it was lent
\* to, as ReplaceFile and valid.pwn:16 of testdata/rules/overwritten-resource-handle
\* are (unreleased_resource_handle.go, overwritten_resource_handle.go).
LossesAreReported ==
    \A n \in handles.open : Keeps(n) =>
        /\ at.phase = "done" => n \in flow.leaks
        /\ Pending /\ Event.op = "open" /\ Event.var = prog[n].acts[1].var
               /\ prog[at.node].kind \in {"expr", "decl"} /\ Len(Sequence) = 1 /\ n < at.node
           => at.node \in flow.lost

\* overwritten_resource_handle.go, Explanation: "The rule reports only two direct
\* acquisitions connected by one linear control-flow path with no intervening
\* reference".  What resourceReachesAcquisition follows are all paths, and it stops at
\* references by which the handle escapes only, as the tests expect: this is not true
\* of it, and no run claims it.
OverwritesAreLinear ==
    Pending /\ at.node \in flow.lost =>
        LET edges == Build(prog).edges
            v == prog[at.node].acts[1].var
            branches == {b \in flow.reach : Cardinality({e \in edges : e[1] = b}) > 1}
            uses == {b \in flow.reach : resourceReferencesByBlock(prog, flow.aliases, v, b) # {}}
        IN  \E m \in 1 .. at.node - 1 :
                /\ Statement(prog, m, {"open"}) /\ prog[m].acts[1].var = v
                /\ In(at.node) \in Behind(edges, {In(m)}, (branches \cup uses) \ {In(m)})

\* A released handle that its local still holds, and that nobody else knows, is not
\* used but where that is reported; a second release by the statement of the first
\* is not reported (read_after_release.go).
UsesAfterReleaseAreReported ==
    \A c \in handles.closed :
        (Keeps(c[1]) /\ prog[c[1]].acts[1].var \in Reading /\ <<c[1], at.node>> \notin handles.closed)
        => Here \in flow.late

\* Handles are followed to the end: none is lost, and none used too late, unreported.
HandlesAreFollowed == LossesAreReported /\ UsesAfterReleaseAreReported
=============================================================================
