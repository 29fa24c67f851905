------------------------------ MODULE CallRun -------------------------------
(***************************************************************************)
(* The analyses of calls at work on a program, side by side: the effects   *)
(* of its functions, and then the taint of their values.  What the program *)
(* really does is worked out by running each function every way it can go, *)
(* as Pawn runs it, to a bounded depth of calls.                           *)
(***************************************************************************)
EXTENDS TaintAnalysis

CONSTANTS
    Programs,  \* the programs to analyse
    Depth      \* how deep calls go when a program runs

ASSUME DepthAssumption == Depth \in Nat

VARIABLES
    p,        \* the program
    effects,  \* what is known of what each function does
    queue,    \* the functions whose effects are to be merged
    t,        \* the taint analysis
    phase     \* what is under way: "effects", "taint" or "done"

vars == <<p, effects, queue, t, phase>>

Init ==
    /\ p \in Programs
    /\ effects = [f \in Funcs(p) |-> directFunctionEffects(p, f)]
    /\ queue = InOrder(p)
    /\ t = newTaintAnalyzer(p)
    /\ phase = "effects"

\* buildFunctionEffects: the head of the queue; its callers again if it changed.
MergeEffects ==
    /\ phase = "effects" /\ queue # << >>
    /\ LET f == Head(queue)
           merged == mergeFunctionEffects(p, effects, f)
       IN  /\ effects' = [effects EXCEPT ![f] = merged]
           /\ queue' = IF merged = effects[f] THEN Tail(queue)
                       ELSE Requeue(Tail(queue), callers(p, f))
    /\ UNCHANGED <<p, t, phase>>

EffectsReady ==
    /\ phase = "effects" /\ queue = << >>
    /\ phase' = "taint"
    /\ UNCHANGED <<p, effects, queue, t>>

\* propagate: the callers of a function that were queued together come in any order.
Propagate ==
    /\ phase = "taint" /\ t.queue # << >>
    /\ \E f \in Head(t.queue) : t' = analyze(p, Dequeue(t, f), f, FALSE)
    /\ UNCHANGED <<p, effects, queue, phase>>

\* collect: every function once more, for the findings.
Collect ==
    /\ phase = "taint" /\ t.queue = << >>
    /\ t' = FoldLeft(LAMBDA u, f : analyze(p, u, f, TRUE), t, InOrder(p))
    /\ phase' = "done"
    /\ UNCHANGED <<p, effects, queue>>

Next == MergeEffects \/ EffectsReady \/ Propagate \/ Collect

Spec == Init /\ [][Next]_vars

-----------------------------------------------------------------------------
(* What the program does.  A cell of memory holds the labels of its value; *)
(* cells 1 and 2 are g and h, and cells 3 and 4 are what a caller passes   *)
(* by reference to the function that is run first.  A run knows its cells, *)
(* what reached a sink, and the cells that were read and written; an       *)
(* activation knows the cells of its names and the result of its last call.*)

GlobalCell(name) == IF name = "g" THEN 1 ELSE 2

Fresh(run, labels) == [run EXCEPT !.mem = Append(@, labels)]

CellOf(act, name) == IF name \in Globals THEN GlobalCell(name) ELSE act.cells[name]

ValueOf(run, act, name) ==
    CASE name = "" -> {} [] name = "@" -> act.result [] OTHER -> run.mem[CellOf(act, name)]

ReadBy(act, names) == {CellOf(act, name) : name \in names \ {"", "@"}}

Store(run, act, name, labels) ==
    IF name = "" THEN run
    ELSE [run EXCEPT !.mem[CellOf(act, name)] = labels, !.wrote = @ \cup {CellOf(act, name)}]

\* What a native does to its arguments: it writes to one of them at most, and whether
\* a writable array keeps its value is its own affair.
NativeWrites(run, act, e) ==
    LET kinds == nativeParameters(e.fn)
        others(k) == UNION {ValueOf(run, act, e.args[j]) : j \in DOMAIN e.args \ {k}}
        writes(k) ==
            CASE kinds[k] = "taint" -> {Store(run, act, e.args[k], {"S"})}
              [] kinds[k] = "buffer" -> {Store(run, act, e.args[k], others(k))}
              [] kinds[k] = "output" -> {Store(run, act, e.args[k], {})}
              [] OTHER -> {run, Store(run, act, e.args[k], {})}
        written == {k \in DOMAIN e.args : kinds[k] \in {"taint", "buffer", "output", "array"}}
    IN  IF written = {} THEN {run} ELSE UNION {writes(k) : k \in written}

\* A literal or a result that is passed by reference, and every value, gets a cell
\* of its own.
Enter(q, f, run, args) ==
    LET places == 1 .. Len(q[f].params)
        pass(s, k) ==
            IF q[f].params[k] # "value" /\ args[k].cell # 0
            THEN [s EXCEPT !.cells = @ @@ (Params[k] :> args[k].cell)]
            ELSE [run |-> Fresh(s.run, args[k].labels),
                  cells |-> s.cells @@ (Params[k] :> Len(s.run.mem) + 1)]
        passed == FoldLeft(pass, [run |-> run, cells |-> << >>], [k \in places |-> k])
        n == Len(passed.run.mem)
    IN  [run |-> Fresh(Fresh(passed.run, {}), {}),
         act |-> [cells |-> passed.cells @@ ("x" :> n + 1) @@ ("y" :> n + 2),
                  result |-> {}, value |-> {}, over |-> FALSE]]

\* Every way the body of f can run, each with the run and the value it returns.
RECURSIVE Runs(_, _, _, _, _)
Runs(q, f, run, args, depth) ==
    LET call(r, a, e) ==
            LET arg(k) ==
                    IF k \in DOMAIN e.args
                    THEN [labels |-> ValueOf(r, a, e.args[k]),
                          cell |-> IF e.args[k] \in {"", "@"} \/ e.op # "call"
                                   THEN 0 ELSE CellOf(a, e.args[k])]
                    ELSE [labels |-> {}, cell |-> 0]
                below == Runs(q, e.fn, r, <<arg(1), arg(2)>>, depth - 1)
            IN  {[run |-> Store(b.run, a, e.to, b.value),
                  act |-> [a EXCEPT !.result = b.value]] : b \in below}
        native(r, a, e) ==
            LET hits == {<<f, e.at, k, label>> : <<k, label>> \in
                            {kl \in (DOMAIN e.args) \X {"S", "T"} :
                                /\ nativeParameters(e.fn)[kl[1]] = "sink"
                                /\ kl[2] \in ValueOf(r, a, e.args[kl[1]])}}
                hit == [r EXCEPT !.hits = @ \cup hits]
            IN  {[run |-> Store(w, a, e.to, {}), act |-> [a EXCEPT !.result = {}]] :
                    w \in NativeWrites(hit, a, e)}
        read(r, a, e) == [r EXCEPT !.read = @ \cup ReadBy(a, Range(e.args))]
        does(r, a, e) ==
            LET value == UNION {ValueOf(r, a, name) : name \in Range(e.args)} IN
            CASE e.op = "set" -> {[run |-> Store(r, a, e.to, value), act |-> a]}
              [] e.op \in {"add", "bump"} ->
                   {[run |-> Store(r, a, e.to, value \cup ValueOf(r, a, e.to)), act |-> a]}
              [] e.op = "return" -> {[run |-> r, act |-> [a EXCEPT !.value = value, !.over = TRUE]]}
              [] e.fn = "unknown" -> {[run |-> r, act |-> [a EXCEPT !.result = {}]]}
              [] e.fn \in Natives -> native(r, a, e)
              [] OTHER -> call(r, a, e)
        step(states, i) ==
            LET e == q[f].body[i] @@ [at |-> i] IN
            UNION {IF s.act.over THEN {s}
                   ELSE does(read(s.run, s.act, e), s.act, e) \cup (IF e.when THEN {s} ELSE {}) :
                       s \in states}
        ends == FoldLeft(step, {Enter(q, f, run, args)}, [i \in DOMAIN q[f].body |-> i])
    IN  IF depth = 0 THEN {[run |-> run, value |-> {}]}
        ELSE {[run |-> s.run, value |-> s.act.value] : s \in ends}

\* The runs of f alone, with the labels of its first parameter.
RunsOf(q, f, labels) ==
    Runs(q, f, [mem |-> <<{}, {}, labels, {}>>, hits |-> {}, read |-> {}, wrote |-> {}],
         <<[labels |-> labels, cell |-> 3], [labels |-> {}, cell |-> 4]>>, Depth)

-----------------------------------------------------------------------------
(* Properties *)

\* findRecursiveComponents: the cycles it reports are exactly the sets of functions
\* that call each other again, whatever the order of the functions and of their calls.
RecursionIsFound == phase = "done" => findRecursiveComponents(p) = Recursion(p)

\* A global that a function passes by reference in the file that declares it.
PassedOn(f) ==
    IF p[f].file = 2 THEN {} ELSE UNION {Range(e.args) : e \in Range(p[f].body)} \cap {"g"}

\* FunctionEffects: of a function whose calls are all known, the parameters it is said
\* to change are those that some run of it changes, through any number of calls (and
\* those it hands to CallLocalFunction, which copies them), and no run reads or writes
\* a global that its effects leave out.
EffectsAreExact ==
    phase = "taint" =>
        \A f \in Funcs(p) : resolveCallEffects(p, effects, f).complete =>
            LET told == resolveCallEffects(p, effects, f).mutated
                runs == RunsOf(p, f, {})
                read == UNION {r.run.read : r \in runs}
                wrote == UNION {r.run.wrote : r \in runs}
                changed == {k \in referenceParameters(p, f) : k + 2 \in wrote}
            IN  /\ changed \subseteq told
                /\ (\A h \in Funcs(p) : Sites(p, h, {"dynamic"}) = {}) => told = changed
                /\ Pure(effects[f]) => (read \cup wrote) \cap {1, 2} = {} /\ changed = {}
                /\ {g \in Globals : GlobalCell(g) \in read} \subseteq effects[f].reads \cup effects[f].writes
                /\ {g \in Globals : GlobalCell(g) \in wrote} \subseteq
                       effects[f].writes \cup UNION {PassedOn(h) : h \in Funcs(p)}

\* What is found out about functions for their callers, around the cycles of calls: who
\* is in one, and what becomes of the arguments (callgraph.go, effects.go).
SummariesAreExact == RecursionIsFound /\ EffectsAreExact

\* What can reach a sink.
Real == UNION {UNION {r.run.hits : r \in RunsOf(p, f, IF p[f].public THEN {p[f].label} \ {""} ELSE {})} :
                  f \in Funcs(p)}

\* tainted-data-to-sink reports no flow that the program does not have: some run
\* carries the value of the source it names to the argument it names.
FindingsAreReal == phase = "done" => t.findings \subseteq Real

\* What the rule gives up on, so that a flow through it may be missed: globals,
\* transformations, conditional calls that write to their arguments, one local that
\* a call is given twice or is given and assigned, results of CallLocalFunction.
GivesUp(f, e) ==
    LET callee == IF e.fn \in Funcs(p) THEN p[e.fn].params ELSE << >> IN
    \/ (Range(e.args) \cup {e.to}) \cap Globals # {}
    \/ e.op = "bump" \/ e.fn \in {"touch", "unknown"}
    \/ \E k \in DOMAIN callee : callee[k] = "array" \/ (callee[k] = "ref" /\ e.when)
    \/ e.op # "set" /\ e.to \in Range(e.args) /\ e.to # ""
    \/ e.fn # "" /\ Len(e.args) = 2 /\ e.args[1] = e.args[2]
    \/ e.op = "dynamic" /\ e.to # ""

\* A function that makes a label of its own which a caller hands it too.
MakesWhatItGets(f) ==
    \E label \in UNION Range(t.inputs[f]) :
        \E r \in RunsOf(p, f, {}) : label \in r.value \cup r.run.mem[3] \cup r.run.mem[4]

Followed == \A f \in Funcs(p) : \A e \in Range(p[f].body) : ~GivesUp(f, e)

\* Where the rule does not give up it reports every flow: through parameters,
\* results and parameters by reference, timers and recursion, to any depth.
FlowsAreReported ==
    phase = "done" /\ Followed /\ (\A f \in Funcs(p) : ~MakesWhatItGets(f)) => Real \subseteq t.findings

\* The flows that are reported are the ones there are.
FlowsAreExact == FindingsAreReal /\ FlowsAreReported

Known(u) ==
    UNION {UNION {{<<f, k, label>> : label \in u.inputs[f][k]} \cup
                  {<<f, k + 2, label>> : label \in u.outputs[f][k]} : k \in DOMAIN Params} \cup
           {<<f, 0, label>> : label \in u.returns[f]} : f \in DOMAIN u.inputs}
Waiting(q) == Cardinality(UNION Range(q))

\* The analyses come to an end, whatever calls whatever: nothing that became known is
\* forgotten, a function is analysed again only when something new became known, and
\* effects are merged again only when those of a function became more.
AnalysisAdvances ==
    [][/\ Known(t) \subseteq Known(t')
       /\ t' # t /\ phase' = phase => Known(t) # Known(t') \/ Waiting(t'.queue) < Waiting(t.queue)
       /\ queue' # queue => effects' # effects \/ Len(queue') < Len(queue)]_vars
=============================================================================
