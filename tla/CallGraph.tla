----------------------------- MODULE CallGraph ------------------------------
(***************************************************************************)
(* The call graph of a project (pkg/project/callgraph.go) and the effects  *)
(* of its functions (pkg/project/effects.go).  A program                   *)
(* maps the names of its functions, which are f1, f2 and so on in the order*)
(* of the source, to them; a function has                                 *)
(*   params    how each parameter is declared: "value", "ref", "array";    *)
(*             their names are p1, p2 and so on                            *)
(*   label     what a callback receives as its first parameter, "" if the  *)
(*             API knows of no source                                      *)
(*   public, static, file                                                  *)
(*             its keyword, whether it has a static local, and its file    *)
(*   body      what it does, in the order of the source:                   *)
(*             op   "set", "add", "bump", "call", "dynamic", "timer",      *)
(*                  "return"                                               *)
(*             to   the name it writes; "" for none                        *)
(*             args the names it reads: "" is a number, "@" the result of  *)
(*                  the call before it, which is an argument of this one   *)
(*             fn   what it calls: a function of the program or a native   *)
(*             when whether a condition stands before it                   *)
(* x and y are locals.  g is a global declared in the file of all but the  *)
(* functions of file 2; h is declared in a third file.                     *)
(***************************************************************************)
EXTENDS Integers, Sequences, SequencesExt, FiniteSets

Funcs(p) == DOMAIN p
InOrder(p) == SelectSeq(<<"f1", "f2", "f3", "f4">>, LAMBDA f : f \in Funcs(p))
Params == <<"p1", "p2">>
Locals == {"x", "y"}
Globals == {"g", "h"}
Natives == {"source", "sink", "copy", "clear", "touch", "pure"}

Sites(p, f, ops) == {i \in DOMAIN p[f].body : p[f].body[i].op \in ops}

-----------------------------------------------------------------------------
\* A call edge for each resolved call, in the order of the callers and of their
\* source: calls by name first, then CallLocalFunction and the like, which
\* pass their arguments after the name and the format.
Calls(p) ==
    LET edges(f) ==
            [i \in DOMAIN p[f].body |->
                LET e == p[f].body[i] IN
                IF e.op \in {"call", "dynamic"} /\ e.fn \in Funcs(p)
                THEN <<[caller |-> f, callee |-> e.fn, at |-> i,
                        offset |-> IF e.op = "call" THEN 0 ELSE 2]>>
                ELSE << >>]
    IN  FoldLeft(LAMBDA q, f : q \o FlattenSeq(edges(f)), << >>, InOrder(p))

\* SetTimerEx passes its arguments after four others; SetTimer passes none.
AsyncCalls(p) ==
    {[caller |-> f, callee |-> p[f].body[i].fn, at |-> i, offset |-> 4] :
        <<f, i>> \in {s \in Funcs(p) \X (1 .. 9) :
            s[2] \in Sites(p, s[1], {"timer"}) /\ p[s[1]].body[s[2]].fn \in Funcs(p)}}

Outgoing(p, f) == SelectSeq(Calls(p), LAMBDA c : c.caller = f)

selfCalls(p, f) == \E i \in DOMAIN Outgoing(p, f) : Outgoing(p, f)[i].callee = f

-----------------------------------------------------------------------------
(* findRecursiveComponents: the strongly connected components, found while *)
(* the calls are followed depth first.                                     *)

Lowest(a, b) == IF a < b THEN a ELSE b

\* Takes the component of f, the functions above it on the stack, off the stack.
popComponent(p, s, f) ==
    LET from == CHOOSE i \in DOMAIN s.stack : s.stack[i] = f
        component == {s.stack[i] : i \in from .. Len(s.stack)}
    IN  [s EXCEPT !.stack = SubSeq(@, 1, from - 1),
                  !.components = IF Cardinality(component) = 1 /\ ~selfCalls(p, f)
                                 THEN @ ELSE @ \cup {component}]

\* Functions of finished components count too (plausible bug).
seenBefore_Finished(s, f, callee) == Lowest(s.low[f], s.index[callee])

\* What an edge to a function that was seen before says of the lowest index.
seenBefore(s, f, callee) ==
    IF \E i \in DOMAIN s.stack : s.stack[i] = callee
    THEN Lowest(s.low[f], s.index[callee]) ELSE s.low[f]

RECURSIVE connect(_, _, _)
connect(p, s, f) ==
    LET follow(t, call) ==
            LET g == call.callee IN
            IF t.index[g] = 0
            THEN LET u == connect(p, t, g)
                 IN  [u EXCEPT !.low[f] = Lowest(@, u.low[g])]
            ELSE [t EXCEPT !.low[f] = seenBefore(t, f, g)]
        entered == [s EXCEPT !.next = @ + 1, !.index[f] = s.next, !.low[f] = s.next,
                             !.stack = Append(@, f)]
        left == FoldLeft(follow, entered, Outgoing(p, f))
    IN  IF left.low[f] = left.index[f] THEN popComponent(p, left, f) ELSE left

findRecursiveComponents(p) ==
    FoldLeft(LAMBDA s, f : IF s.index[f] = 0 THEN connect(p, s, f) ELSE s,
             [next |-> 1, index |-> [f \in Funcs(p) |-> 0], low |-> [f \in Funcs(p) |-> 0],
              stack |-> << >>, components |-> {}],
             InOrder(p)).components

-----------------------------------------------------------------------------
(* What recursion is, for comparison. *)

Callees(p, f) == {Outgoing(p, f)[i].callee : i \in DOMAIN Outgoing(p, f)}

\* The functions that calls lead to from f, in any number of steps.
Below(p, f) ==
    LET within[n \in Nat] ==
            IF n = 1 THEN Callees(p, f)
            ELSE LET s == within[n - 1] IN s \cup UNION {Callees(p, g) : g \in s}
    IN  within[Cardinality(Funcs(p))]

\* The functions that call each other again, together with each such function.
Recursion(p) ==
    LET below == [f \in Funcs(p) |-> Below(p, f)] IN
    {{g \in below[f] : f \in below[g]} : f \in {f \in Funcs(p) : f \in below[f]}}

-----------------------------------------------------------------------------
(* What a function does beyond returning a value (pkg/project/effects.go): *)
(* whether everything it calls is known, the globals it reads and writes,  *)
(* and the parameters it changes for its caller.  The effects of a callee  *)
(* become those of its callers, over and over, until none changes.         *)

Own(p, f) == {Params[k] : k \in DOMAIN p[f].params}

referenceParameters(p, f) == {k \in DOMAIN p[f].params : p[f].params[k] \in {"ref", "array"}}

ParametersNamed(p, f, names) == {k \in referenceParameters(p, f) : Params[k] \in names}

\* The argument list of a call, with what stands before the arguments passed on.
Arguments(e) ==
    CASE e.op = "dynamic" -> <<"", "">> \o e.args
      [] e.op = "timer" -> <<"", "", "", "">> \o e.args
      [] OTHER -> e.args

-----------------------------------------------------------------------------
\* What the body itself does.  A call that is no edge is unknown, natives included.
directFunctionEffects(p, f) ==
    LET body == Range(p[f].body)
        read == UNION {Range(e.args) : e \in body}
        written == {e.to : e \in body}
    IN  [complete |-> \A e \in body : e.op \in {"call", "dynamic", "timer"} =>
                          e.op # "timer" /\ e.fn \in Funcs(p),
         impure |-> p[f].static,
         reads |-> read \cap Globals,
         writes |-> written \cap Globals,
         mutated |-> ParametersNamed(p, f, written)]

\* A global that an argument names is looked for in the file of the call first;
\* found there it is no parameter, and the search ends.
SameFile(p, f) == Own(p, f) \cup Locals \cup (IF p[f].file = 2 THEN {} ELSE {"g"})

\* A local that is passed on by reference is as good as a parameter (plausible bug).
mapMutatedArgument_ByPosition(p, state, call, k) ==
    LET arguments == Arguments(p[call.caller].body[call.at])
        index == k + call.offset
        name == IF index \in DOMAIN arguments THEN arguments[index] ELSE ""
    IN  CASE name \in {"", "@"} -> [state EXCEPT !.complete = FALSE]
          [] name \in SameFile(p, call.caller) -> [state EXCEPT !.mutated = @ \cup {k}]
          [] OTHER -> [state EXCEPT !.writes = @ \cup {name}]

\* What it means for the caller that its callee changes the parameter k.
mapMutatedArgument(p, state, call, k) ==
    LET arguments == Arguments(p[call.caller].body[call.at])
        index == k + call.offset
        name == IF index \in DOMAIN arguments THEN arguments[index] ELSE ""
    IN  CASE name \in {"", "@"} -> [state EXCEPT !.complete = FALSE]
          [] name \in SameFile(p, call.caller) ->
               [state EXCEPT !.mutated = @ \cup ParametersNamed(p, call.caller, {name})]
          [] OTHER -> [state EXCEPT !.writes = @ \cup {name}]

\* The effects of the callee of one call become those of the caller.
mergeCall(p, states, state, call) ==
    LET callee == states[call.callee]
        joined == [state EXCEPT !.impure = @ \/ callee.impure,
                                !.reads = @ \cup callee.reads,
                                !.writes = @ \cup callee.writes]
    IN  IF callee.complete
        THEN FoldSet(LAMBDA k, s : mapMutatedArgument(p, s, call, k), joined, callee.mutated)
        ELSE [state EXCEPT !.complete = FALSE]

mergeFunctionEffects(p, states, f) ==
    FoldLeft(LAMBDA s, call : mergeCall(p, states, s, call), states[f], Outgoing(p, f))

Pure(state) ==
    state.complete /\ ~state.impure /\ state.reads = {} /\ state.writes = {} /\ state.mutated = {}

\* The callers of f, one for each call, in the order of the calls.
callers(p, f) ==
    LET calls == SelectSeq(Calls(p), LAMBDA c : c.callee = f)
    IN  [i \in DOMAIN calls |-> calls[i].caller]

Requeue(queue, fs) ==
    FoldLeft(LAMBDA q, f : IF Contains(q, f) THEN q ELSE Append(q, f), queue, fs)

-----------------------------------------------------------------------------
(* What a rule is told of a call (pkg/lint/call_effects.go): for a native  *)
(* it is what the API says of its parameters.                              *)

\* How the API declares the parameters of the natives: what may be written, what
\* a source writes and what a sink reads; the rest is constant or passed by value.
nativeParameters(n) ==
    CASE n = "source" -> <<"taint">>
      [] n = "sink" -> <<"sink">>
      [] n = "copy" -> <<"buffer", "const">>
      [] n = "clear" -> <<"output">>
      [] n = "touch" -> <<"array">>
      [] n = "pure" -> <<"value">>
      [] OTHER -> << >>

apiCallEffects(n) ==
    LET parameters == nativeParameters(n) IN
    [complete |-> TRUE,
     mutated |-> {k \in DOMAIN parameters : parameters[k] \in {"taint", "buffer", "output", "array"}}]

resolveCallEffects(p, states, fn) ==
    CASE fn \in Natives -> apiCallEffects(fn)
      [] fn \in Funcs(p) /\ states[fn].complete -> [complete |-> TRUE, mutated |-> states[fn].mutated]
      [] OTHER -> [complete |-> FALSE, mutated |-> {}]
=============================================================================
