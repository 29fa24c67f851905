--------------------------- MODULE TaintAnalysis ----------------------------
(***************************************************************************)
(* tainted-data-to-sink (pkg/rules/security/tainted_data_to_sink.go): what *)
(* one analysis of a function does.  Labels say where a value may come     *)
(* from: from a source, or from a parameter of the function, whose name is *)
(* the label.  The analysis t holds, for each function,                    *)
(*   inputs   the labels of sources that reach each parameter              *)
(*   returns, outputs                                                      *)
(*            the labels of what it returns, and of each parameter it      *)
(*            takes by reference when it ends                              *)
(* with the queue of functions to analyse again, and the findings: the     *)
(* function, the call in it, the argument and the source.  The callers of  *)
(* a function are queued in the order of a Go map, that is in any order:   *)
(* an element of the queue is a set, from which any function may be next.  *)
(***************************************************************************)
EXTENDS CallGraph

NoLabels == [k \in DOMAIN Params |-> {}]

concrete(labels) == labels \ Range(Params)

\* taintProjectParameterMayWrite, and taintProjectParameterOutputKnown.
MayWrite(p, f, k) == k \in referenceParameters(p, f)
OutputKnown(p, f, k) == k \in DOMAIN p[f].params /\ p[f].params[k] = "ref"

Queued(queue, f) == \E i \in DOMAIN queue : f \in queue[i]

enqueue(t, fs) ==
    LET new == {f \in fs : ~Queued(t.queue, f)}
    IN  IF new = {} THEN t ELSE [t EXCEPT !.queue = Append(@, new)]

\* Callers that call by name; CallLocalFunction hands back no result.
callersByName(p, f) ==
    {g \in Funcs(p) : \E i \in Sites(p, g, {"call"}) : p[g].body[i].fn = f}

newTaintAnalyzer(p) ==
    [inputs |-> [f \in Funcs(p) |-> [k \in DOMAIN Params |->
                    IF k = 1 /\ p[f].public /\ p[f].params # << >> THEN {p[f].label} \ {""} ELSE {}]],
     returns |-> [f \in Funcs(p) |-> {}],
     outputs |-> [f \in Funcs(p) |-> NoLabels],
     queue |-> [i \in DOMAIN InOrder(p) |-> {InOrder(p)[i]}],
     findings |-> {}]

\* The function is queued although nothing is new (plausible bug).
addInput_Always(p, t, f, k, labels) ==
    IF k \in DOMAIN p[f].params
    THEN enqueue([t EXCEPT !.inputs[f][k] = @ \cup labels], {f}) ELSE t

addInput(p, t, f, k, labels) ==
    IF k \in DOMAIN p[f].params /\ ~(labels \subseteq t.inputs[f][k])
    THEN enqueue([t EXCEPT !.inputs[f][k] = @ \cup labels], {f}) ELSE t

\* A label that comes in through a parameter is the caller's affair.
summaryTaintLabels(t, f, labels) == labels \ UNION Range(t.inputs[f])

addReturn(p, t, f, labels) ==
    LET new == summaryTaintLabels(t, f, labels) IN
    IF new \subseteq t.returns[f] THEN t
    ELSE enqueue([t EXCEPT !.returns[f] = @ \cup new], callersByName(p, f))

addOutput(p, t, f, k, labels) ==
    LET new == summaryTaintLabels(t, f, labels) IN
    IF new \subseteq t.outputs[f][k] THEN t
    ELSE enqueue([t EXCEPT !.outputs[f][k] = @ \cup new], callersByName(p, f))

-----------------------------------------------------------------------------
(* An analysis under way: t, the labels of the parameters and locals, and  *)
(* what is known of the last call.                                         *)

Fact(s, name) ==
    CASE name = "" -> [labels |-> {}, known |-> TRUE]
      [] name = "@" -> s.result
      [] name \in Globals -> [labels |-> {}, known |-> FALSE]
      [] OTHER -> [labels |-> s.env[name], known |-> TRUE]

taintExpression(s, names) ==
    LET facts == {Fact(s, name) : name \in names} IN
    [labels |-> UNION {fact.labels : fact \in facts}, known |-> \A fact \in facts : fact.known]

\* A value that is overwritten keeps its labels (plausible bug).
taintSet_Union(s, name, labels, union) ==
    IF name \in DOMAIN s.env THEN [s EXCEPT !.env[name] = @ \cup labels] ELSE s

\* Globals are not followed.
taintSet(s, name, labels, union) ==
    IF name \in DOMAIN s.env
    THEN [s EXCEPT !.env[name] = IF union THEN @ \cup labels ELSE labels] ELSE s

applyAssignment(s, e) ==
    LET conditional == e.when \/ e.op = "add"
        value == taintExpression(s, Range(e.args))
    IN  CASE value.known -> taintSet(s, e.to, value.labels, conditional)
          [] ~value.known /\ conditional -> s
          [] OTHER -> taintSet(s, e.to, {}, FALSE)

applyUpdate(s, e) == IF e.when THEN s ELSE taintSet(s, e.to, {}, FALSE)

applyReturn(p, s, f, e) ==
    LET value == taintExpression(s, Range(e.args)) IN
    IF value.known THEN [s EXCEPT !.t = addReturn(p, @, f, value.labels)] ELSE s

-----------------------------------------------------------------------------
(* A call *)

Facts(s, e) == [k \in DOMAIN Arguments(e) |-> Fact(s, Arguments(e)[k])]

\* A summary of the callee in terms of the caller's labels.
instantiate(summary, facts) ==
    concrete(summary) \cup
    UNION {facts[k].labels : k \in {k \in DOMAIN facts \cap DOMAIN Params :
                                       facts[k].known /\ Params[k] \in summary}}

sinkFindings(s, f, i, e, facts) ==
    LET parameters == nativeParameters(e.fn) IN
    UNION {{<<f, i, k, label>> : label \in concrete(facts[k].labels)} :
        k \in {k \in DOMAIN parameters \cap DOMAIN facts : parameters[k] = "sink" /\ facts[k].known}}

\* Labels of sources among the arguments reach the parameters of the callee; those
\* of CallLocalFunction and SetTimerEx begin at the offset.
passInputs(p, s, e, facts) ==
    LET offset == CASE e.op = "dynamic" -> 2 [] e.op = "timer" -> 4 [] OTHER -> 0
        pass(t, k) ==
            IF k + offset \in DOMAIN facts /\ facts[k + offset].known
            THEN addInput(p, t, e.fn, k, concrete(facts[k + offset].labels)) ELSE t
    IN  IF e.fn \in Funcs(p) THEN [s EXCEPT !.t = FoldLeft(pass, @, <<1, 2>>)] ELSE s

callResult(p, s, e, facts) ==
    IF e.op = "call" /\ e.fn \in Funcs(p) THEN instantiate(s.t.returns[e.fn], facts) ELSE {}

\* What a native does to the k-th argument: a buffer takes the labels of the other
\* arguments, a source writes its own, an output or a writable array forgets.
applyNative(s, e, facts, k) ==
    LET name == Arguments(e)[k]
        others == UNION {facts[j].labels : j \in {j \in DOMAIN facts \ {k} : facts[j].known}}
        kind == nativeParameters(e.fn)[k]
    IN  CASE kind = "buffer" -> taintSet(s, name, others, e.when)
          [] kind = "taint" -> taintSet(s, name, {"S"}, e.when)
          [] kind \in {"output", "array"} /\ ~e.when -> taintSet(s, name, {}, FALSE)
          [] OTHER -> s

\* What a function of the project does to the k-th argument, if it may write it.
applyOutput(p, s, e, facts, k) ==
    IF MayWrite(p, e.fn, k) /\ ~e.when
    THEN taintSet(s, Arguments(e)[k], instantiate(s.t.outputs[e.fn][k], facts), FALSE) ELSE s

\* An assignment comes before the call that it assigns.
applyCall(p, s, f, i, collect) ==
    LET e == p[f].body[i]
        before == IF e.when THEN s ELSE taintSet(s, e.to, {}, FALSE)
        facts == Facts(before, e)
        found == [before EXCEPT !.t.findings = @ \cup
                     (IF collect THEN sinkFindings(before, f, i, e, facts) ELSE {})]
        passed == passInputs(p, found, e, facts)
        labels == callResult(p, passed, e, facts)
        assigned == taintSet([passed EXCEPT !.result = [labels |-> labels, known |-> TRUE]],
                             e.to, labels, e.when)
        positions == [k \in 1 .. Len(e.args) |-> k]
    IN  CASE e.fn = "unknown" ->
               FoldLeft(LAMBDA r, name : IF e.when THEN r ELSE taintSet(r, name, {}, FALSE),
                        [before EXCEPT !.result = [labels |-> {}, known |-> FALSE]], e.args)
          [] e.fn \in Natives ->
               FoldLeft(LAMBDA r, k : applyNative(r, e, facts, k), assigned, positions)
          [] e.op = "call" /\ e.fn \in Funcs(p) ->
               FoldLeft(LAMBDA r, k : applyOutput(p, r, e, facts, k), assigned, positions)
          [] OTHER -> assigned

applyEvent(p, s, f, i, collect) ==
    LET e == p[f].body[i] IN
    CASE e.op \in {"set", "add"} -> applyAssignment(s, e)
      [] e.op = "bump" -> applyUpdate(s, e)
      [] e.op = "return" -> applyReturn(p, s, f, e)
      [] OTHER -> applyCall(p, s, f, i, collect)

-----------------------------------------------------------------------------
\* One analysis of f: from the labels of its inputs through its events to what it
\* leaves in the parameters it takes by reference.
analyze(p, t, f, collect) ==
    LET env == [name \in Own(p, f) \cup Locals |->
                   IF name \in Locals THEN {}
                   ELSE LET k == CHOOSE k \in DOMAIN Params : Params[k] = name
                        IN  t.inputs[f][k] \cup {name}]
        start == [t |-> t, env |-> env, result |-> [labels |-> {}, known |-> FALSE]]
        end == FoldLeft(LAMBDA s, i : applyEvent(p, s, f, i, collect), start,
                        [i \in DOMAIN p[f].body |-> i])
        output(u, k) == IF OutputKnown(p, f, k) THEN addOutput(p, u, f, k, end.env[Params[k]]) ELSE u
    IN  FoldLeft(output, end.t, <<1, 2>>)

Dequeue(t, f) ==
    [t EXCEPT !.queue = IF Head(@) = {f} THEN Tail(@) ELSE <<Head(@) \ {f}>> \o Tail(@)]
=============================================================================
