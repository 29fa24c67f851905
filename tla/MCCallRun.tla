----------------------------- MODULE MCCallRun ------------------------------
(* Small programs: who calls whom, what they change, what flows where. *)
EXTENDS CallRun

E(op, to, args, fn) == [op |-> op, to |-> to, args |-> args, fn |-> fn, when |-> FALSE]
If(e) == [e EXCEPT !.when = TRUE]
Set(to, from) == E("set", to, <<from>>, "")
Call(to, fn, args) == E("call", to, args, fn)
Do(fn, args) == Call("", fn, args)
Return(name) == E("return", "", <<name>>, "")

F(params, body) ==
    [params |-> params, body |-> body, label |-> "", public |-> FALSE, static |-> FALSE, file |-> 1]
Public(label, params, body) == [F(params, body) EXCEPT !.public = TRUE, !.label = label]

Bodies(params, events, ends) == {F(params, b \o e) : b \in events, e \in ends}
Names == <<"f1", "f2", "f3", "f4">>
Program(fs) == [name \in {Names[i] : i \in DOMAIN fs} |-> fs[CHOOSE i \in DOMAIN fs : Names[i] = name]]

UpTo2(S) == {<< >>} \cup {<<e>> : e \in S} \cup {<<a, b>> : a \in S, b \in S}

-----------------------------------------------------------------------------
\* Three functions that call each other in every order, and four in rings.
Calling(n, limit) == {F(<< >>, [i \in DOMAIN s |-> Do(Names[s[i]], << >>)]) :
                        s \in UNION {[1 .. k -> 1 .. n] : k \in 0 .. limit}}
Graphs3 == {<<a, b, c>> : a \in Calling(3, 2), b \in Calling(3, 2), c \in Calling(3, 1)}
Rings == {<<a, b, c, d>> : a \in Calling(4, 1), b \in Calling(4, 1), c \in Calling(4, 1), d \in Calling(4, 1)}

-----------------------------------------------------------------------------
\* What a function changes through others.
Swapped == {<<"p1", "p2">>, <<"p2", "p1">>, <<"x", "p1">>, <<"p2", "x">>, <<"", "p2">>, <<"g", "p1">>, <<"p1", "h">>}
TopEvents == {Do("f2", a) : a \in Swapped} \cup
             {Set("g", "p1"), E("bump", "h", << >>, ""), E("dynamic", "", <<"p1", "p2">>, "f2"),
              E("timer", "", <<"p1">>, "f2"), If(Set("p2", "h"))}
MiddleEvents == {Set("p1", "p2"), Do("f2", <<"p2", "p1">>), Do("f3", <<"p1">>), If(Do("f3", <<"p2">>)), Do("f1", <<"p2", "p1">>)}
LeafEvents == {Set("p1", ""), Set("x", "g"), E("add", "h", <<"p1">>, ""), Do("pure", <<"p1">>)}

EffectPrograms ==
    {<<[top EXCEPT !.file = file], middle, [leaf EXCEPT !.static = static]>> :
        top \in Bodies(<<"ref", "ref">>, {<<e>> : e \in TopEvents} \cup {<<Do("f2", <<"p1", "">>), Do("f3", <<"p2">>)>>}, {<< >>}),
        middle \in Bodies(<<"ref", "array">>, UpTo2(MiddleEvents), {<< >>})
                   \cup Bodies(<<"value", "ref">>, {<<e>> : e \in MiddleEvents}, {<< >>}),
        leaf \in Bodies(<<"ref">>, {<<e>> : e \in LeafEvents}, {<< >>}),
        file \in {1, 2}, static \in {FALSE}}

-----------------------------------------------------------------------------
\* What flows where: the first function gets a label and passes it on, the second
\* passes it further, and the third is at the end.
Starts == {<<Do("source", <<"x">>)>>, <<Set("x", "p1")>>, <<Call("x", "f3", <<"p1", "">>)>>}
Middles == {Set("y", "x"), If(Set("y", "x")), E("add", "y", <<"x">>, ""), Do("copy", <<"y", "x">>),
            Call("y", "f2", <<"x", "">>), If(Call("y", "f2", <<"", "x">>)), Do("f2", <<"x", "y">>), Do("f2", <<"y", "x">>),
            E("timer", "", <<"x">>, "f2"), E("dynamic", "", <<"x", "y">>, "f2"), Do("clear", <<"x">>)}
Ends == {<<Do("sink", <<"y">>)>>, <<Do("sink", <<"x">>)>>, <<Return("y")>>}
Seconds == {<<Return("p1")>>, <<Do("sink", <<"p1">>)>>, <<Set("p2", "p1")>>,
            <<If(Set("p1", "p2")), Return("p1")>>, <<Do("f3", <<"p1", "p2">>), Return("p2")>>,
            <<Do("f3", <<"p1", "">>), Return("@")>>, <<Do("source", <<"p2">>), If(Return("p2"))>>,
            <<E("bump", "p1", << >>, ""), Return("p1")>>, <<Do("unknown", <<"p1">>), Return("p1")>>}
Thirds == {<<Return("p1")>>, <<Do("source", <<"x">>), Return("x")>>, <<Do("sink", <<"p2">>)>>,
           <<If(Set("p2", "p1")), If(Do("f2", <<"p2", "p1">>))>>}

TaintPrograms ==
    {<<Public("T", <<"value">>, a \o <<m>> \o z), two, three>> :
        a \in Starts, m \in Middles, z \in Ends,
        two \in Bodies(<<"value", "ref">>, Seconds, {<< >>}) \cup Bodies(<<"value", "value">>, Seconds, {<< >>}),
        three \in Bodies(<<"value", "ref">>, Thirds, {<< >>})}

\* A result that becomes known late, handed on by a function that also gets it.
LatePrograms ==
    {<<F(<<"value">>, <<Do("f4", << >>), Return("@")>>),
       F(<< >>, <<Do("f4", << >>), Do("f1", <<"@">>)>>),
       F(<< >>, <<Do("f1", <<"">>), Do("sink", <<"@">>)>>),
       F(<< >>, <<Do("source", <<"x">>), Return("x")>>)>>}

MCPrograms ==
    {Program(fs) : fs \in Graphs3 \cup Rings \cup EffectPrograms \cup TaintPrograms \cup LatePrograms}
=============================================================================
