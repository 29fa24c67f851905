--------------------------- MODULE MCExpressionRun ----------------------------
(* Cells of four bits; programs of one to three lines of code. *)
EXTENDS ExpressionRun

MCNumerals ==
    [t \in {"0", "1", "2", "3", "7", "8", "9", "16"} |->
        [magnitude |-> CASE t = "0" -> 0 [] t = "1" -> 1 [] t = "2" -> 2 [] t = "3" -> 3 [] t = "7" -> 7
                         [] t = "8" -> 8 [] t = "9" -> 9 [] OTHER -> 16,
         prefix |-> FALSE]]
    @@ ("0x8" :> [magnitude |-> 8, prefix |-> TRUE]) @@ ("0xF" :> [magnitude |-> 15, prefix |-> TRUE])

MCSurprises == {-8, -3, 0, 1, 6}

Names == {"x", "g", "K", "L", "a", "p", "q", "e", "pure", "none", "writes", "changes", "true", "cellmax", "cellmin",
          "E0", "E1", "E2", "M", "N", "F", "G", "v", "w", "vw"}

\* The tokens of some texts; a token after "''" has no space before it.
T(texts) ==
    LET kept == InOrder({i \in DOMAIN texts : texts[i] # "''"})
    IN  [k \in DOMAIN kept |->
            Token(IF texts[kept[k]] \in Names THEN "name" ELSE IF texts[kept[k]] \in DOMAIN MCNumerals THEN "number" ELSE "mark",
                  texts[kept[k]], kept[k] > 1 /\ texts[kept[k] - 1] = "''")]

E(texts) == Parse(T(texts))

CodeLine(texts) == [what |-> "code", state |-> "on", name |-> << >>, macro |-> << >>, tokens |-> T(texts)]
DefineLine(name, function, parameters, body, state) ==
    [what |-> "define", state |-> state, name |-> <<name>>, tokens |-> << >>,
     macro |-> [function |-> function, parameters |-> [i \in DOMAIN parameters |-> <<parameters[i]>>], body |-> T(body)]]
UndefLine(name, state) == [what |-> "undef", state |-> state, name |-> <<name>>, macro |-> << >>, tokens |-> << >>]
IncludeLine(file, state) == [what |-> "include", state |-> state, name |-> file, macro |-> << >>, tokens |-> << >>]

NoEntries == << >>
Base ==
    [constants |-> ("K" :> E(<<"7">>)) @@ ("L" :> E(<<"K", "-", "8">>)), enum |-> NoEntries, entries |-> {},
     locals |-> {"x"}, known |-> {<<"x", 0>>}, globals |-> {"g"}, arrays |-> << >>,
     calls |-> ("pure" :> "pure") @@ ("none" :> "none") @@ ("writes" :> "writes") @@ ("changes" :> "changes")]

Program(lines, kind, role) ==
    [files |-> ("main" :> lines),
     scope |-> IF \E i \in DOMAIN lines : <<"a">> \in {lines[i].tokens[j].text : j \in DOMAIN lines[i].tokens}
               THEN [Base EXCEPT !.arrays = "a" :> E(<<"3">>)] ELSE Base, kind |-> kind, role |-> role, clauses |-> << >>, over |-> ""]
Statement(texts) == Program(<<CodeLine(texts)>>, "statement", "statement")

-----------------------------------------------------------------------------
(* Operators on constants, known locals and globals *)

Lefts == {<<"1">>, <<"7">>, <<"-", "8">>, <<"K">>, <<"x">>, <<"g">>, <<"-", "(", "-", "8", ")">>, <<"-", "0x8">>}
Rights == {<<"0">>, <<"1">>, <<"3">>, <<"-", "1">>, <<"L">>, <<"x">>, <<"16">>, <<"cellmax">>}
Operators == {"+", "-", "*", "/", "%", "<<", ">>", ">>>", "&", "|", "^", "&&", "||", "==", "<", ">="}

Operations == {Statement(l \o <<o>> \o r) : l \in Lefts, o \in Operators, r \in Rights}

-----------------------------------------------------------------------------
(* Values that change, faults that may not be reached, elements *)

Lines ==
    { <<"x", "=", "3", ",", "g", "/", "x">>, <<"writes", "(", "x", ")", ",", "1", "/", "x">>,
      <<"none", "(", "x", ")", ",", "1", "/", "x">>, <<"x", "++", ",", "1", "/", "x">>,
      <<"g", "&&", "(", "x", "=", "1", ")", ",", "1", "/", "x">>, <<"g", "?", "(", "x", "=", "2", ")", ":", "1", ",", "1", "<<", "x">>,
      <<"x", "+", "(", "x", "=", "2", ")">>, <<"x", "=", "x", "+", "1", ",", "x">>, <<"g", "&&", "1", "/", "0">>,
      <<"x", "/=", "L">>, <<"g", "/=", "0">>, <<"g", "<<=", "-", "1">>, <<"a", "[", "3", "]">>, <<"a", "[", "x", "]">>,
      <<"a", "[", "x", "=", "3", "]">>, <<"a", "[", "-", "1", "]">>, <<"a", "[", "2", "]">>, <<"a", "[", "g", "]">>,
      <<"1", "?", "K", "+", "1", ":", "0">>, <<"-", "(", "0x8", ")">>, <<"-", "(", "8", ")">>, <<"-", "_:", "8">>,
      <<"-", "-", "8">>, <<"~", "K">>, <<"!", "L">>, <<"+", "x">>, <<"L", "+", "L">>, <<"9", "+", "1">>, <<"0xF", "*", "8">>,
      <<"changes", "(", "1", ")">>, <<"pure", "(", "1", ")", "+", "g">>, <<"++", "g">>, <<"g">>, <<"3">>,
      <<"true", "+", "cellmin">>, <<"_:", "g">>, <<"g", ",", "x">>, <<"(", "_:", "g", ")">>,
      <<"-", "1", "%", "3">>, <<"1", "-", "-", "''", "-", "x">> }

Assorted == {Statement(l) : l \in Lines}

-----------------------------------------------------------------------------
(* Comparisons of ranges *)

Ranged == { <<"g", "%", "3">>, <<"(", "g", "&", "3", ")">>, <<"(", "2", "&", "g", ")">>, <<"(", "g", ">>>", "2", ")">>, <<"!", "g">>,
            <<"-", "(", "g", "&", "7", ")">>, <<"(", "g", "?", "1", ":", "3", ")">>, <<"(", "g", "&&", "x", ")">>,
            <<"(", "g", "&", "3", ")", "%", "-", "3">>, <<"(", "g", ",", "g", "%", "2", ")">>, <<"g", "%", "1">> }
Bounds == {<<"0">>, <<"1">>, <<"3">>, <<"-", "2">>, <<"(", "g", "&", "1", ")">>}
Compared == {Statement(l \o <<o>> \o r) : l \in Ranged, o \in Comparisons, r \in Bounds}

-----------------------------------------------------------------------------
(* Chains of conditions *)

Conditions == { <<"(", "g", ")">>, <<"(", "g", "==", "1", ")">>, <<"(", "(", "g", ")", "==", "1", ")">>, <<"(", "pure", "(", "g", ")", ")">>,
                <<"(", "none", "(", "g", ")", ")">>, <<"(", "g", "++", ")">>, <<"(", "changes", "(", "1", ")", ")">>,
                <<"(", "x", ")">>, <<"(", "writes", "(", "x", ")", ")">>, <<"(", "a", "[", "1", "]", ")">>, <<"(", "K", "<", "3", ")">> }
Middles == {<<"(", "x", "==", "3", ")">>, <<"(", "g", "++", ")">>, <<"(", "x", "=", "0", ")">>}
Chains ==
    {Program(<<CodeLine(c), CodeLine(d)>>, "chain", "condition") : c, d \in Conditions}
    \cup {Program(<<CodeLine(c), CodeLine(m), CodeLine(c)>>, "chain", "condition") : c \in Conditions, m \in Middles}

-----------------------------------------------------------------------------
(* Parentheses *)

Ops == {"||", "&", "==", "<", "<<", "-", "*"}
Inner == {<<"g", o, "x">> : o \in Ops} \cup {<<"g", "=", "1">>, <<"g", "?", "1", ":", "0">>, <<"-", "g">>, <<"g", ",", "x">>, <<"_:", "g">>, <<"g", "++">>, <<"(", "g", "-", "x", ")">>}
Paren(inner) == <<"(">> \o inner \o <<")">>
Around ==
    {Paren(i) \o <<o, "K">> : i \in Inner, o \in Ops} \cup {<<"K", o>> \o Paren(i) : i \in Inner, o \in Ops}
    \cup {<<"-">> \o Paren(i) : i \in Inner} \cup {<<"_:">> \o Paren(i) : i \in Inner} \cup {<<"x", "=">> \o Paren(i) : i \in Inner}
    \cup {Paren(i) \o <<"?", "1", ":", "2">> : i \in Inner} \cup {<<"x", "?">> \o Paren(i) \o <<":", "2">> : i \in Inner}
    \cup {<<"x", "?", "2", ":">> \o Paren(i) : i \in Inner} \cup {<<"pure", "(">> \o Paren(i) \o <<")">> : i \in Inner}
    \cup {<<"a", "[">> \o Paren(i) \o <<"]">> : i \in Inner} \cup {Paren(i) : i \in Inner}
Parenthesized == {Statement(t) : t \in Around}
    \cup {Program(<<CodeLine(Paren(Paren(i)))>>, "chain", "condition") : i \in Inner}
    \cup {Program(<<CodeLine(Paren(Paren(Paren(i))))>>, "chain", "condition") : i \in Inner}
    \cup {Program(<<CodeLine(Paren(i))>>, "statement", r) : i \in Inner, r \in {"case", "value"}}
    \cup {Statement(<<"-", "''", "(", "''", "-", "''", "g", "''", ")">>)}

-----------------------------------------------------------------------------
(* Macros *)

Define0(name, body) == DefineLine(name, FALSE, << >>, body, "on")
Define1(name, body) == DefineLine(name, TRUE, <<"p">>, body, "on")
Define2(name, body) == DefineLine(name, TRUE, <<"p", "q">>, body, "on")
Macro(lines, texts) == Program(lines \o <<CodeLine(texts)>>, "statement", "statement")

Objects == {<<"1", "+", "2">>, <<"(", "1", "+", "2", ")">>, <<"-", "1">>, <<"g">>, <<"N">>, <<"g", "++">>, << >>, <<"g", "=", "1">>, <<"M">>, <<"F">>}
ObjectUses == {<<"M", "*", "3">>, <<"K", "-", "M">>, <<"(", "M", ")", "*", "K">>, <<"M">>, <<"1", "/", "M">>, <<"M", "(", "1", ")">>}
Functions1 == {<<"p">>, <<"p", "*", "2">>, <<"(", "p", ")", "*", "2">>, <<"(", "p", "*", "2", ")">>, <<"(", "(", "p", ")", "*", "2", ")">>,
               <<"(", "(", "p", ")", "+", "(", "p", ")", ")">>, <<"pure", "(", "p", ")">>, <<"a", "[", "p", "]">>, <<"(", "-", "p", ")">>,
               <<"(", "p", "?", "1", ":", "0", ")">>, <<"G", "(", "p", ")">>, <<"#", "p">>, <<"v", "''", "p">>, <<"%0">>, <<"(", "p", "++", ")">>}
FunctionUses == {<<"F", "(", "1", "+", "x", ")">>, <<"F", "(", "g", ")", "*", "3">>, <<"F", "(", "F", "(", "1", ")", ")">>,
                 <<"F", "(", "g", "++", ")">>, <<"F", "+", "1">>, <<"F", "(", "1", ",", "x", ")">>, <<"F", "(", "w", ")">>, <<"F", "(", ")">>,
                 <<"F", "(", "M", ")">>, <<"F", "(", "1", "?", "x", ":", "g", ")">>}
Expanded ==
    {Macro(<<Define0("N", <<"3">>), Define1("F", <<"(", "p", ")">>), Define0("M", b)>>, u) : b \in Objects, u \in ObjectUses}
    \cup {Macro(<<Define0("M", <<"(", "g", "-", "1", ")">>), Define1("G", <<"(", "(", "p", ")", "*", "(", "p", ")", ")">>), Define1("F", b)>>, u)
            : b \in Functions1, u \in FunctionUses}
    \cup {Macro(<<Define0("M", <<"N", "N">>), Define0("N", <<"F", "(", "1", ")">>), Define1("F", <<"G", "(", "p", ",", "2", ")">>),
                  Define2("G", b)>>, u)
            : b \in {<<"(", "p", "-", "q", ")">>, <<"p", "q", "p", "q">>, <<"(", "%1", ")">>, <<"M">>}, u \in {<<"M">>, <<"N", "*", "2">>, <<"N">>, <<"G", "(", "1", ",", "G", "(", "2", ",", "3", ")", ")">>}}

States == {"on", "off", "maybe"}
Included ==
    {[Macro(<<Define0("M", <<"1">>), IncludeLine("inc", s), IncludeLine("more", "on")>>, <<"M", "+", "N">>)
        EXCEPT !.files = @ @@ ("inc" :> <<l, UndefLine("N", "on")>>) @@ ("more" :> <<DefineLine("N", FALSE, << >>, <<"2">>, t)>>)]
        : s \in States, t \in States, l \in {UndefLine("M", "on"), UndefLine("M", "maybe"), DefineLine("M", FALSE, << >>, <<"7">>, "on"), IncludeLine("more", "on")}}

-----------------------------------------------------------------------------
(* Switches over an enum *)

Entry(name, value, widths) == [name |-> name, value |-> value, widths |-> widths]
V(t) == <<E(t), E(t)>>
R(t, u) == <<E(t), E(u)>>
Enums ==
    { <<Entry("E0", NoNode, << >>), Entry("E1", NoNode, << >>), Entry("E2", NoNode, << >>)>>,
      <<Entry("E0", E(<<"-", "2">>), << >>), Entry("E1", NoNode, <<E(<<"2">>)>>), Entry("E2", NoNode, << >>)>>,
      <<Entry("E0", NoNode, <<E(<<"2">>), E(<<"2">>)>>), Entry("E1", NoNode, << >>), Entry("E2", E(<<"E0", "+", "1">>), << >>)>>,
      <<Entry("E0", E(<<"K", "-", "1">>), << >>), Entry("E1", NoNode, << >>), Entry("E2", E(<<"E1">>), << >>)>> }
Clauses ==
    { << <<V(<<"E0">>)>>, <<V(<<"E1">>)>> >>, << <<V(<<"E0">>), V(<<"E1">>)>>, <<V(<<"E2">>)>> >>,
      << <<R(<<"E0">>, <<"E1">>)>>, <<V(<<"E2">>)>> >>, << <<V(<<"E1">>)>>, <<V(<<"1">>), V(<<"E2">>)>>, <<V(<<"0">>)>> >>,
      << <<R(<<"E0">>, <<"E2">>)>> >>, << <<R(<<"-", "3">>, <<"7">>)>> >>, << <<V(<<"7">>), V(<<"E0">>)>> >>,
      << <<V(<<"E0">>), V(<<"E0">>)>>, <<V(<<"_:", "E2">>)>> >> }
Switches ==
    {[Program(<<CodeLine(<<"(", "e", ")">>)>>, "switch", "condition")
        EXCEPT !.scope.enum = n, !.scope.globals = {"g", "e"}, !.clauses = c, !.over = "e"]
        : n \in Enums, c \in Clauses}

Sized ==
    {[Statement(<<"a", "[", "0", "]">>) EXCEPT !.scope.arrays = "a" :> E(t)] : t \in {<<"L", "+", "1">>, <<"K">>, <<"-", "1">>, <<"1", "<<", "3">>}}

MCPrograms ==
    << Operations, Assorted, Compared, Chains, Parenthesized, Expanded, Included, Switches, Sized >>
=============================================================================
