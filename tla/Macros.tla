------------------------------- MODULE Macros -------------------------------
(***************************************************************************)
(* Macro definitions and their expansion (internal/preprocess/expand.go),  *)
(* on tokens.  A token has a kind ("name", "number" or "mark"), a text and *)
(* whether it stands right after the token before it.  The text is a       *)
(* sequence, as tokens may be pasted together.                             *)
(* A macro is [function, parameters, body]; its parameters are texts.      *)
(***************************************************************************)
EXTENDS Naturals, Sequences, FiniteSets, SequencesExt, FiniteSetsExt

CONSTANTS
    MaximumDepth,  \* maximumExpansionDepth
    MaximumTokens  \* maximumExpandedTokens

Token(kind, text, near) == [kind |-> kind, text |-> <<text>>, near |-> near]
Is(token, text) == token.text = <<text>>

\* Marks that are one mark when nothing is between them.
Joined == ("-" :> {"-"}) @@ ("+" :> {"+"}) @@ ("&" :> {"&"}) @@ ("|" :> {"|"})
          @@ ("<" :> {"<", "="}) @@ (">" :> {">", "="}) @@ ("=" :> {"="}) @@ ("!" :> {"="})

\* The lexer, of a library: what two tokens without a space between them are.
Joins(left, right) ==
    CASE left.kind = "mark" /\ right.kind = "mark" ->
            left.text[1] \in DOMAIN Joined /\ right.text[1] \in Joined[left.text[1]]
      [] left.kind = "name" -> right.kind # "mark"
      [] left.kind = "number" -> right.kind = "number"
      [] OTHER -> FALSE

InOrder(places) == SelectSeq([i \in 1 .. Max(places \cup {0}) |-> i], LAMBDA i : i \in places)

-----------------------------------------------------------------------------
(* One invocation *)

Open == {"(", "[", "{"}
Close == {")", "]", "}"}

\* The depth of brackets after each token from the one after the name on.
DepthAt(input, i) ==
    Cardinality({j \in 2 .. i : input[j].text[1] \in Open})
    - Cardinality({j \in 2 .. i : input[j].text[1] \in Close})

\* invocationArguments, pieceArguments: the arguments of the invocation a sequence
\* of tokens starts with, and how many tokens it has; of one that does not end, all.
Arguments(input) ==
    LET ends == {i \in 2 .. Len(input) : Is(input[i], ")") /\ DepthAt(input, i) = 0}
        end == IF ends = {} THEN 0 ELSE Min(ends)
        cuts == {2, end} \cup {i \in 3 .. end - 1 : Is(input[i], ",") /\ DepthAt(input, i) = 1}
        from == InOrder(cuts)
    IN  IF end = 0 THEN [ok |-> FALSE, size |-> Len(input), list |-> << >>]
        ELSE [ok |-> TRUE, size |-> end,
              list |-> IF end = 3 THEN << >>
                       ELSE [i \in 1 .. Len(from) - 1 |-> SubSeq(input, from[i] + 1, from[i + 1] - 1)]]

Positional == << <<"%0">>, <<"%1">>, <<"%2">> >>

\* The parameters a token of the body stands for: one at most.
ParameterOf(macro, token) ==
    {i \in DOMAIN macro.parameters : token.text \in {macro.parameters[i], Positional[i]}}

\* concatenateReplacementBoundary: the last and the first token become one if the
\* lexer would read them as one.
concatenateReplacementBoundary(left, right) ==
    IF left = << >> \/ right = << >> \/ ~Joins(Last(left), Head(right)) THEN left \o right
    ELSE Front(left) \o <<[Last(left) EXCEPT !.text = @ \o Head(right).text]>> \o Tail(right)

\* A body that stringizes, or escapes a percent sign, is not expanded.
Substitutable(macro) == \A i \in DOMAIN macro.body : macro.body[i].text[1] \notin {"#", "%%"}

\* substitute: the body with the arguments for the parameters, joined where the
\* tokens of the body have no space between them.
substitute(macro, arguments) ==
    FoldLeft(LAMBDA result, token :
        LET pieces == IF ParameterOf(macro, token) = {} THEN <<token>>
                      ELSE arguments[Max(ParameterOf(macro, token))]
        IN  IF token.near THEN concatenateReplacementBoundary(result, pieces) ELSE result \o pieces,
        << >>, macro.body)

\* What the tokens start with: "none", nothing to expand; "bad", an invocation that
\* cannot be expanded; "good".
Invocation(definitions, input) ==
    LET macro == definitions[Head(input).text]
        arguments == Arguments(input)
        answer(what, size, pieces) == [what |-> what, size |-> size, pieces |-> pieces]
    IN  CASE Head(input).kind # "name" \/ Head(input).text \notin DOMAIN definitions ->
                answer("none", 1, << >>)
          [] macro.function /\ (Len(input) = 1 \/ ~Is(input[2], "(")) -> answer("none", 1, << >>)
          [] macro.function /\ (~arguments.ok \/ Len(arguments.list) # Len(macro.parameters)) ->
                answer("bad", arguments.size, << >>)
          [] ~Substitutable(macro) ->
                answer("bad", IF macro.function THEN arguments.size ELSE 1, << >>)
          [] OTHER ->
                answer("good", IF macro.function THEN arguments.size ELSE 1,
                       substitute(macro, IF macro.function THEN arguments.list ELSE << >>))

-----------------------------------------------------------------------------
(* Expansion *)

After(input, n) == SubSeq(input, n + 1, Len(input))

Incomplete(state) == [state EXCEPT !.complete = FALSE]

RECURSIVE expandPieces(_, _, _, _, _)
\* The expansion of a sequence of tokens within the expansion of the disabled names:
\* what it is, and the state of the expander (complete, count).
expandPieces(definitions, input, depth, disabled, state) ==
    LET call == Invocation(definitions, input)
        name == Head(input).text
        Known == Head(input).kind = "name" /\ name \in DOMAIN definitions
        Emit(n, s) ==
            LET rest == expandPieces(definitions, After(input, n), depth, disabled,
                                     [s EXCEPT !.count = @ + n])
            IN  [rest EXCEPT !.out = SubSeq(input, 1, n) \o @]
    IN  CASE input = << >> -> [out |-> << >>, state |-> state]
          [] state.count > MaximumTokens -> [out |-> input, state |-> Incomplete(state)]
          [] Known /\ name \in disabled -> Emit(1, Incomplete(state))
          [] Known /\ depth >= MaximumDepth -> [out |-> input, state |-> Incomplete(state)]
          [] call.what = "none" -> Emit(1, state)
          [] call.what = "bad" -> Emit(call.size, Incomplete(state))
          [] OTHER ->
                LET inner == expandPieces(definitions, call.pieces, depth + 1, disabled \cup {name}, state)
                    rest == expandPieces(definitions, After(input, call.size), depth, disabled, inner.state)
                IN  [rest EXCEPT !.out = inner.out \o @]

RECURSIVE expandTokens(_, _, _)
\* expandTokensWithSyntax on the tokens between directives, and expandInvocation.
expandTokens(definitions, input, state) ==
    LET call == Invocation(definitions, input)
        Keep(n, s) == LET rest == expandTokens(definitions, After(input, n), s)
                      IN  [rest EXCEPT !.out = SubSeq(input, 1, n) \o @]
    IN  CASE input = << >> -> [out |-> << >>, state |-> state]
          [] call.what = "none" -> Keep(1, state)
          [] call.what = "bad" \/ state.count > MaximumTokens -> Keep(call.size, Incomplete(state))
          [] OTHER ->
                LET inner == expandPieces(definitions, call.pieces, 1, {Head(input).text}, state)
                    rest == expandTokens(definitions, After(input, call.size), inner.state)
                IN  [rest EXCEPT !.out = inner.out \o @]

-----------------------------------------------------------------------------
(* The definitions of a file *)

NewExpander == [definitions |-> << >>, undefined |-> {}, complete |-> TRUE, count |-> 0]

Without(definitions, names) == [n \in DOMAIN definitions \ names |-> definitions[n]]

define(e, name, macro) ==
    [e EXCEPT !.definitions = (name :> macro) @@ @, !.undefined = @ \ {name}]

undefine(e, name) ==
    [e EXCEPT !.definitions = Without(@, {name}), !.undefined = @ \cup {name}]

\* What an included file undefines stays defined (a plausible bug).
merge_DefinitionsOnly(e, state) ==
    [e EXCEPT !.definitions = state.definitions @@ @, !.undefined = @ \ DOMAIN state.definitions]

\* merge: what an included file leaves undefined, then what it leaves defined.
merge(e, state) ==
    [e EXCEPT !.definitions = state.definitions @@ Without(@, state.undefined),
              !.undefined = (@ \cup state.undefined) \ DOMAIN state.definitions]
=============================================================================
