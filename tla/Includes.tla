------------------------------ MODULE Includes ------------------------------
(***************************************************************************)
(* How a project model follows includes (pkg/project/includes.go).  A      *)
(* workspace w has                                                         *)
(*   text      its files, each with its lines                              *)
(*   dir, base the directory and the base name of each file                *)
(*   paths     the include paths, the working directory last               *)
(*   provided  the files to lint, in order; pwn those that end in .pwn     *)
(*   defines, complete                                                     *)
(*             the configured names, and whether there are no others       *)
(*   features  what the rules need of the model                            *)
(* A file is analysed once per context: the names that are defined before  *)
(* it, and the directory of the root that includes it.                     *)
(*                                                                         *)
(* The walk of one file is what its conditional directives make of its     *)
(* lines (internal/source/walk/conditional.go): which are active, which    *)
(* names are defined where.  A file is a sequence of lines; a line has     *)
(*   op    "if", "elseif", "else", "endif", "define", "undef", "endinput", *)
(*         "include", "tryinclude", "function", "forward", "global",       *)
(*         "enum", "call", "use" or "blank"                                *)
(*   name  the name it is about                                            *)
(*   how   of a condition: "defined", "undefined" or "value" (a value only *)
(*         the compiler knows); of an include: "quoted" or "angled"; of a  *)
(*         declaration: its storage                                        *)
(* call and use stand for a public function of their own that calls the    *)
(* function or reads the variable.  An environment is a set of names.      *)
(***************************************************************************)
EXTENDS Integers, Sequences, SequencesExt, FiniteSets, TLC

CONSTANTS
    Workspaces,  \* a sequence of sets of workspaces
    None         \* no file, or what is defined after a file that is not resolved

VARIABLES
    w,      \* the workspace
    files,  \* of each context: its includes so far, what they left defined, what it leaves
    order,  \* the contexts in the order they were added
    stack,  \* the contexts that are being resolved, each with the include it is at
    roots   \* the provided files that are still to be resolved

vars == <<w, files, order, stack, roots>>

Compiler == "__Pawn"   \* stands for all the names the compiler defines

\* A workspace: its files have directories, the files to lint are some of its files,
\* each named once, and neither the configuration nor a file defines or undefines
\* what the compiler defines.
IsWorkspace(ws) ==
    LET line == [op : STRING, name : STRING, how : STRING] IN
    /\ ws.text \in [DOMAIN ws.text -> Seq(line)]
    /\ ws.dir \in [DOMAIN ws.text -> STRING]
    /\ ws.paths \in Seq(STRING)
    /\ ws.provided \in Seq(DOMAIN ws.text)
    /\ \A i, j \in DOMAIN ws.provided : ws.provided[i] = ws.provided[j] => i = j
    /\ ws.defines \in SUBSET (STRING \ {Compiler})
    /\ ws.complete \in BOOLEAN
    /\ \A f \in DOMAIN ws.text : \A i \in DOMAIN ws.text[f] :
           ws.text[f][i].op \in {"define", "undef"} => ws.text[f][i].name # Compiler

\* The names that may be defined in a workspace.
NamesOf(ws) ==
    ws.defines \cup {Compiler} \cup UNION {{line.name : line \in Range(ws.text[f])} : f \in DOMAIN ws.text}

\* A file in a context.
Contexts(ws) == [file : DOMAIN ws.text, environment : SUBSET NamesOf(ws), root : STRING]

ASSUME WorkspacesAssumption ==
    \A i \in DOMAIN Workspaces : \A ws \in Workspaces[i] :
        IsWorkspace(ws) /\ None \notin Contexts(ws) /\ \A names \in SUBSET NamesOf(ws) : names # None

-----------------------------------------------------------------------------
(* The walk of one file *)

NewDefineContext(defines) == defines \cup {Compiler}

\* What is known of a condition: names that may come from elsewhere are unknown.
directiveValue(line, names, complete) ==
    LET known == line.name \in names
    IN  IF line.how = "value" \/ (~known /\ ~complete) THEN "unknown"
        ELSE IF known = (line.how = "defined") THEN "true" ELSE "false"

\* The next branch of a region: reached says whether the earlier ones leave it
\* to be compiled, and value what its condition says.
Branch(reached, value) ==
    CASE reached = "inactive" -> [reached |-> "inactive", branch |-> "inactive"]
      [] reached # "inactive" /\ value = "unknown" -> [reached |-> "uncertain", branch |-> "uncertain"]
      [] reached # "inactive" /\ value = "false" -> [reached |-> reached, branch |-> "inactive"]
      [] OTHER -> [reached |-> "inactive", branch |-> reached]

directiveActive(s) == ~s.ended /\ \A i \in DOMAIN s.nest : s.nest[i].branch = "active"

Outer(nest) == SubSeq(nest, 1, Len(nest) - 1)

\* indexConditionalStates: the branches around the next line.  A directive that is in
\* no region belongs to none.
NestAfter(s, line, value) ==
    CASE line.op = "if" -> Append(s.nest, Branch("active", value))
      [] line.op \in {"elseif", "else"} /\ s.nest # << >> ->
             Append(Outer(s.nest), Branch(Last(s.nest).reached, value))
      [] line.op = "endif" /\ s.nest # << >> -> Outer(s.nest)
      [] OTHER -> s.nest

\* DefineCursor.advance: the names known from the next line on.  snapshots has what an
\* include leaves defined, which stands for all that was known.
NamesAfter(s, line, at, snapshots) ==
    LET after == IF at \in DOMAIN snapshots /\ ~s.ended THEN snapshots[at] ELSE s.names
    IN  CASE line.op = "define" /\ directiveActive(s) -> after \cup {line.name}
          [] line.op = "undef" /\ directiveActive(s)  -> after \ {line.name}
          [] OTHER                                    -> after

\* indexNodeStates: what is known of a line, by what is around it.
NodeState(s) ==
    [names     |-> s.names,
     uncertain |-> \E i \in DOMAIN s.nest : s.nest[i].branch # "active",
     inactive  |-> s.ended \/ \E i \in DOMAIN s.nest : s.nest[i].branch = "inactive"]

\* One line: the input ends at an active #endinput.
Step(s, line, at, snapshots, complete) ==
    LET value == IF line.op = "else" THEN "true" ELSE directiveValue(line, s.names, complete) IN
    [names |-> NamesAfter(s, line, at, snapshots),
     nest  |-> NestAfter(s, line, value),
     ended |-> s.ended \/ (line.op = "endinput" /\ directiveActive(s)),
     nodes |-> Append(s.nodes, NodeState(s))]

\* The walk of a file: nodes says of each line what is defined before it, and
\* whether it is uncertain or inactive; names is what is defined at the end.
Walk(text, defines, snapshots, complete) ==
    LET upTo[n \in 0 .. Len(text)] ==
            IF n = 0
            THEN [names |-> NewDefineContext(defines), nest |-> << >>, ended |-> FALSE, nodes |-> << >>]
            ELSE Step(upTo[n - 1], text[n], n, snapshots, complete)
    IN  upTo[Len(text)]

-----------------------------------------------------------------------------
(* Includes *)

Context(file, environment, includeRoot) ==
    [file |-> file, environment |-> environment, root |-> includeRoot]

RootContext(ws, file) == Context(file, ws.defines, ws.dir[file])

NewFile == [includes |-> << >>, snapshots |-> << >>, final |-> None]

\* The include resolver, of a library: the files of that name beside the including
\* file and its root (of a quoted name only) and in the include paths, by the places
\* of their directories in this order.
ResolveAll(ws, from, name, how, includeRoot) ==
    LET dirs == (IF how = "quoted" THEN <<ws.dir[from], includeRoot>> ELSE << >>) \o ws.paths
        found(d) == {f \in DOMAIN ws.text : ws.dir[f] = d /\ ws.base[f] = name}
        places == {i \in DOMAIN dirs : found(dirs[i]) # {} /\ \A j \in 1 .. i - 1 : dirs[j] # dirs[i]}
    IN  [i \in places |-> CHOOSE f \in found(dirs[i]) : TRUE]

\* The candidate of the first directory.
Chosen(candidates) ==
    candidates[CHOOSE i \in DOMAIN candidates : \A j \in DOMAIN candidates : i <= j]

WalkOf(ws, c, file) == Walk(ws.text[c.file], c.environment, file.snapshots, ws.complete)

IsInclude(line) == line.op \in {"include", "tryinclude"}

\* The next include of a file after a line; 0 if there is none.
NextInclude(text, after) ==
    LET later == {i \in DOMAIN text : i > after /\ IsInclude(text[i])}
    IN  IF later = {} THEN 0 ELSE CHOOSE i \in later : \A j \in later : i <= j

Enter(ws, c) == [context |-> c, at |-> NextInclude(ws.text[c.file], 0)]

Init ==
    /\ \E i \in DOMAIN Workspaces : w \in Workspaces[i]
    /\ order = [i \in DOMAIN w.provided |-> RootContext(w, w.provided[i])]
    /\ files = [c \in Range(order) |-> NewFile]
    /\ stack = << >>
    /\ roots = order

Top == Last(stack)
Above == SubSeq(stack, 1, Len(stack) - 1)
LineAtTop == w.text[Top.context.file][Top.at]
NodeAtTop == WalkOf(w, Top.context, files[Top.context]).nodes[Top.at]
CandidatesAtTop == ResolveAll(w, Top.context.file, LineAtTop.name, LineAtTop.how, Top.context.root)
\* The context in which an include of a file is analysed knows no names of its own
\* (plausible bug).
TargetAtTop_Bare == Context(Chosen(CandidatesAtTop), w.defines, Top.context.root)
TargetAtTop == Context(Chosen(CandidatesAtTop), NodeAtTop.names, Top.context.root)

Advance(entry) == [entry EXCEPT !.at = NextInclude(w.text[entry.context.file], @)]

IncludeAt(at, to, candidates, uncertain, line) ==
    [at |-> at, to |-> to, candidates |-> candidates, uncertain |-> uncertain,
     optional |-> line.op = "tryinclude"]

\* What an include left defined replaces what was known, unless nothing changed.
Snapshot(snapshots, at, before, final) ==
    IF final \notin {None, {}} /\ before # final
    THEN [i \in DOMAIN snapshots \cup {at} |-> IF i = at THEN final ELSE snapshots[i]]
    ELSE snapshots

-----------------------------------------------------------------------------
\* The next provided file.
ResolveRoot ==
    /\ stack = << >> /\ roots # << >>
    /\ stack' = <<Enter(w, Head(roots))>>
    /\ roots' = Tail(roots)
    /\ UNCHANGED <<w, files, order>>

\* An include that is not compiled is not recorded; one that may be, and one that
\* no file matches, is, but leads nowhere.
SkipInclude ==
    /\ stack # << >> /\ Top.at # 0
    /\ LET node == NodeAtTop
           nowhere == IncludeAt(Top.at, None, << >>, node.uncertain, LineAtTop)
       IN  /\ node.inactive \/ node.uncertain \/ DOMAIN CandidatesAtTop = {}
           /\ files' = IF node.inactive THEN files
                       ELSE [files EXCEPT ![Top.context].includes = Append(@, nowhere)]
    /\ stack' = Append(Above, Advance(Top))
    /\ UNCHANGED <<w, order, roots>>

Follows ==
    /\ stack # << >> /\ Top.at # 0
    /\ ~NodeAtTop.inactive /\ ~NodeAtTop.uncertain /\ DOMAIN CandidatesAtTop # {}

Recorded(target) ==
    [files EXCEPT ![Top.context].includes =
        Append(@, IncludeAt(Top.at, target, CandidatesAtTop, FALSE, LineAtTop))]

\* A context that was met before: resolved, or still being resolved, which is a cycle.
MeetInclude ==
    /\ Follows
    /\ LET target == TargetAtTop IN
       /\ target \in DOMAIN files
       /\ files' = [Recorded(target) EXCEPT ![Top.context].snapshots =
                       Snapshot(@, Top.at, NodeAtTop.names, files[target].final)]
    /\ stack' = Append(Above, Advance(Top))
    /\ UNCHANGED <<w, order, roots>>

FollowInclude ==
    /\ Follows
    /\ LET target == TargetAtTop IN
       /\ target \notin DOMAIN files
       /\ files' = [c \in DOMAIN files \cup {target} |->
                       IF c = target THEN NewFile ELSE Recorded(target)[c]]
       /\ order' = Append(order, target)
       /\ stack' = Append(stack, Enter(w, target))
    /\ UNCHANGED <<w, roots>>

\* The end of a file: what it leaves defined is handed to the file that includes it.
FinishFile ==
    /\ stack # << >> /\ Top.at = 0
    /\ LET c == Top.context
           final == WalkOf(w, c, files[c]).names
           done == [files EXCEPT ![c].final = final]
       IN  IF Above = << >>
           THEN files' = done /\ stack' = << >>
           ELSE LET parent == Last(Above) IN
                /\ files' = [done EXCEPT ![parent.context].snapshots =
                                Snapshot(@, parent.at, c.environment, final)]
                /\ stack' = [Above EXCEPT ![Len(Above)] = Advance(@)]
    /\ UNCHANGED <<w, order, roots>>

Next == ResolveRoot \/ SkipInclude \/ MeetInclude \/ FollowInclude \/ FinishFile

Spec == Init /\ [][Next]_vars

Resolved == stack = << >> /\ roots = << >>
=============================================================================
