----------------------------- MODULE ProjectRun -----------------------------
(***************************************************************************)
(* A project model at work, and what the compiler makes of the same files: *)
(* it reads the text of a root with its includes in their places, knows    *)
(* every name and every value, and binds names to what it has read.        *)
(***************************************************************************)
EXTENDS ProjectModel

CONSTANTS
    Depth,     \* includes nest deeper than this only if they never end
    Elsewhere  \* names that may be defined where the linter does not see it

ASSUME DepthAssumption == Depth \in Nat

\* Names are strings, and none that a file declares or refers to is defined elsewhere.
ASSUME ElsewhereAssumption ==
    /\ Elsewhere \cup {Compiler} \subseteq STRING
    /\ \A i \in DOMAIN Workspaces : \A ws \in Workspaces[i] :
           \A f \in DOMAIN ws.text : \A k \in DOMAIN ws.text[f] :
               ws.text[f][k].op \in {"function", "forward", "global", "call", "use"} =>
                   ws.text[f][k].name \notin Elsewhere

model == [w |-> w, files |-> files, nodes |-> [c \in DOMAIN files |-> WalkOf(w, c, files[c]).nodes]]

-----------------------------------------------------------------------------
(* The text of a unit.                                                     *)

\* What the compiler knows and the linter may not: names that are defined elsewhere,
\* and what the conditions on values say.
Realities(ws) == [extra : IF ws.complete THEN {{}} ELSE SUBSET Elsewhere, value : BOOLEAN]

Holds(line, names, reality) ==
    IF line.how = "value" THEN reality.value ELSE (line.name \in names) = (line.how = "defined")

Directives == {"if", "elseif", "else", "endif"}

\* A name that is a macro where it stands is none of the program's names.
IsMacro(line, names) == line.op \in {"function", "forward", "global", "call", "use"} /\ line.name \in names

\* The regions around the next line: whether one of their branches was taken, and
\* whether this one is.
RegionsAfter(nest, line, holds) ==
    LET last == Last(nest) IN
    CASE line.op = "if" -> Append(nest, [taken |-> holds, active |-> holds])
      [] line.op \in {"elseif", "else"} /\ nest # << >> ->
             Append(Outer(nest), [taken |-> last.taken \/ holds, active |-> ~last.taken /\ holds])
      [] line.op = "endif" /\ nest # << >> -> Outer(nest)
      [] OTHER -> nest

\* The text of a file: its lines, each with the includes that lead to it, and the names
\* that are defined at its end.
NewText(names, endless) == [names |-> names, items |-> {}, endless |-> endless]

\* The lines of a text where it is included.
Included(items, file, at) == {[item EXCEPT !.chain = << <<file, at>> >> \o @] : item \in items}

\* What a line that is compiled makes of the text; within is the text it includes.
TextAfter(text, file, line, at, within) ==
    LET item == [chain |-> << >>, file |-> file, at |-> at, macro |-> IsMacro(line, text.names)]
    IN  [names |-> CASE line.op = "define" -> text.names \cup {line.name}
                     [] line.op = "undef"  -> text.names \ {line.name}
                     [] OTHER              -> within.names,
         items |-> text.items \cup {item} \cup Included(within.items, file, at),
         endless |-> within.endless]

IsCompiled(s) == ~s.ended /\ ~s.text.endless /\ \A i \in DOMAIN s.nest : s.nest[i].active

\* A line.  texts has the text of each file as it is read under given names, with so many
\* includes left before it is clear that they never end; root is the directory of the root.
ReadLine(ws, reality, root, texts, left, file, s, at) ==
    LET line == ws.text[file][at]
        hits == ResolveAll(ws, file, line.name, line.how, root)
        within == IF ~IsInclude(line) \/ DOMAIN hits = {} THEN NewText(s.text.names, FALSE)
                  ELSE IF left = 0 THEN NewText(s.text.names, TRUE)
                  ELSE texts[<<left - 1, Chosen(hits), s.text.names>>]
        holds == line.op = "else" \/ Holds(line, s.text.names, reality)
    IN  IF line.op \in Directives THEN [s EXCEPT !.nest = RegionsAfter(@, line, holds)]
        ELSE IF ~IsCompiled(s) THEN s
        ELSE [text |-> TextAfter(s.text, file, line, at, within), nest |-> s.nest, ended |-> line.op = "endinput"]

ReadFile(ws, reality, root, texts, left, file, names) ==
    LET upTo[n \in 0 .. Len(ws.text[file])] ==
            IF n = 0 THEN [text |-> NewText(names, FALSE), nest |-> << >>, ended |-> FALSE]
            ELSE ReadLine(ws, reality, root, texts, left, file, upTo[n - 1], n)
    IN  upTo[Len(ws.text[file])].text

Text(ws, reality, file) ==
    LET texts[x \in (0 .. Depth) \X (DOMAIN ws.text) \X SUBSET STRING] ==
            ReadFile(ws, reality, ws.dir[file], texts, x[1], x[2], x[3])
    IN  texts[<<Depth, file, ws.defines \cup reality.extra \cup {Compiler}>>]

\* What a name in a text is bound to: the static of its file, or else the definitions
\* that are not static.
Bindings(ws, text, item) ==
    LET line == ws.text[item.file][item.at]
        ops == IF line.op = "call" THEN {"function"} ELSE Values
        named == {d \in text.items : ~d.macro /\ ws.text[d.file][d.at].op \in ops /\ ws.text[d.file][d.at].name = line.name}
        own == {d \in named : ws.text[d.file][d.at].how = "static" /\ d.file = item.file}
        shared == {d \in named : ws.text[d.file][d.at].how # "static"}
    IN  IF item.macro THEN {} ELSE {<<d.file, d.at>> : d \in IF own # {} THEN own ELSE shared}

\* Two definitions of a name that the compiler refuses in one unit.
Clashes(ws, text) ==
    LET refused(d, e) ==
            LET a == ws.text[d.file][d.at]  b == ws.text[e.file][e.at] IN
            /\ ~d.macro /\ ~e.macro
            /\ a.op = b.op /\ a.op \in {"function", "global"} /\ a.name = b.name
            /\ <<d.file, d.at>> # <<e.file, e.at>>
            /\ "static" \in {a.how, b.how} => d.file = e.file /\ a.how = b.how
    IN  {p \in text.items \X text.items : refused(p[1], p[2])}

\* One name for a function and a value, or for a static and a shared definition of
\* one file: the compiler refuses these too.
Mixed(ws, text) ==
    LET refused(d, e) ==
            LET a == ws.text[d.file][d.at]  b == ws.text[e.file][e.at] IN
            /\ a.op \in Functions \cup Values /\ b.op \in Functions \cup Values /\ a.name = b.name
            /\ \/ a.op \in Functions /\ b.op \in Values
               \/ d.file = e.file /\ a.op = b.op /\ a.how = "static" /\ b.how # "static"
    IN  {p \in text.items \X text.items : refused(p[1], p[2])}

-----------------------------------------------------------------------------
(* Properties.  They are about units whose text the linter can know: no    *)
(* define, include or end of input depends on something it does not know.  *)

Roots == unitRoots(model)

\* The contexts of a unit.
Unit(m, r) ==
    LET within[n \in 0 .. Depth] ==
            IF n = 0 THEN {r}
            ELSE within[n - 1] \cup {e.to : e \in {e \in UNION {Range(m.files[c].includes) : c \in within[n - 1]} : e.to # None}}
    IN  within[Depth]

Settled(m, r) ==
    \A c \in Unit(m, r) : \A i \in DOMAIN NodesOf(m, c) :
        m.w.text[c.file][i].op \in {"define", "undef", "endinput", "include", "tryinclude"} =>
            NodesOf(m, c)[i].inactive \/ ~NodesOf(m, c)[i].uncertain

\* The lines of a file as the linter sees them, with those of the files it includes;
\* lines has those of each file, with so many includes left.
SeenIn(m, lines, left, c) ==
    LET ops(i) == m.w.text[c.file][i].op
        item(i) == [chain |-> << >>, file |-> c.file, at |-> i, macro |-> IsMacro(m.w.text[c.file][i], NodesOf(m, c)[i].names)]
        own == {[item |-> item(i), of |-> At(c, i), node |-> NodesOf(m, c)[i]] :
                   i \in {i \in DOMAIN NodesOf(m, c) : ops(i) \notin Directives}}
        deeper(e) == {[s EXCEPT !.item.chain = << <<c.file, e.at>> >> \o @] : s \in lines[<<left - 1, e.to>>]}
    IN  own \cup UNION {deeper(e) : e \in {e \in Range(m.files[c].includes) : e.to # None /\ left # 0}}

Seen(m, r) ==
    LET lines[x \in (0 .. Depth) \X DOMAIN m.files] == SeenIn(m, lines, x[1], x[2])
    IN  lines[<<Depth, r>>]

\* What the linter takes for active is compiled, and what it takes for inactive is
\* not, wherever and however often a file is included.
UnitsAreTexts ==
    Resolved => LET m == model IN \A r \in Roots : Settled(m, r) => \A reality \in Realities(w) :
        LET text == Text(w, reality, r.file)
            seen == Seen(m, r)
        IN  ~text.endless =>
                /\ {s.item : s \in {s \in seen : ~s.node.inactive /\ ~s.node.uncertain}} \subseteq text.items
                /\ text.items \subseteq {s.item : s \in {s \in seen : ~s.node.inactive}}

\* A cycle of includes is reported just when the compiler would never come to the
\* end of the text of some unit.
CyclesAreEndless ==
    Resolved => LET m == model IN
        (needsUnits(m) /\ "includeCycles" \in w.features /\ \A r \in Roots : Settled(m, r)) =>
            LET cycles == buildIncludeCycles(m)
                endless == {r \in Roots : \A reality \in Realities(w) : Text(w, reality, r.file).endless}
            IN  /\ {k.owner : k \in cycles} \subseteq endless
                /\ cycles = {} => endless = {}

\* The texts of the units that compile, as far as the linter can know them.
Compiled(m) ==
    LET units == UNION {{[root |-> r, text |-> Text(w, reality, r.file)] : reality \in Realities(w)} :
                           r \in {r \in Roots : Settled(m, r)}}
    IN  {u \in units : ~u.text.endless /\ Clashes(w, u.text) = {} /\ Mixed(w, u.text) = {}}

\* A name the linter resolves to a definition is bound to it by the compiler, in every
\* unit that has it and binds it at all.
ReferencesAreBindings ==
    Resolved => LET m == model  references == buildReferences(m) IN
        \A u \in Compiled(m) : \A s \in Seen(m, u.root) :
            (s.of \in DOMAIN references /\ s.item \in u.text.items) =>
                LET bound == Bindings(w, u.text, s.item)
                    resolved == {Physical(d) : d \in {d \in Resolve(references, s.of) : LineOf(m, d).op # "forward"}}
                IN  Cardinality(bound) = 1 /\ resolved # {} => resolved = bound

\* What the linter calls unused is not bound to anything.  A forward declaration in
\* another file takes the calls of that file away from the definition, and a static of
\* the same name makes the calls of other files ambiguous: this is about the names
\* that a unit declares once.
DeclaredOnce(m, d) ==
    \A u \in unitsOf(m) : d.context \in u.members =>
        \A c \in UNION {Symbols(m, f) : f \in u.members} :
            LineOf(m, c).name = LineOf(m, d).name => Physical(c) = Physical(d)

UnusedIsUnbound ==
    Resolved => LET m == model
                    unused == {d \in unusedSymbols(m, buildReferences(m)) : DeclaredOnce(m, d)}
                IN  unused # {} => \A u \in Compiled(m) : \A item \in u.text.items :
                        w.text[item.file][item.at].op \in {"call", "use"} =>
                            Bindings(w, u.text, item) \cap {Physical(d) : d \in unused} = {}

\* Names mean what the compiler takes them for, and those that nothing means are the
\* unused ones.
NamesAreBound == ReferencesAreBindings /\ UnusedIsUnbound

\* A name is reported as defined twice just when some unit has two definitions of it
\* that the compiler refuses, whatever it is that the linter does not know.
DuplicatesClash ==
    Resolved => LET m == model  duplicates == buildDuplicateFunctions(m) \cup buildDuplicateGlobals(m) IN
        (needsUnits(m) /\ \A r \in Roots : Settled(m, r)) =>
        LET clashes(r) == [reality \in Realities(w) |-> Clashes(w, Text(w, reality, r.file))]
            certain(r) == LET all == clashes(r) IN
                {p \in UNION Range(all) : \A reality \in DOMAIN all : p \in all[reality]}
        IN  {d.name : d \in duplicates} = UNION {{w.text[p[1].file][p[1].at].name : p \in certain(r)} : r \in Roots}

\* A conflict that is reported is one in some unit, whatever it is that the linter
\* does not know: a function and a value of one name.
ConflictsClash ==
    Resolved => LET m == model IN
        \A d \in buildConflicts(m) : \E r \in Roots : \A reality \in Realities(w) :
            \E p \in Mixed(w, Text(w, reality, r.file)) : w.text[p[1].file][p[1].at].name = d.name

\* What is reported to clash clashes, and what clashes as a duplicate is reported.
ClashesAreReported == DuplicatesClash /\ ConflictsClash

\* A file that is analysed in one context only.
Once(m, file) == \A c, d \in DOMAIN m.files : c.file = file /\ d.file = file => c = d

\* Taking out an include that is reported as unused changes nothing else: the other
\* lines are compiled as before, and their names are bound as before.  A file that is
\* included under several sets of defines is judged for each alone, and may need the
\* include for another; and the names it declares are declared once, as above.
OwnNames(m, s) ==
    \A d \in AllSymbols(m) : d.context \in Closure(m, s.include.to) => DeclaredOnce(m, d)

UnusedIncludesAreFree ==
    Resolved => LET m == model  references == buildReferences(m) IN
        \A s \in {s \in buildUnusedIncludes(m, references) : Once(m, s.context.file) /\ OwnNames(m, s)} :
            LET edge == <<s.context.file, s.include.at>>
                taken == [w EXCEPT !.text[edge[1]][edge[2]].op = "blank"]
                kept(text) == {i \in text.items : edge \notin Range(i.chain) /\ <<i.file, i.at>> # edge}
            IN  \A u \in Compiled(m) : \A reality \in Realities(w) :
                    Text(w, reality, u.root.file) = u.text =>
                    LET after == Text(taken, reality, u.root.file) IN
                    /\ {i \in after.items : <<i.file, i.at>> # edge} = kept(u.text)
                    /\ \A i \in kept(u.text) : w.text[i.file][i.at].op \in {"call", "use"} =>
                           Bindings(w, u.text, i) = Bindings(taken, after, i)
\* What is said of includes is true of the text: which of them never end, and which
\* nobody needs.
IncludesAreJudged == CyclesAreEndless /\ UnusedIncludesAreFree
=============================================================================
