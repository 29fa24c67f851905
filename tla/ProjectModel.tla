---------------------------- MODULE ProjectModel ----------------------------
(***************************************************************************)
(* What a project model says once its includes are resolved (pkg/project,  *)
(* internal/semantic): units, cycles, declarations, references and what    *)
(* the project rules report of them.  m has the workspace, the files by    *)
(* their contexts and the nodes of their walks; a declaration or a         *)
(* reference is a line of a file in a context.                             *)
(***************************************************************************)
EXTENDS Includes

At(c, i) == [context |-> c, at |-> i]
LineOf(m, node) == m.w.text[node.context.file][node.at]
Physical(node) == <<node.context.file, node.at>>
NodesOf(m, c) == m.nodes[c]

-----------------------------------------------------------------------------
(* Features (features.go): some need others, and units are built for some. *)

withDependencies(features) ==
    LET a == IF "unusedIncludes" \in features THEN features \cup {"includeIssues", "references"} ELSE features
        b == IF a \cap {"functionEffects", "runtimeCalls"} # {} THEN a \cup {"callGraph"} ELSE a
    IN  IF "callGraph" \in b THEN b \cup {"references"} ELSE b

needsDeclarations(m) == withDependencies(m.w.features) \cap {"references", "duplicates", "conflicts"} # {}
needsUnits(m) == needsDeclarations(m) \/ "callGraph" \in withDependencies(m.w.features)

-----------------------------------------------------------------------------
(* Units (units.go): the provided .pwn files, or all provided files, each  *)
(* with what it includes, depth first.                                     *)

Targets(m, c) ==
    LET edges == SelectSeq(m.files[c].includes, LAMBDA e : ~e.uncertain /\ e.to # None)
    IN  [i \in DOMAIN edges |-> edges[i].to]

\* The files of the unit of a root, in the order they are reached.
UnitFiles(m, root) ==
    LET visit[x \in Seq(DOMAIN m.files) \X DOMAIN m.files] ==
            IF x[2] \in Range(x[1]) THEN x[1]
            ELSE FoldLeft(LAMBDA seen, to : visit[<<seen, to>>], Append(x[1], x[2]), Targets(m, x[2]))
    IN  visit[<< << >>, root>>]

ProvidedContexts(m) == [i \in DOMAIN m.w.provided |-> RootContext(m.w, m.w.provided[i])]

unitRoots(m) ==
    LET all == Range(ProvidedContexts(m))
        pwn == {c \in all : c.file \in m.w.pwn}
    IN  IF ~needsUnits(m) THEN {} ELSE IF pwn = {} THEN all ELSE pwn

\* includeClosure: a context and what it includes.
Closure(m, c) == Range(UnitFiles(m, c))

unitsOf(m) == {[root |-> r, files |-> UnitFiles(m, r), members |-> Closure(m, r)] : r \in unitRoots(m)}

-----------------------------------------------------------------------------
(* Cycles (cycles.go): the includes of a file that is still being visited. *)

\* Every include of a file that was seen closes a cycle (plausible bug).
closes_Seen(s, to) == to \in Range(s.path) \cup s.closed
closes(s, to) == to \in Range(s.path)

\* The edges from the file that is included again to the include that does it.
cycleEdges(s, edge) ==
    IF \E i \in DOMAIN s.path : s.path[i] = edge.to
    THEN LET start == CHOOSE i \in DOMAIN s.path : s.path[i] = edge.to
         IN  SubSeq(s.edges, start, Len(s.edges)) \o <<edge>>
    ELSE <<edge>>

\* Two cycles are the same when their directives are, wherever they start.
Rotations(edges) ==
    LET physical == [i \in DOMAIN edges |-> <<edges[i].from.file, edges[i].at, edges[i].to.file>>]
    IN  {SubSeq(physical, i, Len(edges)) \o SubSeq(physical, 1, i - 1) : i \in DOMAIN edges}

\* What the visit of c makes of one of its includes; deeper has the visits of others.
followCycle(m, owner, t, c, e, deeper) ==
    LET edge == [from |-> c, at |-> e.at, to |-> e.to]
        cycle == Rotations(cycleEdges(t, edge))
        known == \E k \in t.cycles : k.edges = cycle
        found == IF closes(t, e.to) /\ ~known
                 THEN [t EXCEPT !.cycles = @ \cup {[owner |-> owner, edges |-> cycle]}] ELSE t
    IN  IF e.uncertain \/ e.to = None THEN t
        ELSE IF e.to \in Range(t.path) \cup t.closed THEN found
        ELSE [deeper[<<[found EXCEPT !.edges = Append(@, edge)], e.to>>] EXCEPT !.edges = t.edges]

\* The states of a visit: the contexts above, the edges that lead there, the contexts
\* that were left, and the cycles.
CycleVisits(m) ==
    LET edge == STRING \X Nat \X STRING IN
    [path : Seq(DOMAIN m.files), closed : SUBSET DOMAIN m.files,
     edges : Seq([from : DOMAIN m.files, at : Nat, to : DOMAIN m.files]),
     cycles : SUBSET [owner : DOMAIN m.files, edges : SUBSET Seq(edge)]]

visitCycles(m, owner, cycles) ==
    LET visit[x \in CycleVisits(m) \X DOMAIN m.files] ==
            LET left == FoldLeft(LAMBDA t, e : followCycle(m, owner, t, x[2], e, visit),
                                 [x[1] EXCEPT !.path = Append(@, x[2])], m.files[x[2]].includes)
            IN  [left EXCEPT !.path = x[1].path, !.closed = @ \cup {x[2]}]
    IN  visit[<<[path |-> << >>, edges |-> << >>, closed |-> {}, cycles |-> cycles], owner>>].cycles

\* The cycles of each unit, each reported for the first unit that has it.
buildIncludeCycles(m) ==
    LET visitUnit(cycles, r) == IF r \in unitRoots(m) THEN visitCycles(m, r, cycles) ELSE cycles
    IN  IF "includeCycles" \in withDependencies(m.w.features)
        THEN FoldLeft(visitUnit, {}, ProvidedContexts(m)) ELSE {}

-----------------------------------------------------------------------------
(* Symbols (internal/semantic): what a file declares, and what its names   *)
(* refer to within the file.                                               *)

Functions == {"function", "forward"}
Values == {"global", "enum"}

\* declare: nothing that may not be compiled is declared; what follows #endinput is.
Symbols(m, c) ==
    LET nodes == NodesOf(m, c) IN
    {At(c, i) : i \in {i \in DOMAIN nodes :
        m.w.text[c.file][i].op \in Functions \cup Values /\ ~nodes[i].uncertain}}

\* stateVariantsCoexist: a forward and a definition stand side by side.
Coexist(m, a, b) ==
    LineOf(m, a).op \in Functions /\ LineOf(m, b).op \in Functions /\ LineOf(m, a).op # LineOf(m, b).op

Ambiguous(m, d) ==
    LET line == LineOf(m, d) IN
    \E other \in Symbols(m, d.context) \ {d} :
        LineOf(m, other).name = line.name /\ ~Coexist(m, other, d)

AllSymbols(m) == UNION {Symbols(m, c) : c \in DOMAIN m.files}

\* The calls and uses of a file that may be compiled.
ReferencesIn(m, c) ==
    LET nodes == NodesOf(m, c) IN
    {At(c, i) : i \in {i \in DOMAIN nodes : m.w.text[c.file][i].op \in {"call", "use"} /\ ~nodes[i].inactive}}

Single(S) == IF Cardinality(S) = 1 THEN S ELSE {}

\* resolveInScope: the only symbol of the kind, or the only definition.
ResolveInFile(m, ref) ==
    LET line == LineOf(m, ref)
        kinds == IF line.op = "call" THEN Functions ELSE Values
        candidates == {d \in Symbols(m, ref.context) : LineOf(m, d).name = line.name /\ LineOf(m, d).op \in kinds}
        definitions == {d \in candidates : LineOf(m, d).op = "function"}
    IN  IF Cardinality(candidates) = 1 THEN candidates ELSE Single(definitions)

-----------------------------------------------------------------------------
(* References across files (declarations.go).                              *)

Named(m, symbols, u, name) ==
    {d \in symbols : d.context \in u.members /\ LineOf(m, d).name = name /\ ~Ambiguous(m, d)}

\* functionVariantsNamed: the definition of the units of a file, or the declaration.
functionVariants(m, symbols, units, c, name) ==
    LET named == UNION {Named(m, symbols, u, name) : u \in {v \in units : c \in v.members}}
        definitions == {d \in named : LineOf(m, d).op = "function"}
        declarations == {d \in named : LineOf(m, d).op = "forward"}
    IN  Single(IF definitions # {} THEN definitions ELSE declarations)

\* One candidate of several is as good as the only one (plausible bug).
resolveInUnit_Any(m, symbols, u, ref) ==
    LET line == LineOf(m, ref)
        named == Named(m, symbols, u, line.name)
        candidates == {d \in named : LineOf(m, d).op \in (IF line.op = "call" THEN {"function"} ELSE Values)}
    IN  IF candidates = {} THEN {} ELSE {CHOOSE d \in candidates : TRUE}

resolveInUnit(m, symbols, u, ref) ==
    LET line == LineOf(m, ref)
        named == Named(m, symbols, u, line.name)
        candidates == {d \in named : LineOf(m, d).op \in (IF line.op = "call" THEN {"function"} ELSE Values)}
    IN  IF line.op = "use" /\ \E d \in named : d.context = ref.context THEN {} ELSE Single(candidates)

addUnresolvedReference(m, symbols, units, u, ref) ==
    LET variants == IF LineOf(m, ref).op = "call"
                    THEN functionVariants(m, symbols, units, ref.context, LineOf(m, ref).name) ELSE {}
    IN  IF variants # {} THEN variants ELSE resolveInUnit(m, symbols, u, ref)

\* All declarations a reference is added to.
declarationsOf(m, symbols, units, ref) ==
    LET here == ResolveInFile(m, ref)
    IN  IF here # {} THEN here
        ELSE UNION {addUnresolvedReference(m, symbols, units, u, ref) : u \in {v \in units : ref.context \in v.members}}

buildReferences(m) ==
    LET symbols == AllSymbols(m)
        units == unitsOf(m)
        refs == UNION {ReferencesIn(m, c) : c \in DOMAIN m.files}
    IN  [ref \in refs |-> declarationsOf(m, symbols, units, ref)]

\* Resolve: a reference that was added to two declarations is ambiguous.
Resolve(references, ref) == Single(references[ref])

References(references, d) == {ref \in DOMAIN references : d \in references[ref]}

-----------------------------------------------------------------------------
(* Definitions that clash (duplicates.go, conflicts.go).                   *)

FileRank(c) == CHOOSE i \in 1 .. 5 : <<"a", "b", "c", "m", "n">>[i] = c.file

\* A static or public function is told apart by its file too.
duplicateKey(m, node) ==
    LET line == LineOf(m, node) IN
    <<IF line.how \in {"static", "public"} THEN node.context.file ELSE "", line.name>>

\* Definitions, in the order of the files of the unit and of their lines.  A function
\* whose name is a macro there is left out.
definitionsIn(m, u, op, storages) ==
    LET of(c) ==
            LET nodes == NodesOf(m, c)
                counts(d) ==
                    /\ LineOf(m, d).op = op /\ LineOf(m, d).how \in storages
                    /\ ~nodes[d.at].inactive /\ ~nodes[d.at].uncertain
                    /\ op = "function" => LineOf(m, d).name \notin nodes[d.at].names
            IN  SelectSeq([i \in DOMAIN nodes |-> At(c, i)], counts)
    IN  FlattenSeq([i \in DOMAIN u.files |-> of(u.files[i])])

\* Only the next definition of the name is compared (plausible bug).
laterDefinitions_Next(m, defs, i) ==
    {j \in {i + 1} \cap DOMAIN defs : duplicateKey(m, defs[j]) = duplicateKey(m, defs[i])}

laterDefinitions(m, defs, i) ==
    {j \in i + 1 .. Len(defs) : duplicateKey(m, defs[j]) = duplicateKey(m, defs[i])}

\* The first definition of each name with each later one that is not the same text.
duplicatesOf(m, u, op, storages) ==
    LET defs == definitionsIn(m, u, op, storages)
        firsts == {i \in DOMAIN defs : \A j \in 1 .. i - 1 : duplicateKey(m, defs[j]) # duplicateKey(m, defs[i])}
    IN  {[name |-> LineOf(m, defs[p[1]]).name, first |-> Physical(defs[p[1]]), second |-> Physical(defs[p[2]])] :
            p \in {q \in firsts \X DOMAIN defs :
                q[2] \in laterDefinitions(m, defs, q[1]) /\ Physical(defs[q[1]]) # Physical(defs[q[2]])}}

buildDuplicateFunctions(m) ==
    UNION {duplicatesOf(m, u, "function", {"", "stock", "static", "public"}) : u \in unitsOf(m)}

buildDuplicateGlobals(m) ==
    UNION {duplicatesOf(m, u, "global", {"new", "static", "const"}) : u \in unitsOf(m)}

\* duplicateRuleCovers: two functions, or two globals, are for the other rules.
coveredByDuplicates(m, first, second) == LineOf(m, first).op = LineOf(m, second).op

conflictEligible(m, d) ==
    LET line == LineOf(m, d) IN
    /\ ~Ambiguous(m, d)
    /\ \/ line.op = "function" /\ line.how \in {"", "stock", "static"}
       \/ line.op = "global" /\ line.how \in {"new", "const"}
       \/ line.op = "enum"

\* buildConflictingIncludeSymbols: a name that a file before it in the order of the
\* paths declares too, as something else.
buildConflicts(m) ==
    LET eligible(u) == {d \in AllSymbols(m) : d.context \in u.members /\ conflictEligible(m, d)}
        conflicting(all) ==
            {d \in all : \E first \in all :
                /\ FileRank(first.context) < FileRank(d.context)
                /\ LineOf(m, first).name = LineOf(m, d).name
                /\ ~coveredByDuplicates(m, first, d)}
    IN  UNION {{[name |-> LineOf(m, d).name, second |-> Physical(d)] : d \in conflicting(eligible(u))} : u \in unitsOf(m)}

-----------------------------------------------------------------------------
(* Include issues (include_issues.go, unused_includes.go).                 *)

\* assign: the unit or the provided file that an include is reported for.
Owners(m) ==
    LET assign(owners, r) == owners @@ [c \in Closure(m, r) \ DOMAIN owners |-> r]
        assignUnit(owners, r) == IF r \in unitRoots(m) THEN assign(owners, r) ELSE owners
        units == FoldLeft(assignUnit, << >>, ProvidedContexts(m))
    IN  FoldLeft(assign, units, ProvidedContexts(m))

IncludeIssues(m) ==
    LET owners == Owners(m)
        of(c) == {[owner |-> owners[c], context |-> c, include |-> e] :
                     e \in {e \in Range(m.files[c].includes) : ~e.uncertain}}
    IN  UNION {of(c) : c \in DOMAIN owners}

\* The model without one include.
Without(m, s) ==
    [m EXCEPT !.files[s.context].includes = SelectSeq(@, LAMBDA e : e.at # s.include.at)]

reachableWithout(m, s) == s.include.to \in Closure(Without(m, s), s.owner)

\* Defines are no effect (plausible bug).
hasActiveIncludeEffects_Endinput(m, c) ==
    \E i \in DOMAIN m.w.text[c.file] :
        m.w.text[c.file][i].op \in {"endinput"} /\ ~NodesOf(m, c)[i].inactive

hasActiveIncludeEffects(m, c) ==
    \E i \in DOMAIN m.w.text[c.file] :
        m.w.text[c.file][i].op \in {"define", "undef", "endinput"} /\ ~NodesOf(m, c)[i].inactive

\* Nothing but definitions that are dropped when they are not used.
safeUnusedIncludeFile(m, c) ==
    /\ m.w.complete
    /\ \A ref \in ReferencesIn(m, c) : ResolveInFile(m, ref) # {}
    /\ ~hasActiveIncludeEffects(m, c)
    /\ \A d \in Symbols(m, c) :
           LET line == LineOf(m, d) IN
           /\ line.op \in Functions => line.op = "function" /\ line.how \in {"stock", "static"}
           /\ line.op = "global" => line.how = "const"

buildUnusedIncludes(m, references) ==
    {s \in IncludeIssues(m) :
        /\ "unusedIncludes" \in withDependencies(m.w.features)
        /\ s.include.to # None /\ ~s.include.optional /\ ~reachableWithout(m, s)
        /\ LET closure == Closure(m, s.include.to) IN
           /\ \A c \in closure : safeUnusedIncludeFile(m, c)
           /\ \A d \in AllSymbols(m) : d.context \in closure =>
                  \A ref \in References(references, d) : ref.context \in closure}

-----------------------------------------------------------------------------
(* The rules about unused symbols (unused_project_symbols.go): they look   *)
(* at the provided files of programs.                                      *)

InProgram(m, c) == \E u \in unitsOf(m) : u.root.file \in m.w.pwn /\ c \in u.members

unusedSymbols(m, references) ==
    {d \in UNION {Symbols(m, RootContext(m.w, f)) : f \in Range(m.w.provided)} :
        /\ InProgram(m, d.context) /\ ~Ambiguous(m, d)
        /\ \/ LineOf(m, d).op = "function" /\ LineOf(m, d).how \in {"", "static"}
           \/ LineOf(m, d).op = "global" /\ LineOf(m, d).how # "public"
        /\ References(references, d) = {}}
=============================================================================
