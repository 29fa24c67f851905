--------------------------- MODULE ProjectRun_proofs ---------------------------
(***************************************************************************)
(* Every unit whose text the linter can know is read as the compiler reads *)
(* it, for all workspaces and depths of includes.                          *)
(*   - Walks, texts and the lines of a unit are recursive functions: that  *)
(*     they are what their recursion says is shown first.                  *)
(*   - The invariant (IInv) says of each context what the resolver has     *)
(*     made of its includes so far: each leads to the file that the walk,  *)
(*     with what the includes before it left defined, sends it to, and     *)
(*     leaves what that file leaves, unless the file leads back to it.     *)
(*   - Line by line the walk and the compiler stay near (StateNear): the   *)
(*     compiler has the names the linter knows and no others but those     *)
(*     from elsewhere, and takes no branch that the linter rules out.      *)
(*   - With so many includes left, a text that ends has no include that    *)
(*     leads back to itself, leaves what the linter says (FinalNear) and   *)
(*     has the lines that the linter sees (SeenNear): by induction on what *)
(*     is left.                                                            *)
(***************************************************************************)
EXTENDS ProjectRun, TLAPS, NaturalsInduction, WellFoundedInduction, SequenceTheorems

LEMMA Least ==
    ASSUME NEW T \in SUBSET Nat, T # {}
    PROVE  \E x \in T : \A y \in T : x <= y
<1>1. PICK x \in T : \A y \in T : ~ (<<y, x>> \in OpToRel(<, Nat))
  <2>1. IsWellFoundedOn(OpToRel(<, Nat), Nat)
    BY NatLessThanWellFounded
  <2> QED BY <2>1, WFMin
<1>2. ASSUME NEW y \in T PROVE x <= y
  <2>1. x \in Nat /\ y \in Nat
    OBVIOUS
  <2>2. ASSUME y < x PROVE FALSE
    <3>1. <<y, x>> \in OpToRel(<, Nat)
      BY <2>1, <2>2 DEF OpToRel
    <3> QED BY <3>1, <1>1
  <2> QED BY <2>1, <2>2
<1> QED BY <1>2

\* Induction, for a set of numbers.
LEMMA Induction ==
    ASSUME NEW S \in SUBSET Nat, 0 \in S, \A n \in S : n + 1 \in S
    PROVE  S = Nat
<1> SUFFICES ASSUME Nat \ S # {} PROVE FALSE
  OBVIOUS
<1>1. PICK x \in Nat \ S : \A y \in Nat \ S : x <= y
  BY Least
<1>2. x # 0 /\ x - 1 \in Nat
  BY <1>1
<1>3. x - 1 \in S
  BY <1>1, <1>2
<1> QED BY <1>1, <1>2, <1>3

\* The same, up to a number.
LEMMA InductionUpTo ==
    ASSUME NEW N \in Nat, NEW S, 0 \in S, \A n \in 0 .. N - 1 : n \in S => n + 1 \in S
    PROVE  \A n \in 0 .. N : n \in S
<1> DEFINE T == {n \in Nat : n <= N => n \in S}
<1>1. T \in SUBSET Nat /\ 0 \in T
  OBVIOUS
<1>2. ASSUME NEW n \in T PROVE n + 1 \in T
  OBVIOUS
<1> HIDE DEF T
<1>3. T = Nat
  BY <1>1, <1>2, Induction
<1> USE DEF T
<1> QED BY <1>3

-----------------------------------------------------------------------------
(* The walk of a file. *)

WalkStart(defines) == [names |-> NewDefineContext(defines), nest |-> << >>, ended |-> FALSE, nodes |-> << >>]

\* The states of a walk after each number of lines.
WalkStates(text, defines, snapshots, complete) ==
    LET upTo[n \in 0 .. Len(text)] ==
            IF n = 0
            THEN [names |-> NewDefineContext(defines), nest |-> << >>, ended |-> FALSE, nodes |-> << >>]
            ELSE Step(upTo[n - 1], text[n], n, snapshots, complete)
    IN  upTo

LEMMA WalkSteps ==
    ASSUME NEW text, Len(text) \in Nat, NEW defines, NEW snapshots, NEW complete
    PROVE  LET upTo == WalkStates(text, defines, snapshots, complete) IN
           /\ upTo[0] = WalkStart(defines)
           /\ \A n \in 1 .. Len(text) : upTo[n] = Step(upTo[n - 1], text[n], n, snapshots, complete)
           /\ Walk(text, defines, snapshots, complete) = upTo[Len(text)]
<1> DEFINE N == Len(text)
           Do(n, f) == IF n = 0 THEN WalkStart(defines) ELSE Step(f, text[n], n, snapshots, complete)
           upTo[n \in 0 .. N] == Do(n, upTo[n - 1])
           IsUpTo(n, g) == \A k \in 0 .. n : g[k] = Do(k, g[k - 1])
           S == {n \in Nat : \E g : IsUpTo(n, g)}
<1>1. 0 \in S
  <2>1. IsUpTo(0, [k \in 0 .. 0 |-> WalkStart(defines)])
    OBVIOUS
  <2> QED BY <2>1
<1>2. ASSUME NEW n \in S PROVE n + 1 \in S
  <2>1. PICK g : IsUpTo(n, g)
    OBVIOUS
  <2> DEFINE h == [k \in 0 .. n + 1 |-> IF k = n + 1 THEN Do(n + 1, g[n]) ELSE g[k]]
  <2>2. ASSUME NEW k \in 0 .. n + 1 PROVE h[k] = Do(k, h[k - 1])
    <3>1. n \in Nat /\ (k # 0 => h[k - 1] = g[k - 1])
      OBVIOUS
    <3>2. CASE k = n + 1
      <4>1. h[k] = Do(k, g[k - 1]) /\ k # 0
        BY <3>1, <3>2
      <4> QED BY <3>1, <4>1
    <3>3. CASE k # n + 1
      <4>1. k \in 0 .. n /\ h[k] = g[k]
        BY <3>1, <3>3
      <4>2. Do(k, g[k - 1]) = Do(k, h[k - 1])
        <5> HIDE DEF h
        <5> QED BY <3>1
      <4> HIDE DEF h
      <4> QED BY <2>1, <4>1, <4>2
    <3> QED BY <3>2, <3>3
  <2> HIDE DEF h
  <2> QED BY <2>2
<1>3. S = Nat
  <2>1. S \in SUBSET Nat
    OBVIOUS
  <2> HIDE DEF S
  <2> QED BY <1>1, <1>2, <2>1, Induction
<1>4. PICK g : IsUpTo(N, g)
  BY <1>3
<1>5. upTo = [n \in 0 .. N |-> Do(n, upTo[n - 1])]
  <2> DEFINE h == [k \in 0 .. N |-> g[k]]
  <2>1. ASSUME NEW k \in 0 .. N PROVE h[k] = Do(k, h[k - 1])
    <3>1. k # 0 => h[k - 1] = g[k - 1]
      OBVIOUS
    <3>2. Do(k, g[k - 1]) = Do(k, h[k - 1])
      <4> HIDE DEF h
      <4> QED BY <3>1
    <3>3. h[k] = g[k]
      OBVIOUS
    <3> HIDE DEF h
    <3> QED BY <1>4, <3>2, <3>3
  <2>2. h = [k \in 0 .. N |-> h[k]]
    OBVIOUS
  <2> HIDE DEF h, N
  <2>3. h = [k \in 0 .. N |-> Do(k, h[k - 1])]
    BY <2>1, <2>2
  <2> QED BY <2>3
<1>6. WalkStates(text, defines, snapshots, complete) = upTo
  BY DEF WalkStates, WalkStart
<1>7. Walk(text, defines, snapshots, complete) = upTo[N]
  BY DEF Walk, WalkStart
<1> HIDE DEF upTo
<1>8. \A n \in 0 .. N : upTo[n] = Do(n, upTo[n - 1])
  BY <1>5
<1> QED BY <1>6, <1>7, <1>8

LEMMA WalkNodes ==
    ASSUME NEW text, Len(text) \in Nat, NEW defines, NEW snapshots, NEW complete
    PROVE  LET upTo == WalkStates(text, defines, snapshots, complete)
               nodes == Walk(text, defines, snapshots, complete).nodes
           IN  DOMAIN nodes = 1 .. Len(text) /\ \A i \in 1 .. Len(text) : nodes[i] = NodeState(upTo[i - 1])
<1> DEFINE N == Len(text)
           upTo == WalkStates(text, defines, snapshots, complete)
           V == {NodeState(upTo[i]) : i \in 0 .. N}
           P(k) == /\ upTo[k].nodes \in Seq(V) /\ Len(upTo[k].nodes) = k
                   /\ \A i \in 1 .. k : upTo[k].nodes[i] = NodeState(upTo[i - 1])
           S == {k \in 0 .. N : P(k)}
<1>0. /\ upTo[0] = WalkStart(defines)
      /\ \A n \in 1 .. N : upTo[n] = Step(upTo[n - 1], text[n], n, snapshots, complete)
      /\ Walk(text, defines, snapshots, complete) = upTo[N]
  BY WalkSteps
<1> HIDE DEF upTo
<1>1. 0 \in S
  <2>1. upTo[0].nodes = << >>
    BY <1>0 DEF WalkStart
  <2> HIDE DEF V
  <2>2. upTo[0].nodes \in Seq(V) /\ Len(upTo[0].nodes) = 0
    BY <2>1
  <2>3. P(0) /\ 0 \in 0 .. N
    BY <2>2
  <2> HIDE DEF P
  <2> QED BY <2>3
<1>2. ASSUME NEW k \in 0 .. N - 1, k \in S PROVE k + 1 \in S
  <2>1. k + 1 \in 1 .. N /\ k + 1 \in 0 .. N /\ k \in Nat /\ (k + 1) - 1 = k
    OBVIOUS
  <2>2. upTo[k + 1].nodes = Append(upTo[k].nodes, NodeState(upTo[k]))
    <3>1. upTo[k + 1] = Step(upTo[k], text[k + 1], k + 1, snapshots, complete)
      BY <1>0, <2>1
    <3> QED BY <3>1 DEF Step
  <2>3. NodeState(upTo[k]) \in V
    OBVIOUS
  <2> HIDE DEF V
  <2>4. P(k)
    BY <1>2
  <2>5. upTo[k + 1].nodes \in Seq(V) /\ Len(upTo[k + 1].nodes) = k + 1
    BY <2>2, <2>3, <2>4
  <2>6. ASSUME NEW i \in 1 .. k + 1 PROVE upTo[k + 1].nodes[i] = NodeState(upTo[i - 1])
    <3>1. CASE i = k + 1
      BY <2>2, <2>4, <2>3, <3>1
    <3>2. CASE i # k + 1
      <4>1. i \in 1 .. k
        BY <3>2
      <4>2. upTo[k + 1].nodes[i] = upTo[k].nodes[i]
        BY <4>1, <2>2, <2>3, <2>4
      <4> QED BY <4>1, <4>2, <2>4
    <3> QED BY <3>1, <3>2
  <2> QED BY <2>1, <2>5, <2>6
<1> HIDE DEF S
<1>3. \A k \in 0 .. N : k \in S
  BY <1>1, <1>2, InductionUpTo
<1>4. P(N)
  <2>1. N \in S
    BY <1>3
  <2> HIDE DEF P
  <2> QED BY <2>1 DEF S
<1> HIDE DEF V
<1> QED BY <1>4, <1>0 DEF upTo

SameUpTo(s, t, k) ==
    \A i \in 1 .. k : (i \in DOMAIN s <=> i \in DOMAIN t) /\ (i \in DOMAIN s => s[i] = t[i])

\* What includes left defined matters only to the lines after them.
LEMMA WalkSame ==
    ASSUME NEW text, Len(text) \in Nat, NEW defines, NEW s, NEW t, NEW complete,
           NEW k \in 0 .. Len(text), SameUpTo(s, t, k)
    PROVE  \A n \in 0 .. k : WalkStates(text, defines, s, complete)[n] = WalkStates(text, defines, t, complete)[n]
<1> DEFINE f == WalkStates(text, defines, s, complete)
           g == WalkStates(text, defines, t, complete)
           S == {n \in 0 .. k : f[n] = g[n]}
<1>0. /\ f[0] = WalkStart(defines) /\ g[0] = WalkStart(defines)
      /\ \A n \in 1 .. Len(text) : f[n] = Step(f[n - 1], text[n], n, s, complete)
      /\ \A n \in 1 .. Len(text) : g[n] = Step(g[n - 1], text[n], n, t, complete)
  BY WalkSteps
<1> HIDE DEF f, g
<1>1. 0 \in S
  BY <1>0
<1>2. ASSUME NEW n \in 0 .. k - 1, n \in S PROVE n + 1 \in S
  <2>1. n + 1 \in 1 .. k /\ n + 1 \in 0 .. k /\ (n + 1) - 1 = n /\ n + 1 \in 1 .. Len(text)
    OBVIOUS
  <2>2. f[n + 1] = Step(f[n], text[n + 1], n + 1, s, complete) /\ g[n + 1] = Step(f[n], text[n + 1], n + 1, t, complete)
    BY <1>0, <1>2, <2>1
  <2>3. NamesAfter(f[n], text[n + 1], n + 1, s) = NamesAfter(f[n], text[n + 1], n + 1, t)
    <3>1. (n + 1 \in DOMAIN s <=> n + 1 \in DOMAIN t) /\ (n + 1 \in DOMAIN s => s[n + 1] = t[n + 1])
      BY <2>1 DEF SameUpTo
    <3> QED BY <3>1 DEF NamesAfter
  <2> QED BY <2>1, <2>2, <2>3 DEF Step
<1> HIDE DEF S
<1>3. \A n \in 0 .. k : n \in S
  BY <1>1, <1>2, InductionUpTo
<1> QED BY <1>3 DEF S, f, g

-----------------------------------------------------------------------------
\* A file of a context, as far as its includes were followed.
StateAt(ws, c, f, n) == WalkStates(ws.text[c.file], c.environment, f.snapshots, ws.complete)[n]
NodeAt(ws, c, f, i) == NodeState(StateAt(ws, c, f, i - 1))

Lines == [op : STRING, name : STRING, how : STRING]
Marks == {"active", "inactive", "uncertain"}
Regions == Seq([reached : Marks, branch : Marks])

KnowsCompiler(ws, names) == names \in SUBSET NamesOf(ws) /\ Compiler \in names
Snapped(ws, f) == \A i \in DOMAIN f.snapshots : KnowsCompiler(ws, f.snapshots[i])

LEMMA TextsAre ==
    ASSUME NEW ws, IsWorkspace(ws), NEW c \in Contexts(ws)
    PROVE  /\ ws.text[c.file] \in Seq(Lines) /\ Len(ws.text[c.file]) \in Nat
           /\ DOMAIN ws.text[c.file] = 1 .. Len(ws.text[c.file])
           /\ \A i \in 1 .. Len(ws.text[c.file]) :
                 /\ ws.text[c.file][i] \in Lines
                 /\ ws.text[c.file][i].name \in NamesOf(ws)
                 /\ ws.text[c.file][i].op \in {"define", "undef"} => ws.text[c.file][i].name # Compiler
<1>1. c.file \in DOMAIN ws.text /\ ws.text \in [DOMAIN ws.text -> Seq(Lines)]
  BY DEF IsWorkspace, Contexts, Lines
<1> DEFINE t == ws.text[c.file]
<1>2. t \in Seq(Lines)
  BY <1>1
<1> HIDE DEF t
<1>3. Len(t) \in Nat /\ DOMAIN t = 1 .. Len(t) /\ \A i \in 1 .. Len(t) : t[i] \in Lines
  BY <1>2
<1>4. ASSUME NEW i \in 1 .. Len(t) PROVE t[i].name \in NamesOf(ws)
  <2>1. t[i] \in Range(t)
    BY <1>3 DEF Range
  <2>2. t[i].name \in {line.name : line \in Range(t)}
    BY <2>1
  <2>3. {line.name : line \in Range(t)} \in {{line.name : line \in Range(ws.text[f])} : f \in DOMAIN ws.text}
    BY <1>1 DEF t
  <2> QED BY <2>2, <2>3 DEF NamesOf
<1>5. \A i \in 1 .. Len(t) : t[i].op \in {"define", "undef"} => t[i].name # Compiler
  BY <1>1, <1>3 DEF t, IsWorkspace
<1> QED BY <1>2, <1>3, <1>4, <1>5 DEF t

LEMMA BranchType == \A value : \A reached \in Marks : Branch(reached, value) \in [reached : Marks, branch : Marks]
BY DEF Branch, Marks

LEMMA NestType ==
    ASSUME NEW s, s.nest \in Regions, NEW line, NEW value
    PROVE  NestAfter(s, line, value) \in Regions
<1> DEFINE R == [reached : Marks, branch : Marks]
<1>1. s.nest \in Seq(R)
  BY DEF Regions
<1>2. CASE line.op = "if"
  <2>1. Branch("active", value) \in R
    BY BranchType DEF Marks
  <2> HIDE DEF R
  <2>2. Append(s.nest, Branch("active", value)) \in Seq(R)
    BY <1>1, <2>1
  <2> QED BY <2>2, <1>2 DEF NestAfter, Regions, R
<1>3. CASE line.op # "if" /\ s.nest # << >>
  <2> HIDE DEF R
  <2>1. Len(s.nest) \in Nat /\ Len(s.nest) # 0
    BY <1>1, <1>3
  <2>2. Outer(s.nest) \in Seq(R) /\ Last(s.nest) \in R
    BY <1>1, <2>1 DEF Outer, Last
  <2>3. Branch(Last(s.nest).reached, value) \in R
    BY <2>2, BranchType DEF R
  <2>4. Append(Outer(s.nest), Branch(Last(s.nest).reached, value)) \in Seq(R)
    BY <2>2, <2>3
  <2> QED BY <1>1, <1>3, <2>2, <2>4 DEF NestAfter, Regions, R
<1>4. CASE line.op # "if" /\ s.nest = << >>
  BY <1>1, <1>4 DEF NestAfter
<1> QED BY <1>2, <1>3, <1>4

LEMMA WalkType ==
    ASSUME NEW ws, IsWorkspace(ws), NEW c \in Contexts(ws), NEW f, Snapped(ws, f)
    PROVE  \A n \in 0 .. Len(ws.text[c.file]) :
              /\ KnowsCompiler(ws, StateAt(ws, c, f, n).names)
              /\ StateAt(ws, c, f, n).nest \in Regions
              /\ StateAt(ws, c, f, n).ended \in BOOLEAN
<1> DEFINE t == ws.text[c.file]
           u == WalkStates(ws.text[c.file], c.environment, f.snapshots, ws.complete)
           P(s) == KnowsCompiler(ws, s.names) /\ s.nest \in Regions /\ s.ended \in BOOLEAN
           S == {n \in 0 .. Len(t) : P(u[n])}
<1>0. /\ Len(t) \in Nat
      /\ u[0] = WalkStart(c.environment)
      /\ \A n \in 1 .. Len(t) : u[n] = Step(u[n - 1], t[n], n, f.snapshots, ws.complete)
  BY TextsAre, WalkSteps
<1>1. 0 \in S
  <2>1. c.environment \in SUBSET NamesOf(ws)
    BY DEF Contexts
  <2>2. Compiler \in NamesOf(ws)
    BY DEF NamesOf
  <2>3. << >> \in Regions
    BY DEF Regions
  <2>4. 0 \in 0 .. Len(t)
    BY <1>0
  <2> HIDE DEF u, t
  <2>5. P(u[0])
    BY <1>0, <2>1, <2>2, <2>3 DEF WalkStart, NewDefineContext, KnowsCompiler
  <2> HIDE DEF P
  <2> QED BY <2>4, <2>5
<1>2. ASSUME NEW n \in 0 .. Len(t) - 1, n \in S PROVE n + 1 \in S
  <2> DEFINE s == u[n]
             i == n + 1
  <2>1. i \in 1 .. Len(t) /\ i \in 0 .. Len(t) /\ i - 1 = n
    BY <1>0
  <2>2. u[i] = Step(s, t[i], i, f.snapshots, ws.complete)
    BY <1>0, <2>1
  <2>3. P(s)
    BY <1>2
  <2>4. t[i].name \in NamesOf(ws) /\ (t[i].op \in {"define", "undef"} => t[i].name # Compiler)
    BY <2>1, TextsAre
  <2> HIDE DEF u, s, i, t
  <2>5. KnowsCompiler(ws, NamesAfter(s, t[i], i, f.snapshots))
    BY <2>3, <2>4 DEF NamesAfter, KnowsCompiler, Snapped
  <2>6. (s.ended \/ (t[i].op = "endinput" /\ directiveActive(s))) \in BOOLEAN
    OBVIOUS
  <2> DEFINE value == IF t[i].op = "else" THEN "true" ELSE directiveValue(t[i], s.names, ws.complete)
  <2>7. NestAfter(s, t[i], value) \in Regions
    BY <2>3, NestType
  <2> HIDE DEF value
  <2>8. P([names |-> NamesAfter(s, t[i], i, f.snapshots), nest |-> NestAfter(s, t[i], value),
           ended |-> s.ended \/ (t[i].op = "endinput" /\ directiveActive(s)), nodes |-> Append(s.nodes, NodeState(s))])
    BY <2>5, <2>6, <2>7
  <2> HIDE DEF P
  <2>9. P(u[i])
    BY <2>2, <2>8 DEF Step, value
  <2> QED BY <2>1, <2>9 DEF i
<1> HIDE DEF S
<1>3. \A n \in 0 .. Len(t) : n \in S
  BY <1>0, <1>1, <1>2, InductionUpTo
<1> QED BY <1>3 DEF S, StateAt

IsText(text) == Len(text) \in Nat /\ DOMAIN text = 1 .. Len(text)

LEMMA NextIncludeIs ==
    ASSUME NEW text, IsText(text), NEW a \in 0 .. Len(text)
    PROVE  LET n == NextInclude(text, a) IN
           \/ n = 0 /\ \A i \in a + 1 .. Len(text) : ~IsInclude(text[i])
           \/ /\ n \in a + 1 .. Len(text) /\ IsInclude(text[n])
              /\ \A i \in a + 1 .. n - 1 : ~IsInclude(text[i])
<1> DEFINE later == {i \in DOMAIN text : i > a /\ IsInclude(text[i])}
<1>0. Len(text) \in Nat /\ DOMAIN text = 1 .. Len(text)
  BY DEF IsText
<1>1. CASE later = {}
  <2>1. NextInclude(text, a) = 0
    BY <1>1 DEF NextInclude
  <2> QED BY <1>0, <1>1, <2>1
<1>2. CASE later # {}
  <2>1. NextInclude(text, a) = CHOOSE i \in later : \A j \in later : i <= j
    BY <1>2 DEF NextInclude
  <2>2. later \in SUBSET Nat
    BY <1>0
  <2> HIDE DEF later
  <2>3. \E i \in later : \A j \in later : i <= j
    BY <1>2, <2>2, Least
  <2>4. NextInclude(text, a) \in later /\ \A j \in later : NextInclude(text, a) <= j
    BY <2>1, <2>3
  <2> DEFINE n == NextInclude(text, a)
  <2> HIDE DEF n
  <2>5. n \in later /\ \A j \in later : n <= j
    BY <2>4 DEF n
  <2>6. n \in a + 1 .. Len(text) /\ IsInclude(text[n])
    BY <1>0, <2>5 DEF later
  <2>7. ASSUME NEW i \in a + 1 .. n - 1 PROVE ~IsInclude(text[i])
    <3>1. i \in DOMAIN text /\ i > a /\ ~(n <= i)
      BY <1>0, <2>6
    <3> QED BY <2>5, <3>1 DEF later
  <2> QED BY <2>6, <2>7 DEF n
<1> QED BY <1>1, <1>2

-----------------------------------------------------------------------------
\* What an include may name, and where it leads.
HitsAt(ws, c, i) == ResolveAll(ws, c.file, ws.text[c.file][i].name, ws.text[c.file][i].how, c.root)

LEMMA ChosenIsFile ==
    ASSUME NEW ws, IsWorkspace(ws), NEW file \in DOMAIN ws.text, NEW name, NEW how, NEW root \in STRING,
           DOMAIN ResolveAll(ws, file, name, how, root) # {}
    PROVE  Chosen(ResolveAll(ws, file, name, how, root)) \in DOMAIN ws.text
<1> DEFINE dirs == (IF how = "quoted" THEN <<ws.dir[file], root>> ELSE << >>) \o ws.paths
           found(d) == {f \in DOMAIN ws.text : ws.dir[f] = d /\ ws.base[f] = name}
           places == {i \in DOMAIN dirs : found(dirs[i]) # {} /\ \A j \in 1 .. i - 1 : dirs[j] # dirs[i]}
           hits == [i \in places |-> CHOOSE f \in found(dirs[i]) : TRUE]
<1>1. ResolveAll(ws, file, name, how, root) = hits
  BY DEF ResolveAll
<1>2. places \in SUBSET Nat
  <2>1. ws.dir[file] \in STRING /\ ws.paths \in Seq(STRING)
    BY DEF IsWorkspace
  <2>2. dirs \in Seq(STRING)
    <3> DEFINE first == IF how = "quoted" THEN <<ws.dir[file], root>> ELSE << >>
    <3>1. first \in Seq(STRING)
      <4>1. <<ws.dir[file], root>> \in Seq(STRING)
        BY <2>1
      <4>2. << >> \in Seq(STRING)
        OBVIOUS
      <4> QED BY <4>1, <4>2
    <3> HIDE DEF first
    <3>2. first \o ws.paths \in Seq(STRING)
      BY <2>1, <3>1
    <3> QED BY <3>2 DEF first
  <2> HIDE DEF dirs
  <2>3. DOMAIN dirs \subseteq Nat
    BY <2>2
  <2> QED BY <2>3
<1>3. places # {} /\ DOMAIN hits = places
  BY <1>1
<1> DEFINE least == CHOOSE i \in places : \A j \in places : i <= j
<1>4. least \in places
  <2> HIDE DEF places
  <2> QED BY <1>2, <1>3, Least
<1>5. found(dirs[least]) # {}
  BY <1>4
<1>6. hits[least] \in found(dirs[least])
  <2>1. hits[least] = CHOOSE f \in found(dirs[least]) : TRUE
    BY <1>4
  <2> HIDE DEF least, hits, found
  <2> QED BY <1>5, <2>1
<1>7. Chosen(hits) = hits[least]
  <2> HIDE DEF hits, places
  <2> QED BY <1>3 DEF Chosen
<1>8. hits[least] \in DOMAIN ws.text
  <2> HIDE DEF hits, least, dirs
  <2> QED BY <1>6
<1> QED BY <1>1, <1>7, <1>8

IsFollowed(ws, c, f, i) ==
    /\ IsInclude(ws.text[c.file][i])
    /\ ~NodeAt(ws, c, f, i).inactive /\ ~NodeAt(ws, c, f, i).uncertain
    /\ DOMAIN HitsAt(ws, c, i) # {}

TargetAt(ws, c, f, i) == Context(Chosen(HitsAt(ws, c, i)), NodeAt(ws, c, f, i).names, c.root)

LEMMA TargetType ==
    ASSUME NEW ws, IsWorkspace(ws), NEW c \in Contexts(ws), NEW f, Snapped(ws, f),
           NEW i \in 1 .. Len(ws.text[c.file]), DOMAIN HitsAt(ws, c, i) # {}
    PROVE  LET t == TargetAt(ws, c, f, i) IN
           /\ t \in Contexts(ws) /\ KnowsCompiler(ws, t.environment)
           /\ t.root = c.root /\ t.file = Chosen(HitsAt(ws, c, i))
           /\ t.environment = NodeAt(ws, c, f, i).names
<1>1. c.file \in DOMAIN ws.text /\ c.root \in STRING
  BY DEF Contexts
<1>2. Chosen(HitsAt(ws, c, i)) \in DOMAIN ws.text
  BY <1>1, ChosenIsFile DEF HitsAt
<1>3. i - 1 \in 0 .. Len(ws.text[c.file])
  BY TextsAre
<1>4. KnowsCompiler(ws, NodeAt(ws, c, f, i).names)
  <2>1. KnowsCompiler(ws, StateAt(ws, c, f, i - 1).names)
    BY <1>3, WalkType
  <2> QED BY <2>1 DEF NodeAt, NodeState
<1> QED BY <1>1, <1>2, <1>4 DEF TargetAt, Context, Contexts, KnowsCompiler

\* Of two files that agree on what includes left defined.
LEMMA StateSame ==
    ASSUME NEW ws, IsWorkspace(ws), NEW c \in Contexts(ws), NEW f, NEW g,
           NEW k \in 0 .. Len(ws.text[c.file]), SameUpTo(f.snapshots, g.snapshots, k)
    PROVE  \A n \in 0 .. k : StateAt(ws, c, f, n) = StateAt(ws, c, g, n)
BY TextsAre, WalkSame DEF StateAt

LEMMA FollowedSame ==
    ASSUME NEW ws, IsWorkspace(ws), NEW c \in Contexts(ws), NEW f, NEW g,
           NEW i \in 1 .. Len(ws.text[c.file]), SameUpTo(f.snapshots, g.snapshots, i - 1)
    PROVE  /\ NodeAt(ws, c, f, i) = NodeAt(ws, c, g, i)
           /\ IsFollowed(ws, c, f, i) <=> IsFollowed(ws, c, g, i)
           /\ TargetAt(ws, c, f, i) = TargetAt(ws, c, g, i)
<1>1. i - 1 \in 0 .. Len(ws.text[c.file]) /\ i - 1 \in 0 .. i - 1
  BY TextsAre
<1>2. StateAt(ws, c, f, i - 1) = StateAt(ws, c, g, i - 1)
  BY <1>1, StateSame
<1> QED BY <1>2 DEF NodeAt, IsFollowed, TargetAt

\* An include leaves defined what is in its snapshot; without one, what was defined before.
LEMMA AfterInclude ==
    ASSUME NEW ws, IsWorkspace(ws), NEW c \in Contexts(ws), NEW f,
           NEW i \in 1 .. Len(ws.text[c.file]), IsInclude(ws.text[c.file][i])
    PROVE  StateAt(ws, c, f, i).names =
               IF i \in DOMAIN f.snapshots /\ ~StateAt(ws, c, f, i - 1).ended
               THEN f.snapshots[i] ELSE NodeAt(ws, c, f, i).names
<1> DEFINE t == ws.text[c.file]
           u == WalkStates(t, c.environment, f.snapshots, ws.complete)
<1>1. u[i] = Step(u[i - 1], t[i], i, f.snapshots, ws.complete)
  BY TextsAre, WalkSteps
<1>2. u[i].names = NamesAfter(u[i - 1], t[i], i, f.snapshots)
  BY <1>1 DEF Step
<1>3. t[i].op \in {"include", "tryinclude"}
  BY DEF IsInclude
<1> HIDE DEF u, t
<1>4. u[i].names = IF i \in DOMAIN f.snapshots /\ ~u[i - 1].ended THEN f.snapshots[i] ELSE u[i - 1].names
  BY <1>2, <1>3 DEF NamesAfter
<1> QED BY <1>4 DEF u, t, StateAt, NodeAt, NodeState

-----------------------------------------------------------------------------
(* What is recorded of the includes of a file.                             *)

\* Up to line b of a file each include has its edge, and what it left defined.
IsRecorded(ws, c, f, b) ==
    /\ \A e \in Range(f.includes) :
          /\ e.at \in 1 .. b - 1 /\ IsInclude(ws.text[c.file][e.at])
          /\ e.to = IF IsFollowed(ws, c, f, e.at) THEN TargetAt(ws, c, f, e.at) ELSE None
    /\ \A i \in DOMAIN f.snapshots : i \in 1 .. b - 1 /\ IsFollowed(ws, c, f, i)
    /\ Snapped(ws, f)
    /\ \A i \in 1 .. b - 1 : IsFollowed(ws, c, f, i) => \E e \in Range(f.includes) : e.at = i

\* Contexts that include each other round and round.
Loop(fs, S) == \A c \in S : \E e \in Range(fs[c].includes) : e.to \in S
InLoop(fs, c, d) == \E S \in SUBSET DOMAIN fs : Loop(fs, S) /\ c \in S /\ d \in S

\* What is defined after an include is what the file it leads to left, or that file
\* leads back to the include.
IsJudged(ws, fs, c, i) ==
    IsFollowed(ws, c, fs[c], i) =>
        LET t == TargetAt(ws, c, fs[c], i) IN
        /\ t \in DOMAIN fs
        /\ \/ fs[t].final # None /\ StateAt(ws, c, fs[c], i).names = fs[t].final
           \/ InLoop(fs, c, t)

IsFinished(ws, fs, c) ==
    LET n == Len(ws.text[c.file]) IN
    /\ fs[c].final = StateAt(ws, c, fs[c], n).names
    /\ IsRecorded(ws, c, fs[c], n + 1)
    /\ \A i \in 1 .. n : IsJudged(ws, fs, c, i)

Bound(ws, x) == IF x.at = 0 THEN Len(ws.text[x.context.file]) + 1 ELSE x.at

\* A context that is being resolved.
IsEntry(ws, fs, x) ==
    LET c == x.context  n == Len(ws.text[c.file]) IN
    /\ x = [context |-> c, at |-> x.at] /\ c \in DOMAIN fs
    /\ x.at \in 0 .. n /\ (x.at # 0 => IsInclude(ws.text[c.file][x.at]))
    /\ fs[c].final = None
    /\ \A i \in 1 .. Bound(ws, x) - 1 : IsJudged(ws, fs, c, i)

IsTop(ws, fs, x) == IsEntry(ws, fs, x) /\ IsRecorded(ws, x.context, fs[x.context], Bound(ws, x))

\* Below the top the include that is being resolved leads to the context above.
IsBelow(ws, fs, x, t) ==
    LET c == x.context IN
    /\ IsEntry(ws, fs, x) /\ x.at # 0
    /\ IsRecorded(ws, c, fs[c], x.at + 1) /\ x.at \notin DOMAIN fs[c].snapshots
    /\ IsFollowed(ws, c, fs[c], x.at) /\ t = TargetAt(ws, c, fs[c], x.at)

\* Files get more includes, and those that are resolved do not change.
Grows(fs, gs) ==
    /\ DOMAIN fs \subseteq DOMAIN gs
    /\ \A c \in DOMAIN fs : /\ Range(fs[c].includes) \subseteq Range(gs[c].includes)
                            /\ fs[c].final # None => gs[c] = fs[c]

LEMMA LoopGrows ==
    ASSUME NEW fs, NEW gs, Grows(fs, gs), NEW c, NEW d, InLoop(fs, c, d)
    PROVE  InLoop(gs, c, d)
BY DEF Grows, InLoop, Loop

LEMMA RecordedSnapped == ASSUME NEW ws, NEW c, NEW f, NEW b, IsRecorded(ws, c, f, b) PROVE Snapped(ws, f)
BY DEF IsRecorded

LEMMA JudgedStays ==
    ASSUME NEW ws, IsWorkspace(ws), NEW fs, NEW gs, Grows(fs, gs),
           NEW c \in DOMAIN fs, c \in Contexts(ws), NEW i \in 1 .. Len(ws.text[c.file]),
           SameUpTo(fs[c].snapshots, gs[c].snapshots, i), IsJudged(ws, fs, c, i)
    PROVE  IsJudged(ws, gs, c, i)
<1> SUFFICES ASSUME IsFollowed(ws, c, gs[c], i)
             PROVE  LET t == TargetAt(ws, c, gs[c], i) IN
                    /\ t \in DOMAIN gs
                    /\ \/ gs[t].final # None /\ StateAt(ws, c, gs[c], i).names = gs[t].final
                       \/ InLoop(gs, c, t)
  BY DEF IsJudged
<1>1. SameUpTo(fs[c].snapshots, gs[c].snapshots, i - 1) /\ i \in 0 .. Len(ws.text[c.file]) /\ i \in 0 .. i
  BY TextsAre DEF SameUpTo
<1>2. IsFollowed(ws, c, fs[c], i) /\ TargetAt(ws, c, fs[c], i) = TargetAt(ws, c, gs[c], i)
  BY <1>1, FollowedSame
<1>3. StateAt(ws, c, fs[c], i) = StateAt(ws, c, gs[c], i)
  BY <1>1, StateSame
<1> DEFINE t == TargetAt(ws, c, fs[c], i)
<1> HIDE DEF t
<1>4. t \in DOMAIN fs /\ ((fs[t].final # None /\ StateAt(ws, c, fs[c], i).names = fs[t].final) \/ InLoop(fs, c, t))
  BY <1>2 DEF IsJudged, t
<1>5. t \in DOMAIN gs /\ (fs[t].final # None => gs[t].final = fs[t].final)
  BY <1>4 DEF Grows
<1>6. InLoop(fs, c, t) => InLoop(gs, c, t)
  BY LoopGrows
<1> QED BY <1>2, <1>3, <1>4, <1>5, <1>6 DEF t

LEMMA SameSelf == \A s, k : SameUpTo(s, s, k)
BY DEF SameUpTo

LEMMA FinishedStays ==
    ASSUME NEW ws, IsWorkspace(ws), NEW fs, NEW gs, Grows(fs, gs),
           NEW c \in DOMAIN fs, c \in Contexts(ws), fs[c].final # None, IsFinished(ws, fs, c)
    PROVE  IsFinished(ws, gs, c)
<1>1. gs[c] = fs[c]
  BY DEF Grows
<1>2. \A i \in 1 .. Len(ws.text[c.file]) : IsJudged(ws, gs, c, i)
  BY <1>1, JudgedStays, SameSelf DEF IsFinished
<1> QED BY <1>1, <1>2 DEF IsFinished

LEMMA BoundIs ==
    ASSUME NEW ws, IsWorkspace(ws), NEW x, x.context \in Contexts(ws), x.at \in 0 .. Len(ws.text[x.context.file])
    PROVE  Bound(ws, x) \in 1 .. Len(ws.text[x.context.file]) + 1
BY TextsAre DEF Bound

LEMMA EntryStays ==
    ASSUME NEW ws, IsWorkspace(ws), NEW fs, NEW gs, Grows(fs, gs),
           NEW x, x.context \in Contexts(ws), IsEntry(ws, fs, x), gs[x.context] = fs[x.context]
    PROVE  IsEntry(ws, gs, x)
<1> DEFINE c == x.context
<1>1. c \in DOMAIN gs /\ c \in DOMAIN fs /\ x.at \in 0 .. Len(ws.text[c.file])
  BY DEF Grows, IsEntry
<1>2. ASSUME NEW i \in 1 .. Bound(ws, x) - 1 PROVE IsJudged(ws, gs, c, i)
  <2>1. i \in 1 .. Len(ws.text[c.file])
    BY <1>1, BoundIs, TextsAre
  <2> QED BY <1>1, <2>1, JudgedStays, SameSelf DEF IsEntry
<1> QED BY <1>1, <1>2 DEF IsEntry

LEMMA BelowStays ==
    ASSUME NEW ws, IsWorkspace(ws), NEW fs, NEW gs, Grows(fs, gs),
           NEW x, x.context \in Contexts(ws), NEW t, IsBelow(ws, fs, x, t), gs[x.context] = fs[x.context]
    PROVE  IsBelow(ws, gs, x, t)
BY EntryStays DEF IsBelow

\* What is recorded up to a line is recorded up to the next include.
LEMMA RecordedOn ==
    ASSUME NEW ws, IsWorkspace(ws), NEW c \in Contexts(ws), NEW f, NEW a \in 0 .. Len(ws.text[c.file]),
           IsRecorded(ws, c, f, a + 1), NEW x, x = [context |-> c, at |-> NextInclude(ws.text[c.file], a)]
    PROVE  /\ IsRecorded(ws, c, f, Bound(ws, x))
           /\ x.at \in 0 .. Len(ws.text[c.file]) /\ (x.at # 0 => IsInclude(ws.text[c.file][x.at]))
           /\ Bound(ws, x) > a
           /\ \A i \in a + 1 .. Bound(ws, x) - 1 : ~IsInclude(ws.text[c.file][i])
<1> DEFINE t == ws.text[c.file]
           n == NextInclude(t, a)
           b == Bound(ws, x)
<1>0. IsText(t) /\ a \in 0 .. Len(t)
  BY TextsAre DEF IsText
<1>1. \/ n = 0 /\ \A i \in a + 1 .. Len(t) : ~IsInclude(t[i])
      \/ n \in a + 1 .. Len(t) /\ IsInclude(t[n]) /\ \A i \in a + 1 .. n - 1 : ~IsInclude(t[i])
  <2> HIDE DEF t
  <2> QED BY <1>0, NextIncludeIs
<1>2. x.at = n /\ x.context = c
  OBVIOUS
<1>3. /\ b \in a + 1 .. Len(t) + 1 /\ b > a /\ x.at \in 0 .. Len(t) /\ (x.at # 0 => IsInclude(t[x.at]))
      /\ \A i \in a + 1 .. b - 1 : ~IsInclude(t[i])
  <2>1. b = IF n = 0 THEN Len(t) + 1 ELSE n
    BY <1>2 DEF Bound
  <2> HIDE DEF n, b, t
  <2>2. Len(t) \in Nat /\ a \in Nat /\ a <= Len(t)
    BY <1>0 DEF IsText
  <2>3. CASE n = 0 /\ \A i \in a + 1 .. Len(t) : ~IsInclude(t[i])
    <3>1. b = Len(t) + 1 /\ x.at = 0 /\ b - 1 = Len(t)
      BY <1>2, <2>1, <2>2, <2>3
    <3> QED BY <3>1, <2>2, <2>3
  <2>4. CASE n \in a + 1 .. Len(t) /\ IsInclude(t[n]) /\ \A i \in a + 1 .. n - 1 : ~IsInclude(t[i])
    <3>1. b = n /\ x.at = n
      BY <1>2, <2>1, <2>2, <2>4
    <3> QED BY <3>1, <2>2, <2>4
  <2> QED BY <1>1, <2>3, <2>4
<1> HIDE DEF b
<1>4. \A i : i \in 1 .. (a + 1) - 1 => i \in 1 .. b - 1
  BY <1>3, <1>0 DEF IsText
<1>5. ASSUME NEW i \in 1 .. b - 1, IsFollowed(ws, c, f, i) PROVE \E e \in Range(f.includes) : e.at = i
  <2>1. IsInclude(t[i])
    BY <1>5 DEF IsFollowed
  <2>2. i \in 1 .. (a + 1) - 1
    BY <1>3, <1>0, <2>1 DEF IsText
  <2> QED BY <2>2, <1>5 DEF IsRecorded
<1>6. IsRecorded(ws, c, f, b)
  <2>1. \A e \in Range(f.includes) : e.at \in 1 .. b - 1
    BY <1>4 DEF IsRecorded
  <2>2. \A i \in DOMAIN f.snapshots : i \in 1 .. b - 1
    BY <1>4 DEF IsRecorded
  <2> QED BY <1>5, <2>1, <2>2 DEF IsRecorded
<1> QED BY <1>3, <1>6 DEF b

\* An include that is recorded.
LEMMA RecordedOne ==
    ASSUME NEW ws, IsWorkspace(ws), NEW c \in Contexts(ws), NEW f, NEW g, NEW i \in 1 .. Len(ws.text[c.file]),
           IsRecorded(ws, c, f, i), g.snapshots = f.snapshots, IsInclude(ws.text[c.file][i]),
           Range(f.includes) \subseteq Range(g.includes),
           \A e \in Range(g.includes) \ Range(f.includes) :
               e.at = i /\ e.to = IF IsFollowed(ws, c, f, i) THEN TargetAt(ws, c, f, i) ELSE None,
           IsFollowed(ws, c, f, i) => \E e \in Range(g.includes) : e.at = i
    PROVE  IsRecorded(ws, c, g, i + 1)
<1>0. Len(ws.text[c.file]) \in Nat
  BY TextsAre
<1>1. \A j : /\ NodeAt(ws, c, g, j) = NodeAt(ws, c, f, j) /\ TargetAt(ws, c, g, j) = TargetAt(ws, c, f, j)
             /\ IsFollowed(ws, c, g, j) <=> IsFollowed(ws, c, f, j)
  BY DEF NodeAt, StateAt, TargetAt, IsFollowed
<1>2. ASSUME NEW e \in Range(g.includes)
      PROVE  /\ e.at \in 1 .. (i + 1) - 1 /\ IsInclude(ws.text[c.file][e.at])
             /\ e.to = IF IsFollowed(ws, c, g, e.at) THEN TargetAt(ws, c, g, e.at) ELSE None
  <2>1. CASE e \in Range(f.includes)
    <3>1. /\ e.at \in 1 .. i - 1 /\ IsInclude(ws.text[c.file][e.at])
          /\ e.to = IF IsFollowed(ws, c, f, e.at) THEN TargetAt(ws, c, f, e.at) ELSE None
      BY <2>1 DEF IsRecorded
    <3>2. e.at \in 1 .. (i + 1) - 1
      BY <3>1, <1>0
    <3> QED BY <3>1, <3>2, <1>1
  <2>2. CASE e \notin Range(f.includes)
    BY <2>2, <1>0, <1>1
  <2> QED BY <2>1, <2>2
<1>3. ASSUME NEW j \in DOMAIN g.snapshots PROVE j \in 1 .. (i + 1) - 1 /\ IsFollowed(ws, c, g, j)
  <2>1. j \in 1 .. i - 1 /\ IsFollowed(ws, c, f, j)
    BY DEF IsRecorded
  <2> QED BY <2>1, <1>0, <1>1
<1>4. ASSUME NEW j \in 1 .. (i + 1) - 1, IsFollowed(ws, c, g, j) PROVE \E e \in Range(g.includes) : e.at = j
  <2>1. j = i \/ j \in 1 .. i - 1
    BY <1>0
  <2>2. CASE j = i
    BY <2>2, <1>1, <1>4
  <2>3. CASE j \in 1 .. i - 1
    BY <2>3, <1>1, <1>4 DEF IsRecorded
  <2> QED BY <2>1, <2>2, <2>3
<1>5. Snapped(ws, g)
  BY DEF IsRecorded, Snapped
<1> QED BY <1>2, <1>3, <1>4, <1>5 DEF IsRecorded

\* Include i, that was recorded in f, leaves final defined in g.
LeavesAt(ws, c, f, g, i, final) ==
    /\ IsWorkspace(ws) /\ c \in Contexts(ws) /\ i \in 1 .. Len(ws.text[c.file])
    /\ IsRecorded(ws, c, f, i + 1) /\ i \notin DOMAIN f.snapshots /\ IsFollowed(ws, c, f, i)
    /\ KnowsCompiler(ws, final) /\ final # None
    /\ g.includes = f.includes
    /\ g.snapshots = Snapshot(f.snapshots, i, NodeAt(ws, c, f, i).names, final)

LEMMA RecordedFinal ==
    ASSUME NEW ws, NEW c, NEW f, NEW g, NEW i, NEW final, LeavesAt(ws, c, f, g, i, final)
    PROVE  /\ IsRecorded(ws, c, g, i + 1)
           /\ SameUpTo(f.snapshots, g.snapshots, i - 1)
           /\ StateAt(ws, c, g, i).names = final
<1> USE DEF LeavesAt
<1>0. Len(ws.text[c.file]) \in Nat /\ IsInclude(ws.text[c.file][i]) /\ i - 1 \in 0 .. Len(ws.text[c.file])
  BY TextsAre DEF IsFollowed
<1> DEFINE before == NodeAt(ws, c, f, i).names
<1>1. final # None /\ final # {}
  BY DEF KnowsCompiler
<1>2. \/ before = final /\ g.snapshots = f.snapshots
      \/ before # final /\ g.snapshots = [j \in DOMAIN f.snapshots \cup {i} |-> IF j = i THEN final ELSE f.snapshots[j]]
  BY <1>1 DEF Snapshot
<1>3. /\ \A j \in DOMAIN f.snapshots : j \in DOMAIN g.snapshots /\ g.snapshots[j] = f.snapshots[j]
      /\ \A j \in DOMAIN g.snapshots : j = i \/ j \in DOMAIN f.snapshots
      /\ i \in DOMAIN g.snapshots => g.snapshots[i] = final
      /\ i \notin DOMAIN g.snapshots => before = final
  <2> HIDE DEF before
  <2> QED BY <1>2
<1>4. SameUpTo(f.snapshots, g.snapshots, i - 1)
  BY <1>3 DEF SameUpTo
<1>5. ASSUME NEW j \in 1 .. (i + 1) - 1
      PROVE  /\ NodeAt(ws, c, f, j) = NodeAt(ws, c, g, j) /\ TargetAt(ws, c, g, j) = TargetAt(ws, c, f, j)
             /\ IsFollowed(ws, c, g, j) <=> IsFollowed(ws, c, f, j)
  <2>1. SameUpTo(f.snapshots, g.snapshots, j - 1) /\ j \in 1 .. Len(ws.text[c.file])
    <3>1. \A k \in 1 .. j - 1 : k \in 1 .. i - 1
      OBVIOUS
    <3>2. j \in 1 .. Len(ws.text[c.file])
      BY <1>0
    <3> QED BY <1>4, <3>1, <3>2 DEF SameUpTo
  <2> QED BY <2>1, FollowedSame
<1>6. IsRecorded(ws, c, g, i + 1)
  <2>1. ASSUME NEW e \in Range(g.includes)
        PROVE  /\ e.at \in 1 .. (i + 1) - 1 /\ IsInclude(ws.text[c.file][e.at])
               /\ e.to = IF IsFollowed(ws, c, g, e.at) THEN TargetAt(ws, c, g, e.at) ELSE None
    <3>1. /\ e.at \in 1 .. (i + 1) - 1 /\ IsInclude(ws.text[c.file][e.at])
          /\ e.to = IF IsFollowed(ws, c, f, e.at) THEN TargetAt(ws, c, f, e.at) ELSE None
      BY DEF IsRecorded
    <3> QED BY <3>1, <1>5
  <2>2. ASSUME NEW j \in DOMAIN g.snapshots
        PROVE  /\ j \in 1 .. (i + 1) - 1 /\ IsFollowed(ws, c, g, j) /\ KnowsCompiler(ws, g.snapshots[j])
    <3>1. CASE j = i
      <4>1. j \in 1 .. (i + 1) - 1
        BY <1>0, <3>1
      <4> QED BY <4>1, <3>1, <1>3, <1>5
    <3>2. CASE j # i
      <4>1. j \in DOMAIN f.snapshots
        BY <1>3, <3>2
      <4>2. j \in 1 .. (i + 1) - 1 /\ IsFollowed(ws, c, f, j) /\ KnowsCompiler(ws, f.snapshots[j])
        BY <4>1 DEF IsRecorded, Snapped
      <4> QED BY <4>1, <4>2, <1>3, <1>5
    <3> QED BY <3>1, <3>2
  <2>3. ASSUME NEW j \in 1 .. (i + 1) - 1, IsFollowed(ws, c, g, j) PROVE \E e \in Range(g.includes) : e.at = j
    BY <2>3, <1>5 DEF IsRecorded
  <2> QED BY <2>1, <2>2, <2>3 DEF IsRecorded, Snapped
<1>7. StateAt(ws, c, g, i).names = final
  <2>1. i \in 1 .. (i + 1) - 1
    BY <1>0
  <2>2. NodeAt(ws, c, g, i).names = before /\ ~NodeAt(ws, c, g, i).inactive
    BY <2>1, <1>5 DEF IsFollowed
  <2>3. ~StateAt(ws, c, g, i - 1).ended
    BY <2>2 DEF NodeAt, NodeState
  <2> HIDE DEF before
  <2> QED BY <2>2, <2>3, <1>0, <1>3, AfterInclude
<1> QED BY <1>4, <1>6, <1>7

-----------------------------------------------------------------------------
(* The invariant of the resolver, and that its steps keep it.              *)

IsSeqOf(s) == s \in Seq(Range(s))
Entries(ws) == [context : Contexts(ws), at : Nat]

\* What a file of a context is made of.
ShapesHold(ws, fs) ==
    /\ DOMAIN fs \subseteq Contexts(ws) /\ fs = [c \in DOMAIN fs |-> fs[c]]
    /\ \A c \in DOMAIN fs :
          /\ fs[c] = [includes |-> fs[c].includes, snapshots |-> fs[c].snapshots, final |-> fs[c].final]
          /\ IsSeqOf(fs[c].includes)

OnStack(st, c) == \E j \in 1 .. Len(st) : st[j].context = c
AtRest(rs, c) == \E i \in 1 .. Len(rs) : rs[i] = c

\* The provided files that wait are as new.
RootsWait(ws, fs, st, rs) ==
    /\ rs \in Seq(Contexts(ws))
    /\ \A i \in 1 .. Len(rs) :
          /\ rs[i] \in DOMAIN fs /\ rs[i].environment = ws.defines /\ fs[rs[i]] = NewFile
          /\ ~OnStack(st, rs[i])
    /\ \A i, j \in 1 .. Len(rs) : rs[i] = rs[j] => i = j

StackHolds(ws, fs, st) ==
    /\ st \in Seq(Entries(ws))
    /\ \A j \in 1 .. Len(st) : IF j = Len(st) THEN IsTop(ws, fs, st[j]) ELSE IsBelow(ws, fs, st[j], st[j + 1].context)
    /\ \A i, j \in 1 .. Len(st) : st[i].context = st[j].context => i = j

FilesHold(ws, fs, st, rs) ==
    \A c \in DOMAIN fs :
        IF fs[c].final = None THEN AtRest(rs, c) \/ OnStack(st, c) ELSE IsFinished(ws, fs, c)

IncludesHold(ws, fs, st, rs) ==
    /\ ShapesHold(ws, fs) /\ RootsWait(ws, fs, st, rs) /\ StackHolds(ws, fs, st) /\ FilesHold(ws, fs, st, rs)

\* The workspace, and its provided files.
IsGiven(ws) == \E i \in DOMAIN Workspaces : ws \in Workspaces[i]
ProvidedHold(ws, fs) == \A i \in DOMAIN ws.provided : RootContext(ws, ws.provided[i]) \in DOMAIN fs

IInv == IsGiven(w) /\ ProvidedHold(w, files) /\ IncludesHold(w, files, stack, roots)

LEMMA GivenIs ==
    ASSUME NEW ws, IsGiven(ws)
    PROVE  IsWorkspace(ws) /\ None \notin Contexts(ws) /\ \A names \in SUBSET NamesOf(ws) : names # None
BY WorkspacesAssumption DEF IsGiven

LEMMA RangeAppend ==
    ASSUME NEW s, IsSeqOf(s), NEW e
    PROVE  IsSeqOf(Append(s, e)) /\ Range(Append(s, e)) = Range(s) \cup {e}
<1> DEFINE V == Range(s) \cup {e}
           t == Append(s, e)
<1>1. s \in Seq(V) /\ e \in V /\ Len(s) \in Nat
  <2>1. s \in Seq(Range(s))
    BY DEF IsSeqOf
  <2> DEFINE R == Range(s)
  <2> HIDE DEF R
  <2>2. s \in Seq(R \cup {e}) /\ Len(s) \in Nat
    BY <2>1 DEF R
  <2> QED BY <2>2 DEF R
<1>2. DOMAIN s = 1 .. Len(s)
  <2> HIDE DEF V
  <2> QED BY <1>1
<1>3. t \in Seq(V) /\ DOMAIN t = 1 .. Len(s) + 1 /\ t[Len(s) + 1] = e /\ \A i \in 1 .. Len(s) : t[i] = s[i]
  <2> HIDE DEF V
  <2> QED BY <1>1
<1>4. Range(t) = V
  <2>1. ASSUME NEW x \in Range(t) PROVE x \in V
    <3>1. PICK i \in DOMAIN t : x = t[i]
      BY DEF Range
    <3> HIDE DEF t
    <3>2. CASE i = Len(s) + 1
      BY <1>3, <3>1, <3>2
    <3>3. CASE i # Len(s) + 1
      <4>1. i \in 1 .. Len(s)
        BY <1>1, <1>3, <3>3
      <4> QED BY <1>2, <1>3, <3>1, <4>1 DEF Range
    <3> QED BY <3>2, <3>3
  <2>2. ASSUME NEW x \in V PROVE x \in Range(t)
    <3> HIDE DEF t
    <3>1. CASE x = e
      <4>1. Len(s) + 1 \in DOMAIN t
        BY <1>1, <1>3
      <4> QED BY <4>1, <1>3, <3>1 DEF Range
    <3>2. CASE x \in Range(s)
      <4>1. PICK i \in 1 .. Len(s) : x = s[i]
        BY <3>2, <1>2 DEF Range
      <4>2. i \in DOMAIN t /\ t[i] = x
        BY <1>1, <1>3, <4>1
      <4> QED BY <4>2 DEF Range
    <3> QED BY <3>1, <3>2
  <2> HIDE DEF V, t
  <2> QED BY <2>1, <2>2
<1>5. IsSeqOf(t)
  <2> HIDE DEF t, V
  <2> QED BY <1>3, <1>4 DEF IsSeqOf
<1> QED BY <1>4, <1>5

\* A context that is entered, or goes on to its next include.
LEMMA TopMoves ==
    ASSUME NEW ws, IsWorkspace(ws), NEW fs, NEW c \in DOMAIN fs, c \in Contexts(ws), fs[c].final = None,
           NEW a \in 0 .. Len(ws.text[c.file]), IsRecorded(ws, c, fs[c], a + 1),
           \A i \in 1 .. a : IsJudged(ws, fs, c, i),
           NEW x, x = [context |-> c, at |-> NextInclude(ws.text[c.file], a)]
    PROVE  IsTop(ws, fs, x) /\ x \in Entries(ws)
<1>0. Len(ws.text[c.file]) \in Nat /\ x.context = c
  BY TextsAre
<1>1. /\ IsRecorded(ws, c, fs[c], Bound(ws, x))
      /\ x.at \in 0 .. Len(ws.text[c.file]) /\ (x.at # 0 => IsInclude(ws.text[c.file][x.at]))
      /\ Bound(ws, x) > a
      /\ \A i \in a + 1 .. Bound(ws, x) - 1 : ~IsInclude(ws.text[c.file][i])
  BY RecordedOn
<1>2. Bound(ws, x) \in 1 .. Len(ws.text[c.file]) + 1
  BY <1>0, <1>1, BoundIs
<1>3. ASSUME NEW i \in 1 .. Bound(ws, x) - 1 PROVE IsJudged(ws, fs, c, i)
  <2>1. i \in 1 .. a \/ i \in a + 1 .. Bound(ws, x) - 1
    BY <1>0, <1>1, <1>2
  <2>2. ASSUME i \in a + 1 .. Bound(ws, x) - 1 PROVE IsJudged(ws, fs, c, i)
    BY <2>2, <1>1 DEF IsJudged, IsFollowed
  <2> QED BY <2>1, <2>2
<1>4. x = [context |-> c, at |-> x.at] /\ x \in Entries(ws)
  BY <1>0, <1>1 DEF Entries
<1>5. IsEntry(ws, fs, x)
  BY <1>0, <1>1, <1>3, <1>4 DEF IsEntry
<1> QED BY <1>0, <1>1, <1>4, <1>5 DEF IsTop

LEMMA NewRecorded ==
    ASSUME NEW ws, NEW c
    PROVE  IsRecorded(ws, c, NewFile, 1)
<1>1. Range(NewFile.includes) = {} /\ DOMAIN NewFile.snapshots = {}
  BY DEF NewFile, Range
<1> QED BY <1>1 DEF IsRecorded, Snapped

\* Files that are not resolved yet stay where they are.
LEMMA RootsStay ==
    ASSUME NEW ws, NEW fs, NEW st, NEW rs, RootsWait(ws, fs, st, rs), NEW gs, NEW tt,
           DOMAIN fs \subseteq DOMAIN gs,
           \A c \in DOMAIN fs : AtRest(rs, c) => gs[c] = fs[c] /\ ~OnStack(tt, c)
    PROVE  RootsWait(ws, gs, tt, rs)
BY DEF RootsWait, AtRest

\* A waiting file is no target: it knows no name of the compiler.
LEMMA NoneWaits ==
    ASSUME NEW ws, IsWorkspace(ws), NEW fs, NEW st, NEW rs, RootsWait(ws, fs, st, rs), NEW t, Compiler \in t.environment
    PROVE  ~AtRest(rs, t)
BY DEF RootsWait, AtRest, IsWorkspace

WithLast(s, y) == Append(SubSeq(s, 1, Len(s) - 1), y)

LEMMA ReplaceLast ==
    ASSUME NEW V, NEW s \in Seq(V), s # << >>, NEW y \in V
    PROVE  /\ Len(s) \in Nat \ {0} /\ WithLast(s, y) \in Seq(V) /\ Len(WithLast(s, y)) = Len(s)
           /\ WithLast(s, y)[Len(s)] = y
           /\ \A j \in 1 .. Len(s) - 1 : WithLast(s, y)[j] = s[j]
<1> DEFINE u == SubSeq(s, 1, Len(s) - 1)
<1>1. Len(s) \in Nat /\ Len(s) # 0
  OBVIOUS
<1>2. u \in Seq(V) /\ Len(u) = Len(s) - 1 /\ \A j \in 1 .. Len(s) - 1 : u[j] = s[j]
  <2>1. Len(s) - 1 \in Int /\ 1 \in Int /\ \A j \in 1 .. Len(s) - 1 : s[j] \in V
    BY <1>1
  <2>2. /\ u \in Seq(V) /\ Len(u) = IF 1 <= Len(s) - 1 THEN (Len(s) - 1) - 1 + 1 ELSE 0
        /\ \A j \in 1 .. (Len(s) - 1) - 1 + 1 : u[j] = s[1 + j - 1]
    BY <2>1, SubSeqProperties
  <2> HIDE DEF u
  <2> DEFINE n == Len(s)
  <2>3. n \in Nat /\ n # 0
    BY <1>1
  <2>4. Len(u) = (IF 1 <= n - 1 THEN (n - 1) - 1 + 1 ELSE 0) /\ \A j \in 1 .. (n - 1) - 1 + 1 : u[j] = s[1 + j - 1]
    BY <2>2
  <2> HIDE DEF n
  <2>5. (n - 1) - 1 + 1 = n - 1 /\ Len(u) = n - 1
    BY <2>3, <2>4
  <2>6. ASSUME NEW j \in 1 .. n - 1 PROVE u[j] = s[j]
    <3>1. 1 + j - 1 = j /\ j \in 1 .. (n - 1) - 1 + 1
      BY <2>3
    <3> QED BY <3>1, <2>4
  <2> QED BY <2>2, <2>5, <2>6 DEF n
<1> HIDE DEF u
<1>3. WithLast(s, y) = Append(u, y)
  BY DEF u, WithLast
<1> QED BY <1>1, <1>2, <1>3

\* The context on top goes on.
LEMMA MoveTop ==
    ASSUME NEW ws, IsWorkspace(ws), NEW fs, NEW st, NEW rs, IncludesHold(ws, fs, st, rs), st # << >>,
           NEW gs, ShapesHold(ws, gs), Grows(fs, gs), DOMAIN gs = DOMAIN fs,
           NEW c, c = st[Len(st)].context, \A x \in DOMAIN fs : x # c => gs[x] = fs[x],
           NEW y \in Entries(ws), y.context = c, IsTop(ws, gs, y),
           NEW tt, tt = WithLast(st, y)
    PROVE  IncludesHold(ws, gs, tt, rs)
<1>0. /\ Len(st) \in Nat \ {0} /\ tt \in Seq(Entries(ws)) /\ Len(tt) = Len(st) /\ tt[Len(st)] = y
      /\ \A j \in 1 .. Len(st) - 1 : tt[j] = st[j]
  <2>1. st \in Seq(Entries(ws))
    BY DEF IncludesHold, StackHolds
  <2>2. /\ Len(st) \in Nat \ {0} /\ WithLast(st, y) \in Seq(Entries(ws)) /\ Len(WithLast(st, y)) = Len(st)
        /\ WithLast(st, y)[Len(st)] = y
        /\ \A j \in 1 .. Len(st) - 1 : WithLast(st, y)[j] = st[j]
    <3>0. st # << >> /\ y \in Entries(ws)
      OBVIOUS
    <3> QED BY ONLY <2>1, <3>0, ReplaceLast
  <2> QED BY <2>2
<1>1. \A j \in 1 .. Len(st) : tt[j].context = st[j].context
  BY <1>0
<1>2. \A x : OnStack(tt, x) <=> OnStack(st, x)
  BY <1>0, <1>1 DEF OnStack
<1>3. OnStack(st, c)
  BY <1>0 DEF OnStack
<1>4. RootsWait(ws, gs, tt, rs)
  <2>1. \A x \in DOMAIN fs : AtRest(rs, x) => gs[x] = fs[x] /\ ~OnStack(tt, x)
    BY <1>2, <1>3 DEF IncludesHold, RootsWait, AtRest
  <2> QED BY <2>1, RootsStay DEF IncludesHold
<1>5. StackHolds(ws, gs, tt)
  <2>1. ASSUME NEW j \in 1 .. Len(tt)
        PROVE  IF j = Len(tt) THEN IsTop(ws, gs, tt[j]) ELSE IsBelow(ws, gs, tt[j], tt[j + 1].context)
    <3>1. CASE j = Len(tt)
      BY <3>1, <1>0
    <3>2. CASE j # Len(tt)
      <4>1. j \in 1 .. Len(st) /\ j # Len(st) /\ j + 1 \in 1 .. Len(st) /\ tt[j] = st[j]
        BY <1>0, <3>2
      <4>2. IsBelow(ws, fs, st[j], st[j + 1].context) /\ st[j] \in Entries(ws)
        BY <4>1 DEF IncludesHold, StackHolds
      <4>3. st[j].context # c
        BY <4>1, <1>0 DEF IncludesHold, StackHolds
      <4>4. st[j].context \in DOMAIN fs /\ st[j].context \in Contexts(ws)
        BY <4>2 DEF IsBelow, IsEntry, Entries
      <4>5. gs[st[j].context] = fs[st[j].context]
        BY <4>3, <4>4
      <4>6. IsBelow(ws, gs, st[j], st[j + 1].context)
        BY <4>2, <4>4, <4>5, BelowStays
      <4> QED BY <4>1, <4>6, <1>1, <3>2
    <3> QED BY <3>1, <3>2
  <2>2. \A i, j \in 1 .. Len(tt) : tt[i].context = tt[j].context => i = j
    BY <1>0, <1>1 DEF IncludesHold, StackHolds
  <2> QED BY <1>0, <2>1, <2>2 DEF StackHolds
<1>6. FilesHold(ws, gs, tt, rs)
  <2> SUFFICES ASSUME NEW x \in DOMAIN gs
               PROVE  IF gs[x].final = None THEN AtRest(rs, x) \/ OnStack(tt, x) ELSE IsFinished(ws, gs, x)
    BY DEF FilesHold
  <2>1. CASE x = c
    <3>1. gs[x].final = None
      BY <2>1 DEF IsTop, IsEntry
    <3> QED BY <3>1, <2>1, <1>2, <1>3
  <2>2. CASE x # c
    <3>1. gs[x] = fs[x] /\ x \in Contexts(ws)
      BY <2>2 DEF IncludesHold, ShapesHold
    <3>2. IF fs[x].final = None THEN AtRest(rs, x) \/ OnStack(st, x) ELSE IsFinished(ws, fs, x)
      BY DEF IncludesHold, FilesHold
    <3>3. CASE fs[x].final = None
      BY <3>1, <3>2, <3>3, <1>2
    <3>4. CASE fs[x].final # None
      <4>1. IsFinished(ws, gs, x)
        BY <3>1, <3>2, <3>4, FinishedStays
      <4> QED BY <4>1, <3>1, <3>4
    <3> QED BY <3>3, <3>4
  <2> QED BY <2>1, <2>2
<1> QED BY <1>4, <1>5, <1>6 DEF IncludesHold

\* What the model says of the context on top.
LEMMA TopFacts ==
    ASSUME IInv, stack # << >>
    PROVE  LET c == Top.context IN
           /\ IsWorkspace(w) /\ Len(stack) \in Nat \ {0} /\ Top = stack[Len(stack)]
           /\ Top \in Entries(w) /\ c \in Contexts(w) /\ c \in DOMAIN files /\ IsTop(w, files, Top)
           /\ Snapped(w, files[c])
           /\ \A x \in DOMAIN files : AtRest(roots, x) => x # c
           /\ Top.at # 0 =>
                 /\ Top.at \in 1 .. Len(w.text[c.file]) /\ LineAtTop = w.text[c.file][Top.at] /\ IsInclude(LineAtTop)
                 /\ NodeAtTop = NodeAt(w, c, files[c], Top.at) /\ CandidatesAtTop = HitsAt(w, c, Top.at)
                 /\ TargetAtTop = TargetAt(w, c, files[c], Top.at)
                 /\ Bound(w, Top) = Top.at
                 /\ IsRecorded(w, c, files[c], Top.at)
                 /\ \A i \in 1 .. Top.at - 1 : IsJudged(w, files, c, i)
<1> DEFINE c == Top.context
<1>0. IsWorkspace(w) /\ IncludesHold(w, files, stack, roots)
  BY GivenIs DEF IInv
<1>1. stack \in Seq(Entries(w)) /\ Len(stack) \in Nat \ {0}
  BY <1>0 DEF IncludesHold, StackHolds
<1>2. Top = stack[Len(stack)] /\ Len(stack) \in 1 .. Len(stack)
  BY <1>1 DEF Top, Last
<1>3. Top \in Entries(w) /\ IsTop(w, files, Top)
  BY <1>0, <1>1, <1>2 DEF IncludesHold, StackHolds
<1>4. c \in Contexts(w) /\ c \in DOMAIN files /\ Top.at \in 0 .. Len(w.text[c.file])
  BY <1>3 DEF Entries, IsTop, IsEntry
<1>5. \A x \in DOMAIN files : AtRest(roots, x) => x # c
  BY <1>0, <1>2 DEF IncludesHold, RootsWait, AtRest, OnStack
<1>6. Snapped(w, files[c])
  BY <1>3, RecordedSnapped DEF IsTop
<1>7. ASSUME Top.at # 0
      PROVE  /\ Top.at \in 1 .. Len(w.text[c.file]) /\ LineAtTop = w.text[c.file][Top.at] /\ IsInclude(LineAtTop)
             /\ NodeAtTop = NodeAt(w, c, files[c], Top.at) /\ CandidatesAtTop = HitsAt(w, c, Top.at)
             /\ TargetAtTop = TargetAt(w, c, files[c], Top.at)
             /\ Bound(w, Top) = Top.at
             /\ IsRecorded(w, c, files[c], Top.at)
             /\ \A i \in 1 .. Top.at - 1 : IsJudged(w, files, c, i)
  <2>1. Top.at \in 1 .. Len(w.text[c.file])
    BY <1>0, <1>4, <1>7, TextsAre
  <2>2. LineAtTop = w.text[c.file][Top.at] /\ IsInclude(LineAtTop)
    BY <1>3, <1>7 DEF LineAtTop, IsTop, IsEntry
  <2>3. NodeAtTop = NodeAt(w, c, files[c], Top.at)
    BY <1>0, <1>4, <2>1, TextsAre, WalkNodes DEF NodeAtTop, WalkOf, NodeAt, StateAt
  <2>4. CandidatesAtTop = HitsAt(w, c, Top.at)
    BY <2>2 DEF CandidatesAtTop, HitsAt
  <2>5. TargetAtTop = TargetAt(w, c, files[c], Top.at)
    BY <2>3, <2>4 DEF TargetAtTop, TargetAt
  <2>6. Bound(w, Top) = Top.at
    BY <1>7 DEF Bound
  <2>7. IsRecorded(w, c, files[c], Top.at) /\ \A i \in 1 .. Top.at - 1 : IsJudged(w, files, c, i)
    BY <1>3, <2>6 DEF IsTop, IsEntry
  <2> QED BY <2>1, <2>2, <2>3, <2>4, <2>5, <2>6, <2>7
<1> QED BY <1>0, <1>1, <1>2, <1>3, <1>4, <1>5, <1>6, <1>7

LEMMA ResolveRootInv == ASSUME IInv, ResolveRoot PROVE IInv'
<1> DEFINE r == Head(roots)
           x == Enter(w, r)
<1>0. IsWorkspace(w) /\ ShapesHold(w, files) /\ RootsWait(w, files, stack, roots) /\ FilesHold(w, files, stack, roots)
  BY GivenIs DEF IInv, IncludesHold
<1>1. /\ stack = << >> /\ roots # << >> /\ stack' = <<x>> /\ roots' = Tail(roots)
      /\ w' = w /\ files' = files
  BY DEF ResolveRoot
<1>2. /\ roots \in Seq(Contexts(w)) /\ Len(roots) \in Nat \ {0} /\ r = roots[1] /\ 1 \in 1 .. Len(roots)
      /\ roots' \in Seq(Contexts(w)) /\ Len(roots') = Len(roots) - 1
      /\ \A i \in 1 .. Len(roots') : roots'[i] = roots[i + 1] /\ i + 1 \in 1 .. Len(roots)
  BY <1>0, <1>1 DEF RootsWait
<1>3. r \in DOMAIN files /\ files[r] = NewFile /\ r \in Contexts(w) /\ files[r].final = None
  BY <1>0, <1>2 DEF RootsWait, NewFile
<1>4. IsTop(w, files, x) /\ x \in Entries(w) /\ x.context = r
  <2>1. 0 \in 0 .. Len(w.text[r.file]) /\ IsRecorded(w, r, files[r], 0 + 1)
    BY <1>0, <1>3, TextsAre, NewRecorded
  <2>2. x = [context |-> r, at |-> NextInclude(w.text[r.file], 0)]
    BY DEF Enter
  <2>3. \A i \in 1 .. 0 : IsJudged(w, files, r, i)
    OBVIOUS
  <2> QED BY <1>0, <1>3, <2>1, <2>2, <2>3, TopMoves
<1>5. \A c : OnStack(stack', c) <=> c = r
  BY <1>1, <1>4 DEF OnStack
<1>6. \A c : AtRest(roots, c) => AtRest(roots', c) \/ c = r
  <2> SUFFICES ASSUME NEW i \in 1 .. Len(roots), i # 1 PROVE AtRest(roots', roots[i])
    BY <1>2 DEF AtRest
  <2>1. i - 1 \in 1 .. Len(roots') /\ (i - 1) + 1 = i
    BY <1>2
  <2>2. roots'[i - 1] = roots[(i - 1) + 1]
    BY <1>2, <2>1
  <2> QED BY <2>1, <2>2 DEF AtRest
<1>7. RootsWait(w, files, stack', roots')
  <2>1. \A i, j \in 1 .. Len(roots) : roots[i] = roots[j] => i = j
    BY <1>0 DEF RootsWait
  <2>2. \A i \in 1 .. Len(roots') : roots'[i] # r
    BY <1>2, <2>1
  <2>3. \A i, j \in 1 .. Len(roots') : roots'[i] = roots'[j] => i = j
    BY <1>2, <2>1
  <2>4. \A i \in 1 .. Len(roots') : roots'[i] \in DOMAIN files /\ roots'[i].environment = w.defines /\ files[roots'[i]] = NewFile
    BY <1>0, <1>2 DEF RootsWait
  <2> QED BY <1>2, <1>5, <2>2, <2>3, <2>4 DEF RootsWait
<1>8. StackHolds(w, files, stack')
  <2>1. Len(stack') = 1 /\ stack'[1] = x /\ stack' \in Seq(Entries(w))
    BY <1>1, <1>4
  <2> QED BY <2>1, <1>4 DEF StackHolds
<1>9. FilesHold(w, files, stack', roots')
  <2>1. \A c : ~OnStack(stack, c)
    BY <1>1 DEF OnStack
  <2> QED BY <1>0, <1>5, <1>6, <2>1 DEF FilesHold
<1> QED BY <1>0, <1>1, <1>7, <1>8, <1>9 DEF IInv, IncludesHold

LEMMA SkipIncludeInv == ASSUME IInv, SkipInclude PROVE IInv'
<1> DEFINE c == Top.context
           i == Top.at
           f == files[c]
           nowhere == IncludeAt(i, None, << >>, NodeAtTop.uncertain, LineAtTop)
           y == Advance(Top)
<1>0. stack # << >> /\ i # 0 /\ w' = w /\ roots' = roots /\ stack' = Append(Above, y)
  BY DEF SkipInclude
<1>1. /\ IsWorkspace(w) /\ Top = stack[Len(stack)] /\ Top \in Entries(w) /\ c \in Contexts(w) /\ c \in DOMAIN files
      /\ IsTop(w, files, Top) /\ i \in 1 .. Len(w.text[c.file]) /\ LineAtTop = w.text[c.file][i] /\ IsInclude(LineAtTop)
      /\ NodeAtTop = NodeAt(w, c, f, i) /\ CandidatesAtTop = HitsAt(w, c, i)
      /\ IsRecorded(w, c, f, i) /\ \A k \in 1 .. i - 1 : IsJudged(w, files, c, k)
  BY <1>0, TopFacts
<1>2. ~IsFollowed(w, c, f, i)
  BY <1>1 DEF SkipInclude, IsFollowed
<1>3. /\ files' = IF NodeAtTop.inactive THEN files ELSE [files EXCEPT ![c].includes = Append(@, nowhere)]
  BY DEF SkipInclude
<1>4. ShapesHold(w, files) /\ files = [x \in DOMAIN files |-> files[x]] /\ IsSeqOf(f.includes)
      /\ f = [includes |-> f.includes, snapshots |-> f.snapshots, final |-> f.final]
  BY <1>1 DEF IInv, IncludesHold, ShapesHold
<1> DEFINE g == IF NodeAtTop.inactive THEN f ELSE [includes |-> Append(f.includes, nowhere), snapshots |-> f.snapshots, final |-> f.final]
<1>5. files' = [files EXCEPT ![c] = g]
  <2>1. CASE NodeAtTop.inactive
    BY <2>1, <1>1, <1>3, <1>4
  <2>2. CASE ~NodeAtTop.inactive
    <3>1. files' = [files EXCEPT ![c] = [f EXCEPT !.includes = Append(@, nowhere)]]
      BY <1>3, <2>2
    <3>2. [f EXCEPT !.includes = Append(@, nowhere)] = g
      <4> HIDE DEF nowhere, f
      <4> QED BY <1>4, <2>2
    <3> QED BY <3>1, <3>2
  <2> QED BY <2>1, <2>2
<1>6. /\ DOMAIN files' = DOMAIN files /\ files' = [x \in DOMAIN files' |-> files'[x]] /\ files'[c] = g
      /\ \A x \in DOMAIN files : x # c => files'[x] = files[x]
  <2> HIDE DEF g, c
  <2> QED BY <1>1, <1>4, <1>5
<1>7. /\ g.snapshots = f.snapshots /\ g.final = f.final /\ IsSeqOf(g.includes)
      /\ g = [includes |-> g.includes, snapshots |-> g.snapshots, final |-> g.final]
      /\ Range(f.includes) \subseteq Range(g.includes)
      /\ \A e \in Range(g.includes) \ Range(f.includes) : e = nowhere
  <2>1. CASE NodeAtTop.inactive
    <3> HIDE DEF f, nowhere
    <3> QED BY <2>1, <1>4
  <2>2. CASE ~NodeAtTop.inactive
    <3>1. Range(Append(f.includes, nowhere)) = Range(f.includes) \cup {nowhere} /\ IsSeqOf(Append(f.includes, nowhere))
      <4> HIDE DEF f, nowhere
      <4> QED BY <1>4, RangeAppend
    <3> HIDE DEF f, nowhere
    <3> QED BY <2>2, <3>1, <1>4
  <2> QED BY <2>1, <2>2
<1>8. nowhere.at = i /\ nowhere.to = None
  BY DEF IncludeAt
<1>9. IsRecorded(w, c, g, i + 1)
  <2> HIDE DEF g, c, f, nowhere, i
  <2> QED BY <1>1, <1>2, <1>7, <1>8, RecordedOne
<1>10. f.final = None
  BY <1>1 DEF IsTop, IsEntry
<1>11. Grows(files, files')
  <2> SUFFICES ASSUME NEW x \in DOMAIN files
               PROVE  /\ Range(files[x].includes) \subseteq Range(files'[x].includes)
                      /\ files[x].final # None => files'[x] = files[x]
    BY <1>6 DEF Grows
  <2>1. CASE x = c
    BY <2>1, <1>6, <1>7, <1>10
  <2>2. CASE x # c
    BY <2>2, <1>6
  <2> QED BY <2>1, <2>2
<1>12. ASSUME NEW k \in 1 .. i PROVE IsJudged(w, files', c, k)
  <2>1. CASE k = i
    <3>1. ~IsFollowed(w, c, files'[c], i)
      <4>1. SameUpTo(f.snapshots, files'[c].snapshots, i - 1)
        BY <1>6, <1>7, SameSelf
      <4> QED BY <4>1, <1>1, <1>2, FollowedSame
    <3> QED BY <3>1, <2>1 DEF IsJudged
  <2>2. CASE k # i
    <3>1. k \in 1 .. i - 1 /\ k \in 1 .. Len(w.text[c.file])
      BY <1>1, <2>2, TextsAre
    <3>2. SameUpTo(files[c].snapshots, files'[c].snapshots, k)
      BY <1>6, <1>7, SameSelf
    <3> QED BY <3>1, <3>2, <1>1, <1>11, JudgedStays
  <2> QED BY <2>1, <2>2
<1>13. y = [context |-> c, at |-> NextInclude(w.text[c.file], i)]
  BY <1>1 DEF Advance, Entries
<1>14. i \in 0 .. Len(w.text[c.file])
  BY <1>1, TextsAre
<1>15. IsTop(w, files', y) /\ y \in Entries(w) /\ y.context = c
  <2>1. c \in DOMAIN files' /\ files'[c].final = None /\ IsRecorded(w, c, files'[c], i + 1)
    BY <1>1, <1>6, <1>7, <1>9, <1>10
  <2> HIDE DEF g, c, f, nowhere, i, y
  <2> QED BY <1>1, <1>12, <1>13, <1>14, <2>1, TopMoves
<1>16. ShapesHold(w, files')
  <2>1. ASSUME NEW x \in DOMAIN files'
        PROVE  /\ files'[x] = [includes |-> files'[x].includes, snapshots |-> files'[x].snapshots, final |-> files'[x].final]
               /\ IsSeqOf(files'[x].includes)
    <3>1. CASE x = c
      BY <3>1, <1>6, <1>7
    <3>2. CASE x # c
      BY <3>2, <1>4, <1>6 DEF ShapesHold
    <3> QED BY <3>1, <3>2
  <2> QED BY <1>4, <1>6, <2>1 DEF ShapesHold
<1>17. IncludesHold(w, files', stack', roots)
  <2>1. IncludesHold(w, files, stack, roots)
    BY DEF IInv
  <2>2. stack' = WithLast(stack, y)
    BY <1>0 DEF Above, WithLast
  <2>3. c = stack[Len(stack)].context
    BY <1>1
  <2> HIDE DEF c, y, g, f, i, nowhere
  <2> QED BY <1>0, <1>1, <1>6, <1>11, <1>15, <1>16, <2>1, <2>2, <2>3, MoveTop
<1> QED BY <1>0, <1>6, <1>17 DEF IInv, ProvidedHold

LEMMA FinalKnows ==
    ASSUME NEW ws, IsWorkspace(ws), NEW fs, NEW c \in Contexts(ws), IsFinished(ws, fs, c)
    PROVE  KnowsCompiler(ws, fs[c].final)
<1>1. Len(ws.text[c.file]) \in 0 .. Len(ws.text[c.file])
  BY TextsAre
<1>2. Snapped(ws, fs[c])
  BY RecordedSnapped DEF IsFinished
<1> QED BY <1>1, <1>2, WalkType DEF IsFinished

\* A context that is met again before it is resolved closes a loop.
LEMMA MetIsLoop ==
    ASSUME NEW ws, IsWorkspace(ws), NEW fs, NEW st, StackHolds(ws, fs, st), st # << >>, NEW gs, Grows(fs, gs),
           NEW c, c = st[Len(st)].context, NEW t, OnStack(st, t), \E e \in Range(gs[c].includes) : e.to = t
    PROVE  InLoop(gs, c, t)
<1> DEFINE n == Len(st)
<1>1. PICK j \in 1 .. n : st[j].context = t
  BY DEF OnStack
<1> DEFINE S == {st[k].context : k \in j .. n}
<1>2. n \in Nat \ {0} /\ \A k \in 1 .. n : IF k = n THEN IsTop(ws, fs, st[k]) ELSE IsBelow(ws, fs, st[k], st[k + 1].context)
  BY DEF StackHolds
<1>3. ASSUME NEW k \in 1 .. n PROVE st[k].context \in DOMAIN fs
  BY <1>2 DEF IsTop, IsBelow, IsEntry
<1> HIDE DEF n
<1>4. S \in SUBSET DOMAIN gs
  BY <1>2, <1>3 DEF Grows
<1>5. c \in S /\ t \in S
  BY <1>1, <1>2 DEF n
<1>6. ASSUME NEW x \in S PROVE \E e \in Range(gs[x].includes) : e.to \in S
  <2>1. PICK k \in j .. n : x = st[k].context
    OBVIOUS
  <2>2. CASE k = n
    BY <2>1, <2>2, <1>5 DEF n
  <2>3. CASE k # n
    <3>1. k \in 1 .. n /\ k + 1 \in j .. n
      BY <1>1, <1>2, <2>3
    <3>2. IsBelow(ws, fs, st[k], st[k + 1].context)
      BY <1>2, <2>3, <3>1
    <3>3. /\ IsRecorded(ws, x, fs[x], st[k].at + 1) /\ IsFollowed(ws, x, fs[x], st[k].at)
          /\ st[k + 1].context = TargetAt(ws, x, fs[x], st[k].at)
          /\ st[k].at # 0 /\ st[k].at \in 0 .. Len(ws.text[x.file])
      BY <2>1, <3>2 DEF IsBelow, IsEntry
    <3>4. st[k].at \in 1 .. (st[k].at + 1) - 1
      BY <3>3
    <3>5. PICK e \in Range(fs[x].includes) : e.at = st[k].at
      BY <3>3, <3>4 DEF IsRecorded
    <3>6. e.to = st[k + 1].context
      BY <3>3, <3>5 DEF IsRecorded
    <3>7. e \in Range(gs[x].includes)
      BY <1>3, <2>1, <3>1, <3>5 DEF Grows
    <3>8. st[k + 1].context \in S
      BY <3>1
    <3> QED BY <3>6, <3>7, <3>8
  <2> QED BY <2>2, <2>3
<1> HIDE DEF S
<1> QED BY <1>4, <1>5, <1>6 DEF InLoop, Loop

LEMMA MeetIncludeInv == ASSUME IInv, MeetInclude PROVE IInv'
<1> DEFINE c == Top.context
           i == Top.at
           f == files[c]
           t == TargetAtTop
           edge == IncludeAt(i, t, CandidatesAtTop, FALSE, LineAtTop)
           y == Advance(Top)
           h == [includes |-> Append(f.includes, edge), snapshots |-> f.snapshots, final |-> f.final]
           g == [h EXCEPT !.snapshots = Snapshot(f.snapshots, i, NodeAtTop.names, files[t].final)]
<1>0. /\ stack # << >> /\ i # 0 /\ w' = w /\ roots' = roots /\ stack' = WithLast(stack, y) /\ t \in DOMAIN files
      /\ ~NodeAtTop.inactive /\ ~NodeAtTop.uncertain /\ DOMAIN CandidatesAtTop # {}
      /\ files' = [Recorded(t) EXCEPT ![c].snapshots = Snapshot(@, i, NodeAtTop.names, files[t].final)]
  BY DEF MeetInclude, Follows, WithLast, Above
<1>1. /\ IsWorkspace(w) /\ Top = stack[Len(stack)] /\ Top \in Entries(w) /\ c \in Contexts(w) /\ c \in DOMAIN files
      /\ IsTop(w, files, Top) /\ i \in 1 .. Len(w.text[c.file]) /\ LineAtTop = w.text[c.file][i] /\ IsInclude(LineAtTop)
      /\ NodeAtTop = NodeAt(w, c, f, i) /\ CandidatesAtTop = HitsAt(w, c, i) /\ t = TargetAt(w, c, f, i)
      /\ IsRecorded(w, c, f, i) /\ \A k \in 1 .. i - 1 : IsJudged(w, files, c, k)
      /\ Snapped(w, f)
  BY <1>0, TopFacts
<1>2. IsFollowed(w, c, f, i)
  BY <1>0, <1>1 DEF IsFollowed
<1>3. /\ ShapesHold(w, files) /\ files = [x \in DOMAIN files |-> files[x]] /\ IsSeqOf(f.includes)
      /\ f = [includes |-> f.includes, snapshots |-> f.snapshots, final |-> f.final]
  BY <1>1 DEF IInv, IncludesHold, ShapesHold
<1>4. f.final = None
  BY <1>1 DEF IsTop, IsEntry
<1>5. files' = [files EXCEPT ![c] = g]
  <2> DEFINE rec == [files EXCEPT ![c] = h]
  <2>1. Recorded(t) = rec
    <3>1. Recorded(t) = [files EXCEPT ![c] = [f EXCEPT !.includes = Append(@, edge)]]
      BY DEF Recorded
    <3>2. [f EXCEPT !.includes = Append(@, edge)] = h
      <4> HIDE DEF edge, f
      <4> QED BY <1>3
    <3> QED BY <3>1, <3>2
  <2>2. rec[c] = h /\ h.snapshots = f.snapshots
    <3> HIDE DEF h, c
    <3> QED BY <1>1 DEF h
  <2>3. files' = [rec EXCEPT ![c] = [rec[c] EXCEPT !.snapshots = Snapshot(@, i, NodeAtTop.names, files[t].final)]]
    <3> HIDE DEF rec, c, i, t
    <3> QED BY <1>0, <2>1
  <2>4. files' = [rec EXCEPT ![c] = g]
    <3> HIDE DEF rec
    <3> QED BY <2>2, <2>3
  <2> HIDE DEF h, g, c
  <2> QED BY <2>4, <1>1, <1>3
<1>6. /\ DOMAIN files' = DOMAIN files /\ files' = [x \in DOMAIN files' |-> files'[x]] /\ files'[c] = g
      /\ \A x \in DOMAIN files : x # c => files'[x] = files[x]
  <2> HIDE DEF g, c
  <2> QED BY <1>1, <1>3, <1>5
<1>7. /\ h.snapshots = f.snapshots /\ h.final = f.final /\ g.includes = h.includes /\ g.final = f.final
      /\ g = [includes |-> g.includes, snapshots |-> g.snapshots, final |-> g.final]
      /\ g.snapshots = Snapshot(f.snapshots, i, NodeAtTop.names, files[t].final)
  <2> DEFINE snap == Snapshot(f.snapshots, i, NodeAtTop.names, files[t].final)
  <2> HIDE DEF snap, f, edge
  <2> QED BY DEF snap
<1>8. /\ IsSeqOf(h.includes) /\ Range(h.includes) = Range(f.includes) \cup {edge}
      /\ edge.at = i /\ edge.to = t
  <2>1. h.includes = Append(f.includes, edge)
    OBVIOUS
  <2>2. edge.at = i /\ edge.to = t
    BY DEF IncludeAt
  <2> HIDE DEF f, edge, h
  <2> QED BY <1>3, <2>1, <2>2, RangeAppend
<1>9. IsRecorded(w, c, h, i + 1) /\ IsFollowed(w, c, h, i) /\ NodeAt(w, c, h, i) = NodeAt(w, c, f, i)
  <2>1. IsRecorded(w, c, h, i + 1)
    <3> HIDE DEF h, c, f, edge, i, t
    <3> QED BY <1>1, <1>2, <1>7, <1>8, RecordedOne
  <2>2. SameUpTo(f.snapshots, h.snapshots, i - 1)
    BY <1>7, SameSelf
  <2> HIDE DEF h, c, f, i
  <2> QED BY <1>1, <1>2, <2>1, <2>2, FollowedSame
<1>10. i \notin DOMAIN h.snapshots
  <2>1. \A j \in DOMAIN f.snapshots : j \in 1 .. i - 1
    BY <1>1 DEF IsRecorded
  <2>2. i \in Nat
    BY <1>1, TextsAre
  <2> HIDE DEF h, f, i
  <2> QED BY <1>7, <2>1, <2>2
<1>11. /\ IsRecorded(w, c, g, i + 1) /\ SameUpTo(f.snapshots, g.snapshots, i - 1)
       /\ files[t].final # None => StateAt(w, c, g, i).names = files[t].final
  <2>1. CASE files[t].final = None
    <3>1. g.snapshots = f.snapshots
      BY <1>7, <2>1 DEF Snapshot
    <3>2. g = h
      <4> HIDE DEF g, h
      <4>1. h = [includes |-> h.includes, snapshots |-> h.snapshots, final |-> h.final]
        BY DEF h
      <4> QED BY <1>7, <3>1, <4>1
    <3>3. SameUpTo(f.snapshots, g.snapshots, i - 1)
      BY <3>1, SameSelf
    <3> HIDE DEF g, h
    <3> QED BY <1>9, <2>1, <3>2, <3>3
  <2>2. CASE files[t].final # None
    <3>1. t \in Contexts(w)
      BY <1>0, <1>3 DEF ShapesHold
    <3>2. IsFinished(w, files, t)
      BY <1>0, <2>2 DEF IInv, IncludesHold, FilesHold
    <3>3. KnowsCompiler(w, files[t].final)
      BY <1>1, <3>1, <3>2, FinalKnows
    <3>5. g.snapshots = Snapshot(h.snapshots, i, NodeAt(w, c, h, i).names, files[t].final)
      BY <1>1, <1>7, <1>9
    <3>6. /\ IsRecorded(w, c, g, i + 1) /\ SameUpTo(h.snapshots, g.snapshots, i - 1)
          /\ StateAt(w, c, g, i).names = files[t].final
      <4> HIDE DEF g, h, c, i, t, f
      <4>1. LeavesAt(w, c, h, g, i, files[t].final)
        BY <1>1, <1>7, <1>9, <1>10, <2>2, <3>3, <3>5 DEF LeavesAt
      <4> QED BY <4>1, RecordedFinal
    <3> QED BY <3>6, <1>7
  <2> QED BY <2>1, <2>2
<1>12. Grows(files, files')
  <2> SUFFICES ASSUME NEW x \in DOMAIN files
               PROVE  /\ Range(files[x].includes) \subseteq Range(files'[x].includes)
                      /\ files[x].final # None => files'[x] = files[x]
    BY <1>6 DEF Grows
  <2>1. CASE x = c
    <3> HIDE DEF h, g
    <3> QED BY <2>1, <1>6, <1>7, <1>8, <1>4
  <2>2. CASE x # c
    BY <2>2, <1>6
  <2> QED BY <2>1, <2>2
<1>13. TargetAt(w, c, g, i) = t /\ KnowsCompiler(w, t.environment)
  <2>1. TargetAt(w, c, g, i) = TargetAt(w, c, f, i)
    <3> HIDE DEF g, c, f, i
    <3> QED BY <1>1, <1>11, FollowedSame
  <2>2. KnowsCompiler(w, TargetAt(w, c, f, i).environment)
    BY <1>0, <1>1, TargetType
  <2> QED BY <1>1, <2>1, <2>2
<1>14. IsJudged(w, files', c, i)
  <2>1. CASE files[t].final # None
    <3>1. t # c /\ files'[t] = files[t]
      BY <1>0, <1>4, <1>6, <2>1
    <3> HIDE DEF g, t, c, i
    <3> QED BY <1>0, <1>6, <1>11, <1>13, <2>1, <3>1 DEF IsJudged
  <2>2. CASE files[t].final = None
    <3>1. IncludesHold(w, files, stack, roots)
      BY DEF IInv
    <3>2. OnStack(stack, t)
      <4>1. ~AtRest(roots, t)
        BY <1>1, <1>13, <3>1, NoneWaits DEF IncludesHold, KnowsCompiler
      <4> QED BY <1>0, <2>2, <3>1, <4>1 DEF IncludesHold, FilesHold
    <3>3. \E e \in Range(files'[c].includes) : e.to = t
      <4> HIDE DEF g, h, edge, t, c, i
      <4> QED BY <1>6, <1>7, <1>8
    <3>4. c = stack[Len(stack)].context
      BY <1>1
    <3>5. InLoop(files', c, t)
      <4> HIDE DEF c, t
      <4> QED BY <1>0, <1>1, <1>12, <3>1, <3>2, <3>3, <3>4, MetIsLoop DEF IncludesHold
    <3> HIDE DEF g, t, c, i
    <3> QED BY <1>0, <1>6, <1>13, <3>5 DEF IsJudged
  <2> QED BY <2>1, <2>2
<1>15. ASSUME NEW k \in 1 .. i PROVE IsJudged(w, files', c, k)
  <2>1. CASE k = i
    BY <1>14, <2>1
  <2>2. CASE k # i
    <3>0. Len(w.text[c.file]) \in Nat /\ i \in 1 .. Len(w.text[c.file])
      BY <1>1, TextsAre
    <3>1. k \in 1 .. i - 1 /\ k \in 1 .. Len(w.text[c.file]) /\ \A m \in 1 .. k : m \in 1 .. i - 1
      <4> DEFINE n == Len(w.text[c.file])
      <4> HIDE DEF n, i
      <4> QED BY ONLY <2>2, <3>0, k \in 1 .. i
    <3>2. SameUpTo(files[c].snapshots, files'[c].snapshots, k)
      <4> HIDE DEF g
      <4> QED BY <1>6, <1>11, <3>1 DEF SameUpTo
    <3> HIDE DEF c, i
    <3> QED BY <3>1, <3>2, <1>1, <1>12, JudgedStays
  <2> QED BY <2>1, <2>2
<1>16. y = [context |-> c, at |-> NextInclude(w.text[c.file], i)]
  BY <1>1 DEF Advance, Entries
<1>17. i \in 0 .. Len(w.text[c.file])
  <2>1. Len(w.text[c.file]) \in Nat
    BY <1>1, TextsAre
  <2> HIDE DEF c, i
  <2> QED BY <1>1, <2>1
<1>18. IsTop(w, files', y) /\ y \in Entries(w) /\ y.context = c
  <2>1. c \in DOMAIN files' /\ files'[c].final = None /\ IsRecorded(w, c, files'[c], i + 1)
    <3> HIDE DEF g
    <3> QED BY <1>1, <1>4, <1>6, <1>7, <1>11
  <2> HIDE DEF g, c, f, i, y
  <2> QED BY <1>1, <1>15, <1>16, <1>17, <2>1, TopMoves
<1>19. ShapesHold(w, files')
  <2>1. ASSUME NEW x \in DOMAIN files'
        PROVE  /\ files'[x] = [includes |-> files'[x].includes, snapshots |-> files'[x].snapshots, final |-> files'[x].final]
               /\ IsSeqOf(files'[x].includes)
    <3>1. CASE x = c
      <4> HIDE DEF g, h
      <4> QED BY <3>1, <1>6, <1>7, <1>8
    <3>2. CASE x # c
      BY <3>2, <1>3, <1>6 DEF ShapesHold
    <3> QED BY <3>1, <3>2
  <2> QED BY <1>3, <1>6, <2>1 DEF ShapesHold
<1>20. IncludesHold(w, files', stack', roots)
  <2>1. IncludesHold(w, files, stack, roots)
    BY DEF IInv
  <2>2. c = stack[Len(stack)].context
    BY <1>1
  <2>3. /\ IsWorkspace(w) /\ stack # << >> /\ stack' = WithLast(stack, y) /\ DOMAIN files' = DOMAIN files
        /\ \A x \in DOMAIN files : x # c => files'[x] = files[x]
    BY <1>0, <1>1, <1>6
  <2> HIDE DEF c, y, g, f, i, t
  <2> QED BY ONLY <1>12, <1>18, <1>19, <2>1, <2>2, <2>3, MoveTop
<1> QED BY <1>0, <1>6, <1>20 DEF IInv, ProvidedHold

LEMMA AppendIs ==
    ASSUME NEW V, NEW s \in Seq(V), NEW y \in V
    PROVE  /\ Append(s, y) \in Seq(V) /\ Len(s) \in Nat /\ Len(Append(s, y)) = Len(s) + 1
           /\ Append(s, y)[Len(s) + 1] = y
           /\ \A j \in 1 .. Len(s) : Append(s, y)[j] = s[j]
OBVIOUS

LEMMA FollowIncludeInv == ASSUME IInv, FollowInclude PROVE IInv'
<1> DEFINE c == Top.context
           i == Top.at
           f == files[c]
           t == TargetAtTop
           edge == IncludeAt(i, t, CandidatesAtTop, FALSE, LineAtTop)
           y == Enter(w, t)
           h == [includes |-> Append(f.includes, edge), snapshots |-> f.snapshots, final |-> f.final]
           n == Len(stack)
<1>0. /\ stack # << >> /\ i # 0 /\ w' = w /\ roots' = roots /\ stack' = Append(stack, y) /\ t \notin DOMAIN files
      /\ ~NodeAtTop.inactive /\ ~NodeAtTop.uncertain /\ DOMAIN CandidatesAtTop # {}
      /\ files' = [x \in DOMAIN files \cup {t} |-> IF x = t THEN NewFile ELSE Recorded(t)[x]]
  BY DEF FollowInclude, Follows
<1>1. /\ IsWorkspace(w) /\ n \in Nat \ {0} /\ Top = stack[n] /\ Top \in Entries(w) /\ c \in Contexts(w) /\ c \in DOMAIN files
      /\ IsTop(w, files, Top) /\ i \in 1 .. Len(w.text[c.file]) /\ LineAtTop = w.text[c.file][i] /\ IsInclude(LineAtTop)
      /\ NodeAtTop = NodeAt(w, c, f, i) /\ CandidatesAtTop = HitsAt(w, c, i) /\ t = TargetAt(w, c, f, i)
      /\ IsRecorded(w, c, f, i) /\ \A k \in 1 .. i - 1 : IsJudged(w, files, c, k)
      /\ Snapped(w, f)
      /\ \A x \in DOMAIN files : AtRest(roots, x) => x # c
  BY <1>0, TopFacts
<1>2. IsFollowed(w, c, f, i)
  BY <1>0, <1>1 DEF IsFollowed
<1>3. /\ ShapesHold(w, files) /\ files = [x \in DOMAIN files |-> files[x]] /\ IsSeqOf(f.includes)
      /\ f = [includes |-> f.includes, snapshots |-> f.snapshots, final |-> f.final]
  BY <1>1 DEF IInv, IncludesHold, ShapesHold
<1>4. f.final = None
  BY <1>1 DEF IsTop, IsEntry
<1>5. Recorded(t) = [files EXCEPT ![c] = h]
  <2>1. Recorded(t) = [files EXCEPT ![c] = [f EXCEPT !.includes = Append(@, edge)]]
    BY DEF Recorded
  <2>2. [f EXCEPT !.includes = Append(@, edge)] = h
    <3> HIDE DEF edge, f
    <3> QED BY <1>3
  <2> QED BY <2>1, <2>2
<1>6. /\ DOMAIN files' = DOMAIN files \cup {t} /\ files' = [x \in DOMAIN files' |-> files'[x]] /\ files'[c] = h
      /\ files'[t] = NewFile /\ \A x \in DOMAIN files : x # c => files'[x] = files[x]
  <2> DEFINE rec == [files EXCEPT ![c] = h]
  <2>1. files' = [x \in DOMAIN files \cup {t} |-> IF x = t THEN NewFile ELSE rec[x]]
    BY <1>0, <1>5
  <2>2. DOMAIN rec = DOMAIN files /\ rec[c] = h /\ \A x \in DOMAIN files : x # c => rec[x] = files[x]
    <3> HIDE DEF h, c
    <3> QED BY <1>1, <1>3
  <2> HIDE DEF rec, h, c, t
  <2> QED BY <1>0, <1>1, <2>1, <2>2
<1>7. h.snapshots = f.snapshots /\ h.final = f.final /\ h = [includes |-> h.includes, snapshots |-> h.snapshots, final |-> h.final]
  <2> HIDE DEF f, edge
  <2> QED OBVIOUS
<1>8. /\ IsSeqOf(h.includes) /\ Range(h.includes) = Range(f.includes) \cup {edge}
      /\ edge.at = i /\ edge.to = t
  <2>1. h.includes = Append(f.includes, edge)
    OBVIOUS
  <2>2. edge.at = i /\ edge.to = t
    BY DEF IncludeAt
  <2> HIDE DEF f, edge, h
  <2> QED BY <1>3, <2>1, <2>2, RangeAppend
<1>9. IsRecorded(w, c, h, i + 1) /\ IsFollowed(w, c, h, i) /\ TargetAt(w, c, h, i) = t
  <2>1. IsRecorded(w, c, h, i + 1)
    <3> HIDE DEF h, c, f, edge, i, t
    <3> QED BY <1>1, <1>2, <1>7, <1>8, RecordedOne
  <2>2. SameUpTo(f.snapshots, h.snapshots, i - 1)
    BY <1>7, SameSelf
  <2> HIDE DEF h, c, f, i
  <2> QED BY <1>1, <1>2, <2>1, <2>2, FollowedSame
<1>10. i \notin DOMAIN h.snapshots
  <2>1. \A j \in DOMAIN f.snapshots : j \in 1 .. i - 1
    BY <1>1 DEF IsRecorded
  <2>2. i \in Nat
    <3>1. Len(w.text[c.file]) \in Nat
      BY <1>1, TextsAre
    <3> HIDE DEF c, i
    <3> QED BY <1>1, <3>1
  <2> HIDE DEF h, f, i
  <2> QED BY <1>7, <2>1, <2>2
<1>11. t \in Contexts(w) /\ t # c
  <2>1. t \in Contexts(w)
    BY <1>0, <1>1, TargetType
  <2> QED BY <2>1, <1>0, <1>1
<1>12. Grows(files, files')
  <2> SUFFICES ASSUME NEW x \in DOMAIN files
               PROVE  /\ Range(files[x].includes) \subseteq Range(files'[x].includes)
                      /\ files[x].final # None => files'[x] = files[x]
    BY <1>6 DEF Grows
  <2>1. CASE x = c
    <3> HIDE DEF h
    <3> QED BY <2>1, <1>6, <1>7, <1>8, <1>4
  <2>2. CASE x # c
    BY <2>2, <1>6
  <2> QED BY <2>1, <2>2
<1>13. ASSUME NEW k \in 1 .. i - 1 PROVE IsJudged(w, files', c, k)
  <2>1. k \in 1 .. Len(w.text[c.file])
    <3>1. Len(w.text[c.file]) \in Nat
      BY <1>1, TextsAre
    <3> HIDE DEF c, i
    <3> QED BY <1>1, <3>1
  <2>2. SameUpTo(files[c].snapshots, files'[c].snapshots, k)
    BY <1>6, <1>7, SameSelf
  <2> QED BY <2>1, <2>2, <1>1, <1>12, JudgedStays
<1>14. IsBelow(w, files', Top, t)
  <2>1. Bound(w, Top) = i
    BY <1>0 DEF Bound
  <2>2. IsEntry(w, files', Top)
    <3>1. /\ Top = [context |-> c, at |-> i] /\ i \in 0 .. Len(w.text[c.file]) /\ IsInclude(w.text[c.file][i])
      BY <1>0, <1>1 DEF IsTop, IsEntry
    <3>2. c \in DOMAIN files' /\ files'[c].final = None
      <4> HIDE DEF h
      <4> QED BY <1>1, <1>4, <1>6, <1>7
    <3> QED BY <2>1, <3>1, <3>2, <1>13 DEF IsEntry
  <2> HIDE DEF h
  <2> QED BY <1>0, <1>6, <1>9, <1>10, <2>2 DEF IsBelow
<1>15. IsTop(w, files', y) /\ y \in Entries(w) /\ y.context = t
  <2>1. 0 \in 0 .. Len(w.text[t.file]) /\ IsRecorded(w, t, files'[t], 0 + 1) /\ files'[t].final = None /\ t \in DOMAIN files'
    <3>1. 0 \in 0 .. Len(w.text[t.file])
      BY <1>1, <1>11, TextsAre
    <3> HIDE DEF t, h, c
    <3> QED BY <1>6, <3>1, NewRecorded DEF NewFile
  <2>2. y = [context |-> t, at |-> NextInclude(w.text[t.file], 0)]
    BY DEF Enter
  <2>3. \A k \in 1 .. 0 : IsJudged(w, files', t, k)
    OBVIOUS
  <2>4. y.context = t
    BY <2>2
  <2> HIDE DEF t, y, h, c
  <2> QED BY ONLY <1>1, <1>11, <2>1, <2>2, <2>3, <2>4, TopMoves
<1>16. /\ stack \in Seq(Entries(w)) /\ stack' \in Seq(Entries(w)) /\ Len(stack') = n + 1 /\ stack'[n + 1] = y
       /\ \A j \in 1 .. n : stack'[j] = stack[j]
  <2>1. stack \in Seq(Entries(w))
    BY DEF IInv, IncludesHold, StackHolds
  <2> HIDE DEF y
  <2> QED BY ONLY <1>0, <1>15, <2>1, AppendIs DEF n
<1> HIDE DEF h, t, y, n, c, i, f, edge
<1>17. ShapesHold(w, files')
  <2>1. ASSUME NEW x \in DOMAIN files'
        PROVE  /\ files'[x] = [includes |-> files'[x].includes, snapshots |-> files'[x].snapshots, final |-> files'[x].final]
               /\ IsSeqOf(files'[x].includes)
    <3>1. CASE x = c
      BY <3>1, <1>6, <1>7, <1>8
    <3>2. CASE x = t
      <4>1. IsSeqOf(NewFile.includes) /\ NewFile = [includes |-> NewFile.includes, snapshots |-> NewFile.snapshots, final |-> NewFile.final]
        BY DEF NewFile, IsSeqOf, Range
      <4> QED BY <3>2, <4>1, <1>6
    <3>3. CASE x # c /\ x # t
      BY <3>3, <1>3, <1>6 DEF ShapesHold
    <3> QED BY <3>1, <3>2, <3>3
  <2>2. DOMAIN files' \subseteq Contexts(w)
    BY <1>3, <1>6, <1>11 DEF ShapesHold
  <2> QED BY <1>6, <2>1, <2>2 DEF ShapesHold
<1>18. IncludesHold(w, files, stack, roots)
  BY DEF IInv
<1>19. \A j \in 1 .. n : stack[j].context \in DOMAIN files
  BY <1>18 DEF IncludesHold, StackHolds, n, IsTop, IsBelow, IsEntry
<1>20. \A x : OnStack(stack', x) <=> OnStack(stack, x) \/ x = t
  <2>1. \A x : OnStack(stack, x) => OnStack(stack', x)
    <3>1. \A j \in 1 .. n : j \in 1 .. n + 1
      BY <1>1
    <3> QED BY <1>16, <3>1 DEF OnStack, n
  <2>2. OnStack(stack', t)
    <3>1. n + 1 \in 1 .. n + 1
      BY <1>1
    <3> QED BY <1>15, <1>16, <3>1 DEF OnStack
  <2>3. ASSUME NEW x, OnStack(stack', x) PROVE OnStack(stack, x) \/ x = t
    <3>1. PICK j \in 1 .. n + 1 : stack'[j].context = x
      BY <1>16, <2>3 DEF OnStack
    <3>2. j = n + 1 \/ j \in 1 .. n
      BY <1>1
    <3> QED BY <1>15, <1>16, <3>1, <3>2 DEF OnStack, n
  <2> QED BY <2>1, <2>2, <2>3
<1>21. RootsWait(w, files', stack', roots)
  <2>1. ASSUME NEW x \in DOMAIN files, AtRest(roots, x) PROVE files'[x] = files[x] /\ ~OnStack(stack', x)
    <3>1. ~OnStack(stack, x)
      BY <1>18, <2>1 DEF IncludesHold, RootsWait, AtRest
    <3> QED BY <2>1, <3>1, <1>0, <1>1, <1>6, <1>20
  <2>2. DOMAIN files \subseteq DOMAIN files'
    BY <1>6
  <2> QED BY <1>18, <2>1, <2>2, RootsStay DEF IncludesHold
<1>22. StackHolds(w, files', stack')
  <2>1. ASSUME NEW j \in 1 .. n + 1
        PROVE  IF j = n + 1 THEN IsTop(w, files', stack'[j]) ELSE IsBelow(w, files', stack'[j], stack'[j + 1].context)
    <3>1. CASE j = n + 1
      BY <3>1, <1>15, <1>16
    <3>2. CASE j = n
      <4>1. j # n + 1 /\ j \in 1 .. n
        BY <1>1, <3>2
      <4> QED BY <4>1, <3>2, <1>1, <1>14, <1>15, <1>16
    <3>3. CASE j # n + 1 /\ j # n
      <4>1. j \in 1 .. n /\ j + 1 \in 1 .. n /\ n \in 1 .. n
        BY <1>1, <3>3
      <4>2. IsBelow(w, files, stack[j], stack[j + 1].context) /\ stack[j] \in Entries(w)
        BY <1>18, <4>1, <3>3 DEF IncludesHold, StackHolds, n
      <4>3. stack[j].context # stack[n].context
        BY <1>18, <4>1, <3>3 DEF IncludesHold, StackHolds, n
      <4>4. files'[stack[j].context] = files[stack[j].context]
        BY <1>1, <1>6, <1>19, <4>1, <4>3 DEF c
      <4>5. stack[j].context \in Contexts(w)
        BY <4>2 DEF Entries
      <4>6. IsBelow(w, files', stack[j], stack[j + 1].context)
        BY <1>1, <1>12, <4>2, <4>4, <4>5, BelowStays
      <4> QED BY <3>3, <4>1, <4>6, <1>16
    <3> QED BY <3>1, <3>2, <3>3
  <2>2. ASSUME NEW j \in 1 .. n + 1, NEW k \in 1 .. n + 1, stack'[j].context = stack'[k].context PROVE j = k
    <3>1. (j = n + 1 \/ j \in 1 .. n) /\ (k = n + 1 \/ k \in 1 .. n)
      BY <1>1
    <3>2. CASE j \in 1 .. n /\ k \in 1 .. n
      <4>1. stack[j].context = stack[k].context
        BY <1>16, <2>2, <3>2
      <4> QED BY <1>18, <3>2, <4>1 DEF IncludesHold, StackHolds, n
    <3>3. CASE j = n + 1 /\ k = n + 1
      BY <3>3
    <3>4. CASE j = n + 1 /\ k \in 1 .. n
      BY <3>4, <2>2, <1>0, <1>15, <1>16, <1>19
    <3>5. CASE k = n + 1 /\ j \in 1 .. n
      BY <3>5, <2>2, <1>0, <1>15, <1>16, <1>19
    <3> QED BY <3>1, <3>2, <3>3, <3>4, <3>5
  <2> QED BY <1>16, <2>1, <2>2 DEF StackHolds
<1>23. FilesHold(w, files', stack', roots)
  <2> SUFFICES ASSUME NEW x \in DOMAIN files'
               PROVE  IF files'[x].final = None THEN AtRest(roots, x) \/ OnStack(stack', x) ELSE IsFinished(w, files', x)
    BY DEF FilesHold
  <2>1. CASE x = t
    BY <2>1, <1>6, <1>20 DEF NewFile
  <2>2. CASE x = c
    <3>1. OnStack(stack, c) /\ files'[c].final = None
      BY <1>1, <1>4, <1>6, <1>7 DEF OnStack, n, c
    <3> QED BY <2>2, <3>1, <1>20
  <2>3. CASE x # t /\ x # c
    <3>1. x \in DOMAIN files /\ files'[x] = files[x] /\ x \in Contexts(w)
      BY <2>3, <1>3, <1>6 DEF ShapesHold
    <3>2. IF files[x].final = None THEN AtRest(roots, x) \/ OnStack(stack, x) ELSE IsFinished(w, files, x)
      BY <1>18, <3>1 DEF IncludesHold, FilesHold
    <3>3. CASE files[x].final = None
      BY <3>1, <3>2, <3>3, <1>20
    <3>4. CASE files[x].final # None
      <4>1. IsFinished(w, files', x)
        BY <1>1, <1>12, <3>1, <3>2, <3>4, FinishedStays
      <4> QED BY <4>1, <3>1, <3>4
    <3> QED BY <3>3, <3>4
  <2> QED BY <2>1, <2>2, <2>3
<1> QED BY <1>0, <1>6, <1>17, <1>21, <1>22, <1>23 DEF IInv, IncludesHold, ProvidedHold

\* What is defined at the end of a file.
LEMMA FinalIs ==
    ASSUME NEW ws, IsWorkspace(ws), NEW c \in Contexts(ws), NEW f
    PROVE  WalkOf(ws, c, f).names = StateAt(ws, c, f, Len(ws.text[c.file])).names
BY TextsAre, WalkSteps DEF WalkOf, StateAt

\* What is recorded does not depend on what the file leaves.
LEMMA RecordedSame ==
    ASSUME NEW ws, NEW c, NEW f, NEW g, NEW b, g.includes = f.includes, g.snapshots = f.snapshots,
           IsRecorded(ws, c, f, b)
    PROVE  IsRecorded(ws, c, g, b)
BY DEF IsRecorded, IsFollowed, TargetAt, NodeAt, StateAt, Snapped

\* A file of which every include was judged is finished once it knows what it leaves.
LEMMA Finishes ==
    ASSUME NEW ws, IsWorkspace(ws), NEW fs, NEW x, x.context \in Contexts(ws), IsTop(ws, fs, x), x.at = 0,
           NEW gs, Grows(fs, gs), gs[x.context].includes = fs[x.context].includes,
           gs[x.context].snapshots = fs[x.context].snapshots,
           gs[x.context].final = StateAt(ws, x.context, fs[x.context], Len(ws.text[x.context.file])).names
    PROVE  IsFinished(ws, gs, x.context)
<1> DEFINE c == x.context
           n == Len(ws.text[c.file])
<1>1. /\ n \in Nat /\ Bound(ws, x) = n + 1 /\ c \in DOMAIN fs
      /\ IsRecorded(ws, c, fs[c], n + 1) /\ \A i \in 1 .. (n + 1) - 1 : IsJudged(ws, fs, c, i)
  BY TextsAre DEF Bound, IsTop, IsEntry
<1>2. IsRecorded(ws, c, gs[c], n + 1)
  BY <1>1, RecordedSame
<1>3. ASSUME NEW i \in 1 .. n PROVE IsJudged(ws, gs, c, i)
  <2>1. IsJudged(ws, fs, c, i)
    <3> HIDE DEF n
    <3> QED BY <1>1
  <2>2. SameUpTo(fs[c].snapshots, gs[c].snapshots, i)
    BY SameSelf
  <2> QED BY <2>1, <2>2, <1>1, JudgedStays
<1>4. gs[c].final = StateAt(ws, c, gs[c], n).names
  BY DEF StateAt
<1> QED BY <1>2, <1>3, <1>4 DEF IsFinished

\* What the end of a file does to the files, seen from each of them.
LEMMA FinishFileShape ==
    ASSUME IInv, FinishFile,
           NEW final, final = WalkOf(w, Top.context, files[Top.context]).names,
           NEW p, p = Last(Above)
    PROVE  LET c == Top.context  f == files[c]  g == files'[c] IN
           /\ w' = w /\ roots' = roots /\ stack # << >> /\ Top.at = 0
           /\ DOMAIN files' = DOMAIN files /\ files' = [x \in DOMAIN files' |-> files'[x]]
           /\ Above = << >> \/ p.context # c =>
                 /\ g.includes = f.includes /\ g.snapshots = f.snapshots /\ g.final = final
                 /\ g = [includes |-> g.includes, snapshots |-> g.snapshots, final |-> g.final]
           /\ Above = << >> => stack' = << >> /\ \A x \in DOMAIN files : x # c => files'[x] = files[x]
           /\ Above # << >> /\ p.context # c /\ p.context \in DOMAIN files =>
                 LET q == files[p.context]  r == files'[p.context] IN
                 /\ stack' = [Above EXCEPT ![Len(Above)] = Advance(@)]
                 /\ \A x \in DOMAIN files : x # c /\ x # p.context => files'[x] = files[x]
                 /\ r.includes = q.includes /\ r.final = q.final
                 /\ r.snapshots = Snapshot(q.snapshots, p.at, c.environment, final)
                 /\ r = [includes |-> r.includes, snapshots |-> r.snapshots, final |-> r.final]
<1> DEFINE c == Top.context
           f == files[c]
           done == [files EXCEPT ![c].final = final]
           g == [includes |-> f.includes, snapshots |-> f.snapshots, final |-> final]
<1>1. w' = w /\ roots' = roots /\ stack # << >> /\ Top.at = 0
  BY DEF FinishFile
<1>2. c \in DOMAIN files
  BY <1>1, TopFacts
<1>3. /\ files = [x \in DOMAIN files |-> files[x]]
      /\ \A x \in DOMAIN files : files[x] = [includes |-> files[x].includes, snapshots |-> files[x].snapshots, final |-> files[x].final]
  BY DEF IInv, IncludesHold, ShapesHold
<1>4. done = [files EXCEPT ![c] = g]
  <2>1. done = [files EXCEPT ![c] = [f EXCEPT !.final = final]]
    OBVIOUS
  <2>2. [f EXCEPT !.final = final] = g
    <3>1. f = [includes |-> f.includes, snapshots |-> f.snapshots, final |-> f.final]
      BY <1>2, <1>3
    <3> HIDE DEF f
    <3> QED BY <3>1
  <2> QED BY <2>1, <2>2
<1>5. /\ DOMAIN done = DOMAIN files /\ done = [x \in DOMAIN done |-> done[x]] /\ done[c] = g
      /\ \A x \in DOMAIN files : x # c => done[x] = files[x]
  <2> HIDE DEF done, g, c
  <2> QED BY <1>2, <1>3, <1>4
<1>6. g.includes = f.includes /\ g.snapshots = f.snapshots /\ g.final = final /\ g = [includes |-> g.includes, snapshots |-> g.snapshots, final |-> g.final]
  <2> HIDE DEF f
  <2> QED OBVIOUS
<1>7. CASE Above = << >>
  <2>1. files' = done /\ stack' = << >>
    BY <1>7 DEF FinishFile
  <2> HIDE DEF done, g, c, f
  <2> QED BY <1>1, <1>5, <1>6, <1>7, <2>1 DEF c, f
<1>8. CASE Above # << >>
  <2> DEFINE pc == p.context
             q == files[pc]
             snap == Snapshot(q.snapshots, p.at, c.environment, final)
             r == [includes |-> q.includes, snapshots |-> snap, final |-> q.final]
  <2>1. /\ files' = [done EXCEPT ![pc].snapshots = Snapshot(@, p.at, c.environment, final)]
        /\ stack' = [Above EXCEPT ![Len(Above)] = Advance(@)]
    BY <1>8 DEF FinishFile
  <2>2. DOMAIN files' = DOMAIN files /\ files' = [x \in DOMAIN files' |-> files'[x]]
    <3> HIDE DEF done, c
    <3> QED BY <1>5, <2>1
  <2>3. ASSUME pc # c
        PROVE  files'[c] = g
    <3> HIDE DEF done, g, c, pc
    <3> QED BY <1>2, <1>5, <2>1, <2>3
  <2>4. ASSUME pc # c, pc \in DOMAIN files
        PROVE  files'[pc] = r /\ \A x \in DOMAIN files : x # c /\ x # pc => files'[x] = files[x]
    <3>1. done[pc] = q /\ q = [includes |-> q.includes, snapshots |-> q.snapshots, final |-> q.final]
      <4> HIDE DEF done
      <4> QED BY <1>3, <1>5, <2>4
    <3>2. files' = [done EXCEPT ![pc] = [done[pc] EXCEPT !.snapshots = Snapshot(@, p.at, c.environment, final)]]
      <4> HIDE DEF done, c
      <4> QED BY <2>1
    <3>3. [done[pc] EXCEPT !.snapshots = Snapshot(@, p.at, c.environment, final)] = r
      <4> HIDE DEF done, q, c
      <4> QED BY <3>1
    <3>4. files' = [done EXCEPT ![pc] = r]
      <4> HIDE DEF r, done, c, pc
      <4> QED BY <3>2, <3>3
    <3> HIDE DEF r, done, c, pc
    <3> QED BY <1>5, <2>4, <3>4
  <2>5. r.includes = q.includes /\ r.final = q.final /\ r.snapshots = snap /\ r = [includes |-> r.includes, snapshots |-> r.snapshots, final |-> r.final]
    <3> HIDE DEF q, snap
    <3> QED OBVIOUS
  <2> HIDE DEF r, g, c, f, q, pc, snap
  <2> QED BY <1>1, <1>6, <1>8, <2>1, <2>2, <2>3, <2>4, <2>5 DEF c, f, pc, q, snap
<1> QED BY <1>7, <1>8

\* Without its last context a stack holds the contexts below.
LEMMA AboveIs ==
    ASSUME NEW V, NEW s \in Seq(V), s # << >>, NEW u, u = SubSeq(s, 1, Len(s) - 1)
    PROVE  u \in Seq(V) /\ Len(u) = Len(s) - 1 /\ \A j \in 1 .. Len(s) - 1 : u[j] = s[j]
<1> DEFINE n == Len(s)
<1>1. n \in Nat /\ n # 0 /\ n - 1 \in Int /\ 1 \in Int /\ \A j \in 1 .. n - 1 : s[j] \in V
  OBVIOUS
<1>2. /\ u \in Seq(V) /\ Len(u) = (IF 1 <= n - 1 THEN (n - 1) - 1 + 1 ELSE 0)
      /\ \A j \in 1 .. (n - 1) - 1 + 1 : u[j] = s[1 + j - 1]
  BY <1>1, SubSeqProperties
<1> HIDE DEF n
<1>3. (n - 1) - 1 + 1 = n - 1 /\ Len(u) = n - 1
  BY <1>1, <1>2
<1>4. ASSUME NEW j \in 1 .. n - 1 PROVE u[j] = s[j]
  <2>1. 1 + j - 1 = j /\ j \in 1 .. (n - 1) - 1 + 1
    BY <1>1
  <2> QED BY <2>1, <1>2
<1> QED BY <1>2, <1>3, <1>4 DEF n

LEMMA FinishLast ==
    ASSUME IInv, FinishFile, Above = << >>
    PROVE  IInv'
<1> DEFINE c == Top.context
           final == WalkOf(w, c, files[c]).names
           p == Last(Above)
<1>1. /\ w' = w /\ roots' = roots /\ stack # << >> /\ Top.at = 0 /\ stack' = << >>
      /\ DOMAIN files' = DOMAIN files /\ files' = [x \in DOMAIN files' |-> files'[x]]
      /\ files'[c].includes = files[c].includes /\ files'[c].snapshots = files[c].snapshots /\ files'[c].final = final
      /\ files'[c] = [includes |-> files'[c].includes, snapshots |-> files'[c].snapshots, final |-> files'[c].final]
      /\ \A x \in DOMAIN files : x # c => files'[x] = files[x]
  <2> HIDE DEF p
  <2> QED BY FinishFileShape DEF p
<1>2. /\ IsWorkspace(w) /\ Len(stack) \in Nat \ {0} /\ Top = stack[Len(stack)] /\ c \in Contexts(w) /\ c \in DOMAIN files
      /\ IsTop(w, files, Top) /\ \A x \in DOMAIN files : AtRest(roots, x) => x # c
  BY <1>1, TopFacts
<1>3. IncludesHold(w, files, stack, roots)
  BY DEF IInv
<1>4. files[c].final = None
  BY <1>2 DEF IsTop, IsEntry
<1> HIDE DEF final
<1>5. Grows(files, files')
  <2> HIDE DEF c
  <2> QED BY <1>1, <1>4 DEF Grows
<1>6. IsFinished(w, files', c)
  <2>1. final = StateAt(w, c, files[c], Len(w.text[c.file])).names
    BY <1>2, FinalIs DEF final
  <2> QED BY <1>1, <1>2, <1>5, <2>1, Finishes
<1>7. ShapesHold(w, files')
  <2>1. ASSUME NEW x \in DOMAIN files'
        PROVE  /\ files'[x] = [includes |-> files'[x].includes, snapshots |-> files'[x].snapshots, final |-> files'[x].final]
               /\ IsSeqOf(files'[x].includes)
    <3>1. CASE x = c
      BY <3>1, <1>1, <1>2, <1>3 DEF IncludesHold, ShapesHold
    <3>2. CASE x # c
      BY <3>2, <1>1, <1>3 DEF IncludesHold, ShapesHold
    <3> QED BY <3>1, <3>2
  <2> QED BY <1>1, <1>3, <2>1 DEF IncludesHold, ShapesHold
<1>8. \A x : ~OnStack(stack', x)
  BY <1>1 DEF OnStack
<1>9. RootsWait(w, files', stack', roots)
  <2>1. ASSUME NEW x \in DOMAIN files, AtRest(roots, x) PROVE files'[x] = files[x] /\ ~OnStack(stack', x)
    BY <2>1, <1>1, <1>2, <1>8
  <2>2. DOMAIN files \subseteq DOMAIN files'
    BY <1>1
  <2> QED BY <1>3, <2>1, <2>2, RootsStay DEF IncludesHold
<1>10. StackHolds(w, files', stack')
  BY <1>1 DEF StackHolds
<1>11. \A x : OnStack(stack, x) => x = c
  <2>1. Len(stack) = 1
    <3>1. stack \in Seq(Entries(w))
      BY <1>3 DEF IncludesHold, StackHolds
    <3>2. Len(Above) = Len(stack) - 1
      BY <3>1, <1>1, AboveIs DEF Above
    <3>3. Len(Above) = 0
      OBVIOUS
    <3> QED BY <1>2, <3>2, <3>3
  <2> QED BY <1>2, <2>1 DEF OnStack
<1>12. FilesHold(w, files', stack', roots)
  <2> SUFFICES ASSUME NEW x \in DOMAIN files'
               PROVE  IF files'[x].final = None THEN AtRest(roots, x) \/ OnStack(stack', x) ELSE IsFinished(w, files', x)
    BY DEF FilesHold
  <2>1. CASE x = c
    <3>1. KnowsCompiler(w, files'[c].final) /\ \A names \in SUBSET NamesOf(w) : names # None
      BY <1>2, <1>6, FinalKnows, GivenIs DEF IInv
    <3>2. files'[c].final # None
      BY <3>1 DEF KnowsCompiler
    <3> QED BY <2>1, <3>2, <1>6
  <2>2. CASE x # c
    <3>1. x \in DOMAIN files /\ files'[x] = files[x] /\ x \in Contexts(w)
      BY <2>2, <1>1, <1>3 DEF IncludesHold, ShapesHold
    <3>2. IF files[x].final = None THEN AtRest(roots, x) \/ OnStack(stack, x) ELSE IsFinished(w, files, x)
      BY <1>3, <3>1 DEF IncludesHold, FilesHold
    <3>3. CASE files[x].final = None
      BY <3>1, <3>2, <3>3, <1>11, <2>2
    <3>4. CASE files[x].final # None
      <4>1. IsFinished(w, files', x)
        BY <1>2, <1>5, <3>1, <3>2, <3>4, FinishedStays
      <4> QED BY <4>1, <3>1, <3>4
    <3> QED BY <3>3, <3>4
  <2> QED BY <2>1, <2>2
<1> QED BY <1>1, <1>7, <1>9, <1>10, <1>12 DEF IInv, IncludesHold, ProvidedHold

LEMMA FinishAbove ==
    ASSUME IInv, FinishFile, Above # << >>
    PROVE  IInv'
<1> DEFINE c == Top.context
           final == WalkOf(w, c, files[c]).names
           p == Last(Above)
           pc == p.context
           n == Len(stack)
           i == p.at
           y == Advance(p)
<1>1. w' = w /\ roots' = roots /\ stack # << >> /\ Top.at = 0
  BY DEF FinishFile
<1>2. /\ IsWorkspace(w) /\ n \in Nat \ {0} /\ Top = stack[n] /\ c \in Contexts(w) /\ c \in DOMAIN files
      /\ IsTop(w, files, Top) /\ \A x \in DOMAIN files : AtRest(roots, x) => x # c
  BY <1>1, TopFacts
<1>3. IncludesHold(w, files, stack, roots) /\ stack \in Seq(Entries(w))
  BY DEF IInv, IncludesHold, StackHolds
<1>4. /\ Above \in Seq(Entries(w)) /\ Len(Above) = n - 1 /\ (\A j \in 1 .. n - 1 : Above[j] = stack[j])
      /\ n - 1 \in 1 .. n /\ n - 1 # n /\ n - 1 \in Nat \ {0} /\ p = stack[n - 1]
  <2>1. Above \in Seq(Entries(w)) /\ Len(Above) = n - 1 /\ \A j \in 1 .. n - 1 : Above[j] = stack[j]
    BY <1>1, <1>3, AboveIs DEF Above
  <2>2. Len(Above) # 0 /\ Len(Above) \in Nat
    BY <2>1
  <2>3. p = Above[Len(Above)]
    BY DEF Last
  <2> HIDE DEF n, p
  <2> QED BY <1>2, <2>1, <2>2, <2>3
<1>5. IsBelow(w, files, p, c) /\ p \in Entries(w) /\ pc # c
  <2>1. (n - 1) + 1 = n
    BY <1>2
  <2>2. IsBelow(w, files, stack[n - 1], stack[(n - 1) + 1].context)
    BY <1>3, <1>4 DEF IncludesHold, StackHolds
  <2>3. stack[n - 1].context # stack[n].context
    BY <1>2, <1>3, <1>4 DEF IncludesHold, StackHolds
  <2>4. stack[n - 1] \in Entries(w)
    BY <1>3, <1>4
  <2> HIDE DEF n, p
  <2> QED BY <1>2, <1>4, <2>1, <2>2, <2>3, <2>4
<1>6. /\ pc \in Contexts(w) /\ pc \in DOMAIN files /\ i \in 1 .. Len(w.text[pc.file])
      /\ IsRecorded(w, pc, files[pc], i + 1) /\ i \notin DOMAIN files[pc].snapshots
      /\ IsFollowed(w, pc, files[pc], i) /\ c = TargetAt(w, pc, files[pc], i)
      /\ files[pc].final = None /\ p = [context |-> pc, at |-> i]
      /\ \A k \in 1 .. i - 1 : IsJudged(w, files, pc, k)
  <2>1. pc \in Contexts(w)
    BY <1>5 DEF Entries
  <2>2. Len(w.text[pc.file]) \in Nat
    BY <1>2, <2>1, TextsAre
  <2>3. Bound(w, p) = i
    BY <1>5 DEF Bound, IsBelow
  <2> HIDE DEF p
  <2> QED BY <1>5, <2>1, <2>2, <2>3 DEF IsBelow, IsEntry
<1>7. /\ DOMAIN files' = DOMAIN files /\ files' = [x \in DOMAIN files' |-> files'[x]]
      /\ files'[c].includes = files[c].includes /\ files'[c].snapshots = files[c].snapshots /\ files'[c].final = final
      /\ files'[c] = [includes |-> files'[c].includes, snapshots |-> files'[c].snapshots, final |-> files'[c].final]
      /\ stack' = [Above EXCEPT ![Len(Above)] = Advance(@)]
      /\ \A x \in DOMAIN files : x # c /\ x # pc => files'[x] = files[x]
      /\ files'[pc].includes = files[pc].includes /\ files'[pc].final = files[pc].final
      /\ files'[pc].snapshots = Snapshot(files[pc].snapshots, i, c.environment, final)
      /\ files'[pc] = [includes |-> files'[pc].includes, snapshots |-> files'[pc].snapshots, final |-> files'[pc].final]
  <2> HIDE DEF p
  <2> QED BY <1>5, <1>6, FinishFileShape DEF p
<1>8. files[c].final = None
  BY <1>2 DEF IsTop, IsEntry
<1>9. final = StateAt(w, c, files[c], Len(w.text[c.file])).names
  BY <1>2, FinalIs
<1> HIDE DEF final
<1>10. Grows(files, files')
  <2> SUFFICES ASSUME NEW x \in DOMAIN files
               PROVE  /\ Range(files[x].includes) \subseteq Range(files'[x].includes)
                      /\ files[x].final # None => files'[x] = files[x]
    BY <1>7 DEF Grows
  <2> HIDE DEF c, p
  <2> QED BY <1>6, <1>7, <1>8
<1>11. IsFinished(w, files', c)
  BY <1>1, <1>2, <1>7, <1>9, <1>10, Finishes
<1>12. KnowsCompiler(w, final) /\ final # None /\ \A names \in SUBSET NamesOf(w) : names # None
  <2>1. KnowsCompiler(w, files'[c].final) /\ \A names \in SUBSET NamesOf(w) : names # None
    BY <1>2, <1>11, FinalKnows, GivenIs DEF IInv
  <2> QED BY <1>7, <2>1 DEF KnowsCompiler
<1>13. /\ IsRecorded(w, pc, files'[pc], i + 1) /\ SameUpTo(files[pc].snapshots, files'[pc].snapshots, i - 1)
       /\ StateAt(w, pc, files'[pc], i).names = final
  <2>1. c.environment = NodeAt(w, pc, files[pc], i).names
    <3>1. TargetAt(w, pc, files[pc], i).environment = NodeAt(w, pc, files[pc], i).names
      BY DEF TargetAt, Context
    <3> QED BY <3>1, <1>6
  <2> DEFINE f == files[pc]
             g == files'[pc]
  <2>2. g.snapshots = Snapshot(f.snapshots, i, NodeAt(w, pc, f, i).names, final)
    BY <1>7, <2>1
  <2>3. IsWorkspace(w)
    BY <1>2
  <2>4. pc \in Contexts(w) /\ i \in 1 .. Len(w.text[pc.file])
    BY <1>6
  <2>5. IsRecorded(w, pc, f, i + 1) /\ i \notin DOMAIN f.snapshots /\ IsFollowed(w, pc, f, i)
    BY <1>6
  <2>6. g.includes = f.includes
    BY <1>7
  <2>7. KnowsCompiler(w, final) /\ final # None
    BY <1>12
  <2> HIDE DEF c, p, pc, i, f, g
  <2>9. LeavesAt(w, pc, f, g, i, final)
    BY <2>2, <2>3, <2>4, <2>5, <2>6, <2>7 DEF LeavesAt
  <2>8. /\ IsRecorded(w, pc, g, i + 1) /\ SameUpTo(f.snapshots, g.snapshots, i - 1)
        /\ StateAt(w, pc, g, i).names = final
    BY <2>9, RecordedFinal
  <2> QED BY <2>8 DEF f, g
<1>14. TargetAt(w, pc, files'[pc], i) = c
  <2> DEFINE f == files[pc]
             g == files'[pc]
  <2>1. IsWorkspace(w) /\ pc \in Contexts(w) /\ i \in 1 .. Len(w.text[pc.file])
    BY <1>2, <1>6
  <2>2. SameUpTo(f.snapshots, g.snapshots, i - 1)
    BY <1>13
  <2>3. c = TargetAt(w, pc, f, i)
    BY <1>6
  <2> HIDE DEF c, p, pc, i, f, g
  <2>4. TargetAt(w, pc, f, i) = TargetAt(w, pc, g, i)
    BY ONLY <2>1, <2>2, FollowedSame
  <2> QED BY <2>3, <2>4 DEF g
<1>15. ASSUME NEW k \in 1 .. i PROVE IsJudged(w, files', pc, k)
  <2>1. CASE k = i
    BY <1>2, <1>7, <1>12, <1>13, <1>14, <2>1 DEF IsJudged
  <2>2. CASE k # i
    <3>1. Len(w.text[pc.file]) \in Nat
      BY <1>2, <1>6, TextsAre
    <3>2. k \in 1 .. i - 1 /\ k \in 1 .. Len(w.text[pc.file]) /\ \A m \in 1 .. k : m \in 1 .. i - 1
      <4> HIDE DEF p
      <4> QED BY <1>6, <2>2, <3>1
    <3>3. SameUpTo(files[pc].snapshots, files'[pc].snapshots, k)
      BY <1>13, <3>2 DEF SameUpTo
    <3> QED BY <3>2, <3>3, <1>2, <1>6, <1>10, JudgedStays
  <2> QED BY <2>1, <2>2
<1>16. y = [context |-> pc, at |-> NextInclude(w.text[pc.file], i)]
  <2> HIDE DEF p
  <2> QED BY <1>6 DEF Advance
<1>17. IsTop(w, files', y) /\ y \in Entries(w) /\ y.context = pc
  <2>1. /\ pc \in DOMAIN files' /\ files'[pc].final = None /\ i \in 0 .. Len(w.text[pc.file])
    BY <1>2, <1>6, <1>7, TextsAre
  <2>2. y.context = pc
    BY <1>16
  <2> HIDE DEF p, y
  <2> QED BY <1>2, <1>6, <1>13, <1>15, <1>16, <2>1, <2>2, TopMoves
<1>18. /\ stack' \in Seq(Entries(w)) /\ Len(stack') = n - 1 /\ stack'[n - 1] = y
       /\ \A j \in 1 .. n - 1 : j # n - 1 => stack'[j] = stack[j]
  <2> DEFINE m == n - 1
             E == Entries(w)
  <2>1. /\ Above \in Seq(E) /\ Len(Above) = m /\ m \in Nat \ {0} /\ Above[m] = p /\ y \in E
        /\ \A j \in 1 .. m : Above[j] = stack[j]
    <3>1. m \in 1 .. m
      BY <1>4
    <3> HIDE DEF m, p, y
    <3> QED BY <1>4, <1>17, <3>1 DEF m
  <2>2. stack' = [Above EXCEPT ![m] = y]
    <3>1. stack' = [Above EXCEPT ![Len(Above)] = Advance(Above[Len(Above)])]
      BY <1>7
    <3> HIDE DEF m, p
    <3> QED BY <2>1, <3>1
  <2> HIDE DEF m, E, y, p
  <2>3. stack' \in Seq(E) /\ Len(stack') = m /\ stack'[m] = y /\ \A j \in 1 .. m : j # m => stack'[j] = Above[j]
    BY <2>1, <2>2
  <2>4. stack' \in Seq(E) /\ Len(stack') = m /\ stack'[m] = y /\ \A j \in 1 .. m : j # m => stack'[j] = stack[j]
    BY <2>1, <2>3
  <2> QED BY <2>4 DEF m, E
<1> HIDE DEF c, p, pc, n, i, y
<1>19. \A j \in 1 .. n - 1 : stack'[j].context = stack[j].context
  BY <1>4, <1>17, <1>18 DEF pc
<1>20. ShapesHold(w, files')
  <2>1. ASSUME NEW x \in DOMAIN files'
        PROVE  /\ files'[x] = [includes |-> files'[x].includes, snapshots |-> files'[x].snapshots, final |-> files'[x].final]
               /\ IsSeqOf(files'[x].includes)
    <3>1. CASE x = c
      BY <3>1, <1>2, <1>3, <1>7 DEF IncludesHold, ShapesHold
    <3>2. CASE x = pc
      BY <3>2, <1>3, <1>6, <1>7 DEF IncludesHold, ShapesHold
    <3>3. CASE x # c /\ x # pc
      BY <3>3, <1>3, <1>7 DEF IncludesHold, ShapesHold
    <3> QED BY <3>1, <3>2, <3>3
  <2> QED BY <1>3, <1>7, <2>1 DEF IncludesHold, ShapesHold
<1>21. \A x : OnStack(stack', x) <=> OnStack(stack, x) /\ x # c
  <2>1. ASSUME NEW x, OnStack(stack', x) PROVE OnStack(stack, x) /\ x # c
    <3>1. PICK j \in 1 .. n - 1 : stack'[j].context = x
      BY <1>18, <2>1 DEF OnStack
    <3>2. j \in 1 .. n /\ j # n /\ n \in 1 .. n /\ stack[j].context = x
      BY <1>2, <1>4, <1>19, <3>1
    <3>3. stack[j].context # stack[n].context
      BY <1>3, <3>2 DEF IncludesHold, StackHolds, n
    <3> QED BY <1>2, <3>2, <3>3 DEF OnStack, n, c
  <2>2. ASSUME NEW x, OnStack(stack, x), x # c PROVE OnStack(stack', x)
    <3>1. PICK j \in 1 .. n : stack[j].context = x
      BY <2>2 DEF OnStack, n
    <3>2. j # n
      BY <3>1, <2>2, <1>2 DEF c
    <3>3. j \in 1 .. n - 1
      BY <1>2, <3>2
    <3> QED BY <3>1, <3>3, <1>18, <1>19 DEF OnStack
  <2> QED BY <2>1, <2>2
<1>22. OnStack(stack, pc)
  BY <1>4 DEF OnStack, n, pc
<1>23. RootsWait(w, files', stack', roots)
  <2>1. ASSUME NEW x \in DOMAIN files, AtRest(roots, x) PROVE files'[x] = files[x] /\ ~OnStack(stack', x)
    <3>1. ~OnStack(stack, x)
      BY <1>3, <2>1 DEF IncludesHold, RootsWait, AtRest
    <3>2. x # pc /\ x # c
      BY <1>2, <1>22, <2>1, <3>1
    <3> QED BY <1>7, <1>21, <3>1, <3>2
  <2>2. DOMAIN files \subseteq DOMAIN files'
    BY <1>7
  <2> QED BY <1>3, <2>1, <2>2, RootsStay DEF IncludesHold
<1>24. StackHolds(w, files', stack')
  <2>1. ASSUME NEW j \in 1 .. n - 1
        PROVE  IF j = n - 1 THEN IsTop(w, files', stack'[j]) ELSE IsBelow(w, files', stack'[j], stack'[j + 1].context)
    <3>1. CASE j = n - 1
      BY <3>1, <1>17, <1>18
    <3>2. CASE j # n - 1
      <4>1. /\ j \in 1 .. n /\ j # n /\ j + 1 \in 1 .. n - 1 /\ n \in 1 .. n /\ n - 1 \in 1 .. n
        BY <1>2, <1>4, <3>2
      <4>2. IsBelow(w, files, stack[j], stack[j + 1].context) /\ stack[j] \in Entries(w)
        BY <1>3, <4>1 DEF IncludesHold, StackHolds, n
      <4>3. stack[j].context # stack[n].context /\ stack[j].context # stack[n - 1].context
        BY <1>3, <4>1, <3>2 DEF IncludesHold, StackHolds, n
      <4>4. stack[j].context \in DOMAIN files /\ stack[j].context \in Contexts(w)
        BY <4>2 DEF IsBelow, IsEntry, Entries
      <4>5. files'[stack[j].context] = files[stack[j].context]
        BY <1>2, <1>4, <1>7, <4>3, <4>4 DEF c, pc
      <4>6. IsBelow(w, files', stack[j], stack[j + 1].context)
        BY <1>2, <1>10, <4>2, <4>4, <4>5, BelowStays
      <4> QED BY <3>2, <4>1, <4>6, <1>18, <1>19
    <3> QED BY <3>1, <3>2
  <2>2. ASSUME NEW j \in 1 .. n - 1, NEW k \in 1 .. n - 1, stack'[j].context = stack'[k].context PROVE j = k
    <3>1. j \in 1 .. n /\ k \in 1 .. n /\ stack[j].context = stack[k].context
      BY <1>2, <1>19, <2>2
    <3> QED BY <1>3, <3>1 DEF IncludesHold, StackHolds, n
  <2> QED BY <1>18, <2>1, <2>2 DEF StackHolds
<1>25. FilesHold(w, files', stack', roots)
  <2> SUFFICES ASSUME NEW x \in DOMAIN files'
               PROVE  IF files'[x].final = None THEN AtRest(roots, x) \/ OnStack(stack', x) ELSE IsFinished(w, files', x)
    BY DEF FilesHold
  <2>1. CASE x = c
    BY <2>1, <1>7, <1>11, <1>12
  <2>2. CASE x = pc
    <3>1. OnStack(stack', pc) /\ files'[pc].final = None
      BY <1>5, <1>6, <1>7, <1>21, <1>22
    <3> QED BY <2>2, <3>1
  <2>3. CASE x # c /\ x # pc
    <3>1. x \in DOMAIN files /\ files'[x] = files[x] /\ x \in Contexts(w)
      BY <2>3, <1>3, <1>7 DEF IncludesHold, ShapesHold
    <3>2. IF files[x].final = None THEN AtRest(roots, x) \/ OnStack(stack, x) ELSE IsFinished(w, files, x)
      BY <1>3, <3>1 DEF IncludesHold, FilesHold
    <3>3. CASE files[x].final = None
      BY <3>1, <3>2, <3>3, <1>21, <2>3
    <3>4. CASE files[x].final # None
      <4>1. IsFinished(w, files', x)
        BY <1>2, <1>10, <3>1, <3>2, <3>4, FinishedStays
      <4> QED BY <4>1, <3>1, <3>4
    <3> QED BY <3>3, <3>4
  <2> QED BY <2>1, <2>2, <2>3
<1> QED BY <1>1, <1>7, <1>20, <1>23, <1>24, <1>25 DEF IInv, IncludesHold, ProvidedHold

LEMMA FinishFileInv == ASSUME IInv, FinishFile PROVE IInv'
BY FinishLast, FinishAbove

LEMMA InitInv == Init => IInv
<1> SUFFICES ASSUME Init PROVE IInv
  OBVIOUS
<1>1. /\ IsGiven(w) /\ order = [i \in DOMAIN w.provided |-> RootContext(w, w.provided[i])]
      /\ files = [c \in Range(order) |-> NewFile] /\ stack = << >> /\ roots = order
  BY DEF Init, IsGiven
<1>2. IsWorkspace(w)
  BY <1>1, GivenIs
<1>3. /\ w.provided \in Seq(DOMAIN w.text) /\ w.dir \in [DOMAIN w.text -> STRING]
      /\ w.defines \in SUBSET (STRING \ {Compiler})
      /\ \A i, j \in DOMAIN w.provided : w.provided[i] = w.provided[j] => i = j
  BY <1>2 DEF IsWorkspace
<1>4. ASSUME NEW f \in DOMAIN w.text PROVE RootContext(w, f) \in Contexts(w)
  <2>1. w.defines \in SUBSET NamesOf(w)
    BY DEF NamesOf
  <2> QED BY <1>3, <2>1 DEF RootContext, Context, Contexts
<1> DEFINE n == Len(w.provided)
<1>5. n \in Nat /\ DOMAIN w.provided = 1 .. n /\ \A i \in 1 .. n : w.provided[i] \in DOMAIN w.text
  BY <1>3
<1> HIDE DEF n
<1>6. /\ roots \in Seq(Contexts(w)) /\ Len(roots) = n /\ DOMAIN roots = 1 .. n
      /\ \A i \in 1 .. n : roots[i] = RootContext(w, w.provided[i])
  BY <1>1, <1>4, <1>5
<1>7. \A i \in 1 .. n : roots[i] \in DOMAIN files /\ files[roots[i]] = NewFile
  BY <1>1, <1>6 DEF Range
<1>8. \A c \in DOMAIN files : \E i \in 1 .. n : roots[i] = c
  BY <1>1, <1>6 DEF Range
<1>9. RootsWait(w, files, stack, roots)
  <2>1. \A i \in 1 .. n : roots[i].environment = w.defines /\ roots[i].file = w.provided[i]
    BY <1>6 DEF RootContext, Context
  <2>2. \A i, j \in 1 .. n : roots[i] = roots[j] => i = j
    BY <1>3, <1>5, <2>1
  <2>3. \A x : ~OnStack(stack, x)
    BY <1>1 DEF OnStack
  <2> QED BY <1>6, <1>7, <2>1, <2>2, <2>3 DEF RootsWait
<1>10. ShapesHold(w, files)
  <2>1. IsSeqOf(NewFile.includes) /\ NewFile = [includes |-> NewFile.includes, snapshots |-> NewFile.snapshots, final |-> NewFile.final]
    BY DEF NewFile, IsSeqOf, Range
  <2>2. \A c \in DOMAIN files : files[c] = NewFile /\ c \in Contexts(w)
    BY <1>1, <1>4, <1>5, <1>6, <1>8
  <2>3. files = [c \in DOMAIN files |-> files[c]]
    BY <1>1
  <2> QED BY <2>1, <2>2, <2>3 DEF ShapesHold
<1>11. StackHolds(w, files, stack)
  BY <1>1 DEF StackHolds
<1>12. FilesHold(w, files, stack, roots)
  <2>1. \A c \in DOMAIN files : AtRest(roots, c) /\ files[c].final = None
    BY <1>1, <1>6, <1>8 DEF AtRest, NewFile
  <2> QED BY <2>1 DEF FilesHold
<1>13. ProvidedHold(w, files)
  BY <1>5, <1>6, <1>7 DEF ProvidedHold
<1> QED BY <1>1, <1>9, <1>10, <1>11, <1>12, <1>13 DEF IInv, IncludesHold

LEMMA StepInv == IInv /\ [Next]_vars => IInv'
<1> SUFFICES ASSUME IInv, [Next]_vars PROVE IInv'
  OBVIOUS
<1>1. CASE ResolveRoot
  BY <1>1, ResolveRootInv
<1>2. CASE SkipInclude
  BY <1>2, SkipIncludeInv
<1>3. CASE MeetInclude
  BY <1>3, MeetIncludeInv
<1>4. CASE FollowInclude
  BY <1>4, FollowIncludeInv
<1>5. CASE FinishFile
  BY <1>5, FinishFileInv
<1>6. CASE UNCHANGED vars
  BY <1>6 DEF vars, IInv
<1> QED BY <1>1, <1>2, <1>3, <1>4, <1>5, <1>6 DEF Next

\* What is recorded of the includes is what the walks make of them, at every step.
LEMMA Inductive == Spec => []IInv
<1>1. IInv /\ [Next]_vars => IInv'
  BY StepInv
<1> QED BY InitInv, <1>1, PTL DEF Spec

-----------------------------------------------------------------------------
(* The text of a file.                                                     *)

NewReader(names) == [text |-> NewText(names, FALSE), nest |-> << >>, ended |-> FALSE]

\* The states of a reader after each number of lines.
ReadStates(ws, reality, root, texts, left, file, names) ==
    LET upTo[n \in 0 .. Len(ws.text[file])] ==
            IF n = 0 THEN [text |-> NewText(names, FALSE), nest |-> << >>, ended |-> FALSE]
            ELSE ReadLine(ws, reality, root, texts, left, file, upTo[n - 1], n)
    IN  upTo

LEMMA ReadSteps ==
    ASSUME NEW ws, NEW reality, NEW root, NEW texts, NEW left, NEW file, NEW names, Len(ws.text[file]) \in Nat
    PROVE  LET upTo == ReadStates(ws, reality, root, texts, left, file, names) IN
           /\ upTo[0] = NewReader(names)
           /\ \A n \in 1 .. Len(ws.text[file]) : upTo[n] = ReadLine(ws, reality, root, texts, left, file, upTo[n - 1], n)
           /\ ReadFile(ws, reality, root, texts, left, file, names) = upTo[Len(ws.text[file])].text
<1> DEFINE N == Len(ws.text[file])
           Do(n, f) == IF n = 0 THEN NewReader(names) ELSE ReadLine(ws, reality, root, texts, left, file, f, n)
           upTo[n \in 0 .. N] == Do(n, upTo[n - 1])
           IsUpTo(n, g) == \A k \in 0 .. n : g[k] = Do(k, g[k - 1])
           S == {n \in Nat : \E g : IsUpTo(n, g)}
<1>1. 0 \in S
  <2>1. IsUpTo(0, [k \in 0 .. 0 |-> NewReader(names)])
    OBVIOUS
  <2> QED BY <2>1
<1>2. ASSUME NEW n \in S PROVE n + 1 \in S
  <2>1. PICK g : IsUpTo(n, g)
    OBVIOUS
  <2> DEFINE h == [k \in 0 .. n + 1 |-> IF k = n + 1 THEN Do(n + 1, g[n]) ELSE g[k]]
  <2>2. ASSUME NEW k \in 0 .. n + 1 PROVE h[k] = Do(k, h[k - 1])
    <3>1. n \in Nat /\ (k # 0 => h[k - 1] = g[k - 1])
      OBVIOUS
    <3>2. CASE k = n + 1
      <4>1. h[k] = Do(k, g[k - 1]) /\ k # 0
        BY <3>1, <3>2
      <4> QED BY <3>1, <4>1
    <3>3. CASE k # n + 1
      <4>1. k \in 0 .. n /\ h[k] = g[k]
        BY <3>1, <3>3
      <4>2. Do(k, g[k - 1]) = Do(k, h[k - 1])
        <5> HIDE DEF h
        <5> QED BY <3>1
      <4> HIDE DEF h
      <4> QED BY <2>1, <4>1, <4>2
    <3> QED BY <3>2, <3>3
  <2> HIDE DEF h
  <2> QED BY <2>2
<1>3. S = Nat
  <2>1. S \in SUBSET Nat
    OBVIOUS
  <2> HIDE DEF S
  <2> QED BY <1>1, <1>2, <2>1, Induction
<1>4. PICK g : IsUpTo(N, g)
  BY <1>3
<1>5. upTo = [n \in 0 .. N |-> Do(n, upTo[n - 1])]
  <2> DEFINE h == [k \in 0 .. N |-> g[k]]
  <2>1. ASSUME NEW k \in 0 .. N PROVE h[k] = Do(k, h[k - 1])
    <3>1. k # 0 => h[k - 1] = g[k - 1]
      OBVIOUS
    <3>2. Do(k, g[k - 1]) = Do(k, h[k - 1])
      <4> HIDE DEF h
      <4> QED BY <3>1
    <3>3. h[k] = g[k]
      OBVIOUS
    <3> HIDE DEF h
    <3> QED BY <1>4, <3>2, <3>3
  <2>2. h = [k \in 0 .. N |-> h[k]]
    OBVIOUS
  <2> HIDE DEF h, N
  <2>3. h = [k \in 0 .. N |-> Do(k, h[k - 1])]
    BY <2>1, <2>2
  <2> QED BY <2>3
<1>6. ReadStates(ws, reality, root, texts, left, file, names) = upTo
  BY DEF ReadStates, NewReader
<1>7. ReadFile(ws, reality, root, texts, left, file, names) = upTo[N].text
  BY DEF ReadFile, NewReader
<1> HIDE DEF upTo
<1>8. \A n \in 0 .. N : upTo[n] = Do(n, upTo[n - 1])
  BY <1>5
<1> QED BY <1>6, <1>7, <1>8

\* The text that a line includes.
Within(ws, root, texts, left, file, names, at) ==
    LET line == ws.text[file][at]
        hits == ResolveAll(ws, file, line.name, line.how, root)
    IN  IF ~IsInclude(line) \/ DOMAIN hits = {} THEN NewText(names, FALSE)
        ELSE IF left = 0 THEN NewText(names, TRUE)
        ELSE texts[<<left - 1, Chosen(hits), names>>]

Holding(line, names, reality) == line.op = "else" \/ Holds(line, names, reality)

IsReader(s) == s = [text |-> s.text, nest |-> s.nest, ended |-> s.ended]

LEMMA NewTextIs ==
    \A names : /\ NewText(names, FALSE).names = names /\ NewText(names, TRUE).names = names
               /\ NewText(names, FALSE).items = {} /\ ~NewText(names, FALSE).endless /\ NewText(names, TRUE).endless
BY DEF NewText

LEMMA NewReaderIs ==
    \A names : /\ IsReader(NewReader(names)) /\ NewReader(names).text = NewText(names, FALSE)
               /\ NewReader(names).nest = << >> /\ NewReader(names).ended = FALSE
BY DEF NewReader, IsReader

\* What a line does to a reader.
LEMMA ReadLineIs ==
    ASSUME NEW ws, NEW reality, NEW root, NEW texts, NEW left, NEW file, NEW s, IsReader(s), NEW at
    PROVE  LET line == ws.text[file][at]
               t == ReadLine(ws, reality, root, texts, left, file, s, at)
           IN  /\ IsReader(t)
               /\ line.op \in Directives =>
                     /\ t.nest = RegionsAfter(s.nest, line, Holding(line, s.text.names, reality))
                     /\ t.text = s.text /\ t.ended = s.ended
               /\ line.op \notin Directives /\ ~IsCompiled(s) => t = s
               /\ line.op \notin Directives /\ IsCompiled(s) =>
                     /\ t.nest = s.nest /\ t.ended = (line.op = "endinput")
                     /\ t.text = TextAfter(s.text, file, line, at, Within(ws, root, texts, left, file, s.text.names, at))
<1> DEFINE line == ws.text[file][at]
           within == Within(ws, root, texts, left, file, s.text.names, at)
           holds == Holding(line, s.text.names, reality)
           t == ReadLine(ws, reality, root, texts, left, file, s, at)
           b == TextAfter(s.text, file, line, at, within)
<1>1. t = IF line.op \in Directives THEN [s EXCEPT !.nest = RegionsAfter(s.nest, line, holds)]
          ELSE IF ~IsCompiled(s) THEN s
          ELSE [text |-> b, nest |-> s.nest, ended |-> line.op = "endinput"]
  <2>1. t = IF line.op \in Directives THEN [s EXCEPT !.nest = RegionsAfter(@, line, holds)]
          ELSE IF ~IsCompiled(s) THEN s
          ELSE [text |-> b, nest |-> s.nest, ended |-> line.op = "endinput"]
    BY DEF ReadLine, Within, Holding
  <2>2. [s EXCEPT !.nest = RegionsAfter(@, line, holds)] = [s EXCEPT !.nest = RegionsAfter(s.nest, line, holds)]
    <3> HIDE DEF line, holds
    <3> QED BY DEF IsReader
  <2> HIDE DEF t, line, holds, b
  <2> QED BY <2>1, <2>2
<1>2. ASSUME NEW a PROVE LET u == [s EXCEPT !.nest = a] IN IsReader(u) /\ u.nest = a /\ u.text = s.text /\ u.ended = s.ended
  BY DEF IsReader
<1> HIDE DEF line, within, holds, t, b
<1>4. CASE line.op \in Directives
  BY <1>1, <1>2, <1>4 DEF line, holds, t, within
<1>5. CASE line.op \notin Directives /\ ~IsCompiled(s)
  BY <1>1, <1>5 DEF line, holds, t, within
<1>6. CASE line.op \notin Directives /\ IsCompiled(s)
  <2> DEFINE e == (line.op = "endinput")
             n == s.nest
  <2>1. t = [text |-> b, nest |-> n, ended |-> e]
    BY <1>1, <1>6
  <2> HIDE DEF n, e
  <2>2. t.nest = n /\ t.ended = e /\ t.text = b /\ IsReader(t)
    BY <2>1 DEF IsReader
  <2> QED BY <2>2, <1>6 DEF line, holds, t, within, b, e, n
<1> QED BY <1>4, <1>5, <1>6 DEF line

LEMMA LinesAre ==
    ASSUME NEW ws, IsWorkspace(ws), NEW file \in DOMAIN ws.text
    PROVE  /\ Len(ws.text[file]) \in Nat /\ DOMAIN ws.text[file] = 1 .. Len(ws.text[file])
           /\ \A i \in 1 .. Len(ws.text[file]) :
                 ws.text[file][i].op \in STRING /\ ws.text[file][i].name \in STRING /\ ws.text[file][i].how \in STRING
<1>1. ws.text[file] \in Seq(Lines)
  BY DEF IsWorkspace, Lines
<1> DEFINE t == ws.text[file]
<1> HIDE DEF t
<1>2. t \in Seq(Lines)
  BY <1>1 DEF t
<1>3. Len(t) \in Nat /\ DOMAIN t = 1 .. Len(t) /\ \A i \in 1 .. Len(t) : t[i] \in Lines
  BY <1>2
<1>4. \A line \in Lines : line.op \in STRING /\ line.name \in STRING /\ line.how \in STRING
  BY DEF Lines
<1> QED BY <1>3, <1>4 DEF t

ReadRegion == [taken : BOOLEAN, active : BOOLEAN]
ReadRegions == Seq(ReadRegion)

LEMMA RegionsType ==
    ASSUME NEW nest \in ReadRegions, NEW line, NEW holds \in BOOLEAN
    PROVE  RegionsAfter(nest, line, holds) \in ReadRegions
<1>1. nest \in Seq(ReadRegion)
  BY DEF ReadRegions
<1>2. CASE line.op = "if"
  <2>1. [taken |-> holds, active |-> holds] \in ReadRegion
    BY DEF ReadRegion
  <2>2. Append(nest, [taken |-> holds, active |-> holds]) \in Seq(ReadRegion)
    BY <1>1, <2>1
  <2> QED BY <2>2, <1>2 DEF RegionsAfter, ReadRegions
<1>3. CASE line.op # "if" /\ nest # << >>
  <2>1. Len(nest) \in Nat /\ Len(nest) # 0
    BY <1>1, <1>3
  <2>2. Outer(nest) \in Seq(ReadRegion) /\ Last(nest) \in ReadRegion
    BY <1>1, <2>1 DEF Outer, Last
  <2> DEFINE r == [taken |-> Last(nest).taken \/ holds, active |-> ~Last(nest).taken /\ holds]
  <2>3. r \in ReadRegion
    BY <2>2 DEF ReadRegion
  <2> HIDE DEF r
  <2>4. Append(Outer(nest), r) \in Seq(ReadRegion)
    BY <2>2, <2>3
  <2>5. \/ RegionsAfter(nest, line, holds) = Append(Outer(nest), r) \/ RegionsAfter(nest, line, holds) = Outer(nest)
        \/ RegionsAfter(nest, line, holds) = nest
    BY <1>3 DEF RegionsAfter, r
  <2> QED BY <1>1, <2>2, <2>4, <2>5 DEF ReadRegions
<1>4. CASE line.op # "if" /\ nest = << >>
  BY <1>1, <1>4 DEF RegionsAfter
<1> QED BY <1>2, <1>3, <1>4

IsReading(s) ==
    IsReader(s) /\ s.text.names \in SUBSET STRING /\ s.nest \in ReadRegions /\ s.ended \in BOOLEAN

\* The texts that may be included, where so many includes are left.
NamesTyped(ws, texts, left) ==
    left # 0 => \A f \in DOMAIN ws.text : \A names \in SUBSET STRING : texts[<<left - 1, f, names>>].names \in SUBSET STRING

LEMMA WithinType ==
    ASSUME NEW ws, IsWorkspace(ws), NEW root \in STRING, NEW texts, NEW left, NamesTyped(ws, texts, left),
           NEW file \in DOMAIN ws.text, NEW names \in SUBSET STRING, NEW at
    PROVE  Within(ws, root, texts, left, file, names, at).names \in SUBSET STRING
<1> DEFINE hits == ResolveAll(ws, file, ws.text[file][at].name, ws.text[file][at].how, root)
           within == Within(ws, root, texts, left, file, names, at)
<1>1. DOMAIN hits # {} => Chosen(hits) \in DOMAIN ws.text
  BY ChosenIsFile
<1>2. \/ within = NewText(names, FALSE) \/ within = NewText(names, TRUE)
      \/ DOMAIN hits # {} /\ left # 0 /\ within = texts[<<left - 1, Chosen(hits), names>>]
  BY DEF Within
<1> HIDE DEF hits, within
<1>3. within.names \in SUBSET STRING
  <2>1. CASE within = NewText(names, FALSE) \/ within = NewText(names, TRUE)
    BY <2>1, NewTextIs
  <2>2. CASE DOMAIN hits # {} /\ left # 0 /\ within = texts[<<left - 1, Chosen(hits), names>>]
    BY <2>2, <1>1 DEF NamesTyped
  <2> QED BY <2>1, <2>2, <1>2
<1> QED BY <1>3 DEF within

LEMMA ReadLineType ==
    ASSUME NEW ws, IsWorkspace(ws), NEW reality \in Realities(ws), NEW root \in STRING,
           NEW texts, NEW left, NamesTyped(ws, texts, left),
           NEW file \in DOMAIN ws.text, NEW s, IsReading(s), NEW i \in 1 .. Len(ws.text[file])
    PROVE  IsReading(ReadLine(ws, reality, root, texts, left, file, s, i))
<1> DEFINE line == ws.text[file][i]
           t == ReadLine(ws, reality, root, texts, left, file, s, i)
           within == Within(ws, root, texts, left, file, s.text.names, i)
           holds == Holding(line, s.text.names, reality)
<1>1. IsReader(s) /\ s.text.names \in SUBSET STRING /\ s.nest \in ReadRegions /\ s.ended \in BOOLEAN
  BY DEF IsReading
<1>2. /\ IsReader(t)
      /\ line.op \in Directives => t.nest = RegionsAfter(s.nest, line, holds) /\ t.text = s.text /\ t.ended = s.ended
      /\ line.op \notin Directives /\ ~IsCompiled(s) => t = s
      /\ line.op \notin Directives /\ IsCompiled(s) =>
            /\ t.nest = s.nest /\ t.ended = (line.op = "endinput")
            /\ t.text = TextAfter(s.text, file, line, i, within)
  BY <1>1, ReadLineIs
<1>3. line.name \in STRING
  BY LinesAre
<1>4. within.names \in SUBSET STRING
  BY <1>1, WithinType
<1>5. holds \in BOOLEAN
  <2>1. reality.value \in BOOLEAN
    BY DEF Realities
  <2> QED BY <2>1 DEF Holding, Holds
<1> HIDE DEF line, t, within, holds
<1>6. TextAfter(s.text, file, line, i, within).names \in SUBSET STRING
  <2>1. /\ s.text.names \cup {line.name} \in SUBSET STRING /\ s.text.names \ {line.name} \in SUBSET STRING
    BY <1>1, <1>3
  <2> QED BY <2>1, <1>4 DEF TextAfter
<1>7. RegionsAfter(s.nest, line, holds) \in ReadRegions
  BY <1>1, <1>5, RegionsType
<1>8. (line.op = "endinput") \in BOOLEAN
  OBVIOUS
<1>9. IsReading(t)
  BY <1>1, <1>2, <1>6, <1>7, <1>8 DEF IsReading
<1> QED BY <1>9 DEF t

LEMMA ReadType ==
    ASSUME NEW ws, IsWorkspace(ws), NEW reality \in Realities(ws), NEW root \in STRING,
           NEW texts, NEW left, NamesTyped(ws, texts, left),
           NEW file \in DOMAIN ws.text, NEW names \in SUBSET STRING
    PROVE  /\ \A n \in 0 .. Len(ws.text[file]) : IsReading(ReadStates(ws, reality, root, texts, left, file, names)[n])
           /\ ReadFile(ws, reality, root, texts, left, file, names).names \in SUBSET STRING
<1> DEFINE u == ReadStates(ws, reality, root, texts, left, file, names)
           N == Len(ws.text[file])
           S == {n \in 0 .. N : IsReading(u[n])}
<1>0. /\ N \in Nat /\ u[0] = NewReader(names)
      /\ \A n \in 1 .. N : u[n] = ReadLine(ws, reality, root, texts, left, file, u[n - 1], n)
      /\ ReadFile(ws, reality, root, texts, left, file, names) = u[N].text
  BY LinesAre, ReadSteps
<1> HIDE DEF u
<1>1. 0 \in S
  <2>1. IsReading(NewReader(names))
    <3>1. << >> \in ReadRegions
      BY DEF ReadRegions
    <3>2. NewReader(names).text.names = names
      BY NewReaderIs, NewTextIs
    <3> QED BY <3>1, <3>2, NewReaderIs DEF IsReading
  <2> QED BY <1>0, <2>1
<1>2. ASSUME NEW n \in 0 .. N - 1, n \in S PROVE n + 1 \in S
  <2>1. n + 1 \in 1 .. N /\ n + 1 \in 0 .. N /\ (n + 1) - 1 = n
    BY <1>0
  <2>2. IsReading(u[n]) /\ u[n + 1] = ReadLine(ws, reality, root, texts, left, file, u[n], n + 1)
    BY <1>0, <1>2, <2>1
  <2>3. IsReading(u[n + 1])
    BY <2>1, <2>2, ReadLineType
  <2> QED BY <2>1, <2>3
<1> HIDE DEF S
<1>3. \A n \in 0 .. N : n \in S
  BY <1>0, <1>1, <1>2, InductionUpTo
<1>4. \A n \in 0 .. N : IsReading(u[n])
  BY <1>3 DEF S
<1>5. ReadFile(ws, reality, root, texts, left, file, names).names \in SUBSET STRING
  BY <1>0, <1>4 DEF IsReading
<1> QED BY <1>4, <1>5 DEF u

SameTexts(ws, texts, others, left) ==
    left # 0 => \A f \in DOMAIN ws.text : \A n \in SUBSET STRING : texts[<<left - 1, f, n>>] = others[<<left - 1, f, n>>]

\* A file is read the same when the texts that it may include are the same.
LEMMA ReadSame ==
    ASSUME NEW ws, IsWorkspace(ws), NEW reality \in Realities(ws), NEW root \in STRING,
           NEW texts, NEW others, NEW left, NamesTyped(ws, texts, left), SameTexts(ws, texts, others, left),
           NEW file \in DOMAIN ws.text, NEW names \in SUBSET STRING
    PROVE  ReadFile(ws, reality, root, texts, left, file, names) = ReadFile(ws, reality, root, others, left, file, names)
<1> DEFINE u == ReadStates(ws, reality, root, texts, left, file, names)
           v == ReadStates(ws, reality, root, others, left, file, names)
           N == Len(ws.text[file])
           S == {n \in 0 .. N : u[n] = v[n]}
<1>0. /\ N \in Nat /\ u[0] = NewReader(names) /\ v[0] = NewReader(names)
      /\ \A n \in 1 .. N : u[n] = ReadLine(ws, reality, root, texts, left, file, u[n - 1], n)
      /\ \A n \in 1 .. N : v[n] = ReadLine(ws, reality, root, others, left, file, v[n - 1], n)
      /\ ReadFile(ws, reality, root, texts, left, file, names) = u[N].text
      /\ ReadFile(ws, reality, root, others, left, file, names) = v[N].text
  BY LinesAre, ReadSteps
<1>t. \A n \in 0 .. N : IsReading(u[n])
  BY ReadType
<1> HIDE DEF u, v
<1>1. 0 \in S
  BY <1>0
<1>2. ASSUME NEW n \in 0 .. N - 1, n \in S PROVE n + 1 \in S
  <2> DEFINE i == n + 1
             s == u[n]
             line == ws.text[file][i]
             hits == ResolveAll(ws, file, line.name, line.how, root)
  <2>1. i \in 1 .. N /\ i \in 0 .. N /\ i - 1 = n
    BY <1>0
  <2>2. u[i] = ReadLine(ws, reality, root, texts, left, file, s, i) /\ v[i] = ReadLine(ws, reality, root, others, left, file, s, i)
    BY <1>0, <1>2, <2>1
  <2>3. s.text.names \in SUBSET STRING
    BY <1>t DEF IsReading
  <2>4. DOMAIN hits # {} => Chosen(hits) \in DOMAIN ws.text
    BY ChosenIsFile
  <2> HIDE DEF i, s, hits
  <2>5. DOMAIN hits # {} /\ left # 0 =>
            texts[<<left - 1, Chosen(hits), s.text.names>>] = others[<<left - 1, Chosen(hits), s.text.names>>]
    BY <2>3, <2>4 DEF SameTexts
  <2>6. ReadLine(ws, reality, root, texts, left, file, s, i) = ReadLine(ws, reality, root, others, left, file, s, i)
    BY <2>5 DEF ReadLine, hits
  <2> QED BY <2>1, <2>2, <2>6 DEF i
<1> HIDE DEF S
<1>3. \A n \in 0 .. N : n \in S
  BY <1>0, <1>1, <1>2, InductionUpTo
<1> QED BY <1>0, <1>3 DEF S

\* The texts of all files, by the includes that are left and the names that are defined.
TextsOf(ws, reality, root) ==
    LET texts[x \in (0 .. Depth) \X (DOMAIN ws.text) \X SUBSET STRING] ==
            ReadFile(ws, reality, root, texts, x[1], x[2], x[3])
    IN  texts

\* Up to so many includes left, texts has what reading with texts gives.
AreRead(ws, reality, root, texts, k) ==
    \A left \in 0 .. Depth : \A file \in DOMAIN ws.text : \A names \in SUBSET STRING :
        left <= k => /\ texts[<<left, file, names>>] = ReadFile(ws, reality, root, texts, left, file, names)
                     /\ texts[<<left, file, names>>].names \in SUBSET STRING

CanRead(ws, reality, root, texts, left) == left # 0 => AreRead(ws, reality, root, texts, left - 1)

LEMMA CanReadBelow ==
    ASSUME NEW ws, NEW reality, NEW root, NEW texts, NEW k \in Nat, AreRead(ws, reality, root, texts, k),
           NEW left \in Nat, left <= k + 1
    PROVE  CanRead(ws, reality, root, texts, left)
<1>1. \A l \in 0 .. Depth : l <= left - 1 => l <= k
  BY DepthAssumption
<1> QED BY <1>1 DEF CanRead, AreRead

LEMMA ReadOne ==
    ASSUME NEW ws, IsWorkspace(ws), NEW reality \in Realities(ws), NEW root \in STRING, NEW texts, NEW others,
           NEW left \in 0 .. Depth, CanRead(ws, reality, root, texts, left), SameTexts(ws, texts, others, left),
           NEW file \in DOMAIN ws.text, NEW names \in SUBSET STRING
    PROVE  /\ ReadFile(ws, reality, root, texts, left, file, names) = ReadFile(ws, reality, root, others, left, file, names)
           /\ ReadFile(ws, reality, root, texts, left, file, names).names \in SUBSET STRING
<1>1. NamesTyped(ws, texts, left)
  <2> SUFFICES ASSUME left # 0, NEW f \in DOMAIN ws.text, NEW n \in SUBSET STRING
               PROVE  texts[<<left - 1, f, n>>].names \in SUBSET STRING
    BY DEF NamesTyped
  <2>1. left - 1 \in 0 .. Depth /\ left - 1 <= left - 1
    BY DepthAssumption
  <2> QED BY <2>1 DEF CanRead, AreRead
<1>2. ReadFile(ws, reality, root, texts, left, file, names).names \in SUBSET STRING
  BY <1>1, ReadType
<1> QED BY <1>1, <1>2, ReadSame

LEMMA TextsAreRead ==
    ASSUME NEW ws, IsWorkspace(ws), NEW reality \in Realities(ws), NEW root \in STRING
    PROVE  AreRead(ws, reality, root, TextsOf(ws, reality, root), Depth)
<1> DEFINE D == (0 .. Depth) \X (DOMAIN ws.text) \X SUBSET STRING
           texts[x \in D] == ReadFile(ws, reality, root, texts, x[1], x[2], x[3])
           S == {k \in 0 .. Depth : \E g : AreRead(ws, reality, root, g, k)}
<1>0. Depth \in Nat
  BY DepthAssumption
<1>d. \A left \in 0 .. Depth : \A file \in DOMAIN ws.text : \A names \in SUBSET STRING : <<left, file, names>> \in D
  OBVIOUS
<1>1. ASSUME NEW k \in 0 .. Depth, NEW g, k # 0 => AreRead(ws, reality, root, g, k - 1) PROVE k \in S
  <2> DEFINE h == [x \in D |-> IF x[1] = k THEN ReadFile(ws, reality, root, g, k, x[2], x[3]) ELSE g[x]]
  <2>0. \A x \in D : h[x] = IF x[1] = k THEN ReadFile(ws, reality, root, g, k, x[2], x[3]) ELSE g[x]
    OBVIOUS
  <2> HIDE DEF h, D
  <2>1. ASSUME NEW left \in 0 .. Depth, NEW file \in DOMAIN ws.text, NEW names \in SUBSET STRING
        PROVE  h[<<left, file, names>>] = IF left = k THEN ReadFile(ws, reality, root, g, k, file, names) ELSE g[<<left, file, names>>]
    <3> DEFINE x == <<left, file, names>>
    <3>1. x \in D
      BY <1>d
    <3>2. x[1] = left /\ x[2] = file /\ x[3] = names
      OBVIOUS
    <3> HIDE DEF x
    <3>3. h[x] = IF left = k THEN ReadFile(ws, reality, root, g, k, file, names) ELSE g[x]
      BY <2>0, <3>1, <3>2
    <3> QED BY <3>3 DEF x
  <2>2. ASSUME NEW left \in 0 .. Depth, left <= k, NEW file \in DOMAIN ws.text, NEW names \in SUBSET STRING
        PROVE  /\ h[<<left, file, names>>] = ReadFile(ws, reality, root, h, left, file, names)
               /\ h[<<left, file, names>>].names \in SUBSET STRING
    <3>1. CanRead(ws, reality, root, g, left)
      <4>1. CASE left = 0
        BY <4>1 DEF CanRead
      <4>2. CASE left # 0
        <5>1. k # 0 /\ k - 1 \in Nat /\ left \in Nat /\ left <= (k - 1) + 1
          BY <1>0, <2>2, <4>2
        <5> QED BY <5>1, <1>1, CanReadBelow
      <4> QED BY <4>1, <4>2
    <3>2. SameTexts(ws, g, h, left)
      <4>1. left # 0 => left - 1 \in 0 .. Depth /\ left - 1 # k
        BY <1>0, <2>2
      <4> QED BY <4>1, <2>1 DEF SameTexts
    <3>3. /\ ReadFile(ws, reality, root, g, left, file, names) = ReadFile(ws, reality, root, h, left, file, names)
          /\ ReadFile(ws, reality, root, g, left, file, names).names \in SUBSET STRING
      BY <3>1, <3>2, ReadOne
    <3>4. h[<<left, file, names>>] = ReadFile(ws, reality, root, g, left, file, names)
      <4>1. CASE left = k
        BY <4>1, <2>1
      <4>2. CASE left # k
        <5>1. k # 0 /\ left <= k - 1
          BY <1>0, <2>2, <4>2
        <5>2. g[<<left, file, names>>] = ReadFile(ws, reality, root, g, left, file, names)
          BY <5>1, <1>1 DEF AreRead
        <5> QED BY <5>2, <4>2, <2>1
      <4> QED BY <4>1, <4>2
    <3> QED BY <3>3, <3>4
  <2>3. AreRead(ws, reality, root, h, k)
    BY <2>2 DEF AreRead
  <2> QED BY <2>3
<1>2. 0 \in S
  <2>1. 0 \in 0 .. Depth
    BY <1>0
  <2> HIDE DEF S
  <2> QED BY <2>1, <1>1
<1>3. ASSUME NEW k \in 0 .. Depth - 1, k \in S PROVE k + 1 \in S
  <2>1. PICK g : AreRead(ws, reality, root, g, k)
    BY <1>3
  <2>2. k + 1 \in 0 .. Depth /\ (k + 1) - 1 = k
    BY <1>0
  <2> HIDE DEF S
  <2> QED BY <2>1, <2>2, <1>1
<1>4. PICK g : AreRead(ws, reality, root, g, Depth)
  <2>1. Depth \in 0 .. Depth
    BY <1>0
  <2> HIDE DEF S
  <2>2. Depth \in S
    BY <1>0, <1>2, <1>3, <2>1, InductionUpTo
  <2> QED BY <2>2 DEF S
<1>5. texts = [x \in D |-> ReadFile(ws, reality, root, texts, x[1], x[2], x[3])]
  <2> DEFINE h == [x \in D |-> g[x]]
  <2>1. ASSUME NEW x \in D PROVE h[x] = ReadFile(ws, reality, root, h, x[1], x[2], x[3])
    <3>1. PICK left \in 0 .. Depth, file \in DOMAIN ws.text, names \in SUBSET STRING : x = <<left, file, names>>
      OBVIOUS
    <3>2. x[1] = left /\ x[2] = file /\ x[3] = names
      BY <3>1
    <3>3. \A l \in 0 .. Depth : \A f \in DOMAIN ws.text : \A n \in SUBSET STRING : h[<<l, f, n>>] = g[<<l, f, n>>]
      <4>1. \A y \in D : h[y] = g[y]
        OBVIOUS
      <4> HIDE DEF h, D
      <4> QED BY <4>1, <1>d
    <3> HIDE DEF h, D, S, texts
    <3>4. CanRead(ws, reality, root, g, left)
      BY <1>0, <1>4, CanReadBelow
    <3>5. SameTexts(ws, g, h, left)
      <4>1. left # 0 => left - 1 \in 0 .. Depth
        BY <1>0
      <4> QED BY <4>1, <3>3 DEF SameTexts
    <3>6. /\ ReadFile(ws, reality, root, g, left, file, names) = ReadFile(ws, reality, root, h, left, file, names)
          /\ ReadFile(ws, reality, root, g, left, file, names).names \in SUBSET STRING
      BY <3>4, <3>5, ReadOne
    <3>7. g[<<left, file, names>>] = ReadFile(ws, reality, root, g, left, file, names)
      BY <1>0, <1>4 DEF AreRead
    <3> QED BY <3>1, <3>2, <3>3, <3>6, <3>7
  <2>2. h = [x \in D |-> h[x]]
    OBVIOUS
  <2> HIDE DEF h, D
  <2>3. h = [x \in D |-> ReadFile(ws, reality, root, h, x[1], x[2], x[3])]
    BY <2>1, <2>2
  <2> QED BY <2>3
<1>6. TextsOf(ws, reality, root) = texts
  BY DEF TextsOf
<1> HIDE DEF texts
<1>7. ASSUME NEW left \in 0 .. Depth, NEW file \in DOMAIN ws.text, NEW names \in SUBSET STRING
      PROVE  texts[<<left, file, names>>] = ReadFile(ws, reality, root, texts, left, file, names)
  <2> DEFINE x == <<left, file, names>>
  <2>1. x \in D /\ x[1] = left /\ x[2] = file /\ x[3] = names
    OBVIOUS
  <2> HIDE DEF x, D
  <2>2. texts[x] = ReadFile(ws, reality, root, texts, x[1], x[2], x[3])
    BY <1>5, <2>1
  <2> QED BY <2>1, <2>2 DEF x
\* The names: the texts of the fixed point are typed, one level after the other.
<1> DEFINE T == {k \in 0 .. Depth : AreRead(ws, reality, root, texts, k)}
<1>8. ASSUME NEW k \in 0 .. Depth, k # 0 => AreRead(ws, reality, root, texts, k - 1) PROVE k \in T
  <2>1. ASSUME NEW left \in 0 .. Depth, left <= k, NEW file \in DOMAIN ws.text, NEW names \in SUBSET STRING
        PROVE  texts[<<left, file, names>>].names \in SUBSET STRING
    <3>1. CanRead(ws, reality, root, texts, left)
      <4>1. CASE left = 0
        BY <4>1 DEF CanRead
      <4>2. CASE left # 0
        <5>1. k # 0 /\ k - 1 \in Nat /\ left \in Nat /\ left <= (k - 1) + 1
          BY <1>0, <2>1, <4>2
        <5> QED BY <5>1, <1>8, CanReadBelow
      <4> QED BY <4>1, <4>2
    <3>s. SameTexts(ws, texts, texts, left)
      BY DEF SameTexts
    <3>2. ReadFile(ws, reality, root, texts, left, file, names).names \in SUBSET STRING
      BY <3>1, <3>s, ReadOne
    <3> QED BY <3>2, <1>7
  <2>2. AreRead(ws, reality, root, texts, k)
    BY <2>1, <1>7 DEF AreRead
  <2> QED BY <2>2
<1>9. Depth \in T
  <2>1. 0 \in 0 .. Depth /\ Depth \in 0 .. Depth
    BY <1>0
  <2>2. ASSUME NEW k \in 0 .. Depth - 1, k \in T PROVE k + 1 \in T
    <3>1. k + 1 \in 0 .. Depth /\ (k + 1) - 1 = k /\ AreRead(ws, reality, root, texts, k)
      BY <1>0, <2>2
    <3> HIDE DEF T
    <3> QED BY <3>1, <1>8
  <2>3. 0 \in T
    <3> HIDE DEF T
    <3> QED BY <2>1, <1>8
  <2> HIDE DEF T
  <2> QED BY <1>0, <2>1, <2>2, <2>3, InductionUpTo
<1> QED BY <1>6, <1>9

-----------------------------------------------------------------------------
(* The contexts of a unit, and its lines as the linter sees them.          *)

NextLevel(m, level) ==
    level \cup {e.to : e \in {e \in UNION {Range(m.files[c].includes) : c \in level} : e.to # None}}

LevelsOf(m, r) ==
    LET within[n \in 0 .. Depth] == IF n = 0 THEN {r} ELSE NextLevel(m, within[n - 1])
    IN  within

LEMMA LevelSteps ==
    ASSUME NEW m, NEW r
    PROVE  LET within == LevelsOf(m, r) IN
           /\ within[0] = {r}
           /\ \A n \in 1 .. Depth : within[n] = NextLevel(m, within[n - 1])
           /\ Unit(m, r) = within[Depth]
<1> DEFINE N == Depth
           Do(n, f) == IF n = 0 THEN {r} ELSE NextLevel(m, f)
           upTo[n \in 0 .. N] == Do(n, upTo[n - 1])
           IsUpTo(n, g) == \A k \in 0 .. n : g[k] = Do(k, g[k - 1])
           S == {n \in Nat : \E g : IsUpTo(n, g)}
<1>0. N \in Nat
  BY DepthAssumption
<1>1. 0 \in S
  <2>1. IsUpTo(0, [k \in 0 .. 0 |-> {r}])
    OBVIOUS
  <2> QED BY <2>1
<1>2. ASSUME NEW n \in S PROVE n + 1 \in S
  <2>1. PICK g : IsUpTo(n, g)
    OBVIOUS
  <2> DEFINE h == [k \in 0 .. n + 1 |-> IF k = n + 1 THEN Do(n + 1, g[n]) ELSE g[k]]
  <2>2. ASSUME NEW k \in 0 .. n + 1 PROVE h[k] = Do(k, h[k - 1])
    <3>1. n \in Nat /\ (k # 0 => h[k - 1] = g[k - 1])
      OBVIOUS
    <3>2. CASE k = n + 1
      <4>1. h[k] = Do(k, g[k - 1]) /\ k # 0
        BY <3>1, <3>2
      <4> QED BY <3>1, <4>1
    <3>3. CASE k # n + 1
      <4>1. k \in 0 .. n /\ h[k] = g[k]
        BY <3>1, <3>3
      <4>2. Do(k, g[k - 1]) = Do(k, h[k - 1])
        <5> HIDE DEF h
        <5> QED BY <3>1
      <4> HIDE DEF h
      <4> QED BY <2>1, <4>1, <4>2
    <3> QED BY <3>2, <3>3
  <2> HIDE DEF h
  <2> QED BY <2>2
<1>3. S = Nat
  <2>1. S \in SUBSET Nat
    OBVIOUS
  <2> HIDE DEF S
  <2> QED BY <1>1, <1>2, <2>1, Induction
<1>4. PICK g : IsUpTo(N, g)
  <2>1. N \in S
    BY <1>0, <1>3
  <2> QED BY <2>1
<1>5. upTo = [n \in 0 .. N |-> Do(n, upTo[n - 1])]
  <2> DEFINE h == [k \in 0 .. N |-> g[k]]
  <2>1. ASSUME NEW k \in 0 .. N PROVE h[k] = Do(k, h[k - 1])
    <3>1. k # 0 => h[k - 1] = g[k - 1]
      BY <1>0
    <3>2. Do(k, g[k - 1]) = Do(k, h[k - 1])
      <4> HIDE DEF h
      <4> QED BY <3>1
    <3>3. h[k] = g[k]
      OBVIOUS
    <3> HIDE DEF h
    <3> QED BY <1>4, <3>2, <3>3
  <2>2. h = [k \in 0 .. N |-> h[k]]
    OBVIOUS
  <2> HIDE DEF h, N
  <2>3. h = [k \in 0 .. N |-> Do(k, h[k - 1])]
    BY <2>1, <2>2
  <2> QED BY <2>3
<1>6. LevelsOf(m, r) = upTo
  BY DEF LevelsOf
<1>7. Unit(m, r) = upTo[N]
  BY DEF Unit, NextLevel
<1> HIDE DEF upTo
<1>8. \A n \in 0 .. N : upTo[n] = Do(n, upTo[n - 1])
  BY <1>5
<1> QED BY <1>0, <1>6, <1>7, <1>8

\* The contexts that are within so many includes of the root.
LEMMA LevelsGrow ==
    ASSUME NEW m, NEW r, NEW k \in 0 .. Depth
    PROVE  LevelsOf(m, r)[k] \subseteq Unit(m, r)
<1> DEFINE f == LevelsOf(m, r)
           S == {j \in 0 .. Depth - k : f[k] \subseteq f[k + j]}
<1>0. /\ Depth \in Nat /\ k \in Nat /\ Depth - k \in Nat
      /\ \A n \in 1 .. Depth : f[n] = NextLevel(m, f[n - 1])
      /\ Unit(m, r) = f[Depth]
  BY DepthAssumption, LevelSteps
<1> HIDE DEF f
<1>1. 0 \in S
  BY <1>0
<1>2. ASSUME NEW j \in 0 .. (Depth - k) - 1, j \in S PROVE j + 1 \in S
  <2>1. k + (j + 1) \in 1 .. Depth /\ (k + (j + 1)) - 1 = k + j /\ j + 1 \in 0 .. Depth - k
    BY <1>0
  <2>2. f[k + (j + 1)] = NextLevel(m, f[k + j])
    BY <1>0, <2>1
  <2> QED BY <1>2, <2>1, <2>2 DEF NextLevel
<1>3. Depth - k \in S
  <2>1. Depth - k \in 0 .. Depth - k
    BY <1>0
  <2> HIDE DEF S
  <2>2. \A j \in 0 .. Depth - k : j \in S
    BY <1>0, <1>1, <1>2, InductionUpTo
  <2> QED BY <2>1, <2>2
<1>4. k + (Depth - k) = Depth
  BY <1>0
<1> QED BY <1>0, <1>3, <1>4 DEF f

-----------------------------------------------------------------------------
LinesOf(m) ==
    LET lines[x \in (0 .. Depth) \X DOMAIN m.files] == SeenIn(m, lines, x[1], x[2])
    IN  lines

\* Includes lead to files of the model.
IsClosed(m) == \A c \in DOMAIN m.files : \A e \in Range(m.files[c].includes) : e.to # None => e.to \in DOMAIN m.files

AreSeen(m, lines, k) ==
    \A left \in 0 .. Depth : \A c \in DOMAIN m.files :
        left <= k => lines[<<left, c>>] = SeenIn(m, lines, left, c)

SameLines(m, lines, others, left) == left # 0 => \A c \in DOMAIN m.files : lines[<<left - 1, c>>] = others[<<left - 1, c>>]

LEMMA SeenSame ==
    ASSUME NEW m, IsClosed(m), NEW lines, NEW others, NEW left, SameLines(m, lines, others, left), NEW c \in DOMAIN m.files
    PROVE  SeenIn(m, lines, left, c) = SeenIn(m, others, left, c)
<1> DEFINE E == {e \in Range(m.files[c].includes) : e.to # None /\ left # 0}
           deeper(e) == {[s EXCEPT !.item.chain = << <<c.file, e.at>> >> \o @] : s \in lines[<<left - 1, e.to>>]}
           other(e) == {[s EXCEPT !.item.chain = << <<c.file, e.at>> >> \o @] : s \in others[<<left - 1, e.to>>]}
<1>1. ASSUME NEW e \in E PROVE deeper(e) = other(e)
  <2>1. lines[<<left - 1, e.to>>] = others[<<left - 1, e.to>>]
    BY DEF IsClosed, SameLines
  <2> QED BY <2>1
<1> HIDE DEF deeper, other, E
<1>2. {deeper(e) : e \in E} = {other(e) : e \in E}
  BY <1>1
<1> QED BY <1>2 DEF SeenIn, deeper, other, E

LEMMA LinesAreSeen ==
    ASSUME NEW m, IsClosed(m)
    PROVE  AreSeen(m, LinesOf(m), Depth)
<1> DEFINE D == (0 .. Depth) \X DOMAIN m.files
           lines[x \in D] == SeenIn(m, lines, x[1], x[2])
           S == {k \in 0 .. Depth : \E g : AreSeen(m, g, k)}
<1>0. Depth \in Nat
  BY DepthAssumption
<1>d. \A left \in 0 .. Depth : \A c \in DOMAIN m.files : <<left, c>> \in D
  OBVIOUS
<1>1. ASSUME NEW k \in 0 .. Depth, NEW g, k # 0 => AreSeen(m, g, k - 1) PROVE k \in S
  <2> DEFINE h == [x \in D |-> IF x[1] = k THEN SeenIn(m, g, k, x[2]) ELSE g[x]]
  <2>0. \A x \in D : h[x] = IF x[1] = k THEN SeenIn(m, g, k, x[2]) ELSE g[x]
    OBVIOUS
  <2> HIDE DEF h, D
  <2>1. ASSUME NEW left \in 0 .. Depth, NEW c \in DOMAIN m.files
        PROVE  h[<<left, c>>] = IF left = k THEN SeenIn(m, g, k, c) ELSE g[<<left, c>>]
    <3> DEFINE x == <<left, c>>
    <3>1. x \in D
      BY <1>d
    <3>2. x[1] = left /\ x[2] = c
      OBVIOUS
    <3> HIDE DEF x
    <3>3. h[x] = IF left = k THEN SeenIn(m, g, k, c) ELSE g[x]
      BY <2>0, <3>1, <3>2
    <3> QED BY <3>3 DEF x
  <2>2. ASSUME NEW left \in 0 .. Depth, left <= k, NEW c \in DOMAIN m.files
        PROVE  h[<<left, c>>] = SeenIn(m, h, left, c)
    <3>2. SameLines(m, g, h, left)
      <4>1. left # 0 => left - 1 \in 0 .. Depth /\ left - 1 # k
        BY <1>0, <2>2
      <4> QED BY <4>1, <2>1 DEF SameLines
    <3>3. SeenIn(m, g, left, c) = SeenIn(m, h, left, c)
      BY <3>2, SeenSame
    <3>4. h[<<left, c>>] = SeenIn(m, g, left, c)
      <4>1. CASE left = k
        BY <4>1, <2>1
      <4>2. CASE left # k
        <5>1. k # 0 /\ left <= k - 1
          BY <1>0, <2>2, <4>2
        <5>2. g[<<left, c>>] = SeenIn(m, g, left, c)
          BY <5>1, <1>1 DEF AreSeen
        <5> QED BY <5>2, <4>2, <2>1
      <4> QED BY <4>1, <4>2
    <3> QED BY <3>3, <3>4
  <2>3. AreSeen(m, h, k)
    BY <2>2 DEF AreSeen
  <2> QED BY <2>3
<1>2. 0 \in S
  <2>1. 0 \in 0 .. Depth
    BY <1>0
  <2> HIDE DEF S
  <2> QED BY <2>1, <1>1
<1>3. ASSUME NEW k \in 0 .. Depth - 1, k \in S PROVE k + 1 \in S
  <2>1. PICK g : AreSeen(m, g, k)
    BY <1>3
  <2>2. k + 1 \in 0 .. Depth /\ (k + 1) - 1 = k
    BY <1>0
  <2> HIDE DEF S
  <2> QED BY <2>1, <2>2, <1>1
<1>4. PICK g : AreSeen(m, g, Depth)
  <2>1. Depth \in 0 .. Depth
    BY <1>0
  <2> HIDE DEF S
  <2>2. Depth \in S
    BY <1>0, <1>2, <1>3, <2>1, InductionUpTo
  <2> QED BY <2>2 DEF S
<1>5. lines = [x \in D |-> SeenIn(m, lines, x[1], x[2])]
  <2> DEFINE h == [x \in D |-> g[x]]
  <2>1. ASSUME NEW x \in D PROVE h[x] = SeenIn(m, h, x[1], x[2])
    <3>1. PICK left \in 0 .. Depth, c \in DOMAIN m.files : x = <<left, c>>
      OBVIOUS
    <3>2. x[1] = left /\ x[2] = c
      BY <3>1
    <3>3. \A l \in 0 .. Depth : \A d \in DOMAIN m.files : h[<<l, d>>] = g[<<l, d>>]
      <4>1. \A y \in D : h[y] = g[y]
        OBVIOUS
      <4> HIDE DEF h, D
      <4> QED BY <4>1, <1>d
    <3> HIDE DEF h, D, S, lines
    <3>5. SameLines(m, g, h, left)
      <4>1. left # 0 => left - 1 \in 0 .. Depth
        BY <1>0
      <4> QED BY <4>1, <3>3 DEF SameLines
    <3>6. SeenIn(m, g, left, c) = SeenIn(m, h, left, c)
      BY <3>5, SeenSame
    <3>7. g[<<left, c>>] = SeenIn(m, g, left, c)
      BY <1>0, <1>4 DEF AreSeen
    <3> QED BY <3>1, <3>2, <3>3, <3>6, <3>7
  <2>2. h = [x \in D |-> h[x]]
    OBVIOUS
  <2> HIDE DEF h, D
  <2>3. h = [x \in D |-> SeenIn(m, h, x[1], x[2])]
    BY <2>1, <2>2
  <2> QED BY <2>3
<1>6. LinesOf(m) = lines
  BY DEF LinesOf
<1> HIDE DEF lines
<1>7. ASSUME NEW left \in 0 .. Depth, NEW c \in DOMAIN m.files
      PROVE  lines[<<left, c>>] = SeenIn(m, lines, left, c)
  <2> DEFINE x == <<left, c>>
  <2>1. x \in D /\ x[1] = left /\ x[2] = c
    OBVIOUS
  <2> HIDE DEF x, D
  <2>2. lines[x] = SeenIn(m, lines, x[1], x[2])
    BY <1>5, <2>1
  <2> QED BY <2>1, <2>2 DEF x
<1> QED BY <1>6, <1>7 DEF AreSeen

-----------------------------------------------------------------------------
(* What the linter knows of a line, and what the compiler does with it.    *)

Region == [reached : Marks, branch : Marks]

\* A region as the linter and as the compiler see it.
RegionNear(a, b) ==
    /\ a.branch = "active" => b.active
    /\ a.branch = "inactive" => ~b.active
    /\ a.reached = "active" => ~b.taken
    /\ a.reached = "inactive" => b.taken

NestNear(ln, rn) ==
    /\ ln \in Seq(Region) /\ rn \in Seq(ReadRegion) /\ Len(ln) = Len(rn)
    /\ \A i \in 1 .. Len(ln) : RegionNear(ln[i], rn[i])

LEMMA FirstNear ==
    ASSUME NEW value, NEW holds \in BOOLEAN, value \in {"true", "false", "unknown"},
           value = "true" => holds, value = "false" => ~holds
    PROVE  RegionNear(Branch("active", value), [taken |-> holds, active |-> holds])
<1>1. CASE value = "true"
  BY <1>1 DEF Branch, RegionNear
<1>2. CASE value = "false"
  BY <1>2 DEF Branch, RegionNear
<1>3. CASE value = "unknown"
  BY <1>3 DEF Branch, RegionNear
<1> QED BY <1>1, <1>2, <1>3

LEMMA BranchNear ==
    ASSUME NEW a \in Region, NEW b \in ReadRegion, RegionNear(a, b),
           NEW value, NEW holds \in BOOLEAN, value \in {"true", "false", "unknown"},
           value = "true" => holds, value = "false" => ~holds
    PROVE  RegionNear(Branch(a.reached, value), [taken |-> b.taken \/ holds, active |-> ~b.taken /\ holds])
<1>1. a.reached \in Marks /\ b.taken \in BOOLEAN /\ b.active \in BOOLEAN
  BY DEF Region, ReadRegion
<1>2. a.reached = "active" \/ a.reached = "inactive" \/ a.reached = "uncertain"
  BY <1>1 DEF Marks
<1> DEFINE x == Branch(a.reached, value)
           y == [taken |-> b.taken \/ holds, active |-> ~b.taken /\ holds]
<1>y. y.taken = (b.taken \/ holds) /\ y.active = (~b.taken /\ holds)
  OBVIOUS
<1>3. CASE a.reached = "inactive"
  <2>1. x.reached = "inactive" /\ x.branch = "inactive"
    BY <1>3 DEF Branch
  <2> HIDE DEF x, y
  <2>2. RegionNear(x, y)
    BY <1>1, <1>3, <1>y, <2>1 DEF RegionNear
  <2> QED BY <2>2 DEF x, y
<1>4. CASE a.reached # "inactive" /\ value = "unknown"
  <2>1. x.reached = "uncertain" /\ x.branch = "uncertain"
    BY <1>4 DEF Branch
  <2> HIDE DEF x, y
  <2>2. RegionNear(x, y)
    BY <2>1 DEF RegionNear
  <2> QED BY <2>2 DEF x, y
<1>5. CASE a.reached # "inactive" /\ value = "false"
  <2>1. x.reached = a.reached /\ x.branch = "inactive"
    BY <1>5 DEF Branch
  <2> HIDE DEF x, y
  <2>2. RegionNear(x, y)
    BY <1>1, <1>5, <1>y, <2>1 DEF RegionNear
  <2> QED BY <2>2 DEF x, y
<1>6. CASE a.reached # "inactive" /\ value = "true"
  <2>1. x.reached = "inactive" /\ x.branch = a.reached
    BY <1>6 DEF Branch
  <2> HIDE DEF x, y
  <2>2. RegionNear(x, y)
    BY <1>1, <1>2, <1>6, <1>y, <2>1 DEF RegionNear
  <2> QED BY <2>2 DEF x, y
<1> QED BY <1>3, <1>4, <1>5, <1>6

LEMMA AppendNear ==
    ASSUME NEW ln, NEW rn, NestNear(ln, rn), NEW a \in Region, NEW b \in ReadRegion, RegionNear(a, b)
    PROVE  NestNear(Append(ln, a), Append(rn, b))
<1>1. ln \in Seq(Region) /\ rn \in Seq(ReadRegion) /\ Len(ln) = Len(rn) /\ \A i \in 1 .. Len(ln) : RegionNear(ln[i], rn[i])
  BY DEF NestNear
<1> DEFINE l == Append(ln, a)
           r == Append(rn, b)
           n == Len(ln)
<1>2. /\ l \in Seq(Region) /\ Len(l) = n + 1 /\ l[n + 1] = a /\ n \in Nat
      /\ \A i \in 1 .. n : l[i] = ln[i]
  BY <1>1
<1>3. /\ r \in Seq(ReadRegion) /\ Len(r) = n + 1 /\ r[n + 1] = b
      /\ \A i \in 1 .. n : r[i] = rn[i]
  BY <1>1
<1> HIDE DEF l, r, n
<1>4. ASSUME NEW i \in 1 .. Len(l) PROVE RegionNear(l[i], r[i])
  <2>1. CASE i = n + 1
    BY <2>1, <1>2, <1>3
  <2>2. CASE i # n + 1
    <3>1. i \in 1 .. n
      BY <1>2, <2>2
    <3> QED BY <3>1, <1>1, <1>2, <1>3 DEF n
  <2> QED BY <2>1, <2>2
<1>5. NestNear(l, r)
  BY <1>2, <1>3, <1>4 DEF NestNear
<1> QED BY <1>5 DEF l, r

LEMMA OuterNear ==
    ASSUME NEW ln, NEW rn, NestNear(ln, rn), ln # << >>
    PROVE  /\ NestNear(Outer(ln), Outer(rn)) /\ RegionNear(Last(ln), Last(rn)) /\ rn # << >>
           /\ Last(ln) \in Region /\ Last(rn) \in ReadRegion
<1>1. ln \in Seq(Region) /\ rn \in Seq(ReadRegion) /\ Len(ln) = Len(rn) /\ \A i \in 1 .. Len(ln) : RegionNear(ln[i], rn[i])
  BY DEF NestNear
<1> DEFINE n == Len(ln)
           l == Outer(ln)
           r == Outer(rn)
<1>2. n \in Nat /\ n # 0 /\ rn # << >> /\ n \in 1 .. n
  BY <1>1
<1>3. l \in Seq(Region) /\ Len(l) = n - 1 /\ \A i \in 1 .. n - 1 : l[i] = ln[i]
  BY <1>1, AboveIs DEF Outer
<1>4. r \in Seq(ReadRegion) /\ Len(r) = n - 1 /\ \A i \in 1 .. n - 1 : r[i] = rn[i]
  BY <1>1, <1>2, AboveIs DEF Outer
<1>5. Last(ln) = ln[n] /\ Last(rn) = rn[n]
  BY <1>1 DEF Last
<1>6. ln[n] \in Region /\ rn[n] \in ReadRegion
  BY <1>1, <1>2
<1> HIDE DEF n, l, r
<1>7. ASSUME NEW i \in 1 .. Len(l) PROVE RegionNear(l[i], r[i])
  <2>1. i \in 1 .. n - 1 /\ i \in 1 .. n
    BY <1>2, <1>3
  <2> QED BY <2>1, <1>1, <1>3, <1>4 DEF n
<1>8. NestNear(l, r)
  BY <1>3, <1>4, <1>7 DEF NestNear
<1>9. RegionNear(ln[n], rn[n])
  BY <1>1, <1>2 DEF n
<1> QED BY <1>2, <1>5, <1>6, <1>8, <1>9 DEF l, r

LEMMA NestStep ==
    ASSUME NEW s, NEW rn, NestNear(s.nest, rn), NEW line,
           NEW value, NEW holds \in BOOLEAN, value \in {"true", "false", "unknown"},
           value = "true" => holds, value = "false" => ~holds
    PROVE  NestNear(NestAfter(s, line, value), RegionsAfter(rn, line, holds))
<1> DEFINE ln == s.nest
<1>0. ln # << >> <=> rn # << >>
  <2>1. ln \in Seq(Region) /\ rn \in Seq(ReadRegion) /\ Len(ln) = Len(rn)
    BY DEF NestNear
  <2> HIDE DEF ln
  <2> QED BY <2>1
<1>1. CASE line.op = "if"
  <2> DEFINE a == Branch("active", value)
             b == [taken |-> holds, active |-> holds]
  <2>1. RegionNear(a, b)
    BY FirstNear
  <2>2. a \in Region /\ b \in ReadRegion
    BY BranchType DEF Marks, Region, ReadRegion
  <2> HIDE DEF a, b
  <2>3. NestNear(Append(ln, a), Append(rn, b))
    BY <2>1, <2>2, AppendNear
  <2>4. NestAfter(s, line, value) = Append(ln, a) /\ RegionsAfter(rn, line, holds) = Append(rn, b)
    BY <1>1 DEF NestAfter, RegionsAfter, a, b
  <2> QED BY <2>3, <2>4
<1>2. CASE line.op \in {"elseif", "else"} /\ ln # << >>
  <2> DEFINE a == Branch(Last(ln).reached, value)
             b == [taken |-> Last(rn).taken \/ holds, active |-> ~Last(rn).taken /\ holds]
  <2>0. /\ NestNear(Outer(ln), Outer(rn)) /\ RegionNear(Last(ln), Last(rn)) /\ rn # << >>
        /\ Last(ln) \in Region /\ Last(rn) \in ReadRegion
    BY <1>2, OuterNear
  <2>1. RegionNear(a, b)
    <3> DEFINE x == Last(ln)
               y == Last(rn)
    <3>1. x \in Region /\ y \in ReadRegion /\ RegionNear(x, y)
      BY <2>0
    <3> HIDE DEF x, y
    <3>2. RegionNear(Branch(x.reached, value), [taken |-> y.taken \/ holds, active |-> ~y.taken /\ holds])
      BY <3>1, BranchNear
    <3> QED BY <3>2 DEF x, y
  <2>2. a \in Region /\ b \in ReadRegion
    <3>1. Last(ln).reached \in Marks
      BY <2>0 DEF Region
    <3> QED BY <3>1, <2>0, BranchType DEF Region, ReadRegion
  <2> HIDE DEF a, b
  <2>3. NestNear(Append(Outer(ln), a), Append(Outer(rn), b))
    BY <2>0, <2>1, <2>2, AppendNear
  <2>4. NestAfter(s, line, value) = Append(Outer(ln), a) /\ RegionsAfter(rn, line, holds) = Append(Outer(rn), b)
    BY <1>2, <2>0 DEF NestAfter, RegionsAfter, a, b
  <2> QED BY <2>3, <2>4
<1>3. CASE line.op = "endif" /\ ln # << >>
  <2>1. NestAfter(s, line, value) = Outer(ln) /\ RegionsAfter(rn, line, holds) = Outer(rn)
    BY <1>0, <1>3 DEF NestAfter, RegionsAfter
  <2> QED BY <2>1, <1>3, OuterNear
<1>4. CASE line.op # "if" /\ ~(line.op \in {"elseif", "else"} /\ ln # << >>) /\ ~(line.op = "endif" /\ ln # << >>)
  BY <1>0, <1>4 DEF NestAfter, RegionsAfter
<1> QED BY <1>1, <1>2, <1>3, <1>4

\* Names as the linter and as the compiler know them.
NamesNear(names, read, reality) == names \subseteq read /\ read \subseteq names \cup reality.extra

StateNear(l, s, reality) ==
    NamesNear(l.names, s.text.names, reality) /\ NestNear(l.nest, s.nest) /\ (l.ended <=> s.ended)

LineValue(line, names, complete) == IF line.op = "else" THEN "true" ELSE directiveValue(line, names, complete)

LEMMA RealityIs ==
    ASSUME NEW ws, NEW reality \in Realities(ws)
    PROVE  /\ reality.value \in BOOLEAN /\ (ws.complete => reality.extra = {}) /\ reality.extra \subseteq Elsewhere
<1>1. reality.extra \in (IF ws.complete THEN {{}} ELSE SUBSET Elsewhere) /\ reality.value \in BOOLEAN
  BY DEF Realities
<1>2. CASE ws.complete
  BY <1>1, <1>2
<1>3. CASE ~ws.complete
  BY <1>1, <1>3
<1> QED BY <1>1, <1>2, <1>3

LEMMA ValueNear ==
    ASSUME NEW ws, NEW reality \in Realities(ws), NEW line, NEW names, NEW read, NamesNear(names, read, reality)
    PROVE  LET value == LineValue(line, names, ws.complete)  holds == Holding(line, read, reality) IN
           /\ value \in {"true", "false", "unknown"} /\ holds \in BOOLEAN
           /\ value = "true" => holds
           /\ value = "false" => ~holds
<1> DEFINE value == LineValue(line, names, ws.complete)
           holds == Holding(line, read, reality)
           known == line.name \in names
<1>1. reality.value \in BOOLEAN /\ (ws.complete => reality.extra = {})
  BY RealityIs
<1>2. holds \in BOOLEAN
  BY <1>1 DEF Holding, Holds
<1>3. CASE line.op = "else"
  BY <1>2, <1>3 DEF LineValue, Holding
<1>4. CASE line.op # "else" /\ (line.how = "value" \/ (~known /\ ~ws.complete))
  BY <1>2, <1>4 DEF LineValue, directiveValue
<1>5. CASE line.op # "else" /\ line.how # "value" /\ (known \/ ws.complete)
  <2> DEFINE defined == line.how = "defined"
  <2>1. (line.name \in read) <=> known
    BY <1>1, <1>5 DEF NamesNear
  <2>2. known \in BOOLEAN /\ defined \in BOOLEAN /\ (line.name \in read) \in BOOLEAN
    OBVIOUS
  <2>3. holds = ((line.name \in read) = defined)
    BY <1>5 DEF Holding, Holds
  <2>4. value = IF known = defined THEN "true" ELSE "false"
    BY <1>5 DEF LineValue, directiveValue
  <2> DEFINE isRead == line.name \in read
  <2> HIDE DEF value, holds, known, defined, isRead
  <2>5. CASE known = defined
    <3>1. value = "true"
      BY <2>4, <2>5
    <3>2. isRead = defined
      BY <2>1, <2>2, <2>5, Zenon DEF isRead
    <3>3. holds
      BY <2>3, <3>2 DEF isRead
    <3> QED BY <1>2, <3>1, <3>3 DEF value, holds
  <2>6. CASE known # defined
    <3>1. value = "false"
      BY <2>4, <2>6
    <3>2. isRead # defined
      BY <2>1, <2>2, <2>6, Zenon DEF isRead
    <3>3. ~holds
      BY <2>3, <3>2 DEF isRead
    <3> QED BY <1>2, <3>1, <3>3 DEF value, holds
  <2> QED BY <2>5, <2>6
<1> QED BY <1>3, <1>4, <1>5

LEMMA ActiveNear ==
    ASSUME NEW reality, NEW l, NEW s, StateNear(l, s, reality), ~s.text.endless
    PROVE  /\ directiveActive(l) => IsCompiled(s)
           /\ IsCompiled(s) => ~NodeState(l).inactive
           /\ directiveActive(l) <=> ~NodeState(l).inactive /\ ~NodeState(l).uncertain
<1>1. /\ l.nest \in Seq(Region) /\ s.nest \in Seq(ReadRegion) /\ Len(l.nest) = Len(s.nest)
      /\ \A i \in 1 .. Len(l.nest) : RegionNear(l.nest[i], s.nest[i])
      /\ l.ended <=> s.ended
  BY DEF StateNear, NestNear
<1>2. DOMAIN l.nest = 1 .. Len(l.nest) /\ DOMAIN s.nest = 1 .. Len(l.nest)
  BY <1>1
<1>3. \A i \in DOMAIN l.nest : (l.nest[i].branch = "active" => s.nest[i].active) /\ (l.nest[i].branch = "inactive" => ~s.nest[i].active)
  BY <1>1, <1>2 DEF RegionNear
<1>4. /\ NodeState(l).inactive = (l.ended \/ \E i \in DOMAIN l.nest : l.nest[i].branch = "inactive")
      /\ NodeState(l).uncertain = (\E i \in DOMAIN l.nest : l.nest[i].branch # "active")
  BY DEF NodeState
<1>5. directiveActive(l) => IsCompiled(s)
  BY <1>1, <1>2, <1>3 DEF directiveActive, IsCompiled
<1>6. IsCompiled(s) => ~NodeState(l).inactive
  BY <1>1, <1>2, <1>3, <1>4 DEF IsCompiled
<1>7. directiveActive(l) <=> ~NodeState(l).inactive /\ ~NodeState(l).uncertain
  BY <1>4 DEF directiveActive
<1> QED BY <1>5, <1>6, <1>7

\* What the text a line includes is, where there is none.
LEMMA WithinNone ==
    ASSUME NEW ws, NEW root, NEW texts, NEW left, NEW file, NEW names, NEW at,
           \/ ~IsInclude(ws.text[file][at])
           \/ DOMAIN ResolveAll(ws, file, ws.text[file][at].name, ws.text[file][at].how, root) = {}
    PROVE  Within(ws, root, texts, left, file, names, at) = NewText(names, FALSE)
BY DEF Within

\* A line whose meaning the linter knows.
LineSettled(ws, c, f, i) ==
    ws.text[c.file][i].op \in {"define", "undef", "endinput", "include", "tryinclude"} =>
        NodeAt(ws, c, f, i).inactive \/ ~NodeAt(ws, c, f, i).uncertain

\* A file read in a context, of which the linter has resolved all includes.
IsRead(ws, reality, root, c, f) ==
    /\ IsWorkspace(ws) /\ reality \in Realities(ws) /\ root \in STRING
    /\ c \in Contexts(ws) /\ c.root = root
    /\ IsRecorded(ws, c, f, Len(ws.text[c.file]) + 1)

\* One line keeps the linter and the compiler near.
LEMMA LineNear ==
    ASSUME NEW ws, NEW reality, NEW root, NEW c, NEW f, IsRead(ws, reality, root, c, f),
           NEW texts, NEW left, NEW i \in 1 .. Len(ws.text[c.file]), LineSettled(ws, c, f, i),
           NEW s, IsReading(s), StateNear(StateAt(ws, c, f, i - 1), s, reality),
           NEW t, t = ReadLine(ws, reality, root, texts, left, c.file, s, i), ~t.text.endless,
           NEW within, within = Within(ws, root, texts, left, c.file, s.text.names, i),
           IsFollowed(ws, c, f, i) /\ ~within.endless => NamesNear(StateAt(ws, c, f, i).names, within.names, reality)
    PROVE  /\ ~s.text.endless
           /\ StateNear(StateAt(ws, c, f, i), t, reality)
<1> DEFINE line == ws.text[c.file][i]
           l == StateAt(ws, c, f, i - 1)
           k == StateAt(ws, c, f, i)
           value == LineValue(line, l.names, ws.complete)
           holds == Holding(line, s.text.names, reality)
<1>0. /\ IsWorkspace(ws) /\ reality \in Realities(ws) /\ c \in Contexts(ws) /\ c.root = root /\ IsReader(s)
      /\ Len(ws.text[c.file]) \in Nat
  BY TextsAre DEF IsRead, IsReading
<1>1. k = Step(l, line, i, f.snapshots, ws.complete)
  <2>1. \A n \in 1 .. Len(ws.text[c.file]) :
           StateAt(ws, c, f, n) = Step(StateAt(ws, c, f, n - 1), ws.text[c.file][n], n, f.snapshots, ws.complete)
    BY <1>0, WalkSteps DEF StateAt
  <2> QED BY <2>1
<1>2. /\ k.names = NamesAfter(l, line, i, f.snapshots) /\ k.nest = NestAfter(l, line, value)
      /\ k.ended = (l.ended \/ (line.op = "endinput" /\ directiveActive(l)))
  <2> HIDE DEF line, l, k
  <2> QED BY <1>1 DEF Step, LineValue
<1>3. /\ IsReader(t)
      /\ line.op \in Directives => t.nest = RegionsAfter(s.nest, line, holds) /\ t.text = s.text /\ t.ended = s.ended
      /\ line.op \notin Directives /\ ~IsCompiled(s) => t = s
      /\ line.op \notin Directives /\ IsCompiled(s) =>
            /\ t.nest = s.nest /\ t.ended = (line.op = "endinput")
            /\ t.text = TextAfter(s.text, c.file, line, i, within)
  BY <1>0, ReadLineIs
<1>4. NodeAt(ws, c, f, i) = NodeState(l)
  BY DEF NodeAt
<1>5. NamesNear(l.names, s.text.names, reality) /\ NestNear(l.nest, s.nest) /\ (l.ended <=> s.ended)
  BY DEF StateNear
<1>6. i \in DOMAIN f.snapshots => IsFollowed(ws, c, f, i)
  BY DEF IsRead, IsRecorded
<1>7. IsFollowed(ws, c, f, i) <=>
         IsInclude(line) /\ ~NodeState(l).inactive /\ ~NodeState(l).uncertain /\ DOMAIN HitsAt(ws, c, i) # {}
  BY <1>4 DEF IsFollowed
<1>8. line.op \in {"define", "undef", "endinput", "include", "tryinclude"} => NodeState(l).inactive \/ ~NodeState(l).uncertain
  BY <1>4 DEF LineSettled
<1>9. IsInclude(line) <=> line.op \in {"include", "tryinclude"}
  BY DEF IsInclude
<1>10. ~s.text.endless
  <2>1. CASE line.op \in Directives
    BY <2>1, <1>3
  <2>2. CASE line.op \notin Directives /\ ~IsCompiled(s)
    BY <2>2, <1>3
  <2>3. CASE IsCompiled(s)
    BY <2>3 DEF IsCompiled
  <2> QED BY <2>1, <2>2, <2>3
<1>11. /\ directiveActive(l) => IsCompiled(s)
       /\ IsCompiled(s) => ~NodeState(l).inactive
       /\ directiveActive(l) <=> ~NodeState(l).inactive /\ ~NodeState(l).uncertain
  BY <1>10, ActiveNear
<1>12. /\ value \in {"true", "false", "unknown"} /\ holds \in BOOLEAN
       /\ value = "true" => holds
       /\ value = "false" => ~holds
  BY <1>0, <1>5, ValueNear
<1>13. ~IsInclude(line) \/ DOMAIN HitsAt(ws, c, i) = {} => within = NewText(s.text.names, FALSE)
  BY <1>0, WithinNone DEF HitsAt
<1> HIDE DEF line, l, k, value, holds
<1>14. CASE line.op \in Directives
  <2>1. ~IsInclude(line) /\ line.op \notin {"define", "undef", "endinput"}
    BY <1>9, <1>14 DEF Directives
  <2>2. k.names = l.names
    BY <1>2, <1>6, <1>7, <2>1 DEF NamesAfter
  <2>3. NestNear(k.nest, t.nest)
    BY <1>2, <1>3, <1>5, <1>12, <1>14, NestStep
  <2>4. StateNear(k, t, reality)
    BY <1>2, <1>3, <1>5, <1>14, <2>1, <2>2, <2>3 DEF StateNear
  <2> QED BY <1>10, <2>4 DEF k
<1>15. line.op \notin Directives => k.nest = l.nest
  BY <1>2 DEF NestAfter, Directives
<1>16. CASE line.op \notin Directives /\ ~IsCompiled(s)
  <2>1. ~directiveActive(l) /\ i \notin DOMAIN f.snapshots
    BY <1>6, <1>7, <1>11, <1>16
  <2>2. k.names = l.names
    BY <1>2, <2>1 DEF NamesAfter
  <2>3. StateNear(k, t, reality)
    BY <1>2, <1>3, <1>5, <1>15, <1>16, <2>1, <2>2 DEF StateNear
  <2> QED BY <1>10, <2>3 DEF k
<1>17. CASE line.op \notin Directives /\ IsCompiled(s)
  <2>1. t.nest = s.nest /\ t.ended = (line.op = "endinput") /\ t.text = TextAfter(s.text, c.file, line, i, within)
    BY <1>3, <1>17
  <2>2. t.text.endless = within.endless
    BY <2>1 DEF TextAfter
  <2>3. line.op \in {"define", "undef", "endinput", "include", "tryinclude"} => directiveActive(l)
    BY <1>8, <1>11, <1>17
  <2>4. ~s.ended /\ ~l.ended
    BY <1>5, <1>17 DEF IsCompiled
  <2>5. k.ended <=> t.ended
    BY <1>2, <2>1, <2>3, <2>4
  <2>6. NamesNear(k.names, t.text.names, reality)
    <3>1. CASE line.op = "define"
      <4>1. k.names = l.names \cup {line.name}
        BY <1>2, <1>6, <1>7, <1>9, <2>3, <3>1 DEF NamesAfter
      <4>2. t.text.names = s.text.names \cup {line.name}
        BY <2>1, <3>1 DEF TextAfter
      <4> QED BY <4>1, <4>2, <1>5 DEF NamesNear
    <3>2. CASE line.op = "undef"
      <4>1. k.names = l.names \ {line.name}
        BY <1>2, <1>6, <1>7, <1>9, <2>3, <3>2 DEF NamesAfter
      <4>2. t.text.names = s.text.names \ {line.name}
        BY <2>1, <3>2 DEF TextAfter
      <4> QED BY <4>1, <4>2, <1>5 DEF NamesNear
    <3>3. CASE line.op \notin {"define", "undef"}
      <4>1. t.text.names = within.names
        BY <2>1, <3>3 DEF TextAfter
      <4>2. CASE IsFollowed(ws, c, f, i)
        BY <4>1, <4>2, <2>2 DEF k
      <4>3. CASE ~IsFollowed(ws, c, f, i)
        <5>1. ~IsInclude(line) \/ DOMAIN HitsAt(ws, c, i) = {}
          BY <1>7, <1>9, <1>11, <2>3, <4>3
        <5>2. within.names = s.text.names
          BY <5>1, <1>13, NewTextIs
        <5>3. k.names = l.names
          BY <1>2, <1>6, <3>3, <4>3 DEF NamesAfter
        <5> QED BY <4>1, <5>2, <5>3, <1>5
      <4> QED BY <4>2, <4>3
    <3> QED BY <3>1, <3>2, <3>3
  <2>7. StateNear(k, t, reality)
    BY <1>5, <1>15, <1>17, <2>1, <2>5, <2>6 DEF StateNear
  <2> QED BY <1>10, <2>7 DEF k
<1> QED BY <1>14, <1>16, <1>17

-----------------------------------------------------------------------------
(* A file, as the linter and as the compiler read it.                      *)

\* A text that does not end is not read any further.
LEMMA NotEndlessBefore ==
    ASSUME NEW ws, NEW reality, NEW root, NEW texts, NEW left, NEW file, NEW s, IsReader(s), NEW at,
           ~ReadLine(ws, reality, root, texts, left, file, s, at).text.endless
    PROVE  ~s.text.endless
<1> DEFINE t == ReadLine(ws, reality, root, texts, left, file, s, at)
           op == ws.text[file][at].op
<1>1. /\ op \in Directives => t.text = s.text
      /\ op \notin Directives /\ ~IsCompiled(s) => t = s
  BY ReadLineIs
<1>2. CASE op \notin Directives /\ IsCompiled(s)
  BY <1>2 DEF IsCompiled
<1> HIDE DEF op
<1> QED BY <1>1, <1>2

\* The file of a context read under given names.
StatesOf(ws, reality, root, texts, left, c, names) == ReadStates(ws, reality, root, texts, left, c.file, names)
TextAt(ws, root, texts, left, c, s, i) == Within(ws, root, texts, left, c.file, s.text.names, i)

Starts(c, names, reality) == names \in SUBSET STRING /\ NamesNear(NewDefineContext(c.environment), names, reality)

\* All lines keep the linter and the compiler near, if what the includes leave defined does.
LEMMA FileNear ==
    ASSUME NEW ws, NEW reality, NEW root, NEW c, NEW f, IsRead(ws, reality, root, c, f),
           NEW texts, NEW left, NamesTyped(ws, texts, left), NEW names, Starts(c, names, reality),
           \A i \in 1 .. Len(ws.text[c.file]) : LineSettled(ws, c, f, i),
           NEW u, u = StatesOf(ws, reality, root, texts, left, c, names),
           ~u[Len(ws.text[c.file])].text.endless,
           \A i \in 1 .. Len(ws.text[c.file]) :
               LET s == u[i - 1]  within == TextAt(ws, root, texts, left, c, s, i) IN
               (/\ IsFollowed(ws, c, f, i) /\ s.text.names \in SUBSET STRING
                /\ NamesNear(NodeAt(ws, c, f, i).names, s.text.names, reality) /\ ~within.endless)
               => NamesNear(StateAt(ws, c, f, i).names, within.names, reality)
    PROVE  \A n \in 0 .. Len(ws.text[c.file]) :
              /\ StateNear(StateAt(ws, c, f, n), u[n], reality)
              /\ IsReading(u[n]) /\ ~u[n].text.endless
<1> DEFINE N == Len(ws.text[c.file])
<1>0. /\ IsWorkspace(ws) /\ reality \in Realities(ws) /\ root \in STRING /\ c \in Contexts(ws) /\ c.root = root
      /\ N \in Nat /\ c.file \in DOMAIN ws.text /\ names \in SUBSET STRING
  BY TextsAre DEF IsRead, Contexts, Starts
<1>1. /\ u[0] = NewReader(names)
      /\ \A n \in 1 .. N : u[n] = ReadLine(ws, reality, root, texts, left, c.file, u[n - 1], n)
  BY <1>0, ReadSteps DEF StatesOf
<1>2. \A n \in 0 .. N : IsReading(u[n])
  BY <1>0, ReadType DEF StatesOf
<1>3. \A n \in 0 .. N : ~u[n].text.endless
  <2> DEFINE T == {k \in 0 .. N : ~u[N - k].text.endless}
  <2>1. 0 \in T
    BY <1>0
  <2>2. ASSUME NEW k \in 0 .. N - 1, k \in T PROVE k + 1 \in T
    <3> DEFINE n == N - k
    <3>1. n \in 1 .. N /\ n - 1 = N - (k + 1) /\ k + 1 \in 0 .. N /\ n - 1 \in 0 .. N
      BY <1>0
    <3>2. ~u[n].text.endless
      BY <2>2
    <3>3. u[n] = ReadLine(ws, reality, root, texts, left, c.file, u[n - 1], n) /\ IsReader(u[n - 1])
      BY <1>1, <1>2, <3>1 DEF IsReading
    <3> HIDE DEF n
    <3>4. ~u[n - 1].text.endless
      BY <3>2, <3>3, NotEndlessBefore
    <3> QED BY <3>1, <3>4
  <2> HIDE DEF T
  <2>3. \A k \in 0 .. N : k \in T
    BY <1>0, <2>1, <2>2, InductionUpTo
  <2>4. ASSUME NEW n \in 0 .. N PROVE ~u[n].text.endless
    <3>1. N - n \in 0 .. N /\ N - (N - n) = n
      BY <1>0
    <3>2. N - n \in T
      BY <2>3, <3>1
    <3> QED BY <3>1, <3>2 DEF T
  <2> QED BY <2>4
<1> DEFINE S == {n \in 0 .. N : StateNear(StateAt(ws, c, f, n), u[n], reality)}
<1>4. 0 \in S
  <2>1. StateAt(ws, c, f, 0) = WalkStart(c.environment)
    BY <1>0, WalkSteps DEF StateAt
  <2>2. NestNear(<< >>, << >>)
    BY DEF NestNear
  <2>3. StateNear(WalkStart(c.environment), NewReader(names), reality)
    <3>1. /\ WalkStart(c.environment).names = NewDefineContext(c.environment)
          /\ WalkStart(c.environment).nest = << >> /\ ~WalkStart(c.environment).ended
      BY DEF WalkStart
    <3>2. NewReader(names).text.names = names
      BY NewReaderIs, NewTextIs
    <3> QED BY <2>2, <3>1, <3>2, NewReaderIs DEF StateNear, Starts
  <2>4. 0 \in 0 .. N
    BY <1>0
  <2> QED BY <1>1, <2>1, <2>3, <2>4
<1>5. ASSUME NEW n \in 0 .. N - 1, n \in S PROVE n + 1 \in S
  <2> DEFINE i == n + 1
             s == u[n]
             within == TextAt(ws, root, texts, left, c, s, i)
  <2>1. i \in 1 .. N /\ i \in 0 .. N /\ i - 1 = n /\ n \in 0 .. N
    BY <1>0
  <2>2. u[i] = ReadLine(ws, reality, root, texts, left, c.file, s, i) /\ ~u[i].text.endless
    BY <1>1, <1>3, <2>1
  <2>3. IsReading(s) /\ StateNear(StateAt(ws, c, f, i - 1), s, reality)
    BY <1>2, <1>5, <2>1
  <2>4. s.text.names \in SUBSET STRING /\ NamesNear(NodeAt(ws, c, f, i).names, s.text.names, reality)
    BY <2>3 DEF IsReading, StateNear, NodeAt, NodeState
  <2>5. IsFollowed(ws, c, f, i) /\ ~within.endless => NamesNear(StateAt(ws, c, f, i).names, within.names, reality)
    <3>1. s = u[i - 1]
      BY <2>1
    <3> HIDE DEF s, i
    <3> QED BY <2>1, <2>4, <3>1
  <2>6. within = Within(ws, root, texts, left, c.file, s.text.names, i) /\ LineSettled(ws, c, f, i)
    BY <2>1 DEF TextAt
  <2>7. i \in 1 .. Len(ws.text[c.file])
    BY <2>1
  <2> HIDE DEF s, i, within, N, S
  <2>8. StateNear(StateAt(ws, c, f, i), u[i], reality)
    BY <2>2, <2>3, <2>5, <2>6, <2>7, LineNear
  <2> QED BY <2>1, <2>8 DEF S, i
<1> HIDE DEF S
<1>6. \A n \in 0 .. N : n \in S
  BY <1>0, <1>4, <1>5, InductionUpTo
<1> QED BY <1>2, <1>3, <1>6 DEF S

\* What the compiler does with a line of such a file.
LEMMA LineCompiled ==
    ASSUME NEW ws, NEW reality, NEW c, NEW f, NEW i, NEW s,
           StateNear(StateAt(ws, c, f, i - 1), s, reality), ~s.text.endless
    PROVE  /\ ~NodeAt(ws, c, f, i).inactive /\ ~NodeAt(ws, c, f, i).uncertain => IsCompiled(s)
           /\ IsCompiled(s) => ~NodeAt(ws, c, f, i).inactive
           /\ IsFollowed(ws, c, f, i) => IsCompiled(s)
           /\ NamesNear(NodeAt(ws, c, f, i).names, s.text.names, reality)
<1>1. NodeAt(ws, c, f, i) = NodeState(StateAt(ws, c, f, i - 1))
  BY DEF NodeAt
<1>2. NodeState(StateAt(ws, c, f, i - 1)).names = StateAt(ws, c, f, i - 1).names
  BY DEF NodeState
<1> QED BY <1>1, <1>2, ActiveNear DEF StateNear, IsFollowed

-----------------------------------------------------------------------------
(* A unit, with so many includes left.                                     *)

\* A unit whose files are resolved and whose text the linter can know; within has
\* the contexts that are within so many includes of its root.
UnitRead(ws, fs, reality, root, within) ==
    /\ IsWorkspace(ws) /\ reality \in Realities(ws) /\ root \in STRING /\ None \notin Contexts(ws)
    /\ DOMAIN fs \subseteq Contexts(ws) /\ \A c \in DOMAIN fs : IsFinished(ws, fs, c)
    /\ \A k \in 0 .. Depth : \A c \in within[k] :
          /\ c \in DOMAIN fs /\ c.root = root
          /\ \A i \in 1 .. Len(ws.text[c.file]) : LineSettled(ws, c, fs[c], i)
          /\ k # Depth => \A e \in Range(fs[c].includes) : e.to # None => e.to \in within[k + 1]

InSomeLoop(fs, c) == \E S \in SUBSET DOMAIN fs : Loop(fs, S) /\ c \in S

\* However a file is read, it ends only if it does not include itself in the end, and it
\* leaves what the linter says.
FinalNear(ws, fs, reality, texts, left, c) ==
    \A names : Starts(c, names, reality) /\ ~texts[<<left, c.file, names>>].endless =>
        NamesNear(fs[c].final, texts[<<left, c.file, names>>].names, reality) /\ ~InSomeLoop(fs, c)

LEMMA UnitContext ==
    ASSUME NEW ws, NEW fs, NEW reality, NEW root, NEW within, UnitRead(ws, fs, reality, root, within),
           NEW k \in 0 .. Depth, NEW c \in within[k]
    PROVE  /\ IsRead(ws, reality, root, c, fs[c]) /\ c \in DOMAIN fs /\ IsFinished(ws, fs, c)
           /\ c \in Contexts(ws) /\ c.file \in DOMAIN ws.text /\ Len(ws.text[c.file]) \in Nat
           /\ \A i \in 1 .. Len(ws.text[c.file]) : LineSettled(ws, c, fs[c], i)
<1>1. /\ IsWorkspace(ws) /\ reality \in Realities(ws) /\ root \in STRING
      /\ c \in DOMAIN fs /\ c.root = root /\ c \in Contexts(ws) /\ IsFinished(ws, fs, c)
      /\ \A i \in 1 .. Len(ws.text[c.file]) : LineSettled(ws, c, fs[c], i)
  BY DEF UnitRead
<1>2. IsRecorded(ws, c, fs[c], Len(ws.text[c.file]) + 1)
  BY <1>1 DEF IsFinished
<1> QED BY <1>1, <1>2, TextsAre DEF IsRead, Contexts

\* Where an include leads, and what the compiler reads there.
LEMMA TargetIsRead ==
    ASSUME NEW ws, NEW fs, NEW reality, NEW root, NEW within, UnitRead(ws, fs, reality, root, within),
           NEW texts, NEW left \in 0 .. Depth, NEW c \in within[Depth - left],
           NEW i \in 1 .. Len(ws.text[c.file]), IsFollowed(ws, c, fs[c], i),
           NEW s, s.text.names \in SUBSET STRING,
           NamesNear(NodeAt(ws, c, fs[c], i).names, s.text.names, reality),
           ~TextAt(ws, root, texts, left, c, s, i).endless
    PROVE  LET t == TargetAt(ws, c, fs[c], i) IN
           /\ left # 0 /\ left - 1 \in 0 .. Depth /\ t \in within[Depth - (left - 1)] /\ t # None /\ t \in DOMAIN fs
           /\ TextAt(ws, root, texts, left, c, s, i) = texts[<<left - 1, t.file, s.text.names>>]
           /\ Starts(t, s.text.names, reality)
<1> DEFINE t == TargetAt(ws, c, fs[c], i)
           f == fs[c]
<1>0. /\ Depth \in Nat /\ Depth - left \in 0 .. Depth /\ left \in Nat
  BY DepthAssumption
<1>1. /\ IsRead(ws, reality, root, c, f) /\ c \in DOMAIN fs /\ IsFinished(ws, fs, c) /\ c \in Contexts(ws) /\ IsWorkspace(ws)
      /\ c.root = root /\ IsRecorded(ws, c, f, Len(ws.text[c.file]) + 1) /\ Len(ws.text[c.file]) \in Nat
  BY <1>0, UnitContext DEF IsRead
<1>2. IsInclude(ws.text[c.file][i]) /\ DOMAIN HitsAt(ws, c, i) # {}
  BY DEF IsFollowed
<1>3. /\ t \in Contexts(ws) /\ KnowsCompiler(ws, t.environment) /\ t.file = Chosen(HitsAt(ws, c, i))
      /\ t.environment = NodeAt(ws, c, f, i).names
  BY <1>1, <1>2, TargetType DEF IsRecorded
<1>4. TextAt(ws, root, texts, left, c, s, i) =
          IF left = 0 THEN NewText(s.text.names, TRUE) ELSE texts[<<left - 1, t.file, s.text.names>>]
  BY <1>1, <1>2, <1>3 DEF TextAt, Within, HitsAt
<1> HIDE DEF t
<1>5. left # 0
  BY <1>4, NewTextIs
<1>6. left - 1 \in 0 .. Depth /\ (Depth - left) + 1 = Depth - (left - 1) /\ Depth - left # Depth
  BY <1>0, <1>5
<1>7. t # None
  BY <1>3 DEF UnitRead
<1>8. PICK e \in Range(f.includes) : e.at = i
  <2>1. i \in 1 .. (Len(ws.text[c.file]) + 1) - 1
    BY <1>1
  <2> QED BY <1>1, <2>1 DEF IsRecorded
<1>9. e.to = t
  BY <1>1, <1>8 DEF IsRecorded, t
<1>10. t \in within[(Depth - left) + 1]
  BY <1>0, <1>6, <1>7, <1>8, <1>9 DEF UnitRead
<1>11. t \in DOMAIN fs
  BY <1>1 DEF IsFinished, IsJudged, t
<1>12. Starts(t, s.text.names, reality)
  BY <1>3 DEF Starts, NewDefineContext, KnowsCompiler
<1> QED BY <1>4, <1>5, <1>6, <1>7, <1>10, <1>11, <1>12 DEF t

\* What an include leaves defined, when the file it leads to leaves what the linter says.
LEMMA TargetNear ==
    ASSUME NEW ws, NEW fs, NEW reality, NEW root, NEW within, UnitRead(ws, fs, reality, root, within),
           NEW texts, NEW left \in 0 .. Depth, NEW c \in within[Depth - left],
           left # 0 => \A d \in within[Depth - (left - 1)] : FinalNear(ws, fs, reality, texts, left - 1, d),
           NEW i \in 1 .. Len(ws.text[c.file]), IsFollowed(ws, c, fs[c], i),
           NEW s, s.text.names \in SUBSET STRING,
           NamesNear(NodeAt(ws, c, fs[c], i).names, s.text.names, reality),
           ~TextAt(ws, root, texts, left, c, s, i).endless
    PROVE  /\ NamesNear(StateAt(ws, c, fs[c], i).names, TextAt(ws, root, texts, left, c, s, i).names, reality)
           /\ ~InSomeLoop(fs, TargetAt(ws, c, fs[c], i))
<1> DEFINE t == TargetAt(ws, c, fs[c], i)
           text == TextAt(ws, root, texts, left, c, s, i)
<1>1. /\ left # 0 /\ left - 1 \in 0 .. Depth /\ t \in within[Depth - (left - 1)] /\ t # None /\ t \in DOMAIN fs
      /\ text = texts[<<left - 1, t.file, s.text.names>>]
      /\ Starts(t, s.text.names, reality)
  BY TargetIsRead
<1>2. FinalNear(ws, fs, reality, texts, left - 1, t)
  BY <1>1
<1>3. IsJudged(ws, fs, c, i)
  <2>1. Depth - left \in 0 .. Depth
    BY DepthAssumption
  <2> QED BY <2>1, UnitContext DEF IsFinished
<1>4. (fs[t].final # None /\ StateAt(ws, c, fs[c], i).names = fs[t].final) \/ InLoop(fs, c, t)
  BY <1>3 DEF IsJudged
<1> HIDE DEF t, text
<1>5. NamesNear(fs[t].final, text.names, reality) /\ ~InSomeLoop(fs, t)
  BY <1>1, <1>2 DEF FinalNear, text
<1>6. ~InLoop(fs, c, t)
  BY <1>5 DEF InLoop, InSomeLoop
<1> QED BY <1>4, <1>5, <1>6 DEF t, text

\* The lines of a file of a unit, as they are read.
LEMMA UnitFileNear ==
    ASSUME NEW ws, NEW fs, NEW reality, NEW root, NEW within, UnitRead(ws, fs, reality, root, within),
           NEW texts, AreRead(ws, reality, root, texts, Depth),
           NEW left \in 0 .. Depth, NEW c \in within[Depth - left],
           left # 0 => \A d \in within[Depth - (left - 1)] : FinalNear(ws, fs, reality, texts, left - 1, d),
           NEW names, Starts(c, names, reality), ~texts[<<left, c.file, names>>].endless,
           NEW u, u = StatesOf(ws, reality, root, texts, left, c, names)
    PROVE  /\ texts[<<left, c.file, names>>] = u[Len(ws.text[c.file])].text
           /\ u[0] = NewReader(names)
           /\ \A i \in 1 .. Len(ws.text[c.file]) : u[i] = ReadLine(ws, reality, root, texts, left, c.file, u[i - 1], i)
           /\ \A n \in 0 .. Len(ws.text[c.file]) :
                 /\ StateNear(StateAt(ws, c, fs[c], n), u[n], reality)
                 /\ IsReading(u[n]) /\ ~u[n].text.endless
<1> DEFINE N == Len(ws.text[c.file])
<1>0. Depth \in Nat /\ Depth - left \in 0 .. Depth
  BY DepthAssumption
<1>1. /\ IsRead(ws, reality, root, c, fs[c]) /\ c.file \in DOMAIN ws.text /\ N \in Nat /\ names \in SUBSET STRING
      /\ \A i \in 1 .. N : LineSettled(ws, c, fs[c], i)
  BY <1>0, UnitContext DEF Starts
<1>2. /\ texts[<<left, c.file, names>>] = ReadFile(ws, reality, root, texts, left, c.file, names)
  BY <1>0, <1>1 DEF AreRead
<1>3. /\ u[0] = NewReader(names)
      /\ \A n \in 1 .. N : u[n] = ReadLine(ws, reality, root, texts, left, c.file, u[n - 1], n)
      /\ ReadFile(ws, reality, root, texts, left, c.file, names) = u[N].text
  BY <1>1, ReadSteps DEF StatesOf
<1>4. NamesTyped(ws, texts, left)
  BY <1>0 DEF AreRead, NamesTyped
<1>5. ~u[N].text.endless
  BY <1>2, <1>3
<1>6. ASSUME NEW i \in 1 .. N, IsFollowed(ws, c, fs[c], i), u[i - 1].text.names \in SUBSET STRING,
             NamesNear(NodeAt(ws, c, fs[c], i).names, u[i - 1].text.names, reality),
             ~TextAt(ws, root, texts, left, c, u[i - 1], i).endless
      PROVE  NamesNear(StateAt(ws, c, fs[c], i).names, TextAt(ws, root, texts, left, c, u[i - 1], i).names, reality)
  BY <1>6, TargetNear
<1>7. \A n \in 0 .. N : StateNear(StateAt(ws, c, fs[c], n), u[n], reality) /\ IsReading(u[n]) /\ ~u[n].text.endless
  BY <1>1, <1>4, <1>5, <1>6, FileNear
<1> QED BY <1>2, <1>3, <1>7

LEMMA CompiledText ==
    ASSUME NEW ws, NEW reality, NEW root, NEW texts, NEW left, NEW file, NEW s, IsReader(s), NEW at,
           NEW t, t = ReadLine(ws, reality, root, texts, left, file, s, at), ~t.text.endless,
           IsCompiled(s), ws.text[file][at].op \notin Directives
    PROVE  /\ t.text = TextAfter(s.text, file, ws.text[file][at], at, Within(ws, root, texts, left, file, s.text.names, at))
           /\ ~Within(ws, root, texts, left, file, s.text.names, at).endless
<1> DEFINE within == Within(ws, root, texts, left, file, s.text.names, at)
<1>1. t.text = TextAfter(s.text, file, ws.text[file][at], at, within)
  BY ReadLineIs
<1>2. TextAfter(s.text, file, ws.text[file][at], at, within).endless = within.endless
  BY DEF TextAfter
<1> QED BY <1>1, <1>2

LEMMA IncludeIsNone == ASSUME NEW line, IsInclude(line) PROVE line.op \notin Directives
BY DEF IsInclude, Directives

\* The text of an include that the linter follows.
LEMMA FollowedText ==
    ASSUME NEW ws, NEW fs, NEW reality, NEW root, NEW within, UnitRead(ws, fs, reality, root, within),
           NEW texts, NEW left \in 0 .. Depth, NEW c \in within[Depth - left],
           NEW i \in 1 .. Len(ws.text[c.file]), IsFollowed(ws, c, fs[c], i),
           NEW s, StateNear(StateAt(ws, c, fs[c], i - 1), s, reality), IsReading(s), ~s.text.endless,
           ~ReadLine(ws, reality, root, texts, left, c.file, s, i).text.endless
    PROVE  /\ IsCompiled(s) /\ s.text.names \in SUBSET STRING
           /\ NamesNear(NodeAt(ws, c, fs[c], i).names, s.text.names, reality)
           /\ ~TextAt(ws, root, texts, left, c, s, i).endless
<1>1. IsCompiled(s) /\ NamesNear(NodeAt(ws, c, fs[c], i).names, s.text.names, reality)
  BY LineCompiled
<1>2. IsReader(s) /\ s.text.names \in SUBSET STRING
  BY DEF IsReading
<1>3. ws.text[c.file][i].op \notin Directives
  BY IncludeIsNone DEF IsFollowed
<1>4. ~Within(ws, root, texts, left, c.file, s.text.names, i).endless
  BY <1>1, <1>2, <1>3, CompiledText
<1> QED BY <1>1, <1>2, <1>4 DEF TextAt

LEMMA OneFinal ==
    ASSUME NEW ws, NEW fs, NEW reality, NEW root, NEW within, UnitRead(ws, fs, reality, root, within),
           NEW texts, AreRead(ws, reality, root, texts, Depth),
           NEW left \in 0 .. Depth, NEW c \in within[Depth - left],
           left # 0 => \A d \in within[Depth - (left - 1)] : FinalNear(ws, fs, reality, texts, left - 1, d)
    PROVE  FinalNear(ws, fs, reality, texts, left, c)
<1> DEFINE N == Len(ws.text[c.file])
           f == fs[c]
<1> SUFFICES ASSUME NEW names, Starts(c, names, reality), ~texts[<<left, c.file, names>>].endless
             PROVE  NamesNear(f.final, texts[<<left, c.file, names>>].names, reality) /\ ~InSomeLoop(fs, c)
  BY DEF FinalNear
<1> DEFINE u == StatesOf(ws, reality, root, texts, left, c, names)
<1>1. /\ texts[<<left, c.file, names>>] = u[N].text
      /\ \A i \in 1 .. N : u[i] = ReadLine(ws, reality, root, texts, left, c.file, u[i - 1], i)
      /\ \A n \in 0 .. N : StateNear(StateAt(ws, c, f, n), u[n], reality) /\ IsReading(u[n]) /\ ~u[n].text.endless
  BY UnitFileNear
<1> HIDE DEF u
<1>2. /\ IsFinished(ws, fs, c) /\ N \in Nat /\ DOMAIN fs \subseteq Contexts(ws) /\ None \notin Contexts(ws)
  <2>1. Depth - left \in 0 .. Depth
    BY DepthAssumption
  <2> QED BY <2>1, UnitContext DEF UnitRead
<1>3. NamesNear(f.final, u[N].text.names, reality)
  BY <1>1, <1>2 DEF IsFinished, StateNear
<1>4. ASSUME NEW S \in SUBSET DOMAIN fs, Loop(fs, S), c \in S PROVE FALSE
  <2>1. PICK e \in Range(f.includes) : e.to \in S
    BY <1>4 DEF Loop
  <2> DEFINE i == e.at
  <2>2. e.to # None
    BY <1>2, <2>1
  <2>3. i \in 1 .. (N + 1) - 1 /\ IsFollowed(ws, c, f, i) /\ e.to = TargetAt(ws, c, f, i)
    BY <1>2, <2>2 DEF IsFinished, IsRecorded
  <2>4. i \in 1 .. N /\ i - 1 \in 0 .. N /\ i \in 0 .. N
    BY <1>2, <2>3
  <2> DEFINE s == u[i - 1]
  <2>5. /\ StateNear(StateAt(ws, c, f, i - 1), s, reality) /\ IsReading(s) /\ ~s.text.endless
        /\ ~ReadLine(ws, reality, root, texts, left, c.file, s, i).text.endless
    BY <1>1, <2>4
  <2> HIDE DEF s, i
  <2>6. /\ s.text.names \in SUBSET STRING /\ NamesNear(NodeAt(ws, c, fs[c], i).names, s.text.names, reality)
        /\ ~TextAt(ws, root, texts, left, c, s, i).endless
    BY <2>3, <2>4, <2>5, FollowedText
  <2>7. ~InSomeLoop(fs, TargetAt(ws, c, f, i))
    BY <2>3, <2>4, <2>6, TargetNear
  <2> QED BY <1>4, <2>1, <2>3, <2>7 DEF InSomeLoop
<1> QED BY <1>1, <1>3, <1>4 DEF InSomeLoop

LEMMA AllFinal ==
    ASSUME NEW ws, NEW fs, NEW reality, NEW root, NEW within, UnitRead(ws, fs, reality, root, within),
           NEW texts, AreRead(ws, reality, root, texts, Depth)
    PROVE  \A left \in 0 .. Depth : \A c \in within[Depth - left] : FinalNear(ws, fs, reality, texts, left, c)
<1> DEFINE S == {left \in 0 .. Depth : \A c \in within[Depth - left] : FinalNear(ws, fs, reality, texts, left, c)}
<1>0. Depth \in Nat
  BY DepthAssumption
<1>1. ASSUME NEW left \in 0 .. Depth, left # 0 => left - 1 \in S PROVE left \in S
  <2>1. left # 0 => \A d \in within[Depth - (left - 1)] : FinalNear(ws, fs, reality, texts, left - 1, d)
    BY <1>1
  <2>2. \A c \in within[Depth - left] : FinalNear(ws, fs, reality, texts, left, c)
    BY <2>1, OneFinal
  <2> QED BY <2>2
<1>2. 0 \in S
  <2>1. 0 \in 0 .. Depth
    BY <1>0
  <2> HIDE DEF S
  <2> QED BY <2>1, <1>1
<1>3. ASSUME NEW k \in 0 .. Depth - 1, k \in S PROVE k + 1 \in S
  <2>1. k + 1 \in 0 .. Depth /\ (k + 1) - 1 = k
    BY <1>0
  <2> HIDE DEF S
  <2> QED BY <2>1, <1>1, <1>3
<1> HIDE DEF S
<1>4. \A left \in 0 .. Depth : left \in S
  BY <1>0, <1>2, <1>3, InductionUpTo
<1> QED BY <1>4 DEF S

-----------------------------------------------------------------------------
(* The lines of a text.                                                    *)

Item(file, line, at, names) == [chain |-> << >>, file |-> file, at |-> at, macro |-> IsMacro(line, names)]

\* A line where its file is included.
DeeperItem(item, file, at) == [item EXCEPT !.chain = << <<file, at>> >> \o @]

\* What line i adds to a text that has it.
AddedBy(ws, root, texts, left, c, s, i) ==
    {Item(c.file, ws.text[c.file][i], i, s.text.names)}
        \cup {DeeperItem(item, c.file, i) : item \in TextAt(ws, root, texts, left, c, s, i).items}

IsAdded(ws, c, s, i) == ws.text[c.file][i].op \notin Directives /\ IsCompiled(s)

\* A text has what its compiled lines add.
LEMMA ItemsOf ==
    ASSUME NEW ws, NEW reality, NEW root, NEW texts, NEW left, NEW c, Len(ws.text[c.file]) \in Nat,
           NEW names, NEW u, u[0] = NewReader(names),
           \A i \in 1 .. Len(ws.text[c.file]) : u[i] = ReadLine(ws, reality, root, texts, left, c.file, u[i - 1], i),
           \A n \in 0 .. Len(ws.text[c.file]) : IsReader(u[n]) /\ ~u[n].text.endless
    PROVE  \A item : item \in u[Len(ws.text[c.file])].text.items <=>
               \E i \in 1 .. Len(ws.text[c.file]) :
                   IsAdded(ws, c, u[i - 1], i) /\ item \in AddedBy(ws, root, texts, left, c, u[i - 1], i)
<1> DEFINE N == Len(ws.text[c.file])
           Has(item, i) == IsAdded(ws, c, u[i - 1], i) /\ item \in AddedBy(ws, root, texts, left, c, u[i - 1], i)
           P(n) == \A item : item \in u[n].text.items <=> \E i \in 1 .. n : Has(item, i)
           S == {n \in 0 .. N : P(n)}
<1>1. 0 \in S
  <2>1. u[0].text.items = {}
    <3>1. u[0].text = NewText(names, FALSE)
      BY NewReaderIs
    <3>2. NewText(names, FALSE).items = {}
      BY NewTextIs
    <3> QED BY <3>1, <3>2
  <2>2. 1 .. 0 = {} /\ 0 \in 0 .. N
    OBVIOUS
  <2> QED BY <2>1, <2>2
<1>2. ASSUME NEW n \in 0 .. N - 1, n \in S PROVE n + 1 \in S
  <2> DEFINE i == n + 1
             s == u[n]
             line == ws.text[c.file][i]
  <2>1. i \in 1 .. N /\ i \in 0 .. N /\ i - 1 = n /\ n \in 0 .. N /\ \A j : j \in 1 .. i <=> j \in 1 .. n \/ j = i
    OBVIOUS
  <2>2. u[i] = ReadLine(ws, reality, root, texts, left, c.file, s, i) /\ ~u[i].text.endless /\ IsReader(s)
    BY <2>1
  <2> HIDE DEF Has
  <2>3. P(n)
    BY <1>2
  <2>4. ASSUME NEW item PROVE item \in u[i].text.items <=> item \in s.text.items \/ Has(item, i)
    <3>1. CASE line.op \in Directives
      <4>1. u[i].text = s.text
        BY <2>2, <3>1, ReadLineIs
      <4> QED BY <4>1, <3>1 DEF Has, IsAdded
    <3>2. CASE line.op \notin Directives /\ ~IsCompiled(s)
      <4>1. u[i] = s
        BY <2>2, <3>2, ReadLineIs
      <4> QED BY <4>1, <3>2, <2>1 DEF Has, IsAdded
    <3>3. CASE line.op \notin Directives /\ IsCompiled(s)
      <4> DEFINE within == Within(ws, root, texts, left, c.file, s.text.names, i)
      <4>1. u[i].text = TextAfter(s.text, c.file, line, i, within)
        BY <2>2, <3>3, CompiledText
      <4>2. u[i].text.items = s.text.items \cup {Item(c.file, line, i, s.text.names)}
                                  \cup {DeeperItem(x, c.file, i) : x \in within.items}
        BY <4>1 DEF TextAfter, Item, Included, DeeperItem
      <4>3. AddedBy(ws, root, texts, left, c, s, i) =
                {Item(c.file, line, i, s.text.names)} \cup {DeeperItem(x, c.file, i) : x \in within.items}
        BY DEF AddedBy, TextAt
      <4>4. Has(item, i) <=> item \in AddedBy(ws, root, texts, left, c, s, i)
        BY <2>1, <3>3 DEF Has, IsAdded
      <4> HIDE DEF within, s, i, line
      <4> QED BY <4>2, <4>3, <4>4
    <3> QED BY <3>1, <3>2, <3>3
  <2>5. P(i)
    <3> SUFFICES ASSUME NEW item PROVE item \in u[i].text.items <=> \E j \in 1 .. i : Has(item, j)
      OBVIOUS
    <3> HIDE DEF i
    <3> QED BY <2>1, <2>3, <2>4
  <2> HIDE DEF P
  <2> QED BY <2>1, <2>5
<1> HIDE DEF S
<1>3. \A n \in 0 .. N : n \in S
  BY <1>1, <1>2, InductionUpTo
<1>4. N \in S
  BY <1>3
<1> HIDE DEF Has
<1>5. P(N)
  BY <1>4 DEF S
<1> QED BY <1>5 DEF Has

-----------------------------------------------------------------------------
\* A line as the linter sees it, and where its file is included.
IsSeen(s) == s = [item |-> s.item, of |-> s.of, node |-> s.node]
Deeper(s, file, at) == [s EXCEPT !.item.chain = << <<file, at>> >> \o @]

LEMMA DeeperIs ==
    ASSUME NEW s, IsSeen(s), NEW file, NEW at
    PROVE  LET d == Deeper(s, file, at) IN IsSeen(d) /\ d.item = DeeperItem(s.item, file, at) /\ d.node = s.node
<1> DEFINE a == s.item
           b == s.of
           n == s.node
           d == Deeper(s, file, at)
           x == DeeperItem(a, file, at)
<1>1. s = [item |-> a, of |-> b, node |-> n]
  BY DEF IsSeen
<1>2. d = [s EXCEPT !.item = x]
  BY DEF Deeper, DeeperItem
<1> HIDE DEF a, b, n, d, x
<1>3. d = [item |-> x, of |-> b, node |-> n]
  BY <1>1, <1>2
<1>4. d.item = x /\ d.node = n /\ IsSeen(d)
  BY <1>3 DEF IsSeen
<1> QED BY <1>4 DEF a, d, x, n

\* The model of resolved files.
IsModel(m, ws, fs) ==
    /\ m.w = ws /\ m.files = fs
    /\ \A c \in DOMAIN fs : /\ DOMAIN NodesOf(m, c) = 1 .. Len(ws.text[c.file])
                            /\ \A i \in 1 .. Len(ws.text[c.file]) : NodesOf(m, c)[i] = NodeAt(ws, c, fs[c], i)

OwnLine(ws, c, f, i) ==
    [item |-> Item(c.file, ws.text[c.file][i], i, NodeAt(ws, c, f, i).names), of |-> At(c, i), node |-> NodeAt(ws, c, f, i)]

IsSeenIn(ws, fs, lines, left, c, s) ==
    \/ \E i \in 1 .. Len(ws.text[c.file]) : ws.text[c.file][i].op \notin Directives /\ s = OwnLine(ws, c, fs[c], i)
    \/ \E e \in Range(fs[c].includes) : /\ e.to # None /\ left # 0
                                        /\ \E d \in lines[<<left - 1, e.to>>] : s = Deeper(d, c.file, e.at)

LEMMA SeenInIs ==
    ASSUME NEW m, NEW ws, NEW fs, IsModel(m, ws, fs), NEW lines, NEW left, NEW c \in DOMAIN fs
    PROVE  \A s : s \in SeenIn(m, lines, left, c) <=> IsSeenIn(ws, fs, lines, left, c, s)
<1> DEFINE N == Len(ws.text[c.file])
           own == {OwnLine(ws, c, fs[c], i) : i \in {i \in 1 .. N : ws.text[c.file][i].op \notin Directives}}
           old(i) == [item |-> Item(c.file, m.w.text[c.file][i], i, NodesOf(m, c)[i].names), of |-> At(c, i), node |-> NodesOf(m, c)[i]]
           others == {old(i) : i \in {i \in DOMAIN NodesOf(m, c) : m.w.text[c.file][i].op \notin Directives}}
           deeper(e) == {Deeper(s, c.file, e.at) : s \in lines[<<left - 1, e.to>>]}
           E == {e \in Range(fs[c].includes) : e.to # None /\ left # 0}
<1>1. m.w = ws /\ m.files = fs /\ DOMAIN NodesOf(m, c) = 1 .. N /\ \A i \in 1 .. N : NodesOf(m, c)[i] = NodeAt(ws, c, fs[c], i)
  BY DEF IsModel
<1>2. SeenIn(m, lines, left, c) = others \cup UNION {deeper(e) : e \in E}
  BY <1>1 DEF SeenIn, Item, Deeper
<1>3. others = own
  <2>1. \A i \in 1 .. N : old(i) = OwnLine(ws, c, fs[c], i)
    BY <1>1 DEF OwnLine
  <2> HIDE DEF old
  <2> QED BY <1>1, <2>1
<1>4. \A s : s \in SeenIn(m, lines, left, c) <=> s \in own \/ \E e \in E : s \in deeper(e)
  <2> HIDE DEF others, own, E, deeper
  <2>1. \A s : s \in UNION {deeper(e) : e \in E} <=> \E e \in E : s \in deeper(e)
    OBVIOUS
  <2> QED BY <1>2, <1>3, <2>1
<1>5. \A s : s \in own <=> \E i \in 1 .. N : ws.text[c.file][i].op \notin Directives /\ s = OwnLine(ws, c, fs[c], i)
  OBVIOUS
<1>6. \A s, e : s \in deeper(e) <=> \E d \in lines[<<left - 1, e.to>>] : s = Deeper(d, c.file, e.at)
  OBVIOUS
<1>7. \A e : e \in E <=> e \in Range(fs[c].includes) /\ e.to # None /\ left # 0
  OBVIOUS
<1> HIDE DEF own, deeper, E, others
<1> QED BY <1>4, <1>5, <1>6, <1>7 DEF IsSeenIn

-----------------------------------------------------------------------------
(* The lines of a unit.                                                    *)

\* No name that a line declares or refers to is defined elsewhere.
NoneElsewhere(ws) ==
    \A f \in DOMAIN ws.text : \A k \in DOMAIN ws.text[f] :
        ws.text[f][k].op \in {"function", "forward", "global", "call", "use"} => ws.text[f][k].name \notin Elsewhere

LEMMA MacroSame ==
    ASSUME NEW ws, NoneElsewhere(ws), NEW reality \in Realities(ws), NEW file \in DOMAIN ws.text,
           NEW i \in DOMAIN ws.text[file], NEW names, NEW read, NamesNear(names, read, reality)
    PROVE  Item(file, ws.text[file][i], i, names) = Item(file, ws.text[file][i], i, read)
<1> DEFINE line == ws.text[file][i]
<1>1. line.op \in {"function", "forward", "global", "call", "use"} => line.name \notin reality.extra
  BY RealityIs DEF NoneElsewhere
<1> HIDE DEF line
<1>2. IsMacro(line, names) = IsMacro(line, read)
  BY <1>1 DEF IsMacro, NamesNear
<1> QED BY <1>2 DEF Item, line

\* What the linter takes for active is in the text, and the text has nothing that it
\* takes for inactive.
SeenNear(reality, texts, lines, left, c) ==
    \A names : Starts(c, names, reality) /\ ~texts[<<left, c.file, names>>].endless =>
        LET items == texts[<<left, c.file, names>>].items IN
        /\ \A s \in lines[<<left, c>>] : IsSeen(s) /\ (~s.node.inactive /\ ~s.node.uncertain => s.item \in items)
        /\ \A item \in items : \E s \in lines[<<left, c>>] : ~s.node.inactive /\ s.item = item

SeenBelow(reality, texts, lines, within, left) ==
    left # 0 => \A d \in within[Depth - (left - 1)] : SeenNear(reality, texts, lines, left - 1, d)

\* What the linter and the compiler make of an include that the linter follows.
LEMMA FollowedSeen ==
    ASSUME NEW ws, NEW fs, NEW reality, NEW root, NEW within, UnitRead(ws, fs, reality, root, within),
           NEW texts, NEW lines, NEW left \in 0 .. Depth, NEW c \in within[Depth - left],
           SeenBelow(reality, texts, lines, within, left),
           NEW i \in 1 .. Len(ws.text[c.file]), IsFollowed(ws, c, fs[c], i),
           NEW s, s.text.names \in SUBSET STRING,
           NamesNear(NodeAt(ws, c, fs[c], i).names, s.text.names, reality),
           ~TextAt(ws, root, texts, left, c, s, i).endless
    PROVE  LET t == TargetAt(ws, c, fs[c], i)  items == TextAt(ws, root, texts, left, c, s, i).items IN
           /\ left # 0 /\ t # None
           /\ \A d \in lines[<<left - 1, t>>] : IsSeen(d) /\ (~d.node.inactive /\ ~d.node.uncertain => d.item \in items)
           /\ \A item \in items : \E d \in lines[<<left - 1, t>>] : ~d.node.inactive /\ d.item = item
<1> DEFINE t == TargetAt(ws, c, fs[c], i)
           text == TextAt(ws, root, texts, left, c, s, i)
<1>1. /\ left # 0 /\ left - 1 \in 0 .. Depth /\ t \in within[Depth - (left - 1)] /\ t # None /\ t \in DOMAIN fs
      /\ text = texts[<<left - 1, t.file, s.text.names>>]
      /\ Starts(t, s.text.names, reality)
  BY TargetIsRead
<1> HIDE DEF t, text
<1>2. SeenNear(reality, texts, lines, left - 1, t)
  BY <1>1 DEF SeenBelow
<1>3. ~texts[<<left - 1, t.file, s.text.names>>].endless
  BY <1>1 DEF text
<1> QED BY <1>1, <1>2, <1>3 DEF SeenNear, t, text

LEMMA OneSeen ==
    ASSUME NEW ws, NEW fs, NEW reality, NEW root, NEW within, UnitRead(ws, fs, reality, root, within), NoneElsewhere(ws),
           NEW texts, AreRead(ws, reality, root, texts, Depth),
           NEW m, IsModel(m, ws, fs), NEW lines, AreSeen(m, lines, Depth),
           NEW left \in 0 .. Depth, NEW c \in within[Depth - left],
           SeenBelow(reality, texts, lines, within, left)
    PROVE  SeenNear(reality, texts, lines, left, c)
<1> DEFINE N == Len(ws.text[c.file])
           f == fs[c]
           op(i) == ws.text[c.file][i].op
<1> SUFFICES ASSUME NEW names, Starts(c, names, reality), ~texts[<<left, c.file, names>>].endless
             PROVE  LET items == texts[<<left, c.file, names>>].items IN
                    /\ \A s \in lines[<<left, c>>] : IsSeen(s) /\ (~s.node.inactive /\ ~s.node.uncertain => s.item \in items)
                    /\ \A item \in items : \E s \in lines[<<left, c>>] : ~s.node.inactive /\ s.item = item
  BY DEF SeenNear
<1> DEFINE u == StatesOf(ws, reality, root, texts, left, c, names)
           Added(i) == AddedBy(ws, root, texts, left, c, u[i - 1], i)
<1>0. Depth \in Nat /\ Depth - left \in 0 .. Depth /\ left <= Depth
  BY DepthAssumption
<1>1. /\ IsRead(ws, reality, root, c, f) /\ c \in DOMAIN fs /\ IsFinished(ws, fs, c)
      /\ c \in Contexts(ws) /\ c.file \in DOMAIN ws.text /\ N \in Nat
      /\ \A i \in 1 .. N : LineSettled(ws, c, f, i)
  BY <1>0, UnitContext
<1>2. reality \in Realities(ws) /\ IsWorkspace(ws) /\ DOMAIN ws.text[c.file] = 1 .. N /\ IsRecorded(ws, c, f, N + 1)
  BY <1>1, TextsAre DEF UnitRead, IsFinished
<1>3. left # 0 => \A d \in within[Depth - (left - 1)] : FinalNear(ws, fs, reality, texts, left - 1, d)
  <2>1. left # 0 => left - 1 \in 0 .. Depth
    BY <1>0
  <2> QED BY <2>1, AllFinal
<1>4. /\ texts[<<left, c.file, names>>] = u[N].text /\ u[0] = NewReader(names)
      /\ \A i \in 1 .. N : u[i] = ReadLine(ws, reality, root, texts, left, c.file, u[i - 1], i)
      /\ \A n \in 0 .. N : StateNear(StateAt(ws, c, f, n), u[n], reality) /\ IsReading(u[n]) /\ ~u[n].text.endless
  BY <1>3, UnitFileNear
<1> HIDE DEF u
<1>5. \A item : item \in u[N].text.items <=> \E i \in 1 .. N : IsAdded(ws, c, u[i - 1], i) /\ item \in Added(i)
  <2>1. \A n \in 0 .. N : IsReader(u[n]) /\ ~u[n].text.endless
    BY <1>4 DEF IsReading
  <2> QED BY <2>1, <1>1, <1>4, ItemsOf
<1>6. \A s : s \in lines[<<left, c>>] <=>
         \/ \E i \in 1 .. N : op(i) \notin Directives /\ s = OwnLine(ws, c, f, i)
         \/ \E e \in Range(f.includes) : /\ e.to # None /\ left # 0
                                         /\ \E d \in lines[<<left - 1, e.to>>] : s = Deeper(d, c.file, e.at)
  <2>1. m.files = fs
    BY DEF IsModel
  <2>2. lines[<<left, c>>] = SeenIn(m, lines, left, c)
    BY <1>0, <1>1, <2>1 DEF AreSeen
  <2>3. IsModel(m, ws, fs) /\ c \in DOMAIN fs
    BY <1>1
  <2>4. \A s : s \in SeenIn(m, lines, left, c) <=> IsSeenIn(ws, fs, lines, left, c, s)
    BY ONLY <2>3, SeenInIs
  <2> QED BY ONLY <2>2, <2>4 DEF IsSeenIn
<1>7. ASSUME NEW i \in 1 .. N
      PROVE  /\ ~NodeAt(ws, c, f, i).inactive /\ ~NodeAt(ws, c, f, i).uncertain => IsCompiled(u[i - 1])
             /\ IsCompiled(u[i - 1]) => ~NodeAt(ws, c, f, i).inactive
             /\ u[i - 1].text.names \in SUBSET STRING
             /\ NamesNear(NodeAt(ws, c, f, i).names, u[i - 1].text.names, reality)
             /\ OwnLine(ws, c, f, i).item = Item(c.file, ws.text[c.file][i], i, u[i - 1].text.names)
             /\ OwnLine(ws, c, f, i).node = NodeAt(ws, c, f, i) /\ IsSeen(OwnLine(ws, c, f, i))
  <2>1. i - 1 \in 0 .. N
    BY <1>1
  <2>2. StateNear(StateAt(ws, c, f, i - 1), u[i - 1], reality) /\ IsReading(u[i - 1]) /\ ~u[i - 1].text.endless
    BY <1>4, <2>1
  <2>3. /\ ~NodeAt(ws, c, f, i).inactive /\ ~NodeAt(ws, c, f, i).uncertain => IsCompiled(u[i - 1])
        /\ IsCompiled(u[i - 1]) => ~NodeAt(ws, c, f, i).inactive
        /\ NamesNear(NodeAt(ws, c, f, i).names, u[i - 1].text.names, reality)
    BY <2>2, LineCompiled
  <2>4. Item(c.file, ws.text[c.file][i], i, NodeAt(ws, c, f, i).names) = Item(c.file, ws.text[c.file][i], i, u[i - 1].text.names)
    BY <1>1, <1>2, <2>3, MacroSame
  <2>5. /\ OwnLine(ws, c, f, i).item = Item(c.file, ws.text[c.file][i], i, NodeAt(ws, c, f, i).names)
        /\ OwnLine(ws, c, f, i).node = NodeAt(ws, c, f, i) /\ IsSeen(OwnLine(ws, c, f, i))
    BY DEF OwnLine, IsSeen
  <2> QED BY <2>2, <2>3, <2>4, <2>5 DEF IsReading
<1>8. ASSUME NEW i \in 1 .. N, IsFollowed(ws, c, f, i)
      PROVE  LET t == TargetAt(ws, c, f, i)  items == TextAt(ws, root, texts, left, c, u[i - 1], i).items IN
             /\ left # 0 /\ t # None /\ IsAdded(ws, c, u[i - 1], i)
             /\ \A d \in lines[<<left - 1, t>>] : IsSeen(d) /\ (~d.node.inactive /\ ~d.node.uncertain => d.item \in items)
             /\ \A item \in items : \E d \in lines[<<left - 1, t>>] : ~d.node.inactive /\ d.item = item
  <2> DEFINE s == u[i - 1]
  <2>1. i - 1 \in 0 .. N /\ i \in 0 .. N
    BY <1>1
  <2>2. /\ StateNear(StateAt(ws, c, f, i - 1), s, reality) /\ IsReading(s) /\ ~s.text.endless
        /\ ~ReadLine(ws, reality, root, texts, left, c.file, s, i).text.endless
    BY <1>4, <2>1
  <2> HIDE DEF s
  <2>3. /\ IsCompiled(s) /\ s.text.names \in SUBSET STRING
        /\ NamesNear(NodeAt(ws, c, fs[c], i).names, s.text.names, reality)
        /\ ~TextAt(ws, root, texts, left, c, s, i).endless
    BY <1>8, <2>2, FollowedText
  <2>4. LET t == TargetAt(ws, c, f, i)  items == TextAt(ws, root, texts, left, c, s, i).items IN
             /\ left # 0 /\ t # None
             /\ \A d \in lines[<<left - 1, t>>] : IsSeen(d) /\ (~d.node.inactive /\ ~d.node.uncertain => d.item \in items)
             /\ \A item \in items : \E d \in lines[<<left - 1, t>>] : ~d.node.inactive /\ d.item = item
    BY <1>8, <2>3, FollowedSeen
  <2>5. op(i) \notin Directives
    BY <1>8, IncludeIsNone DEF IsFollowed
  <2> QED BY <2>3, <2>4, <2>5 DEF IsAdded, s
<1> HIDE DEF N, f
<1>9. ASSUME NEW s \in lines[<<left, c>>]
      PROVE  IsSeen(s) /\ (~s.node.inactive /\ ~s.node.uncertain => s.item \in u[N].text.items)
  <2>1. CASE \E i \in 1 .. N : op(i) \notin Directives /\ s = OwnLine(ws, c, f, i)
    <3>1. PICK i \in 1 .. N : op(i) \notin Directives /\ s = OwnLine(ws, c, f, i)
      BY <2>1
    <3>2. /\ ~s.node.inactive /\ ~s.node.uncertain => IsCompiled(u[i - 1])
          /\ s.item = Item(c.file, ws.text[c.file][i], i, u[i - 1].text.names) /\ IsSeen(s)
      BY <1>7, <3>1
    <3>3. s.item \in Added(i)
      BY <3>2 DEF AddedBy
    <3>4. ~s.node.inactive /\ ~s.node.uncertain => IsAdded(ws, c, u[i - 1], i)
      BY <3>1, <3>2 DEF IsAdded
    <3> QED BY <1>5, <3>2, <3>3, <3>4
  <2>2. CASE \E e \in Range(f.includes) : /\ e.to # None /\ left # 0
                                          /\ \E d \in lines[<<left - 1, e.to>>] : s = Deeper(d, c.file, e.at)
    <3>1. PICK e \in Range(f.includes) : /\ e.to # None /\ left # 0
                                         /\ \E d \in lines[<<left - 1, e.to>>] : s = Deeper(d, c.file, e.at)
      BY <2>2
    <3>2. PICK d \in lines[<<left - 1, e.to>>] : s = Deeper(d, c.file, e.at)
      BY <3>1
    <3> DEFINE i == e.at
    <3>3. i \in 1 .. (N + 1) - 1 /\ IsFollowed(ws, c, f, i) /\ e.to = TargetAt(ws, c, f, i)
      BY <1>2, <3>1 DEF IsRecorded
    <3>4. i \in 1 .. N
      BY <1>1, <3>3
    <3> DEFINE items == TextAt(ws, root, texts, left, c, u[i - 1], i).items
    <3>5. /\ IsAdded(ws, c, u[i - 1], i) /\ IsSeen(d)
          /\ (~d.node.inactive /\ ~d.node.uncertain => d.item \in items)
      BY <1>8, <3>2, <3>3, <3>4
    <3>6. IsSeen(s) /\ s.item = DeeperItem(d.item, c.file, i) /\ s.node = d.node
      BY <3>2, <3>5, DeeperIs
    <3>7. ~s.node.inactive /\ ~s.node.uncertain => s.item \in Added(i)
      BY <3>5, <3>6 DEF AddedBy
    <3> QED BY <1>5, <3>4, <3>5, <3>6, <3>7
  <2> QED BY <2>1, <2>2, <1>6
<1>10. ASSUME NEW item \in u[N].text.items PROVE \E s \in lines[<<left, c>>] : ~s.node.inactive /\ s.item = item
  <2>1. PICK i \in 1 .. N : IsAdded(ws, c, u[i - 1], i) /\ item \in Added(i)
    BY <1>5
  <2>2. op(i) \notin Directives /\ IsCompiled(u[i - 1]) /\ ~NodeAt(ws, c, f, i).inactive
    BY <1>7, <2>1 DEF IsAdded
  <2> DEFINE text == TextAt(ws, root, texts, left, c, u[i - 1], i)
  <2>3. CASE item = Item(c.file, ws.text[c.file][i], i, u[i - 1].text.names)
    <3> DEFINE s == OwnLine(ws, c, f, i)
    <3>1. s \in lines[<<left, c>>]
      BY <1>6, <2>2
    <3>2. s.item = item /\ ~s.node.inactive
      BY <1>7, <2>2, <2>3
    <3> QED BY <3>1, <3>2
  <2>4. CASE \E x \in text.items : item = DeeperItem(x, c.file, i)
    <3>1. PICK x \in text.items : item = DeeperItem(x, c.file, i)
      BY <2>4
    <3>2. IsInclude(ws.text[c.file][i]) /\ DOMAIN HitsAt(ws, c, i) # {}
      <4>1. ASSUME ~(IsInclude(ws.text[c.file][i]) /\ DOMAIN HitsAt(ws, c, i) # {}) PROVE FALSE
        <5>1. c.root = root
          BY <1>1 DEF IsRead
        <5>2. text = NewText(u[i - 1].text.names, FALSE)
          BY <4>1, <5>1, WithinNone DEF TextAt, HitsAt
        <5>3. text.items = {}
          BY <5>2, NewTextIs
        <5> QED BY <3>1, <5>3
      <4> QED BY <4>1
    <3>3. IsFollowed(ws, c, f, i)
      <4>1. ws.text[c.file][i].op \in {"define", "undef", "endinput", "include", "tryinclude"}
        BY <3>2 DEF IsInclude
      <4>2. ~NodeAt(ws, c, f, i).uncertain
        BY <1>1, <2>2, <4>1 DEF LineSettled
      <4> QED BY <2>2, <3>2, <4>2 DEF IsFollowed
    <3> DEFINE t == TargetAt(ws, c, f, i)
    <3>4. left # 0 /\ t # None /\ \A d \in lines[<<left - 1, t>>] : IsSeen(d)
      BY <1>8, <3>3
    <3>5. PICK d \in lines[<<left - 1, t>>] : ~d.node.inactive /\ d.item = x
      BY <1>8, <3>1, <3>3
    <3>6. PICK e \in Range(f.includes) : e.at = i
      <4>1. i \in 1 .. (N + 1) - 1
        BY <1>1
      <4> QED BY <1>2, <3>3, <4>1 DEF IsRecorded
    <3>7. e.to = t
      BY <1>2, <3>3, <3>6 DEF IsRecorded
    <3> DEFINE s == Deeper(d, c.file, i)
    <3>8. s \in lines[<<left, c>>]
      BY <1>6, <3>4, <3>5, <3>6, <3>7
    <3>9. s.item = item /\ ~s.node.inactive
      BY <3>1, <3>4, <3>5, DeeperIs
    <3> QED BY <3>8, <3>9
  <2> QED BY <2>1, <2>3, <2>4 DEF AddedBy
<1> QED BY <1>4, <1>9, <1>10

LEMMA AllSeen ==
    ASSUME NEW ws, NEW fs, NEW reality, NEW root, NEW within, UnitRead(ws, fs, reality, root, within), NoneElsewhere(ws),
           NEW texts, AreRead(ws, reality, root, texts, Depth),
           NEW m, IsModel(m, ws, fs), NEW lines, AreSeen(m, lines, Depth)
    PROVE  \A left \in 0 .. Depth : \A c \in within[Depth - left] : SeenNear(reality, texts, lines, left, c)
<1> DEFINE S == {left \in 0 .. Depth : \A c \in within[Depth - left] : SeenNear(reality, texts, lines, left, c)}
<1>0. Depth \in Nat
  BY DepthAssumption
<1>1. ASSUME NEW left \in 0 .. Depth, left # 0 => left - 1 \in S PROVE left \in S
  <2>1. SeenBelow(reality, texts, lines, within, left)
    BY <1>1 DEF SeenBelow
  <2>2. \A c \in within[Depth - left] : SeenNear(reality, texts, lines, left, c)
    BY <2>1, OneSeen
  <2> QED BY <2>2
<1>2. 0 \in S
  <2>1. 0 \in 0 .. Depth
    BY <1>0
  <2> HIDE DEF S
  <2> QED BY <2>1, <1>1
<1>3. ASSUME NEW k \in 0 .. Depth - 1, k \in S PROVE k + 1 \in S
  <2>1. k + 1 \in 0 .. Depth /\ (k + 1) - 1 = k
    BY <1>0
  <2> HIDE DEF S
  <2> QED BY <2>1, <1>1, <1>3
<1> HIDE DEF S
<1>4. \A left \in 0 .. Depth : left \in S
  BY <1>0, <1>2, <1>3, InductionUpTo
<1> QED BY <1>4 DEF S

-----------------------------------------------------------------------------
(* Resolved projects.                                                      *)

\* Files that are all resolved.
AllFinished(ws, fs) ==
    /\ IsWorkspace(ws) /\ None \notin Contexts(ws)
    /\ DOMAIN fs \subseteq Contexts(ws) /\ \A c \in DOMAIN fs : IsFinished(ws, fs, c)

\* An include leads to a file of the same root.
LEMMA Leads ==
    ASSUME NEW ws, NEW fs, AllFinished(ws, fs), NEW c \in DOMAIN fs,
           NEW e \in Range(fs[c].includes), e.to # None
    PROVE  e.to \in DOMAIN fs /\ e.to.root = c.root
<1> DEFINE n == Len(ws.text[c.file])
           i == e.at
<1>1. n \in Nat /\ IsFinished(ws, fs, c)
  BY TextsAre DEF AllFinished
<1>2. i \in 1 .. (n + 1) - 1 /\ IsFollowed(ws, c, fs[c], i) /\ e.to = TargetAt(ws, c, fs[c], i)
  BY <1>1 DEF IsFinished, IsRecorded
<1>3. i \in 1 .. n
  BY <1>1, <1>2
<1>4. TargetAt(ws, c, fs[c], i) \in DOMAIN fs
  BY <1>1, <1>2, <1>3 DEF IsFinished, IsJudged
<1>5. TargetAt(ws, c, fs[c], i).root = c.root
  BY DEF TargetAt, Context
<1> QED BY <1>2, <1>4, <1>5

LEMMA LevelsHold ==
    ASSUME NEW ws, NEW fs, AllFinished(ws, fs), NEW m, m.files = fs, NEW r \in DOMAIN fs
    PROVE  \A k \in 0 .. Depth : \A c \in LevelsOf(m, r)[k] : c \in DOMAIN fs /\ c.root = r.root
<1> DEFINE f == LevelsOf(m, r)
           S == {k \in 0 .. Depth : \A c \in f[k] : c \in DOMAIN fs /\ c.root = r.root}
<1>0. Depth \in Nat
  BY DepthAssumption
<1>1. f[0] = {r} /\ \A n \in 1 .. Depth : f[n] = NextLevel(m, f[n - 1])
  BY LevelSteps
<1> HIDE DEF f
<1>2. 0 \in S
  BY <1>0, <1>1
<1>3. ASSUME NEW k \in 0 .. Depth - 1, k \in S PROVE k + 1 \in S
  <2>1. k + 1 \in 1 .. Depth /\ k + 1 \in 0 .. Depth /\ (k + 1) - 1 = k
    BY <1>0
  <2>2. f[k + 1] = NextLevel(m, f[k])
    BY <1>1, <2>1
  <2>3. ASSUME NEW c \in f[k + 1] PROVE c \in DOMAIN fs /\ c.root = r.root
    <3>1. CASE c \in f[k]
      BY <3>1, <1>3
    <3>2. CASE c \notin f[k]
      <4>1. PICK d \in f[k] : \E e \in Range(fs[d].includes) : e.to # None /\ c = e.to
        BY <2>2, <3>2 DEF NextLevel
      <4>2. PICK e \in Range(fs[d].includes) : e.to # None /\ c = e.to
        BY <4>1
      <4>3. d \in DOMAIN fs /\ d.root = r.root
        BY <1>3
      <4> QED BY <4>2, <4>3, Leads
    <3> QED BY <3>1, <3>2
  <2> QED BY <2>1, <2>3
<1> HIDE DEF S
<1>4. \A k \in 0 .. Depth : k \in S
  BY <1>0, <1>2, <1>3, InductionUpTo
<1> QED BY <1>4 DEF S, f

\* A unit that is settled can be read.
LEMMA UnitIsRead ==
    ASSUME NEW ws, NEW fs, AllFinished(ws, fs), NEW m, IsModel(m, ws, fs), NEW r \in DOMAIN fs, Settled(m, r),
           NEW reality \in Realities(ws), r.root \in STRING
    PROVE  UnitRead(ws, fs, reality, r.root, LevelsOf(m, r))
<1> DEFINE f == LevelsOf(m, r)
<1>0. Depth \in Nat
  BY DepthAssumption
<1>1. m.w = ws /\ m.files = fs
  BY DEF IsModel
<1>2. \A k \in 0 .. Depth : \A c \in f[k] : c \in DOMAIN fs /\ c.root = r.root
  BY <1>1, LevelsHold
<1>3. ASSUME NEW k \in 0 .. Depth, NEW c \in f[k], NEW i \in 1 .. Len(ws.text[c.file]) PROVE LineSettled(ws, c, fs[c], i)
  <2>1. c \in Unit(m, r)
    BY LevelsGrow
  <2>2. c \in DOMAIN fs
    BY <1>2
  <2>3. i \in DOMAIN NodesOf(m, c) /\ NodesOf(m, c)[i] = NodeAt(ws, c, fs[c], i)
    BY <2>2 DEF IsModel
  <2> QED BY <1>1, <2>1, <2>3 DEF Settled, LineSettled
<1>4. ASSUME NEW k \in 0 .. Depth, k # Depth, NEW c \in f[k], NEW e \in Range(fs[c].includes), e.to # None
      PROVE  e.to \in f[k + 1]
  <2>1. k + 1 \in 1 .. Depth /\ (k + 1) - 1 = k
    BY <1>0, <1>4
  <2>2. f[k + 1] = NextLevel(m, f[k])
    BY <2>1, LevelSteps
  <2> QED BY <1>1, <1>4, <2>2 DEF NextLevel
<1> HIDE DEF f
<1> QED BY <1>2, <1>3, <1>4 DEF UnitRead, AllFinished, f

\* The text of a root and what the linter sees of it.
UnitIsText(ws, m, r, reality) ==
    LET text == Text(ws, reality, r.file)
        seen == Seen(m, r)
    IN  ~text.endless =>
            /\ {s.item : s \in {s \in seen : ~s.node.inactive /\ ~s.node.uncertain}} \subseteq text.items
            /\ text.items \subseteq {s.item : s \in {s \in seen : ~s.node.inactive}}

LEMMA UnitText ==
    ASSUME NEW ws, NEW fs, AllFinished(ws, fs), NoneElsewhere(ws), Elsewhere \cup {Compiler} \subseteq STRING,
           NEW m, IsModel(m, ws, fs), IsClosed(m),
           NEW r \in DOMAIN fs, r = RootContext(ws, r.file), Settled(m, r), NEW reality \in Realities(ws)
    PROVE  UnitIsText(ws, m, r, reality)
<1> DEFINE within == LevelsOf(m, r)
           root == r.root
           texts == TextsOf(ws, reality, root)
           lines == LinesOf(m)
           names == ws.defines \cup reality.extra \cup {Compiler}
<1>0. Depth \in Nat /\ Depth \in 0 .. Depth /\ Depth - Depth = 0
  BY DepthAssumption
<1>1. IsWorkspace(ws) /\ r \in Contexts(ws)
  BY DEF AllFinished
<1>2. root \in STRING /\ root = ws.dir[r.file] /\ r.environment = ws.defines
  <2>1. r.root \in STRING
    BY <1>1 DEF Contexts
  <2>2. RootContext(ws, r.file).root = ws.dir[r.file] /\ RootContext(ws, r.file).environment = ws.defines
    BY DEF RootContext, Context
  <2> QED BY <2>1, <2>2
<1>3. UnitRead(ws, fs, reality, root, within)
  BY <1>2, UnitIsRead
<1>4. AreRead(ws, reality, root, texts, Depth)
  BY <1>1, <1>2, TextsAreRead
<1>5. AreSeen(m, lines, Depth)
  BY LinesAreSeen
<1>6. r \in within[Depth - Depth]
  BY <1>0, LevelSteps
<1>7. Text(ws, reality, r.file) = texts[<<Depth, r.file, names>>]
  BY <1>2 DEF Text, TextsOf
<1>8. Seen(m, r) = lines[<<Depth, r>>]
  BY DEF Seen, LinesOf
<1>9. Starts(r, names, reality)
  <2>1. ws.defines \in SUBSET STRING /\ Compiler \in STRING
    <3>1. ws.defines \in SUBSET (STRING \ {Compiler})
      BY ONLY <1>1 DEF IsWorkspace
    <3>2. Compiler \in STRING
      OBVIOUS
    <3>3. ws.defines \subseteq STRING
      BY ONLY <3>1
    <3> QED BY ONLY <3>2, <3>3
  <2>2. reality.extra \in SUBSET STRING
    BY RealityIs
  <2>3. NewDefineContext(r.environment) = ws.defines \cup {Compiler}
    BY <1>2 DEF NewDefineContext
  <2> QED BY <2>1, <2>2, <2>3 DEF Starts, NamesNear
<1> HIDE DEF within, root, texts, lines, names
<1>10. SeenNear(reality, texts, lines, Depth, r)
  BY <1>0, <1>3, <1>4, <1>5, <1>6, AllSeen
<1>11. ~texts[<<Depth, r.file, names>>].endless =>
          LET items == texts[<<Depth, r.file, names>>].items IN
          /\ \A s \in lines[<<Depth, r>>] : ~s.node.inactive /\ ~s.node.uncertain => s.item \in items
          /\ \A item \in items : \E s \in lines[<<Depth, r>>] : ~s.node.inactive /\ s.item = item
  BY <1>9, <1>10 DEF SeenNear
<1> QED BY <1>7, <1>8, <1>11 DEF UnitIsText

\* When all is resolved, all contexts are finished and the model is that of their walks.
LEMMA ResolvedIs ==
    ASSUME IInv, Resolved
    PROVE  AllFinished(w, files) /\ IsModel(model, w, files) /\ IsClosed(model)
<1>1. IsWorkspace(w) /\ None \notin Contexts(w) /\ DOMAIN files \subseteq Contexts(w)
  BY GivenIs DEF IInv, IncludesHold, ShapesHold
<1>2. \A c \in DOMAIN files : IsFinished(w, files, c)
  <2>1. \A c : ~AtRest(roots, c) /\ ~OnStack(stack, c)
    BY DEF Resolved, AtRest, OnStack
  <2> QED BY <2>1 DEF IInv, IncludesHold, FilesHold
<1>3. AllFinished(w, files)
  BY <1>1, <1>2 DEF AllFinished
<1>4. model.w = w /\ model.files = files /\ \A c \in DOMAIN files : NodesOf(model, c) = WalkOf(w, c, files[c]).nodes
  BY DEF model, NodesOf
<1> HIDE DEF model
<1>5. ASSUME NEW c \in DOMAIN files
      PROVE  /\ DOMAIN NodesOf(model, c) = 1 .. Len(w.text[c.file])
             /\ \A i \in 1 .. Len(w.text[c.file]) : NodesOf(model, c)[i] = NodeAt(w, c, files[c], i)
  <2>1. Len(w.text[c.file]) \in Nat
    BY <1>1, TextsAre
  <2> QED BY <1>4, <2>1, WalkNodes DEF WalkOf, NodeAt, StateAt
<1>6. IsModel(model, w, files)
  BY <1>4, <1>5 DEF IsModel
<1>7. IsClosed(model)
  BY <1>3, <1>4, Leads DEF IsClosed
<1> QED BY <1>3, <1>6, <1>7

LEMMA RootsAre ==
    ASSUME IInv, Resolved, NEW r \in Roots
    PROVE  r \in DOMAIN files /\ r = RootContext(w, r.file)
<1>1. r \in Range(ProvidedContexts(model))
  BY DEF Roots, unitRoots
<1>2. model.w = w
  BY DEF model
<1> HIDE DEF model
<1>3. PICK i \in DOMAIN w.provided : r = RootContext(w, w.provided[i])
  BY <1>1, <1>2 DEF ProvidedContexts, Range
<1>4. r \in DOMAIN files
  BY <1>3 DEF IInv, ProvidedHold
<1>5. RootContext(w, w.provided[i]).file = w.provided[i]
  BY DEF RootContext, Context
<1> QED BY <1>3, <1>4, <1>5

LEMMA UnitsRead == IInv => UnitsAreTexts
<1> SUFFICES ASSUME IInv, Resolved, NEW r \in Roots, Settled(model, r), NEW reality \in Realities(w)
             PROVE  UnitIsText(w, model, r, reality)
  BY DEF UnitsAreTexts, UnitIsText
<1>1. AllFinished(w, files) /\ IsModel(model, w, files) /\ IsClosed(model)
  BY ResolvedIs
<1>2. r \in DOMAIN files /\ r = RootContext(w, r.file)
  BY RootsAre
<1>3. NoneElsewhere(w) /\ Elsewhere \cup {Compiler} \subseteq STRING
  BY ElsewhereAssumption DEF IInv, IsGiven, NoneElsewhere
<1> QED BY <1>1, <1>2, <1>3, UnitText

\* Every unit whose text the linter can know is read as the compiler reads it, whatever the
\* workspaces are and however deep their includes nest.
THEOREM UnitsAlwaysTexts == Spec => []UnitsAreTexts
BY Inductive, UnitsRead, PTL
=============================================================================
