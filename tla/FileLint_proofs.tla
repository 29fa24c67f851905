--------------------------- MODULE FileLint_proofs ---------------------------
(***************************************************************************)
(* What holds of every lint of a file, for all rules, disks, flags,        *)
(* comments, findings and programs.                                        *)
(*                                                                         *)
(* First the directives of every text and the matcher on them.  Parsing,   *)
(* the matcher's stacks, taking directives out and counting reports are    *)
(* recursive functions: that they are what their recursion says is shown   *)
(* first, then what it comes to.  A stack holds the disables that no       *)
(* enable pairs with (OpenIsLeftOpen), and taking out directives that do   *)
(* nothing to it leaves it as high as it was (RestOpens).                  *)
(*                                                                         *)
(* Then the programs, and the lint as a whole; loading and the collected   *)
(* answers are recursive functions too.                                    *)
(***************************************************************************)
EXTENDS FileLint, Settings_proofs

\* A function whose values are found one after the other exists.
IsStep(N, V, a, F) == N \in Nat /\ a \in V /\ F \in [(1 .. N) \X V -> V]
Stepped(N, V, a, F) ==
    {f \in [0 .. N -> V] : f[0] = a /\ \A n \in 1 .. N : f[n] = F[<<n, f[n - 1]>>]}

LEMMA Stepwise ==
    ASSUME NEW N, NEW V, NEW a, NEW F, IsStep(N, V, a, F)
    PROVE  \E f : f \in Stepped(N, V, a, F)
<1>0. N \in Nat /\ a \in V /\ F \in [(1 .. N) \X V -> V]
  BY DEF IsStep
<1> SUFFICES ASSUME N \in Nat, a \in V, F \in [(1 .. N) \X V -> V]
             PROVE  \E f \in [0 .. N -> V] :
                       f[0] = a /\ \A n \in 1 .. N : f[n] = F[<<n, f[n - 1]>>]
  BY <1>0 DEF Stepped
<1> DEFINE S == {m \in Nat : m <= N => \E f \in [0 .. m -> V] :
                    f[0] = a /\ \A n \in 1 .. m : f[n] = F[<<n, f[n - 1]>>]}
<1>1. 0 \in S
  <2> DEFINE f0 == [n \in 0 .. 0 |-> a]
  <2>1. f0 \in [0 .. 0 -> V] /\ f0[0] = a /\ \A n \in 1 .. 0 : f0[n] = F[<<n, f0[n - 1]>>]
    OBVIOUS
  <2> QED BY <2>1
<1>2. ASSUME NEW m \in S PROVE m + 1 \in S
  <2> SUFFICES ASSUME m + 1 <= N
               PROVE  \E f \in [0 .. m + 1 -> V] :
                        f[0] = a /\ \A n \in 1 .. m + 1 : f[n] = F[<<n, f[n - 1]>>]
    OBVIOUS
  <2>1. PICK f \in [0 .. m -> V] : f[0] = a /\ \A n \in 1 .. m : f[n] = F[<<n, f[n - 1]>>]
    OBVIOUS
  <2> DEFINE g == [n \in 0 .. m + 1 |-> IF n <= m THEN f[n] ELSE F[<<m + 1, f[m]>>]]
  <2>2. F[<<m + 1, f[m]>>] \in V
    OBVIOUS
  <2>3. g \in [0 .. m + 1 -> V]
    BY <2>2
  <2>4. g[0] = a
    BY <2>1
  <2>5. ASSUME NEW n \in 1 .. m + 1 PROVE g[n] = F[<<n, g[n - 1]>>]
    <3>1. m \in Nat /\ g[n - 1] = f[n - 1]
      OBVIOUS
    <3>2. CASE n \in 1 .. m
      <4>1. g[n] = f[n]
        BY <3>1, <3>2
      <4> HIDE DEF g, S
      <4> QED BY <2>1, <3>1, <3>2, <4>1
    <3>3. CASE n = m + 1
      <4>1. g[n] = F[<<m + 1, f[m]>>] /\ n - 1 = m
        BY <3>1, <3>3
      <4> HIDE DEF g, S
      <4> QED BY <3>1, <3>3, <4>1
    <3> QED BY <3>1, <3>2, <3>3
  <2> HIDE DEF g
  <2> QED BY <2>3, <2>4, <2>5
<1>3. N \in S
  <2>1. S \in SUBSET Nat
    OBVIOUS
  <2> HIDE DEF S
  <2> QED BY <1>1, <1>2, <2>1, Induction
<1> QED BY <1>3

\* Functions that go on alike are the same.
Alike(N, f, g) == f[0] = g[0] /\ \A n \in 1 .. N : f[n - 1] = g[n - 1] => f[n] = g[n]
Same(N, f, g) == \A n \in 0 .. N : f[n] = g[n]

LEMMA SameSteps ==
    ASSUME NEW N \in Nat, NEW f, NEW g, Alike(N, f, g)
    PROVE  Same(N, f, g)
<1> USE DEF Alike, Same
<1> DEFINE S == {n \in Nat : n <= N => f[n] = g[n]}
<1>1. 0 \in S
  OBVIOUS
<1>2. ASSUME NEW n \in S PROVE n + 1 \in S
  <2> SUFFICES ASSUME n + 1 <= N PROVE f[n + 1] = g[n + 1]
    OBVIOUS
  <2>1. n + 1 \in 1 .. N /\ f[(n + 1) - 1] = g[(n + 1) - 1]
    OBVIOUS
  <2> QED BY <2>1
<1>3. S = Nat
  <2>1. S \in SUBSET Nat
    OBVIOUS
  <2> HIDE DEF S
  <2> QED BY <1>1, <1>2, <2>1, Induction
<1> QED BY <1>3

-----------------------------------------------------------------------------
\* What a directive does with the stack of an id.
Acts(d, line, k, i, kind) == d[i].line <= line /\ k \in d[i].names /\ d[i].kind = kind
Moved(d, line, k, i, s) ==
    IF Acts(d, line, k, i, "disable") THEN Append(s, i)
    ELSE IF Acts(d, line, k, i, "enable") THEN Pop(s) ELSE s

\* The stack of an id after each directive.
Opening(d, line, k) ==
    {f \in [0 .. Len(d) -> Seq(Nat)] :
        /\ Open(d, line, k) = f[Len(d)] /\ f[0] = <<>>
        /\ \A i \in 1 .. Len(d) : f[i] = Moved(d, line, k, i, f[i - 1])}

LEMMA OpenSteps ==
    ASSUME NEW d, NEW line, NEW k, Len(d) \in Nat
    PROVE  \E f : f \in Opening(d, line, k)
<1> DEFINE F == [c \in (1 .. Len(d)) \X Seq(Nat) |-> Moved(d, line, k, c[1], c[2])]
           after[i \in 0 .. Len(d)] ==
               IF i = 0 THEN <<>> ELSE Moved(d, line, k, i, after[i - 1])
<1>1. F \in [(1 .. Len(d)) \X Seq(Nat) -> Seq(Nat)]
  <2>1. ASSUME NEW s \in Seq(Nat), NEW i \in Nat PROVE Moved(d, line, k, i, s) \in Seq(Nat)
    BY DEF Moved, Pop
  <2> QED BY <2>1
<1>2. PICK f : f \in Stepped(Len(d), Seq(Nat), <<>>, F)
  <2>1. IsStep(Len(d), Seq(Nat), <<>>, F)
    <3>1. <<>> \in Seq(Nat)
      OBVIOUS
    <3> HIDE DEF F
    <3> QED BY <1>1, <3>1 DEF IsStep
  <2> HIDE DEF F
  <2> QED BY <2>1, Stepwise
<1>3. ASSUME NEW i \in 1 .. Len(d)
      PROVE  f[i] = Moved(d, line, k, i, f[i - 1])
  <2>1. i - 1 \in 0 .. Len(d) /\ f[i - 1] \in Seq(Nat)
    BY <1>2 DEF Stepped
  <2> QED BY <1>2, <2>1 DEF Stepped
<1> HIDE DEF F
<1>4. after = [i \in 0 .. Len(d) |-> IF i = 0 THEN <<>> ELSE Moved(d, line, k, i, after[i - 1])]
  <2>1. f = [i \in 0 .. Len(d) |-> IF i = 0 THEN <<>> ELSE Moved(d, line, k, i, f[i - 1])]
    BY <1>2, <1>3 DEF Stepped
  <2> QED BY <2>1
<1>5. Open(d, line, k) = after[Len(d)]
  BY DEF Open, Acts, Moved
<1> HIDE DEF after
<1>6. Same(Len(d), after, f)
  <2>1. after[0] = f[0]
    BY <1>2, <1>4 DEF Stepped
  <2>2. \A i \in 1 .. Len(d) : after[i - 1] = f[i - 1] => after[i] = f[i]
    BY <1>3, <1>4
  <2>3. Alike(Len(d), after, f)
    BY <2>1, <2>2 DEF Alike
  <2> QED BY <2>3, SameSteps
<1>7. Open(d, line, k) = f[Len(d)]
  BY <1>5, <1>6 DEF Same
<1> QED BY <1>2, <1>3, <1>7 DEF Stepped, Opening

\* How many directives act on the stack of an id after i and up to j.
Acting(line, k, kind, i, j) == Cardinality({n \in i + 1 .. j : Acts(ds, line, k, n, kind)})

LEMMA ActingSteps ==
    ASSUME NEW line, NEW k, NEW kind, NEW i \in Nat, NEW j \in Nat, i <= j
    PROVE  /\ Acting(line, k, kind, i, j) \in Nat
           /\ Acting(line, k, kind, i, i) = 0
           /\ Acting(line, k, kind, i, j + 1) =
                 Acting(line, k, kind, i, j) + (IF Acts(ds, line, k, j + 1, kind) THEN 1 ELSE 0)
<1> DEFINE S(m) == {n \in i + 1 .. m : Acts(ds, line, k, n, kind)}
<1>1. IsFiniteSet(S(j)) /\ Cardinality(S(j)) \in Nat
  <2>1. IsFiniteSet(i + 1 .. j) /\ S(j) \subseteq i + 1 .. j
    BY FS_Interval
  <2> QED BY <2>1, FS_Subset, FS_CardinalityType
<1>2. S(i) = {}
  OBVIOUS
<1>3. j + 1 \notin S(j)
  OBVIOUS
<1>4. CASE Acts(ds, line, k, j + 1, kind)
  <2>1. S(j + 1) = S(j) \cup {j + 1}
    BY <1>4
  <2>2. Cardinality(S(j + 1)) = Cardinality(S(j)) + 1
    <3> HIDE DEF S
    <3> QED BY <1>1, <1>3, <2>1, FS_AddElement
  <2> QED BY <1>1, <1>2, <1>4, <2>2, FS_EmptySet DEF Acting
<1>5. CASE ~Acts(ds, line, k, j + 1, kind)
  <2>1. S(j + 1) = S(j)
    <3>1. ASSUME NEW n \in i + 1 .. j + 1, Acts(ds, line, k, n, kind) PROVE n \in i + 1 .. j
      <4>1. n # j + 1
        BY <1>5, <3>1
      <4> QED BY <4>1
    <3>2. i + 1 .. j \subseteq i + 1 .. j + 1
      OBVIOUS
    <3> QED BY <3>1, <3>2
  <2> QED BY <1>1, <1>2, <1>5, <2>1, FS_EmptySet DEF Acting
<1> QED BY <1>4, <1>5

\* Disables that no later directive closes, up to i: what brackets that pair leave open.
LeftOpen(line, k, i) ==
    {m \in 1 .. i : /\ Acts(ds, line, k, m, "disable")
                    /\ \A j \in m + 1 .. i :
                          Acting(line, k, "enable", m, j) <= Acting(line, k, "disable", m, j)}

\* The stack holds them, and above each of them as many as are open since.
Paired(line, k, i, s) ==
    /\ Elements(s) = LeftOpen(line, k, i)
    /\ \A p \in 1 .. Len(s) :
          Acting(line, k, "disable", s[p], i) = Acting(line, k, "enable", s[p], i) + Len(s) - p

LEMMA PairStep ==
    ASSUME NEW line, NEW k, NEW i \in Nat, NEW s \in Seq(Nat), Paired(line, k, i, s)
    PROVE  Paired(line, k, i + 1, Moved(ds, line, k, i + 1, s))
<1> DEFINE D(m, j) == Acting(line, k, "disable", m, j)
           E(m, j) == Acting(line, k, "enable", m, j)
           off == Acts(ds, line, k, i + 1, "disable")
           on == Acts(ds, line, k, i + 1, "enable")
           t == Moved(ds, line, k, i + 1, s)
<1>1. ~(off /\ on)
  BY DEF Acts
<1>2. ASSUME NEW m \in 1 .. i
      PROVE  /\ D(m, i) \in Nat /\ E(m, i) \in Nat
             /\ D(m, i + 1) = D(m, i) + (IF off THEN 1 ELSE 0)
             /\ E(m, i + 1) = E(m, i) + (IF on THEN 1 ELSE 0)
  <2>1. m \in Nat /\ m <= i
    OBVIOUS
  <2>2. D(m, i) \in Nat /\ D(m, i + 1) = D(m, i) + (IF off THEN 1 ELSE 0)
    BY <2>1, ActingSteps
  <2>3. E(m, i) \in Nat /\ E(m, i + 1) = E(m, i) + (IF on THEN 1 ELSE 0)
    BY <2>1, ActingSteps
  <2> QED BY <2>2, <2>3
<1>3. D(i + 1, i + 1) = 0 /\ E(i + 1, i + 1) = 0
  BY ActingSteps
<1>4. ASSUME NEW p \in 1 .. Len(s)
      PROVE  s[p] \in 1 .. i /\ D(s[p], i) = E(s[p], i) + Len(s) - p
  BY DEF Paired, Elements, LeftOpen
<1>5. ASSUME NEW m \in LeftOpen(line, k, i) PROVE \E p \in 1 .. Len(s) : m = s[p]
  BY DEF Paired, Elements
<1>6. LeftOpen(line, k, i + 1) =
         {m \in LeftOpen(line, k, i) : E(m, i + 1) <= D(m, i + 1)}
            \cup (IF off THEN {i + 1} ELSE {})
  <2>1. ASSUME NEW m \in 1 .. i
        PROVE  m \in LeftOpen(line, k, i + 1) <=>
                  m \in LeftOpen(line, k, i) /\ E(m, i + 1) <= D(m, i + 1)
    <3>1. (m + 1) .. (i + 1) = ((m + 1) .. i) \cup {i + 1}
      OBVIOUS
    <3> QED BY <3>1 DEF LeftOpen
  <2>2. i + 1 \in LeftOpen(line, k, i + 1) <=> off
    BY DEF LeftOpen
  <2>3. LeftOpen(line, k, i + 1) \subseteq 1 .. i + 1 /\ LeftOpen(line, k, i) \subseteq 1 .. i
    BY DEF LeftOpen
  <2>4. 1 .. i + 1 = (1 .. i) \cup {i + 1}
    OBVIOUS
  <2> HIDE DEF off, E, D
  <2> QED BY <2>1, <2>2, <2>3, <2>4
<1> HIDE DEF D, E, off, on
<1>7. CASE off
  <2>1. /\ t = Append(s, i + 1) /\ Len(t) = Len(s) + 1 /\ DOMAIN t = 1 .. Len(s) + 1
        /\ t[Len(s) + 1] = i + 1
        /\ \A p \in 1 .. Len(s) : t[p] = s[p]
    <3>1. t = Append(s, i + 1)
      BY <1>7 DEF Moved, off
    <3> HIDE DEF t
    <3> QED BY <3>1
  <2> HIDE DEF t
  <2>2. \A m \in LeftOpen(line, k, i) : E(m, i + 1) <= D(m, i + 1)
    <3>1. ASSUME NEW p \in 1 .. Len(s) PROVE E(s[p], i + 1) <= D(s[p], i + 1)
      BY <1>1, <1>2, <1>4, <1>7
    <3> QED BY <1>5, <3>1
  <2>3. LeftOpen(line, k, i + 1) = LeftOpen(line, k, i) \cup {i + 1}
    BY <1>6, <1>7, <2>2
  <2>4. Elements(t) = Elements(s) \cup {i + 1}
    <3>1. DOMAIN s = 1 .. Len(s) /\ 1 .. Len(s) + 1 = (1 .. Len(s)) \cup {Len(s) + 1}
      OBVIOUS
    <3> QED BY <2>1, <3>1 DEF Elements
  <2>5. ASSUME NEW p \in 1 .. Len(t) PROVE D(t[p], i + 1) = E(t[p], i + 1) + Len(t) - p
    <3>1. CASE p = Len(s) + 1
      BY <1>3, <2>1, <3>1
    <3>2. CASE p \in 1 .. Len(s)
      <4>1. t[p] = s[p] /\ s[p] \in 1 .. i
        BY <1>4, <2>1, <3>2
      <4>2. D(s[p], i + 1) = D(s[p], i) + 1 /\ E(s[p], i + 1) = E(s[p], i)
            /\ D(s[p], i) \in Nat /\ E(s[p], i) \in Nat
        BY <1>1, <1>2, <1>7, <4>1
      <4> QED BY <1>4, <2>1, <3>2, <4>1, <4>2
    <3> QED BY <2>1, <3>1, <3>2
  <2> QED BY <2>3, <2>4, <2>5 DEF Paired, D, E, t
<1>8. CASE on
  <2>1. t = Pop(s)
    BY <1>1, <1>8 DEF Moved, off, on
  <2>2. CASE s = <<>>
    <3>1. LeftOpen(line, k, i) = {}
      BY <1>5, <2>2
    <3>2. t = <<>> /\ LeftOpen(line, k, i + 1) = {}
      BY <1>1, <1>6, <1>8, <2>1, <2>2, <3>1 DEF Pop
    <3> QED BY <3>2 DEF Paired, Elements
  <2>3. CASE s # <<>>
    <3>1. /\ Len(s) > 0 /\ Len(t) = Len(s) - 1
          /\ \A p \in 1 .. Len(s) - 1 : t[p] = s[p]
          /\ DOMAIN t = 1 .. Len(s) - 1
      BY <2>1, <2>3 DEF Pop
    <3>2. ASSUME NEW p \in 1 .. Len(s)
          PROVE  /\ D(s[p], i + 1) = E(s[p], i + 1) + (Len(s) - 1) - p
                 /\ E(s[p], i + 1) <= D(s[p], i + 1) <=> p <= Len(s) - 1
      <4>1. D(s[p], i + 1) = D(s[p], i) /\ E(s[p], i + 1) = E(s[p], i) + 1
            /\ D(s[p], i) \in Nat /\ E(s[p], i) \in Nat
        BY <1>1, <1>2, <1>4, <1>8
      <4>2. D(s[p], i) = E(s[p], i) + Len(s) - p /\ Len(s) \in Nat /\ p \in Nat
        BY <1>4
      <4>3. D(s[p], i + 1) \in Nat /\ E(s[p], i + 1) \in Nat
        BY <4>1
      <4>4. D(s[p], i + 1) = E(s[p], i + 1) + (Len(s) - 1) - p
        BY <4>1, <4>2
      <4> QED BY <4>2, <4>3, <4>4
    <3>3. ASSUME NEW m
          PROVE  m \in Elements(t) <=> m \in LeftOpen(line, k, i + 1)
      <4>1. ASSUME m \in Elements(t) PROVE m \in LeftOpen(line, k, i + 1)
        <5>1. PICK p \in 1 .. Len(s) - 1 : m = s[p]
          BY <3>1, <4>1 DEF Elements
        <5>2. m \in LeftOpen(line, k, i)
          BY <5>1 DEF Paired, Elements
        <5> QED BY <1>6, <3>2, <5>1, <5>2
      <4>2. ASSUME m \in LeftOpen(line, k, i + 1) PROVE m \in Elements(t)
        <5>1. m \in LeftOpen(line, k, i) /\ E(m, i + 1) <= D(m, i + 1)
          BY <1>1, <1>6, <1>8, <4>2
        <5>2. PICK p \in 1 .. Len(s) : m = s[p]
          BY <1>5, <5>1
        <5>3. p \in 1 .. Len(s) - 1
          BY <3>2, <5>1, <5>2
        <5> QED BY <3>1, <5>2, <5>3 DEF Elements
      <4> QED BY <4>1, <4>2
    <3>4. ASSUME NEW p \in 1 .. Len(t) PROVE D(t[p], i + 1) = E(t[p], i + 1) + Len(t) - p
      <4>1. p \in 1 .. Len(s) /\ t[p] = s[p]
        BY <3>1
      <4>2. D(s[p], i + 1) = E(s[p], i + 1) + (Len(s) - 1) - p
        BY <3>2, <4>1
      <4> QED BY <3>1, <4>1, <4>2
    <3> QED BY <3>3, <3>4 DEF Paired, D, E
  <2> QED BY <2>2, <2>3
<1>9. CASE ~off /\ ~on
  <2>1. t = s
    BY <1>9 DEF Moved, off, on
  <2>2. ASSUME NEW p \in 1 .. Len(s)
        PROVE  D(s[p], i + 1) = E(s[p], i + 1) + Len(s) - p /\ E(s[p], i + 1) <= D(s[p], i + 1)
    BY <1>2, <1>4, <1>9
  <2>3. LeftOpen(line, k, i + 1) = LeftOpen(line, k, i)
    BY <1>5, <1>6, <1>9, <2>2
  <2> QED BY <2>1, <2>2, <2>3 DEF Paired, D, E
<1> QED BY <1>7, <1>8, <1>9

\* Directives in the order of the text, each of a known kind.
InOrder(d) ==
    /\ IsSeq(d)
    /\ \A i \in DOMAIN d : d[i].line \in Nat
    /\ \A i, j \in DOMAIN d : i <= j => d[i].line <= d[j].line

LEMMA OpenIsLeftOpen ==
    ASSUME NEW line, NEW k, Len(ds) \in Nat
    PROVE  Elements(Open(ds, line, k)) = LeftOpen(line, k, Len(ds))
<1>1. PICK f : f \in Opening(ds, line, k)
  BY OpenSteps
<1> USE DEF Opening
<1> DEFINE S == {i \in Nat : i <= Len(ds) => Paired(line, k, i, f[i])}
<1>2. 0 \in S
  <2>1. Elements(<<>>) = {} /\ LeftOpen(line, k, 0) = {}
    BY DEF Elements, LeftOpen
  <2>2. \A p \in 1 .. Len(<<>>) : FALSE
    OBVIOUS
  <2>3. Paired(line, k, 0, <<>>)
    BY <2>1, <2>2 DEF Paired
  <2> QED BY <1>1, <2>3
<1>3. ASSUME NEW i \in S PROVE i + 1 \in S
  <2> SUFFICES ASSUME i + 1 <= Len(ds) PROVE Paired(line, k, i + 1, f[i + 1])
    OBVIOUS
  <2>1. i \in Nat /\ i + 1 \in 1 .. Len(ds) /\ f[i] \in Seq(Nat) /\ Paired(line, k, i, f[i])
    BY <1>1
  <2>2. f[i + 1] = Moved(ds, line, k, i + 1, f[i])
    BY <1>1, <2>1
  <2> HIDE DEF S
  <2> QED BY <2>1, <2>2, PairStep
<1>4. S = Nat
  <2>1. S \in SUBSET Nat
    OBVIOUS
  <2> HIDE DEF S
  <2> QED BY <1>2, <1>3, <2>1, Induction
<1> QED BY <1>1, <1>4 DEF Paired

\* As no directive comes before one of an earlier line, counting those on the lines that
\* are looked at is counting them all.
LEMMA OrderedPair ==
    ASSUME InOrder(ds)
    PROVE  StacksPair
<1> SUFFICES ASSUME NEW line \in Lines(ds), NEW k \in NamesIn(ds)
             PROVE  Elements(Open(ds, line, k)) =
                        {i \in DOMAIN ds :
                            /\ ds[i].kind = "disable" /\ k \in ds[i].names /\ ds[i].line <= line
                            /\ \A j \in i + 1 .. Len(ds) :
                                  ds[j].line <= line
                                      => Between("enable", k, i, j) <= Between("disable", k, i, j)}
  BY DEF StacksPair
<1> DEFINE N == Len(ds)
<1>1. N \in Nat /\ DOMAIN ds = 1 .. N /\ line \in Nat
  BY DEF InOrder, IsSeq, Lines
<1>2. ASSUME NEW i \in 1 .. N, NEW j \in i + 1 .. N, NEW kind, ds[j].line <= line
      PROVE  Acting(line, k, kind, i, j) = Between(kind, k, i, j)
  <2>1. ASSUME NEW n \in i + 1 .. j PROVE ds[n].line <= line
    <3>1. n \in 1 .. N /\ j \in 1 .. N /\ n <= j
      BY <1>1
    <3>2. ds[n].line \in Nat /\ ds[j].line \in Nat /\ ds[n].line <= ds[j].line
      BY <1>1, <3>1 DEF InOrder
    <3> QED BY <1>1, <1>2, <3>2
  <2>2. {n \in i + 1 .. j : Acts(ds, line, k, n, kind)} =
           {n \in i + 1 .. j : ds[n].kind = kind /\ k \in ds[n].names}
    BY <2>1 DEF Acts
  <2> QED BY <2>2 DEF Acting, Between
<1>3. ASSUME NEW i \in 1 .. N
      PROVE  (\A j \in i + 1 .. N :
                 ds[j].line <= line
                     => Between("enable", k, i, j) <= Between("disable", k, i, j))
             <=> (\A j \in i + 1 .. N :
                     Acting(line, k, "enable", i, j) <= Acting(line, k, "disable", i, j))
  <2> DEFINE E(j) == Acting(line, k, "enable", i, j)
             D(j) == Acting(line, k, "disable", i, j)
  <2>1. ASSUME \A j \in i + 1 .. N : ds[j].line <= line => E(j) <= D(j)
        PROVE  \A j \in i + 1 .. N : E(j) <= D(j)
    <3> DEFINE S == {j \in Nat : j \in i .. N => E(j) <= D(j)}
    <3>1. 0 \in S
      <4>1. ~(0 \in i .. N)
        BY <1>1
      <4> QED BY <4>1
    <3>2. ASSUME NEW j \in S PROVE j + 1 \in S
      <4>1. CASE j + 1 \in i + 1 .. N /\ ds[j + 1].line <= line
        BY <2>1, <4>1
      <4>2. CASE j + 1 \in i + 1 .. N /\ ~(ds[j + 1].line <= line)
        <5>1. ~Acts(ds, line, k, j + 1, "enable") /\ ~Acts(ds, line, k, j + 1, "disable")
          BY <4>2 DEF Acts
        <5>2. i \in Nat /\ j \in Nat /\ i <= j /\ j \in i .. N
          BY <1>1, <4>2
        <5>3. E(j + 1) = E(j)
          <6>1. E(j) \in Nat /\ E(j + 1) = E(j) + 0
            BY <5>1, <5>2, ActingSteps
          <6> QED BY <6>1
        <5>4. D(j + 1) = D(j)
          <6>1. D(j) \in Nat /\ D(j + 1) = D(j) + 0
            BY <5>1, <5>2, ActingSteps
          <6> QED BY <6>1
        <5> QED BY <5>2, <5>3, <5>4
      <4>3. CASE j + 1 = i
        <5>1. E(i) = 0 /\ D(i) = 0
          BY <1>1, ActingSteps
        <5> QED BY <4>3, <5>1
      <4>4. CASE ~(j + 1 \in i .. N)
        BY <4>4
      <4> QED BY <1>1, <4>1, <4>2, <4>3, <4>4
    <3>3. S = Nat
      <4>1. S \in SUBSET Nat
        OBVIOUS
      <4> HIDE DEF S
      <4> QED BY <3>1, <3>2, <4>1, Induction
    <3> QED BY <1>1, <3>3
  <2>2. \A j \in i + 1 .. N : ds[j].line <= line =>
           Between("enable", k, i, j) = E(j) /\ Between("disable", k, i, j) = D(j)
    BY <1>2
  <2> HIDE DEF E, D
  <2> QED BY <2>1, <2>2 DEF E, D
<1>4. Elements(Open(ds, line, k)) = LeftOpen(line, k, N)
  BY <1>1, OpenIsLeftOpen
<1> QED BY <1>1, <1>3, <1>4 DEF LeftOpen, Acts

-----------------------------------------------------------------------------
\* What a line of a comment that looks like a directive becomes.
Made(c, n) == [line |-> c.line, kind |-> KindOf(c.lines[n].action), names |-> Listed(c.lines[n].ids)]
MadeOf(c) == {Made(c, n) : n \in DOMAIN c.lines}
Read(c, n, s) == IF KindOf(c.lines[n].action) = None THEN s ELSE Append(s, Made(c, n))

LEMMA ParsedType ==
    ASSUME NEW c, IsSeq(c.lines)
    PROVE  Parsed(c) \in Seq(MadeOf(c))
<1> DEFINE V == Seq(MadeOf(c))
           F == [x \in (1 .. Len(c.lines)) \X V |-> Read(c, x[1], x[2])]
           upTo[n \in 0 .. Len(c.lines)] == IF n = 0 THEN <<>> ELSE Read(c, n, upTo[n - 1])
<1>1. Len(c.lines) \in Nat /\ DOMAIN c.lines = 1 .. Len(c.lines)
  BY DEF IsSeq
<1>2. F \in [(1 .. Len(c.lines)) \X V -> V] /\ <<>> \in V
  <2>1. ASSUME NEW n \in 1 .. Len(c.lines), NEW s \in V PROVE Read(c, n, s) \in V
    <3>1. Made(c, n) \in MadeOf(c)
      BY <1>1 DEF MadeOf
    <3> QED BY <3>1 DEF Read
  <2> QED BY <2>1
<1> HIDE DEF V
<1>3. PICK f : f \in Stepped(Len(c.lines), V, <<>>, F)
  <2> HIDE DEF F, V
  <2>1. IsStep(Len(c.lines), V, <<>>, F)
    BY <1>1, <1>2 DEF IsStep
  <2> QED BY <2>1, Stepwise
<1>4. ASSUME NEW n \in 1 .. Len(c.lines) PROVE f[n] = Read(c, n, f[n - 1])
  <2>1. n - 1 \in 0 .. Len(c.lines) /\ f[n - 1] \in V
    BY <1>1, <1>3 DEF Stepped
  <2> QED BY <1>3, <2>1 DEF Stepped
<1> HIDE DEF F
<1>5. upTo = [n \in 0 .. Len(c.lines) |-> IF n = 0 THEN <<>> ELSE Read(c, n, upTo[n - 1])]
  <2>1. f = [n \in 0 .. Len(c.lines) |-> IF n = 0 THEN <<>> ELSE Read(c, n, f[n - 1])]
    BY <1>3, <1>4 DEF Stepped
  <2> QED BY <2>1
<1>6. Parsed(c) = upTo[Len(c.lines)]
  BY DEF Parsed, Read, Made
<1> HIDE DEF upTo
<1>7. upTo[Len(c.lines)] = f[Len(c.lines)]
  <2>1. upTo[0] = f[0]
    BY <1>1, <1>3, <1>5 DEF Stepped
  <2>2. \A n \in 1 .. Len(c.lines) : upTo[n - 1] = f[n - 1] => upTo[n] = f[n]
    BY <1>1, <1>4, <1>5
  <2>3. Alike(Len(c.lines), upTo, f)
    BY <2>1, <2>2 DEF Alike
  <2>4. Same(Len(c.lines), upTo, f)
    BY <1>1, <2>3, SameSteps
  <2> QED BY <1>1, <2>4 DEF Same
<1>8. f[Len(c.lines)] \in V
  BY <1>1, <1>3 DEF Stepped
<1> QED BY <1>6, <1>7, <1>8 DEF V

Followed(cs, n, s) == s \o Parsed(cs[n])

\* The directives of a file are in the order of its comments.
LEMMA FromFileInOrder ==
    ASSUME NEW cs, IsSeq(cs),
           \A i \in DOMAIN cs : cs[i].line \in Nat /\ IsSeq(cs[i].lines),
           \A i, j \in DOMAIN cs : i <= j => cs[i].line <= cs[j].line
    PROVE  /\ InOrder(FromFile(cs))
           /\ FromFile(cs) \in Seq(UNION {MadeOf(cs[n]) : n \in DOMAIN cs})
<1> DEFINE V == Seq(UNION {MadeOf(cs[n]) : n \in DOMAIN cs})
           F == [x \in (1 .. Len(cs)) \X V |-> Followed(cs, x[1], x[2])]
           upTo[n \in 0 .. Len(cs)] == IF n = 0 THEN <<>> ELSE Followed(cs, n, upTo[n - 1])
<1>1. Len(cs) \in Nat /\ DOMAIN cs = 1 .. Len(cs)
  BY DEF IsSeq
<1>2. ASSUME NEW n \in 1 .. Len(cs)
      PROVE  /\ Parsed(cs[n]) \in V
             /\ \A i \in 1 .. Len(Parsed(cs[n])) : Parsed(cs[n])[i].line = cs[n].line
  <2>1. Parsed(cs[n]) \in Seq(MadeOf(cs[n]))
    BY <1>1, ParsedType
  <2>2. \A m \in MadeOf(cs[n]) : m.line = cs[n].line
    BY DEF MadeOf, Made
  <2>3. MadeOf(cs[n]) \subseteq UNION {MadeOf(cs[m]) : m \in DOMAIN cs}
    BY <1>1
  <2> QED BY <2>1, <2>2, <2>3
<1>3. F \in [(1 .. Len(cs)) \X V -> V] /\ <<>> \in V
  BY <1>2 DEF Followed
<1>4. PICK f : f \in Stepped(Len(cs), V, <<>>, F)
  <2> HIDE DEF F, V
  <2>1. IsStep(Len(cs), V, <<>>, F)
    BY <1>1, <1>3 DEF IsStep
  <2> QED BY <2>1, Stepwise
<1>5. ASSUME NEW n \in 1 .. Len(cs) PROVE f[n] = Followed(cs, n, f[n - 1])
  <2>1. n - 1 \in 0 .. Len(cs) /\ f[n - 1] \in V
    <3> HIDE DEF V
    <3> QED BY <1>1, <1>4 DEF Stepped
  <2> HIDE DEF V
  <2> QED BY <1>4, <2>1 DEF Stepped
<1> HIDE DEF F
<1>6. upTo = [n \in 0 .. Len(cs) |-> IF n = 0 THEN <<>> ELSE Followed(cs, n, upTo[n - 1])]
  <2>1. f = [n \in 0 .. Len(cs) |-> IF n = 0 THEN <<>> ELSE Followed(cs, n, f[n - 1])]
    <3> HIDE DEF V
    <3> QED BY <1>1, <1>4, <1>5 DEF Stepped
  <2> HIDE DEF V
  <2> QED BY <2>1
<1>7. FromFile(cs) = upTo[Len(cs)]
  BY DEF FromFile, Followed
<1> HIDE DEF upTo
<1>8. upTo[Len(cs)] = f[Len(cs)]
  <2>1. upTo[0] = f[0]
    BY <1>1, <1>4, <1>6 DEF Stepped
  <2>2. \A n \in 1 .. Len(cs) : upTo[n - 1] = f[n - 1] => upTo[n] = f[n]
    BY <1>1, <1>5, <1>6
  <2>3. Alike(Len(cs), upTo, f)
    BY <2>1, <2>2 DEF Alike
  <2>4. Same(Len(cs), upTo, f)
    BY <1>1, <2>3, SameSteps
  <2> QED BY <1>1, <2>4 DEF Same
<1> DEFINE Good(n) == /\ \A i \in 1 .. Len(f[n]) : \E m \in 1 .. n : f[n][i].line = cs[m].line
                      /\ \A i, j \in 1 .. Len(f[n]) : i <= j => f[n][i].line <= f[n][j].line
           S == {n \in Nat : n <= Len(cs) => Good(n)}
<1>9. 0 \in S
  <2>1. f[0] = <<>> /\ \A i \in 1 .. Len(<<>>) : FALSE
    BY <1>4 DEF Stepped
  <2> QED BY <2>1
<1>10. ASSUME NEW n \in S PROVE n + 1 \in S
  <2> SUFFICES ASSUME n + 1 <= Len(cs) PROVE Good(n + 1)
    OBVIOUS
  <2> DEFINE a == f[n]
             b == Parsed(cs[n + 1])
             u == f[n + 1]
  <2>1. n \in Nat /\ n + 1 \in 1 .. Len(cs) /\ Good(n)
    BY <1>1
  <2>2. a \in V /\ b \in V /\ u = a \o b
    <3>1. n \in 0 .. Len(cs) /\ (n + 1) - 1 = n
      BY <2>1
    <3>2. f[n + 1] = f[n] \o Parsed(cs[n + 1])
      <4> HIDE DEF S, V
      <4> QED BY <1>5, <2>1, <3>1 DEF Followed
    <3> HIDE DEF S, V
    <3>3. f[n] \in V
      BY <1>4, <3>1 DEF Stepped
    <3> QED BY <1>2, <2>1, <3>2, <3>3
  <2>3. /\ Len(a) \in Nat /\ Len(b) \in Nat /\ Len(u) = Len(a) + Len(b)
        /\ \A i \in 1 .. Len(u) : u[i] = IF i <= Len(a) THEN a[i] ELSE b[i - Len(a)]
    <3> HIDE DEF a, b, u
    <3> QED BY <2>2
  <2>4. \A i \in 1 .. Len(b) : b[i].line = cs[n + 1].line
    BY <1>2, <2>1
  <2>5. ASSUME NEW i \in 1 .. Len(a)
        PROVE  \E m \in 1 .. n : a[i].line = cs[m].line
    BY <2>1
  <2>6. \A m \in 1 .. n : cs[m].line <= cs[n + 1].line
    BY <1>1, <2>1
  <2>7. \A i, j \in 1 .. Len(a) : i <= j => a[i].line <= a[j].line
    BY <2>1
  <2>8. cs[n + 1].line \in Nat
    BY <1>1, <2>1
  <2> HIDE DEF a, b, u, S, V
  <2>9. ASSUME NEW i \in 1 .. Len(u) PROVE \E m \in 1 .. n + 1 : u[i].line = cs[m].line
    <3>1. CASE i <= Len(a)
      <4>1. i \in 1 .. Len(a) /\ u[i] = a[i]
        BY <2>3, <3>1
      <4> QED BY <2>1, <2>5, <4>1
    <3>2. CASE ~(i <= Len(a))
      <4>1. i - Len(a) \in 1 .. Len(b) /\ u[i] = b[i - Len(a)]
        BY <2>3, <3>2
      <4> QED BY <2>1, <2>4, <4>1
    <3> QED BY <3>1, <3>2
  <2>10. ASSUME NEW i \in 1 .. Len(u), NEW j \in 1 .. Len(u), i <= j
         PROVE  u[i].line <= u[j].line
    <3>1. CASE j <= Len(a)
      BY <2>3, <2>7, <2>10, <3>1
    <3>2. CASE ~(j <= Len(a))
      <4>1. u[j].line = cs[n + 1].line
        <5>1. j - Len(a) \in 1 .. Len(b) /\ u[j] = b[j - Len(a)]
          BY <2>3, <3>2
        <5> QED BY <2>4, <5>1
      <4>2. CASE i <= Len(a)
        <5>1. i \in 1 .. Len(a) /\ u[i] = a[i]
          BY <2>3, <4>2
        <5>2. PICK m \in 1 .. n : a[i].line = cs[m].line
          BY <2>5, <5>1
        <5> QED BY <2>6, <4>1, <5>1, <5>2
      <4>3. CASE ~(i <= Len(a))
        <5>1. i - Len(a) \in 1 .. Len(b) /\ u[i] = b[i - Len(a)]
          BY <2>3, <4>3
        <5> QED BY <2>4, <2>8, <4>1, <5>1
      <4> QED BY <4>2, <4>3
    <3> QED BY <3>1, <3>2
  <2> QED BY <2>9, <2>10 DEF u
<1>11. S = Nat
  <2>1. S \in SUBSET Nat
    OBVIOUS
  <2> HIDE DEF S
  <2> QED BY <1>9, <1>10, <2>1, Induction
<1>12. Good(Len(cs)) /\ f[Len(cs)] \in V
  <2>1. Len(cs) \in S
    BY <1>1, <1>11
  <2>2. f[Len(cs)] \in V
    <3> HIDE DEF V
    <3> QED BY <1>1, <1>4 DEF Stepped
  <2> QED BY <2>1, <2>2
<1>13. IsSeq(f[Len(cs)])
  BY <1>12 DEF IsSeq
<1>14. ASSUME NEW i \in 1 .. Len(f[Len(cs)]) PROVE f[Len(cs)][i].line \in Nat
  <2>1. PICK m \in 1 .. Len(cs) : f[Len(cs)][i].line = cs[m].line
    BY <1>12
  <2> QED BY <1>1, <2>1
<1>15. InOrder(FromFile(cs))
  BY <1>7, <1>8, <1>12, <1>13, <1>14 DEF InOrder, IsSeq
<1> QED BY <1>7, <1>8, <1>12, <1>15

LEMMA ListedIsFinite ==
    ASSUME NEW ids, IsSeq(ids)
    PROVE  IsFiniteSet(Listed(ids))
<1> DEFINE said == {m \in DOMAIN ids : ids[m] # ""}
           g == [n \in said |-> Renamed(ids[n])]
<1>1. IsFiniteSet(said)
  <2>1. said \subseteq 1 .. Len(ids) /\ Len(ids) \in Nat
    BY DEF IsSeq
  <2> HIDE DEF said
  <2>2. IsFiniteSet(1 .. Len(ids))
    BY <2>1, FS_Interval
  <2> QED BY <2>1, <2>2, FS_Subset
<1>2. g \in Surjection(said, Listed(ids))
  BY DEF Surjection, Listed
<1>3. IsFiniteSet(Listed(ids))
  <2> HIDE DEF g, said
  <2> QED BY <1>1, <1>2, FS_Surjection
<1> QED BY <1>3

-----------------------------------------------------------------------------
(* Taking directives out *)

LEMMA OpenAppend ==
    ASSUME NEW V, NEW e \in Seq(V), NEW x \in V, NEW line, NEW k
    PROVE  /\ Open(Append(e, x), line, k) =
                 Moved(Append(e, x), line, k, Len(e) + 1, Open(e, line, k))
           /\ Open(e, line, k) \in Seq(Nat)
<1> DEFINE d == Append(e, x)
           N == Len(e)
<1>1. d \in Seq(V) /\ N \in Nat /\ Len(d) = N + 1 /\ \A i \in 1 .. N : d[i] = e[i]
  OBVIOUS
<1> HIDE DEF d
<1> HIDE DEF N
<1>2. PICK f : f \in Opening(e, line, k)
  BY <1>1, OpenSteps DEF N
<1>3. PICK g : g \in Opening(d, line, k)
  <2>1. Len(d) \in Nat
    BY <1>1
  <2> QED BY <2>1, OpenSteps
<1> USE DEF N, Opening
<1>4. ASSUME NEW i \in 1 .. N, f[i - 1] = g[i - 1] PROVE f[i] = g[i]
  <2>1. Moved(d, line, k, i, g[i - 1]) = Moved(e, line, k, i, g[i - 1])
    BY <1>1 DEF Moved, Acts
  <2>2. i \in 1 .. Len(d)
    BY <1>1
  <2>3. g[i] = Moved(d, line, k, i, g[i - 1])
    BY <1>3, <2>2
  <2> QED BY <1>2, <1>4, <2>1, <2>3
<1>5. Same(N, f, g)
  <2>1. Alike(N, f, g)
    BY <1>2, <1>3, <1>4 DEF Alike
  <2> QED BY <1>1, <2>1, SameSteps
<1>6. f[N] = g[N]
  BY <1>1, <1>5 DEF Same
<1>7. g[N + 1] = Moved(d, line, k, N + 1, g[N])
  <2>1. N + 1 \in 1 .. Len(d) /\ (N + 1) - 1 = N
    BY <1>1
  <2>2. g[N + 1] = Moved(d, line, k, N + 1, g[(N + 1) - 1])
    <3> HIDE DEF N
    <3> QED BY <1>3, <2>1
  <2> QED BY <2>1, <2>2
<1>8. f[N] \in Seq(Nat)
  BY <1>1, <1>2
<1> QED BY <1>2, <1>3, <1>6, <1>7, <1>8 DEF d

\* Where all lines are looked at, how far beyond does not matter.
LEMMA OpenBeyond ==
    ASSUME NEW e, Len(e) \in Nat, NEW l, NEW m, NEW k,
           \A i \in 1 .. Len(e) : e[i].line <= l /\ e[i].line <= m
    PROVE  Open(e, l, k) = Open(e, m, k)
<1>1. PICK f : f \in Opening(e, l, k)
  BY OpenSteps
<1>2. PICK g : g \in Opening(e, m, k)
  BY OpenSteps
<1> USE DEF Opening
<1>3. ASSUME NEW i \in 1 .. Len(e), f[i - 1] = g[i - 1] PROVE f[i] = g[i]
  <2>1. Moved(e, l, k, i, g[i - 1]) = Moved(e, m, k, i, g[i - 1])
    BY DEF Moved, Acts
  <2> QED BY <1>1, <1>2, <1>3, <2>1
<1>4. Same(Len(e), f, g)
  <2>1. Alike(Len(e), f, g)
    BY <1>1, <1>2, <1>3 DEF Alike
  <2> QED BY <2>1, SameSteps
<1> QED BY <1>1, <1>2, <1>4 DEF Same

\* What is left after n directives, and one more.
Thinned(d, I, n, s) == IF n \in I THEN s ELSE Append(s, d[n])

Thinning(V, d, I) ==
    {f \in [0 .. Len(d) -> Seq(V)] :
        /\ Rest(d, I) = f[Len(d)] /\ f[0] = <<>>
        /\ \A n \in 1 .. Len(d) : f[n] = Thinned(d, I, n, f[n - 1])}

LEMMA RestSteps ==
    ASSUME NEW V, NEW d \in Seq(V), NEW I
    PROVE  \E f : f \in Thinning(V, d, I)
<1> DEFINE N == Len(d)
           F == [x \in (1 .. N) \X Seq(V) |-> Thinned(d, I, x[1], x[2])]
           rest[n \in 0 .. N] == IF n = 0 THEN <<>> ELSE Thinned(d, I, n, rest[n - 1])
<1>1. N \in Nat /\ <<>> \in Seq(V)
  OBVIOUS
<1>2. F \in [(1 .. N) \X Seq(V) -> Seq(V)]
  <2>1. ASSUME NEW n \in 1 .. N, NEW s \in Seq(V) PROVE Thinned(d, I, n, s) \in Seq(V)
    <3>1. d[n] \in V
      OBVIOUS
    <3> QED BY <3>1 DEF Thinned
  <2> QED BY <2>1
<1>3. PICK f : f \in Stepped(N, Seq(V), <<>>, F)
  <2> HIDE DEF F
  <2>1. IsStep(N, Seq(V), <<>>, F)
    BY <1>1, <1>2 DEF IsStep
  <2> QED BY <2>1, Stepwise
<1>4. ASSUME NEW n \in 1 .. N PROVE f[n] = Thinned(d, I, n, f[n - 1])
  <2>0. n - 1 \in 0 .. N /\ f \in [0 .. N -> Seq(V)]
    BY <1>1, <1>3 DEF Stepped
  <2>1. f[n - 1] \in Seq(V)
    <3> HIDE DEF N
    <3> QED BY <2>0
  <2> QED BY <1>3, <2>1 DEF Stepped
<1> HIDE DEF F
<1>5. rest = [n \in 0 .. N |-> IF n = 0 THEN <<>> ELSE Thinned(d, I, n, rest[n - 1])]
  <2>1. f = [n \in 0 .. N |-> IF n = 0 THEN <<>> ELSE Thinned(d, I, n, f[n - 1])]
    BY <1>3, <1>4 DEF Stepped
  <2> QED BY <2>1
<1>6. Rest(d, I) = rest[N]
  BY DEF Rest, Thinned
<1> HIDE DEF rest
<1>7. Same(N, rest, f)
  <2>1. rest[0] = f[0]
    BY <1>1, <1>3, <1>5 DEF Stepped
  <2>2. \A n \in 1 .. N : rest[n - 1] = f[n - 1] => rest[n] = f[n]
    BY <1>1, <1>4, <1>5
  <2>3. Alike(N, rest, f)
    BY <2>1, <2>2 DEF Alike
  <2> QED BY <1>1, <2>3, SameSteps
<1>8. Rest(d, I) = f[N]
  BY <1>1, <1>6, <1>7 DEF Same
<1> QED BY <1>3, <1>4, <1>8 DEF Stepped, Thinning

\* The directives that are left are the others.
LEMMA RestHas ==
    ASSUME NEW V, NEW d \in Seq(V), NEW I
    PROVE  /\ Rest(d, I) \in Seq(V)
           /\ Elements(Rest(d, I)) = {d[i] : i \in (1 .. Len(d)) \ I}
<1> DEFINE N == Len(d)
<1>0. N \in Nat
  OBVIOUS
<1>1. PICK f : f \in Thinning(V, d, I)
  BY RestSteps
<1> USE DEF Thinning
<1> DEFINE Good(n) == Elements(f[n]) = {d[i] : i \in (1 .. n) \ I}
           S == {n \in Nat : n <= N => Good(n)}
<1>2. 0 \in S
  <2>1. Elements(<<>>) = {}
    BY DEF Elements
  <2>2. (1 .. 0) = {}
    OBVIOUS
  <2> QED BY <1>1, <2>1, <2>2
<1>3. ASSUME NEW n \in S PROVE n + 1 \in S
  <2> SUFFICES ASSUME n + 1 <= N PROVE Good(n + 1)
    OBVIOUS
  <2>1. n \in Nat /\ n \in 0 .. N /\ n + 1 \in 1 .. N /\ (n + 1) - 1 = n /\ Good(n)
    BY <1>0
  <2>2. f[n] \in Seq(V) /\ f[n + 1] = Thinned(d, I, n + 1, f[n])
    <3> HIDE DEF S
    <3> QED BY <1>1, <2>1
  <2>3. 1 .. n + 1 = (1 .. n) \cup {n + 1}
    BY <2>1
  <2> HIDE DEF S
  <2>4. CASE n + 1 \in I
    <3>1. (1 .. n + 1) \ I = (1 .. n) \ I
      BY <2>3, <2>4
    <3>2. f[n + 1] = f[n]
      BY <2>2, <2>4 DEF Thinned
    <3> QED BY <2>1, <3>1, <3>2
  <2>5. CASE n + 1 \notin I
    <3>1. f[n + 1] = Append(f[n], d[n + 1])
      BY <2>2, <2>5 DEF Thinned
    <3>2. Elements(f[n + 1]) = Elements(f[n]) \cup {d[n + 1]}
      <4> DEFINE s == f[n]
                 y == d[n + 1]
      <4>1. s \in Seq(V) /\ y \in V
        BY <2>1, <2>2
      <4> HIDE DEF s, y
      <4>2. /\ DOMAIN Append(s, y) = (1 .. Len(s)) \cup {Len(s) + 1} /\ DOMAIN s = 1 .. Len(s)
            /\ \A i \in 1 .. Len(s) : Append(s, y)[i] = s[i]
            /\ Append(s, y)[Len(s) + 1] = y
        BY <4>1
      <4>3. Elements(Append(s, y)) = Elements(s) \cup {y}
        BY <4>2 DEF Elements
      <4> QED BY <3>1, <4>3 DEF s, y
    <3>3. (1 .. n + 1) \ I = ((1 .. n) \ I) \cup {n + 1}
      BY <2>3, <2>5
    <3>4. {d[i] : i \in (1 .. n + 1) \ I} = {d[i] : i \in (1 .. n) \ I} \cup {d[n + 1]}
      BY <3>3
    <3> QED BY <2>1, <3>2, <3>4
  <2> QED BY <2>4, <2>5
<1>4. S = Nat
  <2>1. S \in SUBSET Nat
    OBVIOUS
  <2> HIDE DEF S
  <2> QED BY <1>2, <1>3, <2>1, Induction
<1>5. Good(N)
  <2>1. N \in S
    BY <1>0, <1>4
  <2> QED BY <2>1
<1>6. f[N] \in Seq(V)
  BY <1>0, <1>1
<1> QED BY <1>1, <1>5, <1>6

\* Taking out directives that do nothing to the stack of an id leaves it as high as it was.
LEMMA RestOpens ==
    ASSUME NEW V, NEW d \in Seq(V), NEW I, NEW line, NEW k,
           \A i \in (1 .. Len(d)) \cap I :
              /\ ~Acts(d, line, k, i, "disable")
              /\ Acts(d, line, k, i, "enable") => Open(SubSeq(d, 1, i - 1), line, k) = <<>>
    PROVE  Len(Open(Rest(d, I), line, k)) = Len(Open(d, line, k))
<1> DEFINE N == Len(d)
           pre(n) == SubSeq(d, 1, n)
<1>0. N \in Nat
  OBVIOUS
<1>1. PICK f : f \in Thinning(V, d, I)
  BY RestSteps
<1>2. /\ f \in [0 .. N -> Seq(V)] /\ Rest(d, I) = f[N] /\ f[0] = <<>>
      /\ \A n \in 1 .. N : f[n] = Thinned(d, I, n, f[n - 1])
  BY <1>1 DEF Thinning
<1> DEFINE Good(n) == Len(Open(f[n], line, k)) = Len(Open(pre(n), line, k))
           S == {n \in Nat : n <= N => Good(n)}
<1>3. 0 \in S
  <2>1. pre(0) = <<>>
    OBVIOUS
  <2> HIDE DEF pre
  <2> QED BY <1>2, <2>1
<1>4. ASSUME NEW n \in S PROVE n + 1 \in S
  <2> SUFFICES ASSUME n + 1 <= N PROVE Good(n + 1)
    OBVIOUS
  <2> DEFINE x == d[n + 1]
             e == f[n]
  <2>1. n \in Nat /\ n \in 0 .. N /\ n + 1 \in 1 .. N /\ (n + 1) - 1 = n /\ Good(n)
    BY <1>0
  <2>2. x \in V /\ pre(n) \in Seq(V) /\ Len(pre(n)) = n /\ pre(n + 1) = Append(pre(n), x)
        /\ pre(n + 1) \in Seq(V) /\ Append(pre(n), x)[n + 1] = x
    BY <2>1
  <2>3. e \in Seq(V) /\ f[n + 1] = Thinned(d, I, n + 1, e)
    <3> HIDE DEF S, pre
    <3> QED BY <1>2, <2>1
  <2> HIDE DEF S, pre, e
  <2> DEFINE a == Open(pre(n), line, k)
             b == Open(e, line, k)
             says(kind) == x.line <= line /\ k \in x.names /\ x.kind = kind
             Next1(s, m) == IF says("disable") THEN Append(s, m)
                            ELSE IF says("enable") THEN Pop(s) ELSE s
  <2>4. a \in Seq(Nat) /\ b \in Seq(Nat) /\ Len(a) = Len(b)
    BY <2>1, <2>2, <2>3, OpenAppend DEF e
  <2>5. Open(pre(n + 1), line, k) = Next1(a, n + 1)
    <3>1. Open(Append(pre(n), x), line, k) = Moved(Append(pre(n), x), line, k, n + 1, a)
      <4> HIDE DEF x
      <4> QED BY <2>2, OpenAppend
    <3> QED BY <2>2, <3>1 DEF Moved, Acts
  <2>6. \A kind : Acts(d, line, k, n + 1, kind) <=> says(kind)
    BY DEF Acts
  <2>7. CASE n + 1 \in I
    <3>1. f[n + 1] = e
      BY <2>3, <2>7 DEF Thinned
    <3>2. ~says("disable") /\ (says("enable") => a = <<>>)
      <4>1. n + 1 \in (1 .. N) \cap I
        BY <2>1, <2>7
      <4>2. SubSeq(d, 1, (n + 1) - 1) = pre(n)
        BY <2>1 DEF pre
      <4> HIDE DEF says
      <4> QED BY <2>6, <4>1, <4>2
    <3>3. Next1(a, n + 1) = a
      BY <3>2 DEF Pop
    <3> QED BY <2>4, <2>5, <3>1, <3>3 DEF e
  <2>8. CASE n + 1 \notin I
    <3>1. f[n + 1] = Append(e, x)
      BY <2>3, <2>8 DEF Thinned
    <3>2. Open(f[n + 1], line, k) = Next1(b, Len(e) + 1)
      <4>1. Open(Append(e, x), line, k) = Moved(Append(e, x), line, k, Len(e) + 1, b)
        <5> HIDE DEF x
        <5> QED BY <2>2, <2>3, OpenAppend
      <4>2. Append(e, x)[Len(e) + 1] = x
        <5> HIDE DEF x
        <5> QED BY <2>2, <2>3
      <4> QED BY <3>1, <4>1, <4>2 DEF Moved, Acts
    <3>3. Len(Next1(b, Len(e) + 1)) = Len(Next1(a, n + 1))
      <4>1. ASSUME NEW s \in Seq(Nat), NEW t \in Seq(Nat), Len(s) = Len(t), NEW i, NEW j
            PROVE  Len(Append(s, i)) = Len(Append(t, j)) /\ Len(Pop(s)) = Len(Pop(t))
        <5>1. Len(Append(s, i)) = Len(s) + 1 /\ Len(Append(t, j)) = Len(t) + 1
          OBVIOUS
        <5>2. CASE s = <<>>
          <6>1. t = <<>>
            BY <4>1, <5>2
          <6> QED BY <4>1, <5>1, <5>2, <6>1 DEF Pop
        <5>3. CASE s # <<>>
          <6>1. t # <<>> /\ Len(s) > 0
            BY <4>1, <5>3
          <6> QED BY <4>1, <5>1, <5>3, <6>1 DEF Pop
        <5> QED BY <5>2, <5>3
      <4> HIDE DEF a, b, says
      <4> QED BY <2>4, <4>1
    <3> QED BY <2>5, <3>2, <3>3
  <2> QED BY <2>7, <2>8
<1>5. S = Nat
  <2>1. S \in SUBSET Nat
    OBVIOUS
  <2> HIDE DEF S
  <2> QED BY <1>3, <1>4, <2>1, Induction
<1>6. Good(N)
  <2>1. N \in S
    BY <1>0, <1>5
  <2> QED BY <2>1
<1>7. pre(N) = d
  OBVIOUS
<1> QED BY <1>2, <1>6, <1>7

LEMMA HiddenWhen ==
    ASSUME NEW V, NEW d \in Seq(V), NEW f
    PROVE  /\ Hidden(d, f) <=> \/ NextLine(d, f) # {}
                              \/ Open(d, f.line, f.rule) # <<>> \/ Open(d, f.line, All) # <<>>
           /\ NextLine(d, f) # {} => \E i \in NextLine(d, f) : i \in Marks(d, f)
<1>1. ASSUME NextLine(d, f) # {} PROVE \E i \in NextLine(d, f) : i \in First(NextLine(d, f))
  <2>1. NextLine(d, f) \in SUBSET Nat
    BY DEF NextLine
  <2>2. PICK i \in NextLine(d, f) : \A j \in NextLine(d, f) : i <= j
    BY <1>1, <2>1, Least
  <2> QED BY <2>2 DEF First
<1>2. ASSUME NEW k PROVE Elements(Open(d, f.line, k)) # {} <=> Open(d, f.line, k) # <<>>
  <2> DEFINE s == Open(d, f.line, k)
  <2>1. s \in Seq(Nat)
    <3>1. PICK g : g \in Opening(d, f.line, k)
      BY OpenSteps
    <3> QED BY <3>1 DEF Opening
  <2> HIDE DEF s
  <2>2. s # <<>> => 1 \in DOMAIN s
    BY <2>1
  <2>3. s = <<>> => DOMAIN s = {}
    OBVIOUS
  <2>4. Elements(s) # {} <=> s # <<>>
    BY <2>2, <2>3 DEF Elements
  <2> QED BY <2>4 DEF s
<1> QED BY <1>1, <1>2 DEF Hidden, Marks

\* A disable that no later enable could pair with is open to the end of the file.
LEMMA LooseStaysOpen ==
    ASSUME Len(ds) \in Nat, NEW i \in 1 .. Len(ds), NEW line, NEW k,
           Acts(ds, line, k, i, "disable"),
           \A j \in i + 1 .. Len(ds) : ds[j].kind = "enable" => ds[i].names \cap ds[j].names = {}
    PROVE  i \in Elements(Open(ds, line, k))
<1>1. ASSUME NEW j \in i + 1 .. Len(ds)
      PROVE  Acting(line, k, "enable", i, j) <= Acting(line, k, "disable", i, j)
  <2>1. {n \in i + 1 .. j : Acts(ds, line, k, n, "enable")} = {}
    <3> SUFFICES ASSUME NEW n \in i + 1 .. j, Acts(ds, line, k, n, "enable") PROVE FALSE
      OBVIOUS
    <3>1. n \in i + 1 .. Len(ds)
      OBVIOUS
    <3> QED BY <3>1 DEF Acts
  <2>2. Acting(line, k, "enable", i, j) = 0
    BY <2>1, FS_EmptySet DEF Acting
  <2>3. Acting(line, k, "disable", i, j) \in Nat
    <3>1. i \in Nat /\ j \in Nat /\ i <= j
      OBVIOUS
    <3> QED BY <3>1, ActingSteps
  <2> QED BY <2>2, <2>3
<1>2. i \in LeftOpen(line, k, Len(ds))
  BY <1>1 DEF LeftOpen
<1> QED BY <1>2, OpenIsLeftOpen

\* What a context has looked at has marked what hides it.
Marked ==
    /\ stage = "waiting" => /\ raw = {} /\ todo = {} /\ used = {} /\ hid = {} /\ reports = <<>>
    /\ \A f \in raw : f.rule # SuppressionID => f \in UNION Raw
    /\ \A f \in raw \ todo : Marks(ds, f) \subseteq used

LEMMA MarkedIsIdle ==
    ASSUME NEW V, ds \in Seq(V), InOrder(ds), Marked
    PROVE  LooseIsIdle
<1> DEFINE I == LooseUnused \cup Unmatched
           N == Len(ds)
<1> SUFFICES ASSUME todo = {}, NEW f \in raw, f.rule # SuppressionID
             PROVE  Hidden(Rest(ds, I), f) = Hidden(ds, f)
  BY DEF LooseIsIdle, Idle
<1>0. N \in Nat /\ DOMAIN ds = 1 .. N
  OBVIOUS
<1>1. f.line \in Nat /\ Marks(ds, f) \subseteq used
  BY SuppressionAssumption DEF Marked
<1>2. Rest(ds, I) \in Seq(V) /\ Elements(Rest(ds, I)) = {ds[i] : i \in (1 .. N) \ I}
  <2> HIDE DEF I
  <2> QED BY RestHas
<1> DEFINE r == Rest(ds, I)
           hides(x) == x.kind = "next" /\ x.names \cap {f.rule, All} # {} /\ x.line + 1 = f.line
<1>3. NextLine(r, f) # {} <=> \E i \in NextLine(ds, f) : i \notin I
  <2> HIDE DEF I, r
  <2>1. NextLine(r, f) # {} <=> \E x \in Elements(r) : hides(x)
    BY DEF NextLine, Elements
  <2>2. NextLine(ds, f) = {i \in 1 .. N : hides(ds[i])}
    BY <1>0 DEF NextLine
  <2>3. Elements(r) = {ds[i] : i \in (1 .. N) \ I}
    BY <1>2 DEF r
  <2> HIDE DEF hides
  <2> QED BY <2>1, <2>2, <2>3
<1>4. CASE NextLine(ds, f) # {}
  <2>1. PICK i \in NextLine(ds, f) : i \in Marks(ds, f)
    BY <1>4, HiddenWhen
  <2>2. i \in used /\ ds[i].kind = "next"
    BY <1>1, <2>1 DEF NextLine
  <2>3. i \notin I
    BY <2>2 DEF LooseUnused, Unused, Unmatched
  <2>4. NextLine(r, f) # {}
    <3> HIDE DEF I, r
    <3> QED BY <1>3, <2>1, <2>3
  <2>5. Hidden(ds, f)
    BY <1>4, HiddenWhen
  <2>6. Hidden(r, f)
    <3> HIDE DEF I, r
    <3>1. r \in Seq(V)
      BY <1>2 DEF r
    <3> QED BY <2>4, <3>1, HiddenWhen
  <2> QED BY <2>5, <2>6
<1>5. CASE NextLine(ds, f) = {}
  <2>1. ASSUME NEW k \in {f.rule, All}, NEW i \in (1 .. N) \cap I
        PROVE  /\ ~Acts(ds, f.line, k, i, "disable")
               /\ Acts(ds, f.line, k, i, "enable") => Open(SubSeq(ds, 1, i - 1), f.line, k) = <<>>
    <3>1. ASSUME Acts(ds, f.line, k, i, "disable") PROVE FALSE
      <4>1. i \in LooseUnused
        BY <2>1, <3>1 DEF Acts, Unmatched
      <4>2. \A j \in i + 1 .. N : ds[j].kind = "enable" => ds[i].names \cap ds[j].names = {}
        BY <3>1, <4>1 DEF LooseUnused, Acts
      <4>3. i \in Elements(Open(ds, f.line, k))
        BY <1>0, <3>1, <4>2, LooseStaysOpen
      <4>4. i \in Marks(ds, f)
        BY <1>5, <4>3 DEF Marks
      <4> QED BY <1>1, <4>1, <4>4 DEF LooseUnused, Unused
    <3>2. ASSUME Acts(ds, f.line, k, i, "enable")
          PROVE  Open(SubSeq(ds, 1, i - 1), f.line, k) = <<>>
      <4> DEFINE e == SubSeq(ds, 1, i - 1)
      <4>1. i \in Unmatched
        BY <2>1, <3>2 DEF Acts, LooseUnused, Unused
      <4>2. Open(e, ds[i].line, k) = <<>>
        <5>1. k \in Problems(ds, i) /\ ds[i].kind = "enable"
          BY <3>2, <4>1 DEF Acts, Unmatched
        <5>2. Problems(ds, i) = {m \in ds[i].names : Open(SubSeq(ds, 1, i - 1), ds[i].line, m) = <<>>}
          BY <5>1 DEF Problems
        <5> QED BY <5>1, <5>2
      <4>3. i \in 1 .. N /\ ds[i].line \in Nat /\ ds[i].line <= f.line
        BY <1>0, <3>2 DEF Acts, InOrder
      <4>4. e \in Seq(V) /\ Len(e) = i - 1 /\ \A j \in 1 .. i - 1 : e[j] = ds[j]
        BY <1>0, <4>3
      <4>5. ASSUME NEW j \in 1 .. Len(e) PROVE e[j].line <= ds[i].line /\ e[j].line <= f.line
        <5>1. j \in 1 .. N /\ j <= i /\ e[j] = ds[j]
          BY <1>0, <4>3, <4>4
        <5>2. ds[j].line \in Nat /\ ds[j].line <= ds[i].line
          BY <1>0, <4>3, <5>1 DEF InOrder
        <5> QED BY <1>1, <4>3, <5>1, <5>2
      <4> HIDE DEF e
      <4>6. Len(e) \in Nat
        BY <4>4
      <4>7. Open(e, f.line, k) = Open(e, ds[i].line, k)
        BY <4>5, <4>6, OpenBeyond
      <4> QED BY <4>2, <4>7 DEF e
    <3> QED BY <3>1, <3>2
  <2>2. ASSUME NEW k \in {f.rule, All}
        PROVE  Open(r, f.line, k) # <<>> <=> Open(ds, f.line, k) # <<>>
    <3>1. Len(Open(r, f.line, k)) = Len(Open(ds, f.line, k))
      <4> HIDE DEF I
      <4> QED BY <2>1, RestOpens
    <3> HIDE DEF I, r
    <3>2. r \in Seq(V)
      BY <1>2 DEF r
    <3>3. ASSUME NEW d \in Seq(V) PROVE Open(d, f.line, k) \in Seq(Nat)
      <4>1. PICK g : g \in Opening(d, f.line, k)
        BY OpenSteps
      <4> QED BY <4>1 DEF Opening
    <3>4. Open(r, f.line, k) \in Seq(Nat) /\ Open(ds, f.line, k) \in Seq(Nat)
      BY <3>2, <3>3
    <3> QED BY <3>1, <3>4
  <2> HIDE DEF I, r
  <2>3. NextLine(r, f) = {}
    BY <1>3, <1>5
  <2>4. r \in Seq(V)
    BY <1>2 DEF r
  <2>5. Hidden(r, f) <=> Hidden(ds, f)
    BY <1>5, <2>2, <2>3, <2>4, HiddenWhen
  <2>6. Hidden(r, f) \in BOOLEAN /\ Hidden(ds, f) \in BOOLEAN
    BY DEF Hidden
  <2> QED BY <2>5, <2>6 DEF r
<1> QED BY <1>4, <1>5

-----------------------------------------------------------------------------
\* A sum of zeros and ones.
LEMMA CountSteps ==
    ASSUME NEW rs, NEW k, Len(rs) \in Nat, \A v \in 1 .. Len(rs) : rs[v][k] \in Nat
    PROVE  \E f \in [0 .. Len(rs) -> Nat] :
              /\ Count(rs, k) = f[Len(rs)] /\ f[0] = 0
              /\ \A n \in 1 .. Len(rs) : f[n] = f[n - 1] + rs[n][k]
<1> DEFINE N == Len(rs)
           F == [x \in (1 .. N) \X Nat |-> x[2] + rs[x[1]][k]]
           upTo[n \in 0 .. N] == IF n = 0 THEN 0 ELSE upTo[n - 1] + rs[n][k]
<1>1. F \in [(1 .. N) \X Nat -> Nat]
  OBVIOUS
<1>2. PICK f : f \in Stepped(N, Nat, 0, F)
  <2> HIDE DEF F
  <2>1. IsStep(N, Nat, 0, F)
    BY <1>1 DEF IsStep
  <2> QED BY <2>1, Stepwise
<1>3. ASSUME NEW n \in 1 .. N PROVE f[n] = f[n - 1] + rs[n][k]
  <2>1. n - 1 \in 0 .. N /\ f[n - 1] \in Nat
    BY <1>2 DEF Stepped
  <2> QED BY <1>2, <2>1 DEF Stepped
<1> HIDE DEF F
<1>4. upTo = [n \in 0 .. N |-> IF n = 0 THEN 0 ELSE upTo[n - 1] + rs[n][k]]
  <2>1. f = [n \in 0 .. N |-> IF n = 0 THEN 0 ELSE f[n - 1] + rs[n][k]]
    BY <1>2, <1>3 DEF Stepped
  <2> QED BY <2>1
<1>5. Count(rs, k) = upTo[N]
  BY DEF Count
<1> HIDE DEF upTo
<1>6. Same(N, upTo, f)
  <2>1. upTo[0] = f[0]
    BY <1>2, <1>4 DEF Stepped
  <2>2. \A n \in 1 .. N : upTo[n - 1] = f[n - 1] => upTo[n] = f[n]
    BY <1>3, <1>4
  <2>3. Alike(N, upTo, f)
    BY <2>1, <2>2 DEF Alike
  <2> QED BY <2>3, SameSteps
<1>7. Count(rs, k) = f[N]
  BY <1>5, <1>6 DEF Same
<1> QED BY <1>2, <1>3, <1>7 DEF Stepped

LEMMA CountSingles ==
    ASSUME NEW rs, NEW k, Len(rs) \in Nat, \A v \in 1 .. Len(rs) : rs[v][k] \in {0, 1}
    PROVE  /\ Count(rs, k) \in 0 .. Len(rs)
           /\ Count(rs, k) = Len(rs) <=> \A v \in 1 .. Len(rs) : rs[v][k] = 1
<1> DEFINE N == Len(rs)
<1>1. PICK f \in [0 .. N -> Nat] :
         /\ Count(rs, k) = f[N] /\ f[0] = 0
         /\ \A n \in 1 .. N : f[n] = f[n - 1] + rs[n][k]
  <2>1. \A v \in 1 .. Len(rs) : rs[v][k] \in Nat
    OBVIOUS
  <2> QED BY <2>1, CountSteps
<1> DEFINE Good(n) == f[n] \in 0 .. n /\ (f[n] = n <=> \A v \in 1 .. n : rs[v][k] = 1)
           S == {n \in Nat : n <= N => Good(n)}
<1>2. 0 \in S
  BY <1>1
<1>3. ASSUME NEW n \in S PROVE n + 1 \in S
  <2> SUFFICES ASSUME n + 1 <= N PROVE Good(n + 1)
    OBVIOUS
  <2>1. n \in Nat /\ n + 1 \in 1 .. N /\ (n + 1) - 1 = n /\ Good(n)
    OBVIOUS
  <2>2. f[n + 1] = f[n] + rs[n + 1][k] /\ rs[n + 1][k] \in {0, 1}
    <3> HIDE DEF S, Good
    <3> QED BY <1>1, <2>1
  <2>3. (1 .. n + 1) = (1 .. n) \cup {n + 1}
    BY <2>1
  <2> HIDE DEF S
  <2> QED BY <2>1, <2>2, <2>3
<1>4. S = Nat
  <2>1. S \in SUBSET Nat
    OBVIOUS
  <2> HIDE DEF S
  <2> QED BY <1>2, <1>3, <2>1, Induction
<1>5. Good(N)
  <2>1. N \in S
    BY <1>4
  <2> QED BY <2>1
<1> QED BY <1>1, <1>5

\* Of a directive that is alone on its line a context says whether it was unused.
LEMMA AloneJudged ==
    ASSUME DOMAIN ds = 1 .. Len(ds), NEW i \in DOMAIN ds, Alone(i), SuppressionID \in enabled
    PROVE  Judged[<<ds[i].line, "whole">>] = IF i \in Unused(ds, used) THEN 1 ELSE 0
<1> DEFINE k == <<ds[i].line, "whole">>
           here == {j \in Unused(ds, used) : ds[j].line = ds[i].line}
<1>1. k \in Ranges(ds)
  BY DEF Ranges, Lines
<1>2. Judged[k] = Cardinality(here)
  BY <1>1 DEF Judged, Reported
<1>3. here = IF i \in Unused(ds, used) THEN {i} ELSE {}
  BY DEF Alone, Unused
<1> QED BY <1>2, <1>3, FS_EmptySet, FS_Singleton

LEMMA JudgedCounts ==
    ASSUME DOMAIN ds = 1 .. Len(ds), Len(ds) \in Nat,
           \A i \in DOMAIN ds : IsFiniteSet(ds[i].names), NEW r \in Ranges(ds)
    PROVE  Judged[r] \in Nat
<1>0. IsFiniteSet(1 .. Len(ds))
  BY FS_Interval
<1>1. CASE SuppressionID \notin enabled
  BY <1>1 DEF Judged
<1>2. CASE SuppressionID \in enabled /\ r[2] = "whole"
  <2> DEFINE here == {i \in Unused(ds, used) : ds[i].line = r[1]}
  <2>1. IsFiniteSet(here)
    <3>1. here \subseteq 1 .. Len(ds)
      BY DEF Unused
    <3> QED BY <1>0, <3>1, FS_Subset
  <2>2. Judged[r] = Cardinality(here)
    BY <1>2 DEF Judged, Reported
  <2> QED BY <2>1, <2>2, FS_CardinalityType
<1>3. CASE SuppressionID \in enabled /\ r[2] # "whole"
  <2> DEFINE P(i) == {i} \X Problems(ds, i)
             at == {j \in DOMAIN ds : /\ ds[j].line = r[1]
                                      /\ ~Hidden(ds, [rule |-> SuppressionID, line |-> r[1]])}
             Ps == {P(i) : i \in at}
  <2>1. ASSUME NEW i \in DOMAIN ds PROVE IsFiniteSet(P(i))
    <3>1. IsFiniteSet(Problems(ds, i))
      <4>1. Problems(ds, i) \subseteq ds[i].names \/ Problems(ds, i) \subseteq {"malformed"}
        BY DEF Problems
      <4>2. IsFiniteSet({"malformed"})
        BY FS_Singleton
      <4> QED BY <4>1, <4>2, FS_Subset
    <3>2. IsFiniteSet({i})
      BY FS_Singleton
    <3> QED BY <3>1, <3>2, FS_Product
  <2>2. IsFiniteSet(Ps)
    <3>1. IsFiniteSet(at)
      <4>1. at \subseteq 1 .. Len(ds)
        OBVIOUS
      <4> QED BY <1>0, <4>1, FS_Subset
    <3> DEFINE g == [i \in at |-> P(i)]
    <3>2. g \in Surjection(at, Ps)
      BY DEF Surjection
    <3> HIDE DEF g, at, Ps
    <3> QED BY <3>1, <3>2, FS_Surjection
  <2>3. IsFiniteSet(UNION Ps)
    <3>1. \A T \in Ps : IsFiniteSet(T)
      BY <2>1
    <3> HIDE DEF Ps
    <3> QED BY <2>2, <3>1, FS_UNION
  <2>4. Judged[r] = Cardinality(UNION Ps)
    BY <1>3 DEF Judged, Reported
  <2> HIDE DEF Ps
  <2> QED BY <2>3, <2>4, FS_CardinalityType
<1> QED BY <1>1, <1>2, <1>3

LEMMA RaisedByRules ==
    ASSUME NEW e, NEW d, NEW r \in Raised(e, d), NEW f \in r, f.rule # SuppressionID
    PROVE  f \in UNION Raw
<1>1. PICK s \in Raw : r = {g \in s : g.rule \in e} \cup (IF SuppressionID \in e THEN Own(d) ELSE {})
  BY DEF Raised
<1>2. f \notin Own(d)
  BY DEF Own
<1> QED BY <1>1, <1>2

-----------------------------------------------------------------------------
(* Contexts *)

IsList(s) == s \in Seq({s[i] : i \in DOMAIN s})

LEMMA Longer ==
    ASSUME NEW s, NEW e, IsList(s)
    PROVE  IsList(Append(s, e)) /\ Len(s) \in Nat /\ Len(Append(s, e)) = Len(s) + 1
<1> DEFINE t == Append(s, e)
           T == {s[i] : i \in DOMAIN s}
           S == T \cup {e}
<1>1. s \in Seq(S) /\ Len(s) \in Nat
  <2>1. s \in Seq(T)
    BY DEF IsList
  <2> HIDE DEF T
  <2> QED BY <2>1
<1>2. t \in Seq(S) /\ Len(t) = Len(s) + 1
  <2>1. e \in S
    OBVIOUS
  <2> HIDE DEF S
  <2> QED BY <1>1, <2>1
<1>3. t \in Seq({t[i] : i \in DOMAIN t})
  <2>1. \A i \in 1 .. Len(t) : t[i] \in {t[j] : j \in DOMAIN t}
    BY <1>2
  <2> HIDE DEF t, S
  <2> QED BY <1>2, <2>1
<1> QED BY <1>1, <1>2, <1>3 DEF IsList

\* What the contexts so far say of a directive that is alone on its line: it was unused in
\* all of them, and so it is in this one as far as it has been looked at, or it hid something.
AgreedOn(i) ==
    LET k == <<ds[i].line, "whole">>
    IN  /\ \A v \in DOMAIN reports : reports[v][k] \in {0, 1}
        /\ i \in Unused(ds, hid) <=> /\ stage = "linting" => i \in Unused(ds, used)
                                     /\ \A v \in DOMAIN reports : reports[v][k] = 1

Told ==
    /\ stage = "waiting" => ds = <<>>
    /\ \A v \in DOMAIN reports, r \in Ranges(ds) : reports[v][r] \in Nat
    /\ SuppressionID \in enabled => \A i \in DOMAIN ds : Alone(i) => AgreedOn(i)
    /\ stage = "merged" =>
          /\ reports # <<>>
          /\ merged = Merged(ds, reports, merging) \cup (Outdated(comments) \X {"renamed"})

\* One context more.
LEMMA MoreReports ==
    ASSUME IsList(reports), NEW j, reports' = Append(reports, j)
    PROVE  /\ Len(reports) \in Nat /\ DOMAIN reports = 1 .. Len(reports)
           /\ DOMAIN reports' = (1 .. Len(reports)) \cup {Len(reports) + 1}
           /\ \A v \in 1 .. Len(reports) : reports'[v] = reports[v]
           /\ reports'[Len(reports) + 1] = j /\ reports' # <<>>
<1> DEFINE T == {reports[i] : i \in DOMAIN reports} \cup {j}
<1>1. reports \in Seq(T) /\ j \in T
  <2> DEFINE S == {reports[i] : i \in DOMAIN reports}
  <2>1. reports \in Seq(S) /\ S \subseteq T
    BY DEF IsList
  <2> HIDE DEF S, T
  <2>2. reports \in Seq(T)
    BY <2>1
  <2> QED BY <2>2 DEF T
<1> HIDE DEF T
<1> QED BY <1>1

-----------------------------------------------------------------------------
(* The programs that are asked.  What is taken of one was written whole,     *)
(* however they stop, fork, hang and are killed.  The chunks that were       *)
(* written are those on the way and those received; a chunk of somebody else *)
(* is one too many.                                                          *)

Codes == {"ok", "error", "killed"}
Given == [answer : Answers, written : Nat, code : Codes, alone : BOOLEAN]

TypeOK ==
    /\ process \in {"none", "running", "exited", "reaped"} /\ code \in Codes
    /\ child \in BOOLEAN /\ foreign \in BOOLEAN /\ expired \in BOOLEAN
    /\ written \in Nat /\ pipe \in Nat /\ buffer \in Nat
    /\ given \in Seq(Given) /\ found \in Seq(Diagnostics)
    /\ outcome \in {"idle", "running", "done", "failed"}
    /\ outcome = "running" => answer \in Answers

\* Nothing that was written is lost or doubled.
Conserved == pipe + buffer = written + (IF foreign THEN 1 ELSE 0)

IInv == TypeOK /\ Conserved /\ (outcome # "failed" => GivenAreWhole)

LEMMA InitInv == ExternalInit => IInv
<1> SUFFICES ASSUME ExternalInit PROVE IInv
  OBVIOUS
<1> USE DEF ExternalInit
<1>1. TypeOK
  <2>1. given \in Seq(Given) /\ found \in Seq(Diagnostics)
    OBVIOUS
  <2>2. child \in BOOLEAN /\ foreign \in BOOLEAN /\ expired \in BOOLEAN
    OBVIOUS
  <2>3. /\ process \in {"none", "running", "exited", "reaped"} /\ code \in Codes
        /\ written \in Nat /\ pipe \in Nat /\ buffer \in Nat
        /\ outcome \in {"idle", "running", "done", "failed"} /\ outcome # "running"
    BY DEF Codes
  <2> QED BY <2>1, <2>2, <2>3 DEF TypeOK
<1>2. Conserved
  BY DEF Conserved
<1>3. GivenAreWhole
  BY DEF GivenAreWhole
<1> QED BY <1>1, <1>2, <1>3 DEF IInv

\* A program starts with nothing written.
LEMMA LaunchConserves ==
    ASSUME Launch
    PROVE  /\ process' = "running" /\ code' = "ok" /\ answer' \in Answers
           /\ child' \in BOOLEAN /\ foreign' \in BOOLEAN /\ expired' \in BOOLEAN
           /\ written' \in Nat /\ pipe' \in Nat /\ buffer' \in Nat
           /\ Conserved'
BY DEF Launch, Conserved

\* What the linter and the programs do between the start of one and its end.
LEMMA ChunkInv ==
    ASSUME IInv, Program \/ Receive \/ Deadline \/ Reap
    PROVE  IInv'
<1>1. TypeOK'
  <2> USE DEF IInv, TypeOK, Codes
  <2>1. CASE WriteChunk \/ ChildWrites \/ Receive
    <3>1. CASE WriteChunk
      BY <3>1 DEF WriteChunk
    <3>2. CASE ChildWrites
      BY <3>2 DEF ChildWrites
    <3>3. CASE Receive
      BY <3>3 DEF Receive
    <3> QED BY <2>1, <3>1, <3>2, <3>3
  <2>2. CASE Fork \/ ChildEnds
    BY <2>2 DEF Fork, ChildEnds
  <2>3. ASSUME NEW c \in {"ok", "error"}, Exit(c) PROVE TypeOK'
    BY <2>3 DEF Exit
  <2>4. CASE Deadline
    BY <2>4 DEF Deadline
  <2>5. CASE Reap
    BY <2>5 DEF Reap
  <2> QED BY <2>1, <2>2, <2>3, <2>4, <2>5 DEF Program
<1>2. Conserved'
  <2>1. CASE WriteChunk \/ Receive
    BY <2>1 DEF IInv, TypeOK, Conserved, WriteChunk, Receive
  <2>3. CASE ChildWrites
    BY <2>3 DEF IInv, TypeOK, Conserved, ChildWrites
  <2>2. CASE UNCHANGED <<written, pipe, buffer, foreign>>
    BY <2>2 DEF IInv, Conserved
  <2> QED BY <2>1, <2>2, <2>3 DEF Program, Fork, Exit, ChildEnds, Deadline, Reap
<1>3. UNCHANGED <<given, found, outcome>>
  BY DEF Program, WriteChunk, Fork, Exit, ChildWrites, ChildEnds, Receive, Deadline, Reap
<1> QED BY <1>1, <1>2, <1>3 DEF IInv, GivenAreWhole

\* An answer that is accepted was written whole: as many chunks as it has arrived, all
\* of them its own, and nothing is on the way any more.
LEMMA AcceptedIsWhole ==
    ASSUME IInv, outcome = "running", pipe = 0, Accepted
    PROVE  /\ answer \in Answers /\ code = "ok" /\ ~foreign /\ written = answer.size
           /\ answer.form = "valid" /\ answer.version = 1
           /\ \A k \in DOMAIN answer.diagnostics : Valid(answer.diagnostics[k])
BY ExternalAssumption DEF IInv, TypeOK, Conserved, Accepted, Decodes

LEMMA FinishInv ==
    ASSUME IInv, Finish
    PROVE  IInv'
<1> DEFINE g == [answer |-> answer, written |-> written, code |-> code, alone |-> ~foreign]
<1>1. outcome = "running" /\ pipe = 0 /\ answer \in Answers /\ given' = Append(given, g)
  BY DEF Finish, IInv, TypeOK
<1>2. g \in Given
  BY <1>1 DEF IInv, TypeOK, Given
<1>3. given \in Seq(Given) /\ given' \in Seq(Given) /\ found \in Seq(Diagnostics)
  BY <1>1, <1>2 DEF IInv, TypeOK
<1>4. CASE Accepted
  <2>1. found' = found \o answer.diagnostics /\ answer.diagnostics \in Seq(Diagnostics)
    BY <1>1, <1>4, ExternalAssumption DEF Finish
  <2>2. found' \in Seq(Diagnostics)
    BY <1>3, <2>1
  <2>3. TypeOK' /\ Conserved'
    <3>1. CASE nth = programs
      BY <1>1, <1>3, <1>4, <2>2, <3>1 DEF Finish, IInv, TypeOK, Conserved
    <3>2. CASE nth # programs
      <4>1. Launch /\ outcome' = outcome
        BY <1>4, <3>2 DEF Finish
      <4> QED BY <1>1, <1>3, <2>2, <4>1, LaunchConserves DEF TypeOK, Codes
    <3> QED BY <3>1, <3>2
  <2>4. GivenAreWhole'
    <3>1. \A n \in DOMAIN given' : given'[n] = IF n = Len(given) + 1 THEN g ELSE given[n]
      BY <1>1, <1>3
    <3>2. \A n \in DOMAIN given' : n # Len(given) + 1 => n \in DOMAIN given
      BY <1>1, <1>3
    <3>3. ASSUME NEW n \in DOMAIN given'
          PROVE  /\ given'[n].code = "ok" /\ given'[n].alone
                 /\ given'[n].written = given'[n].answer.size
                 /\ given'[n].answer.form = "valid" /\ given'[n].answer.version = 1
      <4>1. CASE n = Len(given) + 1
        <5>1. given'[n] = g
          BY <3>1, <4>1
        <5>2. g.code = "ok" /\ g.written = g.answer.size /\ g.answer.form = "valid"
              /\ g.answer.version = 1
          BY <1>1, <1>4, AcceptedIsWhole
        <5>3. g.alone
          BY <1>1, <1>4, AcceptedIsWhole
        <5> QED BY <5>1, <5>2, <5>3
      <4>2. CASE n # Len(given) + 1
        BY <1>1, <3>1, <3>2, <4>2 DEF IInv, GivenAreWhole
      <4> QED BY <4>1, <4>2
    <3>4. ASSUME NEW k \in DOMAIN found'
          PROVE  Valid(found'[k])
      <4>1. CASE k <= Len(found)
        <5>1. k \in DOMAIN found /\ found'[k] = found[k]
          BY <1>3, <2>1, <4>1
        <5> QED BY <1>1, <5>1 DEF IInv, GivenAreWhole
      <4>2. CASE ~(k <= Len(found))
        <5>1. k - Len(found) \in DOMAIN answer.diagnostics
              /\ found'[k] = answer.diagnostics[k - Len(found)]
          BY <1>3, <2>1, <4>2
        <5> QED BY <1>1, <1>4, <5>1, AcceptedIsWhole
      <4> QED BY <4>1, <4>2
    <3> QED BY <3>3, <3>4 DEF GivenAreWhole
  <2> QED BY <2>3, <2>4 DEF IInv
<1>5. CASE ~Accepted
  <2>1. /\ outcome' = "failed" /\ process' = "none"
        /\ UNCHANGED <<nth, found, code, child, answer, written, pipe, buffer, foreign, expired>>
    BY <1>5 DEF Finish
  <2> QED BY <1>3, <2>1 DEF IInv, TypeOK, Conserved
<1> QED BY <1>4, <1>5

LEMMA StepInv == IInv /\ [ExternalNext]_externalVars => IInv'
<1> SUFFICES ASSUME IInv, [ExternalNext]_externalVars PROVE IInv'
  OBVIOUS
<1>1. ASSUME NEW n \in Nat, Begin(n) PROVE IInv'
  <2>1. /\ outcome = "idle" /\ outcome' = "running" /\ Launch
        /\ UNCHANGED <<given, found>>
    BY <1>1 DEF Begin
  <2>2. TypeOK' /\ Conserved'
    BY <2>1, LaunchConserves DEF IInv, TypeOK, Codes
  <2> QED BY <2>1, <2>2 DEF IInv, GivenAreWhole
<1>2. CASE Again
  BY <1>2 DEF Again, programVars, IInv, TypeOK, Conserved, GivenAreWhole
<1>3. CASE Program \/ Linter
  BY <1>3, ChunkInv, FinishInv DEF Linter
<1>4. CASE UNCHANGED externalVars
  BY <1>4 DEF externalVars, programVars, IInv, TypeOK, Conserved, GivenAreWhole
<1> QED BY <1>1, <1>2, <1>3, <1>4 DEF ExternalNext

LEMMA Inductive == ExternalSpec => []IInv
BY InitInv, StepInv, PTL DEF ExternalSpec

-----------------------------------------------------------------------------
\* Run and convert (pkg/externalrule, internal/external): as long as no program made
\* the lint fail, whatever has been taken of the programs of a lint was written whole,
\* by programs that ended by themselves and well, and is not damaged.
THEOREM TakenIsWhole == ExternalSpec => [](outcome # "failed" => GivenAreWhole)
<1>1. IInv => (outcome # "failed" => GivenAreWhole)
  BY DEF IInv
<1> QED BY <1>1, Inductive, PTL

-----------------------------------------------------------------------------
LEMMA ContextsType ==
    ASSUME NEW r, NEW q, Lists(r.source)
    PROVE  Contexts(r, q) \in Nat
<1>1. ASSUME NEW S, S \subseteq DOMAIN r.source.builds PROVE Cardinality(S) \in Nat
  <2>1. IsFiniteSet(DOMAIN r.source.builds)
    <3>1. DOMAIN r.source.builds = 1 .. Len(r.source.builds) /\ Len(r.source.builds) \in Nat
      BY DEF Lists, AreBuilds, IsSeq
    <3> QED BY <3>1, FS_Interval
  <2> QED BY <1>1, <2>1, FS_Subset, FS_CardinalityType
<1>2. CASE q.mode = "builds"
  BY <1>1, <1>2 DEF Contexts
<1>3. CASE q.mode # "builds"
  BY <1>3 DEF Contexts, Lists, IsSeq
<1> QED BY <1>2, <1>3

\* The diagnostics of the answers, collected one after the other.
Took(gs, n, s) == s \o gs[n].answer.diagnostics

LEMMA AnswersSteps ==
    ASSUME NEW gs \in Seq(Given)
    PROVE  \E f \in [0 .. Len(gs) -> Seq(Diagnostics)] :
              /\ AnswersOf(gs) = f[Len(gs)] /\ f[0] = <<>>
              /\ \A n \in 1 .. Len(gs) : f[n] = Took(gs, n, f[n - 1])
<1> DEFINE V == Seq(Diagnostics)
           F == [x \in (1 .. Len(gs)) \X V |-> Took(gs, x[1], x[2])]
           upTo[n \in 0 .. Len(gs)] == IF n = 0 THEN <<>> ELSE Took(gs, n, upTo[n - 1])
<1>1. F \in [(1 .. Len(gs)) \X V -> V] /\ <<>> \in V /\ Len(gs) \in Nat
  <2>1. ASSUME NEW n \in 1 .. Len(gs), NEW s \in V PROVE Took(gs, n, s) \in V
    <3>1. gs[n] \in Given
      OBVIOUS
    <3>0. gs[n].answer \in Answers
      BY <3>1 DEF Given
    <3>2. gs[n].answer.diagnostics \in V
      BY <3>0, ExternalAssumption
    <3> QED BY <3>2 DEF Took
  <2> QED BY <2>1
<1> HIDE DEF V
<1>2. PICK f : f \in Stepped(Len(gs), V, <<>>, F)
  <2> HIDE DEF F
  <2>1. IsStep(Len(gs), V, <<>>, F)
    BY <1>1 DEF IsStep
  <2> QED BY <2>1, Stepwise
<1>3. ASSUME NEW n \in 1 .. Len(gs) PROVE f[n] = Took(gs, n, f[n - 1])
  <2>1. n - 1 \in 0 .. Len(gs) /\ f[n - 1] \in V
    BY <1>1, <1>2 DEF Stepped
  <2> QED BY <1>2, <2>1 DEF Stepped
<1> HIDE DEF F
<1>4. upTo = [n \in 0 .. Len(gs) |-> IF n = 0 THEN <<>> ELSE Took(gs, n, upTo[n - 1])]
  <2>1. f = [n \in 0 .. Len(gs) |-> IF n = 0 THEN <<>> ELSE Took(gs, n, f[n - 1])]
    BY <1>2, <1>3 DEF Stepped
  <2> QED BY <2>1
<1>5. AnswersOf(gs) = upTo[Len(gs)]
  BY DEF AnswersOf, Took
<1> HIDE DEF upTo
<1>6. upTo[Len(gs)] = f[Len(gs)]
  <2>1. upTo[0] = f[0]
    BY <1>1, <1>2, <1>4 DEF Stepped
  <2>2. \A n \in 1 .. Len(gs) : upTo[n - 1] = f[n - 1] => upTo[n] = f[n]
    BY <1>1, <1>3, <1>4
  <2>3. Alike(Len(gs), upTo, f)
    BY <2>1, <2>2 DEF Alike
  <2>4. Same(Len(gs), upTo, f)
    BY <1>1, <2>3, SameSteps
  <2> QED BY <1>1, <2>4 DEF Same
<1>7. f \in [0 .. Len(gs) -> V] /\ f[0] = <<>>
  BY <1>1, <1>2 DEF Stepped
<1> QED BY <1>3, <1>5, <1>6, <1>7 DEF V

LEMMA AnswersAppend ==
    ASSUME NEW gs \in Seq(Given), NEW g \in Given
    PROVE  AnswersOf(Append(gs, g)) = AnswersOf(gs) \o g.answer.diagnostics
<1> DEFINE hs == Append(gs, g)
           n == Len(gs)
<1>1. hs \in Seq(Given) /\ Len(hs) = n + 1 /\ n \in Nat /\ hs[n + 1] = g
      /\ \A k \in 1 .. n : hs[k] = gs[k]
  OBVIOUS
<1> HIDE DEF hs
<1>2. PICK f \in [0 .. Len(gs) -> Seq(Diagnostics)] :
         /\ AnswersOf(gs) = f[Len(gs)] /\ f[0] = <<>>
         /\ \A k \in 1 .. Len(gs) : f[k] = Took(gs, k, f[k - 1])
  BY AnswersSteps
<1>3. PICK h \in [0 .. Len(hs) -> Seq(Diagnostics)] :
         /\ AnswersOf(hs) = h[Len(hs)] /\ h[0] = <<>>
         /\ \A k \in 1 .. Len(hs) : h[k] = Took(hs, k, h[k - 1])
  BY <1>1, AnswersSteps
<1> HIDE DEF n
<1>4. Same(n, f, h)
  <2>1. ASSUME NEW k \in 1 .. n, f[k - 1] = h[k - 1] PROVE f[k] = h[k]
    <3>1. k \in 1 .. Len(gs) /\ k \in 1 .. Len(hs) /\ hs[k] = gs[k]
      BY <1>1 DEF n
    <3>2. f[k] = Took(gs, k, f[k - 1]) /\ h[k] = Took(hs, k, h[k - 1])
      BY <1>2, <1>3, <3>1
    <3> QED BY <2>1, <3>1, <3>2 DEF Took
  <2>2. Alike(n, f, h)
    BY <1>2, <1>3, <2>1 DEF Alike
  <2> QED BY <1>1, <2>2, SameSteps
<1>5. f[n] = h[n]
  <2>1. n \in 0 .. n
    BY <1>1
  <2> QED BY <1>4, <2>1 DEF Same
<1>6. h[n + 1] = Took(hs, n + 1, h[n])
  <2>1. n + 1 \in 1 .. Len(hs) /\ (n + 1) - 1 = n
    BY <1>1
  <2> QED BY <1>3, <2>1
<1> QED BY <1>1, <1>2, <1>3, <1>5, <1>6 DEF Took, n, hs

-----------------------------------------------------------------------------
\* What is linted stays what it is.
Kept ==
    /\ \E n \in DOMAIN Runs : request \in Runs[n]
    /\ comments = request.comments
    /\ ds = <<>> \/ ds = FromFile(comments)
    /\ settings # None => Lists(settings.source)
    /\ stage = "linting" \/ exit = "emit" => settings # None

LEMMA InitKept == Init => Kept
BY DEF Init, LintInit, Kept

LEMMA StepKept == Kept /\ [Next]_vars => Kept'
<1> SUFFICES ASSUME Kept, [Next]_vars PROVE Kept'
  OBVIOUS
<1>1. CASE Configure
  <2>1. UNCHANGED <<request, comments>> /\ (ds' = ds \/ ds' = FromFile(comments))
    BY <1>1 DEF Configure, Start, lintVars
  <2>2. settings' # None => Lists(settings'.source)
    <3>1. settings' = Configured(request.disk, request.level, request.cli)
      BY <1>1 DEF Configure
    <3>2. IsFiniteSet(DOMAIN request.disk)
          /\ \A p \in DOMAIN request.disk : request.disk[p] # None => IsFile(request.disk[p])
      BY RunsAssumption DEF Kept
    <3> QED BY <3>1, <3>2, ConfiguredLists
  <2>3. stage' = "linting" \/ exit' = "emit" => settings' # None
    BY <1>1 DEF Configure, Start, lintVars
  <2> QED BY <2>1, <2>2, <2>3 DEF Kept
<1>2. CASE /\ UNCHANGED <<request, settings, comments, ds>>
           /\ stage' = stage \/ stage' = "merged"
           /\ exit' \in {exit, "internal"} \/ stage = "linting"
  BY <1>2 DEF Kept
<1>3. CASE Rule
  BY <1>2, <1>3 DEF Rule, Filter
<1>4. CASE NextContext \/ Emit
  BY <1>2, <1>4 DEF NextContext, NextVariant, Emit, Merge
<1>5. CASE Ask \/ Fail \/ Answer \/ World \/ UNCHANGED vars
  BY <1>2, <1>5 DEF Ask, Fail, Answer, World, lintVars, vars
<1> QED BY <1>1, <1>3, <1>4, <1>5 DEF Next, Lint

LEMMA KeptStacksPair == Kept => StacksPair
<1> SUFFICES ASSUME Kept PROVE StacksPair
  OBVIOUS
<1>1. CASE ds = <<>>
  <2>1. Lines(ds) = {}
    BY <1>1 DEF Lines
  <2> QED BY <2>1 DEF StacksPair
<1>2. CASE ds = FromFile(comments)
  <2>1. /\ IsSeq(comments)
        /\ \A i \in DOMAIN comments : comments[i].line \in Nat /\ IsSeq(comments[i].lines)
        /\ \A i, j \in DOMAIN comments : i <= j => comments[i].line <= comments[j].line
    BY RunsAssumption DEF Kept
  <2>2. InOrder(ds)
    BY <1>2, <2>1, FromFileInOrder
  <2> QED BY <2>2, OrderedPair
<1> QED BY <1>1, <1>2 DEF Kept

\* blockSuppresses (pkg/lint/suppress/matcher.go): for every text, line and id the
\* directives that hide findings there are the disables that no enable pairs with,
\* as brackets pair; ids do not disturb each other.
THEOREM StacksAlwaysPair == Spec => []StacksPair
BY InitKept, StepKept, KeptStacksPair, PTL DEF Spec

-----------------------------------------------------------------------------
\* What has been found is what the answers say, unless the last of them was refused.
Collected == IInv /\ (outcome # "failed" => found = AnswersOf(given))

LEMMA InitCollected == ExternalInit => Collected
<1> SUFFICES ASSUME ExternalInit PROVE Collected
  OBVIOUS
<1>1. given = <<>> /\ found = <<>>
  BY DEF ExternalInit
<1>0. <<>> \in Seq(Given)
  OBVIOUS
<1>2. PICK f \in [0 .. Len(<<>>) -> Seq(Diagnostics)] : AnswersOf(<<>>) = f[Len(<<>>)] /\ f[0] = <<>>
  BY <1>0, AnswersSteps
<1> QED BY <1>1, <1>2, InitInv DEF Collected

LEMMA StepCollected ==
    ASSUME Collected, [ExternalNext]_externalVars
    PROVE  Collected'
<1>1. IInv'
  BY StepInv DEF Collected
<1>2. CASE Finish
  <2> SUFFICES ASSUME outcome' # "failed" PROVE found' = AnswersOf(given')
    BY <1>1 DEF Collected
  <2> DEFINE g == [answer |-> answer, written |-> written, code |-> code, alone |-> ~foreign]
  <2>1. outcome = "running" /\ Accepted /\ given' = Append(given, g)
        /\ found' = found \o answer.diagnostics
    BY <1>2 DEF Finish
  <2>2. g \in Given /\ given \in Seq(Given)
    BY <2>1 DEF Collected, IInv, TypeOK, Given
  <2>3. AnswersOf(given') = AnswersOf(given) \o g.answer.diagnostics
    <3> HIDE DEF g
    <3> QED BY <2>1, <2>2, AnswersAppend
  <2> QED BY <2>1, <2>3 DEF Collected
<1>3. CASE UNCHANGED <<given, found>> /\ (outcome' = outcome \/ outcome # "failed")
  BY <1>1, <1>3 DEF Collected
<1>4. CASE \E n \in Nat : Begin(n)
  BY <1>3, <1>4 DEF Begin
<1>5. CASE Again
  BY <1>3, <1>5 DEF Again
<1>6. CASE Program \/ Receive \/ Deadline \/ Reap
  BY <1>3, <1>6 DEF Program, WriteChunk, Fork, Exit, ChildWrites, ChildEnds, Receive, Deadline, Reap
<1>7. CASE UNCHANGED externalVars
  BY <1>3, <1>7 DEF externalVars
<1> QED BY <1>2, <1>4, <1>5, <1>6, <1>7 DEF ExternalNext, Linter

\* Every step of a lint is a step of the programs, or none.
LEMMA LintSteps == Kept /\ [Next]_vars => [ExternalNext]_externalVars
<1> SUFFICES ASSUME Kept, [Next]_vars PROVE [ExternalNext]_externalVars
  OBVIOUS
<1>1. CASE Configure \/ Rule \/ Emit \/ Fail
  BY <1>1 DEF Configure, Rule, Emit, Fail
<1>2. CASE Ask
  <2>1. Begin(Len(settings.source.externals))
    BY <1>2 DEF Ask
  <2>2. Len(settings.source.externals) \in Nat
    BY <1>2 DEF Ask, Kept, Lists, IsSeq
  <2> QED BY <2>1, <2>2 DEF ExternalNext
<1>3. CASE NextContext \/ Answer \/ World
  BY <1>3 DEF NextContext, Answer, World, ExternalNext
<1>4. CASE UNCHANGED vars
  BY <1>4 DEF vars
<1> QED BY <1>1, <1>2, <1>3, <1>4 DEF Next, Lint

\* How many answers there are: those of the programs in the contexts that are done, and
\* of those that have been asked in this one.
Asking == Len(settings.source.externals)
Counted ==
    /\ stage \in {"waiting", "linting", "merged"}
    /\ stage = "waiting" => given = <<>> /\ outcome = "idle" /\ reports = <<>>
    /\ IsList(reports)
    /\ stage = "linting" =>
          /\ total \in Nat /\ Len(reports) < total
          /\ exit # "emit"
          /\ outcome = "idle" => Len(given) = Asking * Len(reports)
          /\ outcome = "running" => /\ programs = Asking /\ nth \in 1 .. Asking
                                    /\ Len(given) = Asking * Len(reports) + nth - 1
          /\ outcome = "done" => Len(given) = Asking * (Len(reports) + 1)
    /\ stage = "merged" =>
          Len(given) = Asking * total /\ outcome \in {"idle", "done"} /\ exit = "emit"

LEMMA InitCounted == Init => Counted
<1> SUFFICES ASSUME Init PROVE Counted
  OBVIOUS
<1>1. <<>> \in Seq({<<>>[i] : i \in DOMAIN <<>>})
  OBVIOUS
<1> QED BY <1>1 DEF Init, LintInit, ExternalInit, Counted, IsList

\* An answer that is not refused is one more, and the next program is asked.
LEMMA FinishCounts ==
    ASSUME IInv, Finish, outcome' # "failed"
    PROVE  /\ Len(given') = Len(given) + 1 /\ outcome = "running" /\ UNCHANGED programs
           /\ \/ nth = programs /\ outcome' = "done"
              \/ nth # programs /\ outcome' = "running" /\ nth' = nth + 1
<1>1. given \in Seq(Given) /\ outcome = "running" /\ answer \in Answers
  BY DEF IInv, TypeOK, Finish
<1> DEFINE g == [answer |-> answer, written |-> written, code |-> code, alone |-> ~foreign]
<1>2. g \in Given /\ given' = Append(given, g)
  BY <1>1 DEF IInv, TypeOK, Given, Finish
<1>3. Len(given') = Len(given) + 1
  <2> HIDE DEF g
  <2> QED BY <1>1, <1>2
<1>4. Accepted
  BY DEF Finish
<1> QED BY <1>1, <1>3, <1>4 DEF Finish

LEMMA Times ==
    ASSUME NEW e \in Nat, NEW n \in Nat
    PROVE  e * n \in Nat /\ e * (n + 1) = e * n + e /\ e * 0 = 0 /\ 0 * n = 0
OBVIOUS

LEMMA StepCounted ==
    ASSUME Kept, Collected, Counted, [Next]_vars
    PROVE  Counted'
<1> USE DEF Counted
<1>1. CASE Configure
  <2>1. /\ stage = "waiting" /\ exit = "none" /\ given = <<>> /\ outcome = "idle" /\ reports = <<>>
        /\ UNCHANGED <<given, outcome, reports, programs, nth>>
    BY <1>1 DEF Configure, Start, lintVars, externalVars
  <2>2. CASE UNCHANGED stage
    BY <2>1, <2>2
  <2>3. CASE ~UNCHANGED stage
    <3>1. /\ stage' = "linting" /\ exit' = exit /\ settings' # None
          /\ total' = Contexts(settings', request) /\ total' # 0
      BY <1>1, <2>3 DEF Configure, Start, lintVars
    <3>2. Lists(settings'.source)
      BY <1>1, <3>1, StepKept DEF Kept
    <3>3. total' \in Nat
      BY <3>1, <3>2, ContextsType
    <3>4. Asking' \in Nat /\ Asking' * 0 = 0
      <4>1. Asking' \in Nat
        BY <3>2 DEF Lists, IsSeq, Asking
      <4> HIDE DEF Asking
      <4> QED BY <4>1, Times
    <3>5. Len(reports') = 0 /\ Len(given') = 0 /\ IsList(reports') /\ outcome' = "idle"
      BY <2>1
    <3>6. exit' # "emit"
      BY <2>1, <3>1
    <3>7. Len(given') = Asking' * Len(reports')
      BY <3>4, <3>5
    <3>8. Len(reports') < total'
      BY <3>1, <3>3, <3>5
    <3> QED BY <3>1, <3>3, <3>5, <3>6, <3>7, <3>8
  <2> QED BY <2>2, <2>3
<1>2. CASE Rule \/ Fail \/ UNCHANGED vars
  BY <1>2 DEF Rule, Filter, Fail, vars, externalVars, lintVars, Asking
<1>3. ASSUME stage = "linting"
      PROVE  Asking \in Nat /\ Len(reports) \in Nat /\ Asking * Len(reports) \in Nat
             /\ Asking * (Len(reports) + 1) = Asking * Len(reports) + Asking
             /\ Asking * 0 = 0
  <2>1. Asking \in Nat
    BY <1>3 DEF Kept, Lists, IsSeq, Asking
  <2>2. Len(reports) \in Nat
    BY Longer
  <2> QED BY <2>1, <2>2, Times
<1>4. CASE Ask
  <2>1. /\ stage = "linting" /\ exit = "none" /\ outcome = "idle" /\ programs' = Asking
        /\ Asking > 0 /\ nth' = 1 /\ outcome' = "running"
        /\ UNCHANGED <<stage, exit, settings, total, reports, given>>
    BY <1>4 DEF Ask, Begin, lintVars, Asking
  <2>2. Asking' = Asking
    BY <2>1 DEF Asking
  <2> HIDE DEF Asking
  <2> QED BY <1>3, <2>1, <2>2
<1>5. CASE Answer \/ World
  <2>1. UNCHANGED <<stage, exit, settings, total, reports>> /\ Asking' = Asking
    BY <1>5 DEF Answer, World, lintVars, Asking
  <2>2. CASE UNCHANGED <<given, outcome, programs, nth>>
    BY <2>1, <2>2
  <2>3. CASE Finish
    <3>1. outcome = "running" /\ stage = "linting"
      BY <2>3 DEF Finish
    <3>2. CASE outcome' = "failed"
      BY <2>1, <3>1, <3>2
    <3>3. CASE outcome' # "failed"
      <4>1. /\ Len(given') = Len(given) + 1 /\ UNCHANGED programs
            /\ \/ nth = programs /\ outcome' = "done"
               \/ nth # programs /\ outcome' = "running" /\ nth' = nth + 1
        BY <2>3, <3>3, FinishCounts DEF Collected
      <4> DEFINE before == Asking * Len(reports)
      <4>2. /\ before \in Nat /\ Asking * (Len(reports) + 1) = before + Asking
            /\ programs = Asking /\ nth \in 1 .. Asking /\ Asking \in Nat
            /\ Len(given) = before + nth - 1 /\ total \in Nat /\ Len(reports) < total
            /\ exit # "emit" /\ IsList(reports)
        BY <1>3, <3>1
      <4>3. Asking' * Len(reports') = before
        BY <2>1
      <4>4. Asking' * (Len(reports') + 1) = before + Asking
        BY <2>1, <4>2
      <4> HIDE DEF Asking, before
      <4>5. CASE nth = programs /\ outcome' = "done"
        <5>1. Len(given') = before + Asking
          BY <4>1, <4>2, <4>5
        <5> QED BY <2>1, <3>1, <4>2, <4>4, <4>5, <5>1
      <4>6. CASE nth # programs /\ outcome' = "running" /\ nth' = nth + 1
        <5>1. Len(given') = before + nth' - 1 /\ nth' \in 1 .. Asking
          BY <4>1, <4>2, <4>6
        <5> QED BY <2>1, <3>1, <4>1, <4>2, <4>3, <4>6, <5>1
      <4> QED BY <4>1, <4>5, <4>6
    <3> QED BY <3>2, <3>3
  <2> QED BY <1>5, <2>2, <2>3 DEF Answer, World, Linter, Program, WriteChunk, Fork, Exit,
                                  ChildWrites, ChildEnds, Receive, Deadline, Reap
<1>6. CASE NextContext \/ Emit
  <2>1. /\ stage = "linting" /\ exit = "none" /\ reports' = Append(reports, Judged)
        /\ UNCHANGED <<settings, total, given>> /\ Asking' = Asking
    BY <1>6 DEF NextContext, NextVariant, Again, Emit, Merge, Asked, externalVars, Asking
  <2>2. IsList(reports') /\ Len(reports') = Len(reports) + 1
    BY <2>1, Longer
  <2>3. Len(given) = Asking * (Len(reports) + 1)
    <3>1. CASE outcome = "done"
      BY <2>1, <3>1
    <3>2. CASE outcome = "idle" /\ settings.source.externals = <<>>
      <4>1. Asking = 0 /\ Len(given) = Asking * Len(reports)
        BY <2>1, <3>2 DEF Asking
      <4> HIDE DEF Asking
      <4> QED BY <1>3, <2>1, <4>1
    <3> QED BY <1>6, <3>1, <3>2 DEF NextContext, Emit, Asked
  <2>4. CASE NextContext
    <3>1. stage' = "linting" /\ exit' = exit /\ outcome' = "idle" /\ Len(reports) + 1 < total
      BY <2>4 DEF NextContext, NextVariant, Again
    <3> HIDE DEF Asking
    <3> QED BY <2>1, <2>2, <2>3, <3>1
  <2>5. CASE Emit
    <3>1. /\ stage' = "merged" /\ exit' = "emit" /\ Len(reports) + 1 = total
          /\ outcome' = outcome /\ outcome \in {"idle", "done"}
      BY <2>5 DEF Emit, Merge, Asked, externalVars
    <3> HIDE DEF Asking
    <3> QED BY <2>1, <2>2, <2>3, <3>1
  <2> QED BY <1>6, <2>4, <2>5
<1> QED BY <1>1, <1>2, <1>4, <1>5, <1>6 DEF Next, Lint

AInv == Kept /\ Collected /\ Counted

LEMMA InitA == Init => AInv
BY InitKept, InitCollected, InitCounted DEF Init, AInv

LEMMA StepA == AInv /\ [Next]_vars => AInv'
BY StepKept, LintSteps, StepCollected, StepCounted DEF AInv

LEMMA AIsWhole == AInv => AnswersAreWholeOrNothing
<1> SUFFICES ASSUME AInv PROVE AnswersAreWholeOrNothing
  OBVIOUS
<1>1. WholeAnswers
  BY DEF AInv, Collected, IInv, WholeAnswers
<1>2. ASSUME exit = "emit"
      PROVE  Len(given) = Asking * (IF stage = "waiting" THEN 0 ELSE total)
  <2>1. CASE stage = "waiting"
    <3>1. Asking \in Nat
      BY <1>2 DEF AInv, Kept, Lists, IsSeq, Asking
    <3>2. Len(given) = 0 /\ Asking * 0 = 0
      BY <2>1, <3>1, Times DEF AInv, Counted
    <3> QED BY <2>1, <3>2
  <2>2. CASE stage # "waiting"
    BY <1>2, <2>2 DEF AInv, Counted
  <2> QED BY <2>1, <2>2
<1> QED BY <1>1, <1>2 DEF AnswersAreWholeOrNothing, Asking

\* Run of internal/external under runFiles, runConfiguredBuilds and runStdin: whatever
\* programs write, leave behind or suffer, what is emitted has the answers of every
\* configured program in every context, each of them whole, and nothing else; a program
\* that fails leaves nothing to emit.
THEOREM AnswersAlwaysWholeOrNothing == Spec => []AnswersAreWholeOrNothing
BY InitA, StepA, AIsWhole, PTL DEF Spec

-----------------------------------------------------------------------------
\* The directives of a file: a list in the order of the text, of finitely many ids each.
LEMMA DirectivesShape ==
    ASSUME Kept
    PROVE  InOrder(ds) /\ IsList(ds) /\ \A i \in DOMAIN ds : IsFiniteSet(ds[i].names)
<1>1. CASE ds = <<>>
  <2>1. IsSeq(ds) /\ DOMAIN ds = {} /\ ds \in Seq({ds[i] : i \in DOMAIN ds})
    BY <1>1 DEF IsSeq
  <2> QED BY <2>1 DEF InOrder, IsList
<1>2. CASE ds = FromFile(comments)
  <2> DEFINE M == UNION {MadeOf(comments[n]) : n \in DOMAIN comments}
  <2>1. /\ IsSeq(comments)
        /\ \A i \in DOMAIN comments :
              /\ comments[i].line \in Nat /\ IsSeq(comments[i].lines)
              /\ \A k \in DOMAIN comments[i].lines : IsSeq(comments[i].lines[k].ids)
        /\ \A i, j \in DOMAIN comments : i <= j => comments[i].line <= comments[j].line
    BY RunsAssumption DEF Kept
  <2>2. InOrder(ds) /\ ds \in Seq(M)
    BY <1>2, <2>1, FromFileInOrder
  <2>3. \A m \in M : IsFiniteSet(m.names)
    <3> SUFFICES ASSUME NEW n \in DOMAIN comments, NEW m \in MadeOf(comments[n])
                 PROVE  IsFiniteSet(m.names)
      OBVIOUS
    <3>1. PICK k \in DOMAIN comments[n].lines : m = Made(comments[n], k)
      BY DEF MadeOf
    <3>2. m.names = Listed(comments[n].lines[k].ids)
      BY <3>1 DEF Made
    <3> QED BY <2>1, <3>2, ListedIsFinite
  <2> HIDE DEF M
  <2>4. \A i \in 1 .. Len(ds) : ds[i] \in M
    BY <2>2
  <2>5. DOMAIN ds = 1 .. Len(ds) /\ Len(ds) \in Nat
    BY <2>2
  <2>6. ds \in Seq({ds[i] : i \in DOMAIN ds})
    <3> DEFINE T == {ds[i] : i \in DOMAIN ds}
    <3>1. \A i \in 1 .. Len(ds) : ds[i] \in T
      BY <2>5
    <3> HIDE DEF T
    <3>2. ds \in Seq(T)
      BY <2>2, <2>5, <3>1
    <3> QED BY <3>2 DEF T
  <2> QED BY <2>2, <2>3, <2>4, <2>5, <2>6 DEF IsList
<1> QED BY <1>1, <1>2 DEF Kept

LEMMA InitMarked == Init => Marked
<1> SUFFICES ASSUME Init PROVE Marked
  OBVIOUS
<1> QED BY DEF Init, LintInit, Marked

LEMMA StepMarked == Marked /\ [Next]_vars => Marked'
<1> SUFFICES ASSUME Marked, [Next]_vars PROVE Marked'
  OBVIOUS
<1>1. CASE UNCHANGED lintVars
  BY <1>1 DEF Marked, lintVars
<1>2. CASE Configure /\ ~UNCHANGED lintVars
  <2>1. stage' = "linting" /\ raw' \in Raised(enabled', ds') /\ todo' = raw'
    BY <1>2 DEF Configure, Start
  <2> QED BY <2>1, RaisedByRules DEF Marked
<1>3. CASE Rule
  <2>1. PICK f \in todo : Filter(f)
    BY <1>3 DEF Rule
  <2>2. /\ stage = "linting" /\ stage' = stage /\ raw' = raw /\ ds' = ds /\ todo' = todo \ {f}
        /\ used' = used \cup Marks(ds, f)
    BY <2>1 DEF Filter
  <2>3. \A g \in raw' \ todo' : Marks(ds', g) \subseteq used'
    BY <2>2 DEF Marked
  <2> QED BY <2>2, <2>3 DEF Marked
<1>4. CASE NextContext
  <2>1. stage = "linting" /\ stage' = stage /\ raw' \in Raised(enabled, ds) /\ todo' = raw'
    BY <1>4 DEF NextContext, NextVariant
  <2> QED BY <2>1, RaisedByRules DEF Marked
<1>5. CASE Emit
  <2>1. stage' = "merged" /\ UNCHANGED <<ds, raw, todo, used>>
    BY <1>5 DEF Emit, Merge
  <2>2. \A g \in raw' \ todo' : Marks(ds', g) \subseteq used'
    BY <2>1 DEF Marked
  <2> QED BY <2>1, <2>2 DEF Marked
<1>6. CASE Ask \/ Fail \/ Answer \/ World \/ UNCHANGED vars
  BY <1>1, <1>6 DEF Ask, Fail, Answer, World, vars
<1> QED BY <1>1, <1>2, <1>3, <1>4, <1>5, <1>6 DEF Next, Lint

LEMMA InitTold == Init => Told
<1> SUFFICES ASSUME Init PROVE Told
  OBVIOUS
<1> QED BY DEF Init, LintInit, Told

LEMMA StepTold ==
    ASSUME Kept, Counted, Marked, Told, [Next]_vars
    PROVE  Told'
<1>0. InOrder(ds) /\ DOMAIN ds = 1 .. Len(ds) /\ Len(ds) \in Nat
      /\ \A i \in DOMAIN ds : IsFiniteSet(ds[i].names)
  BY DirectivesShape DEF InOrder, IsSeq
<1>1. CASE UNCHANGED lintVars
  BY <1>1 DEF Told, lintVars, AgreedOn, Alone, Unused, Ranges, Lines, Merged, Count, Outdated, KindOf
<1>2. CASE Configure /\ ~UNCHANGED lintVars
  <2>1. stage = "waiting" /\ stage' = "linting" /\ UNCHANGED <<used, hid, reports>>
    BY <1>2 DEF Configure, Start
  <2>2. used' = {} /\ hid' = {} /\ reports' = <<>> /\ DOMAIN reports' = {}
    BY <2>1 DEF Marked
  <2>3. \A i \in DOMAIN ds' : AgreedOn(i)'
    BY <2>1, <2>2 DEF AgreedOn, Unused
  <2> QED BY <2>1, <2>2, <2>3 DEF Told
<1>3. CASE Rule
  <2>1. PICK f \in todo : Filter(f)
    BY <1>3 DEF Rule
  <2>2. /\ stage = "linting" /\ UNCHANGED <<stage, ds, reports, enabled>>
        /\ used' = used \cup Marks(ds, f) /\ hid' = hid \cup Marks(ds, f)
    BY <2>1 DEF Filter
  <2>3. ASSUME NEW i \in DOMAIN ds, AgreedOn(i) PROVE AgreedOn(i)'
    BY <2>2, <2>3 DEF AgreedOn, Unused
  <2>4. \A i : Alone(i)' <=> Alone(i)
    BY <2>2 DEF Alone
  <2>5. Ranges(ds)' = Ranges(ds)
    BY <2>2 DEF Ranges, Lines
  <2> QED BY <2>2, <2>3, <2>4, <2>5 DEF Told
<1>4. CASE NextContext \/ Emit
  <2>1. /\ stage = "linting" /\ reports' = Append(reports, Judged) /\ UNCHANGED <<ds, enabled, hid, comments>>
        /\ \/ stage' = "linting" /\ used' = {}
           \/ /\ stage' = "merged"
              /\ merged' = Merged(ds, reports', merging) \cup (Outdated(comments) \X {"renamed"})
              /\ merging' = merging
    BY <1>4 DEF NextContext, NextVariant, Emit, Merge
  <2> DEFINE n == Len(reports)
  <2>2. /\ n \in Nat /\ DOMAIN reports = 1 .. n
        /\ DOMAIN reports' = (1 .. n) \cup {n + 1}
        /\ \A v \in 1 .. n : reports'[v] = reports[v]
        /\ reports'[n + 1] = Judged /\ reports' # <<>>
    BY <2>1, MoreReports DEF Counted
  <2> HIDE DEF n
  <2>3. Ranges(ds)' = Ranges(ds) /\ \A i : Alone(i)' <=> Alone(i)
    BY <2>1 DEF Ranges, Lines, Alone
  <2>4. \A v \in DOMAIN reports', r \in Ranges(ds)' : reports'[v][r] \in Nat
    <3>1. \A r \in Ranges(ds) : Judged[r] \in Nat
      BY <1>0, JudgedCounts
    <3> QED BY <2>2, <2>3, <3>1 DEF Told
  <2>5. ASSUME SuppressionID \in enabled, NEW i \in DOMAIN ds, Alone(i) PROVE AgreedOn(i)'
    <3> DEFINE k == <<ds[i].line, "whole">>
    <3>1. Judged[k] = IF i \in Unused(ds, used) THEN 1 ELSE 0
      BY <1>0, <2>5, AloneJudged
    <3>2. /\ \A v \in 1 .. n : reports[v][k] \in {0, 1}
          /\ i \in Unused(ds, hid) <=> i \in Unused(ds, used) /\ \A v \in 1 .. n : reports[v][k] = 1
      BY <2>1, <2>2, <2>5 DEF Told, AgreedOn
    <3>3. \A v \in DOMAIN reports' : reports'[v][k] \in {0, 1}
      BY <2>2, <3>1, <3>2
    <3>4. (\A v \in DOMAIN reports' : reports'[v][k] = 1)
             <=> i \in Unused(ds, used) /\ \A v \in 1 .. n : reports[v][k] = 1
      BY <2>2, <3>1
    <3>5. Unused(ds, hid)' = Unused(ds, hid) /\ k' = k
      BY <2>1 DEF Unused
    <3>6. stage' = "linting" => (i \in Unused(ds, used) => i \in Unused(ds', used'))
      BY <2>1 DEF Unused
    <3> QED BY <2>1, <3>2, <3>3, <3>4, <3>5, <3>6 DEF AgreedOn
  <2>6. stage' = "merged" =>
           merged' = Merged(ds', reports', merging') \cup (Outdated(comments') \X {"renamed"})
    BY <2>1
  <2> QED BY <2>1, <2>2, <2>3, <2>4, <2>5, <2>6 DEF Told
<1>5. CASE Ask \/ Fail \/ Answer \/ World \/ UNCHANGED vars
  BY <1>1, <1>5 DEF Ask, Fail, Answer, World, vars
<1> QED BY <1>1, <1>2, <1>3, <1>4, <1>5 DEF Next, Lint

\* A report that no context makes twice is left if all of them make it.
LEMMA ToldIsAgreed ==
    ASSUME Counted, Told
    PROVE  SinglesAreAgreed
<1> SUFFICES ASSUME stage = "merged", merging = "variants", SuppressionID \in enabled
             PROVE  /\ \A k \in Ranges(ds) : Single(k) => (k \in merged <=> Agreed(k))
                    /\ \A i \in DOMAIN ds :
                          Alone(i) => (<<ds[i].line, "whole">> \in merged <=> i \in Unused(ds, hid))
  BY DEF SinglesAreAgreed
<1> DEFINE n == Len(reports)
<1>1. n \in Nat /\ DOMAIN reports = 1 .. n /\ n >= 1
  <2> DEFINE T == {reports[i] : i \in DOMAIN reports}
  <2>1. reports \in Seq(T) /\ reports # <<>>
    BY DEF Counted, IsList, Told
  <2> HIDE DEF T
  <2> QED BY <2>1
<1>2. ASSUME NEW k \in Ranges(ds) PROVE k \in merged <=> k \in Merged(ds, reports, merging)
  <2>1. k \notin Outdated(comments) \X {"renamed"}
    BY DEF Ranges
  <2> QED BY <2>1 DEF Told
<1> HIDE DEF n
<1>3. ASSUME NEW k \in Ranges(ds), Single(k) PROVE k \in merged <=> Agreed(k)
  <2>1. \A v \in 1 .. n : reports[v][k] \in {0, 1}
    <3>1. ASSUME NEW v \in 1 .. n PROVE reports[v][k] \in Nat /\ reports[v][k] <= 1
      BY <1>1, <1>3 DEF Told, Single
    <3> QED BY <3>1
  <2>2. Agreed(k) <=> \A v \in 1 .. n : reports[v][k] = 1
    BY <1>1, <2>1 DEF Agreed
  <2>3. /\ Count(reports, k) \in 0 .. n
        /\ Count(reports, k) = n <=> \A v \in 1 .. n : reports[v][k] = 1
    BY <1>1, <2>1, CountSingles DEF n
  <2>4. k \in Merged(ds, reports, merging) <=> IF n = 1 THEN Count(reports, k) > 0
                                               ELSE Count(reports, k) = n
    BY DEF Merged, n
  <2>5. k \in Merged(ds, reports, merging) <=> Count(reports, k) = n
    BY <1>1, <2>3, <2>4
  <2> QED BY <1>2, <2>2, <2>3, <2>5
<1>4. ASSUME NEW i \in DOMAIN ds, Alone(i)
      PROVE  <<ds[i].line, "whole">> \in merged <=> i \in Unused(ds, hid)
  <2> DEFINE k == <<ds[i].line, "whole">>
  <2>1. k \in Ranges(ds)
    BY DEF Ranges, Lines
  <2>2. /\ \A v \in DOMAIN reports : reports[v][k] \in {0, 1}
        /\ i \in Unused(ds, hid) <=> \A v \in DOMAIN reports : reports[v][k] = 1
    BY <1>4 DEF Told, AgreedOn
  <2>3. Single(k)
    BY <2>2 DEF Single
  <2>4. Agreed(k) <=> \A v \in DOMAIN reports : reports[v][k] = 1
    BY <2>2 DEF Agreed
  <2> QED BY <1>3, <2>1, <2>2, <2>3, <2>4
<1> QED BY <1>3, <1>4

LEMMA KeptIsIdle ==
    ASSUME Kept, Marked
    PROVE  LooseIsIdle
<1> DEFINE V == {ds[i] : i \in DOMAIN ds}
<1>1. InOrder(ds) /\ ds \in Seq(V)
  BY DirectivesShape DEF IsList
<1> HIDE DEF V
<1> QED BY <1>1, MarkedIsIdle

\* IsSuppressed, unusedSuppressionDiagnostics and
\* mergeVariantDiagnostics: for all texts, findings, variants and builds, the unused
\* directives that no later enable could pair with, and the enables that find nothing open,
\* can all be taken out and hide nothing; and when variants are merged, of the reports none
\* of them makes twice those are left that all made, for a directive that is alone on its
\* line exactly if it hid nothing in any of them.
THEOREM DirectivesAlwaysIdle == Spec => []ReportedDirectivesAreIdle
<1> DEFINE Inv == AInv /\ Marked /\ Told
<1>1. Init => Inv
  BY InitA, InitMarked, InitTold
<1>2. Inv /\ [Next]_vars => Inv'
  BY StepA, StepMarked, StepTold DEF AInv
<1>3. Inv => ReportedDirectivesAreIdle
  BY KeptIsIdle, ToldIsAgreed DEF AInv, ReportedDirectivesAreIdle
<1> QED BY <1>1, <1>2, <1>3, PTL DEF Spec

-----------------------------------------------------------------------------
Suited == settings # None => Settled(settings)

LEMMA StepSuited == Kept /\ Suited /\ [Next]_vars => Suited'
<1> SUFFICES ASSUME Kept, Suited, [Next]_vars PROVE Suited'
  OBVIOUS
<1>1. CASE Configure
  <2>1. settings' = Configured(request.disk, request.level, request.cli)
    BY <1>1 DEF Configure
  <2>2. IsFiniteSet(DOMAIN request.disk)
        /\ \A p \in DOMAIN request.disk : request.disk[p] # None => IsFile(request.disk[p])
    BY RunsAssumption DEF Kept
  <2> QED BY <2>1, <2>2, ConfiguredSettles DEF Suited
<1>2. CASE UNCHANGED settings
  BY <1>2 DEF Suited
<1>3. CASE Rule \/ Ask \/ NextContext \/ Emit \/ Fail \/ Answer \/ World \/ UNCHANGED vars
  BY <1>2, <1>3 DEF Rule, Ask, NextContext, Emit, Fail, Answer, World, vars
<1> QED BY <1>1, <1>3 DEF Next, Lint

LEMMA SuitedSuffices == Suited => FeaturesSuffice
BY EnabledHaveFeatures DEF Suited, FeaturesSuffice, Configuring

\* ProjectFeatures (internal/config/features.go): for every registry, disk, preset chain
\* and flags, what any path enables is among what the project model is built with, so no
\* rule runs on a model without what it reads.
THEOREM FeaturesAlwaysSuffice == Spec => []FeaturesSuffice
<1>1. Init => Kept /\ Suited
  BY InitKept DEF Init, Suited
<1>2. Kept /\ Suited /\ [Next]_vars => Kept' /\ Suited'
  BY StepKept, StepSuited
<1> QED BY <1>1, <1>2, SuitedSuffices, PTL DEF Spec

-----------------------------------------------------------------------------
\* A file is linted if there is a context for it.
Picked == settings # None => (stage # "waiting" <=> Contexts(settings, request) # 0)

LEMMA StepPicked == Picked /\ [Next]_vars => Picked'
<1> SUFFICES ASSUME Picked, [Next]_vars PROVE Picked'
  OBVIOUS
<1>1. CASE Configure
  <2> SUFFICES ASSUME settings' # None
               PROVE  stage' # "waiting" <=> Contexts(settings', request') # 0
    BY DEF Picked
  <2>1. stage = "waiting" /\ request' = request
    BY <1>1 DEF Configure
  <2>2. CASE request.mode = "builds" /\ settings'.source.builds = <<>>
    <3>1. stage' = "waiting"
      BY <1>1, <2>1, <2>2 DEF Configure, lintVars
    <3>2. Contexts(settings', request) = 0
      <4>1. \A S : S \subseteq {} => Cardinality(S) = 0
        BY FS_EmptySet
      <4>2. DOMAIN settings'.source.builds = {}
        BY <2>2
      <4> QED BY <2>2, <4>1, <4>2 DEF Contexts
    <3> QED BY <2>1, <3>1, <3>2
  <2>3. CASE ~ (request.mode = "builds" /\ settings'.source.builds = <<>>)
    <3>1. CASE Contexts(settings', request) = 0
      <4>1. stage' = "waiting"
        BY <1>1, <2>1, <2>3, <3>1 DEF Configure, lintVars
      <4> QED BY <2>1, <3>1, <4>1
    <3>2. CASE Contexts(settings', request) # 0
      <4>1. stage' = "linting"
        BY <1>1, <2>1, <2>3, <3>2 DEF Configure, Start
      <4> QED BY <2>1, <3>2, <4>1
    <3> QED BY <3>1, <3>2
  <2> QED BY <2>2, <2>3
<1>2. CASE /\ UNCHANGED <<request, settings>>
           /\ stage' = stage \/ (stage = "linting" /\ stage' = "merged")
  BY <1>2 DEF Picked
<1>3. CASE Rule
  BY <1>2, <1>3 DEF Rule, Filter
<1>4. CASE NextContext \/ Emit
  BY <1>2, <1>4 DEF NextContext, NextVariant, Emit, Merge, Asked
<1>5. CASE Ask \/ Fail \/ Answer \/ World \/ UNCHANGED vars
  BY <1>2, <1>5 DEF Ask, Fail, Answer, World, lintVars, vars
<1> QED BY <1>1, <1>3, <1>4, <1>5 DEF Next, Lint

\* A file of the tree, below which there is nothing, is found by its own name or below
\* a directory.
LEMMA DiscoverMeans ==
    ASSUME NEW roots, NEW excludes, ArePatterns(excludes), NEW tree, NEW path \in tree,
           \A f \in tree : ~ Below(f, path), IsPlainPath(path), Len(path) > 0
    PROVE  path \in Discover(roots, excludes, tree, tree)
              <=> \/ path \in roots
                  \/ /\ \E r \in roots : Below(r, path)
                     /\ ~ \E k \in DOMAIN excludes :
                           MeansPath(excludes[k], path) \/ MeansPath(excludes[k], Base(path))
<1> DEFINE Out == \E k \in DOMAIN excludes :
                     MeansPath(excludes[k], path) \/ MeansPath(excludes[k], Base(path))
           Of(root) == IF root \in tree THEN {root} \cap tree
                       ELSE {f \in tree \cap tree : Below(root, f) /\ ~IsExcluded(excludes, f)}
<1>1. IsExcluded(excludes, path) <=> Out
  BY IsExcludedMeans
<1>2. ASSUME NEW root \in roots
      PROVE  path \in Of(root) <=> path = root \/ (Below(root, path) /\ ~Out)
  <2> HIDE DEF Out
  <2>1. ~ Below(path, path)
    OBVIOUS
  <2>2. CASE root \in tree
    BY <2>2
  <2>3. CASE root \notin tree
    BY <1>1, <2>3
  <2> QED BY <2>2, <2>3
<1>3. path \in Discover(roots, excludes, tree, tree) <=> \E root \in roots : path \in Of(root)
  BY DEF Discover
<1> HIDE DEF Of, Out
<1>4. path \in Discover(roots, excludes, tree, tree)
         <=> path \in roots \/ ((\E r \in roots : Below(r, path)) /\ ~Out)
  BY <1>2, <1>3
<1> QED BY <1>4 DEF Out

LEMMA ContextsMean ==
    ASSUME NEW r, Lists(r.source), NEW q, IsPlainPath(q.path), Len(q.path) > 0,
           q.mode # "stdin" => q.path \in q.tree /\ \A f \in q.tree : ~Below(f, q.path)
    PROVE  /\ q.mode = "paths" =>
                (Contexts(r, q) # 0 <=> q.path \in Discover(q.roots, r.source.exclude, q.tree, q.tree))
           /\ q.mode = "builds" =>
                (Contexts(r, q) # 0 <=> \E k \in DOMAIN r.source.builds :
                     LET b == r.source.builds[k]
                     IN  b.entry = q.path \/ (/\ \E n \in DOMAIN b.files : MeansPath(b.files[n], q.path)
                                              /\ ~ \E n \in DOMAIN b.exclude : MeansPath(b.exclude[n], q.path)))
<1>1. ASSUME q.mode = "paths"
      PROVE  Contexts(r, q) # 0 <=> q.path \in Discover(q.roots, r.source.exclude, q.tree, q.tree)
  BY <1>1 DEF Contexts
<1>2. ASSUME q.mode = "builds"
      PROVE  Contexts(r, q) # 0 <=> \E k \in DOMAIN r.source.builds :
                LET b == r.source.builds[k]
                IN  b.entry = q.path \/ (/\ \E n \in DOMAIN b.files : MeansPath(b.files[n], q.path)
                                         /\ ~ \E n \in DOMAIN b.exclude : MeansPath(b.exclude[n], q.path))
  <2> DEFINE B(k) == r.source.builds[k]
             S == {k \in DOMAIN r.source.builds :
                      q.path \in BuildFiles(q.tree, B(k).entry, B(k).files, B(k).exclude)}
  <2>1. Contexts(r, q) = Cardinality(S)
    BY <1>2 DEF Contexts
  <2>2. IsFiniteSet(S)
    <3>1. DOMAIN r.source.builds = 1 .. Len(r.source.builds) /\ Len(r.source.builds) \in Nat
      BY DEF Lists, AreBuilds, IsSeq
    <3>2. IsFiniteSet(DOMAIN r.source.builds)
      BY <3>1, FS_Interval
    <3> QED BY <3>2, FS_Subset
  <2>3. ASSUME NEW k \in DOMAIN r.source.builds
        PROVE  q.path \in BuildFiles(q.tree, B(k).entry, B(k).files, B(k).exclude)
                 <=> B(k).entry = q.path \/ (/\ \E n \in DOMAIN B(k).files : MeansPath(B(k).files[n], q.path)
                                             /\ ~ \E n \in DOMAIN B(k).exclude : MeansPath(B(k).exclude[n], q.path))
    <3>1. ArePatterns(B(k).files) /\ ArePatterns(B(k).exclude)
      BY DEF Lists, AreBuilds
    <3>2. q.path \in q.tree
      BY <1>2
    <3> HIDE DEF B
    <3> QED BY <3>1, <3>2, MatchesAnyMeans DEF BuildFiles
  <2>4. Cardinality(S) # 0 <=> S # {}
    <3> HIDE DEF S
    <3> QED BY <2>2, FS_EmptySet
  <2> QED BY <2>1, <2>3, <2>4
<1> QED BY <1>1, <1>2

LEMMA PickedMatches == PlainNames /\ Kept /\ Suited /\ Picked => GlobsMatch
<1> SUFFICES ASSUME PlainNames, Kept, Suited, Picked, Configuring
             PROVE  /\ \A k \in DOMAIN settings.overrides :
                          MatchesAny(settings.overrides[k].paths, request.path)
                             = Meant(settings.overrides[k].paths)
                    /\ request.mode = "paths" =>
                          (stage # "waiting" <=> \/ request.path \in request.roots
                                                 \/ /\ \E r \in request.roots : Below(r, request.path)
                                                    /\ ~Excluded(settings.source.exclude))
                    /\ request.mode = "builds" =>
                          (stage # "waiting" <=> \E k \in DOMAIN settings.source.builds :
                               LET b == settings.source.builds[k]
                               IN  b.entry = request.path \/ (Meant(b.files) /\ ~Meant(b.exclude)))
  BY DEF GlobsMatch
<1>1. /\ IsPlainPath(request.path) /\ Len(request.path) > 0
      /\ request.mode # "stdin" =>
            request.path \in request.tree /\ \A f \in request.tree : ~Below(f, request.path)
  BY RunsAssumption DEF Kept, PlainNames
<1>2. /\ Lists(settings.source) /\ Settled(settings)
      /\ stage # "waiting" <=> Contexts(settings, request) # 0
  BY DEF Configuring, Kept, Suited, Picked
<1>3. ASSUME NEW k \in DOMAIN settings.overrides
      PROVE  MatchesAny(settings.overrides[k].paths, request.path) = Meant(settings.overrides[k].paths)
  <2>1. ArePatterns(settings.overrides[k].paths)
    BY <1>2 DEF Settled, ArePaths
  <2>2. MatchesAny(settings.overrides[k].paths, request.path) <=> Meant(settings.overrides[k].paths)
    BY <1>1, <2>1, MatchesAnyMeans DEF Meant
  <2> QED BY <2>2, Zenon DEF MatchesAny, Meant
<1>4. ASSUME request.mode = "paths"
      PROVE  stage # "waiting" <=> \/ request.path \in request.roots
                                   \/ /\ \E r \in request.roots : Below(r, request.path)
                                      /\ ~Excluded(settings.source.exclude)
  <2>1. stage # "waiting" <=> request.path \in Discover(request.roots, settings.source.exclude,
                                                        request.tree, request.tree)
    BY <1>1, <1>2, <1>4, ContextsMean
  <2>2. ArePatterns(settings.source.exclude)
    BY <1>2 DEF Lists
  <2> QED BY <1>1, <1>4, <2>1, <2>2, DiscoverMeans DEF Excluded
<1>5. ASSUME request.mode = "builds"
      PROVE  stage # "waiting" <=> \E k \in DOMAIN settings.source.builds :
                LET b == settings.source.builds[k]
                IN  b.entry = request.path \/ (Meant(b.files) /\ ~Meant(b.exclude))
  BY <1>1, <1>2, <1>5, ContextsMean DEF Meant
<1> QED BY <1>3, <1>4, <1>5

\* MatchGlob (internal/project/glob.go), Discover, configuredBuildFiles: for all patterns,
\* trees, presets and builds, overrides apply to, and runs and builds take, the files
\* whose names the patterns mean, provided that no name has a star of its own.
THEOREM GlobsAlwaysMatch ==
    ASSUME PlainNames
    PROVE  Spec => []GlobsMatch
<1>1. Init => Kept /\ Suited /\ Picked
  BY InitKept DEF Init, Suited, Picked
<1>2. Kept /\ Suited /\ Picked /\ [Next]_vars => Kept' /\ Suited' /\ Picked'
  BY StepKept, StepSuited, StepPicked
<1>3. Kept /\ Suited /\ Picked => GlobsMatch
  BY PickedMatches
<1> QED BY <1>1, <1>2, <1>3, PTL DEF Spec

-----------------------------------------------------------------------------
\* The settings are what the configuration of the lint comes to, and stay so.
Meaning == settings # None => settings = Configured(request.disk, request.level, request.cli)

LEMMA StepMeaning == Meaning /\ [Next]_vars => Meaning'
<1> SUFFICES ASSUME Meaning, [Next]_vars PROVE Meaning'
  OBVIOUS
<1>1. CASE Configure
  BY <1>1 DEF Configure, Meaning
<1>2. CASE UNCHANGED <<request, settings>>
  BY <1>2 DEF Meaning
<1>3. CASE Rule \/ Ask \/ NextContext \/ Emit \/ Fail \/ Answer \/ World \/ UNCHANGED vars
  BY <1>2, <1>3 DEF Rule, Ask, NextContext, Emit, Fail, Answer, World, vars
<1> QED BY <1>1, <1>3 DEF Next, Lint

LEMMA MeaningIsLast == PlainNames /\ Kept /\ Meaning => LastWordWins
<1> SUFFICES ASSUME PlainNames, Kept, Meaning, Configuring, Flat(Top(request)), NEW id \in IDs
             PROVE  /\ \/ Disputed(request, Top(request), id)
                       \/ SeverityGiven(settings, request.path, id) = LastWord(request, Top(request), id)
                    /\ \A o \in NamesOf(Registry.rules[id].options) :
                          OptionGiven(settings, request.path, id, o) = OptionWord(request, Top(request), id, o)
  BY DEF LastWordWins
<1>1. /\ IsFiniteSet(DOMAIN request.disk) /\ IsPlainPath(request.path)
      /\ \A p \in DOMAIN request.disk : request.disk[p] # None => IsFile(request.disk[p])
  BY RunsAssumption DEF Kept, PlainNames
<1>2. settings = Configured(request.disk, request.level, request.cli) /\ settings # None
  BY DEF Meaning, Configuring
<1> QED BY <1>1, <1>2, ConfiguredIsLastWord

\* loadPresets, mergePreset, Resolve, ApplyCLIOverrides, EnabledForPath and
\* RuleConfigForPath: for every registry, disk, chain of presets and flags, the severity
\* and the options of a rule for a path are those said last: by --disable, --enable, the
\* last override that matches, the last file, the profile.  Left out, as in the property,
\* are presets of presets that undo what only they know, names with a star, and the
\* severity where only --profile and the rules of the files speak.
THEOREM LastWordAlwaysWins ==
    ASSUME PlainNames
    PROVE  Spec => []LastWordWins
<1>1. Init => Kept /\ Meaning
  BY InitKept DEF Init, Meaning
<1>2. Kept /\ Meaning /\ [Next]_vars => Kept' /\ Meaning'
  BY StepKept, StepMeaning
<1>3. Kept /\ Meaning => LastWordWins
  BY MeaningIsLast
<1> QED BY <1>1, <1>2, <1>3, PTL DEF Spec
=============================================================================
