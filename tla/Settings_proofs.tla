-------------------------- MODULE Settings_proofs --------------------------
(***************************************************************************)
(* Patterns and settings, for every registry, disk, chain of presets and   *)
(* path.                                                                   *)
(*   - The matching of patterns selects what they mean.  Both matchers are *)
(*     recursive functions: of each it is shown what its values are (a     *)
(*     function with these values satisfies the recursion) and that they   *)
(*     are the only ones (of the arguments at which two differ there is no *)
(*     least).                                                             *)
(*   - Loading is what its recursion says: no chain of presets goes on for *)
(*     ever.  What is loaded has the shape of a file.                      *)
(*   - What is enabled for a path is a rule that the project model is      *)
(*     built for.                                                          *)
(*   - What is merged, resolved, forced and layered is what was said last. *)
(***************************************************************************)
EXTENDS Settings, TLAPS, NaturalsInduction, WellFoundedInduction, FiniteSetTheorems

LEMMA Least ==
    ASSUME NEW T \in SUBSET Nat, T # {}
    PROVE  \E x \in T : \A y \in T : x <= y
<1>1. PICK x \in T : \A y \in T : ~ (<<y, x>> \in OpToRel(<, Nat))
  <2>1. IsWellFoundedOn(OpToRel(<, Nat), Nat)
    BY NatLessThanWellFounded
  <2> QED BY <2>1, WFMin
<1>2. ASSUME NEW y \in T PROVE x <= y
  <2>1. x \in Nat /\ y \in Nat
    OBVIOUS
  <2>2. ASSUME y < x PROVE FALSE
    <3>1. <<y, x>> \in OpToRel(<, Nat)
      BY <2>1, <2>2 DEF OpToRel
    <3> QED BY <3>1, <1>1
  <2> QED BY <2>1, <2>2
<1> QED BY <1>2

\* Induction, for a set of numbers.
LEMMA Induction ==
    ASSUME NEW S \in SUBSET Nat, 0 \in S, \A n \in S : n + 1 \in S
    PROVE  S = Nat
<1> SUFFICES ASSUME Nat \ S # {} PROVE FALSE
  OBVIOUS
<1>1. PICK x \in Nat \ S : \A y \in Nat \ S : x <= y
  BY Least
<1>2. x # 0 /\ x - 1 \in Nat
  BY <1>1
<1>3. x - 1 \in S
  BY <1>1, <1>2
<1> QED BY <1>1, <1>2, <1>3

-----------------------------------------------------------------------------
\* A way through n parts and m places: the first part, i, at place j, the last one up to
\* the end, where T says which part may reach from where to where.
Places(m) == 1 .. m + 1
IsWay(n, m, T, i, j, at) ==
    /\ at \in [i .. n + 1 -> Places(m)]
    /\ at[i] = j /\ at[n + 1] = m + 1
    /\ \A k \in i .. n : <<k, at[k], at[k + 1]>> \in T
Way(n, m, T, i, j) == \E at : IsWay(n, m, T, i, j, at)

LEMMA WayEnds ==
    ASSUME NEW n \in Nat, NEW m \in Nat, NEW T, NEW j \in Places(m)
    PROVE  Way(n, m, T, n + 1, j) <=> j = m + 1
<1>1. ASSUME j = m + 1 PROVE Way(n, m, T, n + 1, j)
  <2> DEFINE at == [k \in n + 1 .. n + 1 |-> j]
  <2>1. IsWay(n, m, T, n + 1, j, at)
    BY <1>1 DEF IsWay
  <2> QED BY <2>1 DEF Way
<1>2. ASSUME Way(n, m, T, n + 1, j) PROVE j = m + 1
  BY <1>2 DEF Way, IsWay
<1> QED BY <1>1, <1>2

LEMMA WayGoesOn ==
    ASSUME NEW n \in Nat, NEW m \in Nat, NEW T, NEW i \in 1 .. n, NEW j \in Places(m)
    PROVE  Way(n, m, T, i, j) <=> \E k \in Places(m) : <<i, j, k>> \in T /\ Way(n, m, T, i + 1, k)
<1>1. ASSUME Way(n, m, T, i, j)
      PROVE  \E k \in Places(m) : <<i, j, k>> \in T /\ Way(n, m, T, i + 1, k)
  <2>1. PICK at : IsWay(n, m, T, i, j, at)
    BY <1>1 DEF Way
  <2> DEFINE k == at[i + 1]
             rest == [l \in i + 1 .. n + 1 |-> at[l]]
  <2>2. k \in Places(m) /\ <<i, j, k>> \in T
    BY <2>1 DEF IsWay
  <2>3. IsWay(n, m, T, i + 1, k, rest)
    <3>1. rest \in [i + 1 .. n + 1 -> Places(m)] /\ rest[i + 1] = k /\ rest[n + 1] = m + 1
      BY <2>1 DEF IsWay
    <3>2. ASSUME NEW l \in i + 1 .. n PROVE <<l, rest[l], rest[l + 1]>> \in T
      <4>1. l \in i .. n /\ l \in i + 1 .. n + 1 /\ l + 1 \in i + 1 .. n + 1
        OBVIOUS
      <4>2. rest[l] = at[l] /\ rest[l + 1] = at[l + 1]
        BY <4>1
      <4> QED BY <2>1, <4>1, <4>2 DEF IsWay
    <3> QED BY <3>1, <3>2 DEF IsWay
  <2> QED BY <2>2, <2>3 DEF Way
<1>2. ASSUME NEW k \in Places(m), <<i, j, k>> \in T, Way(n, m, T, i + 1, k)
      PROVE  Way(n, m, T, i, j)
  <2>1. PICK at : IsWay(n, m, T, i + 1, k, at)
    BY <1>2 DEF Way
  <2> DEFINE all == [l \in i .. n + 1 |-> IF l = i THEN j ELSE at[l]]
  <2>2. all \in [i .. n + 1 -> Places(m)] /\ all[i] = j /\ all[n + 1] = m + 1
    <3>1. ASSUME NEW l \in i .. n + 1 PROVE all[l] \in Places(m)
      BY <2>1 DEF IsWay
    <3> QED BY <2>1, <3>1 DEF IsWay
  <2>3. ASSUME NEW l \in i .. n PROVE <<l, all[l], all[l + 1]>> \in T
    <3>1. l + 1 # i /\ l + 1 \in i .. n + 1 /\ all[l + 1] = at[l + 1]
      OBVIOUS
    <3>2. CASE l = i
      <4>1. all[l] = j /\ at[l + 1] = k
        BY <2>1, <3>2 DEF IsWay
      <4> QED BY <1>2, <3>1, <3>2, <4>1
    <3>3. CASE l # i
      <4>1. l \in i + 1 .. n /\ all[l] = at[l]
        BY <3>3
      <4>2. <<l, at[l], at[l + 1]>> \in T
        BY <2>1, <4>1 DEF IsWay
      <4> QED BY <3>1, <4>1, <4>2
    <3> QED BY <3>2, <3>3
  <2> HIDE DEF all
  <2>4. IsWay(n, m, T, i, j, all)
    BY <2>2, <2>3 DEF IsWay
  <2> QED BY <2>4 DEF Way
<1> QED BY <1>1, <1>2
-----------------------------------------------------------------------------
\* The rest of a pattern from i on lies on the rest of a text from j on.
SegSteps(p, s) ==
    {c \in (1 .. Len(p)) \X Places(Len(s)) \X Places(Len(s)) :
        IF p[c[1]] = "*" THEN c[2] <= c[3]
        ELSE c[3] = c[2] + 1 /\ p[c[1]] \in {"?", s[c[2]]}}
SegRest(p, s, i, j) == Way(Len(p), Len(s), SegSteps(p, s), i, j)

LEMMA MeansSegRest ==
    ASSUME NEW p, IsSeq(p), NEW s, IsSeq(s)
    PROVE  MeansSeg(p, s) <=> SegRest(p, s, 1, 1)
<1> DEFINE n == Len(p)
           m == Len(s)
           Step(i, at) == IF p[i] = "*" THEN at[i] <= at[i + 1]
                          ELSE at[i + 1] = at[i] + 1 /\ p[i] \in {"?", s[at[i]]}
<1>1. n \in Nat /\ m \in Nat /\ DOMAIN p = 1 .. n
  BY DEF IsSeq
<1>2. ASSUME NEW at \in [1 .. n + 1 -> Places(m)], NEW i \in 1 .. n
      PROVE  <<i, at[i], at[i + 1]>> \in SegSteps(p, s) <=> Step(i, at)
  <2>1. at[i] \in Places(m) /\ at[i + 1] \in Places(m)
    BY <1>1
  <2> QED BY <2>1 DEF SegSteps
<1>3. MeansSeg(p, s) <=> \E at \in [1 .. n + 1 -> Places(m)] :
                            at[1] = 1 /\ at[n + 1] = m + 1 /\ \A i \in 1 .. n : Step(i, at)
  BY <1>1 DEF MeansSeg, Layouts, Places
<1>4. SegRest(p, s, 1, 1) <=> \E at \in [1 .. n + 1 -> Places(m)] :
         at[1] = 1 /\ at[n + 1] = m + 1 /\ \A i \in 1 .. n : <<i, at[i], at[i + 1]>> \in SegSteps(p, s)
  BY DEF SegRest, Way, IsWay
<1> HIDE DEF Step
<1> QED BY <1>2, <1>3, <1>4

LEMMA SegRestEnds ==
    ASSUME NEW p, IsSeq(p), NEW s, IsSeq(s), NEW j \in Places(Len(s))
    PROVE  SegRest(p, s, Len(p) + 1, j) <=> j = Len(s) + 1
BY WayEnds DEF SegRest, IsSeq

LEMMA SegRestStar ==
    ASSUME NEW p, IsSeq(p), NEW s, IsSeq(s), NEW i \in 1 .. Len(p), NEW j \in Places(Len(s)),
           p[i] = "*"
    PROVE  SegRest(p, s, i, j) <=> \E k \in j .. Len(s) + 1 : SegRest(p, s, i + 1, k)
<1>1. Len(p) \in Nat /\ Len(s) \in Nat
  BY DEF IsSeq
<1>2. SegRest(p, s, i, j) <=> \E k \in Places(Len(s)) : <<i, j, k>> \in SegSteps(p, s) /\ SegRest(p, s, i + 1, k)
  BY <1>1, WayGoesOn DEF SegRest
<1>3. \A k \in Places(Len(s)) : <<i, j, k>> \in SegSteps(p, s) <=> j <= k
  BY DEF SegSteps
<1>4. \A k : k \in Places(Len(s)) /\ j <= k <=> k \in j .. Len(s) + 1
  BY <1>1 DEF Places
<1> QED BY <1>2, <1>3, <1>4

LEMMA SegRestPlain ==
    ASSUME NEW p, IsSeq(p), NEW s, IsSeq(s), NEW i \in 1 .. Len(p), NEW j \in Places(Len(s)),
           p[i] # "*"
    PROVE  SegRest(p, s, i, j) <=> j <= Len(s) /\ p[i] \in {s[j], "?"} /\ SegRest(p, s, i + 1, j + 1)
<1>1. Len(p) \in Nat /\ Len(s) \in Nat
  BY DEF IsSeq
<1>2. SegRest(p, s, i, j) <=> \E k \in Places(Len(s)) : <<i, j, k>> \in SegSteps(p, s) /\ SegRest(p, s, i + 1, k)
  BY <1>1, WayGoesOn DEF SegRest
<1>3. \A k \in Places(Len(s)) : <<i, j, k>> \in SegSteps(p, s) <=> k = j + 1 /\ p[i] \in {s[j], "?"}
  BY DEF SegSteps
<1>4. j + 1 \in Places(Len(s)) <=> j <= Len(s)
  BY <1>1 DEF Places
<1> QED BY <1>2, <1>3, <1>4

\* On nothing lie stars only.
LEMMA SegRestOnNothing ==
    ASSUME NEW p, IsSeq(p), NEW s, IsSeq(s), NEW i \in Places(Len(p))
    PROVE  SegRest(p, s, i, Len(s) + 1) <=> \A k \in i .. Len(p) : p[k] = "*"
<1> DEFINE n == Len(p)
           e == Len(s) + 1
           S == {d \in Nat : d <= n => (SegRest(p, s, n + 1 - d, e) <=> \A k \in n + 1 - d .. n : p[k] = "*")}
<1>1. n \in Nat /\ e \in Places(Len(s)) /\ Len(s) \in Nat
  BY DEF IsSeq, Places
<1>2. 0 \in S
  <2>1. SegRest(p, s, n + 1, e)
    BY <1>1, SegRestEnds
  <2>2. n + 1 - 0 = n + 1 /\ n + 1 .. n = {}
    BY <1>1
  <2> HIDE DEF n
  <2> QED BY <2>1, <2>2
<1>3. ASSUME NEW d \in S PROVE d + 1 \in S
  <2> SUFFICES ASSUME d + 1 <= n
               PROVE  SegRest(p, s, n + 1 - (d + 1), e) <=> \A k \in n + 1 - (d + 1) .. n : p[k] = "*"
    OBVIOUS
  <2> DEFINE q == n - d
  <2>1. d \in Nat /\ n + 1 - (d + 1) = q /\ n + 1 - d = q + 1 /\ q \in 1 .. n
    BY <1>1
  <2>2. SegRest(p, s, q + 1, e) <=> \A k \in q + 1 .. n : p[k] = "*"
    BY <1>1, <2>1
  <2>3. (\A k \in q .. n : p[k] = "*") <=> p[q] = "*" /\ \A k \in q + 1 .. n : p[k] = "*"
    <3>1. \A k : k \in q .. n <=> k = q \/ k \in q + 1 .. n
      <4> HIDE DEF q, n
      <4> QED BY <1>1, <2>1
    <3> HIDE DEF q, n
    <3> QED BY <3>1
  <2>4. SegRest(p, s, q, e) <=> p[q] = "*" /\ SegRest(p, s, q + 1, e)
    <3>1. CASE p[q] = "*"
      <4>1. SegRest(p, s, q, e) <=> \E k \in e .. Len(s) + 1 : SegRest(p, s, q + 1, k)
        BY <1>1, <2>1, <3>1, SegRestStar
      <4>2. \A k : k \in e .. Len(s) + 1 <=> k = e
        BY <1>1
      <4> HIDE DEF e
      <4> QED BY <3>1, <4>1, <4>2
    <3>2. CASE p[q] # "*"
      <4>1. SegRest(p, s, q, e) => e <= Len(s)
        BY <1>1, <2>1, <3>2, SegRestPlain
      <4> QED BY <1>1, <3>2, <4>1
    <3> QED BY <3>1, <3>2
  <2> HIDE DEF q, e, n
  <2> QED BY <2>1, <2>2, <2>3, <2>4
<1>4. S = Nat
  <2>1. S \in SUBSET Nat
    OBVIOUS
  <2> HIDE DEF S
  <2> QED BY <1>2, <1>3, <2>1, Induction
<1>5. n + 1 - i \in S /\ n + 1 - i <= n /\ n + 1 - (n + 1 - i) = i
  <2>1. i \in 1 .. n + 1
    BY DEF Places
  <2>2. n + 1 - i \in Nat /\ n + 1 - i <= n /\ n + 1 - (n + 1 - i) = i
    <3> HIDE DEF n
    <3> QED BY <1>1, <2>1
  <2> HIDE DEF S, n
  <2> QED BY <1>4, <2>2
<1> HIDE DEF n, e
<1>6. SegRest(p, s, i, e) <=> \A k \in i .. n : p[k] = "*"
  BY <1>5
<1> QED BY <1>6 DEF n, e
-----------------------------------------------------------------------------
\* A state of the loop.
IsAt(p, s, a, b, x, y) ==
    /\ a \in 1 .. Len(p) + 1 /\ b \in 1 .. Len(s) + 1 /\ x \in 0 .. Len(p) /\ y \in 1 .. Len(s) + 1
    /\ x < a /\ b + x + 1 = y + a
    /\ \A k \in x + 1 .. a - 1 : p[k] \in {s[y + k - x - 1], "?"}

\* What comes of a state: the rest matches from here, or from a later end of the last star.
Found(p, s, a, b, x, y) ==
    \/ SegRest(p, s, a, b)
    \/ x # 0 /\ \E k \in y + 1 .. Len(s) + 1 : SegRest(p, s, x + 1, k)

\* One round of the loop of wildcardMatch, when f says what comes of the next state.
Round(p, s, f, c) ==
    IF c[2] > Len(s) THEN \A k \in c[1] .. Len(p) : p[k] = "*"
    ELSE IF c[1] <= Len(p) /\ p[c[1]] \in {s[c[2]], "?"} THEN f[<<c[1] + 1, c[2] + 1, c[3], c[4]>>]
    ELSE IF c[1] <= Len(p) /\ p[c[1]] = "*" THEN f[<<c[1] + 1, c[2], c[1], c[2]>>]
    ELSE c[3] # 0 /\ f[<<c[3] + 1, c[4] + 1, c[3], c[4] + 1>>]

LEMMA States ==
    ASSUME NEW p, NEW s, NEW a, NEW b, NEW x, NEW y
    PROVE  <<a, b, x, y>> \in WildStates(p, s) <=> IsAt(p, s, a, b, x, y)
BY DEF WildStates, IsAt

LEMMA StateType ==
    ASSUME NEW p, NEW s, NEW c \in WildStates(p, s)
    PROVE  c = <<c[1], c[2], c[3], c[4]>> /\ IsAt(p, s, c[1], c[2], c[3], c[4])
BY DEF WildStates, IsAt

\* A star that ended later would have what follows it end later too: nothing between
\* the last star and here is a star.
LEMMA LaterEnd ==
    ASSUME NEW p, IsSeq(p), NEW s, IsSeq(s), IsPlain(s),
           NEW a, NEW b, NEW x, NEW y, IsAt(p, s, a, b, x, y),
           NEW k \in y + 1 .. Len(s) + 1, SegRest(p, s, x + 1, k)
    PROVE  \E l \in b + 1 .. Len(s) + 1 : SegRest(p, s, a, l)
<1> DEFINE n == Len(p)
           m == Len(s)
           w == a - x - 1
           S == {d \in Nat : d <= w => k + d <= m + 1 /\ SegRest(p, s, x + 1 + d, k + d)}
<1> USE DEF IsAt
<1>1. n \in Nat /\ m \in Nat /\ DOMAIN s = 1 .. m
  BY DEF IsSeq
<1>2. w \in Nat /\ x + 1 + w = a /\ y + w = b /\ k + 0 = k /\ x + 1 + 0 = x + 1
  BY <1>1
<1>3. 0 \in S
  BY <1>1, <1>2
<1>4. ASSUME NEW d \in S PROVE d + 1 \in S
  <2> SUFFICES ASSUME d + 1 <= w
               PROVE  k + (d + 1) <= m + 1 /\ SegRest(p, s, x + 1 + (d + 1), k + (d + 1))
    OBVIOUS
  <2> DEFINE q == x + 1 + d
             j == k + d
  <2>1. d \in Nat /\ k + d <= m + 1 /\ SegRest(p, s, q, j) /\ d + 1 <= a - x - 1
    BY <1>2
  <2>2. /\ q \in 1 .. n /\ q \in x + 1 .. a - 1 /\ j \in 1 .. m + 1
        /\ y + q - x - 1 \in 1 .. m
        /\ x + 1 + (d + 1) = q + 1 /\ k + (d + 1) = j + 1
    <3>1. k \in y + 1 .. m + 1 /\ a \in 1 .. n + 1 /\ b \in 1 .. m + 1 /\ x \in 0 .. n /\ y \in 1 .. m + 1
      OBVIOUS
    <3> HIDE DEF S, n, m, w
    <3> QED BY <1>1, <2>1, <3>1
  <2>3. p[q] # "*"
    <3>1. p[q] \in {s[y + q - x - 1], "?"}
      BY <2>2
    <3>2. s[y + q - x - 1] # "*"
      <4> HIDE DEF q
      <4> QED BY <1>1, <2>2 DEF IsPlain
    <3> HIDE DEF q
    <3> QED BY <3>1, <3>2
  <2>4. j <= m /\ SegRest(p, s, q + 1, j + 1)
    <3>1. j \in Places(m)
      BY <2>2 DEF Places
    <3> HIDE DEF q, j, S, w
    <3> QED BY <2>1, <2>2, <2>3, <3>1, SegRestPlain
  <2>5. j + 1 <= m + 1
    <3> HIDE DEF q, S, w, m, n
    <3> QED BY <1>1, <2>2, <2>4
  <2> HIDE DEF q, j, S, w
  <2> QED BY <2>2, <2>4, <2>5
<1>5. S = Nat
  <2>1. S \in SUBSET Nat
    OBVIOUS
  <2> HIDE DEF S
  <2> QED BY <1>3, <1>4, <2>1, Induction
<1>6. k + w <= m + 1 /\ SegRest(p, s, x + 1 + w, k + w)
  <2>1. w \in S /\ w <= w
    <3> HIDE DEF S, w
    <3> QED BY <1>2, <1>5
  <2> QED BY <2>1
<1>7. k + w \in b + 1 .. Len(s) + 1 /\ SegRest(p, s, a, k + w)
  <2>1. k + w \in b + 1 .. m + 1
    <3>1. k \in y + 1 .. m + 1 /\ y \in 1 .. m + 1
      OBVIOUS
    <3> HIDE DEF w, m
    <3> QED BY <1>1, <1>2, <1>6, <3>1
  <2> HIDE DEF w
  <2> QED BY <1>2, <1>6, <2>1
<1> QED BY <1>7

\* The rounds of the loop, one by one: nothing left of the text, a character that
\* matches, a star, and neither.
LEMMA AtEnd ==
    ASSUME NEW p, IsSeq(p), NEW s, IsSeq(s), IsPlain(s),
           NEW a, NEW b, NEW x, NEW y, IsAt(p, s, a, b, x, y), b > Len(s)
    PROVE  Found(p, s, a, b, x, y) <=> \A k \in a .. Len(p) : p[k] = "*"
<1>1. Len(p) \in Nat /\ Len(s) \in Nat /\ a \in Places(Len(p)) /\ b = Len(s) + 1
  BY DEF IsSeq, IsAt, Places
<1>2. SegRest(p, s, a, b) <=> \A k \in a .. Len(p) : p[k] = "*"
  BY <1>1, SegRestOnNothing
<1>3. b + 1 .. Len(s) + 1 = {}
  BY <1>1
<1>4. \A k \in y + 1 .. Len(s) + 1 : ~ SegRest(p, s, x + 1, k)
  BY <1>3, LaterEnd
<1> QED BY <1>2, <1>4 DEF Found

LEMMA OnMatch ==
    ASSUME NEW p, IsSeq(p), NEW s, IsSeq(s), IsPlain(s),
           NEW a, NEW b, NEW x, NEW y, IsAt(p, s, a, b, x, y),
           b <= Len(s), a <= Len(p), p[a] \in {s[b], "?"}
    PROVE  /\ IsAt(p, s, a + 1, b + 1, x, y)
           /\ Found(p, s, a, b, x, y) <=> Found(p, s, a + 1, b + 1, x, y)
<1>1. /\ Len(p) \in Nat /\ Len(s) \in Nat /\ a \in 1 .. Len(p) /\ b \in Places(Len(s))
      /\ b \in DOMAIN s /\ x \in Nat /\ y \in Nat /\ y + a - x - 1 = b
  BY DEF IsSeq, IsAt, Places
<1>2. p[a] # "*"
  BY <1>1 DEF IsPlain
<1>3. SegRest(p, s, a, b) <=> SegRest(p, s, a + 1, b + 1)
  BY <1>1, <1>2, SegRestPlain
<1>4. \A k \in x + 1 .. (a + 1) - 1 : p[k] \in {s[y + k - x - 1], "?"}
  <2> SUFFICES ASSUME NEW k \in x + 1 .. (a + 1) - 1 PROVE p[k] \in {s[y + k - x - 1], "?"}
    OBVIOUS
  <2>1. k = a \/ k \in x + 1 .. a - 1
    BY <1>1
  <2> QED BY <1>1, <2>1 DEF IsAt
<1>5. IsAt(p, s, a + 1, b + 1, x, y)
  <2>1. /\ a + 1 \in 1 .. Len(p) + 1 /\ b + 1 \in 1 .. Len(s) + 1
        /\ x \in 0 .. Len(p) /\ y \in 1 .. Len(s) + 1
    BY <1>1 DEF IsAt
  <2>2. x < a + 1 /\ (b + 1) + x + 1 = y + (a + 1)
    BY <1>1 DEF IsAt
  <2> QED BY <1>4, <2>1, <2>2 DEF IsAt
<1> QED BY <1>3, <1>5 DEF Found

LEMMA OnStar ==
    ASSUME NEW p, IsSeq(p), NEW s, IsSeq(s), IsPlain(s),
           NEW a, NEW b, NEW x, NEW y, IsAt(p, s, a, b, x, y),
           b <= Len(s), a <= Len(p), p[a] = "*"
    PROVE  /\ IsAt(p, s, a + 1, b, a, b)
           /\ Found(p, s, a, b, x, y) <=> Found(p, s, a + 1, b, a, b)
<1>1. /\ Len(p) \in Nat /\ Len(s) \in Nat /\ a \in 1 .. Len(p) /\ b \in 1 .. Len(s) + 1
  BY DEF IsSeq, IsAt
<1>2. IsAt(p, s, a + 1, b, a, b)
  BY <1>1 DEF IsAt
<1>3. \A l \in b .. Len(s) + 1 :
         SegRest(p, s, a, l) <=> \E k \in l .. Len(s) + 1 : SegRest(p, s, a + 1, k)
  BY <1>1, SegRestStar DEF Places
<1>4. Found(p, s, a + 1, b, a, b) <=> \E k \in b .. Len(s) + 1 : SegRest(p, s, a + 1, k)
  <2>1. \A k : k \in b .. Len(s) + 1 <=> k = b \/ k \in b + 1 .. Len(s) + 1
    BY <1>1
  <2>2. a # 0
    BY <1>1
  <2> QED BY <2>1, <2>2 DEF Found
<1>5. Found(p, s, a + 1, b, a, b) <=> SegRest(p, s, a, b)
  BY <1>1, <1>3, <1>4
<1>6. ASSUME NEW k \in y + 1 .. Len(s) + 1, SegRest(p, s, x + 1, k) PROVE SegRest(p, s, a, b)
  <2>1. PICK l \in b + 1 .. Len(s) + 1 : SegRest(p, s, a, l)
    BY <1>6, LaterEnd
  <2>2. l \in b .. Len(s) + 1
    BY <1>1
  <2>3. PICK q \in l .. Len(s) + 1 : SegRest(p, s, a + 1, q)
    BY <1>3, <2>1, <2>2
  <2>4. q \in b .. Len(s) + 1
    BY <1>1, <2>2
  <2> QED BY <1>4, <1>5, <2>3, <2>4
<1>7. Found(p, s, a, b, x, y) <=> SegRest(p, s, a, b)
  BY <1>6 DEF Found
<1> QED BY <1>2, <1>5, <1>7

LEMMA OnNeither ==
    ASSUME NEW p, IsSeq(p), NEW s, IsSeq(s), IsPlain(s),
           NEW a, NEW b, NEW x, NEW y, IsAt(p, s, a, b, x, y), b <= Len(s),
           ~ (a <= Len(p) /\ p[a] \in {s[b], "?"}), ~ (a <= Len(p) /\ p[a] = "*")
    PROVE  /\ IsAt(p, s, x + 1, y + 1, x, y + 1)
           /\ Found(p, s, a, b, x, y) <=> x # 0 /\ Found(p, s, x + 1, y + 1, x, y + 1)
<1>1. /\ Len(p) \in Nat /\ Len(s) \in Nat /\ a \in 1 .. Len(p) + 1 /\ b \in 1 .. Len(s) + 1
      /\ x \in 0 .. Len(p) /\ y \in 1 .. Len(s) /\ b \in Places(Len(s))
  BY DEF IsSeq, IsAt, Places
<1>2. IsAt(p, s, x + 1, y + 1, x, y + 1)
  BY <1>1 DEF IsAt
<1>3. ~ SegRest(p, s, a, b)
  <2>1. CASE a <= Len(p)
    <3>1. a \in 1 .. Len(p) /\ p[a] # "*"
      BY <1>1, <2>1
    <3> QED BY <1>1, <2>1, <3>1, SegRestPlain
  <2>2. CASE a = Len(p) + 1
    BY <1>1, <2>2, SegRestEnds
  <2> QED BY <1>1, <2>1, <2>2
<1>4. \A k : k \in y + 1 .. Len(s) + 1 <=> k = y + 1 \/ k \in (y + 1) + 1 .. Len(s) + 1
  BY <1>1
<1> QED BY <1>2, <1>3, <1>4 DEF Found

\* A function that does what the loop does has these values.
IsLoop(p, s, f) == f = [c \in WildStates(p, s) |-> Round(p, s, f, c)]
Comes(p, s) == [c \in WildStates(p, s) |-> Found(p, s, c[1], c[2], c[3], c[4])]

LEMMA ComesOf ==
    ASSUME NEW p, NEW s, NEW a, NEW b, NEW x, NEW y, IsAt(p, s, a, b, x, y)
    PROVE  Comes(p, s)[<<a, b, x, y>>] = Found(p, s, a, b, x, y)
BY States DEF Comes

LEMMA LoopExists ==
    ASSUME NEW p, IsSeq(p), NEW s, IsSeq(s), IsPlain(s)
    PROVE  IsLoop(p, s, Comes(p, s))
<1> DEFINE h == Comes(p, s)
<1> SUFFICES ASSUME NEW c \in WildStates(p, s)
             PROVE  Found(p, s, c[1], c[2], c[3], c[4]) = Round(p, s, h, c)
  BY DEF IsLoop, Comes
<1>1. PICK a, b, x, y : c = <<a, b, x, y>> /\ IsAt(p, s, a, b, x, y)
  BY StateType
<1>2. c[1] = a /\ c[2] = b /\ c[3] = x /\ c[4] = y
  BY <1>1
<1> SUFFICES Found(p, s, a, b, x, y) = Round(p, s, h, c)
  BY <1>2
<1>3. a \in Nat /\ b \in Nat /\ Len(p) \in Nat /\ Len(s) \in Nat
  BY <1>1 DEF IsAt, IsSeq
<1>4. CASE b > Len(s)
  <2>1. Found(p, s, a, b, x, y) <=> \A k \in a .. Len(p) : p[k] = "*"
    BY <1>1, <1>4, AtEnd
  <2>2. Round(p, s, h, c) = \A k \in a .. Len(p) : p[k] = "*"
    BY <1>2, <1>4, Zenon DEF Round
  <2> QED BY <2>1, <2>2, Zenon DEF Found
<1>5. CASE ~ (b > Len(s)) /\ a <= Len(p) /\ p[a] \in {s[b], "?"}
  <2>1. /\ IsAt(p, s, a + 1, b + 1, x, y)
        /\ Found(p, s, a, b, x, y) <=> Found(p, s, a + 1, b + 1, x, y)
    <3>1. b <= Len(s)
      BY <1>3, <1>5
    <3> QED BY <1>1, <1>5, <3>1, OnMatch
  <2>2. Round(p, s, h, c) = h[<<a + 1, b + 1, x, y>>]
    <3> HIDE DEF h
    <3> QED BY <1>2, <1>5, Zenon DEF Round
  <2>3. h[<<a + 1, b + 1, x, y>>] = Found(p, s, a + 1, b + 1, x, y)
    BY <2>1, ComesOf
  <2> HIDE DEF h
  <2> QED BY <2>1, <2>2, <2>3, Zenon DEF Found
<1>6. CASE ~ (b > Len(s)) /\ ~ (a <= Len(p) /\ p[a] \in {s[b], "?"}) /\ a <= Len(p) /\ p[a] = "*"
  <2>1. /\ IsAt(p, s, a + 1, b, a, b)
        /\ Found(p, s, a, b, x, y) <=> Found(p, s, a + 1, b, a, b)
    <3>1. b <= Len(s)
      BY <1>3, <1>6
    <3> QED BY <1>1, <1>6, <3>1, OnStar
  <2>2. Round(p, s, h, c) = h[<<a + 1, b, a, b>>]
    <3> HIDE DEF h
    <3> QED BY <1>2, <1>6, Zenon DEF Round
  <2>3. h[<<a + 1, b, a, b>>] = Found(p, s, a + 1, b, a, b)
    BY <2>1, ComesOf
  <2> HIDE DEF h
  <2> QED BY <2>1, <2>2, <2>3, Zenon DEF Found
<1>7. CASE ~ (b > Len(s)) /\ ~ (a <= Len(p) /\ p[a] \in {s[b], "?"}) /\ ~ (a <= Len(p) /\ p[a] = "*")
  <2>1. /\ IsAt(p, s, x + 1, y + 1, x, y + 1)
        /\ Found(p, s, a, b, x, y) <=> x # 0 /\ Found(p, s, x + 1, y + 1, x, y + 1)
    <3>1. b <= Len(s)
      BY <1>3, <1>7
    <3> QED BY <1>1, <1>7, <3>1, OnNeither
  <2>2. Round(p, s, h, c) = (x # 0 /\ h[<<x + 1, y + 1, x, y + 1>>])
    <3> HIDE DEF h
    <3> QED BY <1>2, <1>7, Zenon DEF Round
  <2>3. h[<<x + 1, y + 1, x, y + 1>>] = Found(p, s, x + 1, y + 1, x, y + 1)
    BY <2>1, ComesOf
  <2> HIDE DEF h
  <2> QED BY <2>1, <2>2, <2>3, Zenon DEF Found
<1> QED BY <1>4, <1>5, <1>6, <1>7, Zenon

\* The loop gets on: the last star later, or the character after those it took, or else
\* the next character of the pattern.
LEMMA LoopIsOne ==
    ASSUME NEW p, IsSeq(p), NEW s, IsSeq(s), IsPlain(s), NEW f, IsLoop(p, s, f)
    PROVE  f = Comes(p, s)
<1> DEFINE h == Comes(p, s)
           n == Len(p)
           m == Len(s)
           Bad == {c \in WildStates(p, s) : f[c] # h[c]}
           Left(c) == (n - c[3]) + (m + 1 - c[4])
           Ahead(c) == n + 1 - c[1]
<1>1. IsLoop(p, s, h)
  BY LoopExists
<1>2. n \in Nat /\ m \in Nat
  BY DEF IsSeq
<1> SUFFICES Bad = {}
  <2>1. \A c \in WildStates(p, s) : f[c] = h[c]
    OBVIOUS
  <2>2. f = [c \in WildStates(p, s) |-> f[c]] /\ h = [c \in WildStates(p, s) |-> h[c]]
    BY <1>1 DEF IsLoop
  <2>3. [c \in WildStates(p, s) |-> f[c]] = [c \in WildStates(p, s) |-> h[c]]
    <3> HIDE DEF h
    <3> QED BY <2>1, Zenon
  <2> HIDE DEF h
  <2> QED BY <2>2, <2>3, Zenon DEF h
<1> SUFFICES ASSUME Bad # {} PROVE FALSE
  OBVIOUS
<1>3. \A c \in Bad : Left(c) \in Nat /\ Ahead(c) \in Nat
  <2> SUFFICES ASSUME NEW c \in WildStates(p, s) PROVE Left(c) \in Nat /\ Ahead(c) \in Nat
    OBVIOUS
  <2>1. c[1] \in 1 .. n + 1 /\ c[3] \in 0 .. n /\ c[4] \in 1 .. m + 1
    BY StateType DEF IsAt
  <2> HIDE DEF n, m
  <2> QED BY <1>2, <2>1
<1>4. PICK v \in {Left(c) : c \in Bad} : \A w \in {Left(c) : c \in Bad} : v <= w
  <2>1. {Left(c) : c \in Bad} \in SUBSET Nat /\ {Left(c) : c \in Bad} # {}
    BY <1>3
  <2> HIDE DEF Bad, Left
  <2> QED BY <2>1, Least
<1> DEFINE Worst == {c \in Bad : Left(c) = v}
<1>5. PICK u \in {Ahead(c) : c \in Worst} : \A w \in {Ahead(c) : c \in Worst} : u <= w
  <2>1. {Ahead(c) : c \in Worst} \in SUBSET Nat /\ {Ahead(c) : c \in Worst} # {}
    BY <1>3, <1>4
  <2> HIDE DEF Worst, Ahead
  <2> QED BY <2>1, Least
<1>6. PICK c \in Bad : Left(c) = v /\ Ahead(c) = u
  BY <1>5
<1>7. ASSUME NEW d \in WildStates(p, s), Left(d) < Left(c) \/ (Left(d) = Left(c) /\ Ahead(d) < Ahead(c))
      PROVE  f[d] = h[d]
  <2> SUFFICES ASSUME d \in Bad PROVE FALSE
    OBVIOUS
  <2>1. v <= Left(d) /\ Left(d) \in Nat /\ Ahead(d) \in Nat /\ v \in Nat /\ u \in Nat
    BY <1>3, <1>4, <1>6
  <2>2. Left(d) = v => u <= Ahead(d)
    BY <1>5
  <2> HIDE DEF Left, Ahead, Bad, Worst
  <2> QED BY <1>6, <1>7, <2>1, <2>2
<1>8. PICK a, b, x, y : c = <<a, b, x, y>> /\ IsAt(p, s, a, b, x, y)
  BY StateType
<1>9. c[1] = a /\ c[2] = b /\ c[3] = x /\ c[4] = y
  BY <1>8
<1>10. a \in Nat /\ b \in Nat /\ x \in Nat /\ y \in Nat /\ x < a /\ x <= n /\ a <= n + 1 /\ y <= m + 1
       /\ b <= m + 1 /\ y <= b
  BY <1>2, <1>8 DEF IsAt
<1>11. Round(p, s, f, c) = Round(p, s, h, c)
  <2>1. CASE b > Len(s)
    BY <1>9, <2>1 DEF Round
  <2>2. CASE ~ (b > Len(s)) /\ a <= Len(p) /\ p[a] \in {s[b], "?"}
    <3> DEFINE d == <<a + 1, b + 1, x, y>>
    <3>1. d \in WildStates(p, s)
      <4>1. b <= Len(s)
        BY <1>2, <1>10, <2>2
      <4> QED BY <1>8, <2>2, <4>1, OnMatch, States
    <3>2. Left(d) = Left(c) /\ Ahead(d) < Ahead(c)
      BY <1>2, <1>9, <1>10
    <3>3. f[d] = h[d]
      <4> HIDE DEF Left, Ahead, Bad, Worst, h, d
      <4> QED BY <1>7, <3>1, <3>2
    <3>4. Round(p, s, f, c) = f[d] /\ Round(p, s, h, c) = h[d]
      <4>1. Round(p, s, f, c) = f[d]
        <5> HIDE DEF h, d
        <5> QED BY <1>9, <2>2, Zenon DEF Round, d
      <4>2. Round(p, s, h, c) = h[d]
        <5> HIDE DEF h, d
        <5> QED BY <1>9, <2>2, Zenon DEF Round, d
      <4> HIDE DEF h
      <4> QED BY <1>8, <4>1, <4>2, Zenon
    <3> QED BY <3>3, <3>4
  <2>3. CASE ~ (b > Len(s)) /\ ~ (a <= Len(p) /\ p[a] \in {s[b], "?"}) /\ a <= Len(p) /\ p[a] = "*"
    <3> DEFINE d == <<a + 1, b, a, b>>
    <3>1. d \in WildStates(p, s)
      <4>1. b <= Len(s)
        BY <1>2, <1>10, <2>3
      <4> QED BY <1>8, <2>3, <4>1, OnStar, States
    <3>2. Left(d) < Left(c)
      BY <1>2, <1>9, <1>10
    <3>3. f[d] = h[d]
      <4> HIDE DEF Left, Ahead, Bad, Worst, h, d
      <4> QED BY <1>7, <3>1, <3>2
    <3>4. Round(p, s, f, c) = f[d] /\ Round(p, s, h, c) = h[d]
      <4>1. Round(p, s, f, c) = f[d]
        <5> HIDE DEF h, d
        <5> QED BY <1>9, <2>3, Zenon DEF Round, d
      <4>2. Round(p, s, h, c) = h[d]
        <5> HIDE DEF h, d
        <5> QED BY <1>9, <2>3, Zenon DEF Round, d
      <4> HIDE DEF h
      <4> QED BY <1>8, <4>1, <4>2, Zenon
    <3> QED BY <3>3, <3>4
  <2>4. CASE ~ (b > Len(s)) /\ ~ (a <= Len(p) /\ p[a] \in {s[b], "?"}) /\ ~ (a <= Len(p) /\ p[a] = "*")
    <3> DEFINE d == <<x + 1, y + 1, x, y + 1>>
    <3>1. d \in WildStates(p, s)
      <4>1. b <= Len(s)
        BY <1>2, <1>10, <2>4
      <4> QED BY <1>8, <2>4, <4>1, OnNeither, States
    <3>2. Left(d) < Left(c)
      BY <1>2, <1>9, <1>10
    <3>3. f[d] = h[d]
      <4> HIDE DEF Left, Ahead, Bad, Worst, h, d
      <4> QED BY <1>7, <3>1, <3>2
    <3>4. Round(p, s, f, c) = (x # 0 /\ f[d]) /\ Round(p, s, h, c) = (x # 0 /\ h[d])
      <4>1. Round(p, s, f, c) = (x # 0 /\ f[d])
        <5> HIDE DEF h, d
        <5> QED BY <1>9, <2>4, Zenon DEF Round, d
      <4>2. Round(p, s, h, c) = (x # 0 /\ h[d])
        <5> HIDE DEF h, d
        <5> QED BY <1>9, <2>4, Zenon DEF Round, d
      <4> HIDE DEF h
      <4> QED BY <1>8, <4>1, <4>2, Zenon
    <3> QED BY <3>3, <3>4
  <2> QED BY <2>1, <2>2, <2>3, <2>4, Zenon
<1>12. f[c] = Round(p, s, f, c) /\ h[c] = Round(p, s, h, c)
  BY <1>1 DEF IsLoop
<1> QED BY <1>11, <1>12

\* wildcardMatch (internal/project/glob.go) finds a way to lay a pattern on a name if there
\* is one, although it goes back to the last star only: a name without a star of its own
\* is matched by the patterns that mean it, and by no others.
THEOREM WildMeans ==
    ASSUME NEW p, IsSeq(p), NEW s, IsSeq(s), IsPlain(s)
    PROVE  Wild(p, s) <=> MeansSeg(p, s)
<1> DEFINE wild[c \in WildStates(p, s)] ==
              IF c[2] > Len(s) THEN \A k \in c[1] .. Len(p) : p[k] = "*"
              ELSE IF c[1] <= Len(p) /\ p[c[1]] \in {s[c[2]], "?"} THEN wild[<<c[1] + 1, c[2] + 1, c[3], c[4]>>]
              ELSE IF c[1] <= Len(p) /\ p[c[1]] = "*" THEN wild[<<c[1] + 1, c[2], c[1], c[2]>>]
              ELSE c[3] # 0 /\ wild[<<c[3] + 1, c[4] + 1, c[3], c[4] + 1>>]
<1>1. IsLoop(p, s, wild)
  <2>1. \E f : f = [c \in WildStates(p, s) |->
              IF c[2] > Len(s) THEN \A k \in c[1] .. Len(p) : p[k] = "*"
              ELSE IF c[1] <= Len(p) /\ p[c[1]] \in {s[c[2]], "?"} THEN f[<<c[1] + 1, c[2] + 1, c[3], c[4]>>]
              ELSE IF c[1] <= Len(p) /\ p[c[1]] = "*" THEN f[<<c[1] + 1, c[2], c[1], c[2]>>]
              ELSE c[3] # 0 /\ f[<<c[3] + 1, c[4] + 1, c[3], c[4] + 1>>]]
    <3>1. IsLoop(p, s, Comes(p, s))
      BY LoopExists
    <3>2. \E f : IsLoop(p, s, f)
      BY <3>1
    <3> QED BY <3>2, Zenon DEF IsLoop, Round
  <2>2. wild = [c \in WildStates(p, s) |->
              IF c[2] > Len(s) THEN \A k \in c[1] .. Len(p) : p[k] = "*"
              ELSE IF c[1] <= Len(p) /\ p[c[1]] \in {s[c[2]], "?"} THEN wild[<<c[1] + 1, c[2] + 1, c[3], c[4]>>]
              ELSE IF c[1] <= Len(p) /\ p[c[1]] = "*" THEN wild[<<c[1] + 1, c[2], c[1], c[2]>>]
              ELSE c[3] # 0 /\ wild[<<c[3] + 1, c[4] + 1, c[3], c[4] + 1>>]]
    BY <2>1, Zenon
  <2> HIDE DEF wild
  <2> QED BY <2>2, Zenon DEF IsLoop, Round
<1>2. Wild(p, s) = wild[<<1, 1, 0, 1>>]
  BY DEF Wild
<1> HIDE DEF wild
<1>3. IsAt(p, s, 1, 1, 0, 1)
  BY DEF IsAt, IsSeq
<1>4. wild[<<1, 1, 0, 1>>] = Found(p, s, 1, 1, 0, 1)
  BY <1>1, <1>3, LoopIsOne, ComesOf
<1>5. Found(p, s, 1, 1, 0, 1) <=> SegRest(p, s, 1, 1)
  BY DEF Found
<1> QED BY <1>2, <1>4, <1>5, MeansSegRest

LEMMA MatchSegMeans ==
    ASSUME NEW p, IsSeq(p), NEW s, IsSeq(s), IsPlain(s)
    PROVE  MatchSeg(p, s) <=> MeansSeg(p, s)
<1>1. ASSUME p = <<"*">> PROVE MeansSeg(p, s)
  <2>1. Len(p) = 1 /\ p[1] = "*" /\ Len(s) \in Nat
    BY <1>1 DEF IsSeq
  <2>2. SegRest(p, s, 2, Len(s) + 1)
    <3>1. Len(s) + 1 \in Places(Len(s)) /\ Len(p) + 1 = 2
      BY <2>1 DEF Places
    <3> QED BY <3>1, SegRestEnds
  <2>3. SegRest(p, s, 1, 1) <=> \E k \in 1 .. Len(s) + 1 : SegRest(p, s, 1 + 1, k)
    <3>1. 1 \in 1 .. Len(p) /\ 1 \in Places(Len(s))
      BY <2>1 DEF Places
    <3> QED BY <2>1, <3>1, SegRestStar
  <2>4. Len(s) + 1 \in 1 .. Len(s) + 1 /\ 1 + 1 = 2
    BY <2>1
  <2>5. SegRest(p, s, 1, 1)
    BY <2>2, <2>3, <2>4
  <2> QED BY <2>5, MeansSegRest
<1> QED BY <1>1, WildMeans DEF MatchSeg
-----------------------------------------------------------------------------
\* The rest of a pattern from segment i on lies on the rest of a path from j on.
PathSteps(pat, path) ==
    {c \in (1 .. Len(pat)) \X Places(Len(path)) \X Places(Len(path)) :
        IF pat[c[1]] = <<"*", "*">> THEN c[2] <= c[3]
        ELSE c[3] = c[2] + 1 /\ MeansSeg(pat[c[1]], path[c[2]])}
PathRest(pat, path, i, j) == Way(Len(pat), Len(path), PathSteps(pat, path), i, j)

LEMMA MeansPathRest ==
    ASSUME NEW pat, IsSeq(pat), NEW path, IsSeq(path)
    PROVE  MeansPath(pat, path) <=> PathRest(pat, path, 1, 1)
<1> DEFINE n == Len(pat)
           m == Len(path)
           Step(i, at) == IF pat[i] = <<"*", "*">> THEN at[i] <= at[i + 1]
                          ELSE at[i + 1] = at[i] + 1 /\ MeansSeg(pat[i], path[at[i]])
<1>1. n \in Nat /\ m \in Nat /\ DOMAIN pat = 1 .. n
  BY DEF IsSeq
<1>2. ASSUME NEW at \in [1 .. n + 1 -> Places(m)], NEW i \in 1 .. n
      PROVE  <<i, at[i], at[i + 1]>> \in PathSteps(pat, path) <=> Step(i, at)
  <2>1. at[i] \in Places(m) /\ at[i + 1] \in Places(m)
    BY <1>1
  <2> QED BY <2>1 DEF PathSteps
<1>3. MeansPath(pat, path) <=> \E at \in [1 .. n + 1 -> Places(m)] :
                            at[1] = 1 /\ at[n + 1] = m + 1 /\ \A i \in 1 .. n : Step(i, at)
  BY <1>1 DEF MeansPath, Layouts, Places
<1>4. PathRest(pat, path, 1, 1) <=> \E at \in [1 .. n + 1 -> Places(m)] :
         at[1] = 1 /\ at[n + 1] = m + 1 /\ \A i \in 1 .. n : <<i, at[i], at[i + 1]>> \in PathSteps(pat, path)
  BY DEF PathRest, Way, IsWay
<1> HIDE DEF Step
<1> QED BY <1>2, <1>3, <1>4

LEMMA PathRestStar ==
    ASSUME NEW pat, IsSeq(pat), NEW path, IsSeq(path),
           NEW i \in 1 .. Len(pat), NEW j \in Places(Len(path)), pat[i] = <<"*", "*">>
    PROVE  PathRest(pat, path, i, j)
              <=> PathRest(pat, path, i + 1, j) \/ (j <= Len(path) /\ PathRest(pat, path, i, j + 1))
<1>1. Len(pat) \in Nat /\ Len(path) \in Nat /\ j \in 1 .. Len(path) + 1
  BY DEF IsSeq, Places
<1>2. ASSUME NEW l \in Places(Len(path))
      PROVE  PathRest(pat, path, i, l)
                <=> \E k \in l .. Len(path) + 1 : PathRest(pat, path, i + 1, k)
  <2>1. PathRest(pat, path, i, l) <=>
           \E k \in Places(Len(path)) : <<i, l, k>> \in PathSteps(pat, path) /\ PathRest(pat, path, i + 1, k)
    BY <1>1, WayGoesOn DEF PathRest
  <2>2. \A k \in Places(Len(path)) : <<i, l, k>> \in PathSteps(pat, path) <=> l <= k
    BY DEF PathSteps
  <2>3. \A k : k \in Places(Len(path)) /\ l <= k <=> k \in l .. Len(path) + 1
    BY <1>1 DEF Places
  <2> QED BY <2>1, <2>2, <2>3
<1>3. \A k : k \in j .. Len(path) + 1 <=> k = j \/ (j <= Len(path) /\ k \in j + 1 .. Len(path) + 1)
  BY <1>1
<1>4. j <= Len(path) => j + 1 \in Places(Len(path))
  BY <1>1 DEF Places
<1> QED BY <1>2, <1>3, <1>4

LEMMA PathRestPlain ==
    ASSUME NEW pat, IsSeq(pat), NEW path, IsSeq(path),
           NEW i \in 1 .. Len(pat), NEW j \in Places(Len(path)), pat[i] # <<"*", "*">>
    PROVE  PathRest(pat, path, i, j)
              <=> j <= Len(path) /\ MeansSeg(pat[i], path[j]) /\ PathRest(pat, path, i + 1, j + 1)
<1>1. Len(pat) \in Nat /\ Len(path) \in Nat
  BY DEF IsSeq
<1>2. PathRest(pat, path, i, j) <=>
         \E k \in Places(Len(path)) : <<i, j, k>> \in PathSteps(pat, path) /\ PathRest(pat, path, i + 1, k)
  BY <1>1, WayGoesOn DEF PathRest
<1>3. \A k \in Places(Len(path)) :
         <<i, j, k>> \in PathSteps(pat, path) <=> k = j + 1 /\ MeansSeg(pat[i], path[j])
  BY DEF PathSteps
<1>4. j + 1 \in Places(Len(path)) <=> j <= Len(path)
  BY <1>1 DEF Places
<1> QED BY <1>2, <1>3, <1>4

LEMMA PathRestEnds ==
    ASSUME NEW pat, IsSeq(pat), NEW path, IsSeq(path), NEW j \in Places(Len(path))
    PROVE  PathRest(pat, path, Len(pat) + 1, j) <=> j = Len(path) + 1
BY WayEnds DEF PathRest, IsSeq

\* The table of matchSegments has these values, and no others.
Cells(pat, path) == (1 .. Len(pat) + 1) \X (1 .. Len(path) + 1)
Cell(pat, path, f, c) ==
    IF c[1] = Len(pat) + 1 THEN c[2] = Len(path) + 1
    ELSE IF pat[c[1]] = <<"*", "*">> THEN f[<<c[1] + 1, c[2]>>] \/ (c[2] <= Len(path) /\ f[<<c[1], c[2] + 1>>])
    ELSE c[2] <= Len(path) /\ MatchSeg(pat[c[1]], path[c[2]]) /\ f[<<c[1] + 1, c[2] + 1>>]
IsReached(pat, path, f) == f = [c \in Cells(pat, path) |-> Cell(pat, path, f, c)]
Reached(pat, path) == [c \in Cells(pat, path) |-> PathRest(pat, path, c[1], c[2])]

AreSegs(pat) == IsSeq(pat) /\ \A k \in DOMAIN pat : IsSeq(pat[k])

LEMMA ReachedExists ==
    ASSUME NEW pat, AreSegs(pat), NEW path, IsPlainPath(path)
    PROVE  IsReached(pat, path, Reached(pat, path))
<1> DEFINE h == Reached(pat, path)
           n == Len(pat)
           m == Len(path)
<1> SUFFICES ASSUME NEW c \in Cells(pat, path)
             PROVE  PathRest(pat, path, c[1], c[2]) = Cell(pat, path, h, c)
  BY DEF IsReached, Reached
<1>1. PICK i, j : c = <<i, j>> /\ i \in 1 .. n + 1 /\ j \in 1 .. m + 1
  BY DEF Cells
<1>2. c[1] = i /\ c[2] = j
  BY <1>1
<1>3. IsSeq(pat) /\ IsSeq(path) /\ n \in Nat /\ m \in Nat /\ j \in Places(m)
      /\ DOMAIN pat = 1 .. n /\ DOMAIN path = 1 .. m
  BY <1>1 DEF AreSegs, IsPlainPath, IsSeq, Places
<1>4. \A a, b : <<a, b>> \in Cells(pat, path) => h[<<a, b>>] = PathRest(pat, path, a, b)
  BY DEF Reached
<1>5. \A a, b : <<a, b>> \in Cells(pat, path) <=> a \in 1 .. n + 1 /\ b \in 1 .. m + 1
  BY DEF Cells
<1> SUFFICES PathRest(pat, path, i, j) <=> Cell(pat, path, h, c)
  BY <1>2, Zenon DEF Cell, PathRest, Way
<1>6. CASE i = n + 1
  BY <1>2, <1>3, <1>6, PathRestEnds DEF Cell
<1>7. CASE i # n + 1 /\ pat[i] = <<"*", "*">>
  <2>1. i \in 1 .. n /\ i + 1 \in 1 .. n + 1 /\ (j <= m => j + 1 \in 1 .. m + 1)
    BY <1>1, <1>3, <1>7
  <2>2. Cell(pat, path, h, c) <=> h[<<i + 1, j>>] \/ (j <= m /\ h[<<i, j + 1>>])
    <3> HIDE DEF h
    <3> QED BY <1>2, <1>7, Zenon DEF Cell
  <2>3. PathRest(pat, path, i, j) <=> PathRest(pat, path, i + 1, j) \/ (j <= m /\ PathRest(pat, path, i, j + 1))
    BY <1>3, <1>7, <2>1, PathRestStar
  <2> HIDE DEF h
  <2> QED BY <1>1, <1>4, <1>5, <2>1, <2>2, <2>3
<1>8. CASE i # n + 1 /\ pat[i] # <<"*", "*">>
  <2>1. i \in 1 .. n /\ i + 1 \in 1 .. n + 1 /\ (j <= m => j + 1 \in 1 .. m + 1 /\ j \in 1 .. m)
    BY <1>1, <1>3, <1>8
  <2>2. Cell(pat, path, h, c) <=> j <= m /\ MatchSeg(pat[i], path[j]) /\ h[<<i + 1, j + 1>>]
    <3> HIDE DEF h
    <3> QED BY <1>2, <1>8, Zenon DEF Cell
  <2>3. PathRest(pat, path, i, j) <=> j <= m /\ MeansSeg(pat[i], path[j]) /\ PathRest(pat, path, i + 1, j + 1)
    BY <1>3, <1>8, <2>1, PathRestPlain
  <2>4. j <= m => (MatchSeg(pat[i], path[j]) <=> MeansSeg(pat[i], path[j]))
    BY <1>3, <2>1, MatchSegMeans DEF AreSegs, IsPlainPath
  <2> HIDE DEF h
  <2> QED BY <1>1, <1>4, <1>5, <2>1, <2>2, <2>3, <2>4
<1> QED BY <1>6, <1>7, <1>8

LEMMA ReachedIsOne ==
    ASSUME NEW pat, AreSegs(pat), NEW path, IsPlainPath(path), NEW f, IsReached(pat, path, f)
    PROVE  f = Reached(pat, path)
<1> DEFINE h == Reached(pat, path)
           n == Len(pat)
           m == Len(path)
           Bad == {c \in Cells(pat, path) : f[c] # h[c]}
           Left(c) == (n + 1 - c[1]) + (m + 1 - c[2])
<1>1. IsReached(pat, path, h)
  BY ReachedExists
<1>2. n \in Nat /\ m \in Nat
  BY DEF AreSegs, IsPlainPath, IsSeq
<1> SUFFICES Bad = {}
  <2>1. \A c \in Cells(pat, path) : f[c] = h[c]
    OBVIOUS
  <2>2. f = [c \in Cells(pat, path) |-> f[c]] /\ h = [c \in Cells(pat, path) |-> h[c]]
    BY <1>1 DEF IsReached
  <2>3. [c \in Cells(pat, path) |-> f[c]] = [c \in Cells(pat, path) |-> h[c]]
    <3> HIDE DEF h
    <3> QED BY <2>1, Zenon
  <2> HIDE DEF h
  <2> QED BY <2>2, <2>3, Zenon DEF h
<1> SUFFICES ASSUME Bad # {} PROVE FALSE
  OBVIOUS
<1>3. \A c \in Bad : Left(c) \in Nat
  <2> SUFFICES ASSUME NEW c \in Cells(pat, path) PROVE Left(c) \in Nat
    OBVIOUS
  <2>1. c[1] \in 1 .. n + 1 /\ c[2] \in 1 .. m + 1
    BY DEF Cells
  <2> HIDE DEF n, m
  <2> QED BY <1>2, <2>1
<1>4. PICK v \in {Left(c) : c \in Bad} : \A w \in {Left(c) : c \in Bad} : v <= w
  <2>1. {Left(c) : c \in Bad} \in SUBSET Nat /\ {Left(c) : c \in Bad} # {}
    BY <1>3
  <2> HIDE DEF Bad, Left
  <2> QED BY <2>1, Least
<1>5. PICK c \in Bad : Left(c) = v
  BY <1>4
<1>6. ASSUME NEW d \in Cells(pat, path), Left(d) < Left(c) PROVE f[d] = h[d]
  <2> SUFFICES ASSUME d \in Bad PROVE FALSE
    OBVIOUS
  <2>1. v <= Left(d) /\ Left(d) \in Nat /\ v \in Nat
    BY <1>3, <1>4, <1>5
  <2> HIDE DEF Left, Bad
  <2> QED BY <1>5, <1>6, <2>1
<1>7. PICK i, j : c = <<i, j>> /\ i \in 1 .. n + 1 /\ j \in 1 .. m + 1
  BY DEF Cells
<1>8. c[1] = i /\ c[2] = j
  BY <1>7
<1>9. \A a, b : <<a, b>> \in Cells(pat, path) <=> a \in 1 .. n + 1 /\ b \in 1 .. m + 1
  BY DEF Cells
<1>10. \A a, b \in Nat : (n + 1 - a) + (m + 1 - b) < (n + 1 - i) + (m + 1 - j)
                           => Left(<<a, b>>) < Left(c)
  BY <1>8
<1>11. Cell(pat, path, f, c) = Cell(pat, path, h, c)
  <2>1. CASE i = n + 1
    BY <1>8, <2>1, Zenon DEF Cell
  <2>2. CASE i # n + 1 /\ pat[i] = <<"*", "*">>
    <3>1. i + 1 \in 1 .. n + 1 /\ i + 1 \in Nat /\ j \in Nat
      BY <1>2, <1>7, <2>2
    <3>2. f[<<i + 1, j>>] = h[<<i + 1, j>>]
      <4>1. (n + 1 - (i + 1)) + (m + 1 - j) < (n + 1 - i) + (m + 1 - j)
        BY <1>2, <1>7, <2>2
      <4> HIDE DEF h, Left, Bad
      <4> QED BY <1>6, <1>7, <1>9, <1>10, <3>1, <4>1
    <3>3. j <= m => f[<<i, j + 1>>] = h[<<i, j + 1>>]
      <4> SUFFICES ASSUME j <= m PROVE f[<<i, j + 1>>] = h[<<i, j + 1>>]
        OBVIOUS
      <4>1. /\ (n + 1 - i) + (m + 1 - (j + 1)) < (n + 1 - i) + (m + 1 - j)
            /\ j + 1 \in 1 .. m + 1 /\ j + 1 \in Nat /\ i \in Nat
        BY <1>2, <1>7, <2>2
      <4> HIDE DEF h, Left, Bad
      <4> QED BY <1>6, <1>7, <1>9, <1>10, <4>1
    <3>4. Cell(pat, path, f, c) = (f[<<i + 1, j>>] \/ (j <= m /\ f[<<i, j + 1>>]))
      <4> HIDE DEF h
      <4> QED BY <1>8, <2>2, Zenon DEF Cell
    <3>5. Cell(pat, path, h, c) = (h[<<i + 1, j>>] \/ (j <= m /\ h[<<i, j + 1>>]))
      <4> HIDE DEF h
      <4> QED BY <1>8, <2>2, Zenon DEF Cell
    <3>6. CASE j <= m
      <4> HIDE DEF h, m
      <4> QED BY <3>2, <3>3, <3>4, <3>5, <3>6
    <3>7. CASE ~ (j <= m)
      <4> HIDE DEF h, m
      <4> QED BY <3>2, <3>3, <3>4, <3>5, <3>7
    <3> HIDE DEF h
    <3> QED BY <3>6, <3>7, Zenon
  <2>3. CASE i # n + 1 /\ pat[i] # <<"*", "*">>
    <3>1. j <= m => f[<<i + 1, j + 1>>] = h[<<i + 1, j + 1>>]
      <4> SUFFICES ASSUME j <= m PROVE f[<<i + 1, j + 1>>] = h[<<i + 1, j + 1>>]
        OBVIOUS
      <4>1. /\ (n + 1 - (i + 1)) + (m + 1 - (j + 1)) < (n + 1 - i) + (m + 1 - j)
            /\ j + 1 \in 1 .. m + 1 /\ j + 1 \in Nat /\ i + 1 \in 1 .. n + 1 /\ i + 1 \in Nat
        BY <1>2, <1>7, <2>3
      <4> HIDE DEF h, Left, Bad
      <4> QED BY <1>6, <1>7, <1>9, <1>10, <4>1
    <3>2. Cell(pat, path, f, c) = (j <= m /\ MatchSeg(pat[i], path[j]) /\ f[<<i + 1, j + 1>>])
      <4> HIDE DEF h
      <4> QED BY <1>8, <2>3, Zenon DEF Cell
    <3>3. Cell(pat, path, h, c) = (j <= m /\ MatchSeg(pat[i], path[j]) /\ h[<<i + 1, j + 1>>])
      <4> HIDE DEF h
      <4> QED BY <1>8, <2>3, Zenon DEF Cell
    <3>4. CASE j <= m
      <4> HIDE DEF h, m
      <4> QED BY <3>1, <3>2, <3>3, <3>4
    <3>5. CASE ~ (j <= m)
      <4> HIDE DEF h, m
      <4> QED BY <3>1, <3>2, <3>3, <3>5
    <3> HIDE DEF h
    <3> QED BY <3>4, <3>5, Zenon
  <2> QED BY <2>1, <2>2, <2>3, Zenon
<1>12. f[c] = Cell(pat, path, f, c) /\ h[c] = Cell(pat, path, h, c)
  BY <1>1 DEF IsReached
<1> QED BY <1>11, <1>12

\* matchSegments (internal/project/glob.go): a pattern matches a path if and only if its
\* segments can be laid on those of the path, "**" on any number of them.
THEOREM MatchSegmentsMeans ==
    ASSUME NEW pat, AreSegs(pat), NEW path, IsPlainPath(path)
    PROVE  MatchSegments(pat, path) <=> MeansPath(pat, path)
<1> DEFINE n == Len(pat)
           m == Len(path)
           dp[c \in (1 .. n + 1) \X (1 .. m + 1)] ==
             IF c[1] = n + 1 THEN c[2] = m + 1
             ELSE IF pat[c[1]] = <<"*", "*">> THEN dp[<<c[1] + 1, c[2]>>] \/ (c[2] <= m /\ dp[<<c[1], c[2] + 1>>])
             ELSE c[2] <= m /\ MatchSeg(pat[c[1]], path[c[2]]) /\ dp[<<c[1] + 1, c[2] + 1>>]
<1>1. IsReached(pat, path, dp)
  <2>1. \E f : f = [c \in (1 .. n + 1) \X (1 .. m + 1) |->
             IF c[1] = n + 1 THEN c[2] = m + 1
             ELSE IF pat[c[1]] = <<"*", "*">> THEN f[<<c[1] + 1, c[2]>>] \/ (c[2] <= m /\ f[<<c[1], c[2] + 1>>])
             ELSE c[2] <= m /\ MatchSeg(pat[c[1]], path[c[2]]) /\ f[<<c[1] + 1, c[2] + 1>>]]
    <3>1. \E f : IsReached(pat, path, f)
      BY ReachedExists
    <3> QED BY <3>1, Zenon DEF IsReached, Cell, Cells
  <2>2. dp = [c \in (1 .. n + 1) \X (1 .. m + 1) |->
             IF c[1] = n + 1 THEN c[2] = m + 1
             ELSE IF pat[c[1]] = <<"*", "*">> THEN dp[<<c[1] + 1, c[2]>>] \/ (c[2] <= m /\ dp[<<c[1], c[2] + 1>>])
             ELSE c[2] <= m /\ MatchSeg(pat[c[1]], path[c[2]]) /\ dp[<<c[1] + 1, c[2] + 1>>]]
    BY <2>1, Zenon
  <2> HIDE DEF dp
  <2> QED BY <2>2, Zenon DEF IsReached, Cell, Cells
<1>2. MatchSegments(pat, path) = dp[<<1, 1>>]
  BY DEF MatchSegments
<1> HIDE DEF dp
<1>3. IsSeq(pat) /\ IsSeq(path) /\ <<1, 1>> \in Cells(pat, path)
  BY DEF AreSegs, IsPlainPath, IsSeq, Cells
<1>4. dp = Reached(pat, path)
  BY <1>1, ReachedIsOne
<1>5. dp[<<1, 1>>] = PathRest(pat, path, 1, 1)
  BY <1>3, <1>4 DEF Reached
<1>6. MeansPath(pat, path) <=> PathRest(pat, path, 1, 1)
  BY <1>3, MeansPathRest
<1> HIDE DEF n, m
<1> QED BY <1>2, <1>5, <1>6, Zenon

LEMMA MatchesAnyMeans ==
    ASSUME NEW ps, ArePatterns(ps), NEW path, IsPlainPath(path)
    PROVE  MatchesAny(ps, path) <=> \E k \in DOMAIN ps : MeansPath(ps[k], path)
<1>1. ASSUME NEW k \in DOMAIN ps PROVE MatchGlob(ps[k], path) <=> MeansPath(ps[k], path)
  <2>1. AreSegs(ps[k]) /\ ps[k] # <<>>
    BY DEF ArePatterns, IsPattern, AreSegs
  <2> QED BY <2>1, MatchSegmentsMeans DEF MatchGlob
<1> QED BY <1>1 DEF MatchesAny

LEMMA IsExcludedMeans ==
    ASSUME NEW ps, ArePatterns(ps), NEW path, IsPlainPath(path), Len(path) > 0
    PROVE  IsExcluded(ps, path)
              <=> \E k \in DOMAIN ps : MeansPath(ps[k], path) \/ MeansPath(ps[k], Base(path))
<1>1. IsPlainPath(Base(path))
  <2>1. Len(path) \in DOMAIN path
    BY DEF IsPlainPath, IsSeq
  <2>2. IsSeq(path[Len(path)]) /\ IsPlain(path[Len(path)])
    BY <2>1 DEF IsPlainPath
  <2>3. Len(Base(path)) = 1 /\ DOMAIN Base(path) = 1 .. 1 /\ Base(path)[1] = path[Len(path)]
    BY DEF Base
  <2> HIDE DEF Base
  <2> QED BY <2>2, <2>3 DEF IsPlainPath, IsSeq
<1>2. ASSUME NEW k \in DOMAIN ps
      PROVE  /\ MatchGlob(ps[k], path) <=> MeansPath(ps[k], path)
             /\ MatchGlob(ps[k], Base(path)) <=> MeansPath(ps[k], Base(path))
  <2>1. AreSegs(ps[k]) /\ ps[k] # <<>>
    BY DEF ArePatterns, IsPattern, AreSegs
  <2> QED BY <1>1, <2>1, MatchSegmentsMeans DEF MatchGlob
<1> QED BY <1>2 DEF IsExcluded

-----------------------------------------------------------------------------
\* What is made of a file when all that loads in fewer steps is known.
Body(disk, f, c) ==
    IF c[1] \in c[2] \/ disk[c[1]] = None THEN None
    ELSE OnTop([n \in DOMAIN disk[c[1]].presets |->
                   IF disk[c[1]].presets[n] \in DOMAIN disk
                   THEN f[<<disk[c[1]].presets[n], c[2] \cup {c[1]}>>] ELSE None], disk[c[1]])
Chains(disk) == (DOMAIN disk) \X SUBSET DOMAIN disk
\* The files that a chain has not met.
Ahead(disk, c) == Cardinality(DOMAIN disk \ c[2])

LEMMA ChainGoesOn ==
    ASSUME NEW disk, IsFiniteSet(DOMAIN disk), NEW c \in Chains(disk), c[1] \notin c[2],
           NEW name \in DOMAIN disk
    PROVE  LET d == <<name, c[2] \cup {c[1]}>>
           IN  d \in Chains(disk) /\ Ahead(disk, d) < Ahead(disk, c)
<1> DEFINE d == <<name, c[2] \cup {c[1]}>>
           rest == DOMAIN disk \ c[2]
<1>1. d \in Chains(disk)
  BY DEF Chains
<1>2. c[1] \in rest /\ DOMAIN disk \ d[2] = rest \ {c[1]}
  BY DEF Chains
<1>3. IsFiniteSet(rest)
  BY FS_Difference
<1>4. Cardinality(rest \ {c[1]}) = Cardinality(rest) - 1 /\ Cardinality(rest) \in Nat
  <2> HIDE DEF rest
  <2> QED BY <1>2, <1>3, FS_RemoveElement, FS_CardinalityType
<1>5. Ahead(disk, d) < Ahead(disk, c)
  <2>1. Ahead(disk, d) = Cardinality(rest \ {c[1]}) /\ Ahead(disk, c) = Cardinality(rest)
    BY <1>2 DEF Ahead
  <2> HIDE DEF rest, d
  <2> QED BY <1>4, <2>1
<1> QED BY <1>1, <1>5

LEMMA BodySame ==
    ASSUME NEW disk, IsFiniteSet(DOMAIN disk), NEW f, NEW g, NEW c \in Chains(disk),
           \A d \in Chains(disk) : Ahead(disk, d) < Ahead(disk, c) => f[d] = g[d]
    PROVE  Body(disk, f, c) = Body(disk, g, c)
<1>1. CASE c[1] \in c[2] \/ disk[c[1]] = None
  BY <1>1 DEF Body
<1>2. CASE ~(c[1] \in c[2] \/ disk[c[1]] = None)
  <2>1. ASSUME NEW name \in DOMAIN disk
        PROVE  f[<<name, c[2] \cup {c[1]}>>] = g[<<name, c[2] \cup {c[1]}>>]
    BY <1>2, ChainGoesOn
  <2>2. [n \in DOMAIN disk[c[1]].presets |->
           IF disk[c[1]].presets[n] \in DOMAIN disk
           THEN f[<<disk[c[1]].presets[n], c[2] \cup {c[1]}>>] ELSE None]
        = [n \in DOMAIN disk[c[1]].presets |->
           IF disk[c[1]].presets[n] \in DOMAIN disk
           THEN g[<<disk[c[1]].presets[n], c[2] \cup {c[1]}>>] ELSE None]
    BY <2>1
  <2> QED BY <1>2, <2>2 DEF Body
<1> QED BY <1>1, <1>2

\* What holds of a chain when it holds of all that are shorter holds of every chain.
LEMMA ChainInduction ==
    ASSUME NEW disk, IsFiniteSet(DOMAIN disk), NEW S \in SUBSET Chains(disk),
           \A c \in Chains(disk) :
              (\A d \in Chains(disk) : Ahead(disk, d) < Ahead(disk, c) => d \in S) => c \in S
    PROVE  S = Chains(disk)
<1> DEFINE T == {n \in Nat : \A c \in Chains(disk) : Ahead(disk, c) < n => c \in S}
<1>1. \A c \in Chains(disk) : Ahead(disk, c) \in Nat
  BY FS_Difference, FS_CardinalityType DEF Ahead
<1>2. 0 \in T
  BY <1>1
<1>3. ASSUME NEW n \in T PROVE n + 1 \in T
  <2> SUFFICES ASSUME NEW c \in Chains(disk), Ahead(disk, c) < n + 1 PROVE c \in S
    OBVIOUS
  <2>1. ASSUME NEW d \in Chains(disk), Ahead(disk, d) < Ahead(disk, c) PROVE d \in S
    <3>1. Ahead(disk, d) < n
      BY <1>1, <2>1
    <3> QED BY <3>1
  <2> QED BY <2>1
<1>4. T = Nat
  <2>1. T \in SUBSET Nat
    OBVIOUS
  <2> HIDE DEF T
  <2> QED BY <1>2, <1>3, <2>1, Induction
<1>5. ASSUME NEW c \in Chains(disk) PROVE c \in S
  <2>1. Ahead(disk, c) + 1 \in T /\ Ahead(disk, c) < Ahead(disk, c) + 1
    BY <1>1, <1>4
  <2> QED BY <2>1
<1> QED BY <1>5

\* Loading is what its recursion says: no chain goes on for ever.
LEMMA LoadSteps ==
    ASSUME NEW disk, IsFiniteSet(DOMAIN disk)
    PROVE  \E load :
              /\ \A path : Load(disk, path) = IF path \in DOMAIN disk THEN load[<<path, {}>>] ELSE None
              /\ \A c \in Chains(disk) : load[c] = Body(disk, load, c)
<1> DEFINE C == Chains(disk)
           S == {n \in Nat : \E f : \A c \in C : Ahead(disk, c) < n => f[c] = Body(disk, f, c)}
           load[c \in (DOMAIN disk) \X SUBSET DOMAIN disk] == Body(disk, load, c)
<1>1. \A c \in C : Ahead(disk, c) \in Nat /\ Ahead(disk, c) <= Cardinality(DOMAIN disk)
  <2>1. ASSUME NEW c \in C
        PROVE  Cardinality(DOMAIN disk \ c[2]) \in Nat
               /\ Cardinality(DOMAIN disk \ c[2]) <= Cardinality(DOMAIN disk)
    BY FS_Subset, FS_CardinalityType, FS_Difference
  <2> QED BY <2>1 DEF Ahead
<1>2. 0 \in S
  <2>1. \A c \in C : ~(Ahead(disk, c) < 0)
    BY <1>1
  <2> QED BY <2>1
<1>3. ASSUME NEW n \in S PROVE n + 1 \in S
  <2>1. PICK f : \A c \in C : Ahead(disk, c) < n => f[c] = Body(disk, f, c)
    OBVIOUS
  <2> DEFINE g == [c \in C |-> Body(disk, f, c)]
  <2>2. ASSUME NEW c \in C, Ahead(disk, c) < n + 1 PROVE g[c] = Body(disk, g, c)
    <3>1. n \in Nat
      OBVIOUS
    <3>2. ASSUME NEW d \in C, Ahead(disk, d) < Ahead(disk, c) PROVE f[d] = g[d]
      <4>1. Ahead(disk, d) < n
        BY <1>1, <2>2, <3>1, <3>2
      <4> HIDE DEF S
      <4> QED BY <2>1, <4>1
    <3> HIDE DEF g, S
    <3>3. Body(disk, f, c) = Body(disk, g, c)
      BY <3>2, BodySame
    <3> QED BY <3>3 DEF g
  <2>3. n + 1 \in Nat
    OBVIOUS
  <2> HIDE DEF g, C
  <2> QED BY <2>2, <2>3
<1>4. Cardinality(DOMAIN disk) + 1 \in S
  <2>1. S \in SUBSET Nat /\ Cardinality(DOMAIN disk) \in Nat
    BY FS_CardinalityType
  <2> HIDE DEF S
  <2>2. S = Nat
    BY <1>2, <1>3, <2>1, Induction
  <2> QED BY <2>1, <2>2
<1>5. PICK f : \A c \in C : Ahead(disk, c) < Cardinality(DOMAIN disk) + 1 => f[c] = Body(disk, f, c)
  BY <1>4
<1>6. \A c \in C : f[c] = Body(disk, f, c)
  <2>1. Cardinality(DOMAIN disk) \in Nat
    BY FS_CardinalityType
  <2> QED BY <1>1, <1>5, <2>1
<1>7. load = [c \in (DOMAIN disk) \X SUBSET DOMAIN disk |-> Body(disk, load, c)]
  <2> DEFINE g == [c \in C |-> f[c]]
  <2>1. ASSUME NEW c \in C PROVE g[c] = Body(disk, g, c)
    <3>1. \A d \in C : f[d] = g[d]
      OBVIOUS
    <3> HIDE DEF g
    <3>2. Body(disk, f, c) = Body(disk, g, c)
      BY <3>1, BodySame
    <3>3. g[c] = f[c]
      BY <3>1
    <3> QED BY <1>6, <3>2, <3>3
  <2>2. g = [c \in (DOMAIN disk) \X SUBSET DOMAIN disk |-> Body(disk, g, c)]
    <3>1. g = [c \in C |-> g[c]]
      OBVIOUS
    <3> HIDE DEF g
    <3>2. [c \in C |-> g[c]] = [c \in C |-> Body(disk, g, c)]
      BY <2>1
    <3> QED BY <3>1, <3>2 DEF Chains
  <2> HIDE DEF g
  <2> QED BY <2>2
<1>8. \A path : Load(disk, path) = IF path \in DOMAIN disk THEN load[<<path, {}>>] ELSE None
  BY DEF Load, LoadPresets, Body
<1> HIDE DEF load
<1> QED BY <1>7, <1>8 DEF Chains

-----------------------------------------------------------------------------
\* Of a file: its overrides are a list of paths, if there are any.
Shaped(f) == DOMAIN f = DOMAIN Empty /\ (f.overrides # None => ArePaths(f.overrides))

LEMMA MergeShape ==
    ASSUME NEW base, NEW f, Shaped(base), Shaped(f)
    PROVE  Shaped(MergePreset(base, f))
<1>1. /\ DOMAIN MergePreset(base, f) = DOMAIN f
      /\ MergePreset(base, f).overrides \in {base.overrides, None, f.overrides}
  BY DEF MergePreset, Shaped, Empty
<1> QED BY <1>1 DEF Shaped

\* What the nth preset makes of those before it.
Under(presets, n, b) ==
    IF n = 0 THEN Empty
    ELSE IF b = None \/ presets[n] = None THEN None
    ELSE IF ~ValidPreset(presets[n]) THEN None
    ELSE MergePreset(b, presets[n])

LEMMA OnTopSteps ==
    ASSUME NEW presets, Len(presets) \in Nat
    PROVE  \E piled :
              /\ \A n \in 0 .. Len(presets) : piled[n] = Under(presets, n, piled[n - 1])
              /\ \A f : OnTop(presets, f) = IF piled[Len(presets)] = None THEN None
                                            ELSE MergePreset(piled[Len(presets)], f)
<1> DEFINE N == Len(presets)
           piled[n \in 0 .. N] == Under(presets, n, piled[n - 1])
           Upto(n, g) == \A k \in 0 .. n : g[k] = Under(presets, k, g[k - 1])
           S == {n \in Nat : \E g : Upto(n, g)}
<1>1. 0 \in S
  <2>1. Upto(0, [k \in 0 .. 0 |-> Empty])
    BY DEF Under
  <2> QED BY <2>1
<1>2. ASSUME NEW n \in S PROVE n + 1 \in S
  <2>1. PICK g : Upto(n, g)
    OBVIOUS
  <2> DEFINE h == [k \in 0 .. n + 1 |-> IF k = n + 1 THEN Under(presets, n + 1, g[n]) ELSE g[k]]
  <2>2. ASSUME NEW k \in 0 .. n + 1 PROVE h[k] = Under(presets, k, h[k - 1])
    <3>1. n \in Nat /\ (k # 0 => h[k - 1] = g[k - 1])
      OBVIOUS
    <3>2. CASE k = n + 1
      <4>1. h[k] = Under(presets, k, g[k - 1]) /\ k # 0
        BY <3>1, <3>2
      <4> QED BY <3>1, <4>1
    <3>3. CASE k # n + 1
      <4>1. k \in 0 .. n /\ h[k] = g[k]
        BY <3>1, <3>3
      <4>2. Under(presets, k, g[k - 1]) = Under(presets, k, h[k - 1])
        <5> HIDE DEF h
        <5> QED BY <3>1 DEF Under
      <4> HIDE DEF h
      <4> QED BY <2>1, <4>1, <4>2
    <3> QED BY <3>2, <3>3
  <2> HIDE DEF h
  <2> QED BY <2>2
<1>3. S = Nat
  <2>1. S \in SUBSET Nat
    OBVIOUS
  <2> HIDE DEF S
  <2> QED BY <1>1, <1>2, <2>1, Induction
<1>4. PICK g : Upto(N, g)
  BY <1>3
<1>5. piled = [n \in 0 .. N |-> Under(presets, n, piled[n - 1])]
  <2> DEFINE h == [k \in 0 .. N |-> g[k]]
  <2>1. ASSUME NEW k \in 0 .. N PROVE h[k] = Under(presets, k, h[k - 1])
    <3>1. k # 0 => h[k - 1] = g[k - 1]
      OBVIOUS
    <3>2. Under(presets, k, g[k - 1]) = Under(presets, k, h[k - 1])
      <4> HIDE DEF h
      <4> QED BY <3>1 DEF Under
    <3>3. h[k] = g[k]
      OBVIOUS
    <3> HIDE DEF h
    <3> QED BY <1>4, <3>2, <3>3
  <2>2. h = [k \in 0 .. N |-> h[k]]
    OBVIOUS
  <2> HIDE DEF h, N
  <2>3. h = [k \in 0 .. N |-> Under(presets, k, h[k - 1])]
    BY <2>1, <2>2
  <2> QED BY <2>3
<1>6. \A f : OnTop(presets, f) = IF piled[N] = None THEN None ELSE MergePreset(piled[N], f)
  BY DEF OnTop, Under
<1> HIDE DEF piled
<1>7. \A n \in 0 .. N : piled[n] = Under(presets, n, piled[n - 1])
  BY <1>5
<1> QED BY <1>6, <1>7

LEMMA OnTopShape ==
    ASSUME NEW presets, Len(presets) \in Nat, NEW f, Shaped(f),
           \A n \in 1 .. Len(presets) : presets[n] # None => Shaped(presets[n]),
           OnTop(presets, f) # None
    PROVE  Shaped(OnTop(presets, f))
<1> DEFINE N == Len(presets)
<1>1. PICK piled : /\ \A n \in 0 .. N : piled[n] = Under(presets, n, piled[n - 1])
                   /\ \A g : OnTop(presets, g) = IF piled[N] = None THEN None ELSE MergePreset(piled[N], g)
  BY OnTopSteps
<1> HIDE DEF N
<1> DEFINE T == {n \in Nat : n <= N => (piled[n] # None => Shaped(piled[n]))}
<1>7. N \in Nat
  BY DEF N
<1>8. 0 \in T
  <2>1. piled[0] = Empty
    BY <1>1, <1>7 DEF Under
  <2>2. Shaped(Empty)
    BY DEF Shaped, Empty
  <2> QED BY <2>1, <2>2
<1>9. ASSUME NEW n \in T PROVE n + 1 \in T
  <2> SUFFICES ASSUME n + 1 <= N, piled[n + 1] # None PROVE Shaped(piled[n + 1])
    OBVIOUS
  <2>1. n \in Nat /\ n + 1 \in 0 .. N /\ n + 1 \in 1 .. N /\ (n + 1) - 1 = n /\ n + 1 # 0
    BY <1>7
  <2>2. piled[n + 1] = Under(presets, n + 1, piled[n])
    <3> HIDE DEF T
    <3> QED BY <1>1, <2>1
  <2>3. piled[n] # None /\ presets[n + 1] # None
        /\ piled[n + 1] = MergePreset(piled[n], presets[n + 1])
    BY <2>1, <2>2 DEF Under
  <2>4. Shaped(piled[n]) /\ Shaped(presets[n + 1])
    BY <1>7, <2>1, <2>3 DEF N
  <2> HIDE DEF T
  <2> QED BY <2>3, <2>4, MergeShape
<1>10. T = Nat
  <2>1. T \in SUBSET Nat
    OBVIOUS
  <2> HIDE DEF T
  <2> QED BY <1>8, <1>9, <2>1, Induction
<1> QED BY <1>1, <1>7, <1>10, MergeShape

LEMMA LoadShape ==
    ASSUME NEW disk, IsFiniteSet(DOMAIN disk),
           \A p \in DOMAIN disk : disk[p] # None => IsFile(disk[p]),
           NEW load, \A c \in Chains(disk) : load[c] = Body(disk, load, c)
    PROVE  \A c \in Chains(disk) : load[c] # None => Shaped(load[c])
<1> DEFINE S == {c \in Chains(disk) : load[c] # None => Shaped(load[c])}
<1>1. ASSUME NEW c \in Chains(disk),
             \A d \in Chains(disk) : Ahead(disk, d) < Ahead(disk, c) => d \in S
      PROVE  c \in S
  <2> SUFFICES ASSUME load[c] # None PROVE Shaped(load[c])
    OBVIOUS
  <2> DEFINE f == disk[c[1]]
             presets == [k \in DOMAIN f.presets |->
                            IF f.presets[k] \in DOMAIN disk
                            THEN load[<<f.presets[k], c[2] \cup {c[1]}>>] ELSE None]
  <2>1. c[1] \notin c[2] /\ f # None /\ load[c] = OnTop(presets, f)
    BY DEF Body
  <2>2. IsFile(f)
    BY <2>1 DEF Chains
  <2>3. Len(presets) \in Nat /\ DOMAIN presets = 1 .. Len(presets)
    <3>1. IsSeq(f.presets)
      BY <2>2 DEF IsFile
    <3>2. DOMAIN presets = 1 .. Len(f.presets) /\ Len(f.presets) \in Nat
      BY <3>1 DEF IsSeq
    <3> HIDE DEF presets
    <3> QED BY <3>2
  <2>4. ASSUME NEW k \in 1 .. Len(presets), presets[k] # None PROVE Shaped(presets[k])
    <3> DEFINE d == <<f.presets[k], c[2] \cup {c[1]}>>
    <3>1. f.presets[k] \in DOMAIN disk /\ presets[k] = load[d]
      BY <2>3, <2>4
    <3>2. d \in Chains(disk) /\ Ahead(disk, d) < Ahead(disk, c)
      BY <2>1, <3>1, ChainGoesOn
    <3>3. d \in S
      <4> HIDE DEF d, S
      <4> QED BY <1>1, <3>2
    <3> HIDE DEF d, presets
    <3> QED BY <2>4, <3>1, <3>3
  <2>5. Shaped(f)
    BY <2>2 DEF IsFile, Shaped
  <2> HIDE DEF presets, f, S
  <2> QED BY <2>1, <2>3, <2>4, <2>5, OnTopShape
<1>2. S = Chains(disk)
  <2> HIDE DEF S
  <2>1. S \in SUBSET Chains(disk)
    BY DEF S
  <2> QED BY <1>1, <2>1, ChainInduction
<1> QED BY <1>2

\* Of a configuration: its lists are lists.
Lists(f) ==
    /\ Shaped(f)
    /\ IsSeq(f.variants) /\ IsSeq(f.externals) /\ AreBuilds(f.builds) /\ ArePatterns(f.exclude)

LEMMA LoadLists ==
    ASSUME NEW disk, IsFiniteSet(DOMAIN disk), NEW path,
           \A p \in DOMAIN disk : disk[p] # None => IsFile(disk[p]),
           Load(disk, path) # None
    PROVE  Lists(Load(disk, path))
<1>1. PICK load : /\ \A p : Load(disk, p) = IF p \in DOMAIN disk THEN load[<<p, {}>>] ELSE None
                  /\ \A c \in Chains(disk) : load[c] = Body(disk, load, c)
  BY LoadSteps
<1> DEFINE c == <<path, {}>>
           f == disk[path]
<1>2. path \in DOMAIN disk /\ c \in Chains(disk) /\ Load(disk, path) = Body(disk, load, c)
  BY <1>1 DEF Chains
<1>3. f # None /\ IsFile(f)
  BY <1>2 DEF Body
<1>4. PICK presets : Load(disk, path) = OnTop(presets, f)
  BY <1>2, <1>3 DEF Body
<1>5. PICK base : Load(disk, path) = MergePreset(base, f)
  BY <1>4 DEF OnTop
<1>6. /\ MergePreset(base, f).variants = f.variants
      /\ MergePreset(base, f).externals = f.externals
      /\ MergePreset(base, f).builds = f.builds
      /\ MergePreset(base, f).exclude = f.exclude
  BY <1>3 DEF IsFile, MergePreset, Empty
<1>8. Shaped(Load(disk, path))
  <2>1. load[c] = Load(disk, path)
    BY <1>1, <1>2
  <2> HIDE DEF c
  <2> QED BY <1>1, <1>2, <2>1, LoadShape
<1> QED BY <1>3, <1>5, <1>6, <1>8 DEF Lists, IsFile

\* What the flags change leaves the lists alone.
LEMMA FlagsKeepLists ==
    ASSUME NEW r, Lists(r.source), "source" \in DOMAIN r, NEW cli, ApplyCLI(r, cli) # None
    PROVE  Lists(ApplyCLI(r, cli).source)
<1> DEFINE f == r.source
           forced == Forced(cli.enable, cli.disable)
           base == IF cli.profile = "" THEN r.enabled
                   ELSE Over(EnabledForProfile(cli.profile), ParseRules(f.rules).severity)
           x == IF cli.profile = "" THEN f.profile ELSE cli.profile
           y == IF cli.target = "" THEN f.target ELSE cli.target
           z == [k \in DOMAIN f.builds |->
                    IF cli.target = "" THEN f.builds[k] ELSE [f.builds[k] EXCEPT !.target = cli.target]]
           g == [f EXCEPT !.profile = x, !.target = y, !.builds = z]
<1>1. ApplyCLI(r, cli) = [r EXCEPT !.enabled = Over(base, forced), !.forced = forced,
                                   !.source.profile = x, !.source.target = y, !.source.builds = z]
  BY Zenon DEF ApplyCLI
<1>4. AreBuilds(z)
  <2>1. AreBuilds(f.builds)
    BY DEF Lists
  <2>2. DOMAIN z = DOMAIN f.builds /\ Len(f.builds) \in Nat /\ DOMAIN f.builds = 1 .. Len(f.builds)
    BY <2>1 DEF AreBuilds, IsSeq
  <2>3. ASSUME NEW k \in DOMAIN f.builds
        PROVE  /\ DOMAIN z[k] = DOMAIN f.builds[k]
               /\ z[k].files = f.builds[k].files /\ z[k].exclude = f.builds[k].exclude
    BY <2>1 DEF AreBuilds
  <2> HIDE DEF z
  <2>4. IsSeq(z)
    BY <2>2 DEF IsSeq
  <2> QED BY <2>1, <2>2, <2>3, <2>4 DEF AreBuilds
<1> HIDE DEF base, forced, x, y, z
<1>2. ApplyCLI(r, cli).source = g
  BY <1>1
<1>3. /\ DOMAIN g = DOMAIN f /\ g.variants = f.variants /\ g.externals = f.externals
      /\ g.builds = z /\ g.overrides = f.overrides /\ g.exclude = f.exclude
  BY DEF Lists, Shaped, Empty
<1> QED BY <1>2, <1>3, <1>4 DEF Lists, Shaped

LEMMA ConfiguredLists ==
    ASSUME NEW disk, IsFiniteSet(DOMAIN disk), NEW level, NEW cli,
           \A p \in DOMAIN disk : disk[p] # None => IsFile(disk[p]),
           Configured(disk, level, cli) # None
    PROVE  Lists(Configured(disk, level, cli).source)
<1> DEFINE path == IF cli.config # None THEN cli.config ELSE DiscoverFile(disk, level)
           f == IF path = None THEN Defaults ELSE Load(disk, path)
           r == Resolve(f)
<1>1. f # None /\ r # None /\ Configured(disk, level, cli) = ApplyCLI(r, cli)
  BY DEF Configured
<1>2. Lists(f)
  <2>1. Lists(Defaults)
    <3>1. DOMAIN <<>> = {} /\ IsSeq(<<>>)
      BY DEF IsSeq
    <3> QED BY <3>1 DEF Defaults, Empty, Lists, Shaped, AreBuilds, ArePatterns
  <2> HIDE DEF path
  <2> QED BY <1>1, <2>1, LoadLists
<1> HIDE DEF f
<1>3. r.source = f /\ "source" \in DOMAIN r
  BY <1>1 DEF Resolve
<1> HIDE DEF r
<1> QED BY <1>1, <1>2, <1>3, FlagsKeepLists

-----------------------------------------------------------------------------
\* Every alias stands for a rule: it was looked up when it was registered.
LEMMA AliasesAreRules == \A n : Known(n) => ResolveID(n) \in IDs
<1> SUFFICES ASSUME NEW a \in DOMAIN Registry.aliases PROVE Registry.aliases[a] \in IDs
  BY DEF Known, ResolveID
<1> DEFINE N == Len(RuleList)
           M == Len(AliasList)
           m == CHOOSE k \in 1 .. M : AliasList[k][1] = a
<1>1. m \in 1 .. M /\ Registry.aliases[a] = AliasList[m][2]
  BY DEF Registry, RegistryOf
<1>2. RegisterAlias(RegistryOf(N, m - 1), AliasList[m]) # None
  <2> HIDE DEF m
  <2> QED BY <1>1, RegistrationAssumption
<1>3. AliasList[m][2] \in DOMAIN RegistryOf(N, m - 1).rules
  <2> HIDE DEF m, N, M
  <2> QED BY <1>2 DEF RegisterAlias
<1>4. DOMAIN RegistryOf(N, m - 1).rules = IDs
  <2> HIDE DEF m
  <2> QED BY DEF RegistryOf, IDs, Registry
<1> QED BY <1>1, <1>3, <1>4

\* Settings speak of rules only, and their overrides are a list.
Settled(r) ==
    /\ ArePaths(r.overrides)
    /\ DOMAIN r.enabled \subseteq IDs /\ DOMAIN r.forced \subseteq IDs
    /\ \A k \in DOMAIN r.overrides : DOMAIN r.overrides[k].severity \subseteq IDs

LEMMA OverDomain ==
    ASSUME NEW on, NEW severity
    PROVE  DOMAIN Over(on, severity) =
              {id \in DOMAIN severity \cup DOMAIN on :
                  (IF id \in DOMAIN severity THEN severity[id] ELSE on[id]) # "off"}
BY DEF Over, Less, Atop

LEMMA OverOfRules ==
    ASSUME NEW on, NEW severity, DOMAIN on \subseteq IDs, DOMAIN severity \subseteq IDs
    PROVE  DOMAIN Over(on, severity) \subseteq IDs
<1>1. ASSUME NEW id \in DOMAIN Over(on, severity) PROVE id \in DOMAIN severity \cup DOMAIN on
  BY <1>1, OverDomain
<1>2. DOMAIN severity \cup DOMAIN on \subseteq IDs
  OBVIOUS
<1> QED BY <1>1, <1>2

LEMMA ParsedRules ==
    ASSUME NEW rules, ValidRules(rules)
    PROVE  DOMAIN ParseRules(rules).severity \subseteq IDs
<1>1. \A n \in DOMAIN rules : ResolveID(n) \in IDs
  BY AliasesAreRules DEF ValidRules
<1>2. DOMAIN ParseRules(rules).severity =
         {ResolveID(n) : n \in {id \in DOMAIN rules : SeverityOf(rules[id]) # None}}
  BY DEF ParseRules
<1> QED BY <1>1, <1>2

LEMMA ProfileRules == \A p : DOMAIN EnabledForProfile(p) \subseteq IDs
BY DEF EnabledForProfile

LEMMA ResolveSettles ==
    ASSUME NEW f, Shaped(f), Resolve(f) # None
    PROVE  Settled(Resolve(f)) /\ Resolve(f).source = f /\ ValidFile(f)
<1> DEFINE r == Resolve(f)
           laid == [k \in DOMAIN f.overrides |->
                       Atop([paths |-> f.overrides[k].paths], ParseRules(f.overrides[k].rules))]
           ovs == IF f.overrides = None THEN <<>> ELSE laid
           on == Over(EnabledForProfile(ProfileOf(f)), ParseRules(f.rules).severity)
<1>0. ValidFile(f) /\ r = [source |-> f, enabled |-> on, options |-> ParseRules(f.rules).options,
                           overrides |-> ovs, forced |-> Nowhere]
  BY Zenon DEF Resolve
<1> HIDE DEF r, laid, ovs, on
<1>1. ValidFile(f) /\ r.source = f /\ r.forced = Nowhere /\ r.enabled = on /\ r.overrides = ovs
  BY <1>0
<1>2. /\ ValidRules(f.rules)
      /\ f.overrides # None =>
            \A k \in DOMAIN f.overrides : ValidRules(f.overrides[k].rules)
  BY <1>1, Zenon DEF ValidFile
<1>3. DOMAIN r.enabled \subseteq IDs
  BY <1>1, <1>2, OverOfRules, ParsedRules, ProfileRules DEF on
<1>4. DOMAIN r.forced \subseteq IDs
  BY <1>1 DEF Nowhere
<1>5. ArePaths(r.overrides)
  <2>1. CASE f.overrides = None
    <3>1. r.overrides = <<>>
      BY <1>1, <2>1 DEF ovs
    <3> QED BY <3>1 DEF ArePaths, IsSeq
  <2>2. CASE f.overrides # None
    <3>1. ArePaths(f.overrides) /\ r.overrides = laid
      BY <1>1, <2>2 DEF Shaped, ovs
    <3>2. DOMAIN laid = 1 .. Len(f.overrides) /\ Len(f.overrides) \in Nat
          /\ DOMAIN f.overrides = 1 .. Len(f.overrides)
      BY <3>1 DEF ArePaths, IsSeq, laid
    <3>3. \A k \in DOMAIN laid : laid[k].paths = f.overrides[k].paths
      BY DEF laid, Atop, ParseRules
    <3> HIDE DEF laid
    <3>4. IsSeq(laid)
      BY <3>2 DEF IsSeq
    <3> QED BY <3>1, <3>2, <3>3, <3>4 DEF ArePaths
  <2> QED BY <2>1, <2>2
<1>6. ASSUME NEW k \in DOMAIN r.overrides PROVE DOMAIN r.overrides[k].severity \subseteq IDs
  <2>1. f.overrides # None /\ k \in DOMAIN f.overrides
        /\ r.overrides[k] = Atop([paths |-> f.overrides[k].paths], ParseRules(f.overrides[k].rules))
    BY <1>1, <1>6 DEF laid, ovs
  <2>2. r.overrides[k].severity = ParseRules(f.overrides[k].rules).severity
    BY <2>1 DEF Atop, ParseRules
  <2> QED BY <1>2, <2>1, <2>2, ParsedRules
<1> QED BY <1>1, <1>3, <1>4, <1>5, <1>6 DEF Settled, r

LEMMA FlagsSettle ==
    ASSUME NEW f, Shaped(f), NEW cli, Resolve(f) # None, ApplyCLI(Resolve(f), cli) # None
    PROVE  Settled(ApplyCLI(Resolve(f), cli))
<1> DEFINE r == Resolve(f)
           q == ApplyCLI(r, cli)
           forced == Forced(cli.enable, cli.disable)
           base == IF cli.profile = "" THEN r.enabled
                   ELSE Over(EnabledForProfile(cli.profile), ParseRules(r.source.rules).severity)
<1>1. DOMAIN r = {"source", "enabled", "options", "overrides", "forced"}
  BY DEF Resolve
<1>2. Settled(r) /\ r.source = f /\ ValidFile(f)
  BY ResolveSettles
<1>3. DOMAIN base \subseteq IDs
  <2>1. ValidRules(f.rules)
    BY <1>2, Zenon DEF ValidFile
  <2> HIDE DEF r
  <2>2. DOMAIN Over(EnabledForProfile(cli.profile), ParseRules(r.source.rules).severity) \subseteq IDs
    BY <1>2, <2>1, OverOfRules, ParsedRules, ProfileRules
  <2> QED BY <1>2, <2>2 DEF Settled
<1>4. DOMAIN forced \subseteq IDs
  <2>1. \A n \in cli.enable \cup cli.disable : ResolveID(n) \in IDs
    BY AliasesAreRules DEF ApplyCLI
  <2> QED BY <2>1 DEF Forced, Atop
<1> DEFINE x == IF cli.profile = "" THEN r.source.profile ELSE cli.profile
           y == IF cli.target = "" THEN r.source.target ELSE cli.target
           z == [k \in DOMAIN r.source.builds |->
                    IF cli.target = "" THEN r.source.builds[k]
                    ELSE [r.source.builds[k] EXCEPT !.target = cli.target]]
<1> HIDE DEF r
<1>5. q = [r EXCEPT !.enabled = Over(base, forced), !.forced = forced,
                    !.source.profile = x, !.source.target = y, !.source.builds = z]
  BY Zenon DEF ApplyCLI
<1> HIDE DEF q, base, forced, x, y, z
<1>6. q.enabled = Over(base, forced) /\ q.forced = forced /\ q.overrides = r.overrides
  BY <1>1, <1>5
<1>7. DOMAIN q.enabled \subseteq IDs
  BY <1>3, <1>4, <1>6, OverOfRules
<1> QED BY <1>2, <1>4, <1>6, <1>7 DEF Settled, q, r

\* The last of some.
LEMMA LatestIs ==
    ASSUME NEW S \in SUBSET Nat, NEW N \in Nat, \A n \in S : n <= N, S # {}
    PROVE  Latest(S) \in S /\ \A m \in S : m <= Latest(S)
<1> DEFINE T == {N - n : n \in S}
<1>1. T \in SUBSET Nat /\ T # {}
  <2>1. \A n \in S : n \in Nat /\ n <= N /\ N - n \in Nat
    OBVIOUS
  <2> QED BY <2>1
<1>2. PICK x \in T : \A y \in T : x <= y
  BY <1>1, Least
<1>3. PICK n \in S : x = N - n
  OBVIOUS
<1>4. \A m \in S : m <= n
  <2> TAKE m \in S
  <2>1. N - m \in T
    OBVIOUS
  <2>2. N - n <= N - m
    BY <1>2, <1>3, <2>1
  <2> QED BY <2>2
<1> QED BY <1>4 DEF Latest

LEMMA LatestOne ==
    ASSUME NEW S \in SUBSET Nat, NEW n \in S, \A m \in S : m <= n
    PROVE  Latest(S) = n
<1>1. Latest(S) \in S /\ \A m \in S : m <= Latest(S)
  BY DEF Latest
<1>2. Latest(S) <= n /\ n <= Latest(S) /\ Latest(S) \in Nat /\ n \in Nat
  BY <1>1
<1> QED BY <1>2

-----------------------------------------------------------------------------
\* What the nth override leaves of what was said before it.
Layer(ovs, path, base, field, n, f) ==
    IF n = 0 THEN base
    ELSE IF MatchesAny(ovs[n].paths, path) THEN Atop(ovs[n][field], f)
    ELSE f

LEMMA LayeredSteps ==
    ASSUME NEW ovs, IsSeq(ovs), NEW path, NEW base, NEW field
    PROVE  \E upTo :
              /\ \A n \in 0 .. Len(ovs) : upTo[n] = Layer(ovs, path, base, field, n, upTo[n - 1])
              /\ Layered(ovs, path, base, field) = upTo[Len(ovs)]
<1> DEFINE N == Len(ovs)
           upTo[n \in 0 .. N] == Layer(ovs, path, base, field, n, upTo[n - 1])
           Upto(n, g) == \A k \in 0 .. n : g[k] = Layer(ovs, path, base, field, k, g[k - 1])
           S == {n \in Nat : \E g : Upto(n, g)}
<1>1. 0 \in S
  <2>1. Upto(0, [k \in 0 .. 0 |-> base])
    BY DEF Layer
  <2> QED BY <2>1
<1>2. ASSUME NEW n \in S PROVE n + 1 \in S
  <2>1. PICK g : Upto(n, g)
    OBVIOUS
  <2> DEFINE h == [k \in 0 .. n + 1 |-> IF k = n + 1 THEN Layer(ovs, path, base, field, n + 1, g[n]) ELSE g[k]]
  <2>2. ASSUME NEW k \in 0 .. n + 1 PROVE h[k] = Layer(ovs, path, base, field, k, h[k - 1])
    <3>1. n \in Nat /\ (k # 0 => h[k - 1] = g[k - 1])
      OBVIOUS
    <3>2. CASE k = n + 1
      <4>1. h[k] = Layer(ovs, path, base, field, k, g[k - 1]) /\ k # 0
        BY <3>1, <3>2
      <4> QED BY <3>1, <4>1
    <3>3. CASE k # n + 1
      <4>1. k \in 0 .. n /\ h[k] = g[k]
        BY <3>1, <3>3
      <4>2. Layer(ovs, path, base, field, k, g[k - 1]) = Layer(ovs, path, base, field, k, h[k - 1])
        <5> HIDE DEF h
        <5> QED BY <3>1 DEF Layer
      <4> HIDE DEF h
      <4> QED BY <2>1, <4>1, <4>2
    <3> QED BY <3>2, <3>3
  <2> HIDE DEF h
  <2> QED BY <2>2
<1>3. S = Nat
  <2>1. S \in SUBSET Nat
    OBVIOUS
  <2> HIDE DEF S
  <2> QED BY <1>1, <1>2, <2>1, Induction
<1>4. PICK g : Upto(N, g)
  BY <1>3 DEF IsSeq
<1>5. upTo = [n \in 0 .. N |-> Layer(ovs, path, base, field, n, upTo[n - 1])]
  <2> DEFINE h == [k \in 0 .. N |-> g[k]]
  <2>1. ASSUME NEW k \in 0 .. N PROVE h[k] = Layer(ovs, path, base, field, k, h[k - 1])
    <3>1. k # 0 => h[k - 1] = g[k - 1]
      OBVIOUS
    <3>2. Layer(ovs, path, base, field, k, g[k - 1]) = Layer(ovs, path, base, field, k, h[k - 1])
      <4> HIDE DEF h
      <4> QED BY <3>1 DEF Layer
    <3>3. h[k] = g[k]
      OBVIOUS
    <3> HIDE DEF h
    <3> QED BY <1>4, <3>2, <3>3
  <2>2. h = [k \in 0 .. N |-> h[k]]
    OBVIOUS
  <2> HIDE DEF h, N
  <2>3. h = [k \in 0 .. N |-> Layer(ovs, path, base, field, k, h[k - 1])]
    BY <2>1, <2>2
  <2> QED BY <2>3
<1>6. Layered(ovs, path, base, field) = upTo[N]
  BY DEF Layered, Layer
<1> HIDE DEF upTo
<1>7. \A n \in 0 .. N : upTo[n] = Layer(ovs, path, base, field, n, upTo[n - 1])
  BY <1>5
<1> QED BY <1>6, <1>7

\* Of the overrides that match a path those that speak of something.
Hits(ovs, path, field, id) ==
    {k \in DOMAIN ovs : MatchesAny(ovs[k].paths, path) /\ id \in DOMAIN ovs[k][field]}

\* What the first n of them come to is what the last of them says.
IsLayer(ovs, path, base, field, id, n, f) ==
    LET hits == {k \in Hits(ovs, path, field, id) : k <= n}
    IN  /\ id \in DOMAIN f <=> hits # {} \/ id \in DOMAIN base
        /\ hits # {} => f[id] = ovs[Latest(hits)][field][id]
        /\ hits = {} /\ id \in DOMAIN base => f[id] = base[id]

LEMMA LayeredIs ==
    ASSUME NEW ovs, IsSeq(ovs), NEW path, NEW base, NEW field, NEW id
    PROVE  LET hits == Hits(ovs, path, field, id)
               f == Layered(ovs, path, base, field)
           IN  /\ id \in DOMAIN f <=> hits # {} \/ id \in DOMAIN base
               /\ hits # {} => f[id] = ovs[Latest(hits)][field][id]
               /\ hits = {} /\ id \in DOMAIN base => f[id] = base[id]
<1> DEFINE N == Len(ovs)
           Fits(n, f) == IsLayer(ovs, path, base, field, id, n, f)
<1>1. PICK upTo : /\ \A n \in 0 .. N : upTo[n] = Layer(ovs, path, base, field, n, upTo[n - 1])
                  /\ Layered(ovs, path, base, field) = upTo[N]
  BY LayeredSteps
<1>2. N \in Nat /\ DOMAIN ovs = 1 .. N
  BY DEF IsSeq
<1> HIDE DEF N
<1> DEFINE T == {n \in Nat : n <= N => Fits(n, upTo[n])}
<1>3. 0 \in T
  <2>1. upTo[0] = base
    BY <1>1, <1>2 DEF Layer
  <2>2. {k \in Hits(ovs, path, field, id) : k <= 0} = {}
    BY <1>2 DEF Hits
  <2> QED BY <2>1, <2>2 DEF IsLayer
<1>4. ASSUME NEW n \in T PROVE n + 1 \in T
  <2> SUFFICES ASSUME n + 1 <= N PROVE Fits(n + 1, upTo[n + 1])
    OBVIOUS
  <2>1. n \in Nat /\ n + 1 \in 0 .. N /\ n + 1 \in DOMAIN ovs /\ (n + 1) - 1 = n /\ n + 1 # 0
        /\ Fits(n, upTo[n])
    BY <1>2
  <2>2. upTo[n + 1] = Layer(ovs, path, base, field, n + 1, upTo[n])
    <3> HIDE DEF T, Fits
    <3> QED BY <1>1, <2>1
  <2> DEFINE hits(m) == {k \in Hits(ovs, path, field, id) : k <= m}
  <2>3. Hits(ovs, path, field, id) \subseteq 1 .. N
    BY <1>2 DEF Hits
  <2>4. hits(n + 1) = hits(n) \cup ({n + 1} \cap Hits(ovs, path, field, id))
    BY <2>1, <2>3
  <2>5. CASE n + 1 \in Hits(ovs, path, field, id)
    <3>1. upTo[n + 1] = Atop(ovs[n + 1][field], upTo[n]) /\ id \in DOMAIN ovs[n + 1][field]
      BY <2>1, <2>2, <2>5 DEF Layer, Hits
    <3>2. Latest(hits(n + 1)) = n + 1 /\ hits(n + 1) # {}
      <4>1. hits(n + 1) \in SUBSET Nat /\ n + 1 \in hits(n + 1) /\ \A k \in hits(n + 1) : k <= n + 1
        BY <2>1, <2>3, <2>4, <2>5
      <4> HIDE DEF hits
      <4> QED BY <4>1, LatestOne
    <3> QED BY <3>1, <3>2 DEF IsLayer, Atop
  <2>6. CASE n + 1 \notin Hits(ovs, path, field, id)
    <3>1. hits(n + 1) = hits(n)
      BY <2>4, <2>6
    <3>2. \/ upTo[n + 1] = upTo[n]
          \/ upTo[n + 1] = Atop(ovs[n + 1][field], upTo[n]) /\ id \notin DOMAIN ovs[n + 1][field]
      BY <2>1, <2>2, <2>6 DEF Layer, Hits
    <3>3. (id \in DOMAIN upTo[n + 1] <=> id \in DOMAIN upTo[n])
          /\ (id \in DOMAIN upTo[n] => upTo[n + 1][id] = upTo[n][id])
      BY <3>2 DEF Atop
    <3> QED BY <2>1, <3>1, <3>3 DEF IsLayer
  <2> QED BY <2>5, <2>6
<1>5. T = Nat
  <2>1. T \in SUBSET Nat
    OBVIOUS
  <2> HIDE DEF T
  <2> QED BY <1>3, <1>4, <2>1, Induction
<1>6. Fits(N, upTo[N])
  BY <1>2, <1>5
<1>7. {k \in Hits(ovs, path, field, id) : k <= N} = Hits(ovs, path, field, id)
  BY <1>2 DEF Hits
<1> QED BY <1>1, <1>6, <1>7 DEF IsLayer

\* Whatever is said of a rule for a path, the settings or an override said it.
LEMMA LayeredSays ==
    ASSUME NEW ovs, IsSeq(ovs), NEW path, NEW base,
           NEW id \in DOMAIN Layered(ovs, path, base, "severity")
    PROVE  \/ id \in DOMAIN base
           \/ \E k \in DOMAIN ovs :
                 /\ id \in DOMAIN ovs[k].severity
                 /\ ovs[k].severity[id] = Layered(ovs, path, base, "severity")[id]
<1> DEFINE hits == Hits(ovs, path, "severity", id)
           f == Layered(ovs, path, base, "severity")
<1>1. /\ hits # {} \/ id \in DOMAIN base
      /\ hits # {} => f[id] = ovs[Latest(hits)].severity[id]
  BY LayeredIs
<1>2. hits # {} => Latest(hits) \in hits
  <2>1. hits \in SUBSET Nat /\ Len(ovs) \in Nat /\ \A n \in hits : n <= Len(ovs)
    BY DEF Hits, IsSeq
  <2> HIDE DEF hits
  <2> QED BY <2>1, LatestIs
<1> QED BY <1>1, <1>2 DEF Hits

LEMMA EnabledAreWanted ==
    ASSUME NEW r, Settled(r), NEW path, NEW rule \in DOMAIN EnabledForPath(r, path)
    PROVE  rule \in Wanted(r) /\ rule \in IDs
<1> DEFINE f == Layered(r.overrides, path, r.enabled, "severity")
           said(k) == r.overrides[k].severity
<1>1. /\ rule \in DOMAIN r.forced \cup DOMAIN f
      /\ (IF rule \in DOMAIN r.forced THEN r.forced[rule] ELSE f[rule]) # "off"
  <2>1. rule \in DOMAIN Over(f, r.forced)
    BY DEF EnabledForPath
  <2> HIDE DEF f
  <2>2. DOMAIN Over(f, r.forced) =
           {i \in DOMAIN r.forced \cup DOMAIN f :
               (IF i \in DOMAIN r.forced THEN r.forced[i] ELSE f[i]) # "off"}
    BY OverDomain
  <2> QED BY <2>1, <2>2, Zenon
<1>2. /\ DOMAIN r.enabled \subseteq Wanted(r)
      /\ \A i \in DOMAIN r.forced : r.forced[i] # "off" => i \in Wanted(r)
  BY DEF Wanted, Settled
<1>3. ASSUME NEW k \in DOMAIN r.overrides, NEW i \in DOMAIN said(k), said(k)[i] # "off"
      PROVE  i \in Wanted(r) /\ i \in IDs
  BY <1>3 DEF Wanted, Settled
<1>4. CASE rule \in DOMAIN r.forced
  <2>1. rule \in IDs
    BY <1>4 DEF Settled
  <2> QED BY <1>1, <1>2, <1>4, <2>1
<1>5. CASE rule \notin DOMAIN r.forced
  <2>1. rule \in DOMAIN f /\ f[rule] # "off"
    BY <1>1, <1>5
  <2>2. IsSeq(r.overrides)
    BY DEF Settled, ArePaths
  <2>3. \/ rule \in DOMAIN r.enabled
        \/ \E k \in DOMAIN r.overrides : rule \in DOMAIN said(k) /\ said(k)[rule] = f[rule]
    BY <2>1, <2>2, LayeredSays
  <2>4. CASE rule \in DOMAIN r.enabled
    <3>1. rule \in IDs
      BY <2>4 DEF Settled
    <3> QED BY <1>2, <2>4, <3>1
  <2> HIDE DEF f, said
  <2>5. CASE \E k \in DOMAIN r.overrides : rule \in DOMAIN said(k) /\ said(k)[rule] = f[rule]
    BY <1>3, <2>1, <2>5
  <2> QED BY <2>3, <2>4, <2>5
<1> QED BY <1>4, <1>5

\* ProjectFeatures (internal/config/features.go): for any settings that can be resolved.
LEMMA EnabledHaveFeatures ==
    ASSUME NEW r, Settled(r), NEW path, NEW id \in DOMAIN EnabledForPath(r, path)
    PROVE  Registry.rules[id].features \subseteq ProjectFeatures(r, {})
<1>1. id \in Wanted(r) \ {} /\ id \in IDs
  BY EnabledAreWanted
<1> QED BY <1>1 DEF ProjectFeatures, AllFeatures

LEMMA ConfiguredSettles ==
    ASSUME NEW disk, IsFiniteSet(DOMAIN disk), NEW level, NEW cli,
           \A p \in DOMAIN disk : disk[p] # None => IsFile(disk[p]),
           Configured(disk, level, cli) # None
    PROVE  Settled(Configured(disk, level, cli))
<1> DEFINE path == IF cli.config # None THEN cli.config ELSE DiscoverFile(disk, level)
           f == IF path = None THEN Defaults ELSE Load(disk, path)
           r == Resolve(f)
<1>1. f # None /\ r # None /\ Configured(disk, level, cli) = ApplyCLI(r, cli)
  BY DEF Configured
<1>2. Shaped(f)
  <2>1. Shaped(Defaults)
    BY DEF Defaults, Empty, Shaped
  <2> HIDE DEF path
  <2> QED BY <1>1, <2>1, LoadLists DEF Lists
<1> HIDE DEF f
<1> QED BY <1>1, <1>2, FlagsSettle

-----------------------------------------------------------------------------
\* Numbers that come after N others.
After(N, T) == {N + m : m \in T}

Follows(U, S, T, N, M) ==
    /\ N \in Nat /\ M \in Nat /\ S \subseteq 1 .. N /\ T \subseteq 1 .. M
    /\ U = S \cup After(N, T)

LEMMA LatestAfter ==
    ASSUME NEW N, NEW M, NEW S, NEW T, NEW U, Follows(U, S, T, N, M), T # {}
    PROVE  Latest(T) \in T /\ Latest(U) = N + Latest(T)
<1>0. /\ N \in Nat /\ M \in Nat /\ S \subseteq 1 .. N /\ T \subseteq 1 .. M
      /\ U = S \cup After(N, T)
  BY DEF Follows
<1>1. Latest(T) \in T /\ \A m \in T : m <= Latest(T)
  <2>1. T \in SUBSET Nat /\ \A m \in T : m <= M
    BY <1>0
  <2> QED BY <1>0, <2>1, LatestIs
<1>2. U \in SUBSET Nat /\ N + Latest(T) \in U
  <2>1. S \subseteq Nat /\ \A m \in T : N + m \in Nat
    BY <1>0
  <2>2. After(N, T) \subseteq Nat /\ N + Latest(T) \in After(N, T)
    BY <1>1, <2>1 DEF After
  <2> QED BY <1>0, <2>1, <2>2
<1>3. \A m \in U : m <= N + Latest(T)
  <2>0. \A m \in T : m \in Nat
    BY <1>0
  <2>1. Latest(T) \in Nat /\ \A m \in T : m \in Nat
    BY <1>1, <2>0
  <2>2. \A m \in S : m <= N + Latest(T)
    BY <1>0, <2>1
  <2>3. \A m \in T : N + m <= N + Latest(T)
    BY <1>0, <1>1, <2>1
  <2> QED BY <1>0, <2>2, <2>3 DEF After
<1>4. Latest(U) = N + Latest(T)
  BY <1>2, <1>3, LatestOne
<1> QED BY <1>1, <1>4

\* Where the elements of two sequences are when one comes after the other.
LEMMA OneAfterOther ==
    ASSUME NEW F, NEW fs \in Seq(F), NEW gs \in Seq(F)
    PROVE  /\ fs \o gs \in Seq(F) /\ Len(fs \o gs) = Len(fs) + Len(gs)
           /\ DOMAIN (fs \o gs) = DOMAIN fs \cup After(Len(fs), DOMAIN gs)
           /\ \A n \in DOMAIN fs : (fs \o gs)[n] = fs[n]
           /\ \A m \in DOMAIN gs : (fs \o gs)[Len(fs) + m] = gs[m] /\ Len(fs) + m \notin DOMAIN fs
<1>1. fs \o gs \in Seq(F) /\ Len(fs \o gs) = Len(fs) + Len(gs)
  OBVIOUS
<1>2. /\ DOMAIN fs = 1 .. Len(fs) /\ DOMAIN gs = 1 .. Len(gs) /\ DOMAIN (fs \o gs) = 1 .. Len(fs) + Len(gs)
      /\ Len(fs) \in Nat /\ Len(gs) \in Nat
  BY <1>1
<1>3. ASSUME NEW n \in 1 .. Len(fs) + Len(gs), n \notin 1 .. Len(fs)
      PROVE  n \in After(Len(fs), 1 .. Len(gs))
  <2>1. n - Len(fs) \in 1 .. Len(gs) /\ n = Len(fs) + (n - Len(fs))
    BY <1>2, <1>3
  <2> QED BY <2>1 DEF After
<1>4. \A n \in After(Len(fs), 1 .. Len(gs)) : n \in 1 .. Len(fs) + Len(gs)
  BY <1>2 DEF After
<1>5. 1 .. Len(fs) + Len(gs) = (1 .. Len(fs)) \cup After(Len(fs), 1 .. Len(gs))
  BY <1>2, <1>3, <1>4
<1>6. \A n \in DOMAIN fs : (fs \o gs)[n] = fs[n]
  BY <1>2
<1>7. \A m \in DOMAIN gs : (fs \o gs)[Len(fs) + m] = gs[m] /\ Len(fs) + m \notin DOMAIN fs
  BY <1>2
<1> QED BY <1>1, <1>2, <1>5, <1>6, <1>7

-----------------------------------------------------------------------------
\* What the merged rules have under a key.
IsTable(v) == Is("table", v)
Joins(base, over, all, k) ==
    LET b == base[k].table
        v == over[k].table
        t == all[k].table
        both == k \in DOMAIN base \cap DOMAIN over /\ IsTable(base[k]) /\ IsTable(over[k])
    IN  /\ DOMAIN all = DOMAIN base \cup DOMAIN over
        /\ k \in DOMAIN base \ DOMAIN over => all[k] = base[k]
        /\ k \in DOMAIN over /\ ~both => all[k] = over[k]
        /\ both => /\ IsTable(all[k]) /\ DOMAIN t = DOMAIN b \cup DOMAIN v
                   /\ \A o \in DOMAIN b \ DOMAIN v : t[o] = b[o]
                   /\ \A o \in DOMAIN v :
                         IF o \in DOMAIN b /\ IsTable(b[o]) /\ IsTable(v[o])
                         THEN IsTable(t[o]) ELSE t[o] = v[o]

LEMMA MergeKeys == ASSUME NEW base, NEW over, NEW k PROVE Joins(base, over, MergeRules(base, over), k)
<1> DEFINE all == MergeRules(base, over)
           b == base[k].table
           v == over[k].table
           t == all[k].table
           both == k \in DOMAIN base \cap DOMAIN over /\ IsTable(base[k]) /\ IsTable(over[k])
<1>1. all = [l \in DOMAIN base \cup DOMAIN over |->
                IF l \notin DOMAIN over THEN base[l]
                ELSE IF l \in DOMAIN base /\ IsTable(base[l]) /\ IsTable(over[l])
                THEN Table(MergeOptions(base[l].table, over[l].table))
                ELSE over[l]]
  BY DEF MergeRules, MergeTables, IsTable
<1>2. MergeOptions(b, v) =
         [o \in DOMAIN b \cup DOMAIN v |->
             IF o \notin DOMAIN v THEN b[o]
             ELSE IF o \in DOMAIN b /\ IsTable(b[o]) /\ IsTable(v[o])
             THEN Table(Atop(v[o].table, b[o].table))
             ELSE v[o]]
  BY DEF MergeOptions, MergeTables, IsTable
<1>3. \A f : IsTable(Table(f)) /\ Table(f).table = f
  BY DEF IsTable, Is, Table
<1> HIDE DEF all
<1>4. ASSUME both
      PROVE  /\ IsTable(all[k]) /\ DOMAIN t = DOMAIN b \cup DOMAIN v
             /\ \A o \in DOMAIN b \ DOMAIN v : t[o] = b[o]
             /\ \A o \in DOMAIN v :
                   IF o \in DOMAIN b /\ IsTable(b[o]) /\ IsTable(v[o])
                   THEN IsTable(t[o]) ELSE t[o] = v[o]
  <2>1. all[k] = Table(MergeOptions(b, v))
    BY <1>1, <1>4
  <2>2. IsTable(all[k]) /\ t = MergeOptions(b, v)
    BY <1>3, <2>1
  <2> HIDE DEF b, v, t
  <2>3. DOMAIN t = DOMAIN b \cup DOMAIN v /\ \A o \in DOMAIN b \ DOMAIN v : t[o] = b[o]
    BY <1>2, <2>2
  <2>4. ASSUME NEW o \in DOMAIN v
        PROVE  IF o \in DOMAIN b /\ IsTable(b[o]) /\ IsTable(v[o])
               THEN IsTable(t[o]) ELSE t[o] = v[o]
    BY <1>2, <1>3, <2>2
  <2> QED BY <2>2, <2>3, <2>4
<1>5. DOMAIN all = DOMAIN base \cup DOMAIN over
  BY <1>1
<1>6. k \in DOMAIN base \ DOMAIN over => all[k] = base[k]
  BY <1>1
<1>7. k \in DOMAIN over /\ ~both => all[k] = over[k]
  BY <1>1
<1> HIDE DEF both, t, b, v
<1>8. /\ DOMAIN all = DOMAIN base \cup DOMAIN over
      /\ k \in DOMAIN base \ DOMAIN over => all[k] = base[k]
      /\ k \in DOMAIN over /\ ~both => all[k] = over[k]
      /\ both => /\ IsTable(all[k]) /\ DOMAIN t = DOMAIN b \cup DOMAIN v
                 /\ \A o \in DOMAIN b \ DOMAIN v : t[o] = b[o]
                 /\ \A o \in DOMAIN v :
                       IF o \in DOMAIN b /\ IsTable(b[o]) /\ IsTable(v[o])
                       THEN IsTable(t[o]) ELSE t[o] = v[o]
  BY <1>4, <1>5, <1>6, <1>7, Zenon
<1> QED BY <1>8, Zenon DEF Joins, all, b, v, t, both

\* Of files one after the other and a key: those that say something else than a table,
\* those after all of these that say a table, and of these those with an option.
Resets(fs, k) == {n \in DOMAIN fs : k \in DOMAIN fs[n].rules /\ ~IsTable(fs[n].rules[k])}
Live(fs, k) == {n \in DOMAIN fs : k \in DOMAIN fs[n].rules /\ \A m \in Resets(fs, k) : m < n}
With(fs, k, o) == {n \in Live(fs, k) : o \in DOMAIN fs[n].rules[k].table}

\* What they come to.  An option that is a table, no matter what is in it, is refused.
SameWord(v, w) == v = w \/ (IsTable(v) /\ IsTable(w))
Tells(rules, fs, k) ==
    /\ k \in DOMAIN rules <=> \E n \in DOMAIN fs : k \in DOMAIN fs[n].rules
    /\ Resets(fs, k) # {} /\ Live(fs, k) = {} => rules[k] = fs[Latest(Resets(fs, k))].rules[k]
    /\ Live(fs, k) # {} =>
          /\ IsTable(rules[k])
          /\ \A o : o \in DOMAIN rules[k].table <=> With(fs, k, o) # {}
          /\ \A o \in DOMAIN rules[k].table :
                SameWord(rules[k].table[o], fs[Latest(With(fs, k, o))].rules[k].table[o])

LEMMA WordsAfter ==
    ASSUME NEW F, NEW fs \in Seq(F), NEW gs \in Seq(F), NEW k
    PROVE  LET hs == fs \o gs
               N == Len(fs)
           IN  /\ Resets(hs, k) = Resets(fs, k) \cup After(N, Resets(gs, k))
               /\ Resets(gs, k) = {} => Live(hs, k) = Live(fs, k) \cup After(N, Live(gs, k))
               /\ Resets(gs, k) # {} => Live(hs, k) = After(N, Live(gs, k))
<1> DEFINE hs == fs \o gs
           N == Len(fs)
<1>1. /\ DOMAIN hs = DOMAIN fs \cup After(N, DOMAIN gs)
      /\ \A n \in DOMAIN fs : hs[n] = fs[n]
      /\ \A m \in DOMAIN gs : hs[N + m] = gs[m] /\ N + m \notin DOMAIN fs
  BY OneAfterOther
<1>2. N \in Nat /\ DOMAIN fs = 1 .. N /\ DOMAIN gs = 1 .. Len(gs) /\ Len(gs) \in Nat
  OBVIOUS
<1> HIDE DEF hs, N
<1>3. Resets(hs, k) = Resets(fs, k) \cup After(N, Resets(gs, k))
  BY <1>1 DEF Resets, After
<1>4. \A n \in DOMAIN fs : \A m \in DOMAIN gs : n < N + m /\ ~(N + m < n)
  BY <1>2
<1>5. \A l, m \in DOMAIN gs : l < m <=> N + l < N + m
  BY <1>2
<1>6. Resets(fs, k) \subseteq DOMAIN fs /\ Resets(gs, k) \subseteq DOMAIN gs
  BY DEF Resets
<1>7. ASSUME NEW m \in DOMAIN gs
      PROVE  N + m \in Live(hs, k) <=> m \in Live(gs, k)
  <2>1. N + m \in DOMAIN hs /\ hs[N + m] = gs[m]
    BY <1>1 DEF After
  <2>2. (\A l \in Resets(hs, k) : l < N + m) <=> \A l \in Resets(gs, k) : l < m
    BY <1>3, <1>4, <1>5, <1>6 DEF After
  <2> QED BY <2>1, <2>2 DEF Live
<1>8. ASSUME NEW n \in DOMAIN fs
      PROVE  n \in Live(hs, k) <=> n \in Live(fs, k) /\ Resets(gs, k) = {}
  <2>1. n \in DOMAIN hs /\ hs[n] = fs[n]
    BY <1>1
  <2>2. (\A l \in Resets(hs, k) : l < n) <=> /\ \A l \in Resets(fs, k) : l < n
                                           /\ Resets(gs, k) = {}
    BY <1>3, <1>4, <1>6 DEF After
  <2> QED BY <2>1, <2>2 DEF Live
<1>9. Live(hs, k) \subseteq DOMAIN hs /\ Live(fs, k) \subseteq DOMAIN fs /\ Live(gs, k) \subseteq DOMAIN gs
  BY DEF Live
<1>10. Resets(gs, k) = {} => Live(hs, k) = Live(fs, k) \cup After(N, Live(gs, k))
  BY <1>1, <1>7, <1>8, <1>9 DEF After
<1>11. Resets(gs, k) # {} => Live(hs, k) = After(N, Live(gs, k))
  BY <1>1, <1>7, <1>8, <1>9 DEF After
<1> QED BY <1>3, <1>10, <1>11 DEF hs, N

LEMMA SomeSpeak ==
    ASSUME NEW fs, NEW k
    PROVE  (\E n \in DOMAIN fs : k \in DOMAIN fs[n].rules) <=> Resets(fs, k) # {} \/ Live(fs, k) # {}
BY DEF Resets, Live

\* Rules laid over those of earlier files say what all the files say.
LEMMA RulesOnTop ==
    ASSUME NEW F, NEW fs \in Seq(F), NEW gs \in Seq(F), NEW k, NEW a, NEW b,
           Tells(a, fs, k), Tells(b, gs, k), Resets(gs, k) = {} \/ Live(gs, k) = {}
    PROVE  Tells(MergeRules(a, b), fs \o gs, k)
<1> DEFINE hs == fs \o gs
           N == Len(fs)
           all == MergeRules(a, b)
<1>1. /\ DOMAIN hs = DOMAIN fs \cup After(N, DOMAIN gs)
      /\ \A n \in DOMAIN fs : hs[n] = fs[n]
      /\ \A m \in DOMAIN gs : hs[N + m] = gs[m]
  BY OneAfterOther
<1>2. /\ Resets(hs, k) = Resets(fs, k) \cup After(N, Resets(gs, k))
      /\ Resets(gs, k) = {} => Live(hs, k) = Live(fs, k) \cup After(N, Live(gs, k))
      /\ Resets(gs, k) # {} => Live(hs, k) = After(N, Live(gs, k))
  BY WordsAfter
<1>3. /\ N \in Nat /\ Len(gs) \in Nat
      /\ \A o : /\ Resets(fs, k) \in SUBSET (1 .. N) /\ With(fs, k, o) \in SUBSET (1 .. N)
               /\ Resets(gs, k) \in SUBSET (1 .. Len(gs)) /\ With(gs, k, o) \in SUBSET (1 .. Len(gs))
               /\ With(fs, k, o) \subseteq DOMAIN fs /\ With(gs, k, o) \subseteq DOMAIN gs
  BY DEF Resets, With, Live
<1>4. \A T : After(N, T) = {} <=> T = {}
  BY DEF After
<1> DEFINE both == k \in DOMAIN a \cap DOMAIN b /\ IsTable(a[k]) /\ IsTable(b[k])
           c == a[k].table
           v == b[k].table
           t == all[k].table
<1>5. /\ DOMAIN all = DOMAIN a \cup DOMAIN b
      /\ k \in DOMAIN a \ DOMAIN b => all[k] = a[k]
      /\ k \in DOMAIN b /\ ~both => all[k] = b[k]
      /\ both => /\ IsTable(all[k]) /\ DOMAIN t = DOMAIN c \cup DOMAIN v
                 /\ \A o \in DOMAIN c \ DOMAIN v : t[o] = c[o]
                 /\ \A o \in DOMAIN v :
                       IF o \in DOMAIN c /\ IsTable(c[o]) /\ IsTable(v[o])
                       THEN IsTable(t[o]) ELSE t[o] = v[o]
  <2>1. Joins(a, b, all, k)
    BY MergeKeys
  <2> HIDE DEF all
  <2> QED BY <2>1, Zenon DEF Joins
<1>6. /\ k \in DOMAIN a <=> Resets(fs, k) # {} \/ Live(fs, k) # {}
      /\ k \in DOMAIN b <=> Resets(gs, k) # {} \/ Live(gs, k) # {}
  BY SomeSpeak DEF Tells
<1>7. k \in DOMAIN all <=> \E n \in DOMAIN hs : k \in DOMAIN hs[n].rules
  <2>1. (\E n \in DOMAIN hs : k \in DOMAIN hs[n].rules)
        <=> \/ \E n \in DOMAIN fs : k \in DOMAIN fs[n].rules
            \/ \E n \in DOMAIN gs : k \in DOMAIN gs[n].rules
    BY <1>1 DEF After
  <2> QED BY <1>5, <2>1 DEF Tells
<1>0. N \in Nat /\ Len(gs) \in Nat
  OBVIOUS
<1> SUFFICES Tells(all, hs, k)
  OBVIOUS
<1> HIDE DEF hs, N, all
<1>8. CASE Live(gs, k) = {} /\ Resets(gs, k) = {}
  <2>1. Live(hs, k) = Live(fs, k) /\ Resets(hs, k) = Resets(fs, k) /\ k \notin DOMAIN b
    BY <1>2, <1>4, <1>6, <1>8
  <2>2. \A o : With(hs, k, o) = With(fs, k, o)
    BY <1>1, <2>1 DEF With, Live
  <2>3. Resets(hs, k) # {} /\ Live(hs, k) = {} => all[k] = hs[Latest(Resets(hs, k))].rules[k]
    <3> SUFFICES ASSUME Resets(hs, k) # {}, Live(hs, k) = {}
                 PROVE  all[k] = hs[Latest(Resets(hs, k))].rules[k]
      OBVIOUS
    <3>1. Latest(Resets(fs, k)) \in DOMAIN fs
      <4>1. Resets(fs, k) \in SUBSET Nat /\ \A n \in Resets(fs, k) : n <= N
        BY <1>3
      <4>2. Latest(Resets(fs, k)) \in Resets(fs, k)
        BY <1>3, <2>1, <4>1, LatestIs
      <4> QED BY <4>2 DEF Resets
    <3>2. all[k] = a[k] /\ a[k] = fs[Latest(Resets(fs, k))].rules[k]
      BY <1>5, <1>6, <2>1 DEF Tells
    <3> QED BY <1>1, <2>1, <3>1, <3>2
  <2>4. ASSUME Live(hs, k) # {}
        PROVE  /\ IsTable(all[k])
               /\ \A o : o \in DOMAIN all[k].table <=> With(hs, k, o) # {}
               /\ \A o \in DOMAIN all[k].table :
                     SameWord(all[k].table[o], hs[Latest(With(hs, k, o))].rules[k].table[o])
    <3>1. all[k] = a[k] /\ Live(fs, k) # {}
      BY <1>5, <1>6, <2>1, <2>4
    <3>2. ASSUME NEW o \in DOMAIN a[k].table PROVE Latest(With(fs, k, o)) \in DOMAIN fs
      <4>1. With(fs, k, o) \in SUBSET Nat /\ \A n \in With(fs, k, o) : n <= N
        BY <1>3
      <4>2. Latest(With(fs, k, o)) \in With(fs, k, o)
        BY <1>3, <3>1, <3>2, <4>1, LatestIs DEF Tells
      <4> QED BY <1>3, <4>2
    <3> QED BY <1>1, <2>2, <3>1, <3>2 DEF Tells
  <2> QED BY <1>7, <2>3, <2>4 DEF Tells
<1>9. CASE Live(gs, k) = {} /\ Resets(gs, k) # {}
  <2>1. Live(hs, k) = {} /\ k \in DOMAIN b
    BY <1>2, <1>4, <1>6, <1>9
  <2>2. Latest(Resets(gs, k)) \in Resets(gs, k) /\ Latest(Resets(hs, k)) = N + Latest(Resets(gs, k))
    <3>1. Follows(Resets(hs, k), Resets(fs, k), Resets(gs, k), N, Len(gs))
      BY <1>2, <1>3 DEF Follows
    <3> QED BY <1>9, <3>1, LatestAfter
  <2>3. b[k] = gs[Latest(Resets(gs, k))].rules[k]
    BY <1>9 DEF Tells
  <2>4. ~IsTable(b[k]) /\ Latest(Resets(gs, k)) \in DOMAIN gs
    BY <2>2, <2>3 DEF Resets
  <2>5. all[k] = hs[Latest(Resets(hs, k))].rules[k]
    BY <1>1, <1>5, <2>1, <2>2, <2>3, <2>4
  <2> QED BY <1>7, <2>1, <2>5 DEF Tells
<1>10. CASE Live(gs, k) # {} /\ Resets(gs, k) = {}
  <2>1. k \in DOMAIN b /\ IsTable(b[k]) /\ Live(hs, k) = Live(fs, k) \cup After(N, Live(gs, k))
        /\ Live(hs, k) # {}
    BY <1>2, <1>4, <1>6, <1>10 DEF Tells
  <2>2. ASSUME NEW o
        PROVE  With(hs, k, o) = With(fs, k, o) \cup After(N, With(gs, k, o))
    <3>1. \A n \in Live(fs, k) : n \in DOMAIN fs /\ hs[n] = fs[n]
      BY <1>1 DEF Live
    <3>2. \A n \in Live(gs, k) : n \in DOMAIN gs /\ hs[N + n] = gs[n]
      BY <1>1 DEF Live
    <3> QED BY <2>1, <3>1, <3>2 DEF With, After
  <2>3. ASSUME NEW o
        PROVE  /\ o \in DOMAIN v <=> With(gs, k, o) # {}
               /\ o \in DOMAIN v => SameWord(v[o], hs[Latest(With(hs, k, o))].rules[k].table[o])
    <3>1. /\ o \in DOMAIN v <=> With(gs, k, o) # {}
          /\ o \in DOMAIN v => SameWord(v[o], gs[Latest(With(gs, k, o))].rules[k].table[o])
      BY <1>10 DEF Tells
    <3>2. ASSUME With(gs, k, o) # {}
          PROVE  hs[Latest(With(hs, k, o))] = gs[Latest(With(gs, k, o))]
      <4>1. Latest(With(gs, k, o)) \in With(gs, k, o)
            /\ Latest(With(hs, k, o)) = N + Latest(With(gs, k, o))
        <5>1. Follows(With(hs, k, o), With(fs, k, o), With(gs, k, o), N, Len(gs))
          BY <1>3, <2>2 DEF Follows
        <5> QED BY <3>2, <5>1, LatestAfter
      <4> QED BY <1>1, <1>3, <4>1
    <3> QED BY <3>1, <3>2
  <2>4. CASE Live(fs, k) = {}
    <3>1. ~(k \in DOMAIN a /\ IsTable(a[k]))
      <4> SUFFICES ASSUME k \in DOMAIN a PROVE ~IsTable(a[k])
        OBVIOUS
      <4>1. Resets(fs, k) # {} /\ a[k] = fs[Latest(Resets(fs, k))].rules[k]
        BY <1>6, <2>4 DEF Tells
      <4>2. Resets(fs, k) \in SUBSET Nat /\ \A n \in Resets(fs, k) : n <= N
        BY <1>3
      <4>3. Latest(Resets(fs, k)) \in Resets(fs, k)
        BY <1>3, <4>1, <4>2, LatestIs
      <4> QED BY <4>1, <4>3 DEF Resets
    <3>2. all[k] = b[k] /\ \A o : With(fs, k, o) = {}
      BY <1>5, <2>1, <2>4, <3>1 DEF With
    <3>3. \A o : With(hs, k, o) # {} <=> With(gs, k, o) # {}
      BY <1>4, <2>2, <3>2
    <3> QED BY <1>7, <2>1, <2>3, <3>2, <3>3 DEF Tells
  <2>5. CASE Live(fs, k) # {}
    <3>1. /\ k \in DOMAIN a /\ IsTable(a[k])
          /\ \A o : o \in DOMAIN c <=> With(fs, k, o) # {}
          /\ \A o \in DOMAIN c : SameWord(c[o], fs[Latest(With(fs, k, o))].rules[k].table[o])
      BY <1>6, <2>5 DEF Tells
    <3>2. /\ IsTable(all[k]) /\ DOMAIN t = DOMAIN c \cup DOMAIN v
          /\ \A o \in DOMAIN c \ DOMAIN v : t[o] = c[o]
          /\ \A o \in DOMAIN v :
                IF o \in DOMAIN c /\ IsTable(c[o]) /\ IsTable(v[o])
                THEN IsTable(t[o]) ELSE t[o] = v[o]
      BY <1>5, <2>1, <3>1
    <3>3. \A o : o \in DOMAIN t <=> With(hs, k, o) # {}
      BY <1>4, <2>2, <2>3, <3>1, <3>2
    <3>4. ASSUME NEW o \in DOMAIN v
          PROVE  SameWord(t[o], hs[Latest(With(hs, k, o))].rules[k].table[o])
      BY <2>3, <3>2 DEF SameWord
    <3>5. ASSUME NEW o \in DOMAIN c \ DOMAIN v
          PROVE  SameWord(t[o], hs[Latest(With(hs, k, o))].rules[k].table[o])
      <4>1. With(hs, k, o) = With(fs, k, o) /\ With(fs, k, o) # {}
        BY <1>4, <2>2, <2>3, <3>1, <3>5
      <4>2. With(fs, k, o) \in SUBSET Nat /\ \A n \in With(fs, k, o) : n <= N
        BY <1>3
      <4>3. Latest(With(fs, k, o)) \in DOMAIN fs
        BY <1>3, <4>1, <4>2, LatestIs
      <4> QED BY <1>1, <3>1, <3>2, <4>1, <4>3
    <3>6. \A o \in DOMAIN t : SameWord(t[o], hs[Latest(With(hs, k, o))].rules[k].table[o])
      BY <3>2, <3>4, <3>5
    <3> QED BY <1>7, <2>1, <3>2, <3>3, <3>6 DEF Tells
  <2> QED BY <2>4, <2>5
<1> QED BY <1>8, <1>9, <1>10

\* The files that choose a profile, and those that have overrides.
Profiled(fs) == {n \in DOMAIN fs : fs[n].profile # ""}
Overriding(fs) == {n \in DOMAIN fs : fs[n].overrides # None /\ fs[n].overrides # <<>>}

\* What a file that was loaded says, of those it was loaded from.
SumsUp(p, fs) ==
    /\ \A k : Tells(p.rules, fs, k)
    /\ p.profile = IF Profiled(fs) = {} THEN "" ELSE fs[Latest(Profiled(fs))].profile
Gathers(p, fs) ==
    /\ SumsUp(p, fs)
    /\ p.overrides = IF Overriding(fs) = {} THEN None ELSE fs[Latest(Overriding(fs))].overrides

\* Nothing that was said is lost in it.
Apart(fs) == \A k : Resets(fs, k) = {} \/ Live(fs, k) = {}

LEMMA ChosenAfter ==
    ASSUME NEW F, NEW fs \in Seq(F), NEW gs \in Seq(F)
    PROVE  /\ Follows(Profiled(fs \o gs), Profiled(fs), Profiled(gs), Len(fs), Len(gs))
           /\ Follows(Overriding(fs \o gs), Overriding(fs), Overriding(gs), Len(fs), Len(gs))
<1> DEFINE hs == fs \o gs
<1>1. /\ DOMAIN hs = DOMAIN fs \cup After(Len(fs), DOMAIN gs)
      /\ \A n \in DOMAIN fs : hs[n] = fs[n]
      /\ \A m \in DOMAIN gs : hs[Len(fs) + m] = gs[m]
  BY OneAfterOther
<1>2. /\ Len(fs) \in Nat /\ Len(gs) \in Nat
      /\ DOMAIN fs = 1 .. Len(fs) /\ DOMAIN gs = 1 .. Len(gs)
  OBVIOUS
<1> HIDE DEF hs
<1>3. Profiled(hs) = Profiled(fs) \cup After(Len(fs), Profiled(gs))
  <2>1. \A n \in DOMAIN fs : n \in Profiled(hs) <=> n \in Profiled(fs)
    BY <1>1 DEF Profiled
  <2>2. \A m \in DOMAIN gs : Len(fs) + m \in Profiled(hs) <=> m \in Profiled(gs)
    BY <1>1 DEF Profiled, After
  <2>3. Profiled(hs) \subseteq DOMAIN hs /\ Profiled(fs) \subseteq DOMAIN fs /\ Profiled(gs) \subseteq DOMAIN gs
    BY DEF Profiled
  <2> QED BY <1>1, <2>1, <2>2, <2>3 DEF After
<1>4. Overriding(hs) = Overriding(fs) \cup After(Len(fs), Overriding(gs))
  BY <1>1 DEF Overriding, After
<1> QED BY <1>2, <1>3, <1>4 DEF Follows, Profiled, Overriding, hs

LEMMA LatestIn ==
    ASSUME NEW F, NEW fs \in Seq(F), NEW S, S \subseteq DOMAIN fs, S # {}
    PROVE  Latest(S) \in S /\ Latest(S) \in DOMAIN fs
<1>1. S \in SUBSET Nat /\ (\A n \in S : n <= Len(fs)) /\ Len(fs) \in Nat
  OBVIOUS
<1> QED BY <1>1, LatestIs

\* A file laid over what others came to.
LEMMA SumsOnTop ==
    ASSUME NEW F, NEW fs \in Seq(F), NEW gs \in Seq(F), NEW b, NEW p, Shaped(p),
           SumsUp(b, fs), SumsUp(p, gs), Apart(gs)
    PROVE  SumsUp(MergePreset(b, p), fs \o gs)
<1> DEFINE hs == fs \o gs
           m == MergePreset(b, p)
<1>1. /\ m.rules = MergeRules(b.rules, p.rules)
      /\ m.profile = IF p.profile = "" THEN b.profile ELSE p.profile
  BY DEF MergePreset, Shaped, Empty
<1>2. ASSUME NEW k PROVE Tells(m.rules, hs, k)
  <2> HIDE DEF m
  <2> QED BY <1>1, RulesOnTop DEF SumsUp, Apart
<1>3. /\ \A n \in DOMAIN fs : hs[n] = fs[n]
      /\ \A n \in DOMAIN gs : hs[Len(fs) + n] = gs[n]
  BY OneAfterOther
<1>4. Follows(Profiled(hs), Profiled(fs), Profiled(gs), Len(fs), Len(gs))
  BY ChosenAfter
<1>5. Profiled(fs) \subseteq DOMAIN fs /\ Profiled(gs) \subseteq DOMAIN gs
  BY DEF Profiled
<1> HIDE DEF m, hs
<1>6. m.profile = IF Profiled(hs) = {} THEN "" ELSE hs[Latest(Profiled(hs))].profile
  <2>1. CASE Profiled(gs) = {}
    <3>1. Profiled(hs) = Profiled(fs) /\ m.profile = b.profile
      BY <1>1, <1>4, <2>1 DEF Follows, After, SumsUp
    <3>2. Profiled(fs) # {} => Latest(Profiled(fs)) \in DOMAIN fs
      BY <1>5, LatestIn
    <3> QED BY <1>3, <3>1, <3>2 DEF SumsUp
  <2>2. CASE Profiled(gs) # {}
    <3>1. Latest(Profiled(gs)) \in Profiled(gs) /\ Latest(Profiled(hs)) = Len(fs) + Latest(Profiled(gs))
      BY <1>4, <2>2, LatestAfter
    <3>2. Profiled(hs) # {}
      BY <1>4, <2>2 DEF Follows, After
    <3>3. p.profile = gs[Latest(Profiled(gs))].profile /\ p.profile # ""
      BY <2>2, <3>1 DEF SumsUp, Profiled
    <3> QED BY <1>1, <1>3, <1>5, <3>1, <3>2, <3>3
  <2> QED BY <2>1, <2>2
<1> QED BY <1>2, <1>6 DEF SumsUp, m, hs

LEMMA GathersOnTop ==
    ASSUME NEW F, NEW fs \in Seq(F), NEW gs \in Seq(F), NEW b, NEW p, Shaped(p),
           Gathers(b, fs), Gathers(p, gs), Apart(gs)
    PROVE  Gathers(MergePreset(b, p), fs \o gs)
<1> DEFINE hs == fs \o gs
           m == MergePreset(b, p)
<1>1. SumsUp(m, hs)
  BY SumsOnTop DEF Gathers
<1>2. m.overrides = IF p.overrides = None THEN b.overrides ELSE IF p.overrides = <<>> THEN None ELSE p.overrides
  BY DEF MergePreset, Shaped, Empty
<1>3. /\ \A n \in DOMAIN fs : hs[n] = fs[n]
      /\ \A n \in DOMAIN gs : hs[Len(fs) + n] = gs[n]
  BY OneAfterOther
<1>4. Follows(Overriding(hs), Overriding(fs), Overriding(gs), Len(fs), Len(gs))
  BY ChosenAfter
<1>5. Overriding(fs) \subseteq DOMAIN fs /\ Overriding(gs) \subseteq DOMAIN gs
  BY DEF Overriding
<1> HIDE DEF m, hs
<1>6. m.overrides = IF Overriding(hs) = {} THEN None ELSE hs[Latest(Overriding(hs))].overrides
  <2>1. CASE Overriding(gs) = {}
    <3>1. Overriding(hs) = Overriding(fs) /\ m.overrides = b.overrides
      BY <1>2, <1>4, <2>1 DEF Follows, After, Gathers
    <3>2. Overriding(fs) # {} => Latest(Overriding(fs)) \in DOMAIN fs
      BY <1>5, LatestIn
    <3> QED BY <1>3, <3>1, <3>2 DEF Gathers
  <2>2. CASE Overriding(gs) # {}
    <3>1. Latest(Overriding(gs)) \in Overriding(gs) /\ Latest(Overriding(hs)) = Len(fs) + Latest(Overriding(gs))
      BY <1>4, <2>2, LatestAfter
    <3>2. Overriding(hs) # {}
      BY <1>4, <2>2 DEF Follows, After
    <3>3. p.overrides = gs[Latest(Overriding(gs))].overrides /\ p.overrides # None /\ p.overrides # <<>>
      BY <2>2, <3>1 DEF Gathers, Overriding
    <3> QED BY <1>2, <1>3, <1>5, <3>1, <3>2, <3>3
  <2> QED BY <2>1, <2>2
<1> QED BY <1>1, <1>6 DEF Gathers, m, hs

\* A file by itself.
LEMMA OneSumsUp ==
    ASSUME NEW f
    PROVE  /\ SumsUp(f, <<f>>) /\ Apart(<<f>>)
           /\ f.overrides # <<>> => Gathers(f, <<f>>)
<1> DEFINE fs == <<f>>
<1>1. DOMAIN fs = {1} /\ fs[1] = f
  OBVIOUS
<1>2. \A S : S \subseteq {1} /\ S # {} => Latest(S) = 1
  <2>1. ASSUME NEW S, S \subseteq {1}, S # {} PROVE Latest(S) = 1
    <3>1. S = {1}
      BY <2>1
    <3>2. S \in SUBSET Nat /\ 1 \in S /\ \A m \in S : m <= 1
      BY <3>1
    <3> QED BY <3>2, LatestOne
  <2> QED BY <2>1
<1> HIDE DEF fs
<1>3. ASSUME NEW k
      PROVE  Tells(f.rules, fs, k) /\ (Resets(fs, k) = {} \/ Live(fs, k) = {})
  <2>1. Resets(fs, k) \subseteq {1} /\ Live(fs, k) \subseteq {1} /\ \A o : With(fs, k, o) \subseteq {1}
    BY <1>1 DEF Resets, Live, With
  <2>2. 1 \in Live(fs, k) <=> k \in DOMAIN f.rules /\ IsTable(f.rules[k])
    BY <1>1, ~(1 < 1) DEF Live, Resets
  <2>3. 1 \in Resets(fs, k) <=> k \in DOMAIN f.rules /\ ~IsTable(f.rules[k])
    BY <1>1 DEF Resets
  <2>4. k \in DOMAIN f.rules <=> \E n \in DOMAIN fs : k \in DOMAIN fs[n].rules
    BY <1>1
  <2>5. Resets(fs, k) # {} /\ Live(fs, k) = {} => f.rules[k] = fs[Latest(Resets(fs, k))].rules[k]
    BY <1>1, <1>2, <2>1
  <2>6. ASSUME Live(fs, k) # {}
        PROVE  /\ IsTable(f.rules[k])
               /\ \A o : o \in DOMAIN f.rules[k].table <=> With(fs, k, o) # {}
               /\ \A o \in DOMAIN f.rules[k].table :
                     SameWord(f.rules[k].table[o], fs[Latest(With(fs, k, o))].rules[k].table[o])
    <3>1. 1 \in Live(fs, k)
      BY <2>1, <2>6
    <3>2. \A o : o \in DOMAIN f.rules[k].table <=> With(fs, k, o) # {}
      BY <1>1, <2>1, <3>1 DEF With
    <3>3. \A o \in DOMAIN f.rules[k].table : Latest(With(fs, k, o)) = 1
      BY <1>2, <2>1, <3>2
    <3> QED BY <1>1, <2>2, <3>1, <3>2, <3>3 DEF SameWord
  <2>7. Resets(fs, k) = {} \/ Live(fs, k) = {}
    BY <2>1, <2>2, <2>3
  <2> QED BY <2>4, <2>5, <2>6, <2>7 DEF Tells
<1>4. f.profile = IF Profiled(fs) = {} THEN "" ELSE fs[Latest(Profiled(fs))].profile
  <2>1. Profiled(fs) = IF f.profile = "" THEN {} ELSE {1}
    BY <1>1 DEF Profiled
  <2> QED BY <1>1, <1>2, <2>1
<1>5. f.overrides # <<>> => f.overrides = IF Overriding(fs) = {} THEN None ELSE fs[Latest(Overriding(fs))].overrides
  <2>1. f.overrides # <<>> => Overriding(fs) = IF f.overrides = None THEN {} ELSE {1}
    BY <1>1 DEF Overriding
  <2> QED BY <1>1, <1>2, <2>1
<1> QED BY <1>3, <1>4, <1>5 DEF SumsUp, Gathers, Apart, fs

-----------------------------------------------------------------------------
\* What the nth of some sequences adds to those before it.
Adding(ss, n, s) == IF n = 0 THEN <<>> ELSE s \o ss[n]

LEMMA JoinedSteps ==
    ASSUME NEW ss, Len(ss) \in Nat
    PROVE  \E upTo :
              /\ \A n \in 0 .. Len(ss) : upTo[n] = Adding(ss, n, upTo[n - 1])
              /\ Joined(ss) = upTo[Len(ss)]
<1> DEFINE N == Len(ss)
           upTo[n \in 0 .. N] == Adding(ss, n, upTo[n - 1])
           Runs(n, g) == \A k \in 0 .. n : g[k] = Adding(ss, k, g[k - 1])
           S == {n \in Nat : \E g : Runs(n, g)}
<1>1. 0 \in S
  <2>1. Runs(0, [k \in 0 .. 0 |-> <<>>])
    BY DEF Adding
  <2> QED BY <2>1
<1>2. ASSUME NEW n \in S PROVE n + 1 \in S
  <2>1. PICK g : Runs(n, g)
    OBVIOUS
  <2> DEFINE h == [k \in 0 .. n + 1 |-> IF k = n + 1 THEN Adding(ss, n + 1, g[n]) ELSE g[k]]
  <2>2. ASSUME NEW k \in 0 .. n + 1 PROVE h[k] = Adding(ss, k, h[k - 1])
    <3>1. n \in Nat /\ (k # 0 => h[k - 1] = g[k - 1])
      OBVIOUS
    <3>2. CASE k = n + 1
      <4>1. h[k] = Adding(ss, k, g[k - 1]) /\ k # 0
        BY <3>1, <3>2
      <4> QED BY <3>1, <4>1
    <3>3. CASE k # n + 1
      <4>1. k \in 0 .. n /\ h[k] = g[k]
        BY <3>1, <3>3
      <4>2. Adding(ss, k, g[k - 1]) = Adding(ss, k, h[k - 1])
        <5> HIDE DEF h
        <5> QED BY <3>1 DEF Adding
      <4> HIDE DEF h
      <4> QED BY <2>1, <4>1, <4>2
    <3> QED BY <3>2, <3>3
  <2> HIDE DEF h
  <2> QED BY <2>2
<1>3. S = Nat
  <2>1. S \in SUBSET Nat
    OBVIOUS
  <2> HIDE DEF S
  <2> QED BY <1>1, <1>2, <2>1, Induction
<1>4. PICK g : Runs(N, g)
  BY <1>3
<1>5. upTo = [n \in 0 .. N |-> Adding(ss, n, upTo[n - 1])]
  <2> DEFINE h == [k \in 0 .. N |-> g[k]]
  <2>1. ASSUME NEW k \in 0 .. N PROVE h[k] = Adding(ss, k, h[k - 1])
    <3>1. k # 0 => h[k - 1] = g[k - 1]
      OBVIOUS
    <3>2. Adding(ss, k, g[k - 1]) = Adding(ss, k, h[k - 1])
      <4> HIDE DEF h
      <4> QED BY <3>1 DEF Adding
    <3>3. h[k] = g[k]
      OBVIOUS
    <3> HIDE DEF h
    <3> QED BY <1>4, <3>2, <3>3
  <2>2. h = [k \in 0 .. N |-> h[k]]
    OBVIOUS
  <2> HIDE DEF h, N
  <2>3. h = [k \in 0 .. N |-> Adding(ss, k, h[k - 1])]
    BY <2>1, <2>2
  <2> QED BY <2>3
<1>6. Joined(ss) = upTo[N]
  BY DEF Joined, Adding
<1> HIDE DEF upTo
<1>7. \A n \in 0 .. N : upTo[n] = Adding(ss, n, upTo[n - 1])
  BY <1>5
<1> QED BY <1>6, <1>7

\* Who speaks when all that load in fewer steps are known.
Spoken(disk, f, c) ==
    IF c[1] \in c[2] \/ disk[c[1]] = None THEN <<>>
    ELSE Append(Joined([n \in DOMAIN disk[c[1]].presets |->
                           IF disk[c[1]].presets[n] \in DOMAIN disk
                           THEN f[<<disk[c[1]].presets[n], c[2] \cup {c[1]}>>] ELSE <<>>]), disk[c[1]])

LEMMA SpokenSame ==
    ASSUME NEW disk, IsFiniteSet(DOMAIN disk), NEW f, NEW g, NEW c \in Chains(disk),
           \A d \in Chains(disk) : Ahead(disk, d) < Ahead(disk, c) => f[d] = g[d]
    PROVE  Spoken(disk, f, c) = Spoken(disk, g, c)
<1>1. CASE c[1] \in c[2] \/ disk[c[1]] = None
  BY <1>1 DEF Spoken
<1>2. CASE ~(c[1] \in c[2] \/ disk[c[1]] = None)
  <2>1. ASSUME NEW name \in DOMAIN disk
        PROVE  f[<<name, c[2] \cup {c[1]}>>] = g[<<name, c[2] \cup {c[1]}>>]
    BY <1>2, ChainGoesOn
  <2>2. [n \in DOMAIN disk[c[1]].presets |->
           IF disk[c[1]].presets[n] \in DOMAIN disk
           THEN f[<<disk[c[1]].presets[n], c[2] \cup {c[1]}>>] ELSE <<>>]
        = [n \in DOMAIN disk[c[1]].presets |->
           IF disk[c[1]].presets[n] \in DOMAIN disk
           THEN g[<<disk[c[1]].presets[n], c[2] \cup {c[1]}>>] ELSE <<>>]
    BY <2>1
  <2> QED BY <1>2, <2>2 DEF Spoken
<1> QED BY <1>1, <1>2

\* So is who speaks.
LEMMA SpeakSteps ==
    ASSUME NEW disk, IsFiniteSet(DOMAIN disk)
    PROVE  \E speak :
              /\ \A path : Speakers(disk, path) = IF path \in DOMAIN disk THEN speak[<<path, {}>>] ELSE <<>>
              /\ \A c \in Chains(disk) : speak[c] = Spoken(disk, speak, c)
<1> DEFINE C == Chains(disk)
           S == {n \in Nat : \E f : \A c \in C : Ahead(disk, c) < n => f[c] = Spoken(disk, f, c)}
           speak[c \in (DOMAIN disk) \X SUBSET DOMAIN disk] == Spoken(disk, speak, c)
<1>1. \A c \in C : Ahead(disk, c) \in Nat /\ Ahead(disk, c) <= Cardinality(DOMAIN disk)
  <2>1. ASSUME NEW c \in C
        PROVE  Cardinality(DOMAIN disk \ c[2]) \in Nat
               /\ Cardinality(DOMAIN disk \ c[2]) <= Cardinality(DOMAIN disk)
    BY FS_Subset, FS_CardinalityType, FS_Difference
  <2> QED BY <2>1 DEF Ahead
<1>2. 0 \in S
  <2>1. \A c \in C : ~(Ahead(disk, c) < 0)
    BY <1>1
  <2> QED BY <2>1
<1>3. ASSUME NEW n \in S PROVE n + 1 \in S
  <2>1. PICK f : \A c \in C : Ahead(disk, c) < n => f[c] = Spoken(disk, f, c)
    OBVIOUS
  <2> DEFINE g == [c \in C |-> Spoken(disk, f, c)]
  <2>2. ASSUME NEW c \in C, Ahead(disk, c) < n + 1 PROVE g[c] = Spoken(disk, g, c)
    <3>1. n \in Nat
      OBVIOUS
    <3>2. ASSUME NEW d \in C, Ahead(disk, d) < Ahead(disk, c) PROVE f[d] = g[d]
      <4>1. Ahead(disk, d) < n
        BY <1>1, <2>2, <3>1, <3>2
      <4> HIDE DEF S
      <4> QED BY <2>1, <4>1
    <3> HIDE DEF g, S
    <3>3. Spoken(disk, f, c) = Spoken(disk, g, c)
      BY <3>2, SpokenSame
    <3> QED BY <3>3 DEF g
  <2>3. n + 1 \in Nat
    OBVIOUS
  <2> HIDE DEF g, C
  <2> QED BY <2>2, <2>3
<1>4. Cardinality(DOMAIN disk) + 1 \in S
  <2>1. S \in SUBSET Nat /\ Cardinality(DOMAIN disk) \in Nat
    BY FS_CardinalityType
  <2> HIDE DEF S
  <2>2. S = Nat
    BY <1>2, <1>3, <2>1, Induction
  <2> QED BY <2>1, <2>2
<1>5. PICK f : \A c \in C : Ahead(disk, c) < Cardinality(DOMAIN disk) + 1 => f[c] = Spoken(disk, f, c)
  BY <1>4
<1>6. \A c \in C : f[c] = Spoken(disk, f, c)
  <2>1. Cardinality(DOMAIN disk) \in Nat
    BY FS_CardinalityType
  <2> QED BY <1>1, <1>5, <2>1
<1>7. speak = [c \in (DOMAIN disk) \X SUBSET DOMAIN disk |-> Spoken(disk, speak, c)]
  <2> DEFINE g == [c \in C |-> f[c]]
  <2>1. ASSUME NEW c \in C PROVE g[c] = Spoken(disk, g, c)
    <3>1. \A d \in C : f[d] = g[d]
      OBVIOUS
    <3> HIDE DEF g
    <3>2. Spoken(disk, f, c) = Spoken(disk, g, c)
      BY <3>1, SpokenSame
    <3>3. g[c] = f[c]
      BY <3>1
    <3> QED BY <1>6, <3>2, <3>3
  <2>2. g = [c \in (DOMAIN disk) \X SUBSET DOMAIN disk |-> Spoken(disk, g, c)]
    <3>1. g = [c \in C |-> g[c]]
      OBVIOUS
    <3> HIDE DEF g
    <3>2. [c \in C |-> g[c]] = [c \in C |-> Spoken(disk, g, c)]
      BY <2>1
    <3> QED BY <3>1, <3>2 DEF Chains
  <2> HIDE DEF g
  <2> QED BY <2>2
<1>8. \A path : Speakers(disk, path) = IF path \in DOMAIN disk THEN speak[<<path, {}>>] ELSE <<>>
  BY DEF Speakers, Spoken
<1> HIDE DEF speak
<1> QED BY <1>7, <1>8 DEF Chains

-----------------------------------------------------------------------------
\* Whatever is in one sequence is in another.
AllIn(s, r) == \A m \in DOMAIN s : \E l \in DOMAIN r : r[l] = s[m]

\* Nothing that is joined is lost.
LEMMA JoinedHolds ==
    ASSUME NEW F, NEW ss, Len(ss) \in Nat, \A n \in 1 .. Len(ss) : ss[n] \in Seq(F)
    PROVE  /\ Joined(ss) \in Seq(F)
           /\ \A n \in 1 .. Len(ss) : AllIn(ss[n], Joined(ss))
<1> DEFINE N == Len(ss)
<1>1. PICK upTo : /\ \A n \in 0 .. N : upTo[n] = Adding(ss, n, upTo[n - 1])
                  /\ Joined(ss) = upTo[N]
  BY JoinedSteps
<1>2. N \in Nat
  OBVIOUS
<1> DEFINE Has(n, s) == \A l \in 1 .. n : \A m \in DOMAIN ss[l] : \E x \in DOMAIN s : s[x] = ss[l][m]
           T == {n \in Nat : n <= N => upTo[n] \in Seq(F) /\ Has(n, upTo[n])}
<1>3. 0 \in T
  <2>1. upTo[0] = <<>>
    BY <1>1, <1>2 DEF Adding
  <2>2. <<>> \in Seq(F) /\ Has(0, <<>>)
    OBVIOUS
  <2> HIDE DEF Has
  <2> QED BY <2>1, <2>2
<1>4. ASSUME NEW n \in T PROVE n + 1 \in T
  <2> SUFFICES ASSUME n + 1 <= N PROVE upTo[n + 1] \in Seq(F) /\ Has(n + 1, upTo[n + 1])
    OBVIOUS
  <2>1. n \in Nat /\ n + 1 \in 0 .. N /\ n + 1 \in 1 .. N /\ (n + 1) - 1 = n /\ n + 1 # 0
        /\ upTo[n] \in Seq(F) /\ Has(n, upTo[n]) /\ ss[n + 1] \in Seq(F)
    BY <1>2
  <2> HIDE DEF T, N
  <2>2. upTo[n + 1] = upTo[n] \o ss[n + 1]
    BY <1>1, <2>1 DEF Adding
  <2> DEFINE s == upTo[n]
             r == ss[n + 1]
  <2>3. /\ s \o r \in Seq(F) /\ DOMAIN (s \o r) = DOMAIN s \cup After(Len(s), DOMAIN r)
        /\ \A x \in DOMAIN s : (s \o r)[x] = s[x]
        /\ \A m \in DOMAIN r : (s \o r)[Len(s) + m] = r[m]
    <3>1. s \in Seq(F) /\ r \in Seq(F)
      BY <2>1
    <3> HIDE DEF s, r
    <3> QED BY <3>1, OneAfterOther
  <2>4. ASSUME NEW l \in 1 .. n + 1, NEW m \in DOMAIN ss[l]
        PROVE  \E x \in DOMAIN (s \o r) : (s \o r)[x] = ss[l][m]
    <3>1. CASE l = n + 1
      <4>1. Len(s) + m \in DOMAIN (s \o r)
        BY <2>3, <2>4, <3>1 DEF After
      <4> QED BY <2>3, <2>4, <3>1, <4>1
    <3>2. CASE l # n + 1
      <4>1. l \in 1 .. n
        BY <2>1, <3>2
      <4>2. PICK x \in DOMAIN s : s[x] = ss[l][m]
        BY <2>1, <2>4, <4>1
      <4> QED BY <2>3, <4>2
    <3> QED BY <3>1, <3>2
  <2> HIDE DEF s, r
  <2>5. s \o r \in Seq(F) /\ Has(n + 1, s \o r)
    BY <2>3, <2>4
  <2>6. upTo[n + 1] = s \o r
    BY <2>2 DEF s, r
  <2> HIDE DEF Has
  <2> QED BY <2>5, <2>6
<1>5. T = Nat
  <2>1. T \in SUBSET Nat
    OBVIOUS
  <2> HIDE DEF T
  <2> QED BY <1>3, <1>4, <2>1, Induction
<1>6. upTo[N] \in Seq(F) /\ Has(N, upTo[N])
  BY <1>2, <1>5
<1> QED BY <1>1, <1>6 DEF AllIn

\* A file and its presets.
Tellers(presets, ss, F) ==
    /\ Len(presets) \in Nat /\ Len(ss) = Len(presets)
    /\ \A n \in 1 .. Len(presets) :
          presets[n] # None => /\ ss[n] \in Seq(F) /\ Shaped(presets[n])
                              /\ Gathers(presets[n], ss[n]) /\ Apart(ss[n])

LEMMA PresetsTell ==
    ASSUME NEW F, NEW presets, NEW ss, Tellers(presets, ss, F), NEW f, OnTop(presets, f) # None
    PROVE  \E b : /\ OnTop(presets, f) = MergePreset(b, f)
                  /\ Joined(ss) \in Seq(F) /\ Gathers(b, Joined(ss))
<1> DEFINE N == Len(presets)
<1>0. N \in Nat /\ Len(ss) = N
  BY DEF Tellers
<1>1. PICK piled : /\ \A n \in 0 .. N : piled[n] = Under(presets, n, piled[n - 1])
                   /\ \A g : OnTop(presets, g) = IF piled[N] = None THEN None ELSE MergePreset(piled[N], g)
  BY <1>0, OnTopSteps
<1>2. PICK upTo : /\ \A n \in 0 .. N : upTo[n] = Adding(ss, n, upTo[n - 1])
                  /\ Joined(ss) = upTo[N]
  BY <1>0, JoinedSteps
<1> HIDE DEF N
<1> DEFINE T == {n \in Nat : n <= N => (piled[n] # None => upTo[n] \in Seq(F) /\ Gathers(piled[n], upTo[n]))}
<1>3. 0 \in T
  <2>1. piled[0] = Empty /\ upTo[0] = <<>>
    BY <1>0, <1>1, <1>2 DEF Under, Adding
  <2>2. DOMAIN <<>> = {} /\ <<>> \in Seq(F)
    OBVIOUS
  <2>3. Gathers(Empty, <<>>)
    <3>1. Empty.rules = Nowhere /\ Empty.profile = "" /\ Empty.overrides = None
      BY DEF Empty
    <3>2. \A k : Resets(<<>>, k) = {} /\ Live(<<>>, k) = {}
      BY <2>2 DEF Resets, Live
    <3>3. Profiled(<<>>) = {} /\ Overriding(<<>>) = {}
      BY <2>2 DEF Profiled, Overriding
    <3>4. DOMAIN Nowhere = {}
      BY DEF Nowhere
    <3> QED BY <2>2, <3>1, <3>2, <3>3, <3>4 DEF Gathers, SumsUp, Tells
  <2> QED BY <2>1, <2>2, <2>3
<1>4. ASSUME NEW n \in T PROVE n + 1 \in T
  <2> SUFFICES ASSUME n + 1 <= N, piled[n + 1] # None
               PROVE  upTo[n + 1] \in Seq(F) /\ Gathers(piled[n + 1], upTo[n + 1])
    OBVIOUS
  <2>1. n \in Nat /\ n + 1 \in 0 .. N /\ n + 1 \in 1 .. N /\ (n + 1) - 1 = n /\ n + 1 # 0
    BY <1>0
  <2>2. piled[n + 1] = Under(presets, n + 1, piled[n]) /\ upTo[n + 1] = upTo[n] \o ss[n + 1]
    <3> HIDE DEF T
    <3> QED BY <1>1, <1>2, <2>1 DEF Adding
  <2>3. piled[n] # None /\ presets[n + 1] # None
        /\ piled[n + 1] = MergePreset(piled[n], presets[n + 1])
    BY <2>1, <2>2 DEF Under
  <2>4. upTo[n] \in Seq(F) /\ Gathers(piled[n], upTo[n])
    BY <1>0, <2>1, <2>3
  <2>5. /\ ss[n + 1] \in Seq(F) /\ Shaped(presets[n + 1])
        /\ Gathers(presets[n + 1], ss[n + 1]) /\ Apart(ss[n + 1])
    BY <2>1, <2>3 DEF Tellers, N
  <2>6. upTo[n] \o ss[n + 1] \in Seq(F)
    BY <2>4, <2>5
  <2> HIDE DEF T
  <2> QED BY <2>2, <2>3, <2>4, <2>5, <2>6, GathersOnTop
<1>5. T = Nat
  <2>1. T \in SUBSET Nat
    OBVIOUS
  <2> HIDE DEF T
  <2> QED BY <1>3, <1>4, <2>1, Induction
<1>6. piled[N] # None /\ OnTop(presets, f) = MergePreset(piled[N], f)
  BY <1>1 DEF N
<1>7. upTo[N] \in Seq(F) /\ Gathers(piled[N], upTo[N])
  BY <1>0, <1>5, <1>6
<1> QED BY <1>2, <1>6, <1>7

-----------------------------------------------------------------------------
\* Files that say nothing a preset could lose.
Lossless(gs) ==
    \/ Len(gs) = 1
    \/ \A n \in DOMAIN gs : gs[n].overrides # <<>> /\ \A k \in DOMAIN gs[n].rules : IsTable(gs[n].rules[k])

LEMMA LosslessApart ==
    ASSUME NEW F, NEW gs \in Seq(F), Lossless(gs)
    PROVE  Apart(gs)
<1>1. CASE Len(gs) = 1
  <2>1. gs = <<gs[1]>>
    BY <1>1
  <2>2. Apart(<<gs[1]>>)
    BY OneSumsUp
  <2> QED BY <2>1, <2>2
<1>2. CASE \A n \in DOMAIN gs : \A k \in DOMAIN gs[n].rules : IsTable(gs[n].rules[k])
  BY <1>2 DEF Apart, Resets
<1> QED BY <1>1, <1>2 DEF Lossless

Files(disk) == {disk[p] : p \in DOMAIN disk}
\* What of a chain's presets is known.
PresetsOf(disk, g, c, none) ==
    [n \in DOMAIN disk[c[1]].presets |->
        IF disk[c[1]].presets[n] \in DOMAIN disk
        THEN g[<<disk[c[1]].presets[n], c[2] \cup {c[1]}>>] ELSE none]

Loading(disk, load, speak) ==
    /\ IsFiniteSet(DOMAIN disk) /\ \A p \in DOMAIN disk : disk[p] # None => IsFile(disk[p])
    /\ \A c \in Chains(disk) : load[c] = Body(disk, load, c) /\ speak[c] = Spoken(disk, speak, c)

LEMMA PresetsAre ==
    ASSUME NEW disk, NEW load, NEW speak, Loading(disk, load, speak), NEW c \in Chains(disk),
           c[1] \notin c[2], disk[c[1]] # None, NEW g, NEW none
    PROVE  LET f == disk[c[1]]
               ps == PresetsOf(disk, g, c, none)
           IN  /\ IsFile(f) /\ Len(f.presets) \in Nat /\ DOMAIN f.presets = 1 .. Len(f.presets)
               /\ Len(ps) = Len(f.presets)
               /\ \A n \in 1 .. Len(f.presets) :
                     \/ ps[n] = none /\ f.presets[n] \notin DOMAIN disk
                     \/ LET d == <<f.presets[n], c[2] \cup {c[1]}>>
                        IN  /\ f.presets[n] \in DOMAIN disk /\ ps[n] = g[d]
                            /\ d \in Chains(disk) /\ Ahead(disk, d) < Ahead(disk, c)
<1> DEFINE f == disk[c[1]]
           ps == PresetsOf(disk, g, c, none)
<1>1. IsFile(f)
  BY DEF Loading, Chains
<1>2. Len(f.presets) \in Nat /\ DOMAIN f.presets = 1 .. Len(f.presets)
  BY <1>1 DEF IsFile, IsSeq
<1>3. DOMAIN ps = 1 .. Len(f.presets)
  BY <1>2 DEF PresetsOf
<1>4. Len(ps) = Len(f.presets)
  <2> HIDE DEF ps
  <2> QED BY <1>2, <1>3
<1>5. ASSUME NEW n \in 1 .. Len(f.presets), f.presets[n] \in DOMAIN disk
      PROVE  LET d == <<f.presets[n], c[2] \cup {c[1]}>>
             IN  ps[n] = g[d] /\ d \in Chains(disk) /\ Ahead(disk, d) < Ahead(disk, c)
  <2>1. ps[n] = g[<<f.presets[n], c[2] \cup {c[1]}>>]
    BY <1>2, <1>5 DEF PresetsOf
  <2>2. IsFiniteSet(DOMAIN disk)
    BY DEF Loading
  <2> HIDE DEF ps, f
  <2> QED BY <1>5, <2>1, <2>2, ChainGoesOn
<1>6. ASSUME NEW n \in 1 .. Len(f.presets), f.presets[n] \notin DOMAIN disk PROVE ps[n] = none
  BY <1>2, <1>6 DEF PresetsOf
<1> HIDE DEF ps, f
<1> QED BY <1>1, <1>2, <1>4, <1>5, <1>6 DEF ps, f

LEMMA SpokenType ==
    ASSUME NEW disk, NEW load, NEW speak, Loading(disk, load, speak)
    PROVE  \A c \in Chains(disk) : speak[c] \in Seq(Files(disk))
<1> DEFINE S == {c \in Chains(disk) : speak[c] \in Seq(Files(disk))}
<1>1. ASSUME NEW c \in Chains(disk),
             \A d \in Chains(disk) : Ahead(disk, d) < Ahead(disk, c) => d \in S
      PROVE  c \in S
  <2>1. speak[c] = Spoken(disk, speak, c)
    BY DEF Loading
  <2>2. CASE c[1] \in c[2] \/ disk[c[1]] = None
    <3>1. speak[c] = <<>> /\ <<>> \in Seq(Files(disk))
      BY <2>1, <2>2 DEF Spoken
    <3> QED BY <3>1
  <2>3. CASE ~(c[1] \in c[2] \/ disk[c[1]] = None)
    <3> DEFINE f == disk[c[1]]
               ss == PresetsOf(disk, speak, c, <<>>)
    <3>1. speak[c] = Append(Joined(ss), f)
      BY <2>1, <2>3 DEF Spoken, PresetsOf
    <3>2. /\ Len(f.presets) \in Nat /\ Len(ss) = Len(f.presets)
          /\ \A l \in 1 .. Len(f.presets) :
                \/ ss[l] = <<>>
                \/ LET d == <<f.presets[l], c[2] \cup {c[1]}>>
                   IN  ss[l] = speak[d] /\ d \in Chains(disk) /\ Ahead(disk, d) < Ahead(disk, c)
      BY <2>3, PresetsAre
    <3>3. f \in Files(disk)
      BY DEF Files, Chains
    <3> HIDE DEF ss, f
    <3>4. ASSUME NEW l \in 1 .. Len(ss) PROVE ss[l] \in Seq(Files(disk))
      <4>1. CASE ss[l] = <<>>
        BY <4>1
      <4>2. ASSUME NEW d \in Chains(disk), ss[l] = speak[d], Ahead(disk, d) < Ahead(disk, c)
            PROVE  ss[l] \in Seq(Files(disk))
        BY <1>1, <4>2
      <4> QED BY <3>2, <4>1, <4>2
    <3>5. Joined(ss) \in Seq(Files(disk))
      BY <3>2, <3>4, JoinedHolds
    <3> QED BY <3>1, <3>3, <3>5
  <2> QED BY <2>2, <2>3
<1>2. S = Chains(disk)
  <2>1. S \in SUBSET Chains(disk) /\ IsFiniteSet(DOMAIN disk)
    BY DEF Loading
  <2> HIDE DEF S
  <2> QED BY <1>1, <2>1, ChainInduction
<1> QED BY <1>2

\* What a chain was loaded from has its say in what was loaded.
Heard(disk, load, speak, c) ==
    load[c] # None =>
        /\ Len(speak[c]) # 0 /\ (disk[c[1]].presets = <<>> => Len(speak[c]) = 1)
        /\ speak[c][Len(speak[c])] = disk[c[1]]
        /\ Lossless(speak[c]) => Gathers(load[c], speak[c])

\* In what is flat no preset loses anything.
LEMMA FlatLossless ==
    ASSUME NEW F, NEW js \in Seq(F), NEW f \in F, Flat(js \o <<f>>), NEW gs \in Seq(F), Len(gs) # 0,
           AllIn(gs, js),
           gs[Len(gs)].presets = <<>> => Len(gs) = 1
    PROVE  Lossless(gs)
<1> DEFINE fs == js \o <<f>>
<1>1. Len(fs) = Len(js) + 1 /\ Len(js) \in Nat /\ \A l \in 1 .. Len(js) : fs[l] = js[l] /\ l \in DOMAIN fs
  OBVIOUS
<1>2. /\ DOMAIN gs = 1 .. Len(gs) /\ DOMAIN js = 1 .. Len(js) /\ Len(gs) \in Nat
      /\ Len(gs) \in DOMAIN gs
  OBVIOUS
<1>3. \/ \A m \in DOMAIN fs : m < Len(fs) => fs[m].presets = <<>>
      \/ \A n \in 1 .. Len(fs) - 1 :
            fs[n].overrides # <<>> /\ \A id \in DOMAIN fs[n].rules : Is("table", fs[n].rules[id])
  BY DEF Flat
<1> HIDE DEF fs
<1>4. CASE \A m \in DOMAIN fs : m < Len(fs) => fs[m].presets = <<>>
  <2>1. PICK l \in DOMAIN js : js[l] = gs[Len(gs)]
    BY <1>2 DEF AllIn
  <2>2. fs[l].presets = <<>> /\ fs[l] = gs[Len(gs)]
    BY <1>1, <1>2, <1>4, <2>1
  <2> QED BY <2>2 DEF Lossless
<1>5. CASE \A n \in 1 .. Len(fs) - 1 :
            fs[n].overrides # <<>> /\ \A id \in DOMAIN fs[n].rules : Is("table", fs[n].rules[id])
  <2>1. ASSUME NEW m \in DOMAIN gs
        PROVE  gs[m].overrides # <<>> /\ \A k \in DOMAIN gs[m].rules : IsTable(gs[m].rules[k])
    <3>1. PICK l \in DOMAIN js : js[l] = gs[m]
      BY DEF AllIn
    <3>2. l \in 1 .. Len(fs) - 1 /\ fs[l] = gs[m]
      BY <1>1, <1>2, <3>1
    <3> QED BY <1>5, <3>2 DEF IsTable
  <2> QED BY <2>1 DEF Lossless
<1> QED BY <1>3, <1>4, <1>5

\* A chain is a file on top of what was said before it.
HeardBefore(disk, load, speak, c) ==
    \A d \in Chains(disk) : Ahead(disk, d) < Ahead(disk, c) => Heard(disk, load, speak, d)
Built(disk, load, speak, c, b, js) ==
    LET f == disk[c[1]]
    IN  /\ js \in Seq(Files(disk)) /\ f \in Files(disk) /\ IsFile(f)
        /\ speak[c] = js \o <<f>> /\ load[c] = MergePreset(b, f)
        /\ f.presets = <<>> => js = <<>>
        /\ Flat(js \o <<f>>) => Gathers(b, js)

LEMMA ChainTells ==
    ASSUME NEW disk, NEW load, NEW speak, Loading(disk, load, speak), NEW c \in Chains(disk),
           load[c] # None, HeardBefore(disk, load, speak, c)
    PROVE  \E b, js : Built(disk, load, speak, c, b, js)
<1> DEFINE f == disk[c[1]]
           loaded == PresetsOf(disk, load, c, None)
           ss == PresetsOf(disk, speak, c, <<>>)
           js == Joined(ss)
           F == Files(disk)
<1>1. load[c] = Body(disk, load, c) /\ speak[c] = Spoken(disk, speak, c)
  BY DEF Loading
<1>2. c[1] \notin c[2] /\ f # None /\ load[c] = OnTop(loaded, f) /\ speak[c] = Append(js, f)
  BY <1>1 DEF Body, Spoken, PresetsOf
<1>3. /\ IsFile(f) /\ Len(f.presets) \in Nat /\ Len(loaded) = Len(f.presets)
      /\ \A n \in 1 .. Len(f.presets) :
            \/ loaded[n] = None
            \/ LET d == <<f.presets[n], c[2] \cup {c[1]}>>
               IN  /\ f.presets[n] \in DOMAIN disk /\ loaded[n] = load[d]
                   /\ d \in Chains(disk) /\ Ahead(disk, d) < Ahead(disk, c)
  BY <1>2, PresetsAre
<1>4. /\ Len(ss) = Len(f.presets)
      /\ \A n \in 1 .. Len(f.presets) :
            \/ ss[n] = <<>> /\ f.presets[n] \notin DOMAIN disk
            \/ LET d == <<f.presets[n], c[2] \cup {c[1]}>>
               IN  ss[n] = speak[d] /\ d \in Chains(disk)
  BY <1>2, PresetsAre
<1>5. f \in F
  BY DEF Files, Chains
<1> HIDE DEF loaded, ss, f, F
<1>6. \A n \in 1 .. Len(ss) : ss[n] \in Seq(F)
  <2>1. \A d \in Chains(disk) : speak[d] \in Seq(F)
    BY SpokenType DEF F
  <2>2. <<>> \in Seq(F)
    OBVIOUS
  <2> QED BY <1>4, <2>1, <2>2
<1>7. /\ js \in Seq(F)
      /\ \A n \in 1 .. Len(ss) : AllIn(ss[n], js)
  <2>1. Len(ss) \in Nat
    BY <1>3, <1>4
  <2> QED BY <1>6, <2>1, JoinedHolds
<1>8. f.presets = <<>> => js = <<>>
  <2> SUFFICES ASSUME f.presets = <<>> PROVE js = <<>>
    OBVIOUS
  <2>1. Len(ss) = 0
    BY <1>4
  <2>2. PICK upTo : /\ \A n \in 0 .. Len(ss) : upTo[n] = Adding(ss, n, upTo[n - 1])
                    /\ Joined(ss) = upTo[Len(ss)]
    <3>1. Len(ss) \in Nat
      BY <2>1
    <3> QED BY <3>1, JoinedSteps, Zenon
  <2>3. upTo[0] = Adding(ss, 0, upTo[0 - 1])
    BY <2>1, <2>2
  <2> QED BY <2>1, <2>2, <2>3 DEF Adding
<1>9. PICK b0 : load[c] = MergePreset(b0, f)
  BY <1>2 DEF OnTop
<1>10. ASSUME Flat(js \o <<f>>) PROVE \E b : load[c] = MergePreset(b, f) /\ Gathers(b, js)
  <2>1. ASSUME NEW n \in 1 .. Len(loaded), loaded[n] # None
        PROVE  /\ ss[n] \in Seq(F) /\ Shaped(loaded[n])
               /\ Gathers(loaded[n], ss[n]) /\ Apart(ss[n])
    <3> DEFINE d == <<f.presets[n], c[2] \cup {c[1]}>>
    <3>1. /\ loaded[n] = load[d] /\ d \in Chains(disk) /\ Ahead(disk, d) < Ahead(disk, c)
          /\ ss[n] = speak[d] /\ d[1] \in DOMAIN disk
      BY <1>3, <1>4, <2>1
    <3> HIDE DEF d
    <3>2. /\ Len(ss[n]) # 0 /\ (disk[d[1]].presets = <<>> => Len(ss[n]) = 1)
          /\ ss[n][Len(ss[n])] = disk[d[1]]
          /\ Lossless(ss[n]) => Gathers(loaded[n], ss[n])
      BY <2>1, <3>1 DEF Heard, HeardBefore
    <3>3. ss[n] \in Seq(F) /\ AllIn(ss[n], js)
      BY <1>3, <1>4, <1>6, <1>7
    <3> HIDE DEF js
    <3>4. Lossless(ss[n])
      BY <1>5, <1>7, <1>10, <3>2, <3>3, FlatLossless
    <3>5. Shaped(load[d])
      <4>1. load[d] # None
        BY <2>1, <3>1
      <4> QED BY <3>1, <4>1, LoadShape DEF Loading
    <3> QED BY <3>1, <3>2, <3>3, <3>4, <3>5, LosslessApart
  <2>2. Tellers(loaded, ss, F)
    BY <1>3, <1>4, <2>1 DEF Tellers
  <2> QED BY <1>2, <2>2, PresetsTell
<1>11. Append(js, f) = js \o <<f>>
  BY <1>5, <1>7
<1> HIDE DEF js
<1>12. CASE Flat(js \o <<f>>)
  <2>1. PICK b : load[c] = MergePreset(b, f) /\ Gathers(b, js)
    BY <1>10, <1>12
  <2>2. Built(disk, load, speak, c, b, js)
    BY <1>2, <1>3, <1>5, <1>7, <1>8, <1>11, <2>1 DEF Built, f, F
  <2> QED BY <2>2
<1>13. CASE ~Flat(js \o <<f>>)
  <2>1. Built(disk, load, speak, c, b0, js)
    BY <1>2, <1>3, <1>5, <1>7, <1>8, <1>9, <1>11, <1>13 DEF Built, f, F
  <2> QED BY <2>1
<1> QED BY <1>12, <1>13

LEMMA LoadTells ==
    ASSUME NEW disk, NEW load, NEW speak, Loading(disk, load, speak)
    PROVE  \A c \in Chains(disk) : Heard(disk, load, speak, c)
<1> DEFINE S == {c \in Chains(disk) : Heard(disk, load, speak, c)}
<1>1. ASSUME NEW c \in Chains(disk),
             \A d \in Chains(disk) : Ahead(disk, d) < Ahead(disk, c) => d \in S
      PROVE  c \in S
  <2> SUFFICES ASSUME load[c] # None PROVE Heard(disk, load, speak, c)
    BY DEF Heard
  <2> DEFINE f == disk[c[1]]
             F == Files(disk)
  <2>0. PICK b, js : Built(disk, load, speak, c, b, js)
    <3>1. HeardBefore(disk, load, speak, c)
      BY <1>1 DEF HeardBefore
    <3> QED BY <3>1, ChainTells
  <2>1. /\ js \in Seq(F) /\ f \in F /\ IsFile(f)
        /\ speak[c] = js \o <<f>> /\ load[c] = MergePreset(b, f)
        /\ f.presets = <<>> => js = <<>>
        /\ Flat(js \o <<f>>) => Gathers(b, js)
    BY <2>0, Zenon DEF Built
  <2> DEFINE gs == js \o <<f>>
  <2> HIDE DEF f, F
  <2>2. Len(gs) = Len(js) + 1 /\ Len(js) \in Nat /\ gs[Len(gs)] = f /\ Len(gs) \in DOMAIN gs
        /\ <<f>> \in Seq(F) /\ DOMAIN gs = 1 .. Len(gs)
    BY <2>1
  <2>3. f.presets = <<>> => Len(gs) = 1
    <3>1. Len(<<>>) = 0
      OBVIOUS
    <3> QED BY <2>1, <2>2, <3>1
  <2>4. ASSUME Lossless(gs) PROVE Gathers(load[c], gs)
    <3>1. Flat(gs)
      BY <2>2, <2>4 DEF Lossless, Flat, IsTable
    <3>2. Gathers(b, js) /\ Shaped(f)
      BY <2>1, <3>1 DEF IsFile, Shaped
    <3>3. CASE f.overrides # <<>>
      BY <2>1, <2>2, <3>2, <3>3, OneSumsUp, GathersOnTop
    <3>4. CASE f.overrides = <<>>
      <4>1. SumsUp(MergePreset(b, f), gs)
        BY <2>1, <2>2, <3>2, OneSumsUp, SumsOnTop DEF Gathers
      <4>2. Len(js) = 0 /\ js = <<>>
        <5>1. Len(gs) = 1
          BY <2>2, <2>4, <3>4 DEF Lossless
        <5>2. Len(js) = 0
          BY <2>2, <5>1
        <5> QED BY <2>1, <5>2
      <4>3. Overriding(gs) = {} /\ Overriding(js) = {}
        <5>1. \A n \in DOMAIN gs : gs[n] = f
          BY <2>2, <4>2
        <5>2. DOMAIN js = {}
          BY <4>2
        <5> QED BY <3>4, <5>1, <5>2 DEF Overriding
      <4>4. MergePreset(b, f).overrides = None
        <5>1. b.overrides = None
          BY <3>2, <4>3 DEF Gathers
        <5> QED BY <3>2, <3>4, <5>1 DEF MergePreset, Shaped, Empty
      <4> QED BY <2>1, <4>1, <4>3, <4>4 DEF Gathers
    <3> QED BY <3>3, <3>4
  <2> QED BY <2>1, <2>2, <2>3, <2>4 DEF Heard, f
<1>2. S = Chains(disk)
  <2>1. S \in SUBSET Chains(disk) /\ IsFiniteSet(DOMAIN disk)
    BY DEF Loading
  <2> HIDE DEF S
  <2> QED BY <1>1, <2>1, ChainInduction
<1> QED BY <1>2

-----------------------------------------------------------------------------
\* The overrides of a configuration, if there are any.
OverridesIn(f) == IF f.overrides = None THEN <<>> ELSE f.overrides

\* A configuration is what its files say, of which the overrides are the last.
Sums(f, fs) == SumsUp(f, fs) /\ (\E F : fs \in Seq(F)) /\ OverridesIn(f) = OverridesOf(fs)

LEMMA LastOverrides ==
    ASSUME NEW F, NEW js \in Seq(F), NEW f \in F, Shaped(f), NEW b, Gathers(b, js)
    PROVE  OverridesIn(MergePreset(b, f)) = OverridesOf(js \o <<f>>)
<1> DEFINE gs == js \o <<f>>
           N == Len(gs)
           with == {n \in DOMAIN gs : gs[n].overrides # None /\ (n = N \/ gs[n].overrides # <<>>)}
           m == MergePreset(b, f)
<1>1. /\ N = Len(js) + 1 /\ Len(js) \in Nat /\ DOMAIN gs = 1 .. N /\ DOMAIN js = 1 .. Len(js)
      /\ gs[N] = f /\ \A n \in DOMAIN js : gs[n] = js[n]
  OBVIOUS
<1>2. m.overrides = IF f.overrides = None THEN b.overrides ELSE IF f.overrides = <<>> THEN None ELSE f.overrides
  BY DEF MergePreset, Shaped, Empty
<1>3. OverridesOf(gs) = IF with = {} THEN <<>> ELSE gs[Latest(with)].overrides
  BY DEF OverridesOf
<1>4. b.overrides = IF Overriding(js) = {} THEN None ELSE js[Latest(Overriding(js))].overrides
  BY DEF Gathers
<1> HIDE DEF gs, m, N
<1>5. CASE f.overrides # None
  <2>1. N \in with /\ with \in SUBSET Nat /\ \A n \in with : n <= N
    BY <1>1, <1>5
  <2>2. Latest(with) = N
    <3> HIDE DEF with
    <3> QED BY <2>1, LatestOne
  <2>3. OverridesOf(gs) = f.overrides
    BY <1>1, <1>3, <2>1, <2>2
  <2> QED BY <1>2, <1>5, <2>3 DEF OverridesIn, gs, m
<1>6. CASE f.overrides = None
  <2>1. with = Overriding(js)
    BY <1>1, <1>6 DEF Overriding
  <2>2. m.overrides = b.overrides
    BY <1>2, <1>6
  <2>3. CASE Overriding(js) = {}
    BY <1>3, <1>4, <2>1, <2>2, <2>3 DEF OverridesIn, gs, m
  <2>4. CASE Overriding(js) # {}
    <3>1. Overriding(js) \subseteq DOMAIN js
      BY DEF Overriding
    <3>2. Latest(Overriding(js)) \in Overriding(js)
      BY <2>4, <3>1, LatestIn
    <3>3. /\ b.overrides = js[Latest(Overriding(js))].overrides /\ b.overrides # None
          /\ gs[Latest(Overriding(js))] = js[Latest(Overriding(js))]
      BY <1>1, <1>4, <2>4, <3>1, <3>2 DEF Overriding
    <3> HIDE DEF with
    <3> QED BY <1>3, <2>1, <2>2, <2>4, <3>3 DEF OverridesIn, gs, m
  <2> QED BY <2>3, <2>4
<1> QED BY <1>5, <1>6

LEMMA LoadSums ==
    ASSUME NEW disk, IsFiniteSet(DOMAIN disk), NEW path,
           \A p \in DOMAIN disk : disk[p] # None => IsFile(disk[p]),
           Load(disk, path) # None, Flat(Speakers(disk, path))
    PROVE  Sums(Load(disk, path), Speakers(disk, path))
<1>1. PICK load : /\ \A p : Load(disk, p) = IF p \in DOMAIN disk THEN load[<<p, {}>>] ELSE None
                  /\ \A c \in Chains(disk) : load[c] = Body(disk, load, c)
  BY LoadSteps
<1>2. PICK speak : /\ \A p : Speakers(disk, p) = IF p \in DOMAIN disk THEN speak[<<p, {}>>] ELSE <<>>
                   /\ \A c \in Chains(disk) : speak[c] = Spoken(disk, speak, c)
  BY SpeakSteps
<1>3. Loading(disk, load, speak)
  BY <1>1, <1>2 DEF Loading
<1> DEFINE c == <<path, {}>>
           f == disk[c[1]]
           F == Files(disk)
<1>4. c \in Chains(disk) /\ load[c] = Load(disk, path) /\ speak[c] = Speakers(disk, path)
  BY <1>1, <1>2 DEF Chains
<1> HIDE DEF c
<1>0. PICK b, js : Built(disk, load, speak, c, b, js)
  <2>1. load[c] # None
    BY <1>4
  <2>2. HeardBefore(disk, load, speak, c)
    BY <1>3, LoadTells DEF HeardBefore
  <2> QED BY <1>3, <1>4, <2>1, <2>2, ChainTells
<1>5. /\ js \in Seq(F) /\ f \in F /\ IsFile(f)
      /\ speak[c] = js \o <<f>> /\ load[c] = MergePreset(b, f)
      /\ f.presets = <<>> => js = <<>>
      /\ Flat(js \o <<f>>) => Gathers(b, js)
  BY <1>0, Zenon DEF Built
<1> HIDE DEF f, F
<1>6. Gathers(b, js) /\ Shaped(f) /\ <<f>> \in Seq(F) /\ js \o <<f>> \in Seq(F)
  BY <1>4, <1>5 DEF IsFile, Shaped
<1>7. SumsUp(MergePreset(b, f), js \o <<f>>)
  BY <1>5, <1>6, OneSumsUp, SumsOnTop DEF Gathers
<1>8. OverridesIn(MergePreset(b, f)) = OverridesOf(js \o <<f>>)
  BY <1>5, <1>6, LastOverrides
<1> QED BY <1>4, <1>5, <1>6, <1>7, <1>8 DEF Sums

LEMMA TopSums ==
    ASSUME NEW q, IsFiniteSet(DOMAIN q.disk),
           \A p \in DOMAIN q.disk : q.disk[p] # None => IsFile(q.disk[p]),
           Flat(Top(q))
    PROVE  LET path == IF q.cli.config # None THEN q.cli.config ELSE DiscoverFile(q.disk, q.level)
               f == IF path = None THEN Defaults ELSE Load(q.disk, path)
           IN  f # None => Sums(f, Top(q)) /\ Shaped(f)
<1> DEFINE path == IF q.cli.config # None THEN q.cli.config ELSE DiscoverFile(q.disk, q.level)
<1>1. Top(q) = IF path = None THEN <<Defaults>> ELSE Speakers(q.disk, path)
  BY DEF Top
<1> HIDE DEF path
<1>2. Sums(Defaults, <<Defaults>>) /\ Shaped(Defaults)
  <2>1. SumsUp(Defaults, <<Defaults>>)
    BY OneSumsUp
  <2>2. Defaults.overrides = None /\ Shaped(Defaults)
    BY DEF Defaults, Empty, Shaped
  <2>3. <<Defaults>> \in Seq({Defaults}) /\ \A n \in DOMAIN <<Defaults>> : <<Defaults>>[n] = Defaults
    OBVIOUS
  <2>4. OverridesOf(<<Defaults>>) = <<>>
    BY <2>2, <2>3 DEF OverridesOf
  <2> QED BY <2>1, <2>2, <2>3, <2>4 DEF Sums, OverridesIn
<1>3. ASSUME path # None, Load(q.disk, path) # None
      PROVE  Sums(Load(q.disk, path), Speakers(q.disk, path)) /\ Shaped(Load(q.disk, path))
  BY <1>1, <1>3, LoadSums, LoadLists DEF Lists
<1> QED BY <1>1, <1>2, <1>3 DEF path

\* A rule is spoken of under one name.
LEMMA OneName ==
    ASSUME NEW rules, ValidRules(rules), NEW id, NEW k \in DOMAIN rules, ResolveID(k) = id
    PROVE  Speaks(rules, id) /\ Word(rules, id) = rules[k]
<1>1. \A a, b \in DOMAIN rules : ResolveID(a) = ResolveID(b) => a = b
  BY Zenon DEF ValidRules
<1>2. (CHOOSE n \in DOMAIN rules : ResolveID(n) = id) = k
  BY <1>1
<1> QED BY <1>2 DEF Speaks, Word

\* What can be said of a rule.
ValidWord(id, v) ==
    \/ Is("text", v) /\ IsSeverity(v)
    \/ /\ IsTable(v)
       /\ "severity" \in DOMAIN v.table => IsSeverity(v.table["severity"])
       /\ \A o \in DOMAIN v.table \ {"severity"} : NormalizeOption(OptionIn(id, o), v.table[o]) # None

LEMMA LookedUp == ASSUME NEW k, Known(k), NEW o PROVE OptionIn(k, o) = OptionIn(ResolveID(k), o)
<1>1. ResolveID(k) \in IDs
  BY AliasesAreRules
<1>2. Lookup(ResolveID(k)) = Lookup(k)
  BY <1>1 DEF Lookup, ResolveID
<1> QED BY <1>2 DEF OptionIn

LEMMA WordsAreValid ==
    ASSUME NEW rules, ValidRules(rules), NEW k \in DOMAIN rules
    PROVE  Known(k) /\ ValidWord(ResolveID(k), rules[k])
<1> DEFINE v == rules[k]
<1>1. Known(k)
  BY Zenon DEF ValidRules
<1>2. \/ Is("text", v) /\ IsSeverity(v)
      \/ /\ Is("table", v)
         /\ "severity" \in DOMAIN v.table => IsSeverity(v.table["severity"])
         /\ \A o \in DOMAIN OptionsOf(v) : NormalizeOption(OptionIn(k, o), v.table[o]) # None
  BY Zenon DEF ValidRules
<1>3. DOMAIN OptionsOf(v) = DOMAIN v.table \ {"severity"}
  BY DEF OptionsOf, Less
<1> HIDE DEF v
<1>4. \A o : OptionIn(k, o) = OptionIn(ResolveID(k), o)
  BY <1>1, LookedUp
<1> QED BY <1>1, <1>2, <1>3, <1>4 DEF ValidWord, IsTable, v

LEMMA NoTableAndText == ASSUME NEW v, IsTable(v) PROVE ~IsSeverity(v) /\ ~Is("text", v)
BY DEF IsTable, Is, IsSeverity

\* A table is no value of an option.
LEMMA NoTableForOption == ASSUME NEW o, NEW v, IsTable(v) PROVE NormalizeOption(o, v) = None
<1>1. ~Is("flag", v) /\ ~Is("text", v) /\ ~Is("list", v) /\ AsInteger(v) = None
  BY DEF IsTable, Is, AsInteger
<1>2. NormalizePlain(o, v) = None
  BY <1>1 DEF NormalizePlain
<1> QED BY <1>1, <1>2 DEF NormalizeOption

LEMMA SeverityWord ==
    ASSUME NEW id, NEW v, ValidWord(id, v)
    PROVE  /\ SeverityOf(v) = IF ~IsTable(v) THEN v.text
                              ELSE IF "severity" \in DOMAIN v.table THEN v.table["severity"].text ELSE None
           /\ ~IsTable(v) => SeverityOf(v) # None
           /\ IsTable(v) /\ "severity" \in DOMAIN v.table => SeverityOf(v) # None
<1>1. CASE IsTable(v)
  <2>1. ~Is("text", v) /\ Is("table", v)
    BY <1>1, NoTableAndText DEF IsTable
  <2>2. "severity" \in DOMAIN v.table => v.table["severity"].text # None
    BY <1>1, <2>1, NoneAssumption DEF ValidWord, IsSeverity
  <2> QED BY <1>1, <2>1, <2>2 DEF SeverityOf
<1>2. CASE ~IsTable(v)
  <2>1. Is("text", v) /\ ~Is("table", v) /\ v.text \in Severities \cup {"off"}
    BY <1>2 DEF ValidWord, IsSeverity, IsTable
  <2> QED BY <1>2, <2>1, NoneAssumption DEF SeverityOf
<1> QED BY <1>1, <1>2

\* What is parsed of rules, rule by rule.
LEMMA ParsedSays ==
    ASSUME NEW rules, ValidRules(rules), NEW id
    PROVE  LET p == ParseRules(rules)
               w == Word(rules, id)
           IN  /\ id \in DOMAIN p.severity <=> Speaks(rules, id) /\ SeverityOf(w) # None
               /\ id \in DOMAIN p.severity => p.severity[id] = SeverityOf(w)
               /\ id \in DOMAIN p.options <=> Speaks(rules, id) /\ IsTable(w)
               /\ id \in DOMAIN p.options =>
                     /\ DOMAIN p.options[id] = DOMAIN w.table \ {"severity"}
                     /\ \A o \in DOMAIN p.options[id] :
                           p.options[id][o] = NormalizeOption(OptionIn(id, o), w.table[o])
<1> DEFINE p == ParseRules(rules)
           given == {k \in DOMAIN rules : SeverityOf(rules[k]) # None}
           tables == {k \in DOMAIN rules : Is("table", rules[k])}
           w(i) == Word(rules, i)
<1>1. p.severity = [i \in {ResolveID(n) : n \in given} |-> SeverityOf(w(i))]
  BY DEF ParseRules, Word
<1>2. p.options = [i \in {ResolveID(n) : n \in tables} |->
                      [o \in DOMAIN OptionsOf(w(i)) |->
                          NormalizeOption(OptionIn(i, o), w(i).table[o])]]
  BY DEF ParseRules, Word
<1>3. \A k \in DOMAIN rules : w(ResolveID(k)) = rules[k] /\ Speaks(rules, ResolveID(k))
  BY OneName
<1>4. Speaks(rules, id) <=> \E k \in DOMAIN rules : ResolveID(k) = id
  BY DEF Speaks
<1> HIDE DEF p, w
<1>5. id \in {ResolveID(n) : n \in given} <=> Speaks(rules, id) /\ SeverityOf(w(id)) # None
  BY <1>3, <1>4
<1>6. id \in {ResolveID(n) : n \in tables} <=> Speaks(rules, id) /\ IsTable(w(id))
  BY <1>3, <1>4 DEF IsTable
<1>7. DOMAIN OptionsOf(w(id)) = DOMAIN w(id).table \ {"severity"}
  BY DEF OptionsOf, Less
<1>8. id \in DOMAIN p.severity => p.severity[id] = SeverityOf(w(id))
  BY <1>1
<1>9. id \in DOMAIN p.options =>
         /\ DOMAIN p.options[id] = DOMAIN w(id).table \ {"severity"}
         /\ \A o \in DOMAIN p.options[id] :
               p.options[id][o] = NormalizeOption(OptionIn(id, o), w(id).table[o])
  BY <1>2, <1>7
<1>10. /\ id \in DOMAIN p.severity <=> Speaks(rules, id) /\ SeverityOf(w(id)) # None
       /\ id \in DOMAIN p.options <=> Speaks(rules, id) /\ IsTable(w(id))
  BY <1>1, <1>2, <1>5, <1>6
<1> QED BY <1>8, <1>9, <1>10 DEF p, w

-----------------------------------------------------------------------------
\* The name under which a configuration and its files speak of a rule, if they do.
Unsaid(f, fs, id) == ~Speaks(f.rules, id) /\ Strings(fs, id) = {} /\ Tables(fs, id) = {}
Called(f, fs, id, k) ==
    /\ ResolveID(k) = id /\ Speaks(f.rules, id) /\ Word(f.rules, id) = f.rules[k]
    /\ Strings(fs, id) = Resets(fs, k) /\ Tables(fs, id) = Live(fs, k)
    /\ \A n \in Live(fs, k) \cup Resets(fs, k) : Word(fs[n].rules, id) = fs[n].rules[k]

LEMMA FilesName ==
    ASSUME NEW f, NEW fs, SumsUp(f, fs), ValidRules(f.rules), NEW id
    PROVE  Unsaid(f, fs, id) \/ \E k \in DOMAIN f.rules : Called(f, fs, id, k)
<1>1. \A k : \A n \in DOMAIN fs : k \in DOMAIN fs[n].rules => k \in DOMAIN f.rules
  BY DEF SumsUp, Tells
<1>2. CASE ~Speaks(f.rules, id)
  <2>1. \A n \in DOMAIN fs : ~Speaks(fs[n].rules, id)
    BY <1>1, <1>2 DEF Speaks
  <2> QED BY <1>2, <2>1 DEF Unsaid, Strings, Tables
<1>3. CASE Speaks(f.rules, id)
  <2>1. PICK k \in DOMAIN f.rules : ResolveID(k) = id
    BY <1>3 DEF Speaks
  <2>2. Word(f.rules, id) = f.rules[k]
    BY <2>1, OneName
  <2>3. \A a \in DOMAIN f.rules : ResolveID(a) = id => a = k
    BY <2>1 DEF ValidRules
  <2>4. ASSUME NEW n \in DOMAIN fs
        PROVE  /\ Speaks(fs[n].rules, id) <=> k \in DOMAIN fs[n].rules
               /\ k \in DOMAIN fs[n].rules => Word(fs[n].rules, id) = fs[n].rules[k]
    <3>1. \A a \in DOMAIN fs[n].rules : ResolveID(a) = id => a = k
      BY <1>1, <2>3
    <3>2. k \in DOMAIN fs[n].rules =>
             (CHOOSE a \in DOMAIN fs[n].rules : ResolveID(a) = id) = k
      BY <2>1, <3>1
    <3> QED BY <2>1, <3>1, <3>2 DEF Speaks, Word
  <2>5. Strings(fs, id) = Resets(fs, k)
    BY <2>4 DEF Strings, Resets, IsTable
  <2>6. Tables(fs, id) = Live(fs, k)
    BY <2>4, <2>5 DEF Tables, Live
  <2>7. \A n \in Live(fs, k) \cup Resets(fs, k) : Word(fs[n].rules, id) = fs[n].rules[k]
    BY <2>4 DEF Live, Resets
  <2> QED BY <1>3, <2>1, <2>2, <2>5, <2>6, <2>7 DEF Called
<1> QED BY <1>2, <1>3

\* Of the files that have a table for a rule each is after the last that has none.
LEMMA LiveAreTables ==
    ASSUME NEW F, NEW fs \in Seq(F), NEW k, NEW n \in Live(fs, k)
    PROVE  IsTable(fs[n].rules[k]) /\ n \in Nat
<1>1. n \in DOMAIN fs /\ k \in DOMAIN fs[n].rules /\ \A m \in Resets(fs, k) : m < n
  BY DEF Live
<1>2. n \in Nat /\ ~(n < n)
  BY <1>1
<1> QED BY <1>1, <1>2 DEF Resets

\* The severity a configuration has for a rule is that of the last file to speak.
LEMMA FilesSeverity ==
    ASSUME NEW f, NEW F, NEW fs \in Seq(F), SumsUp(f, fs), ValidRules(f.rules), NEW id, NEW q
    PROVE  ByFiles(q, fs, id) = IF id \in DOMAIN ParseRules(f.rules).severity
                                THEN ParseRules(f.rules).severity[id] ELSE ByProfile(q, fs, id)
<1> DEFINE sev == ParseRules(f.rules).severity
           said == {n \in Tables(fs, id) : SeverityOf(Word(fs[n].rules, id)) # None}
<1>1. ByFiles(q, fs, id) =
        IF said # {} THEN SeverityOf(Word(fs[Latest(said)].rules, id))
        ELSE IF Tables(fs, id) = {} /\ Strings(fs, id) # {}
        THEN Word(fs[Latest(Strings(fs, id))].rules, id).text
        ELSE ByProfile(q, fs, id)
  BY DEF ByFiles
<1>2. /\ id \in DOMAIN sev <=> Speaks(f.rules, id) /\ SeverityOf(Word(f.rules, id)) # None
      /\ id \in DOMAIN sev => sev[id] = SeverityOf(Word(f.rules, id))
  BY ParsedSays
<1> HIDE DEF sev
<1>3. CASE Unsaid(f, fs, id)
  BY <1>1, <1>2, <1>3 DEF sev, Unsaid
<1>4. ASSUME NEW k \in DOMAIN f.rules, Called(f, fs, id, k)
      PROVE  ByFiles(q, fs, id) = IF id \in DOMAIN sev THEN sev[id] ELSE ByProfile(q, fs, id)
  <2> DEFINE v == f.rules[k]
  <2>0. /\ ResolveID(k) = id /\ Speaks(f.rules, id) /\ Word(f.rules, id) = f.rules[k]
        /\ Strings(fs, id) = Resets(fs, k) /\ Tables(fs, id) = Live(fs, k)
        /\ \A n \in Live(fs, k) \cup Resets(fs, k) : Word(fs[n].rules, id) = fs[n].rules[k]
    BY <1>4 DEF Called
  <2>1. ValidWord(id, v) /\ Tells(f.rules, fs, k)
    BY <2>0, WordsAreValid DEF SumsUp
  <2>2. Live(fs, k) \subseteq DOMAIN fs /\ Resets(fs, k) \subseteq DOMAIN fs
    BY DEF Live, Resets
  <2>3. CASE Live(fs, k) = {}
    <3>1. Resets(fs, k) # {} /\ v = fs[Latest(Resets(fs, k))].rules[k]
      BY <2>1, <2>3, SomeSpeak DEF Tells
    <3>2. Latest(Resets(fs, k)) \in Resets(fs, k)
      BY <2>2, <3>1, LatestIn
    <3>3. ~IsTable(v)
      BY <3>1, <3>2 DEF Resets
    <3>4. SeverityOf(v) = v.text /\ SeverityOf(v) # None
      BY <2>1, <3>3, SeverityWord
    <3>5. said = {} /\ Word(fs[Latest(Resets(fs, k))].rules, id) = v
      BY <2>0, <2>3, <3>1, <3>2
    <3> HIDE DEF said, v
    <3>6. id \in DOMAIN sev /\ sev[id] = v.text
      BY <1>2, <2>0, <3>4 DEF v
    <3> QED BY <1>1, <2>0, <2>3, <3>1, <3>5, <3>6
  <2>4. CASE Live(fs, k) # {}
    <3> DEFINE W == With(fs, k, "severity")
               word(n) == fs[n].rules[k].table["severity"]
    <3>1. /\ IsTable(v)
          /\ "severity" \in DOMAIN v.table <=> W # {}
          /\ W # {} => SameWord(v.table["severity"], word(Latest(W)))
      BY <2>1, <2>4 DEF Tells
    <3>2. W \subseteq Live(fs, k) /\ W \subseteq DOMAIN fs
      BY <2>2 DEF With
    <3>3. ASSUME NEW n \in Live(fs, k)
          PROVE  /\ SeverityOf(Word(fs[n].rules, id)) = IF n \in W THEN word(n).text ELSE None
      <4>1. IsTable(fs[n].rules[k]) /\ ~Is("text", fs[n].rules[k])
        BY LiveAreTables, NoTableAndText
      <4>2. n \in W <=> "severity" \in DOMAIN fs[n].rules[k].table
        BY DEF With
      <4>3. Word(fs[n].rules, id) = fs[n].rules[k]
        BY <2>0
      <4> HIDE DEF W
      <4> QED BY <4>1, <4>2, <4>3 DEF SeverityOf, IsTable
    <3>4. said \subseteq W
      BY <2>0, <3>3
    <3>5. CASE W = {}
      <4>1. said = {}
        BY <3>4, <3>5
      <4>2. SeverityOf(v) = None
        BY <2>1, <3>1, <3>5, SeverityWord
      <4> HIDE DEF said, v
      <4> QED BY <1>1, <1>2, <2>0, <2>4, <4>1, <4>2 DEF v
    <3>6. CASE W # {}
      <4> DEFINE n == Latest(W)
      <4>0. n \in W /\ \A m \in W : m <= n
        <5>1. W \in SUBSET Nat /\ Len(fs) \in Nat /\ \A m \in W : m <= Len(fs)
          BY <3>2
        <5> HIDE DEF W
        <5> QED BY <3>6, <5>1, LatestIs
      <4> HIDE DEF W, n
      <4>1. v.table["severity"] = word(n) /\ SeverityOf(v) = v.table["severity"].text /\ SeverityOf(v) # None
        <5>1. IsSeverity(v.table["severity"])
          BY <2>1, <3>1, <3>6, NoTableAndText DEF ValidWord
        <5>2. v.table["severity"] = word(n)
          BY <3>1, <3>6, <5>1, NoTableAndText DEF SameWord, n
        <5> QED BY <2>1, <3>1, <3>6, <5>2, SeverityWord
      <4>2. n \in said
        BY <2>0, <3>2, <3>3, <4>0, <4>1
      <4>3. Latest(said) = n
        <5>1. said \in SUBSET Nat /\ \A m \in said : m <= n
          BY <3>2, <3>4, <4>0
        <5> HIDE DEF said
        <5> QED BY <4>2, <5>1, LatestOne
      <4>4. SeverityOf(Word(fs[n].rules, id)) = SeverityOf(v)
        BY <3>2, <3>3, <4>0, <4>1
      <4> HIDE DEF said, v
      <4> QED BY <1>1, <1>2, <2>0, <4>1, <4>2, <4>3, <4>4 DEF v
    <3> QED BY <3>5, <3>6
  <2> QED BY <2>3, <2>4
<1> HIDE DEF said
<1> QED BY <1>3, <1>4, FilesName DEF sev

\* "severity" is the name of no option: no rule with such an option registers.
LEMMA OptionNames ==
    ASSUME NEW id \in IDs, NEW o \in NamesOf(Registry.rules[id].options)
    PROVE  o # "severity"
<1> DEFINE N == Len(RuleList)
           M == Len(AliasList)
           n == CHOOSE k \in 1 .. N : RuleList[k].id = id
           m == RuleList[n]
<1>1. n \in 1 .. N /\ Registry.rules[id] = m
  BY DEF IDs, Registry, RegistryOf
<1>2. Register(RegistryOf(n - 1, 0), m) # None
  <2> HIDE DEF n
  <2> QED BY <1>1, RegistrationAssumption
<1> HIDE DEF n, m
<1>3. ValidOptions(m.options)
  BY <1>2, Zenon DEF Register
<1>4. PICK k \in DOMAIN m.options : m.options[k].name = o
  BY <1>1 DEF NamesOf
<1>5. ValidShape(m.options[k], Types)
  BY <1>3, <1>4 DEF ValidOptions
<1> QED BY <1>4, <1>5 DEF ValidShape

\* What the tables of the files say of an option.
FilesOption(fs, id, o) ==
    LET files == {n \in Tables(fs, id) : o \in DOMAIN Word(fs[n].rules, id).table}
        v == IF files # {} THEN Word(fs[Latest(files)].rules, id).table ELSE Nowhere
    IN  IF o \in DOMAIN v THEN NormalizeOption(OptionIn(id, o), v[o]) ELSE None

\* Of what is found for rules, the value of an option of one.
ValueIn(c, id, o) ==
    IF id \in DOMAIN c THEN IF o \in DOMAIN c[id] THEN c[id][o] ELSE None ELSE None

\* So it is with every option.
LEMMA FilesOptions ==
    ASSUME NEW f, NEW F, NEW fs \in Seq(F), SumsUp(f, fs), ValidRules(f.rules), NEW id,
           NEW o, o # "severity"
    PROVE  FilesOption(fs, id, o) = ValueIn(ParseRules(f.rules).options, id, o)
<1> DEFINE ops == ParseRules(f.rules).options
           files == {n \in Tables(fs, id) : o \in DOMAIN Word(fs[n].rules, id).table}
<1>0. DOMAIN Nowhere = {}
  BY DEF Nowhere
<1>1. FilesOption(fs, id, o) =
         IF files # {}
         THEN IF o \in DOMAIN Word(fs[Latest(files)].rules, id).table
              THEN NormalizeOption(OptionIn(id, o), Word(fs[Latest(files)].rules, id).table[o]) ELSE None
         ELSE None
  BY <1>0 DEF FilesOption
<1>2. /\ id \in DOMAIN ops <=> Speaks(f.rules, id) /\ IsTable(Word(f.rules, id))
      /\ id \in DOMAIN ops =>
            /\ DOMAIN ops[id] = DOMAIN Word(f.rules, id).table \ {"severity"}
            /\ \A p \in DOMAIN ops[id] :
                  ops[id][p] = NormalizeOption(OptionIn(id, p), Word(f.rules, id).table[p])
  BY ParsedSays
<1> HIDE DEF ops
<1>3. CASE Unsaid(f, fs, id)
  <2>1. files = {}
    BY <1>3 DEF Unsaid
  <2> HIDE DEF files
  <2> QED BY <1>1, <1>2, <1>3, <2>1 DEF ValueIn, Unsaid, ops
<1>4. ASSUME NEW k \in DOMAIN f.rules, Called(f, fs, id, k)
      PROVE  FilesOption(fs, id, o) = ValueIn(ops, id, o)
  <2> DEFINE v == f.rules[k]
  <2>0. /\ ResolveID(k) = id /\ Speaks(f.rules, id) /\ Word(f.rules, id) = f.rules[k]
        /\ Strings(fs, id) = Resets(fs, k) /\ Tables(fs, id) = Live(fs, k)
        /\ \A n \in Live(fs, k) \cup Resets(fs, k) : Word(fs[n].rules, id) = fs[n].rules[k]
    BY <1>4 DEF Called
  <2>1. ValidWord(id, v) /\ Tells(f.rules, fs, k)
    BY <2>0, WordsAreValid DEF SumsUp
  <2>2. Live(fs, k) \subseteq DOMAIN fs /\ Resets(fs, k) \subseteq DOMAIN fs
    BY DEF Live, Resets
  <2>3. files = With(fs, k, o)
    BY <2>0 DEF With
  <2>4. CASE Live(fs, k) = {}
    <3>1. Resets(fs, k) # {} /\ v = fs[Latest(Resets(fs, k))].rules[k]
      BY <2>1, <2>4, SomeSpeak DEF Tells
    <3>2. Latest(Resets(fs, k)) \in Resets(fs, k)
      BY <2>2, <3>1, LatestIn
    <3>3. ~IsTable(v) /\ files = {}
      BY <2>3, <2>4, <3>1, <3>2 DEF Resets, With
    <3> HIDE DEF v, files
    <3> QED BY <1>1, <1>2, <2>0, <3>3 DEF ValueIn, v
  <2>5. CASE Live(fs, k) # {}
    <3> DEFINE W == With(fs, k, o)
               n == Latest(W)
               word == fs[n].rules[k].table[o]
    <3>1. /\ IsTable(v)
          /\ o \in DOMAIN v.table <=> W # {}
          /\ W # {} => SameWord(v.table[o], word)
      BY <2>1, <2>5 DEF Tells
    <3> HIDE DEF v, files
    <3>2. CASE W = {}
      BY <1>1, <1>2, <2>0, <2>3, <3>1, <3>2 DEF ValueIn, v
    <3>3. CASE W # {}
      <4>1. n \in W
        <5>1. W \subseteq DOMAIN fs
          BY <2>2 DEF With
        <5> HIDE DEF W
        <5> QED BY <3>3, <5>1, LatestIn
      <4>2. n \in Live(fs, k) /\ o \in DOMAIN fs[n].rules[k].table
        BY <4>1 DEF With
      <4>3. Word(fs[n].rules, id) = fs[n].rules[k]
        BY <2>0, <4>2
      <4>4. v.table[o] = word
        <5>1. NormalizeOption(OptionIn(id, o), v.table[o]) # None
          BY <2>1, <3>1, <3>3, NoTableAndText DEF ValidWord
        <5>2. ~IsTable(v.table[o])
          BY <5>1, NoTableForOption
        <5> QED BY <3>1, <3>3, <5>2 DEF SameWord
      <4> HIDE DEF n, W, word
      <4>5. FilesOption(fs, id, o) = NormalizeOption(OptionIn(id, o), word)
        BY <1>1, <2>3, <3>3, <4>2, <4>3 DEF n, W, word
      <4>6. ValueIn(ops, id, o) = NormalizeOption(OptionIn(id, o), v.table[o])
        BY <1>2, <2>0, <3>1, <3>3 DEF ValueIn, v
      <4> QED BY <4>4, <4>5, <4>6
    <3> QED BY <3>2, <3>3
  <2> QED BY <2>4, <2>5
<1> HIDE DEF files
<1> QED BY <1>3, <1>4, FilesName DEF ops

\* Overrides are kept as they are parsed.
LEMMA ResolvedOverrides ==
    ASSUME NEW f, Shaped(f), Resolve(f) # None
    PROVE  LET ovs == OverridesIn(f)
               r == Resolve(f)
           IN  /\ IsSeq(r.overrides) /\ DOMAIN r.overrides = DOMAIN ovs
               /\ \A k \in DOMAIN ovs :
                     /\ ArePatterns(ovs[k].paths) /\ ValidRules(ovs[k].rules)
                     /\ r.overrides[k].paths = ovs[k].paths
                     /\ r.overrides[k].severity = ParseRules(ovs[k].rules).severity
                     /\ r.overrides[k].options = ParseRules(ovs[k].rules).options
<1> DEFINE r == Resolve(f)
           laid == [k \in DOMAIN f.overrides |->
                       Atop([paths |-> f.overrides[k].paths], ParseRules(f.overrides[k].rules))]
<1>1. Settled(r) /\ ValidFile(f)
  BY ResolveSettles
<1>2. r.overrides = IF f.overrides = None THEN <<>> ELSE laid
  BY DEF Resolve
<1>3. IsSeq(r.overrides)
  BY <1>1 DEF Settled, ArePaths
<1> HIDE DEF r
<1>4. CASE f.overrides = None
  <2>1. DOMAIN <<>> = {}
    OBVIOUS
  <2> QED BY <1>2, <1>3, <1>4, <2>1 DEF OverridesIn, r
<1>5. CASE f.overrides # None
  <2>1. \A k \in DOMAIN f.overrides : ValidRules(f.overrides[k].rules)
    BY <1>1, <1>5, Zenon DEF ValidFile
  <2>2. \A k \in DOMAIN f.overrides : ArePatterns(f.overrides[k].paths)
    BY <1>5 DEF Shaped, ArePaths
  <2>3. \A k \in DOMAIN laid :
           /\ laid[k].paths = f.overrides[k].paths
           /\ laid[k].severity = ParseRules(f.overrides[k].rules).severity
           /\ laid[k].options = ParseRules(f.overrides[k].rules).options
    BY DEF Atop, ParseRules
  <2>4. DOMAIN laid = DOMAIN f.overrides
    OBVIOUS
  <2> HIDE DEF laid
  <2> QED BY <1>2, <1>3, <1>5, <2>1, <2>2, <2>3, <2>4 DEF OverridesIn, r
<1> QED BY <1>4, <1>5

\* The overrides that count for a path and a rule are those that say something.
Severe(q, fs, id) ==
    {n \in Matching(q, fs, id) : SeverityOf(Word(OverridesOf(fs)[n].rules, id)) # None}
Tabled(q, fs, id) == {n \in Matching(q, fs, id) : IsTable(Word(OverridesOf(fs)[n].rules, id))}
Matched(q, fs, id, ovs) ==
    /\ Hits(ovs, q.path, "severity", id) = Severe(q, fs, id)
    /\ Hits(ovs, q.path, "options", id) = Tabled(q, fs, id)
    /\ \A n \in Severe(q, fs, id) :
          ovs[n].severity[id] = SeverityOf(Word(OverridesOf(fs)[n].rules, id))
    /\ \A n \in Tabled(q, fs, id) :
          LET t == Word(OverridesOf(fs)[n].rules, id).table
              c == ovs[n].options[id]
          IN  /\ DOMAIN c = DOMAIN t \ {"severity"}
              /\ \A o \in DOMAIN c : c[o] = NormalizeOption(OptionIn(id, o), t[o])

LEMMA MatchingHits ==
    ASSUME NEW q, IsPlainPath(q.path), NEW f, Shaped(f), Resolve(f) # None, NEW fs, Sums(f, fs), NEW id
    PROVE  Matched(q, fs, id, Resolve(f).overrides)
<1> DEFINE ovs == Resolve(f).overrides
           word(n) == Word(OverridesOf(fs)[n].rules, id)
<1>1. OverridesIn(f) = OverridesOf(fs)
  BY DEF Sums
<1>2. /\ DOMAIN ovs = DOMAIN OverridesOf(fs)
      /\ \A k \in DOMAIN ovs :
            /\ ArePatterns(OverridesOf(fs)[k].paths) /\ ValidRules(OverridesOf(fs)[k].rules)
            /\ ovs[k].paths = OverridesOf(fs)[k].paths
            /\ ovs[k].severity = ParseRules(OverridesOf(fs)[k].rules).severity
            /\ ovs[k].options = ParseRules(OverridesOf(fs)[k].rules).options
  BY <1>1, ResolvedOverrides
<1> HIDE DEF ovs
<1>3. ASSUME NEW k \in DOMAIN ovs
      PROVE  /\ MatchesAny(ovs[k].paths, q.path)
                   <=> \E l \in DOMAIN OverridesOf(fs)[k].paths : MeansPath(OverridesOf(fs)[k].paths[l], q.path)
             /\ id \in DOMAIN ovs[k].severity
                   <=> Speaks(OverridesOf(fs)[k].rules, id) /\ SeverityOf(word(k)) # None
             /\ id \in DOMAIN ovs[k].severity => ovs[k].severity[id] = SeverityOf(word(k))
             /\ id \in DOMAIN ovs[k].options
                   <=> Speaks(OverridesOf(fs)[k].rules, id) /\ IsTable(word(k))
             /\ id \in DOMAIN ovs[k].options =>
                   /\ DOMAIN ovs[k].options[id] = DOMAIN word(k).table \ {"severity"}
                   /\ \A o \in DOMAIN ovs[k].options[id] :
                         ovs[k].options[id][o] = NormalizeOption(OptionIn(id, o), word(k).table[o])
  <2> DEFINE rules == OverridesOf(fs)[k].rules
  <2>1. MatchesAny(ovs[k].paths, q.path)
           <=> \E l \in DOMAIN OverridesOf(fs)[k].paths : MeansPath(OverridesOf(fs)[k].paths[l], q.path)
    BY <1>2, MatchesAnyMeans
  <2>2. /\ ValidRules(rules) /\ ovs[k].severity = ParseRules(rules).severity
        /\ ovs[k].options = ParseRules(rules).options
    BY <1>2
  <2> HIDE DEF rules
  <2>3. /\ id \in DOMAIN ovs[k].severity <=> Speaks(rules, id) /\ SeverityOf(Word(rules, id)) # None
        /\ id \in DOMAIN ovs[k].severity => ovs[k].severity[id] = SeverityOf(Word(rules, id))
        /\ id \in DOMAIN ovs[k].options <=> Speaks(rules, id) /\ IsTable(Word(rules, id))
        /\ id \in DOMAIN ovs[k].options =>
              /\ DOMAIN ovs[k].options[id] = DOMAIN Word(rules, id).table \ {"severity"}
              /\ \A o \in DOMAIN ovs[k].options[id] :
                    ovs[k].options[id][o] = NormalizeOption(OptionIn(id, o), Word(rules, id).table[o])
    BY <2>2, ParsedSays
  <2> QED BY <2>1, <2>3, Zenon DEF rules
<1> DEFINE severe == {n \in Matching(q, fs, id) : SeverityOf(word(n)) # None}
           tables == {n \in Matching(q, fs, id) : IsTable(word(n))}
<1> HIDE DEF word
<1>4. Hits(ovs, q.path, "severity", id) = severe
  BY <1>2, <1>3 DEF Hits, Matching
<1>5. Hits(ovs, q.path, "options", id) = tables
  BY <1>2, <1>3 DEF Hits, Matching
<1>6. \A n \in severe : ovs[n].severity[id] = SeverityOf(word(n))
  <2>1. \A n \in severe : n \in DOMAIN ovs /\ id \in DOMAIN ovs[n].severity
    BY <1>2, <1>3 DEF Matching
  <2> QED BY <1>3, <2>1
<1>7. \A n \in tables :
         /\ DOMAIN ovs[n].options[id] = DOMAIN word(n).table \ {"severity"}
         /\ \A o \in DOMAIN ovs[n].options[id] :
               ovs[n].options[id][o] = NormalizeOption(OptionIn(id, o), word(n).table[o])
  <2>1. \A n \in tables : n \in DOMAIN ovs /\ id \in DOMAIN ovs[n].options
    BY <1>2, <1>3 DEF Matching
  <2> QED BY <1>3, <2>1
<1>8. severe = Severe(q, fs, id) /\ tables = Tabled(q, fs, id)
  BY DEF Severe, Tabled, word
<1> HIDE DEF severe, tables
<1> QED BY <1>4, <1>5, <1>6, <1>7, <1>8, Zenon DEF Matched, ovs, word

-----------------------------------------------------------------------------
\* What something enabled says of a rule: a severity, or that it is off.
Value(e, id) == IF id \in DOMAIN e THEN e[id] ELSE "off"

LEMMA OverValue ==
    ASSUME NEW on, NEW severity, NEW id
    PROVE  Value(Over(on, severity), id) = IF id \in DOMAIN severity THEN severity[id] ELSE Value(on, id)
BY DEF Value, Over, Less, Atop

\* What is forced of a rule: --disable wins.
IsOneOf(id, names) == \E n \in names : ResolveID(n) = id

LEMMA ForcedValue ==
    ASSUME NEW enable, NEW disable, NEW id
    PROVE  /\ id \in DOMAIN Forced(enable, disable) <=> IsOneOf(id, disable) \/ IsOneOf(id, enable)
           /\ id \in DOMAIN Forced(enable, disable) =>
                 Forced(enable, disable)[id] = IF IsOneOf(id, disable) THEN "off" ELSE Registry.rules[id].severity
BY DEF Forced, Atop, IsOneOf

\* What the flags leave of what was resolved.
LEMMA FlagsMean ==
    ASSUME NEW f, NEW cli, Resolve(f) # None, ApplyCLI(Resolve(f), cli) # None
    PROVE  LET r == Resolve(f)
               s == ApplyCLI(r, cli)
               profile == IF cli.profile = "" THEN ProfileOf(f) ELSE cli.profile
           IN  /\ s.overrides = r.overrides /\ s.options = ParseRules(f.rules).options
               /\ s.forced = Forced(cli.enable, cli.disable)
               /\ s.enabled = Over(Over(EnabledForProfile(profile), ParseRules(f.rules).severity), s.forced)
<1> DEFINE r == Resolve(f)
           s == ApplyCLI(r, cli)
           forced == Forced(cli.enable, cli.disable)
           base == IF cli.profile = "" THEN r.enabled
                   ELSE Over(EnabledForProfile(cli.profile), ParseRules(r.source.rules).severity)
           x == IF cli.profile = "" THEN r.source.profile ELSE cli.profile
           y == IF cli.target = "" THEN r.source.target ELSE cli.target
           z == [k \in DOMAIN r.source.builds |->
                    IF cli.target = "" THEN r.source.builds[k]
                    ELSE [r.source.builds[k] EXCEPT !.target = cli.target]]
<1>1. /\ DOMAIN r = {"source", "enabled", "options", "overrides", "forced"}
      /\ r.source = f /\ r.options = ParseRules(f.rules).options
      /\ r.enabled = Over(EnabledForProfile(ProfileOf(f)), ParseRules(f.rules).severity)
  BY DEF Resolve
<1> HIDE DEF r
<1>2. s = [r EXCEPT !.enabled = Over(base, forced), !.forced = forced,
                    !.source.profile = x, !.source.target = y, !.source.builds = z]
  BY Zenon DEF ApplyCLI
<1> HIDE DEF s, base, forced, x, y, z
<1>3. /\ s.enabled = Over(base, forced) /\ s.forced = forced /\ s.overrides = r.overrides
      /\ s.options = r.options
  BY <1>1, <1>2
<1>4. base = Over(EnabledForProfile(IF cli.profile = "" THEN ProfileOf(f) ELSE cli.profile),
                  ParseRules(f.rules).severity)
  BY <1>1 DEF base
<1> QED BY <1>1, <1>3, <1>4 DEF r, s, forced

\* The profile is the one of the last file that has one, if no flag says another.
LEMMA ProfileMeans ==
    ASSUME NEW q, NEW f, NEW F, NEW fs \in Seq(F), SumsUp(f, fs), NEW id \in IDs
    PROVE  LET p == IF q.cli.profile = "" THEN ProfileOf(f) ELSE q.cli.profile
           IN  Value(EnabledForProfile(p), id) = ByProfile(q, fs, id)
<1> DEFINE p == IF q.cli.profile = "" THEN ProfileOf(f) ELSE q.cli.profile
           set == {n \in DOMAIN fs : fs[n].profile # ""}
<1>1. f.profile = IF set = {} THEN "" ELSE fs[Latest(set)].profile
  BY DEF SumsUp, Profiled
<1>2. set # {} => fs[Latest(set)].profile # ""
  <2>1. set \subseteq DOMAIN fs
    OBVIOUS
  <2>2. set # {} => Latest(set) \in set
    <3> HIDE DEF set
    <3> QED BY <2>1, LatestIn
  <2> QED BY <2>2
<1>3. p = IF q.cli.profile # "" THEN q.cli.profile
          ELSE IF set = {} THEN "recommended" ELSE fs[Latest(set)].profile
  BY <1>1, <1>2 DEF ProfileOf
<1>4. ByProfile(q, fs, id) = IF ProfileEnables(p, Registry.rules[id]) THEN Registry.rules[id].severity ELSE "off"
  BY <1>3 DEF ByProfile
<1> HIDE DEF p
<1>5. Value(EnabledForProfile(p), id)
         = IF ProfileEnables(p, Registry.rules[id]) THEN Registry.rules[id].severity ELSE "off"
  BY DEF Value, EnabledForProfile
<1> QED BY <1>4, <1>5 DEF p

-----------------------------------------------------------------------------
\* What was said last is what a path gets, of every rule and every option.
LEMMA SeverityIsLastWord ==
    ASSUME NEW q, IsPlainPath(q.path), NEW f, Shaped(f), NEW fs, Sums(f, fs),
           Resolve(f) # None, ApplyCLI(Resolve(f), q.cli) # None, NEW id \in IDs
    PROVE  SeverityGiven(ApplyCLI(Resolve(f), q.cli), q.path, id) = LastWord(q, fs, id)
<1> DEFINE r == Resolve(f)
           ovs == r.overrides
           s == ApplyCLI(r, q.cli)
           sev == ParseRules(f.rules).severity
           profile == IF q.cli.profile = "" THEN ProfileOf(f) ELSE q.cli.profile
           laid == Layered(ovs, q.path, s.enabled, "severity")
           hits == Hits(ovs, q.path, "severity", id)
           word(n) == Word(OverridesOf(fs)[n].rules, id)
           out == IsOneOf(id, q.cli.disable)
           in == IsOneOf(id, q.cli.enable)
<1>1. /\ s.overrides = ovs /\ s.forced = Forced(q.cli.enable, q.cli.disable)
      /\ s.enabled = Over(Over(EnabledForProfile(profile), sev), s.forced)
  BY FlagsMean
<1>2. PICK F : fs \in Seq(F)
  BY DEF Sums
<1>3. SumsUp(f, fs) /\ ValidRules(f.rules) /\ IsSeq(ovs)
  <2>1. ValidFile(f)
    BY ResolveSettles
  <2>2. ValidRules(f.rules)
    BY <2>1, Zenon DEF ValidFile
  <2> QED BY <2>2, ResolvedOverrides DEF Sums
<1>4. Value(Over(EnabledForProfile(profile), sev), id) = ByFiles(q, fs, id)
  <2>1. Value(EnabledForProfile(profile), id) = ByProfile(q, fs, id)
    BY <1>2, <1>3, ProfileMeans
  <2>2. ByFiles(q, fs, id) = IF id \in DOMAIN sev THEN sev[id] ELSE ByProfile(q, fs, id)
    BY <1>2, <1>3, FilesSeverity
  <2> HIDE DEF profile, sev
  <2> QED BY <2>1, <2>2, OverValue
<1>5. /\ hits = {n \in Matching(q, fs, id) : SeverityOf(word(n)) # None}
      /\ \A n \in hits : ovs[n].severity[id] = SeverityOf(word(n))
  <2>1. Matched(q, fs, id, ovs)
    BY MatchingHits
  <2> HIDE DEF ovs
  <2> QED BY <2>1 DEF Matched, Severe, Tabled
<1>6. LastWord(q, fs, id) =
         IF out THEN "off" ELSE IF in THEN Registry.rules[id].severity
         ELSE IF hits # {} THEN SeverityOf(word(Latest(hits))) ELSE ByFiles(q, fs, id)
  BY <1>5 DEF LastWord, IsOneOf
<1>7. SeverityGiven(s, q.path, id) = Value(Over(laid, s.forced), id)
  <2> HIDE DEF s, ovs
  <2> QED BY <1>1 DEF SeverityGiven, EnabledForPath, Value
<1>8. /\ id \in DOMAIN s.forced <=> out \/ in
      /\ id \in DOMAIN s.forced => s.forced[id] = IF out THEN "off" ELSE Registry.rules[id].severity
  <2> DEFINE forced == Forced(q.cli.enable, q.cli.disable)
  <2>1. /\ id \in DOMAIN forced <=> out \/ in
        /\ id \in DOMAIN forced => forced[id] = IF out THEN "off" ELSE Registry.rules[id].severity
    BY ForcedValue
  <2>2. s.forced = forced
    BY <1>1
  <2> HIDE DEF s, forced, out, in
  <2> QED BY <2>1, <2>2
<1>9. /\ id \in DOMAIN laid <=> hits # {} \/ id \in DOMAIN s.enabled
      /\ hits # {} => laid[id] = ovs[Latest(hits)].severity[id]
      /\ hits = {} /\ id \in DOMAIN s.enabled => laid[id] = s.enabled[id]
  <2> HIDE DEF s, ovs
  <2> QED BY <1>3, LayeredIs
<1>10. hits # {} => Latest(hits) \in hits
  <2>1. hits \in SUBSET Nat /\ Len(ovs) \in Nat /\ \A n \in hits : n <= Len(ovs)
    <3> HIDE DEF ovs
    <3> QED BY <1>3 DEF Hits, IsSeq
  <2> HIDE DEF hits
  <2> QED BY <2>1, LatestIs
<1> HIDE DEF s, ovs, laid, hits, word, out, in, sev, profile
<1>11. Value(Over(laid, s.forced), id) = IF id \in DOMAIN s.forced THEN s.forced[id] ELSE Value(laid, id)
  BY OverValue
<1>12. Value(s.enabled, id) = IF id \in DOMAIN s.forced THEN s.forced[id] ELSE ByFiles(q, fs, id)
  BY <1>1, <1>4, OverValue
<1>13. Value(laid, id) = IF hits # {} THEN SeverityOf(word(Latest(hits))) ELSE Value(s.enabled, id)
  BY <1>5, <1>9, <1>10 DEF Value
<1> QED BY <1>6, <1>7, <1>8, <1>11, <1>12, <1>13 DEF s

LEMMA OptionIsLastWord ==
    ASSUME NEW q, IsPlainPath(q.path), NEW f, Shaped(f), NEW fs, Sums(f, fs),
           Resolve(f) # None, ApplyCLI(Resolve(f), q.cli) # None, NEW id, NEW o, o # "severity"
    PROVE  OptionGiven(ApplyCLI(Resolve(f), q.cli), q.path, id, o) = OptionWord(q, fs, id, o)
<1> DEFINE r == Resolve(f)
           ovs == r.overrides
           s == ApplyCLI(r, q.cli)
           ops == ParseRules(f.rules).options
           laid == Layered(ovs, q.path, s.options, "options")
           hits == Hits(ovs, q.path, "options", id)
           word(n) == Word(OverridesOf(fs)[n].rules, id)
<1>1. s.overrides = ovs /\ s.options = ops
  BY FlagsMean
<1>2. PICK F : fs \in Seq(F)
  BY DEF Sums
<1>3. SumsUp(f, fs) /\ ValidRules(f.rules) /\ IsSeq(ovs)
  <2>1. ValidFile(f)
    BY ResolveSettles
  <2>2. ValidRules(f.rules)
    BY <2>1, Zenon DEF ValidFile
  <2> QED BY <2>2, ResolvedOverrides DEF Sums
<1>4. FilesOption(fs, id, o) = ValueIn(ops, id, o)
  BY <1>2, <1>3, FilesOptions
<1>5. /\ hits = {n \in Matching(q, fs, id) : IsTable(word(n))}
      /\ \A n \in hits :
            /\ DOMAIN ovs[n].options[id] = DOMAIN word(n).table \ {"severity"}
            /\ \A p \in DOMAIN ovs[n].options[id] :
                  ovs[n].options[id][p] = NormalizeOption(OptionIn(id, p), word(n).table[p])
  <2>1. Matched(q, fs, id, ovs)
    BY MatchingHits
  <2> HIDE DEF ovs
  <2> QED BY <2>1 DEF Matched, Severe, Tabled
<1>6. OptionWord(q, fs, id, o) =
         IF hits = {} THEN FilesOption(fs, id, o)
         ELSE IF o \in DOMAIN word(Latest(hits)).table
         THEN NormalizeOption(OptionIn(id, o), word(Latest(hits)).table[o]) ELSE None
  BY <1>5 DEF OptionWord, FilesOption, IsTable
<1>7. OptionGiven(s, q.path, id, o) = ValueIn(laid, id, o)
  <2> HIDE DEF s, ovs
  <2> QED BY <1>1 DEF OptionGiven, RuleConfigForPath, ValueIn
<1>9. /\ id \in DOMAIN laid <=> hits # {} \/ id \in DOMAIN s.options
      /\ hits # {} => laid[id] = ovs[Latest(hits)].options[id]
      /\ hits = {} /\ id \in DOMAIN s.options => laid[id] = s.options[id]
  <2> HIDE DEF s, ovs
  <2> QED BY <1>3, LayeredIs
<1>10. hits # {} => Latest(hits) \in hits
  <2>1. hits \in SUBSET Nat /\ Len(ovs) \in Nat /\ \A n \in hits : n <= Len(ovs)
    <3> HIDE DEF ovs
    <3> QED BY <1>3 DEF Hits, IsSeq
  <2> HIDE DEF hits
  <2> QED BY <2>1, LatestIs
<1> HIDE DEF s, ovs, laid, hits, word, ops
<1>11. CASE hits = {}
  BY <1>1, <1>4, <1>6, <1>7, <1>9, <1>11 DEF ValueIn, s
<1>12. CASE hits # {}
  <2>1. id \in DOMAIN laid /\ DOMAIN laid[id] = DOMAIN word(Latest(hits)).table \ {"severity"}
    BY <1>5, <1>9, <1>10, <1>12
  <2>2. o \in DOMAIN laid[id] => laid[id][o] = NormalizeOption(OptionIn(id, o), word(Latest(hits)).table[o])
    BY <1>5, <1>9, <1>10, <1>12
  <2> QED BY <1>6, <1>7, <1>12, <2>1, <2>2 DEF ValueIn, s
<1> QED BY <1>11, <1>12

LEMMA ConfiguredIsLastWord ==
    ASSUME NEW q, IsFiniteSet(DOMAIN q.disk),
           \A p \in DOMAIN q.disk : q.disk[p] # None => IsFile(q.disk[p]),
           IsPlainPath(q.path), Flat(Top(q)),
           Configured(q.disk, q.level, q.cli) # None, NEW id \in IDs
    PROVE  LET s == Configured(q.disk, q.level, q.cli)
           IN  /\ SeverityGiven(s, q.path, id) = LastWord(q, Top(q), id)
               /\ \A o \in NamesOf(Registry.rules[id].options) :
                     OptionGiven(s, q.path, id, o) = OptionWord(q, Top(q), id, o)
<1> DEFINE path == IF q.cli.config # None THEN q.cli.config ELSE DiscoverFile(q.disk, q.level)
           f == IF path = None THEN Defaults ELSE Load(q.disk, path)
<1>1. /\ f # None /\ Resolve(f) # None /\ ApplyCLI(Resolve(f), q.cli) # None
      /\ Configured(q.disk, q.level, q.cli) = ApplyCLI(Resolve(f), q.cli)
  BY DEF Configured
<1>2. Sums(f, Top(q)) /\ Shaped(f)
  BY <1>1, TopSums
<1> HIDE DEF f
<1> QED BY <1>1, <1>2, SeverityIsLastWord, OptionIsLastWord, OptionNames
=============================================================================
