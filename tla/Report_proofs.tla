--------------------------- MODULE Report_proofs ---------------------------
(***************************************************************************)
(* Proofs about the baseline and the report of a run, for any number of    *)
(* processes, files and findings.  The invariant says, for each place a    *)
(* process may be at, which flags led there, whether it has replaced the   *)
(* baseline, and what its temporary file holds.                            *)
(*                                                                         *)
(* The second part: equal findings are told apart by the number of those   *)
(* before them.  The numbers that are given out have no gaps, a baseline   *)
(* keeps it so through any history of generating, pruning, failing and     *)
(* dying, and one with k entries for a finding hides just k of them.       *)
(* Last: the findings are in a total order, so a limit takes as many.      *)
(***************************************************************************)
EXTENDS Report, FiniteSetTheorems, WellFoundedInduction, TLAPS

USE ReportAssumption

\* What a run sees in its files is a sequence of findings each.
LEMMA SourcesType ==
    ASSUME NEW s \in Sources, NEW f \in DOMAIN s
    PROVE  f \in Files /\ s[f] \in Seq(Ids)
<1>1. PICK r \in SUBSET Files : s \in [r -> AnyText]
  BY DEF Sources
<1>2. AnyText \subseteq Seq(Ids)
  BY DEF AnyText
<1> QED BY <1>1, <1>2

\* An occurrence is a number of equal findings: fingerprints are entries.
LEMMA FingerprintType ==
    ASSUME NEW s \in Sources, NEW i \in Items(s)
    PROVE  Id(s, i) \in Ids /\ Fingerprint(s, i) \in Entries
<1>1. PICK f \in DOMAIN s : i \in {f} \X DOMAIN s[f]
  BY DEF Items
<1>2. i[1] = f /\ i[2] \in DOMAIN s[f]
  BY <1>1
<1>3. f \in Files /\ s[f] \in Seq(Ids)
  BY SourcesType
<1>4. DOMAIN s[f] = 1 .. Len(s[f]) /\ Len(s[f]) \in Nat
  BY <1>3
<1>5. IsFiniteSet(DOMAIN s[f])
  BY <1>4, FS_Interval
<1>6. Occurrence(s, i) \in Nat
  <2> DEFINE J == {k \in DOMAIN s[i[1]] : k < i[2] /\ s[i[1]][k] = Id(s, i)}
  <2>1. J \subseteq DOMAIN s[f]
    BY <1>2
  <2>2. IsFiniteSet(J)
    BY <1>5, <2>1, FS_Subset
  <2>3. Cardinality(J) \in Nat
    BY <2>2, FS_CardinalityType
  <2> QED BY <2>3 DEF Occurrence
<1>7. Id(s, i) \in Ids
  BY <1>2, <1>3, <1>4 DEF Id
<1> QED BY <1>2, <1>3, <1>6, <1>7 DEF Fingerprint, Entries

\* What Generate makes are entries for eligible findings.
LEMMA GeneratedType ==
    ASSUME NEW s \in Sources
    PROVE  Generated(s) \subseteq Entries /\ \A e \in Generated(s) : e[2] \in Eligible
<1> SUFFICES ASSUME NEW i \in EligibleItems(s)
             PROVE  Fingerprint(s, i) \in Entries /\ Fingerprint(s, i)[2] \in Eligible
  BY DEF Generated
<1>1. i \in Items(s) /\ Id(s, i) \in Eligible
  BY DEF EligibleItems
<1> QED BY <1>1, FingerprintType DEF Fingerprint

\* Pruned entries are some of those that were there, and of those generated.
LEMMA CurrentSubset ==
    ASSUME NEW b, NEW s
    PROVE  Current(b, s) \subseteq b /\ Current(b, s) \subseteq Generated(s)
BY DEF Current

\* The entries that were matched hide what all entries hid.
LEMMA CurrentHidesTheSame ==
    ASSUME NEW b, NEW s
    PROVE  Remaining(Current(b, s), s) = Remaining(b, s)
<1> SUFFICES ASSUME NEW i \in Items(s), Id(s, i) \in Eligible
             PROVE  Fingerprint(s, i) \in Current(b, s) <=> Fingerprint(s, i) \in b
  BY DEF Remaining
<1>1. Fingerprint(s, i) \in Generated(s)
  BY DEF Generated, EligibleItems
<1> QED BY <1>1 DEF Current

\* What is printed is printed by file and place.
LEMMA CutType ==
    ASSUME NEW s \in Sources, NEW b
    PROVE  Cut(Remaining(b, s)) \subseteq Files \X Nat
<1>1. Cut(Remaining(b, s)) \subseteq Items(s)
  BY DEF Cut, Remaining
<1> SUFFICES ASSUME NEW i \in Items(s)
             PROVE  i \in Files \X Nat
  BY <1>1
<1>2. PICK f \in DOMAIN s : i \in {f} \X DOMAIN s[f]
  BY DEF Items
<1>3. f \in Files /\ s[f] \in Seq(Ids)
  BY SourcesType
<1>4. DOMAIN s[f] \subseteq Nat
  BY <1>3
<1> QED BY <1>2, <1>3, <1>4

\* Before a run has started it has seen nothing.
LEMMA EmptySource == Empty \in Sources
<1> DEFINE Given(r) == [r -> AnyText]
<1>1. Empty \in Given({})
  BY DEF Empty
<1>2. Given({}) \in {Given(r) : r \in SUBSET Files}
  OBVIOUS
<1>3. Given({}) \subseteq UNION {Given(r) : r \in SUBSET Files}
  BY <1>2
<1> QED BY <1>1, <1>3 DEF Sources

-----------------------------------------------------------------------------
LEMMA InitInv == Init => IInv
<1> SUFFICES ASSUME Init PROVE IInv
  OBVIOUS
<1> USE DEF Init
<1>1. TypeOK
  <2>2. Empty \in Sources
    BY EmptySource
  <2> QED BY <2>2 DEF TypeOK, Modes
<1>2. DiskInv /\ UpdateReported
  BY DEF DiskInv, UpdateReported
<1>3. \A p \in Procs : ProcInv(p)
  BY DEF ProcInv
<1> QED BY <1>1, <1>2, <1>3 DEF IInv

\* Nothing is written by a user.
LEMMA EditInv ==
    ASSUME IInv, NEW f \in Files, NEW t \in Texts[f], Edit(f, t)
    PROVE  IInv'
<1> USE DEF Edit, local
<1>1. TypeOK'
  <2>1. t \in AnyText
    BY DEF AnyText
  <2>2. src' \in [Files -> AnyText]
    BY <2>1 DEF IInv, TypeOK
  <2> QED BY <2>2 DEF IInv, TypeOK
<1>2. DiskInv' /\ UpdateReported'
  BY DEF IInv, DiskInv, UpdateReported
<1>3. (\A p \in Procs : ProcInv(p))'
  BY DEF IInv, ProcInv
<1> QED BY <1>1, <1>2, <1>3 DEF IInv

\* A run has done nothing to the baseline before it is through with linting.
LEMMA StartInv ==
    ASSUME IInv, NEW p \in Procs, NEW m \in Modes, NEW r \in Roots, Start(p, m, r)
    PROVE  IInv'
<1> USE DEF Start, Fresh, IInv
<1>1. TypeOK'
  <2>1. [f \in r |-> src[f]] \in Sources
    <3>1. r \in SUBSET Files /\ \A f \in r : src[f] \in AnyText
      BY DEF TypeOK
    <3>2. [f \in r |-> src[f]] \in [r -> AnyText]
      BY <3>1
    <3> QED BY <3>1, <3>2 DEF Sources
  <2> QED BY <2>1 DEF TypeOK
<1>2. DiskInv'
  BY DEF DiskInv
<1>3. UpdateReported'
  BY DEF UpdateReported, TypeOK
<1>4. \A q \in Procs : ProcInv(q)'
  <2>1. ProcInv(p)'
    <3>1. mode'[p] = m /\ base'[p] = {} /\ saved'[p] = FALSE /\ exit'[p] = None
      BY DEF TypeOK
    <3>2. /\ m = "plain" => pc'[p] = "emit"
          /\ m = "generate" => pc'[p] = "write"
          /\ m \in {"check", "prune"} => pc'[p] = "load"
      BY DEF TypeOK
    <3>3. m \in {"plain", "generate", "check", "prune"}
      BY DEF Modes
    <3>4. None \notin {"ok", "findings"}
      BY ReportAssumption
    <3>5. CASE m = "plain"
      BY <3>1, <3>2, <3>4, <3>5 DEF ProcInv
    <3>6. CASE m = "generate"
      BY <3>1, <3>2, <3>4, <3>6 DEF ProcInv
    <3>7. CASE m \in {"check", "prune"}
      BY <3>1, <3>2, <3>4, <3>7 DEF ProcInv
    <3> QED BY <3>3, <3>5, <3>6, <3>7
  <2>2. ASSUME NEW q \in Procs, q # p PROVE ProcInv(q)'
    BY <2>2 DEF ProcInv, TypeOK
  <2> QED BY <2>1, <2>2
<1> QED BY <1>1, <1>2, <1>3, <1>4

LEMMA LoadInv ==
    ASSUME IInv, NEW p \in Procs, Load(p)
    PROVE  IInv'
<1> USE DEF Load, Exit, IInv
<1>1. TypeOK'
  BY DEF TypeOK
<1>2. DiskInv'
  BY DEF DiskInv
<1>3. UpdateReported'
  BY DEF UpdateReported, TypeOK, ProcInv
<1>4. \A q \in Procs : ProcInv(q)'
  <2>1. ProcInv(p)'
    BY DEF ProcInv, TypeOK, DiskInv
  <2>2. ASSUME NEW q \in Procs, q # p PROVE ProcInv(q)'
    BY <2>2 DEF ProcInv, TypeOK
  <2> QED BY <2>1, <2>2
<1> QED BY <1>1, <1>2, <1>3, <1>4

LEMMA WriteTempInv ==
    ASSUME IInv, NEW p \in Procs, WriteTemp(p)
    PROVE  IInv'
<1> USE DEF WriteTemp, IInv
<1>1. TypeOK'
  <2>1. seen[p] \in Sources /\ base[p] \subseteq Entries
    BY DEF TypeOK
  <2>2. Generated(seen[p]) \in SUBSET Entries /\ Current(base[p], seen[p]) \in SUBSET Entries
    BY <2>1, GeneratedType, CurrentSubset
  <2> QED BY <2>2 DEF TypeOK
<1>2. DiskInv'
  BY DEF DiskInv
<1>3. UpdateReported'
  BY DEF UpdateReported, TypeOK
<1>4. \A q \in Procs : ProcInv(q)'
  BY DEF ProcInv, TypeOK
<1> QED BY <1>1, <1>2, <1>3, <1>4

\* The file that comes into place holds entries for eligible findings only.
LEMMA RenameInv ==
    ASSUME IInv, NEW p \in Procs, Rename(p)
    PROVE  IInv'
<1> USE DEF Rename, IInv
<1>1. seen[p] \in Sources
  BY DEF TypeOK
<1>2. temp[p] \subseteq Entries /\ \A e \in temp[p] : e[2] \in Eligible
  <2>1. Generated(seen[p]) \subseteq Entries /\ \A e \in Generated(seen[p]) : e[2] \in Eligible
    BY <1>1, GeneratedType
  <2>2. Current(base[p], seen[p]) \subseteq Generated(seen[p])
    BY CurrentSubset
  <2>3. temp[p] = Generated(seen[p]) \/ temp[p] = Current(base[p], seen[p])
    BY DEF ProcInv
  <2> QED BY <2>1, <2>2, <2>3
<1>3. TypeOK'
  BY <1>2 DEF TypeOK
<1>4. DiskInv'
  BY <1>2 DEF DiskInv
<1>5. UpdateReported'
  BY DEF UpdateReported, TypeOK
<1>6. \A q \in Procs : ProcInv(q)'
  BY <1>2 DEF ProcInv, TypeOK
<1> QED BY <1>3, <1>4, <1>5, <1>6

LEMMA FailWriteInv ==
    ASSUME IInv, NEW p \in Procs, FailWrite(p)
    PROVE  IInv'
<1> USE DEF FailWrite, Exit, IInv
<1>1. TypeOK'
  BY DEF TypeOK
<1>2. DiskInv'
  BY DEF DiskInv
<1>3. UpdateReported'
  BY DEF UpdateReported, TypeOK, ProcInv
<1>4. \A q \in Procs : ProcInv(q)'
  BY DEF ProcInv, TypeOK
<1> QED BY <1>1, <1>2, <1>3, <1>4

\* The exit code is decided on all that remains.
LEMMA EmitInv ==
    ASSUME IInv, NEW p \in Procs, Emit(p)
    PROVE  IInv'
<1> DEFINE rest == Remaining(base[p], seen[p])
<1> USE DEF Exit, IInv
<1>1. /\ shown' = [shown EXCEPT ![p] = Cut(rest)]
      /\ exit' = [exit EXCEPT ![p] = IF Fails(seen[p], rest) THEN "findings" ELSE "ok"]
      /\ pc' = [pc EXCEPT ![p] = "done"]
      /\ pc[p] = "emit"
      /\ UNCHANGED <<src, disk, mode, seen, base, temp, saved>>
  BY DEF Emit
<1>2. TypeOK'
  <2>1. Cut(rest) \subseteq Files \X Nat
    BY CutType DEF TypeOK
  <2> QED BY <1>1, <2>1 DEF TypeOK
<1>3. DiskInv'
  BY <1>1 DEF DiskInv
<1>4. UpdateReported'
  BY <1>1 DEF UpdateReported, TypeOK, ProcInv
<1>5. \A q \in Procs : ProcInv(q)'
  <2>1. ProcInv(p)'
    BY <1>1 DEF ProcInv, TypeOK
  <2>2. ASSUME NEW q \in Procs, q # p PROVE ProcInv(q)'
    BY <1>1, <2>2 DEF ProcInv, TypeOK
  <2> QED BY <2>1, <2>2
<1> QED BY <1>2, <1>3, <1>4, <1>5

\* A run that cannot print has replaced the baseline before or never will.
LEMMA FailOutputInv ==
    ASSUME IInv, NEW p \in Procs, FailOutput(p)
    PROVE  IInv'
<1> USE DEF FailOutput, Exit, IInv
<1>1. TypeOK'
  BY DEF TypeOK
<1>2. DiskInv'
  BY DEF DiskInv
<1>3. UpdateReported'
  BY DEF UpdateReported, TypeOK, ProcInv
<1>4. \A q \in Procs : ProcInv(q)'
  BY ReportAssumption DEF ProcInv, TypeOK
<1> QED BY <1>1, <1>2, <1>3, <1>4

LEMMA CrashInv ==
    ASSUME IInv, NEW p \in Procs, Crash(p)
    PROVE  IInv'
<1> USE DEF Crash, Fresh, IInv
<1>1. TypeOK'
  BY EmptySource DEF TypeOK, Modes
<1>2. DiskInv'
  BY DEF DiskInv
<1>3. UpdateReported'
  BY DEF UpdateReported, TypeOK
<1>4. \A q \in Procs : ProcInv(q)'
  BY DEF ProcInv, TypeOK
<1> QED BY <1>1, <1>2, <1>3, <1>4

LEMMA StepInv == IInv /\ [Next]_vars => IInv'
<1> SUFFICES ASSUME IInv, [Next]_vars PROVE IInv'
  OBVIOUS
<1>1. CASE Next
  BY <1>1, EditInv, StartInv, LoadInv, WriteTempInv, RenameInv, FailWriteInv, EmitInv,
     FailOutputInv, CrashInv DEF Next
<1>2. CASE UNCHANGED vars
  BY <1>2 DEF vars, local, IInv, TypeOK, DiskInv, UpdateReported, ProcInv
<1> QED BY <1>1, <1>2

LEMMA Inductive == Spec => []IInv
BY InitInv, StepInv, PTL DEF Spec

-----------------------------------------------------------------------------
\* emit: the baseline, its temporary copies and the fingerprints keep their
\* types for any number of processes and files.
THEOREM TypeCorrect == Spec => []TypeOK
<1>1. IInv => TypeOK
  BY DEF IInv
<1> QED BY <1>1, Inductive, PTL

\* Write: success is reported of a run that replaced the baseline, and a run that
\* only checks never does, whatever fails and whoever else writes it.
THEOREM UpdatesAreReported == Spec => []UpdateReported
<1>1. IInv => UpdateReported
  BY DEF IInv
<1> QED BY <1>1, Inductive, PTL

\* Apply: what a prune is about to write hides what the baseline it has read
\* hid, so the same run on the same sources reports the same.
THEOREM PruneIsInvisible == Spec => []PruneHidesTheSame
<1>1. IInv => PruneHidesTheSame
  <2> SUFFICES ASSUME IInv, NEW p \in Procs, pc[p] = "rename", mode[p] = "prune"
               PROVE  Remaining(temp[p], seen[p]) = Remaining(base[p], seen[p])
    BY DEF PruneHidesTheSame
  <2>1. temp[p] = Current(base[p], seen[p])
    BY DEF IInv, ProcInv
  <2> QED BY <2>1, CurrentHidesTheSame
<1> QED BY <1>1, Inductive, PTL

\* eligible: no generation, pruning or race of them hides a parse or internal
\* error, or puts one into the baseline.
THEOREM ErrorsAreNeverHidden == Spec => []ErrorsStay
<1>1. IInv => ErrorsStay
  <2> SUFFICES ASSUME IInv, NEW p \in Procs, exit[p] \in {"ok", "findings"}
               PROVE  /\ \A i \in Items(seen[p]) :
                            Id(seen[p], i) \in Failing \ Eligible => exit[p] = "findings"
                      /\ disk # None => \A e \in disk : e[2] \in Eligible
    BY DEF ErrorsStay
  <2>1. ASSUME NEW i \in Items(seen[p]), Id(seen[p], i) \in Failing \ Eligible
        PROVE  exit[p] = "findings"
    <3>1. i \in Remaining(base[p], seen[p])
      BY <2>1 DEF Remaining
    <3>2. Fails(seen[p], Remaining(base[p], seen[p]))
      BY <2>1, <3>1 DEF Fails
    <3> QED BY <3>2 DEF IInv, ProcInv
  <2>2. disk # None => \A e \in disk : e[2] \in Eligible
    BY DEF IInv, DiskInv
  <2> QED BY <2>1, <2>2
<1> QED BY <1>1, Inductive, PTL

-----------------------------------------------------------------------------
(* Occurrences *)

HIDE ReportAssumption

\* A set of natural numbers has a least element.
LEMMA Least ==
    ASSUME NEW T \in SUBSET Nat, T # {}
    PROVE  \E x \in T : \A y \in T : x <= y
<1>1. \E x \in T : \A y \in T : ~ (<<y, x>> \in OpToRel(<, Nat))
  BY NatLessThanWellFounded, WFMin
<1>2. PICK x \in T : \A y \in T : ~ (<<y, x>> \in OpToRel(<, Nat))
  BY <1>1
<1>3. ASSUME NEW y \in T, y < x PROVE FALSE
  <2>1. <<y, x>> \in OpToRel(<, Nat)
    BY <1>3 DEF OpToRel
  <2> QED BY <2>1, <1>2
<1>4. ASSUME NEW y \in T PROVE x <= y
  <2>1. x \in Nat /\ y \in Nat
    OBVIOUS
  <2> QED BY <2>1, <1>3
<1> QED BY <1>4

\* One with an upper bound has a greatest.
LEMMA Greatest ==
    ASSUME NEW T \in SUBSET Nat, T # {}, NEW b \in Nat, \A t \in T : t <= b
    PROVE  \E x \in T : \A y \in T : y <= x
<1> DEFINE D == {b - t : t \in T}
<1>1. D \in SUBSET Nat /\ D # {}
  <2>1. \A t \in T : t \in Nat /\ t <= b /\ b - t \in Nat
    OBVIOUS
  <2> QED BY <2>1
<1>2. PICK d \in D : \A e \in D : d <= e
  BY <1>1, Least
<1>3. PICK x \in T : d = b - x
  OBVIOUS
<1>4. ASSUME NEW y \in T PROVE y <= x
  <2>1. b - y \in D
    OBVIOUS
  <2> QED BY <1>2, <1>3, <2>1
<1> QED BY <1>4

-----------------------------------------------------------------------------
(* Numbers of equal findings in one file *)

\* Where a finding occurs, and where it does before a position.
Places(t, id) == {k \in DOMAIN t : t[k] = id}
Before(t, id, i) == {k \in DOMAIN t : k < i /\ t[k] = id}
Number(t, id, i) == Cardinality(Before(t, id, i))

LEMMA OccurrenceIsNumber ==
    ASSUME NEW s, NEW i
    PROVE  Occurrence(s, i) = Number(s[i[1]], Id(s, i), i[2])
BY DEF Occurrence, Number, Before

LEMMA BeforeFinite ==
    ASSUME NEW t \in Seq(Ids), NEW id, NEW i
    PROVE  IsFiniteSet(Before(t, id, i)) /\ Number(t, id, i) \in Nat
<1>1. DOMAIN t = 1 .. Len(t) /\ Len(t) \in Nat
  OBVIOUS
<1>2. IsFiniteSet(DOMAIN t)
  BY <1>1, FS_Interval
<1>3. Before(t, id, i) \in SUBSET DOMAIN t
  BY DEF Before
<1>4. IsFiniteSet(Before(t, id, i))
  BY <1>2, <1>3, FS_Subset
<1> QED BY <1>4, FS_CardinalityType DEF Number

\* The number after that of an occurrence is that of the next one.
LEMMA NextNumber ==
    ASSUME NEW t \in Seq(Ids), NEW id, NEW j \in DOMAIN t, NEW k \in Before(t, id, j),
           \A l \in Before(t, id, j) : l <= k
    PROVE  Number(t, id, j) = Number(t, id, k) + 1
<1>1. DOMAIN t \subseteq Nat
  OBVIOUS
<1>2. Before(t, id, j) = Before(t, id, k) \cup {k} /\ k \notin Before(t, id, k)
  BY <1>1 DEF Before
<1> QED BY <1>2, BeforeFinite, FS_AddElement DEF Number

\* Later occurrences have greater numbers.
LEMMA NumbersGrow ==
    ASSUME NEW t \in Seq(Ids), NEW id, NEW i \in Places(t, id), NEW j \in Places(t, id), i < j
    PROVE  Number(t, id, i) < Number(t, id, j)
<1>1. i \in Nat /\ j \in Nat /\ DOMAIN t \subseteq Nat
  BY DEF Places
<1>2. Before(t, id, i) \cup {i} \in SUBSET Before(t, id, j) /\ i \notin Before(t, id, i)
  BY <1>1 DEF Before, Places
<1>3. Cardinality(Before(t, id, i) \cup {i}) = Number(t, id, i) + 1
  BY <1>2, BeforeFinite, FS_AddElement DEF Number
<1>4. Cardinality(Before(t, id, i) \cup {i}) <= Number(t, id, j)
  BY <1>2, BeforeFinite, FS_Subset DEF Number
<1> QED BY <1>3, <1>4, BeforeFinite

\* Numbers below one that is given out are given out before it.
LEMMA NumbersHaveNoGaps ==
    ASSUME NEW t \in Seq(Ids), NEW id, NEW i \in Places(t, id),
           NEW n \in Nat, n <= Number(t, id, i)
    PROVE  \E j \in Places(t, id) : Number(t, id, j) = n
<1> DEFINE T == {j \in Places(t, id) : n <= Number(t, id, j)}
<1>1. T \in SUBSET Nat /\ T # {}
  BY DEF Places
<1>2. PICK j \in T : \A l \in T : j <= l
  BY <1>1, Least
<1>3. j \in DOMAIN t /\ t[j] = id /\ j \in Nat
  BY <1>1 DEF Places
<1>4. ASSUME n < Number(t, id, j) PROVE FALSE
  <2>1. Before(t, id, j) # {}
    <3>1. SUFFICES ASSUME Before(t, id, j) = {} PROVE FALSE
      OBVIOUS
    <3>2. Number(t, id, j) = 0
      BY <3>1, FS_EmptySet DEF Number
    <3> QED BY <3>2, <1>4
  <2>2. Before(t, id, j) \in SUBSET Nat /\ \A l \in Before(t, id, j) : l <= j
    BY <1>3 DEF Before
  <2>3. PICK k \in Before(t, id, j) : \A l \in Before(t, id, j) : l <= k
    BY <2>1, <2>2, <1>3, Greatest
  <2>4. Number(t, id, j) = Number(t, id, k) + 1
    BY <1>3, <2>3, NextNumber
  <2>5. k \in Places(t, id) /\ k < j
    BY DEF Before, Places
  <2>6. k \in T
    BY <2>4, <2>5, <1>4, BeforeFinite
  <2> QED BY <2>5, <2>6, <1>2, <1>1
<1> QED BY <1>4, <1>2, BeforeFinite

-----------------------------------------------------------------------------
(* Entries *)

\* In a file an entry for a finding is an occurrence of it.
LEMMA GeneratedEntries ==
    ASSUME NEW s \in Sources
    PROVE  Generated(s) = {e \in Entries :
               /\ e[1] \in DOMAIN s /\ e[2] \in Eligible
               /\ \E j \in Places(s[e[1]], e[2]) : Number(s[e[1]], e[2], j) = e[3]}
<1> DEFINE R == {e \in Entries :
               /\ e[1] \in DOMAIN s /\ e[2] \in Eligible
               /\ \E j \in Places(s[e[1]], e[2]) : Number(s[e[1]], e[2], j) = e[3]}
<1>1. ASSUME NEW e \in Generated(s) PROVE e \in R
  <2>1. PICK i \in EligibleItems(s) : e = Fingerprint(s, i)
    BY DEF Generated
  <2>2. i \in Items(s) /\ Id(s, i) \in Eligible
    BY <2>1 DEF EligibleItems
  <2>3. i[1] \in DOMAIN s /\ i[2] \in DOMAIN s[i[1]]
    BY <2>2 DEF Items
  <2>4. e = <<i[1], Id(s, i), Number(s[i[1]], Id(s, i), i[2])>>
    BY <2>1, OccurrenceIsNumber DEF Fingerprint
  <2>5. i[2] \in Places(s[i[1]], Id(s, i))
    BY <2>3 DEF Places, Id
  <2>6. e \in Entries
    BY <2>1, <2>2, FingerprintType
  <2> QED BY <2>2, <2>3, <2>4, <2>5, <2>6
<1>2. ASSUME NEW e \in R PROVE e \in Generated(s)
  <2>1. PICK j \in Places(s[e[1]], e[2]) : Number(s[e[1]], e[2], j) = e[3]
    OBVIOUS
  <2> DEFINE i == <<e[1], j>>
  <2>2. j \in DOMAIN s[e[1]] /\ Id(s, i) = e[2]
    BY <2>1 DEF Places, Id
  <2>3. i \in {e[1]} \X DOMAIN s[e[1]]
    BY <2>2
  <2>4. i \in EligibleItems(s)
    BY <2>2, <2>3 DEF EligibleItems, Items
  <2>5. Fingerprint(s, i) = <<e[1], e[2], e[3]>>
    BY <2>1, <2>2, OccurrenceIsNumber DEF Fingerprint
  <2>6. e = <<e[1], e[2], e[3]>>
    BY DEF Entries
  <2> QED BY <2>4, <2>5, <2>6 DEF Generated
<1> QED BY <1>1, <1>2

\* Generate numbers without gaps.
LEMMA GeneratedNoGaps ==
    ASSUME NEW s \in Sources
    PROVE  NoGaps(Generated(s))
<1> SUFFICES ASSUME NEW e \in Generated(s), NEW n \in 0 .. e[3]
             PROVE  <<e[1], e[2], n>> \in Generated(s)
  BY DEF NoGaps
<1>1. e \in Entries /\ e[1] \in DOMAIN s /\ e[2] \in Eligible
  BY GeneratedEntries
<1>2. PICK j \in Places(s[e[1]], e[2]) : Number(s[e[1]], e[2], j) = e[3]
  BY GeneratedEntries
<1>3. e[1] \in Files /\ e[2] \in Ids /\ e[3] \in Nat /\ s[e[1]] \in Seq(Ids)
  BY <1>1, SourcesType DEF Entries
<1>4. n \in Nat /\ n <= Number(s[e[1]], e[2], j)
  BY <1>2, <1>3
<1>5. PICK k \in Places(s[e[1]], e[2]) : Number(s[e[1]], e[2], k) = n
  BY <1>3, <1>4, NumbersHaveNoGaps
<1> DEFINE g == <<e[1], e[2], n>>
<1>6. g \in Entries /\ g[1] = e[1] /\ g[2] = e[2] /\ g[3] = n
  BY <1>3, <1>4 DEF Entries
<1>7. \E i \in Places(s[g[1]], g[2]) : Number(s[g[1]], g[2], i) = g[3]
  BY <1>5, <1>6
<1> HIDE DEF g
<1>8. g \in Generated(s)
  BY <1>1, <1>6, <1>7, GeneratedEntries
<1> QED BY <1>8 DEF g

\* What Prune keeps has no gaps either: a smaller number that the file gives
\* out was in the baseline.
LEMMA CurrentNoGaps ==
    ASSUME NEW b, NoGaps(b), NEW s \in Sources
    PROVE  NoGaps(Current(b, s))
BY GeneratedNoGaps DEF NoGaps, Current

\* The number of entries for a finding is finite.
Countable(b) == \A f \in Files, id \in Ids : IsFiniteSet(Same(b, f, id))

LEMMA GeneratedCountable ==
    ASSUME NEW s \in Sources
    PROVE  Countable(Generated(s))
<1> SUFFICES ASSUME NEW f \in Files, NEW id \in Ids
             PROVE  IsFiniteSet(Same(Generated(s), f, id))
  BY DEF Countable
<1>1. CASE f \notin DOMAIN s
  <2>1. Same(Generated(s), f, id) = {}
    BY <1>1, GeneratedEntries DEF Same
  <2> QED BY <2>1, FS_EmptySet
<1>2. CASE f \in DOMAIN s
  <2> DEFINE t == s[f]
             g == [j \in DOMAIN t |-> <<f, id, Number(t, id, j)>>]
             G == {g[j] : j \in DOMAIN t}
  <2>1. t \in Seq(Ids)
    BY <1>2, SourcesType
  <2>2. IsFiniteSet(DOMAIN t)
    BY <2>1, FS_Interval
  <2>3. g \in Surjection(DOMAIN t, G)
    BY DEF Surjection
  <2>4. IsFiniteSet(G)
    BY <2>2, <2>3, FS_Surjection
  <2>5. ASSUME NEW e \in Same(Generated(s), f, id) PROVE e \in G
    <3>1. e \in Generated(s) /\ e[1] = f /\ e[2] = id
      BY DEF Same
    <3>2. PICK j \in Places(t, id) : Number(t, id, j) = e[3]
      BY <3>1, GeneratedEntries
    <3>3. e = <<f, id, Number(t, id, j)>>
      BY <3>1, <3>2, GeneratedEntries DEF Entries
    <3> QED BY <3>2, <3>3 DEF Places
  <2>6. Same(Generated(s), f, id) \in SUBSET G
    BY <2>5
  <2> QED BY <2>4, <2>6, FS_Subset
<1> QED BY <1>1, <1>2

LEMMA SubsetCountable ==
    ASSUME NEW b, NEW c, c \subseteq b, Countable(b)
    PROVE  Countable(c)
<1> SUFFICES ASSUME NEW f \in Files, NEW id \in Ids
             PROVE  IsFiniteSet(Same(c, f, id))
  BY DEF Countable
<1>1. Same(c, f, id) \in SUBSET Same(b, f, id)
  BY DEF Same
<1> QED BY <1>1, FS_Subset DEF Countable

-----------------------------------------------------------------------------
(* Any history keeps baselines so *)

Numbered(b) == NoGaps(b) /\ Countable(b)
CountInv ==
    /\ disk # None => Numbered(disk)
    /\ \A p \in Procs : Numbered(base[p])

LEMMA NothingNumbered == Numbered({})
<1>1. \A f, id : Same({}, f, id) = {}
  BY DEF Same
<1> QED BY <1>1, FS_EmptySet DEF Numbered, NoGaps, Countable

\* What is written is numbered.
LEMMA WrittenNumbered ==
    ASSUME IInv, CountInv, NEW p \in Procs, pc[p] = "rename"
    PROVE  Numbered(temp[p])
<1>1. seen[p] \in Sources /\ Numbered(base[p])
  BY DEF IInv, TypeOK, CountInv
<1>2. Numbered(Generated(seen[p]))
  BY <1>1, GeneratedNoGaps, GeneratedCountable DEF Numbered
<1>3. Numbered(Current(base[p], seen[p]))
  BY <1>1, CurrentNoGaps, CurrentSubset, SubsetCountable DEF Numbered
<1>4. temp[p] = Generated(seen[p]) \/ temp[p] = Current(base[p], seen[p])
  BY DEF IInv, ProcInv
<1> QED BY <1>2, <1>3, <1>4

LEMMA CountStep == IInv /\ CountInv /\ [Next]_vars => CountInv'
<1> SUFFICES ASSUME IInv, CountInv, [Next]_vars PROVE CountInv'
  OBVIOUS
<1> HIDE DEF IInv, CountInv
<1>0. base \in [Procs -> SUBSET Entries]
  BY DEF IInv, TypeOK
<1>1. ASSUME NEW f \in Files, NEW t \in Texts[f], Edit(f, t) PROVE CountInv'
  BY <1>1 DEF CountInv, Edit, local
<1>2. ASSUME NEW p \in Procs, NEW m \in Modes, NEW r \in Roots, Start(p, m, r) PROVE CountInv'
  <2>1. disk' = disk /\ base' = [base EXCEPT ![p] = {}]
    BY <1>2 DEF Start, Fresh
  <2> QED BY <1>0, <2>1, NothingNumbered DEF CountInv
<1>3. ASSUME NEW p \in Procs, Load(p) PROVE CountInv'
  <2>1. disk' = disk /\ (base' = base \/ (disk # None /\ base' = [base EXCEPT ![p] = disk]))
    BY <1>3 DEF Load
  <2> QED BY <1>0, <2>1 DEF CountInv
<1>4. ASSUME NEW p \in Procs, WriteTemp(p) PROVE CountInv'
  BY <1>4 DEF CountInv, WriteTemp
<1>5. ASSUME NEW p \in Procs, Rename(p) PROVE CountInv'
  <2>1. Numbered(temp[p])
    BY <1>5, WrittenNumbered DEF Rename
  <2>2. /\ disk' = temp[p]
        /\ base' = base \/ base' = [base EXCEPT ![p] = temp[p]]
    BY <1>0, <1>5 DEF Rename
  <2> QED BY <1>0, <2>1, <2>2 DEF CountInv
<1>6. ASSUME NEW p \in Procs, FailWrite(p) PROVE CountInv'
  BY <1>6 DEF CountInv, FailWrite
<1>7. ASSUME NEW p \in Procs, Emit(p) PROVE CountInv'
  BY <1>7 DEF CountInv, Emit
<1>8. ASSUME NEW p \in Procs, Crash(p) PROVE CountInv'
  <2>1. disk' = disk /\ base' = [base EXCEPT ![p] = {}]
    BY <1>8 DEF Crash, Fresh
  <2> QED BY <1>0, <2>1, NothingNumbered DEF CountInv
<1>9. ASSUME NEW p \in Procs, FailOutput(p) PROVE CountInv'
  BY <1>9 DEF CountInv, FailOutput
<1>10. CASE UNCHANGED vars
  BY <1>10 DEF CountInv, vars, local
<1> QED BY <1>1, <1>2, <1>3, <1>4, <1>5, <1>6, <1>7, <1>8, <1>9, <1>10 DEF Next

LEMMA CountInductive == Spec => []CountInv
<1>1. Init => CountInv
  BY NothingNumbered DEF Init, CountInv
<1>2. IInv /\ CountInv /\ [Next]_vars => CountInv'
  BY CountStep
<1> QED BY <1>1, <1>2, Inductive, PTL DEF Spec

\* The numbers of the entries for a finding run from zero without gaps,
\* whatever was generated, fixed and pruned before (fingerprintDiagnostics).
THEOREM BaselineStaysWithoutGaps == Spec => []BaselineHasNoGaps
<1>1. CountInv => BaselineHasNoGaps
  BY DEF CountInv, Numbered, BaselineHasNoGaps
<1> QED BY <1>1, CountInductive, PTL

-----------------------------------------------------------------------------
(* How many findings remain *)

LEMMA SameCount ==
    ASSUME NEW S, NEW T, IsFiniteSet(S), NEW f \in [S -> T],
           \A x, y \in S : f[x] = f[y] => x = y,
           \A t \in T : \E x \in S : f[x] = t
    PROVE  IsFiniteSet(T) /\ Cardinality(T) = Cardinality(S)
<1>1. f \in Bijection(S, T)
  BY DEF Bijection, Injection, Surjection, IsInjective
<1> QED BY <1>1, FS_Bijection DEF ExistsBijection

\* A finite set of numbers without gaps is what is below its size.
LEMMA Segment ==
    ASSUME NEW R \in SUBSET Nat, IsFiniteSet(R), \A x \in R : 0 .. x \subseteq R
    PROVE  R = 0 .. (Cardinality(R) - 1)
<1> DEFINE m == Cardinality(R)
<1>1. m \in Nat
  BY FS_CardinalityType
<1>2. IsFiniteSet(0 .. (m - 1)) /\ Cardinality(0 .. (m - 1)) = m
  <2> HIDE DEF m
  <2>1. 0 \in Int /\ m - 1 \in Int
    BY <1>1
  <2>2. Cardinality(0 .. (m - 1)) = IF 0 > m - 1 THEN 0 ELSE (m - 1) - 0 + 1
    BY <2>1, FS_Interval
  <2> QED BY <1>1, <2>1, <2>2, FS_Interval
<1>3. ASSUME NEW x \in R PROVE x \in 0 .. (m - 1)
  <2>1. 0 .. x \in SUBSET R /\ x \in Nat
    OBVIOUS
  <2>2. Cardinality(0 .. x) = x + 1
    BY <2>1, FS_Interval
  <2>3. x + 1 <= m
    BY <2>1, <2>2, FS_Subset
  <2> QED BY <1>1, <2>1, <2>3
<1>4. R \in SUBSET (0 .. (m - 1))
  BY <1>3
<1> QED BY <1>2, <1>4, FS_Subset

\* The occurrences of a finding are numbered from zero to one less than they are.
LEMMA NumbersAreSegment ==
    ASSUME NEW t \in Seq(Ids), NEW id
    PROVE  /\ IsFiniteSet(Places(t, id))
           /\ {Number(t, id, j) : j \in Places(t, id)} = 0 .. (Cardinality(Places(t, id)) - 1)
           /\ \A i, j \in Places(t, id) : Number(t, id, i) = Number(t, id, j) => i = j
<1> DEFINE P == Places(t, id)
           R == {Number(t, id, j) : j \in P}
           num == [j \in P |-> Number(t, id, j)]
<1>1. IsFiniteSet(P)
  <2>1. IsFiniteSet(DOMAIN t)
    BY FS_Interval
  <2>2. P \in SUBSET DOMAIN t
    BY DEF Places
  <2> QED BY <2>1, <2>2, FS_Subset
<1>2. \A i, j \in P : Number(t, id, i) = Number(t, id, j) => i = j
  <2> SUFFICES ASSUME NEW i \in P, NEW j \in P, i # j
               PROVE  Number(t, id, i) # Number(t, id, j)
    OBVIOUS
  <2>1. i \in Nat /\ j \in Nat
    BY DEF Places
  <2>2. CASE i < j
    BY <2>2, NumbersGrow, BeforeFinite
  <2>3. CASE j < i
    BY <2>3, NumbersGrow, BeforeFinite
  <2> QED BY <2>1, <2>2, <2>3
<1>3. IsFiniteSet(R) /\ Cardinality(R) = Cardinality(P)
  <2>1. num \in [P -> R]
    OBVIOUS
  <2>2. \A i, j \in P : num[i] = num[j] => i = j
    BY <1>2
  <2>3. \A n \in R : \E j \in P : num[j] = n
    OBVIOUS
  <2> HIDE DEF num, R, P
  <2> QED BY <1>1, <2>1, <2>2, <2>3, SameCount
<1>4. R \in SUBSET Nat
  BY BeforeFinite
<1>5. ASSUME NEW x \in R, NEW n \in 0 .. x PROVE n \in R
  <2>1. PICK i \in P : x = Number(t, id, i)
    OBVIOUS
  <2>2. n \in Nat /\ n <= Number(t, id, i)
    BY <2>1, <1>4
  <2> QED BY <2>1, <2>2, NumbersHaveNoGaps
<1>6. \A x \in R : 0 .. x \subseteq R
  BY <1>5
<1>7. R = 0 .. (Cardinality(R) - 1)
  <2> HIDE DEF R
  <2> QED BY <1>3, <1>4, <1>6, Segment
<1> QED BY <1>1, <1>2, <1>3, <1>7

\* The entries of a numbered baseline for a finding are those with the numbers
\* below how many they are.
LEMMA EntriesAreSegment ==
    ASSUME NEW b \in SUBSET Entries, Numbered(b), NEW f \in Files, NEW id \in Ids,
           NEW n \in Nat
    PROVE  <<f, id, n>> \in b <=> n < Cardinality(Same(b, f, id))
<1> DEFINE S == Same(b, f, id)
           M == {n1 \in Nat : <<f, id, n1>> \in b}
           num == [e \in S |-> e[3]]
<1>1. IsFiniteSet(S)
  BY DEF Numbered, Countable
<1>2. \A e \in S : e = <<f, id, e[3]>> /\ e[3] \in Nat /\ e \in b
  BY DEF Same, Entries
<1>3. IsFiniteSet(M) /\ Cardinality(M) = Cardinality(S)
  <2>1. num \in [S -> M]
    BY <1>2
  <2>2. \A d, e \in S : num[d] = num[e] => d = e
    BY <1>2
  <2>3. ASSUME NEW k \in M PROVE \E e \in S : num[e] = k
    <3>1. <<f, id, k>> \in S
      BY DEF Same
    <3> QED BY <3>1
  <2> HIDE DEF num, M, S
  <2> QED BY <1>1, <2>1, <2>2, <2>3, SameCount
<1>4. \A x \in M : 0 .. x \subseteq M
  BY DEF Numbered, NoGaps
<1>5. M = 0 .. (Cardinality(M) - 1)
  <2>1. M \in SUBSET Nat
    OBVIOUS
  <2> HIDE DEF M
  <2> QED BY <1>3, <1>4, <2>1, Segment
<1>6. Cardinality(S) \in Nat
  BY <1>1, FS_CardinalityType
<1> QED BY <1>3, <1>5, <1>6

\* Of n occurrences, those with the first k numbers are hidden.
LEMMA RemainingCount ==
    ASSUME NEW s \in Sources, NEW b \in SUBSET Entries, Numbered(b),
           NEW f \in DOMAIN s, NEW id \in Eligible
    PROVE  LET n == Cardinality({k \in DOMAIN s[f] : s[f][k] = id})
               k == Cardinality(Same(b, f, id))
               r == {i \in Remaining(b, s) : i[1] = f /\ Id(s, i) = id}
           IN  Cardinality(r) = IF n > k THEN n - k ELSE 0
<1> DEFINE t == s[f]
           P == Places(t, id)
           n == Cardinality(P)
           k == Cardinality(Same(b, f, id))
           r == {i \in Remaining(b, s) : i[1] = f /\ Id(s, i) = id}
           L == {j \in P : k <= Number(t, id, j)}
           num == [j \in L |-> Number(t, id, j)]
           item == [j \in L |-> <<f, j>>]
<1>1. f \in Files /\ t \in Seq(Ids) /\ id \in Ids
  BY SourcesType, ReportAssumption
<1>2. IsFiniteSet(P) /\ n \in Nat
  BY <1>1, NumbersAreSegment, FS_CardinalityType
<1>3. k \in Nat
  BY <1>1, FS_CardinalityType DEF Numbered, Countable
<1>4. IsFiniteSet(L)
  BY <1>2, FS_Subset
<1>5. \A j \in P : Number(t, id, j) \in Nat
  BY <1>1, BeforeFinite
<1>6. IsFiniteSet(k .. (n - 1)) /\ Cardinality(k .. (n - 1)) = Cardinality(L)
  <2>1. {Number(t, id, j) : j \in P} = 0 .. (n - 1)
    BY <1>1, NumbersAreSegment
  <2>2. num \in [L -> k .. (n - 1)]
    <3>1. ASSUME NEW j \in L PROVE Number(t, id, j) \in k .. (n - 1)
      <4>1. Number(t, id, j) \in 0 .. (n - 1) /\ k <= Number(t, id, j)
        BY <2>1
      <4> QED BY <4>1, <1>2, <1>3
    <3> QED BY <3>1
  <2>3. \A i, j \in L : num[i] = num[j] => i = j
    BY <1>1, NumbersAreSegment
  <2>4. ASSUME NEW x \in k .. (n - 1) PROVE \E j \in L : num[j] = x
    <3>1. x \in 0 .. (n - 1) /\ k <= x
      BY <1>2, <1>3
    <3>2. PICK j \in P : Number(t, id, j) = x
      BY <2>1, <3>1
    <3> QED BY <3>1, <3>2
  <2> HIDE DEF num, L, n, k
  <2> QED BY <1>4, <2>2, <2>3, <2>4, SameCount
<1>7. Cardinality(r) = Cardinality(L)
  <2>1. ASSUME NEW j \in L PROVE <<f, j>> \in r
    <3> DEFINE i == <<f, j>>
    <3>1. j \in DOMAIN t /\ t[j] = id
      BY DEF Places
    <3>2. i \in Items(s) /\ Id(s, i) = id
      <4>1. i \in {f} \X DOMAIN s[f]
        BY <3>1
      <4> QED BY <3>1, <4>1 DEF Items, Id
    <3>3. Fingerprint(s, i) = <<f, id, Number(t, id, j)>>
      BY <3>2, OccurrenceIsNumber DEF Fingerprint
    <3>4. Fingerprint(s, i) \notin b
      BY <1>1, <1>3, <1>5, <3>3, EntriesAreSegment
    <3> QED BY <3>2, <3>4 DEF Remaining
  <2>2. item \in [L -> r]
    BY <2>1
  <2>3. \A i, j \in L : item[i] = item[j] => i = j
    OBVIOUS
  <2>4. ASSUME NEW i \in r PROVE \E j \in L : item[j] = i
    <3>1. i \in Items(s) /\ i[1] = f /\ Id(s, i) = id /\ Fingerprint(s, i) \notin b
      BY DEF Remaining
    <3>2. i = <<f, i[2]>> /\ i[2] \in P
      BY <3>1 DEF Items, Id, Places
    <3>3. Fingerprint(s, i) = <<f, id, Number(t, id, i[2])>>
      BY <3>1, OccurrenceIsNumber DEF Fingerprint
    <3>4. ~ (Number(t, id, i[2]) < k)
      BY <1>1, <1>5, <3>1, <3>2, <3>3, EntriesAreSegment
    <3>5. i[2] \in L
      BY <1>3, <1>5, <3>2, <3>4
    <3> QED BY <3>2, <3>5
  <2> HIDE DEF item, r, L
  <2> QED BY <1>4, <2>2, <2>3, <2>4, SameCount
<1>8. Cardinality(k .. (n - 1)) = IF n > k THEN n - k ELSE 0
  <2> HIDE DEF n, k
  <2>1. k \in Int /\ n - 1 \in Int
    BY <1>2, <1>3
  <2>2. Cardinality(k .. (n - 1)) = IF k > n - 1 THEN 0 ELSE (n - 1) - k + 1
    BY <2>1, FS_Interval
  <2> QED BY <2>2, <1>2, <1>3
<1> QED BY <1>6, <1>7, <1>8 DEF Places

\* docs/configuration.md: a baseline with k entries for a finding hides k of its
\* occurrences and no more, whatever was fixed, added and pruned since.
THEOREM NewFindingsAlwaysRemain == Spec => []NewFindingsRemain
<1>1. IInv /\ CountInv => NewFindingsRemain
  <2> SUFFICES ASSUME IInv, CountInv, NEW p \in Procs,
                      NEW f \in DOMAIN seen[p], NEW id \in Eligible
               PROVE  LET n == Cardinality({k \in DOMAIN seen[p][f] : seen[p][f][k] = id})
                          k == Cardinality(Same(base[p], f, id))
                          r == {i \in Remaining(base[p], seen[p]) :
                                   i[1] = f /\ Id(seen[p], i) = id}
                      IN  Cardinality(r) = IF n > k THEN n - k ELSE 0
    BY DEF NewFindingsRemain
  <2>1. seen[p] \in Sources /\ base[p] \in SUBSET Entries /\ Numbered(base[p])
    BY DEF IInv, TypeOK, CountInv
  <2> HIDE DEF IInv, CountInv
  <2> QED BY <2>1, RemainingCount
<1> QED BY <1>1, Inductive, CountInductive, PTL

-----------------------------------------------------------------------------
(* What is cut off *)

\* The findings of a set that come before one, and how many there are.
Ahead(S, i) == {j \in S : Precedes(j, i)}
Rank(S, i) == Cardinality(Ahead(S, i))

LEMMA PrecedesIsOrder ==
    ASSUME NEW i \in Nat \X Nat, NEW j \in Nat \X Nat
    PROVE  /\ ~Precedes(i, i)
           /\ i # j => Precedes(i, j) \/ Precedes(j, i)
           /\ \A k \in Nat \X Nat : Precedes(i, j) /\ Precedes(j, k) => Precedes(i, k)
<1>1. /\ i = <<i[1], i[2]>> /\ i[1] \in Nat /\ i[2] \in Nat
      /\ j = <<j[1], j[2]>> /\ j[1] \in Nat /\ j[2] \in Nat
  OBVIOUS
<1>2. \A k \in Nat \X Nat : k[1] \in Nat /\ k[2] \in Nat
  OBVIOUS
<1>3. i # j => i[1] # j[1] \/ i[2] # j[2]
  BY <1>1
<1> HIDE <1>1
<1>4. i[1] \in Nat /\ i[2] \in Nat /\ j[1] \in Nat /\ j[2] \in Nat
  BY <1>1
<1> QED BY <1>2, <1>3, <1>4 DEF Precedes

LEMMA RankIsNumber ==
    ASSUME NEW S \in SUBSET (Nat \X Nat), IsFiniteSet(S), NEW i
    PROVE  IsFiniteSet(Ahead(S, i)) /\ Rank(S, i) \in Nat
<1>1. IsFiniteSet(Ahead(S, i))
  BY FS_Subset DEF Ahead
<1> QED BY <1>1, FS_CardinalityType DEF Rank

LEMMA RanksGrow ==
    ASSUME NEW S \in SUBSET (Nat \X Nat), IsFiniteSet(S),
           NEW i \in S, NEW j \in S, Precedes(i, j)
    PROVE  Rank(S, i) < Rank(S, j)
<1>1. Ahead(S, i) \in SUBSET Ahead(S, j)
  BY PrecedesIsOrder DEF Ahead
<1>2. i \in Ahead(S, j) /\ i \notin Ahead(S, i)
  BY PrecedesIsOrder DEF Ahead
<1>3. Rank(S, i) <= Rank(S, j) /\ Rank(S, i) # Rank(S, j)
  BY <1>1, <1>2, RankIsNumber, FS_Subset DEF Rank
<1> QED BY <1>3, RankIsNumber

\* The last of those ahead comes right before.
LEMMA NextRank ==
    ASSUME NEW S \in SUBSET (Nat \X Nat), IsFiniteSet(S), NEW i \in S, Rank(S, i) # 0
    PROVE  \E j \in S : Rank(S, i) = Rank(S, j) + 1
<1> DEFINE D == {Rank(S, j) : j \in Ahead(S, i)}
<1>1. Ahead(S, i) # {}
  BY FS_EmptySet DEF Rank
<1>2. D \in SUBSET Nat /\ D # {}
  BY <1>1, RankIsNumber
<1>3. \A r \in D : r <= Rank(S, i)
  <2>1. \A j \in Ahead(S, i) : j \in S /\ Precedes(j, i)
    BY DEF Ahead
  <2>2. \A j \in Ahead(S, i) : Rank(S, j) < Rank(S, i)
    BY <2>1, RanksGrow
  <2> QED BY <2>2, RankIsNumber
<1>4. PICK y \in D : \A r \in D : r <= y
  <2> HIDE DEF D
  <2> QED BY <1>2, <1>3, RankIsNumber, Greatest
<1>5. PICK j \in Ahead(S, i) : y = Rank(S, j)
  BY <1>4
<1>6. j \in S /\ Precedes(j, i)
  BY <1>5 DEF Ahead
<1>7. Ahead(S, i) = Ahead(S, j) \cup {j} /\ j \notin Ahead(S, j)
  <2>1. ASSUME NEW k \in Ahead(S, i) PROVE k \in Ahead(S, j) \cup {j}
    <3>1. k \in S /\ ~Precedes(j, k)
      <4>1. k \in S
        BY DEF Ahead
      <4>2. Rank(S, k) <= Rank(S, j)
        BY <1>4, <1>5
      <4> QED BY <1>6, <4>1, <4>2, RanksGrow, RankIsNumber
    <3>2. k = j \/ Precedes(k, j)
      BY <1>6, <3>1, PrecedesIsOrder
    <3> QED BY <3>1, <3>2 DEF Ahead
  <2>2. Ahead(S, j) \subseteq Ahead(S, i)
    BY <1>6, PrecedesIsOrder DEF Ahead
  <2>3. j \notin Ahead(S, j)
    BY <1>6, PrecedesIsOrder DEF Ahead
  <2> QED BY <1>5, <2>1, <2>2, <2>3
<1>8. Rank(S, i) = Rank(S, j) + 1
  BY <1>7, RankIsNumber, FS_AddElement DEF Rank
<1> QED BY <1>6, <1>8

LEMMA RanksHaveNoGaps ==
    ASSUME NEW S \in SUBSET (Nat \X Nat), IsFiniteSet(S), NEW i \in S,
           NEW n \in 0 .. Rank(S, i)
    PROVE  \E j \in S : Rank(S, j) = n
<1> DEFINE T == {r \in {Rank(S, j) : j \in S} : n <= r}
<1>1. T \in SUBSET Nat /\ T # {}
  BY RankIsNumber
<1>2. PICK x \in T : \A r \in T : x <= r
  <2> HIDE DEF T
  <2> QED BY <1>1, Least
<1>3. PICK j \in S : x = Rank(S, j)
  BY <1>2
<1>4. ASSUME x # n PROVE FALSE
  <2>1. x \in Nat /\ x > n /\ n \in Nat
    BY <1>1, <1>2, <1>4, RankIsNumber
  <2>2. PICK k \in S : Rank(S, j) = Rank(S, k) + 1
    BY <1>3, <2>1, NextRank
  <2>3. Rank(S, k) \in T
    BY <1>3, <2>1, <2>2, RankIsNumber
  <2> QED BY <1>2, <1>3, <2>2, <2>3, RankIsNumber
<1> QED BY <1>3, <1>4

\* Cut takes as many as the limit says, or all.
LEMMA CutIsFull ==
    ASSUME NEW S \in SUBSET (Nat \X Nat), IsFiniteSet(S), Cut(S) # S
    PROVE  Cardinality(Cut(S)) = Limit
<1>1. Limit \in Nat /\ Cut(S) = {i \in S : Rank(S, i) < Limit}
  <2>1. Limit \in Nat
    BY ReportAssumption
  <2> QED BY <2>1 DEF Cut, Rank, Ahead
<1>2. PICK i \in S : Limit <= Rank(S, i)
  BY <1>1, RankIsNumber
<1> DEFINE C == Cut(S)
           number == [j \in C |-> Rank(S, j)]
<1>3. IsFiniteSet(C)
  BY <1>1, FS_Subset
<1>4. number \in [C -> 0 .. (Limit - 1)]
  BY <1>1, RankIsNumber
<1>5. \A j, k \in C : number[j] = number[k] => j = k
  <2> SUFFICES ASSUME NEW j \in S, NEW k \in S, Rank(S, j) = Rank(S, k), j # k PROVE FALSE
    BY <1>1
  <2>1. Precedes(j, k) \/ Precedes(k, j)
    BY PrecedesIsOrder
  <2>2. Rank(S, j) < Rank(S, k) \/ Rank(S, k) < Rank(S, j)
    BY <2>1, RanksGrow
  <2> QED BY <2>2, RankIsNumber
<1>6. \A n \in 0 .. (Limit - 1) : \E j \in C : number[j] = n
  <2> SUFFICES ASSUME NEW n \in 0 .. (Limit - 1) PROVE \E j \in C : number[j] = n
    OBVIOUS
  <2>1. n \in 0 .. Rank(S, i) /\ n < Limit
    BY <1>1, <1>2, RankIsNumber
  <2>2. PICK j \in S : Rank(S, j) = n
    BY <2>1, RanksHaveNoGaps
  <2> QED BY <1>1, <2>1, <2>2
<1>7. Cardinality(0 .. (Limit - 1)) = Cardinality(C)
  <2> HIDE DEF number, C
  <2> QED BY <1>3, <1>4, <1>5, <1>6, SameCount
<1> QED BY <1>1, <1>7, FS_Interval

LEMMA RemainingFinite ==
    ASSUME NEW s \in Sources, NEW b
    PROVE  Remaining(b, s) \in SUBSET (Nat \X Nat) /\ IsFiniteSet(Remaining(b, s))
<1>1. \A f \in DOMAIN s : f \in Files /\ s[f] \in Seq(Ids)
  BY ReportAssumption, SourcesType
<1>2. ASSUME NEW f \in DOMAIN s
      PROVE  f \in Nat /\ DOMAIN s[f] = 1 .. Len(s[f]) /\ Len(s[f]) \in Nat
  <2>1. f \in Files /\ s[f] \in Seq(Ids)
    BY <1>1
  <2> QED BY <2>1, ReportAssumption
<1>3. Items(s) \in SUBSET (Nat \X Nat)
  BY <1>2 DEF Items
<1> DEFINE Parts == {{f} \X DOMAIN s[f] : f \in DOMAIN s}
<1>4. IsFiniteSet(DOMAIN s)
  BY <1>1, ReportAssumption, FS_Subset
<1>5. IsFiniteSet(Parts)
  <2> DEFINE part == [f \in DOMAIN s |-> {f} \X DOMAIN s[f]]
  <2>1. Parts = {part[f] : f \in DOMAIN s}
    OBVIOUS
  <2> HIDE DEF part, Parts
  <2>2. part \in Surjection(DOMAIN s, Parts)
    BY <2>1 DEF Surjection, part
  <2> QED BY <1>4, <2>2, FS_Surjection
<1>6. \A P \in Parts : IsFiniteSet(P)
  <2> SUFFICES ASSUME NEW f \in DOMAIN s PROVE IsFiniteSet({f} \X DOMAIN s[f])
    OBVIOUS
  <2>1. IsFiniteSet(DOMAIN s[f])
    BY <1>2, FS_Interval
  <2> QED BY <2>1, FS_Singleton, FS_Product
<1>7. IsFiniteSet(Items(s))
  BY <1>5, <1>6, FS_UNION DEF Items
<1>8. Remaining(b, s) \in SUBSET Items(s)
  BY DEF Remaining
<1> QED BY <1>3, <1>7, <1>8, FS_Subset

\* A process that has printed what it found has printed the first of what remained.
ShownInv ==
    \A p \in Procs : exit[p] \in {"ok", "findings"} => shown[p] = Cut(Remaining(base[p], seen[p]))

LEMMA ShownStep == IInv /\ ShownInv /\ [Next]_vars => ShownInv'
<1> SUFFICES ASSUME IInv, ShownInv, [Next]_vars PROVE ShownInv'
  OBVIOUS
<1> HIDE DEF IInv, ShownInv
<1> USE ReportAssumption
<1>0. \A p \in Procs : exit[p] # None => pc[p] = "done"
  BY DEF IInv, TypeOK, ProcInv
\* A step of a process that ends without printing, or does not end.
<1>1. ASSUME NEW p \in Procs,
             \A q \in Procs : q # p => /\ exit'[q] = exit[q] /\ shown'[q] = shown[q]
                                      /\ base'[q] = base[q] /\ seen'[q] = seen[q],
             exit'[p] \notin {"ok", "findings"}
      PROVE  ShownInv'
  BY <1>1 DEF ShownInv
<1>2. ASSUME NEW f \in Files, NEW t \in Texts[f], Edit(f, t) PROVE ShownInv'
  BY <1>2 DEF ShownInv, Edit, local
<1> DEFINE typed == /\ exit \in [Procs -> {None, "ok", "findings", "usage", "internal"}]
                    /\ shown \in [Procs -> SUBSET (Files \X Nat)]
                    /\ base \in [Procs -> SUBSET Entries] /\ seen \in [Procs -> Sources]
<1>3. typed
  BY DEF IInv, TypeOK
<1>4. ASSUME NEW p \in Procs, NEW m \in Modes, NEW r \in Roots, Start(p, m, r) PROVE ShownInv'
  <2>1. exit'[p] = None
    BY <1>3, <1>4 DEF Start, Fresh
  <2> QED BY <1>1, <1>3, <1>4, <2>1 DEF Start, Fresh
<1>5. ASSUME NEW p \in Procs, Load(p) PROVE ShownInv'
  <2>1. exit[p] = None
    BY <1>0, <1>5 DEF Load
  <2> QED BY <1>1, <1>3, <1>5, <2>1 DEF Load, Exit
<1>6. ASSUME NEW p \in Procs, WriteTemp(p) PROVE ShownInv'
  BY <1>6 DEF ShownInv, WriteTemp
<1>7. ASSUME NEW p \in Procs, Rename(p) PROVE ShownInv'
  <2>1. exit[p] = None
    BY <1>0, <1>7 DEF Rename
  <2> QED BY <1>1, <1>3, <1>7, <2>1 DEF Rename
<1>8. ASSUME NEW p \in Procs, FailWrite(p) \/ FailOutput(p) PROVE ShownInv'
  <2>1. exit'[p] = "internal"
    BY <1>3, <1>8 DEF FailWrite, FailOutput, Exit
  <2> QED BY <1>1, <1>3, <1>8, <2>1 DEF FailWrite, FailOutput, Exit
<1>9. ASSUME NEW p \in Procs, Emit(p) PROVE ShownInv'
  <2>1. /\ shown' = [shown EXCEPT ![p] = Cut(Remaining(base[p], seen[p]))]
        /\ base' = base /\ seen' = seen
        /\ \A q \in Procs : q # p => exit'[q] = exit[q]
    BY <1>3, <1>9 DEF Emit, Exit
  <2>2. \A q \in Procs : q # p => shown'[q] = shown[q]
    BY <1>3, <2>1
  <2>3. shown'[p] = Cut(Remaining(base[p], seen[p]))
    BY <1>3, <2>1
  <2> QED BY <2>1, <2>2, <2>3 DEF ShownInv
<1>10. ASSUME NEW p \in Procs, Crash(p) PROVE ShownInv'
  <2>1. exit'[p] = None
    BY <1>3, <1>10 DEF Crash, Fresh
  <2> QED BY <1>1, <1>3, <1>10, <2>1 DEF Crash, Fresh
<1>11. CASE UNCHANGED vars
  BY <1>11 DEF ShownInv, vars, local
<1> QED BY <1>2, <1>4, <1>5, <1>6, <1>7, <1>8, <1>9, <1>10, <1>11 DEF Next

-----------------------------------------------------------------------------
\* emit (internal/cli/output.go): the exit code tells of all the findings that remain,
\* and what is printed is all of them, or the first as many as the limit allows.
THEOREM ExitsTellAll == Spec => []ExitTellsAll
<1>1. Init => ShownInv
  BY ReportAssumption DEF Init, ShownInv
<1>2. IInv /\ ShownInv => ExitTellsAll
  <2> SUFFICES ASSUME IInv, ShownInv, NEW p \in Procs, exit[p] \in {"ok", "findings"}
               PROVE  LET rest == Remaining(base[p], seen[p])
                      IN  /\ exit[p] = "ok" <=> ~Fails(seen[p], rest)
                          /\ shown[p] \subseteq rest
                          /\ shown[p] # rest => Cardinality(shown[p]) = Limit
    BY DEF ExitTellsAll
  <2> DEFINE rest == Remaining(base[p], seen[p])
  <2>1. exit[p] = "ok" <=> ~Fails(seen[p], rest)
    BY DEF IInv, ProcInv
  <2>2. shown[p] = Cut(rest)
    BY DEF ShownInv
  <2>3. Cut(rest) \subseteq rest
    BY DEF Cut
  <2>4. seen[p] \in Sources
    BY DEF IInv, TypeOK
  <2>5. rest \in SUBSET (Nat \X Nat) /\ IsFiniteSet(rest)
    BY <2>4, RemainingFinite
  <2>6. Cut(rest) # rest => Cardinality(Cut(rest)) = Limit
    <3> HIDE DEF rest
    <3> QED BY <2>5, CutIsFull
  <2> QED BY <2>1, <2>2, <2>3, <2>6
<1>3. IInv /\ ShownInv /\ [Next]_vars => ShownInv'
  BY ShownStep
<1> QED BY <1>1, <1>2, <1>3, Inductive, PTL DEF Spec
=============================================================================
