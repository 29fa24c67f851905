--------------------------- MODULE LintRun_proofs ---------------------------
(***************************************************************************)
(* Proofs about LintRun, for any number of files, rules and goroutines.    *)
(*                                                                         *)
(* The invariant has one part per goroutine, FileInv: what it has in its   *)
(* result is what the rules that ran so far left there.  The rest ties the *)
(* slots to the results and the joined findings to the slots.              *)
(***************************************************************************)
EXTENDS LintRun, TLAPS

Starting == {"waiting", "parsed", "walk", "semantic"}
Looking == {"once", "build", "lookup", "reading", "writing"}

\* The rules that ran on a file.
Ran(f) == IF pc[f] \in {"report", "done"} THEN RuleSet ELSE 1 .. (rule[f] - 1)

\* Where a goroutine is tells which rule runs and which file it looks at.
Stage(f) ==
    /\ pc[f] \in Starting => rule[f] = 1
    /\ pc[f] \in Looking => target[f] # None
    /\ access[f] # "idle" => pc[f] \in {"reading", "writing"}
    /\ pc[f] \in {"reading", "writing"} => Kind[rule[f]] # "syntax"

\* A local rule looks at its own file.
Own(f) ==
    Kind[rule[f]] = "local" => todo[f] \subseteq {f} /\ target[f] \in {f, None}

\* The rules that ran left findings or an internal error.
Account(f) ==
    /\ result[f].failed = {r \in Ran(f) : <<f, r>> \in panics}
    /\ \A r \in result[f].found : r \in Ran(f) /\ <<f, r>> \notin panics

\* With one tree none of the findings is lost.
Complete(f) ==
    Batch \subseteq Provided =>
        /\ pc[f] \notin {"waiting", "parsed"} => tree[f].parsed = "shared"
        /\ pc[f] \notin {"waiting", "parsed", "walk"} => tree[f].walk = "shared"
        /\ pc[f] \notin Starting => tree[f].semantic = "shared"
        /\ \A r \in Ran(f) : <<f, r>> \notin panics => r \in result[f].found

Slot(f) == perFile[f] = IF pc[f] = "done" THEN result[f] ELSE None

FileInv(f) == Stage(f) /\ Own(f) /\ Account(f) /\ Complete(f) /\ Slot(f)

Order == \A f \in Batch : pc[f] = "waiting" <=> f > submitted

Filled == \A g \in Provided : level[g] = 3

Joined == out # None => out = perFile /\ \A f \in Batch : pc[f] = "done"

IInv ==
    /\ TypeOK
    /\ \A f \in Batch : FileInv(f)
    /\ Order /\ Filled /\ Joined

-----------------------------------------------------------------------------
(* The initial states *)

LEMMA InitInv == Init => IInv
<1> SUFFICES ASSUME Init PROVE IInv
  OBVIOUS
<1> USE LintRunAssumption
<1>1. TypeOK
  <2>1. [parsed |-> "own", walk |-> "own", semantic |-> "own", index |-> "own"] \in Trees
    BY DEF Trees
  <2>2. [found |-> {}, failed |-> {}] \in Findings
    BY DEF Findings
  <2>3. 1 \in RuleSet /\ 0 \in 0 .. Size
    BY DEF RuleSet
  <2>4. level \in [All -> 0 .. 3]
    BY DEF Init
  <2> QED
    BY <2>1, <2>2, <2>3, <2>4 DEF Init, TypeOK
<1>2. ASSUME NEW f \in Batch PROVE FileInv(f)
  <2>1. pc[f] = "waiting" /\ rule[f] = 1 /\ target[f] = None /\ access[f] = "idle"
        /\ todo[f] = {} /\ perFile[f] = None
    BY DEF Init
  <2>2. result[f].found = {} /\ result[f].failed = {}
    BY DEF Init
  <2>3. Ran(f) = {}
    BY <2>1 DEF Ran
  <2> QED
    BY <2>1, <2>2, <2>3 DEF FileInv, Stage, Own, Account, Complete, Slot, Starting, Looking
<1>3. Order /\ Filled /\ Joined
  BY DEF Init, Order, Filled, Joined, Batch, All
<1> QED
  BY <1>1, <1>2, <1>3 DEF IInv

-----------------------------------------------------------------------------
(* Steps keep the types *)

\* A field of what lintFile took is set.
LEMMA TreeFields ==
  ASSUME NEW t \in Trees, NEW x \in {"shared", "own"}, NEW y \in {"shared", "own"}
  PROVE  /\ [t EXCEPT !.parsed = x] \in Trees
         /\ [t EXCEPT !.walk = x, !.index = y] \in Trees
         /\ [t EXCEPT !.semantic = x] \in Trees
         /\ t.parsed \in {"shared", "own"} /\ t.walk \in {"shared", "own"}
<1>1. [t EXCEPT !.parsed = x] \in Trees
  BY DEF Trees
<1>2. [t EXCEPT !.walk = x, !.index = y] \in Trees
  BY DEF Trees
<1>3. [t EXCEPT !.semantic = x] \in Trees
  BY DEF Trees
<1> QED
  BY <1>1, <1>2, <1>3 DEF Trees

LEMMA TypeStep ==
  ASSUME TypeOK, \A f \in Batch : FileInv(f), [Next]_vars
  PROVE  TypeOK'
<1> USE LintRunAssumption DEF TypeOK, shared, work
<1>1. ASSUME NEW f \in Batch, Submit(f) PROVE TypeOK'
  BY <1>1 DEF Submit, Batch
<1>2. ASSUME NEW f \in Batch, ReadParsed(f) PROVE TypeOK'
  <2>1. \A x \in {"shared", "own"} : [tree[f] EXCEPT !.parsed = x] \in Trees
    BY TreeFields
  <2>2. tree' \in [Batch -> Trees]
    BY <1>2, <2>1 DEF ReadParsed
  <2> QED
    BY <1>2, <2>2 DEF ReadParsed
<1>3. ASSUME NEW f \in Batch, ReadWalk(f) PROVE TypeOK'
  <2>1. \A x, y \in {"shared", "own"} : [tree[f] EXCEPT !.walk = x, !.index = y] \in Trees
    BY TreeFields
  <2>2. tree[f].parsed \in {"shared", "own"}
    BY TreeFields
  <2>3. tree' \in [Batch -> Trees]
    BY <1>3, <2>1, <2>2 DEF ReadWalk
  <2> QED
    BY <1>3, <2>3 DEF ReadWalk
<1>4. ASSUME NEW f \in Batch, ReadSemantic(f) PROVE TypeOK'
  <2>1. Looks(f, 1) \subseteq All
    BY DEF Looks, All
  <2>2. \A x \in {"shared", "own"} : [tree[f] EXCEPT !.semantic = x] \in Trees
    BY TreeFields
  <2>3. tree[f].walk \in {"shared", "own"}
    BY TreeFields
  <2>4. tree' \in [Batch -> Trees]
    BY <1>4, <2>2, <2>3 DEF ReadSemantic
  <2> QED
    BY <1>4, <2>1, <2>4 DEF ReadSemantic
<1>5. ASSUME NEW f \in Batch, NEW g \in All, Look(f, g) PROVE TypeOK'
  BY <1>5 DEF Look
<1>6. ASSUME NEW f \in Batch, EnterOnce(f) PROVE TypeOK'
  BY <1>6 DEF EnterOnce
<1>7. ASSUME NEW f \in Batch, Build(f) PROVE TypeOK'
  <2>1. target[f] \in All
    BY <1>7 DEF Build, FileInv, Stage, Looking
  <2>2. level[target[f]] < 3 => level[target[f]] + 1 \in 0 .. 3
    BY <2>1
  <2> QED
    BY <1>7, <2>1, <2>2 DEF Build
<1>8. ASSUME NEW f \in Batch, Lookup(f) PROVE TypeOK'
  BY <1>8 DEF Lookup, Looked
<1>9. ASSUME NEW f \in Batch, Found(f) PROVE TypeOK'
  BY <1>9 DEF Found, Looked
<1>10. ASSUME NEW f \in Batch, NotFound(f) PROVE TypeOK'
  BY <1>10 DEF NotFound
<1>11. ASSUME NEW f \in Batch, Store(f) PROVE TypeOK'
  BY <1>11 DEF Store, Looked
<1>12. ASSUME NEW f \in Batch, NEW findings \in Findings, NextRule(f, findings)
       PROVE  /\ result' \in [Batch -> Findings]
              /\ target' \in [Batch -> All \cup {None}]
              /\ rule' \in [Batch -> RuleSet]
              /\ todo' \in [Batch -> SUBSET All]
              /\ pc' = pc \/ pc' = [pc EXCEPT ![f] = "report"]
  <2>1. rule[f] < Rules => rule[f] + 1 \in RuleSet
    BY DEF RuleSet
  <2>2. Looks(f, rule[f] + 1) \subseteq All
    BY DEF Looks, All
  <2> QED
    BY <1>12, <2>1, <2>2 DEF NextRule
<1>13. ASSUME NEW f \in Batch, Return(f) PROVE TypeOK'
  <2>1. result[f] \in Findings /\ [result[f] EXCEPT !.found = @ \cup {rule[f]}] \in Findings
    BY DEF Findings
  <2>2. PICK findings \in Findings : NextRule(f, findings)
    BY <1>13, <2>1 DEF Return
  <2>3. UNCHANGED <<panics, submitted, shared, tree, perFile, out, dead>>
    BY <1>13 DEF Return
  <2> QED
    BY <1>12, <2>2, <2>3
<1>14. ASSUME NEW f \in Batch, Panic(f) PROVE TypeOK'
  <2>1. [result[f] EXCEPT !.failed = @ \cup {rule[f]}] \in Findings
    BY DEF Findings
  <2>2. PICK findings \in Findings : NextRule(f, findings)
    BY <1>14, <2>1 DEF Panic
  <2>3. UNCHANGED <<panics, submitted, shared, tree, perFile, out, dead>>
    BY <1>14 DEF Panic
  <2> QED
    BY <1>12, <2>2, <2>3
<1>15. ASSUME NEW f \in Batch, Report(f) PROVE TypeOK'
  BY <1>15 DEF Report
<1>16. CASE Collect
  BY <1>16 DEF Collect
<1>17. CASE Throw
  BY <1>17 DEF Throw
<1>18. CASE UNCHANGED vars
  BY <1>18 DEF vars
<1> QED
  BY <1>1, <1>2, <1>3, <1>4, <1>5, <1>6, <1>7, <1>8, <1>9, <1>10, <1>11, <1>13, <1>14, <1>15,
     <1>16, <1>17, <1>18 DEF Next, Step

-----------------------------------------------------------------------------
(* Steps keep the invariant of their own file *)

LEMMA OwnStep ==
  ASSUME TypeOK, Order, Filled, NEW f \in Batch, FileInv(f), Submit(f) \/ Step(f)
  PROVE  FileInv(f)'
<1> USE LintRunAssumption DEF TypeOK, shared, work, FileInv
<1>1. ASSUME Batch \subseteq Provided PROVE level[f] = 3
  BY <1>1 DEF Filled
<1>2. CASE Submit(f)
  <2>1. Submit(f) /\ pc'[f] = "parsed" /\ pc[f] = "waiting"
    BY <1>2 DEF Submit, Order, Batch
  <2>3. Ran(f)' = Ran(f)
    BY <2>1 DEF Submit, Ran
  <2> QED
    BY <2>1, <2>3 DEF Submit, Stage, Own, Account, Complete, Slot, Starting, Looking
<1>3. CASE ReadParsed(f)
  <2>1. tree'[f].parsed = IF level[f] >= 1 THEN "shared" ELSE "own"
    BY <1>3 DEF ReadParsed, Trees
  <2> QED
    BY <1>1, <1>3, <2>1 DEF ReadParsed, Stage, Own, Account, Complete, Slot, Ran, Starting, Looking
<1>4. CASE ReadWalk(f)
  <2>1. /\ tree'[f].parsed = tree[f].parsed
        /\ tree'[f].walk = IF level[f] >= 2 THEN "shared" ELSE tree[f].parsed
    BY <1>4 DEF ReadWalk, Trees
  <2> QED
    BY <1>1, <1>4, <2>1 DEF ReadWalk, Stage, Own, Account, Complete, Slot, Ran, Starting, Looking
<1>5. CASE ReadSemantic(f)
  <2>1. /\ tree'[f].parsed = tree[f].parsed
        /\ tree'[f].walk = tree[f].walk
        /\ tree'[f].semantic = IF level[f] >= 3 THEN "shared" ELSE tree[f].walk
    BY <1>5 DEF ReadSemantic, Trees
  <2>2. Own(f)'
    BY <1>5 DEF ReadSemantic, Own, Stage, Starting, Looks
  <2> QED
    BY <1>1, <1>5, <2>1, <2>2
    DEF ReadSemantic, Stage, Account, Complete, Slot, Ran, Starting, Looking
<1>6. ASSUME NEW g \in All, Look(f, g) PROVE FileInv(f)'
  BY <1>6 DEF Look, Stage, Own, Account, Complete, Slot, Ran, Starting, Looking
<1>7. CASE EnterOnce(f)
  BY <1>7 DEF EnterOnce, Stage, Own, Account, Complete, Slot, Ran, Starting, Looking
<1>8. CASE Build(f)
  BY <1>8 DEF Build, Stage, Own, Account, Complete, Slot, Ran, Starting, Looking
<1>9. CASE Lookup(f)
  BY <1>9 DEF Lookup, Looked, Stage, Own, Account, Complete, Slot, Ran, Starting, Looking
<1>10. CASE Found(f)
  BY <1>10 DEF Found, Looked, Stage, Own, Account, Complete, Slot, Ran, Starting, Looking
<1>11. CASE NotFound(f)
  <2>1. /\ pc[f] = "reading" /\ pc'[f] = "writing"
        /\ UNCHANGED <<panics, submitted, level, once, cached, work, perFile, out, dead>>
    BY <1>11 DEF NotFound
  <2>2. Ran(f)' = Ran(f)
    BY <2>1 DEF Ran
  <2>3. Stage(f)' /\ Own(f)'
    BY <2>1, <1>11 DEF NotFound, Stage, Own, Starting, Looking
  <2>4. Account(f)' /\ Slot(f)'
    BY <2>1, <2>2 DEF Account, Slot
  <2>5. Complete(f)'
    BY <2>1, <2>2 DEF Complete, Starting
  <2> QED
    BY <2>3, <2>4, <2>5
<1>12. CASE Store(f)
  BY <1>12 DEF Store, Looked, Stage, Own, Account, Complete, Slot, Ran, Starting, Looking
<1>13. CASE Report(f)
  BY <1>13 DEF Report, Stage, Own, Account, Complete, Slot, Ran, Starting, Looking
<1>14. ASSUME NEW findings \in Findings, NextRule(f, findings), pc[f] = "rule"
       PROVE  /\ result'[f] = findings
              /\ target'[f] = None
              /\ pc'[f] \in {"rule", "report"}
              /\ Ran(f)' = Ran(f) \cup {rule[f]}
              /\ Own(f)'
  <2>1. result'[f] = findings /\ target'[f] = None /\ pc'[f] \in {"rule", "report"}
    BY <1>14 DEF NextRule
  <2>2. Own(f)'
    BY <1>14 DEF NextRule, Own, Looks
  <2>3. rule[f] \in 1 .. Rules /\ Ran(f) = 1 .. (rule[f] - 1)
    BY <1>14 DEF Ran, RuleSet
  <2>4. CASE rule[f] < Rules
    <3>1. Ran(f)' = 1 .. rule[f]
      BY <1>14, <2>3, <2>4 DEF NextRule, Ran
    <3> QED
      BY <2>1, <2>2, <2>3, <3>1
  <2>5. CASE rule[f] = Rules
    <3>1. Ran(f)' = 1 .. Rules
      BY <1>14, <2>3, <2>5 DEF NextRule, Ran, RuleSet
    <3> QED
      BY <2>1, <2>2, <2>3, <2>5, <3>1
  <2> QED
    BY <2>3, <2>4, <2>5
<1>15. CASE Return(f)
  <2>1. PICK lost \in IF Mixed(f) THEN BOOLEAN ELSE {FALSE} :
          NextRule(f, IF lost THEN result[f]
                      ELSE [result[f] EXCEPT !.found = @ \cup {rule[f]}])
    BY <1>15 DEF Return
  <2> DEFINE findings == IF lost THEN result[f]
                         ELSE [result[f] EXCEPT !.found = @ \cup {rule[f]}]
  <2>2. /\ findings \in Findings
        /\ findings.failed = result[f].failed
        /\ findings.found = IF lost THEN result[f].found ELSE result[f].found \cup {rule[f]}
    BY DEF Findings
  <2>3. pc[f] = "rule" /\ <<f, rule[f]>> \notin panics
        /\ UNCHANGED <<panics, submitted, shared, tree, perFile, out, dead>>
    BY <1>15 DEF Return
  <2> HIDE DEF findings
  <2>4. /\ result'[f] = findings
        /\ target'[f] = None
        /\ pc'[f] \in {"rule", "report"}
        /\ Ran(f)' = Ran(f) \cup {rule[f]}
        /\ Own(f)'
    BY <1>14, <2>1, <2>2, <2>3 DEF findings
  <2>5. Account(f)'
    BY <2>2, <2>3, <2>4 DEF Account
  <2>6. ASSUME Batch \subseteq Provided PROVE ~lost
    <3>1. tree[f].parsed = "shared" /\ tree[f].walk = "shared" /\ tree[f].semantic = "shared"
      BY <2>3, <2>6 DEF Complete, Starting
    <3>2. ~Mixed(f)
      BY <3>1 DEF Mixed
    <3> QED
      BY <2>1, <3>2
  <2>7. Complete(f)'
    BY <2>2, <2>3, <2>4, <2>6 DEF Complete, Starting
  <2>8. Stage(f)' /\ Slot(f)'
    BY <2>3, <2>4 DEF Stage, Slot, Starting, Looking
  <2> QED
    BY <2>4, <2>5, <2>7, <2>8
<1>16. CASE Panic(f)
  <2> DEFINE findings == [result[f] EXCEPT !.failed = @ \cup {rule[f]}]
  <2>2. /\ findings \in Findings
        /\ findings.failed = result[f].failed \cup {rule[f]}
        /\ findings.found = result[f].found
    BY DEF Findings
  <2>3. /\ pc[f] = "rule" /\ <<f, rule[f]>> \in panics
        /\ NextRule(f, findings)
        /\ UNCHANGED <<panics, submitted, shared, tree, perFile, out, dead>>
    BY <1>16 DEF Panic
  <2> HIDE DEF findings
  <2>4. /\ result'[f] = findings
        /\ target'[f] = None
        /\ pc'[f] \in {"rule", "report"}
        /\ Ran(f)' = Ran(f) \cup {rule[f]}
        /\ Own(f)'
    BY <1>14, <2>2, <2>3
  <2>5. Account(f)'
    BY <2>2, <2>3, <2>4 DEF Account
  <2>6. Complete(f)'
    BY <2>2, <2>3, <2>4 DEF Complete, Starting
  <2>7. Stage(f)' /\ Slot(f)'
    BY <2>3, <2>4 DEF Stage, Slot, Starting, Looking
  <2> QED
    BY <2>4, <2>5, <2>6, <2>7
<1> QED
  BY <1>2, <1>3, <1>4, <1>5, <1>6, <1>7, <1>8, <1>9, <1>10, <1>11, <1>12, <1>13, <1>15, <1>16
  DEF Step

-----------------------------------------------------------------------------
(* Steps keep the rest *)

\* A goroutine changes what belongs to its own file only.
LEMMA OthersStay ==
  ASSUME TypeOK, NEW f \in Batch, NEW h \in Batch, h # f, Submit(f) \/ Step(f)
  PROVE  /\ UNCHANGED <<panics, dead, out>>
         /\ pc'[h] = pc[h] /\ tree'[h] = tree[h] /\ rule'[h] = rule[h]
         /\ todo'[h] = todo[h] /\ target'[h] = target[h] /\ result'[h] = result[h]
         /\ perFile'[h] = perFile[h] /\ access'[h] = access[h]
<1> USE DEF TypeOK, shared, work
<1>1. CASE Submit(f)
  BY <1>1 DEF Submit
<1>2. CASE ReadParsed(f) \/ ReadWalk(f) \/ ReadSemantic(f)
  BY <1>2 DEF ReadParsed, ReadWalk, ReadSemantic
<1>3. CASE EnterOnce(f) \/ Build(f) \/ \E g \in All : Look(f, g)
  BY <1>3 DEF EnterOnce, Build, Look
<1>4. CASE Lookup(f) \/ Found(f) \/ NotFound(f) \/ Store(f)
  BY <1>4 DEF Lookup, Found, NotFound, Store, Looked
<1>5. CASE Return(f) \/ Panic(f)
  <2>1. PICK findings : NextRule(f, findings)
    BY <1>5 DEF Return, Panic
  <2>2. UNCHANGED <<panics, dead, out, shared, tree, perFile>>
    BY <1>5 DEF Return, Panic
  <2>3. /\ pc'[h] = pc[h] /\ rule'[h] = rule[h] /\ todo'[h] = todo[h]
        /\ target'[h] = target[h] /\ result'[h] = result[h]
    BY <2>1 DEF NextRule
  <2> QED
    BY <2>2, <2>3
<1>6. CASE Report(f)
  BY <1>6 DEF Report
<1> QED
  BY <1>1, <1>2, <1>3, <1>4, <1>5, <1>6 DEF Step

LEMMA NextInv == IInv /\ [Next]_vars => IInv'
<1> SUFFICES ASSUME IInv, [Next]_vars PROVE IInv'
  OBVIOUS
<1> USE LintRunAssumption
<1>1. TypeOK /\ Order /\ Filled /\ Joined /\ \A f \in Batch : FileInv(f)
  BY DEF IInv
<1>2. TypeOK'
  BY <1>1, TypeStep
<1>3. ASSUME NEW f \in Batch, Submit(f) \/ Step(f) PROVE IInv'
  <2>1. FileInv(f)'
    BY <1>1, <1>3, OwnStep
  <2>2. ASSUME NEW h \in Batch, h # f PROVE FileInv(h)'
    <3>1. /\ UNCHANGED <<panics, dead, out>>
          /\ pc'[h] = pc[h] /\ tree'[h] = tree[h] /\ rule'[h] = rule[h]
          /\ todo'[h] = todo[h] /\ target'[h] = target[h] /\ result'[h] = result[h]
          /\ perFile'[h] = perFile[h] /\ access'[h] = access[h]
      BY <1>1, <1>3, <2>2, OthersStay
    <3>2. Ran(h)' = Ran(h)
      BY <3>1 DEF Ran
    <3>3. FileInv(h)
      BY <1>1
    <3>4. Stage(h)' /\ Own(h)' /\ Slot(h)'
      BY <3>1, <3>3 DEF FileInv, Stage, Own, Slot
    <3>5. Account(h)' /\ Complete(h)'
      BY <3>1, <3>2, <3>3 DEF FileInv, Account, Complete
    <3> QED
      BY <3>4, <3>5 DEF FileInv
  <2>3. Order'
    <3>1. CASE Submit(f)
      BY <1>1, <3>1 DEF Submit, Order, TypeOK, Batch
    <3>2. CASE Step(f)
      <4>1. submitted' = submitted
        BY <3>2 DEF Step, ReadParsed, ReadWalk, ReadSemantic, Look, EnterOnce, Build, Lookup,
           Found, NotFound, Store, Return, Panic, Report
      <4>2. pc[f] # "waiting"
        BY <3>2 DEF Step, ReadParsed, ReadWalk, ReadSemantic, Look, EnterOnce, Build, Lookup,
           Found, NotFound, Store, Return, Panic, Report
      <4>3. pc'[f] # "waiting"
        <5> DEFINE Points == {"parsed", "walk", "semantic", "rule", "once", "build", "lookup",
                              "reading", "writing", "report", "done"}
        <5>1. pc \in [Batch -> Points \cup {"waiting"}]
          BY <1>1 DEF TypeOK
        <5>2. CASE Return(f) \/ Panic(f)
          <6>1. PICK findings : NextRule(f, findings)
            BY <5>2 DEF Return, Panic
          <6> QED
            BY <4>2, <5>1, <6>1 DEF NextRule
        <5>3. CASE ~(Return(f) \/ Panic(f))
          <6>1. \/ pc' = pc
                \/ \E x \in Points : pc' = [pc EXCEPT ![f] = x]
            BY <3>2, <5>3 DEF Step, ReadParsed, ReadWalk, ReadSemantic, Look, EnterOnce,
               Build, Lookup, Looked, Found, NotFound, Store, Report
          <6> QED
            BY <4>2, <5>1, <6>1
        <5> QED
          BY <5>2, <5>3
      <4>4. \A h \in Batch : h # f => pc'[h] = pc[h]
        BY <1>1, <1>3, OthersStay
      <4> QED
        BY <1>1, <4>1, <4>2, <4>3, <4>4 DEF Order
    <3> QED
      BY <1>3, <3>1, <3>2
  <2>4. Filled'
    <3>1. CASE Build(f)
      <4>1. target[f] \in All
        BY <1>1, <3>1 DEF Build, FileInv, Stage, Looking, TypeOK
      <4> QED
        BY <1>1, <3>1, <4>1 DEF Build, Filled, TypeOK
    <3>2. CASE ~Build(f)
      <4>1. level' = level
        BY <1>3, <3>2 DEF Submit, Step, ReadParsed, ReadWalk, ReadSemantic, Look, EnterOnce,
           Lookup, Found, NotFound, Store, Return, Panic, Report, shared
      <4> QED
        BY <1>1, <4>1 DEF Filled
    <3> QED
      BY <3>1, <3>2
  <2>5. Joined'
    <3>1. pc[f] # "done"
      <4>1. CASE Submit(f)
        <5>1. f > submitted
          BY <1>1, <4>1 DEF Submit, TypeOK
        <5> QED
          BY <1>1, <5>1 DEF Order
      <4>2. CASE Step(f)
        BY <4>2 DEF Step, ReadParsed, ReadWalk, ReadSemantic, Look, EnterOnce, Build, Lookup,
           Found, NotFound, Store, Return, Panic, Report
      <4> QED
        BY <1>3, <4>1, <4>2
    <3>2. out = None /\ out' = out
      <4>1. out' = out
        BY <1>3 DEF Submit, Step, ReadParsed, ReadWalk, ReadSemantic, Look, EnterOnce, Build,
           Lookup, Found, NotFound, Store, Return, Panic, Report
      <4> QED
        BY <1>1, <3>1, <4>1 DEF Joined
    <3> QED
      BY <3>2 DEF Joined
  <2> QED
    BY <1>2, <2>1, <2>2, <2>3, <2>4, <2>5 DEF IInv
<1>4. CASE Collect
  <2>1. /\ submitted = Size /\ Running = {} /\ out' = perFile
        /\ UNCHANGED <<panics, submitted, pc, shared, work, perFile, dead>>
    BY <1>4 DEF Collect
  <2>2. ASSUME NEW f \in Batch PROVE pc[f] = "done"
    <3>1. ~(f > submitted)
      BY <2>1 DEF Batch
    <3>2. pc[f] # "waiting"
      BY <1>1, <3>1 DEF Order
    <3>3. pc[f] \in {"waiting", "done"}
      BY <2>1 DEF Running
    <3> QED
      BY <3>2, <3>3
  <2>3. Joined'
    BY <2>1, <2>2 DEF Joined
  <2>4. Order' /\ Filled'
    BY <1>1, <2>1 DEF Order, Filled, shared
  <2>5. ASSUME NEW f \in Batch PROVE FileInv(f)'
    BY <1>1, <2>1 DEF FileInv, Stage, Own, Account, Complete, Slot, Ran, shared, work
  <2> QED
    BY <1>2, <2>3, <2>4, <2>5 DEF IInv
<1>5. CASE Throw \/ UNCHANGED vars
  <2>1. UNCHANGED <<panics, submitted, pc, shared, work, perFile, out>>
    BY <1>5 DEF Throw, vars
  <2>2. Order' /\ Filled' /\ Joined'
    BY <1>1, <2>1 DEF Order, Filled, Joined, shared
  <2>3. ASSUME NEW f \in Batch PROVE FileInv(f)'
    BY <1>1, <2>1 DEF FileInv, Stage, Own, Account, Complete, Slot, Ran, shared, work
  <2> QED
    BY <1>2, <2>2, <2>3 DEF IInv
<1> QED
  BY <1>3, <1>4, <1>5 DEF Next

-----------------------------------------------------------------------------
(* Theorems *)

\* The invariant holds in every state of a run (runFiles, Engine.lintFile).
THEOREM Invariance == Spec => []IInv
<1>1. Init => IInv
  BY InitInv
<1>2. IInv /\ [Next]_vars => IInv'
  BY NextInv
<1> QED
  BY <1>1, <1>2, PTL DEF Spec

\* The variables of a run keep their types.
THEOREM TypeCorrect == Spec => []TypeOK
<1>1. IInv => TypeOK
  BY DEF IInv
<1> QED
  BY <1>1, Invariance, PTL

\* When every linted file comes with its pointer syntax, as the files named on
\* the command line do, the findings do not depend on the schedule, whatever
\* the rules look at.
THEOREM ProvidedIsDeterministic ==
  ASSUME Batch \subseteq Provided
  PROVE  Spec => []Deterministic
<1>1. IInv => Deterministic
  <2> SUFFICES ASSUME IInv, out # None, NEW f \in Batch PROVE out[f] = Promise!Expected(f)
    BY DEF Deterministic
  <2>1. pc[f] = "done" /\ out[f] = perFile[f]
    BY DEF IInv, Joined
  <2>2. FileInv(f) /\ result[f] \in Findings /\ rule[f] \in RuleSet
    BY DEF IInv, TypeOK
  <2>3. Ran(f) = RuleSet /\ out[f] = result[f]
    BY <2>1, <2>2 DEF FileInv, Slot, Ran
  <2>4. result[f].failed = {r \in RuleSet : <<f, r>> \in panics}
    BY <2>2, <2>3 DEF FileInv, Account
  <2>5. result[f].found = {r \in RuleSet : <<f, r>> \notin panics}
    BY <2>2, <2>3 DEF FileInv, Account, Complete
  <2>6. result[f] = [found |-> result[f].found, failed |-> result[f].failed]
    BY <2>2 DEF Findings
  <2> QED
    BY <2>3, <2>4, <2>5, <2>6 DEF Promise!Expected, Promise!RuleSet, RuleSet
<1> QED
  BY <1>1, Invariance, PTL

\* With the pointer syntax of every linted file there from the start, a run
\* implements the sequential batch: the goroutine that fills a slot lints the
\* file in one step, and joining the slots collects them (runFiles).
THEOREM RunImplementsBatch ==
  ASSUME Batch \subseteq Provided
  PROVE  Spec => Promise!Safety
<1> USE LintRunAssumption DEF Promise!vars, Promise!Batch, Batch
<1>1. Init => Promise!Init
  BY DEF Init, Promise!Init, Promise!RuleSet, RuleSet
<1>2. IInv /\ [Next]_vars => [Promise!Next]_Promise!vars
  <2> SUFFICES ASSUME IInv, [Next]_vars PROVE [Promise!Next]_Promise!vars
    OBVIOUS
  <2>1. ASSUME NEW f \in Batch, Report(f) PROVE Promise!Lint(f)
    <3>1. FileInv(f) /\ pc[f] = "report" /\ result[f] \in Findings
      BY <2>1 DEF IInv, TypeOK, Report
    <3>2. result[f] = Promise!Expected(f)
      <4>1. result[f].failed = {r \in RuleSet : <<f, r>> \in panics}
        BY <3>1 DEF FileInv, Account, Ran
      <4>2. result[f].found = {r \in RuleSet : <<f, r>> \notin panics}
        BY <3>1 DEF FileInv, Account, Complete, Ran, Findings
      <4>3. result[f] = [found |-> result[f].found, failed |-> result[f].failed]
        BY <3>1 DEF Findings
      <4> QED
        BY <4>1, <4>2, <4>3 DEF Promise!Expected, Promise!RuleSet, RuleSet
    <3>3. perFile[f] = None
      BY <3>1 DEF FileInv, Slot
    <3> QED
      BY <2>1, <3>2, <3>3 DEF Report, Promise!Lint
  <2>2. CASE Collect
    <3>1. /\ submitted = Size /\ Running = {} /\ out = None /\ out' = perFile
          /\ UNCHANGED <<panics, perFile>>
      BY <2>2 DEF Collect
    <3>2. ASSUME NEW f \in Batch PROVE perFile[f] # None
      <4>1. ~(f > submitted)
        BY <3>1
      <4>2. pc[f] = "done"
        BY <3>1, <4>1 DEF IInv, Order, Running
      <4>3. perFile[f] = result[f] /\ result[f] \in Findings
        BY <4>2 DEF IInv, FileInv, Slot, TypeOK
      <4> QED
        BY <4>3, NoneAssumption
    <3> QED
      BY <3>1, <3>2 DEF Promise!Next, Promise!Collect
  <2>3. CASE (\A f \in Batch : ~Report(f)) /\ ~Collect
    BY <2>3 DEF Next, Step, Submit, ReadParsed, ReadWalk, ReadSemantic, Look, EnterOnce, Build,
       Lookup, Found, NotFound, Store, Return, Panic, Throw, vars
  <2> QED
    BY <2>1, <2>2, <2>3 DEF Promise!Next
<1> QED
  BY <1>1, <1>2, Invariance, PTL DEF Spec, Promise!Safety

\* Internal errors stay with the rule and the file that panicked, in every
\* schedule, races on the syntax included (lintFile, lintFileSafe).
THEOREM FailuresStayExact == Spec => []FailuresExact
<1>1. IInv => FailuresExact
  <2> SUFFICES ASSUME IInv, NEW f \in Batch, perFile[f] # None
               PROVE  /\ perFile[f].failed = {r \in RuleSet : <<f, r>> \in panics}
                      /\ perFile[f].found \cap perFile[f].failed = {}
    BY DEF FailuresExact
  <2>1. FileInv(f)
    BY DEF IInv
  <2>2. perFile[f] = result[f] /\ Ran(f) = RuleSet
    BY <2>1 DEF FileInv, Slot, Ran
  <2> QED
    BY <2>1, <2>2 DEF FileInv, Account
<1> QED
  BY <1>1, Invariance, PTL

\* When no project rule asks for enclosing functions, no map is written while
\* another goroutine uses it (EnclosingFunction).
THEOREM LocalIsRaceFree ==
  ASSUME \A r \in RuleSet : Kind[r] # "flow"
  PROVE  Spec => []RaceFree
<1>1. IInv => RaceFree
  <2> SUFFICES ASSUME IInv, NEW f \in Batch, NEW h \in Batch, f # h,
                      target[f] = target[h], access[f] = "write", access[h] # "idle"
               PROVE  FALSE
    BY DEF RaceFree, Conflict
  <2>1. ASSUME NEW g \in Batch, access[g] # "idle" PROVE target[g] = g
    <3>1. FileInv(g) /\ rule[g] \in RuleSet
      BY DEF IInv, TypeOK
    <3>2. pc[g] \in {"reading", "writing"} /\ Kind[rule[g]] # "syntax"
      BY <2>1, <3>1 DEF FileInv, Stage
    <3>3. Kind[rule[g]] = "local"
      BY <3>1, <3>2, LintRunAssumption
    <3> QED
      BY <3>1, <3>2, <3>3 DEF FileInv, Own, Stage, Looking
  <2> QED
    BY <2>1
<1> QED
  BY <1>1, Invariance, PTL

\* Pointer syntax that was handed out is never replaced (ensurePointerSyntax).
THEOREM SyntaxIsStable == Spec => SyntaxStays
<1>1. IInv /\ [Next]_vars => [\A g \in All : level'[g] >= level[g]]_level
  <2> SUFFICES ASSUME IInv, [Next]_vars, level' # level
               PROVE  \A g \in All : level'[g] >= level[g]
    OBVIOUS
  <2>1. PICK f \in Batch : Build(f)
    BY DEF Next, Step, Submit, ReadParsed, ReadWalk, ReadSemantic, Look, EnterOnce,
       Lookup, Found, NotFound, Store, Return, Panic, Report, Collect, Throw, vars, shared
  <2>2. level \in [All -> 0 .. 3]
    BY DEF IInv, TypeOK
  <2> QED
    BY <2>1, <2>2 DEF Build
<1> QED
  BY <1>1, Invariance, PTL DEF Spec, SyntaxStays
=============================================================================
