--------------------------- MODULE FixWrite_proofs ---------------------------
(* Safety of `pawnlint --fix` for any number of files, processes and saves. *)
EXTENDS FixWrite, TLAPS

\* The inductive invariant holds when every process starts.
LEMMA InitInv == Init => IInv
  BY FixAssumption DEF Init, IInv, TypeOK, RefusedPlanWritesNothing, NoTornSource,
     NoTempLeft, SuccessIsComplete, ProcInv, UnchangedSinceVerified, Files, Unread,
     Running, Stopped, WritePhase

\* Every step of a process, the user or nobody keeps it.
LEMMA StepInv == IInv /\ [Next]_vars => IInv'
<1> SUFFICES ASSUME IInv, [Next]_vars PROVE IInv'
  OBVIOUS
<1> USE FixAssumption DEF IInv, TypeOK, RefusedPlanWritesNothing, NoTornSource,
     NoTempLeft, SuccessIsComplete, ProcInv, UnchangedSinceVerified, Unread,
     Running, Stopped, WritePhase, TouchedBy, NextOf
<1>1. ASSUME NEW p \in Procs, NEW f \in Files, Read(p, f) PROVE IInv'
  <2>1. CASE disk[f] = Missing
    <3>1. /\ pc' = [pc EXCEPT ![p] = "failed"]
          /\ pc[p] = "read"
          /\ UNCHANGED <<disk, fixing, before, plan, verified, written, temp, touched, saves>>
      BY <1>1, <2>1 DEF Read
    <3>2. QED
      BY <3>1
  <2>2. CASE disk[f] # Missing
    <3> DEFINE row == [before[p] EXCEPT ![f] = disk[f]]
    <3>1. before' = [before EXCEPT ![p] = row] /\ pc' = pc
      BY <1>1, <2>2 DEF Read
    <3>2. row \in [Files -> Contents \cup {None}]
      BY <2>2
    <3>3. TypeOK'
      BY <1>1, <3>1, <3>2 DEF Read
    <3>4. \A q \in Procs : ProcInv(q)'
      BY <1>1, <3>1, <3>2 DEF Read
    <3>5. \A q \in Procs : UnchangedSinceVerified(q)'
      BY <1>1, <3>1, <3>2 DEF Read
    <3>6. QED
      BY <1>1, <3>1, <3>3, <3>4, <3>5 DEF Read
  <2>3. QED
    BY <2>1, <2>2
<1>2. ASSUME NEW p \in Procs, Plan(p) PROVE IInv'
  <2>1. CASE ~fixing[p]
    <3>1. /\ pc' = [pc EXCEPT ![p] = "done"]
          /\ pc[p] = "read"
          /\ UNCHANGED <<disk, fixing, before, plan, verified, written, temp, touched, saves>>
      BY <1>2, <2>1 DEF Plan
    <3>2. QED
      BY <2>1, <3>1
  <2>2. CASE fixing[p] /\ \E f \in Files : before[p][f] \in Conflicted
    <3>1. /\ pc' = [pc EXCEPT ![p] = "failed"]
          /\ pc[p] = "read"
          /\ UNCHANGED <<disk, fixing, before, plan, verified, written, temp, touched, saves>>
      BY <1>2, <2>2 DEF Plan
    <3>2. QED
      BY <3>1
  <2>3. CASE fixing[p] /\ ~ \E f \in Files : before[p][f] \in Conflicted
    <3>1. /\ plan' = [plan EXCEPT ![p] = Changed(p)]
          /\ pc' = [pc EXCEPT ![p] = IF Changed(p) = {} THEN "done" ELSE "preflight"]
          /\ UNCHANGED <<disk, fixing, before, verified, written, temp, touched, saves>>
          /\ pc[p] = "read"
      BY <1>2, <2>3 DEF Plan
    <3>2. Changed(p) \subseteq Files
      BY DEF Changed
    <3>3. \A f \in Files : before[p][f] \in Contents
      BY <1>2 DEF Plan
    <3>4. TypeOK'
      BY <3>1, <3>2
    <3>5. CASE Changed(p) = {}
      BY <2>3, <3>1, <3>4, <3>5
    <3>6. CASE Changed(p) # {}
      <4>1. \A q \in Procs : ProcInv(q)'
        BY <2>3, <3>1, <3>2, <3>3, <3>6
      <4>2. QED
        BY <2>3, <3>1, <3>4, <3>6, <4>1
    <3>7. QED
      BY <3>5, <3>6
  <2>4. QED
    BY <2>1, <2>2, <2>3
<1>3. ASSUME NEW p \in Procs, NEW f \in Files, Verify(p, f) PROVE IInv'
  <2>1. CASE disk[f] = before[p][f]
    <3>1. /\ verified' = [verified EXCEPT ![p] = @ \cup {f}]
          /\ touched' = [touched EXCEPT ![p] = @ \ {f}]
          /\ pc' = [pc EXCEPT ![p] = IF plan[p] = verified[p] \cup {f} THEN "write" ELSE @]
          /\ pc[p] = "preflight"
          /\ UNCHANGED <<disk, fixing, before, plan, written, temp, saves>>
      <4>1. verified' = [verified EXCEPT ![p] = @ \cup {f}]
        BY <1>3, <2>1 DEF Verify
      <4>2. verified'[p] = verified[p] \cup {f}
        BY <4>1
      <4>3. QED
        BY <1>3, <2>1, <4>1, <4>2 DEF Verify
    <3>2. TypeOK'
      BY <3>1
    <3>3. \A q \in Procs : ProcInv(q)'
      BY <3>1
    <3>4. \A q \in Procs : UnchangedSinceVerified(q)'
      BY <2>1, <3>1
    <3>5. QED
      BY <3>1, <3>2, <3>3, <3>4
  <2>2. CASE disk[f] # before[p][f]
    <3>1. /\ pc' = [pc EXCEPT ![p] = IF disk[f] = Missing THEN "failed" ELSE "stale"]
          /\ pc[p] = "preflight"
          /\ UNCHANGED <<disk, fixing, before, plan, verified, written, temp, touched, saves>>
      BY <1>3, <2>2 DEF Verify
    <3>2. QED
      BY <3>1
  <2>3. QED
    BY <2>1, <2>2
<1>4. ASSUME NEW p \in Procs, CreateTemp(p) PROVE IInv'
  BY <1>4 DEF CreateTemp
<1>5. ASSUME NEW p \in Procs, NEW f \in Files, FillTemp(p, f) PROVE IInv'
  BY <1>5 DEF FillTemp
<1>6. ASSUME NEW p \in Procs, NEW f \in Files, Rename(p, f) PROVE IInv'
  BY <1>6 DEF Rename
<1>7. ASSUME NEW p \in Procs, WriteFails(p) PROVE IInv'
  BY <1>7 DEF WriteFails
<1>8. ASSUME NEW p \in Procs, Relint(p) PROVE IInv'
  BY <1>8 DEF Relint
<1>9. ASSUME NEW p \in Procs, Crash(p) PROVE IInv'
  BY <1>9 DEF Crash
<1>10. ASSUME NEW f \in Files, NEW c \in Contents \cup {Missing}, Save(f, c) PROVE IInv'
  BY <1>10 DEF Save
<1>11. CASE UNCHANGED vars
  BY <1>11 DEF vars
<1>12. QED
  BY <1>1, <1>2, <1>3, <1>4, <1>5, <1>6, <1>7, <1>8, <1>9, <1>10, <1>11
     DEF Next, Step, Ended

\* IInv is an invariant of the specification.
THEOREM Invariance == Spec => []IInv
<1>1. QED
  BY InitInv, StepInv, PTL DEF Spec

\* The variables keep their types.
THEOREM TypeCorrect == Spec => []TypeOK
<1>1. IInv => TypeOK
  BY DEF IInv
<1>2. QED
  BY <1>1, Invariance, PTL

\* For every number of files, processes and saves: a plan that fix.Write
\* refuses as stale has replaced no file.
THEOREM RefusalIsSafe == Spec => []RefusedPlanWritesNothing
<1>1. IInv => RefusedPlanWritesNothing
  BY DEF IInv
<1>2. QED
  BY <1>1, Invariance, PTL

\* No failure and no kill leaves a partial content at the path of a source.
THEOREM SourcesStayWhole == Spec => []NoTornSource
<1>1. IInv => NoTornSource
  BY DEF IInv
<1>2. QED
  BY <1>1, Invariance, PTL

\* fix.Write overwrites what was analysed or what was saved after its first
\* pass, never an earlier save.
THEOREM EarlierSavesAreSafe == Spec => EarlierSavesSurvive
<1> DEFINE Kept == \A p \in Procs, f \in Files :
                      f \in written'[p] \ written[p]
                          => disk[f] = before[p][f] \/ f \in touched[p]
<1>1. IInv /\ [Next]_vars => [Kept]_vars
  <2> SUFFICES ASSUME IInv, Next PROVE Kept
    BY DEF vars
  <2> SUFFICES ASSUME NEW p \in Procs, NEW f \in Files, f \in written'[p] \ written[p]
               PROVE disk[f] = before[p][f] \/ f \in touched[p]
    OBVIOUS
  <2>1. PICK q \in Procs, g \in Files : Rename(q, g)
    BY DEF Next, Step, Ended, vars, Read, Plan, Verify, CreateTemp, FillTemp,
       WriteFails, Relint, Crash, Save
  <2>2. q = p /\ g = f
    BY <2>1 DEF Rename, IInv, TypeOK
  <2>3. f \in verified[p] \ written[p]
    BY <2>1, <2>2 DEF Rename, NextOf, IInv, ProcInv, WritePhase
  <2>4. QED
    BY <2>3 DEF IInv, UnchangedSinceVerified
<1>2. QED
  BY <1>1, Invariance, PTL DEF Spec, EarlierSavesSurvive
=============================================================================
