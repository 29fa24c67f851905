---------------------- MODULE DiagnosticsCache_proofs ----------------------
(* What a process gets from the cache belongs to its inputs, for any number *)
(* of processes, contexts, configurations and changes.                     *)
EXTENDS DiagnosticsCache, TLAPS

\* What the analysis of a command computes is typed, complete and covered, and
\* its rules are those its writer can have, the API having no flags.
LEMMA AnalysisCovers ==
  ASSUME NEW cmd \in Commands, NEW c \in 1 .. Contexts, NEW m \in Models,
         NEW u \in Users, u = "api" => cmd.flags = NoFlags
  PROVE  /\ Analysis(cmd, c, m) \in Diags
         /\ Analysis(cmd, c, m).complete
         /\ Covers(Analysis(cmd, c, m), cmd, c, m)
         /\ Own(Analysis(cmd, c, m), u)
<1> DEFINE d == Analysis(cmd, c, m)
<1>1. d \in Diags /\ d.complete /\ Covers(d, cmd, c, m)
  BY CacheAssumption
     DEF Analysis, Diags, Covers, Commands, Models, Enabled, EnabledForPath,
         ConfigFile, Forced
<1>2. /\ d.config = cmd.config
      /\ d.rules = EnabledForPath(cmd)
      /\ d.enabled = Enabled(cmd)
  BY DEF Analysis
<1>3. CASE u = "api"
  <2>1. [config |-> d.config, flags |-> NoFlags] = cmd
    BY <1>2, <1>3 DEF Commands
  <2>2. QED
    BY <1>1, <1>2, <1>3, <2>1 DEF Own
<1>4. CASE u # "api"
  BY <1>1, <1>2, <1>4 DEF Own, EnabledForPath
<1>5. QED
  BY <1>3, <1>4

\* The key of an entry made from covered diagnostics names their inputs.
LEMMA EntrySound ==
  ASSUME NEW cmd \in Commands, NEW c \in 1 .. Contexts, NEW m \in Models,
         NEW u \in Users, NEW d \in Diags, Covers(d, cmd, c, m), d.complete, Own(d, u)
  PROVE  /\ KeyOf(u, cmd, c, m) \in Keys
         /\ [key |-> KeyOf(u, cmd, c, m), diag |-> d] \in Entries
         /\ Sound([key |-> KeyOf(u, cmd, c, m), diag |-> d])
  BY CacheAssumption
     DEF KeyOf, Keys, Entries, Sound, Covers, Commands, Models, Enabled, ConfigFile, Forced

\* A hit yields diagnostics of the inputs that were asked for.
LEMMA HitCovers ==
  ASSUME NEW cmd \in Commands, NEW c \in 1 .. Contexts, NEW m \in Models,
         NEW u \in Users, NEW e \in Entries, Sound(e), e.key = KeyOf(u, cmd, c, m)
  PROVE  /\ e.diag \in Diags /\ e.diag.complete
         /\ Covers(e.diag, cmd, c, m) /\ Own(e.diag, u)
  BY DEF KeyOf, Entries, Sound, Covers

\* Diagnostics whose rules their reader can have are those in force for its target.
LEMMA OwnRules ==
  ASSUME NEW cmd \in Commands, NEW c \in 1 .. Contexts, NEW m \in Models,
         NEW d \in Diags, Covers(d, cmd, c, m),
         \/ Own(d, "api") /\ cmd.flags = NoFlags
         \/ Own(d, "cli") /\ ~cmd.config.override
  PROVE  d.rules = EnabledForPath(cmd)
<1>1. d.config = cmd.config /\ d.enabled = Enabled(cmd)
  BY DEF Covers
<1>2. CASE Own(d, "api") /\ cmd.flags = NoFlags
  <2>1. [config |-> d.config, flags |-> NoFlags] = cmd
    BY <1>1, <1>2 DEF Commands
  <2>2. QED
    BY <1>2, <2>1 DEF Own
<1>3. CASE Own(d, "cli") /\ ~cmd.config.override
  BY <1>1, <1>3 DEF Own, EnabledForPath
<1>4. QED
  BY <1>2, <1>3

\* Every process asks for a slot of the directory.
LEMMA SlotTyped ==
  ASSUME NEW p \in Procs, NEW c \in 1 .. Contexts
  PROVE  SlotOf(p, c) \in Slots
  BY DEF SlotOf, Slots

LEMMA InitInv == Init => IInv
<1> SUFFICES ASSUME Init PROVE IInv
  OBVIOUS
<1>1. 1 \in 1 .. Contexts /\ 0 \in 0 .. Targets /\ 0 \in 0 .. MaxCommands /\ 0 \in 0 .. MaxChanges
  BY CacheAssumption
<1>2. TypeOK
  <2>1. /\ content \in Contents
        /\ shadowed \in BOOLEAN
        /\ slots \in [Slots -> Entries \cup {NoEntry, Garbled}]
    BY DEF Init
  <2>2. /\ pc \in [Procs -> Points]
        /\ command \in [Procs -> Commands \cup {Nothing}]
        /\ ctx \in [Procs -> 1 .. Contexts]
    BY <1>1 DEF Init, Points
  <2>3. /\ model \in [Procs -> Models \cup {Nothing}]
        /\ linted \in [Procs -> 0 .. Targets]
        /\ diag \in [Procs -> Diags \cup {Nothing}]
        /\ temp \in [Procs -> Entries \cup {Nothing}]
    BY <1>1 DEF Init
  <2>4. warm \in [Users -> [1 .. Contexts -> Keys \cup {Nothing}]]
    BY DEF Init
  <2>5. commands \in 0 .. MaxCommands /\ changes \in 0 .. MaxChanges
    BY <1>1 DEF Init
  <2>6. QED
    BY <2>1, <2>2, <2>3, <2>4, <2>5 DEF TypeOK
<1>3. SlotInv
  BY TagAssumption DEF Init, SlotInv
<1>4. \A p \in Procs : ProcInv(p)
  BY DEF Init, ProcInv, Busy
<1>5. QED
  BY <1>2, <1>3, <1>4 DEF IInv

\* A step that leaves the cache directory and every other process alone, and
\* takes a process to a state that satisfies its part of the invariant.
LEMMA OneProcess ==
  ASSUME IInv, TypeOK', NEW p \in Procs, ProcInv(p)',
         \A q \in Procs \ {p} :
            /\ pc'[q] = pc[q]
            /\ command'[q] = command[q]
            /\ ctx'[q] = ctx[q]
            /\ model'[q] = model[q]
            /\ diag'[q] = diag[q]
            /\ temp'[q] = temp[q],
         SlotInv'
  PROVE  IInv'
<1>1. \A q \in Procs \ {p} : ProcInv(q)'
  BY DEF IInv, ProcInv
<1>2. QED
  BY <1>1 DEF IInv

LEMMA StepInv == IInv /\ [Next]_vars => IInv'
<1> SUFFICES ASSUME IInv, [Next]_vars PROVE IInv'
  OBVIOUS
<1>1. ASSUME NEW p \in Procs, NEW cmd \in Commands, Start(p, cmd) PROVE IInv'
  <2>1. TypeOK'
    BY <1>1, CacheAssumption DEF Start, IInv, TypeOK, Points, world
  <2>2. SlotInv' /\ ProcInv(p)'
    BY <1>1, CacheAssumption DEF Start, IInv, TypeOK, SlotInv, ProcInv, Busy, Covers, world
  <2>3. QED
    BY <1>1, <2>1, <2>2, OneProcess DEF Start, IInv, TypeOK
<1>2. ASSUME NEW p \in Procs, Build(p) PROVE IInv'
  <2>1. TypeOK'
    BY <1>2 DEF Build, Models, IInv, TypeOK, Points, world
  <2>2. SlotInv' /\ ProcInv(p)'
    BY <1>2 DEF Build, Models, IInv, TypeOK, SlotInv, ProcInv, Busy, Covers, world
  <2>3. QED
    BY <1>2, <2>1, <2>2, OneProcess DEF Build, Models, IInv, TypeOK
<1>3. ASSUME NEW p \in Procs, Hit(p) PROVE IInv'
  <2>1. /\ pc[p] = "load" /\ command[p] \in Commands /\ model[p] \in Models
        /\ ctx[p] \in 1 .. Contexts /\ MySlot(p) \in Slots /\ User(p) \in Users
    BY <1>3, SlotTyped DEF Hit, IInv, TypeOK, ProcInv, Busy, MySlot, User, Users
  <2>2. LET d == slots[MySlot(p)].diag
        IN  /\ d \in Diags /\ d.complete
            /\ Covers(d, command[p], ctx[p], model[p]) /\ Own(d, User(p))
    BY <1>3, <2>1, HitCovers DEF Hit, Found, MyKey, IInv, SlotInv
  <2> DEFINE d == slots[MySlot(p)].diag
  <2>3. /\ diag' = [diag EXCEPT ![p] = d]
        /\ pc' = [pc EXCEPT ![p] = "served"]
        /\ UNCHANGED <<world, slots, command, ctx, model, linted, temp, warm, commands>>
    BY <1>3 DEF Hit
  <2> HIDE DEF d
  <2>4. /\ d \in Diags /\ d.complete
        /\ Covers(d, command[p], ctx[p], model[p]) /\ Own(d, User(p))
    BY <2>2 DEF d
  <2>7. TypeOK'
    BY <2>3, <2>4 DEF IInv, TypeOK, Points, world
  <2>8. SlotInv' /\ ProcInv(p)'
    BY <2>1, <2>3, <2>4 DEF IInv, TypeOK, SlotInv, ProcInv, Busy, Covers
  <2>9. QED
    BY <2>3, <2>7, <2>8, OneProcess DEF IInv, TypeOK
<1>4. ASSUME NEW p \in Procs, Miss(p) PROVE IInv'
  <2>1. TypeOK'
    BY <1>4, CacheAssumption DEF Miss, IInv, TypeOK, Points, world
  <2>2. SlotInv' /\ ProcInv(p)'
    BY <1>4, CacheAssumption DEF Miss, IInv, TypeOK, SlotInv, ProcInv, Busy, Covers, world
  <2>3. QED
    BY <1>4, <2>1, <2>2, OneProcess DEF Miss, IInv, TypeOK
<1>5. ASSUME NEW p \in Procs, LintOne(p) PROVE IInv'
  <2>1. TypeOK'
    BY <1>5, CacheAssumption DEF LintOne, IInv, TypeOK, Points, world
  <2>2. SlotInv' /\ ProcInv(p)'
    BY <1>5, CacheAssumption DEF LintOne, IInv, TypeOK, SlotInv, ProcInv, Busy, Covers, world
  <2>3. QED
    BY <1>5, <2>1, <2>2, OneProcess DEF LintOne, IInv, TypeOK
<1>6. ASSUME NEW p \in Procs, Analysed(p) PROVE IInv'
  <2> DEFINE d == Analysis(command[p], ctx[p], model[p])
  <2>1. /\ pc[p] = "lint"
        /\ command[p] \in Commands /\ model[p] \in Models /\ ctx[p] \in 1 .. Contexts
        /\ User(p) \in Users
        /\ User(p) = "api" => command[p].flags = NoFlags
    BY <1>6 DEF Analysed, IInv, TypeOK, ProcInv, Busy, User, Users, Procs
  <2>2. /\ d \in Diags /\ d.complete
        /\ Covers(d, command[p], ctx[p], model[p]) /\ Own(d, User(p))
    BY <2>1, AnalysisCovers
  <2>3. /\ diag' = [diag EXCEPT ![p] = d]
        /\ pc' = [pc EXCEPT ![p] = "store"]
        /\ UNCHANGED <<world, slots, command, ctx, model, linted, temp, warm, commands>>
    BY <1>6 DEF Analysed
  <2> HIDE DEF d
  <2>7. TypeOK'
    BY <2>2, <2>3 DEF IInv, TypeOK, Points, world
  <2>8. SlotInv' /\ ProcInv(p)'
    BY <2>1, <2>2, <2>3 DEF IInv, TypeOK, SlotInv, ProcInv, Busy, Covers
  <2>9. QED
    BY <2>3, <2>7, <2>8, OneProcess DEF IInv, TypeOK
<1>7. ASSUME NEW p \in Procs, Cancel(p) PROVE IInv'
  <2>1. TypeOK'
    BY <1>7 DEF Cancel, IInv, TypeOK, Points, world
  <2>2. SlotInv' /\ ProcInv(p)'
    BY <1>7 DEF Cancel, IInv, TypeOK, SlotInv, ProcInv, Busy, Covers, world
  <2>3. QED
    BY <1>7, <2>1, <2>2, OneProcess DEF Cancel, IInv, TypeOK
<1>8. ASSUME NEW p \in Procs, Store(p) PROVE IInv'
  <2> DEFINE e == [key |-> MyKey(p), diag |-> diag[p]]
  <2>1. /\ pc[p] = "store"
        /\ command[p] \in Commands /\ model[p] \in Models /\ ctx[p] \in 1 .. Contexts
        /\ diag[p] \in Diags /\ diag[p].complete
        /\ Covers(diag[p], command[p], ctx[p], model[p])
        /\ User(p) \in Users /\ Own(diag[p], User(p))
    BY <1>8 DEF Store, IInv, TypeOK, ProcInv, Busy, User, Users
  <2>2. e \in Entries /\ Sound(e)
    BY <2>1, EntrySound DEF MyKey
  <2>3. /\ temp' = [temp EXCEPT ![p] = e]
        /\ pc' = [pc EXCEPT ![p] = "rename"]
        /\ UNCHANGED <<world, slots, command, ctx, model, linted, diag, warm, commands>>
    BY <1>8 DEF Store
  <2> HIDE DEF e
  <2>7. TypeOK'
    BY <2>2, <2>3 DEF IInv, TypeOK, Points, world
  <2>8. SlotInv' /\ ProcInv(p)'
    BY <2>1, <2>2, <2>3 DEF IInv, TypeOK, SlotInv, ProcInv, Busy, Covers
  <2>9. QED
    BY <2>3, <2>7, <2>8, OneProcess DEF IInv, TypeOK
<1>9. ASSUME NEW p \in Procs, StoreFails(p) PROVE IInv'
  <2>1. TypeOK'
    BY <1>9 DEF StoreFails, IInv, TypeOK, Points, world
  <2>2. SlotInv' /\ ProcInv(p)'
    BY <1>9 DEF StoreFails, IInv, TypeOK, SlotInv, ProcInv, Busy, Covers, world
  <2>3. QED
    BY <1>9, <2>1, <2>2, OneProcess DEF StoreFails, IInv, TypeOK
<1>10. ASSUME NEW p \in Procs, Rename(p) PROVE IInv'
  <2> DEFINE s == MySlot(p)
             k == MyKey(p)
  <2>1. /\ pc[p] = "rename"
        /\ command[p] \in Commands /\ model[p] \in Models /\ ctx[p] \in 1 .. Contexts
        /\ diag[p] \in Diags /\ diag[p].complete
        /\ Covers(diag[p], command[p], ctx[p], model[p])
        /\ temp[p] \in Entries /\ Sound(temp[p])
        /\ User(p) \in Users /\ Own(diag[p], User(p))
    BY <1>10 DEF Rename, IInv, TypeOK, ProcInv, Busy, User, Users
  <2>2. s \in Slots /\ k \in Keys
    BY <2>1, SlotTyped, EntrySound DEF MySlot, MyKey
  <2>3. /\ slots' = [slots EXCEPT ![s] = temp[p]]
        /\ warm' = [warm EXCEPT ![User(p)][ctx[p]] = k]
        /\ temp' = [temp EXCEPT ![p] = Nothing]
        /\ pc' = [pc EXCEPT ![p] = "served"]
        /\ UNCHANGED <<world, command, ctx, model, linted, diag, commands>>
    BY <1>10 DEF Rename
  <2> HIDE DEF s, k
  <2>4. warm' \in [Users -> [1 .. Contexts -> Keys \cup {Nothing}]]
    BY <2>1, <2>2, <2>3 DEF IInv, TypeOK
  <2>7. TypeOK'
    BY <2>1, <2>2, <2>3, <2>4 DEF IInv, TypeOK, Points, world
  <2>8. SlotInv' /\ ProcInv(p)'
    BY <2>1, <2>2, <2>3 DEF IInv, TypeOK, SlotInv, ProcInv, Busy, Covers
  <2>9. QED
    BY <2>3, <2>7, <2>8, OneProcess DEF IInv, TypeOK
<1>11. ASSUME NEW p \in Procs, Served(p) PROVE IInv'
  <2>1. CASE ctx[p] < Contexts
    <3>1. /\ ctx' = [ctx EXCEPT ![p] = @ + 1]
          /\ pc' = [pc EXCEPT ![p] = "build"]
          /\ diag' = [diag EXCEPT ![p] = Nothing]
          /\ pc[p] = "served"
          /\ UNCHANGED <<world, slots, command, model, linted, temp, warm, commands>>
      BY <1>11, <2>1 DEF Served
    <3>2. ctx[p] + 1 \in 1 .. Contexts
      BY <2>1, CacheAssumption DEF IInv, TypeOK
    <3>3. TypeOK'
      BY <3>1, <3>2 DEF IInv, TypeOK, Points, world
    <3>4. SlotInv' /\ ProcInv(p)'
      BY <3>1 DEF IInv, TypeOK, SlotInv, ProcInv, Busy
    <3>5. QED
      BY <3>1, <3>3, <3>4, OneProcess DEF IInv, TypeOK
  <2>2. CASE ~(ctx[p] < Contexts)
    <3>1. /\ pc' = [pc EXCEPT ![p] = "idle"]
          /\ diag' = [diag EXCEPT ![p] = Nothing]
          /\ UNCHANGED <<world, slots, command, ctx, model, linted, temp, warm, commands>>
      BY <1>11, <2>2 DEF Served
    <3>2. TypeOK'
      BY <3>1 DEF IInv, TypeOK, Points, world
    <3>3. SlotInv' /\ ProcInv(p)'
      BY <3>1 DEF IInv, TypeOK, SlotInv, ProcInv, Busy
    <3>4. QED
      BY <3>1, <3>2, <3>3, OneProcess DEF IInv, TypeOK
  <2>3. QED
    BY <2>1, <2>2
<1>12. ASSUME NEW p \in Procs, Crash(p) PROVE IInv'
  <2>1. TypeOK'
    BY <1>12 DEF Crash, IInv, TypeOK, Points, world
  <2>2. SlotInv' /\ ProcInv(p)'
    BY <1>12 DEF Crash, IInv, TypeOK, SlotInv, ProcInv, Busy, Covers, world
  <2>3. QED
    BY <1>12, <2>1, <2>2, OneProcess DEF Crash, IInv, TypeOK
<1>13. ASSUME NEW c \in Contents, Edit(c) PROVE IInv'
  BY <1>13, CacheAssumption DEF Edit, IInv, TypeOK, SlotInv, ProcInv
<1>14. ASSUME ToggleCandidate PROVE IInv'
  BY <1>14, CacheAssumption DEF ToggleCandidate, IInv, TypeOK, SlotInv, ProcInv
<1>15. ASSUME NEW s \in Slots, NEW e \in {NoEntry, Garbled}, Damage(s, e) PROVE IInv'
  <2>1. /\ slots' = [slots EXCEPT ![s] = e]
        /\ changes' = changes + 1 /\ changes < MaxChanges
        /\ UNCHANGED <<content, shadowed, pc, command, ctx, model, linted, diag, temp, commands>>
    BY <1>15 DEF Damage
  <2>2. warm' \in [Users -> [1 .. Contexts -> Keys \cup {Nothing}]]
    BY <1>15 DEF Damage, Lost, IInv, TypeOK
  <2>3. changes' \in 0 .. MaxChanges
    BY <2>1, CacheAssumption DEF IInv, TypeOK
  <2>4. TypeOK'
    BY <2>1, <2>2, <2>3 DEF IInv, TypeOK
  <2>5. SlotInv'
    BY <2>1, TagAssumption DEF IInv, TypeOK, SlotInv
  <2>6. \A p \in Procs : ProcInv(p)'
    BY <2>1 DEF IInv, ProcInv
  <2>7. QED
    BY <2>4, <2>5, <2>6 DEF IInv
<1>16. CASE UNCHANGED vars
  BY <1>16 DEF vars, IInv, TypeOK, SlotInv, ProcInv
<1>17. QED
  BY <1>1, <1>2, <1>3, <1>4, <1>5, <1>6, <1>7, <1>8, <1>9, <1>10, <1>11, <1>12, <1>13, <1>14, <1>15, <1>16 DEF Next, Ended

\* IInv is an invariant of the specification.
THEOREM Invariance == Spec => []IInv
<1>1. QED
  BY InitInv, StepInv, PTL DEF Spec

\* The variables keep their types.
THEOREM TypeCorrect == Spec => []TypeOK
<1>1. IInv => TypeOK
  BY DEF IInv
<1>2. QED
  BY <1>1, Invariance, PTL

\* For every number of processes sharing the directory: what a process goes
\* on with was computed from its own sources, in its own context, under its own
\* configuration and with the rules in force for its target, overrides included for the
\* API, and for a command when no override matches.
THEOREM ServedIsOwn == Spec => []ServedMatchesInputs
<1>1. IInv => ServedMatchesInputs
  <2> SUFFICES ASSUME IInv, NEW p \in Procs, pc[p] = "served"
               PROVE  /\ Covers(diag[p], command[p], ctx[p], model[p])
                      /\ p \in ApiProcs \/ ~command[p].config.override =>
                            diag[p].rules = EnabledForPath(command[p])
    BY DEF ServedMatchesInputs
  <2>1. /\ command[p] \in Commands /\ model[p] \in Models /\ ctx[p] \in 1 .. Contexts
        /\ p \in ApiProcs => command[p].flags = NoFlags
        /\ diag[p] \in Diags
        /\ Covers(diag[p], command[p], ctx[p], model[p])
        /\ Own(diag[p], User(p))
    BY DEF IInv, TypeOK, ProcInv, Busy
  <2>2. CASE p \in ApiProcs
    <3>1. User(p) = "api"
      BY <2>2, CacheAssumption DEF User
    <3>2. QED
      BY <2>1, <2>2, <3>1, OwnRules
  <2>3. CASE p \notin ApiProcs
    <3>1. User(p) = "cli"
      BY <2>3 DEF User, Procs
    <3>2. QED
      BY <2>1, <2>3, <3>1, OwnRules
  <2>4. QED
    BY <2>2, <2>3
<1>2. QED
  BY <1>1, Invariance, PTL

\* A cancelled analysis never reaches the cache.
THEOREM EntriesAreComplete == Spec => []StoredIsComplete
<1>1. IInv => StoredIsComplete
  BY DEF IInv, SlotInv, Sound, StoredIsComplete
<1>2. QED
  BY <1>1, Invariance, PTL

-----------------------------------------------------------------------------
\* A step that leaves the slots and what is warm alone.
LEMMA WarmKept ==
  ASSUME IInv, WarmInv, UNCHANGED <<slots, warm>>, \A p \in Procs : CarriedInv(p)'
  PROVE  WarmInv'
BY DEF WarmInv, Found

\* A process that is not renaming, and the others as they were.
LEMMA CarriedKept ==
  ASSUME IInv, WarmInv, NEW p \in Procs, pc'[p] # "rename",
         \A q \in Procs \ {p} :
            /\ pc'[q] = pc[q]
            /\ command'[q] = command[q]
            /\ ctx'[q] = ctx[q]
            /\ model'[q] = model[q]
            /\ temp'[q] = temp[q]
  PROVE  \A q \in Procs : CarriedInv(q)'
BY DEF WarmInv, CarriedInv, MyKey

LEMMA WarmStep == IInv /\ WarmInv /\ [Next]_vars => WarmInv'
<1> SUFFICES ASSUME IInv, WarmInv, [Next]_vars PROVE WarmInv'
  OBVIOUS
<1> USE DEF world
<1>1. ASSUME NEW p \in Procs, NEW cmd \in Commands, Start(p, cmd) PROVE WarmInv'
  <2>1. \A q \in Procs : CarriedInv(q)'
    BY <1>1, CarriedKept DEF Start, IInv, TypeOK
  <2>2. QED
    BY <1>1, <2>1, WarmKept DEF Start
<1>2. ASSUME NEW p \in Procs, Build(p) \/ Hit(p) \/ Miss(p) \/ LintOne(p) \/ Analysed(p) \/ Cancel(p)
      PROVE  WarmInv'
  <2>1. \A q \in Procs : CarriedInv(q)'
    BY <1>2, CarriedKept DEF Build, Hit, Miss, LintOne, Analysed, Cancel, IInv, TypeOK
  <2>2. QED
    BY <1>2, <2>1, WarmKept DEF Build, Hit, Miss, LintOne, Analysed, Cancel
<1>3. ASSUME NEW p \in Procs, StoreFails(p) \/ Served(p) \/ Crash(p) PROVE WarmInv'
  <2>1. \A q \in Procs : CarriedInv(q)'
    BY <1>3, CarriedKept DEF StoreFails, Served, Crash, IInv, TypeOK
  <2>2. QED
    BY <1>3, <2>1, WarmKept DEF StoreFails, Served, Crash
<1>4. ASSUME NEW p \in Procs, Store(p) PROVE WarmInv'
  <2>1. temp'[p] = [key |-> MyKey(p), diag |-> diag[p]] /\ MyKey(p)' = MyKey(p)
    BY <1>4 DEF Store, MyKey, IInv, TypeOK
  <2>2. CarriedInv(p)'
    BY <2>1 DEF CarriedInv
  <2>3. \A q \in Procs \ {p} : CarriedInv(q)'
    BY <1>4 DEF Store, IInv, TypeOK, WarmInv, CarriedInv, MyKey
  <2>4. QED
    BY <1>4, <2>2, <2>3, WarmKept DEF Store
<1>5. ASSUME NEW p \in Procs, Rename(p) PROVE WarmInv'
  <2> DEFINE s == MySlot(p)
             k == MyKey(p)
  <2>1. /\ ctx[p] \in 1 .. Contexts /\ s \in Slots
        /\ temp[p] \in Entries /\ temp[p].key = k
    BY <1>5, SlotTyped DEF Rename, IInv, TypeOK, ProcInv, MySlot, WarmInv, CarriedInv
  <2>2. /\ slots' = [slots EXCEPT ![s] = temp[p]]
        /\ warm' = [warm EXCEPT ![User(p)][ctx[p]] = k]
        /\ pc' = [pc EXCEPT ![p] = "served"]
        /\ temp' = [temp EXCEPT ![p] = Nothing]
        /\ UNCHANGED <<command, ctx, model>>
    BY <1>5 DEF Rename
  <2>3. \A q \in Procs : CarriedInv(q)'
    BY <2>2, CarriedKept DEF IInv, TypeOK
  <2>4. ASSUME NEW c \in 1 .. Contexts, warm'["api"][c] # Nothing
        PROVE  slots'[<<"api", c>>] \in Entries /\ slots'[<<"api", c>>].key = warm'["api"][c]
    <3>1. <<"api", c>> \in Slots
      BY DEF Slots
    <3>2. CASE p \in ApiProcs /\ ctx[p] = c
      <4>1. User(p) = "api" /\ s = <<"api", c>>
        BY <3>2, CacheAssumption DEF User, MySlot, SlotOf
      <4> HIDE DEF s, k
      <4>2. slots'[<<"api", c>>] = temp[p]
        BY <2>2, <3>1, <4>1 DEF IInv, TypeOK
      <4>3. warm'["api"] = [warm["api"] EXCEPT ![ctx[p]] = k]
        BY <2>2, <4>1 DEF IInv, TypeOK, Users
      <4>4. warm'["api"][c] = k
        BY <3>2, <4>3 DEF IInv, TypeOK, Users
      <4>5. QED
        BY <2>1, <4>2, <4>4
    <3>3. CASE ~(p \in ApiProcs /\ ctx[p] = c)
      <4>1. s # <<"api", c>> /\ ~(User(p) = "api" /\ ctx[p] = c)
        BY <3>3, <2>1 DEF User, MySlot, SlotOf, Procs
      <4> HIDE DEF s, k
      <4>2. slots'[<<"api", c>>] = slots[<<"api", c>>]
        BY <2>1, <2>2, <3>1, <4>1 DEF IInv, TypeOK
      <4>3. warm'["api"][c] = warm["api"][c]
        BY <2>1, <2>2, <4>1 DEF IInv, TypeOK, User
      <4>4. QED
        BY <2>4, <4>2, <4>3 DEF WarmInv, Found
    <3>4. QED
      BY <3>2, <3>3
  <2>5. QED
    BY <2>3, <2>4 DEF WarmInv, Found
<1>6. ASSUME NEW c \in Contents, Edit(c) \/ ToggleCandidate PROVE WarmInv'
  BY <1>6 DEF Edit, ToggleCandidate, WarmInv, CarriedInv, MyKey, Found
<1>7. ASSUME ToggleCandidate PROVE WarmInv'
  BY <1>7 DEF ToggleCandidate, WarmInv, CarriedInv, MyKey, Found
<1>8. ASSUME NEW s \in Slots, NEW e \in {NoEntry, Garbled}, Damage(s, e) PROVE WarmInv'
  <2>1. \A q \in Procs : CarriedInv(q)'
    BY <1>8 DEF Damage, WarmInv, CarriedInv, MyKey
  <2>2. ASSUME NEW c \in 1 .. Contexts, warm'["api"][c] # Nothing
        PROVE  slots'[<<"api", c>>] \in Entries /\ slots'[<<"api", c>>].key = warm'["api"][c]
    <3>1. warm'["api"][c] = IF s = <<"api", c>> THEN Nothing ELSE warm["api"][c]
      BY <1>8 DEF Damage, Lost, Users
    <3>2. s # <<"api", c>> /\ warm'["api"][c] = warm["api"][c]
      BY <2>2, <3>1
    <3>3. slots'[<<"api", c>>] = slots[<<"api", c>>]
      BY <1>8, <3>2 DEF Damage, IInv, TypeOK, Slots
    <3>4. QED
      BY <2>2, <3>2, <3>3 DEF WarmInv, Found
  <2>3. QED
    BY <2>1, <2>2 DEF WarmInv, Found
<1>9. CASE UNCHANGED vars
  BY <1>9 DEF vars, WarmInv, CarriedInv, MyKey, Found
<1>10. QED
  BY <1>1, <1>2, <1>3, <1>4, <1>5, <1>6, <1>7, <1>8, <1>9 DEF Next, Ended

\* What a user of the API stored, and nobody deleted or damaged, is found again when the
\* inputs are the same, whatever processes of the command line and other contexts store.
THEOREM StoredIsFound == Spec => []UnchangedInputsHit
<1>1. Init => WarmInv
  BY DEF Init, WarmInv, CarriedInv, Users
<1>2. IInv /\ WarmInv => UnchangedInputsHit
  <2> SUFFICES ASSUME IInv, WarmInv, NEW p \in ApiProcs, pc[p] = "load",
                      warm["api"][ctx[p]] = MyKey(p)
               PROVE  Found(MySlot(p), MyKey(p))
    BY DEF UnchangedInputsHit
  <2>1. /\ command[p] \in Commands /\ model[p] \in Models /\ ctx[p] \in 1 .. Contexts
    BY DEF IInv, TypeOK, ProcInv, Busy, Procs
  <2>2. MyKey(p) \in Keys
    BY <2>1, CacheAssumption
       DEF MyKey, KeyOf, Keys, User, Users, Commands, Models, Enabled, ConfigFile, Forced
  <2>3. MySlot(p) = <<"api", ctx[p]>>
    BY CacheAssumption DEF MySlot, SlotOf
  <2>4. QED
    BY <2>1, <2>2, <2>3, TagAssumption DEF WarmInv
<1>3. QED
  BY <1>1, <1>2, WarmStep, Invariance, PTL DEF Spec
=============================================================================
