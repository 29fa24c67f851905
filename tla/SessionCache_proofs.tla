------------------------- MODULE SessionCache_proofs -------------------------
(***************************************************************************)
(* What a ParseCache keeps for the builds that share it.  Parses: what a   *)
(* build holds when it is through with a file was made from the content it *)
(* asked for, for any number of builds.  Probes: what is remembered of the *)
(* file system is what is on the disk, as far as it is promised.  The      *)
(* invariant says of every piece of the memory, and of everything a build  *)
(* in flight has gathered, that while no file has changed since a clean    *)
(* start it agrees with the disk (MemoryInv and BuildInv): a build in      *)
(* flight may put back what it holds at any time.                          *)
(***************************************************************************)
EXTENDS FileProbes, WellFoundedInduction, TLAPS

(* Parses *)

USE DEF Procs

\* An entry that matches carries the content and the trivia asked for.
LEMMA MatchServes ==
  ASSUME NEW e \in Entries \cup {None}, NEW hash \in Contents, NEW discard \in BOOLEAN,
         Matches(e, hash, discard), e # None => EntryOK(e)
  PROVE  e.tree \in Trees /\ e.tree.content = hash /\ (~discard => ~e.tree.discarded)
  BY DEF Matches, EntryOK, Entries

LEMMA InitParses == Init => IInv
<1> SUFFICES ASSUME Init PROVE IInv
  OBVIOUS
<1>1. TypeOK
  BY ParseCacheAssumption DEF Init, TypeOK, Points, Empty
<1>2. CacheInv
  BY DEF Init, CacheInv, Empty
<1>3. \A p \in Procs : ProcInv(p)
  BY DEF Init, ProcInv, HasTree, HasIndex, HasWalk, Finished
<1>4. QED
  BY <1>1, <1>2, <1>3 DEF IInv

\* A step of p disturbs nobody else's part of the invariant.
LEMMA OneProcess ==
  ASSUME IInv, TypeOK', CacheInv', NEW p \in Procs, ProcInv(p)',
         \A q \in Procs \ {p} :
            /\ pc'[q] = pc[q]
            /\ job'[q] = job[q]
            /\ parsed'[q] = parsed[q]
            /\ idx'[q] = idx[q]
            /\ walk'[q] = walk[q]
            /\ sem'[q] = sem[q]
  PROVE  IInv'
<1>1. \A q \in Procs \ {p} : ProcInv(q)'
  BY DEF IInv, ProcInv, Finished
<1>2. QED
  BY <1>1 DEF IInv

LEMMA StepParses == IInv /\ [Next]_vars => IInv'
<1> SUFFICES ASSUME IInv, [Next]_vars PROVE IInv'
  OBVIOUS
<1>0. TypeOK
  BY DEF IInv
<1>1. ASSUME NEW p \in Procs, NEW j \in Jobs, Start(p, j) PROVE IInv'
  <2>5. TypeOK'
    BY <1>1 DEF Start, IInv, TypeOK, Points, caches, held
  <2>6. CacheInv'
    BY <1>1 DEF Start, IInv, TypeOK, Points, caches, held, CacheInv
  <2>7. ProcInv(p)'
    BY <1>1
       DEF Start, IInv, TypeOK, Points, caches, held, ProcInv, HasTree, HasIndex,
           HasWalk, Finished
  <2>8. QED
    BY <1>1, <2>5, <2>6, <2>7, OneProcess DEF Start, IInv, TypeOK, Points, caches, held
<1>2. ASSUME NEW p \in Procs, Lookup(p) PROVE IInv'
  <2>1. /\ job[p] \in Jobs /\ job[p].path \in Paths /\ job[p].content \in Contents
        /\ job[p].defines \in Defines /\ job[p].discard \in Profiles
        /\ pc[p] = "lookup"
    BY <1>2
       DEF Lookup, IInv, TypeOK, Points, caches, held, ProcInv, HasTree, HasIndex,
           HasWalk, Finished, Jobs, Key, AnalysisKeys
  <2>2. CASE Matches(entries[job[p].path], job[p].content, job[p].discard)
    <3>1. /\ parsed' = [parsed EXCEPT ![p] = entries[job[p].path].tree]
          /\ pc' = [pc EXCEPT ![p] = IF p \in Hosts THEN "done" ELSE "index"]
          /\ UNCHANGED <<caches, job, idx, walk, sem, trees>>
      BY <1>2, <2>2 DEF Lookup
    <3>2. /\ entries[job[p].path].tree \in Trees
          /\ entries[job[p].path].tree.content = job[p].content
          /\ ~job[p].discard => ~entries[job[p].path].tree.discarded
      BY <2>1, <2>2, MatchServes, ParseCacheAssumption DEF IInv, TypeOK, CacheInv
    <3>5. TypeOK'
      BY <2>1, <3>1, <3>2 DEF IInv, TypeOK, Points, caches, held
    <3>6. CacheInv'
      BY <2>1, <3>1, <3>2 DEF IInv, TypeOK, Points, caches, held, CacheInv, EntryOK, WalkOK
    <3>7. ProcInv(p)'
      BY <1>0, <2>1, <3>1, <3>2, ParseCacheAssumption
         DEF TypeOK, caches, held, ProcInv, HasTree, HasIndex, HasWalk, Finished, WalkOK
    <3>8. QED
      BY <2>1, <3>1, <3>2, <3>5, <3>6, <3>7, OneProcess
         DEF IInv, TypeOK, Points, caches, held
  <2>3. CASE ~Matches(entries[job[p].path], job[p].content, job[p].discard)
    <3>1. /\ pc' = [pc EXCEPT ![p] = "parse"]
          /\ UNCHANGED <<caches, job, parsed, idx, walk, sem, trees>>
      BY <1>2, <2>3 DEF Lookup
    <3>5. TypeOK'
      BY <2>1, <3>1 DEF IInv, TypeOK, Points, caches, held
    <3>6. CacheInv'
      BY <2>1, <3>1 DEF IInv, TypeOK, Points, caches, held, CacheInv, EntryOK, WalkOK
    <3>7. ProcInv(p)'
      BY <1>0, <2>1, <3>1, ParseCacheAssumption
         DEF TypeOK, caches, held, ProcInv, HasTree, HasIndex, HasWalk, Finished, WalkOK
    <3>8. QED
      BY <2>1, <3>1, <3>5, <3>6, <3>7, OneProcess DEF IInv, TypeOK, Points, caches, held
  <2>4. QED
    BY <2>1, <2>2, <2>3 DEF Lookup
<1>3. ASSUME NEW p \in Procs, Parse(p) PROVE IInv'
  <2>1. /\ job[p] \in Jobs /\ job[p].content \in Contents /\ job[p].discard \in BOOLEAN
    BY <1>3, ParseCacheAssumption DEF Parse, IInv, ProcInv, Jobs
  <2> DEFINE t == [content |-> job[p].content, discarded |-> job[p].discard, id |-> trees]
  <2>2. /\ t \in Trees /\ t.content = job[p].content /\ t.discarded = job[p].discard
        /\ trees + 1 \in 0 .. MaxTrees
    BY <1>3, <2>1, ParseCacheAssumption DEF Parse, IInv, TypeOK, Trees
  <2>3. /\ parsed' = [parsed EXCEPT ![p] = t]
        /\ trees' = trees + 1
        /\ \/ pc' = [pc EXCEPT ![p] = "insert"]
           \/ p \in Hosts /\ pc' = [pc EXCEPT ![p] = "prepare"]
        /\ UNCHANGED <<caches, job, idx, walk, sem>>
    BY <1>3 DEF Parse
  <2> HIDE DEF t
  <2>5. TypeOK'
    BY <2>2, <2>3 DEF IInv, TypeOK, Points, caches, held
  <2>6. CacheInv'
    BY <2>3 DEF IInv, TypeOK, Points, caches, held, CacheInv
  <2>7. ProcInv(p)'
    BY <1>0, <2>1, <2>2, <2>3
       DEF TypeOK, caches, held, ProcInv, HasTree, HasIndex, HasWalk, Finished
  <2>8. QED
    BY <2>3, <2>5, <2>6, <2>7, OneProcess DEF IInv, TypeOK, Points, caches, held
<1>4. ASSUME NEW p \in Procs, InsertParse(p) PROVE IInv'
  <2>1. /\ job[p] \in Jobs /\ job[p].path \in Paths /\ job[p].content \in Contents
        /\ job[p].defines \in Defines /\ job[p].discard \in Profiles
        /\ parsed[p] \in Trees /\ parsed[p].content = job[p].content
        /\ ~job[p].discard => ~parsed[p].discarded
        /\ pc[p] = "insert"
    BY <1>4
       DEF InsertParse, IInv, TypeOK, Points, caches, held, ProcInv, HasTree, HasIndex,
           HasWalk, Finished, Jobs, Key, AnalysisKeys
  <2>2. CASE Matches(entries[job[p].path], job[p].content, job[p].discard)
    <3>1. /\ parsed' = [parsed EXCEPT ![p] = entries[job[p].path].tree]
          /\ pc' = [pc EXCEPT ![p] = IF p \in Hosts THEN "done" ELSE "index"]
          /\ UNCHANGED <<entries, index, walks, semantics, job, idx, walk, sem, trees>>
      BY <1>4, <2>2 DEF InsertParse
    <3>2. /\ entries[job[p].path].tree \in Trees
          /\ entries[job[p].path].tree.content = job[p].content
          /\ ~job[p].discard => ~entries[job[p].path].tree.discarded
      BY <2>1, <2>2, MatchServes, ParseCacheAssumption DEF IInv, TypeOK, CacheInv
    <3>5. TypeOK'
      BY <2>1, <3>1, <3>2 DEF IInv, TypeOK, Points, caches, held
    <3>6. CacheInv'
      BY <2>1, <3>1, <3>2 DEF IInv, TypeOK, Points, caches, held, CacheInv, EntryOK, WalkOK
    <3>7. ProcInv(p)'
      BY <1>0, <2>1, <3>1, <3>2, ParseCacheAssumption
         DEF TypeOK, caches, held, ProcInv, HasTree, HasIndex, HasWalk, Finished, WalkOK
    <3>8. QED
      BY <2>1, <3>1, <3>2, <3>5, <3>6, <3>7, OneProcess
         DEF IInv, TypeOK, Points, caches, held
  <2>3. CASE ~Matches(entries[job[p].path], job[p].content, job[p].discard)
    <3>1. /\ entries' = [entries EXCEPT ![job[p].path] =
                [hash |-> job[p].content, discard |-> job[p].discard,
                 allow |-> FALSE, tree |-> parsed[p]]]
          /\ pc' = [pc EXCEPT ![p] = IF p \in Hosts THEN "done" ELSE "index"]
          /\ UNCHANGED <<index, walks, semantics, job, parsed, idx, walk, sem, trees>>
      BY <1>4, <2>3 DEF InsertParse
    <3>2. LET e == [hash |-> job[p].content, discard |-> job[p].discard,
                    allow |-> FALSE, tree |-> parsed[p]]
          IN  e \in Entries /\ EntryOK(e)
      BY <2>1, ParseCacheAssumption DEF Entries, EntryOK
    <3>5. TypeOK'
      BY <2>1, <3>1, <3>2 DEF IInv, TypeOK, Points, caches, held
    <3>6. CacheInv'
      BY <2>1, <3>1, <3>2 DEF IInv, TypeOK, Points, caches, held, CacheInv, EntryOK, WalkOK
    <3>7. ProcInv(p)'
      BY <1>0, <2>1, <3>1, <3>2, ParseCacheAssumption
         DEF TypeOK, caches, held, ProcInv, HasTree, HasIndex, HasWalk, Finished, WalkOK
    <3>8. QED
      BY <2>1, <3>1, <3>2, <3>5, <3>6, <3>7, OneProcess
         DEF IInv, TypeOK, Points, caches, held
  <2>4. QED
    BY <2>1, <2>2, <2>3 DEF InsertParse
<1>5. ASSUME NEW p \in Procs, Prepare(p) PROVE IInv'
  <2>1. /\ job[p] \in Jobs /\ job[p].path \in Paths /\ job[p].content \in Contents
        /\ job[p].defines \in Defines /\ job[p].discard \in Profiles
        /\ parsed[p] \in Trees /\ parsed[p].content = job[p].content
        /\ ~job[p].discard => ~parsed[p].discarded
        /\ pc[p] = "prepare"
        /\ p \in Hosts
    BY <1>5
       DEF Prepare, IInv, TypeOK, Points, caches, held, ProcInv, HasTree, HasIndex,
           HasWalk, Finished, Jobs, Key, AnalysisKeys
  <2>2. CASE Matches(entries[job[p].path], job[p].content, job[p].discard)
    <3>1. /\ pc' = [pc EXCEPT ![p] = "done"]
          /\ UNCHANGED <<caches, job, held, trees>>
      BY <1>5, <2>2 DEF Prepare, caches
    <3>5. TypeOK'
      BY <2>1, <3>1 DEF IInv, TypeOK, Points, caches, held
    <3>6. CacheInv'
      BY <2>1, <3>1 DEF IInv, TypeOK, Points, caches, held, CacheInv, EntryOK, WalkOK
    <3>7. ProcInv(p)'
      BY <1>0, <2>1, <3>1, ParseCacheAssumption
         DEF TypeOK, caches, held, ProcInv, HasTree, HasIndex, HasWalk, Finished, WalkOK
    <3>8. QED
      BY <2>1, <3>1, <3>5, <3>6, <3>7, OneProcess DEF IInv, TypeOK, Points, caches, held
  <2>3. CASE ~Matches(entries[job[p].path], job[p].content, job[p].discard)
    <3>1. /\ entries' = [entries EXCEPT ![job[p].path] =
                [hash |-> job[p].content, discard |-> job[p].discard,
                 allow |-> TRUE, tree |-> parsed[p]]]
          /\ pc' = [pc EXCEPT ![p] = "done"]
          /\ UNCHANGED <<index, walks, semantics, job, held, trees>>
      BY <1>5, <2>3 DEF Prepare, caches
    <3>2. LET e == [hash |-> job[p].content, discard |-> job[p].discard,
                    allow |-> TRUE, tree |-> parsed[p]]
          IN  e \in Entries /\ EntryOK(e)
      BY <2>1, ParseCacheAssumption DEF Entries, EntryOK
    <3>5. TypeOK'
      BY <2>1, <3>1, <3>2 DEF IInv, TypeOK, Points, caches, held
    <3>6. CacheInv'
      BY <2>1, <3>1, <3>2 DEF IInv, TypeOK, Points, caches, held, CacheInv, EntryOK, WalkOK
    <3>7. ProcInv(p)'
      BY <1>0, <2>1, <3>1, <3>2, ParseCacheAssumption
         DEF TypeOK, caches, held, ProcInv, HasTree, HasIndex, HasWalk, Finished, WalkOK
    <3>8. QED
      BY <2>1, <3>1, <3>2, <3>5, <3>6, <3>7, OneProcess
         DEF IInv, TypeOK, Points, caches, held
  <2>4. QED
    BY <2>1, <2>2, <2>3 DEF Prepare
<1>6. ASSUME NEW p \in Procs, GetIndex(p) PROVE IInv'
  <2>1. /\ job[p] \in Jobs /\ job[p].path \in Paths /\ job[p].content \in Contents
        /\ job[p].defines \in Defines /\ job[p].discard \in Profiles
        /\ parsed[p] \in Trees /\ parsed[p].content = job[p].content
        /\ ~job[p].discard => ~parsed[p].discarded
        /\ pc[p] = "index"
    BY <1>6
       DEF GetIndex, IInv, TypeOK, Points, caches, held, ProcInv, HasTree, HasIndex,
           HasWalk, Finished, Jobs, Key, AnalysisKeys
  <2>2. CASE index[job[p].path] # None /\ index[job[p].path].hash = job[p].content
    <3>1. /\ idx' = [idx EXCEPT ![p] = index[job[p].path]]
          /\ pc' = [pc EXCEPT ![p] = "walk"]
          /\ UNCHANGED <<caches, job, parsed, walk, sem, trees>>
      BY <1>6, <2>2 DEF GetIndex
    <3>2. /\ index[job[p].path] \in Indexes /\ index[job[p].path].hash = job[p].content
          /\ index[job[p].path].tree.content = job[p].content
      BY <2>1, <2>2 DEF IInv, TypeOK, CacheInv
    <3>5. TypeOK'
      BY <2>1, <3>1, <3>2 DEF IInv, TypeOK, Points, caches, held
    <3>6. CacheInv'
      BY <2>1, <3>1, <3>2 DEF IInv, TypeOK, Points, caches, held, CacheInv, EntryOK, WalkOK
    <3>7. ProcInv(p)'
      BY <1>0, <2>1, <3>1, <3>2, ParseCacheAssumption
         DEF TypeOK, caches, held, ProcInv, HasTree, HasIndex, HasWalk, Finished, WalkOK
    <3>8. QED
      BY <2>1, <3>1, <3>2, <3>5, <3>6, <3>7, OneProcess
         DEF IInv, TypeOK, Points, caches, held
  <2>3. CASE ~(index[job[p].path] # None /\ index[job[p].path].hash = job[p].content)
    <3>1. /\ idx' = [idx EXCEPT ![p] = [hash |-> job[p].content, tree |-> parsed[p]]]
          /\ pc' = [pc EXCEPT ![p] = "putindex"]
          /\ UNCHANGED <<caches, job, parsed, walk, sem, trees>>
      BY <1>6, <2>3 DEF GetIndex
    <3>2. LET x == [hash |-> job[p].content, tree |-> parsed[p]]
          IN  x \in Indexes /\ x.hash = job[p].content /\ x.tree.content = job[p].content
      BY <2>1 DEF Indexes
    <3>5. TypeOK'
      BY <2>1, <3>1, <3>2 DEF IInv, TypeOK, Points, caches, held
    <3>6. CacheInv'
      BY <2>1, <3>1, <3>2 DEF IInv, TypeOK, Points, caches, held, CacheInv, EntryOK, WalkOK
    <3>3. idx'[p] \in Indexes /\ idx'[p].hash = job[p].content /\ idx'[p].tree.content = job[p].content
      BY <1>0, <3>1, <3>2 DEF TypeOK
    <3>4. pc'[p] = "putindex" /\ UNCHANGED <<job, parsed>>
      BY <1>0, <3>1 DEF TypeOK
    <3>7. ProcInv(p)'
      BY <2>1, <3>3, <3>4 DEF ProcInv, HasTree, HasIndex, HasWalk, Finished
    <3>8. QED
      BY <2>1, <3>1, <3>2, <3>5, <3>6, <3>7, OneProcess
         DEF IInv, TypeOK, Points, caches, held
  <2>4. QED
    BY <2>1, <2>2, <2>3 DEF GetIndex
<1>7. ASSUME NEW p \in Procs, PutIndex(p) PROVE IInv'
  <2>1. /\ job[p] \in Jobs /\ job[p].path \in Paths /\ pc[p] = "putindex"
        /\ idx[p] \in Indexes /\ idx[p].hash = job[p].content
        /\ idx[p].tree.content = job[p].content
    BY <1>7 DEF PutIndex, IInv, ProcInv, HasIndex, Jobs
  <2>2. /\ index' = [index EXCEPT ![job[p].path] = idx[p]]
        /\ pc' = [pc EXCEPT ![p] = "walk"]
        /\ UNCHANGED <<entries, walks, semantics, job, held, trees>>
    BY <1>7 DEF PutIndex
  <2>3. TypeOK'
    BY <2>1, <2>2 DEF IInv, TypeOK, Points, caches, held
  <2>4. CacheInv'
    BY <2>1, <2>2 DEF IInv, TypeOK, CacheInv
  <2>5. ProcInv(p)'
    BY <2>1, <2>2 DEF IInv, TypeOK, held, ProcInv, HasTree, HasIndex, HasWalk, Finished
  <2>6. QED
    BY <2>2, <2>3, <2>4, <2>5, OneProcess DEF IInv, TypeOK, held
<1>8. ASSUME NEW p \in Procs, GetWalk(p) PROVE IInv'
  <2>1. /\ job[p] \in Jobs /\ job[p].path \in Paths /\ job[p].content \in Contents
        /\ job[p].defines \in Defines /\ job[p].discard \in Profiles
        /\ parsed[p] \in Trees /\ parsed[p].content = job[p].content
        /\ ~job[p].discard => ~parsed[p].discarded
        /\ idx[p] \in Indexes /\ idx[p].hash = job[p].content
        /\ idx[p].tree.content = job[p].content
        /\ Key(p) \in AnalysisKeys /\ Key(p) = <<job[p].path, job[p].defines>>
        /\ pc[p] = "walk"
    BY <1>8
       DEF GetWalk, IInv, TypeOK, Points, caches, held, ProcInv, HasTree, HasIndex,
           HasWalk, Finished, Jobs, Key, AnalysisKeys
  <2>2. CASE walks[Key(p)] # None /\ walks[Key(p)].hash = job[p].content
    <3>1. /\ walk' = [walk EXCEPT ![p] = walks[Key(p)]]
          /\ pc' = [pc EXCEPT ![p] = "semantic"]
          /\ UNCHANGED <<caches, job, parsed, idx, sem, trees>>
      BY <1>8, <2>2 DEF GetWalk
    <3>2. /\ walks[Key(p)] \in Walks /\ walks[Key(p)].hash = job[p].content
          /\ WalkOK(walks[Key(p)], job[p].defines)
      BY <2>1, <2>2 DEF IInv, TypeOK, CacheInv
    <3>5. TypeOK'
      BY <2>1, <3>1, <3>2 DEF IInv, TypeOK, Points, caches, held
    <3>6. CacheInv'
      BY <2>1, <3>1, <3>2 DEF IInv, TypeOK, Points, caches, held, CacheInv, EntryOK, WalkOK
    <3>7. ProcInv(p)'
      BY <1>0, <2>1, <3>1, <3>2, ParseCacheAssumption
         DEF TypeOK, caches, held, ProcInv, HasTree, HasIndex, HasWalk, Finished, WalkOK
    <3>8. QED
      BY <2>1, <3>1, <3>2, <3>5, <3>6, <3>7, OneProcess
         DEF IInv, TypeOK, Points, caches, held
  <2>3. CASE ~(walks[Key(p)] # None /\ walks[Key(p)].hash = job[p].content)
    <3>1. /\ walk' = [walk EXCEPT ![p] =
                [hash |-> job[p].content, defines |-> job[p].defines,
                 tree |-> parsed[p], index |-> idx[p].tree]]
          /\ pc' = [pc EXCEPT ![p] = "putwalk"]
          /\ UNCHANGED <<caches, job, parsed, idx, sem, trees>>
      BY <1>8, <2>3 DEF GetWalk
    <3>2. LET w == [hash |-> job[p].content, defines |-> job[p].defines,
                    tree |-> parsed[p], index |-> idx[p].tree]
          IN  w \in Walks /\ w.hash = job[p].content /\ WalkOK(w, job[p].defines)
      BY <2>1 DEF Walks, WalkOK, Indexes
    <3>5. TypeOK'
      BY <2>1, <3>1, <3>2 DEF IInv, TypeOK, Points, caches, held
    <3>6. CacheInv'
      BY <2>1, <3>1, <3>2 DEF IInv, TypeOK, Points, caches, held, CacheInv, EntryOK, WalkOK
    <3>3. walk'[p] \in Walks /\ walk'[p].hash = job[p].content /\ WalkOK(walk'[p], job[p].defines)
      BY <1>0, <3>1, <3>2 DEF TypeOK
    <3>4. pc'[p] = "putwalk" /\ UNCHANGED <<job, parsed, idx>>
      BY <1>0, <3>1 DEF TypeOK
    <3>7. ProcInv(p)'
      BY <2>1, <3>3, <3>4 DEF ProcInv, HasTree, HasIndex, HasWalk, Finished
    <3>8. QED
      BY <2>1, <3>1, <3>2, <3>5, <3>6, <3>7, OneProcess
         DEF IInv, TypeOK, Points, caches, held
  <2>4. QED
    BY <2>1, <2>2, <2>3 DEF GetWalk
<1>9. ASSUME NEW p \in Procs, PutWalk(p) PROVE IInv'
  <2>1. /\ job[p] \in Jobs /\ job[p].path \in Paths /\ job[p].content \in Contents
        /\ job[p].defines \in Defines /\ job[p].discard \in Profiles
        /\ parsed[p] \in Trees /\ parsed[p].content = job[p].content
        /\ ~job[p].discard => ~parsed[p].discarded
        /\ idx[p] \in Indexes /\ idx[p].hash = job[p].content
        /\ idx[p].tree.content = job[p].content
        /\ walk[p] \in Walks /\ walk[p].hash = job[p].content
        /\ WalkOK(walk[p], job[p].defines)
        /\ Key(p) \in AnalysisKeys /\ Key(p) = <<job[p].path, job[p].defines>>
        /\ pc[p] = "putwalk"
    BY <1>9
       DEF PutWalk, IInv, TypeOK, Points, caches, held, ProcInv, HasTree, HasIndex,
           HasWalk, Finished, Jobs, Key, AnalysisKeys
  <2>2. CASE walks[Key(p)] = None /\ Full
    <3>1. /\ walks' = [k \in AnalysisKeys |-> IF k = Key(p) THEN walk[p] ELSE None]
          /\ semantics' = Empty
          /\ pc' = [pc EXCEPT ![p] = "semantic"]
          /\ UNCHANGED <<entries, index, job, held, trees>>
      BY <1>9, <2>2 DEF PutWalk, Empty
    <3>2. walks' \in [AnalysisKeys -> Walks \cup {None}] /\ semantics' = [k \in AnalysisKeys |-> None]
      BY <2>1, <3>1 DEF Empty
    <3>5. TypeOK'
      BY <2>1, <3>1, <3>2 DEF IInv, TypeOK, Points, caches, held
    <3>6. CacheInv'
      BY <2>1, <3>1, <3>2 DEF IInv, TypeOK, Points, caches, held, CacheInv, EntryOK, WalkOK
    <3>7. ProcInv(p)'
      BY <1>0, <2>1, <3>1, <3>2, ParseCacheAssumption
         DEF TypeOK, caches, held, ProcInv, HasTree, HasIndex, HasWalk, Finished, WalkOK
    <3>8. QED
      BY <2>1, <3>1, <3>2, <3>5, <3>6, <3>7, OneProcess
         DEF IInv, TypeOK, Points, caches, held
  <2>3. CASE ~(walks[Key(p)] = None /\ Full)
    <3>1. /\ walks' = [walks EXCEPT ![Key(p)] = walk[p]]
          /\ pc' = [pc EXCEPT ![p] = "semantic"]
          /\ UNCHANGED <<entries, index, semantics, job, held, trees>>
      BY <1>9, <2>3 DEF PutWalk, Empty
    <3>5. TypeOK'
      BY <2>1, <3>1 DEF IInv, TypeOK, Points, caches, held
    <3>6. CacheInv'
      BY <2>1, <3>1 DEF IInv, TypeOK, Points, caches, held, CacheInv, EntryOK, WalkOK
    <3>7. ProcInv(p)'
      BY <1>0, <2>1, <3>1, ParseCacheAssumption
         DEF TypeOK, caches, held, ProcInv, HasTree, HasIndex, HasWalk, Finished, WalkOK
    <3>8. QED
      BY <2>1, <3>1, <3>5, <3>6, <3>7, OneProcess DEF IInv, TypeOK, Points, caches, held
  <2>4. QED
    BY <2>1, <2>2, <2>3 DEF PutWalk
<1>10. ASSUME NEW p \in Procs, GetSemantic(p) PROVE IInv'
  <2>1. /\ job[p] \in Jobs /\ job[p].path \in Paths /\ job[p].content \in Contents
        /\ job[p].defines \in Defines /\ job[p].discard \in Profiles
        /\ parsed[p] \in Trees /\ parsed[p].content = job[p].content
        /\ ~job[p].discard => ~parsed[p].discarded
        /\ idx[p] \in Indexes /\ idx[p].hash = job[p].content
        /\ idx[p].tree.content = job[p].content
        /\ walk[p] \in Walks /\ walk[p].hash = job[p].content
        /\ WalkOK(walk[p], job[p].defines)
        /\ Key(p) \in AnalysisKeys /\ Key(p) = <<job[p].path, job[p].defines>>
        /\ pc[p] = "semantic"
    BY <1>10
       DEF GetSemantic, IInv, TypeOK, Points, caches, held, ProcInv, HasTree, HasIndex,
           HasWalk, Finished, Jobs, Key, AnalysisKeys
  <2>2. CASE semantics[Key(p)] # None /\ semantics[Key(p)].hash = job[p].content
    <3>1. /\ sem' = [sem EXCEPT ![p] = semantics[Key(p)]]
          /\ pc' = [pc EXCEPT ![p] = "done"]
          /\ UNCHANGED <<caches, job, parsed, idx, walk, trees>>
      BY <1>10, <2>2 DEF GetSemantic
    <3>2. /\ semantics[Key(p)] \in Semantics /\ semantics[Key(p)].hash = job[p].content
          /\ semantics[Key(p)].tree.content = job[p].content
      BY <2>1, <2>2 DEF IInv, TypeOK, CacheInv
    <3>5. TypeOK'
      BY <2>1, <3>1, <3>2 DEF IInv, TypeOK, Points, caches, held
    <3>6. CacheInv'
      BY <2>1, <3>1, <3>2 DEF IInv, TypeOK, Points, caches, held, CacheInv, EntryOK, WalkOK
    <3>7. ProcInv(p)'
      BY <1>0, <2>1, <3>1, <3>2, ParseCacheAssumption
         DEF TypeOK, caches, held, ProcInv, HasTree, HasIndex, HasWalk, Finished, WalkOK
    <3>8. QED
      BY <2>1, <3>1, <3>2, <3>5, <3>6, <3>7, OneProcess
         DEF IInv, TypeOK, Points, caches, held
  <2>3. CASE ~(semantics[Key(p)] # None /\ semantics[Key(p)].hash = job[p].content)
    <3>1. /\ sem' = [sem EXCEPT ![p] =
                [hash |-> job[p].content, tree |-> parsed[p], walk |-> walk[p].tree]]
          /\ pc' = [pc EXCEPT ![p] = "putsemantic"]
          /\ UNCHANGED <<caches, job, parsed, idx, walk, trees>>
      BY <1>10, <2>3 DEF GetSemantic
    <3>2. LET s == [hash |-> job[p].content, tree |-> parsed[p], walk |-> walk[p].tree]
          IN  s \in Semantics /\ s.hash = job[p].content /\ s.tree.content = job[p].content
      BY <2>1 DEF Walks, Semantics
    <3>5. TypeOK'
      BY <2>1, <3>1, <3>2 DEF IInv, TypeOK, Points, caches, held
    <3>6. CacheInv'
      BY <2>1, <3>1, <3>2 DEF IInv, TypeOK, Points, caches, held, CacheInv, EntryOK, WalkOK
    <3>3. sem'[p] \in Semantics /\ sem'[p].hash = job[p].content /\ sem'[p].tree.content = job[p].content
      BY <1>0, <3>1, <3>2 DEF TypeOK
    <3>4. pc'[p] = "putsemantic" /\ UNCHANGED <<job, parsed, idx, walk>>
      BY <1>0, <3>1 DEF TypeOK
    <3>7. ProcInv(p)'
      BY <2>1, <3>3, <3>4 DEF ProcInv, HasTree, HasIndex, HasWalk, Finished
    <3>8. QED
      BY <2>1, <3>1, <3>2, <3>5, <3>6, <3>7, OneProcess
         DEF IInv, TypeOK, Points, caches, held
  <2>4. QED
    BY <2>1, <2>2, <2>3 DEF GetSemantic
<1>11. ASSUME NEW p \in Procs, PutSemantic(p) PROVE IInv'
  <2>1. /\ job[p] \in Jobs /\ job[p].path \in Paths /\ job[p].content \in Contents
        /\ job[p].defines \in Defines /\ job[p].discard \in Profiles
        /\ parsed[p] \in Trees /\ parsed[p].content = job[p].content
        /\ ~job[p].discard => ~parsed[p].discarded
        /\ idx[p] \in Indexes /\ idx[p].hash = job[p].content
        /\ idx[p].tree.content = job[p].content
        /\ walk[p] \in Walks /\ walk[p].hash = job[p].content
        /\ WalkOK(walk[p], job[p].defines)
        /\ sem[p] \in Semantics /\ sem[p].hash = job[p].content
        /\ sem[p].tree.content = job[p].content
        /\ Key(p) \in AnalysisKeys /\ Key(p) = <<job[p].path, job[p].defines>>
        /\ pc[p] = "putsemantic"
    BY <1>11
       DEF PutSemantic, IInv, TypeOK, Points, caches, held, ProcInv, HasTree, HasIndex,
           HasWalk, Finished, Jobs, Key, AnalysisKeys
  <2>2. CASE semantics[Key(p)] = None /\ Full
    <3>1. /\ semantics' = [k \in AnalysisKeys |-> IF k = Key(p) THEN sem[p] ELSE None]
          /\ walks' = Empty
          /\ pc' = [pc EXCEPT ![p] = "done"]
          /\ UNCHANGED <<entries, index, job, held, trees>>
      BY <1>11, <2>2 DEF PutSemantic, Empty
    <3>2. semantics' \in [AnalysisKeys -> Semantics \cup {None}] /\ walks' = [k \in AnalysisKeys |-> None]
      BY <2>1, <3>1 DEF Empty
    <3>5. TypeOK'
      BY <2>1, <3>1, <3>2 DEF IInv, TypeOK, Points, caches, held
    <3>6. CacheInv'
      BY <2>1, <3>1, <3>2 DEF IInv, TypeOK, Points, caches, held, CacheInv, EntryOK, WalkOK
    <3>7. ProcInv(p)'
      BY <1>0, <2>1, <3>1, <3>2, ParseCacheAssumption
         DEF TypeOK, caches, held, ProcInv, HasTree, HasIndex, HasWalk, Finished, WalkOK
    <3>8. QED
      BY <2>1, <3>1, <3>2, <3>5, <3>6, <3>7, OneProcess
         DEF IInv, TypeOK, Points, caches, held
  <2>3. CASE ~(semantics[Key(p)] = None /\ Full)
    <3>1. /\ semantics' = [semantics EXCEPT ![Key(p)] = sem[p]]
          /\ pc' = [pc EXCEPT ![p] = "done"]
          /\ UNCHANGED <<entries, index, walks, job, held, trees>>
      BY <1>11, <2>3 DEF PutSemantic, Empty
    <3>5. TypeOK'
      BY <2>1, <3>1 DEF IInv, TypeOK, Points, caches, held
    <3>6. CacheInv'
      BY <2>1, <3>1 DEF IInv, TypeOK, Points, caches, held, CacheInv, EntryOK, WalkOK
    <3>7. ProcInv(p)'
      BY <1>0, <2>1, <3>1, ParseCacheAssumption
         DEF TypeOK, caches, held, ProcInv, HasTree, HasIndex, HasWalk, Finished, WalkOK
    <3>8. QED
      BY <2>1, <3>1, <3>5, <3>6, <3>7, OneProcess DEF IInv, TypeOK, Points, caches, held
  <2>4. QED
    BY <2>1, <2>2, <2>3 DEF PutSemantic
<1>12. ASSUME NEW p \in Procs, Cancel(p) PROVE IInv'
  <2>5. TypeOK'
    BY <1>12 DEF Cancel, IInv, TypeOK, Points, caches, held
  <2>6. CacheInv'
    BY <1>12 DEF Cancel, IInv, TypeOK, Points, caches, held, CacheInv
  <2>7. ProcInv(p)'
    BY <1>12
       DEF Cancel, IInv, TypeOK, Points, caches, held, ProcInv, HasTree, HasIndex,
           HasWalk, Finished
  <2>8. QED
    BY <1>12, <2>5, <2>6, <2>7, OneProcess DEF Cancel, IInv, TypeOK, Points, caches, held
<1>13. CASE UNCHANGED vars
  BY <1>13
     DEF vars, IInv, TypeOK, Points, caches, held, CacheInv, ProcInv, HasTree, HasIndex,
         HasWalk, Finished, Matches, EntryOK
<1>14. QED
  BY <1>1, <1>2, <1>3, <1>4, <1>5, <1>6, <1>7, <1>8, <1>9, <1>10, <1>11, <1>12, <1>13
     DEF Next

\* IInv is an invariant of the specification.
THEOREM ParseInvariance == Spec => []IInv
<1>1. QED
  BY InitParses, StepParses, PTL DEF Spec

\* The variables keep their types.
THEOREM ParseTypes == Spec => []TypeOK
<1>1. IInv => TypeOK
  BY DEF IInv
<1>2. QED
  BY <1>1, ParseInvariance, PTL

\* For every number of builds, paths and define environments: what a build
\* ends with was made from the content and the defines it asked for.
THEOREM HeldIsOwnAlways == Spec => []HeldIsOwn
<1>1. IInv => HeldIsOwn
  BY DEF IInv, ProcInv, Finished, HeldIsOwn, WalkOK
<1>2. QED
  BY <1>1, ParseInvariance, PTL

\* The cache replaces a tree only by one it could not have stood for.
THEOREM FirstParseWinsAlways == Spec => FirstParseWins
<1> DEFINE Kept == \A f \in Paths :
                      entries[f] # None /\ entries'[f] # entries[f]
                          => ~Matches(entries[f], entries'[f].hash, entries'[f].discard)
<1>1. IInv /\ [Next]_vars => [Kept]_vars
  <2> SUFFICES ASSUME IInv, Next, NEW f \in Paths, entries[f] # None, entries'[f] # entries[f]
               PROVE ~Matches(entries[f], entries'[f].hash, entries'[f].discard)
    BY DEF vars
  <2>1. PICK p \in Procs : InsertParse(p) \/ Prepare(p)
    BY DEF Next, Start, Lookup, Parse, GetIndex, PutIndex, GetWalk, PutWalk, GetSemantic,
       PutSemantic, Cancel, caches
  <2>2. CASE InsertParse(p)
    <3>1. /\ ~Matches(entries[job[p].path], job[p].content, job[p].discard)
          /\ entries' = [entries EXCEPT ![job[p].path] =
                [hash |-> job[p].content, discard |-> job[p].discard,
                 allow |-> FALSE, tree |-> parsed[p]]]
      BY <2>2 DEF InsertParse
    <3>2. QED
      BY <3>1 DEF IInv, TypeOK
  <2>3. CASE Prepare(p)
    <3>1. /\ ~Matches(entries[job[p].path], job[p].content, job[p].discard)
          /\ entries' = [entries EXCEPT ![job[p].path] =
                [hash |-> job[p].content, discard |-> job[p].discard,
                 allow |-> TRUE, tree |-> parsed[p]]]
      BY <2>3 DEF Prepare
    <3>2. QED
      BY <3>1 DEF IInv, TypeOK
  <2>4. QED
    BY <2>1, <2>2, <2>3
<1>2. QED
  BY <1>1, ParseInvariance, PTL DEF Spec, FirstParseWins

HIDE DEF Procs

-----------------------------------------------------------------------------
(* Probes *)

\* What os.Stat says of a candidate of the disk as it is.
Answer(k) == IF disk[k] = Absent THEN "failed" ELSE "found"

\* The memory agrees with the disk; the models do as soon as they too were forgotten.
MemoryInv ==
    clean =>
        /\ \A k \in Places : stats[k] \in {None, Answer(k)}
        /\ includes \in {None, Present}
        /\ host = "idle" => model \in {None, IncludeOf(Present)}

\* What a build in flight has found so far.
Gathered(b) ==
    CASE probing[b] \in {"probe", "stat"} -> existing[b] = {k \in Present : k < at[b]}
      [] probing[b] = "remember" -> existing[b] = {k \in Present : k < at[b]} /\ probe[b] = Answer(at[b])
      [] probing[b] \in {"put", "read"} -> existing[b] = Present
      [] probing[b] = "finish" -> existing[b] = Present /\ result[b] = IncludeOf(Present)
      [] OTHER -> TRUE

\* A build starts with nothing found.
StartInv == \A b \in Builders : probing[b] = "resolve" => existing[b] = {} /\ at[b] = 1

BuildInv == clean => \A b \in Builders : Gathered(b)

\* While nothing changes a build that began on a clean memory stays on one.
SteadyInv == \A b \in Builders : steady[b] => clean

\* What is read of the include while nothing changes.
ReadInv ==
    \A b \in Builders :
        probing[b] \in {"finish", "done"} /\ quiet[b] /\ existing[b] # {}
            => result[b] = disk[First(existing[b])]

ProbesInv ==
    ProbesTypeOK /\ MemoryInv /\ StartInv /\ BuildInv /\ SteadyInv /\ ReadInv /\ CurrentWhenSteady

-----------------------------------------------------------------------------
\* A set of numbers that is not empty has a least one.
LEMMA Least ==
    ASSUME NEW T \in SUBSET Nat, T # {}
    PROVE  \E x \in T : \A y \in T : x <= y
<1>1. PICK x \in T : \A y \in T : ~ (<<y, x>> \in OpToRel(<, Nat))
  <2>1. IsWellFoundedOn(OpToRel(<, Nat), Nat)
    BY NatLessThanWellFounded
  <2> QED BY <2>1, WFMin
<1>2. ASSUME NEW y \in T PROVE x <= y
  <2>1. x \in Nat /\ y \in Nat
    OBVIOUS
  <2>2. ASSUME y < x PROVE FALSE
    <3>1. <<y, x>> \in OpToRel(<, Nat)
      BY <2>1, <2>2 DEF OpToRel
    <3> QED BY <3>1, <1>1
  <2> QED BY <2>1, <2>2
<1> QED BY <1>2

\* A set of candidates has a first one.
LEMMA FirstIsIn ==
    ASSUME NEW S \in SUBSET Places, S # {}
    PROVE  First(S) \in S
<1>1. S \in SUBSET Nat
  BY DEF Places
<1>2. PICK x \in S : \A y \in S : x <= y
  BY <1>1, Least
<1> QED BY <1>2 DEF First

\* The values of every variable, whatever the constants are.
LEMMA TypeStep == ProbesTypeOK /\ [ProbesNext]_probeVars => ProbesTypeOK'
<1> SUFFICES ASSUME ProbesTypeOK, [ProbesNext]_probeVars PROVE ProbesTypeOK'
  OBVIOUS
<1> USE DEF ProbesTypeOK, own, watch, memory
<1>1. ASSUME NEW b \in Builders, NEW cacheable \in BOOLEAN, Begin(b, cacheable) PROVE ProbesTypeOK'
  <2>1. 1 \in Places
    BY FileProbesAssumption DEF Places
  <2> QED BY <1>1, <2>1, FileProbesAssumption DEF Begin
<1>2. ASSUME NEW b \in Builders, Resolve(b) PROVE ProbesTypeOK'
  <2>1. CASE includes # None
    <3>1. includes \in SUBSET Places
      BY <2>1
    <3> QED BY <1>2, <2>1, <3>1 DEF Resolve
  <2>2. CASE includes = None
    BY <1>2, <2>2 DEF Resolve
  <2> QED BY <2>1, <2>2
<1>3. ASSUME NEW b \in Builders, NEW found \in BOOLEAN, Settle(b, found)
      PROVE  existing' \in [Builders -> SUBSET Places] /\ at' \in [Builders -> Places]
             /\ probing' \in [Builders -> {"idle", "resolve", "probe", "stat", "remember", "put",
                                      "read", "finish", "done", "failed"}]
  <2>1. at[b] \in Places
    OBVIOUS
  <2>2. existing' \in [Builders -> SUBSET Places]
    BY <1>3, <2>1 DEF Settle
  <2>3. at[b] < Candidates => at[b] + 1 \in Places
    BY <2>1, FileProbesAssumption DEF Places
  <2> QED BY <1>3, <2>2, <2>3 DEF Settle
<1>4. ASSUME NEW b \in Builders, Recall(b) PROVE ProbesTypeOK'
  <2>1. CASE stats[at[b]] # None
    <3>1. Settle(b, stats[at[b]] = "found")
      BY <1>4, <2>1 DEF Recall
    <3> QED BY <1>4, <1>3, <3>1 DEF Recall
  <2>2. CASE stats[at[b]] = None
    BY <1>4, <2>2 DEF Recall
  <2> QED BY <2>1, <2>2
<1>5. ASSUME NEW b \in Builders, Stat(b) PROVE ProbesTypeOK'
  BY <1>5 DEF Stat
<1>6. ASSUME NEW b \in Builders, Remember(b) PROVE ProbesTypeOK'
  <2>1. CASE stats[at[b]] # None
    <3>1. Settle(b, stats[at[b]] = "found")
      BY <1>6, <2>1 DEF Remember
    <3> QED BY <1>6, <2>1, <1>3, <3>1 DEF Remember
  <2>2. CASE stats[at[b]] = None
    <3>1. Settle(b, probe[b] = "found")
      BY <1>6, <2>2 DEF Remember
    <3>2. stats' \in [Places -> {None, "found", "failed"}]
      BY <1>6, <2>2 DEF Remember
    <3>3. UNCHANGED <<disk, includes, model, host, whole, probe, result, watch, clean, changes, builds>>
      BY <1>6 DEF Remember
    <3> QED BY <1>3, <3>1, <3>2, <3>3
  <2> QED BY <2>1, <2>2
<1>7. ASSUME NEW b \in Builders, PutResolution(b) PROVE ProbesTypeOK'
  BY <1>7 DEF PutResolution
<1>8. ASSUME NEW b \in Builders, Read(b) PROVE ProbesTypeOK'
  <2>1. IncludeOf(existing[b]) \in Contents \cup {Absent}
    BY FirstIsIn DEF IncludeOf
  <2> QED BY <1>8, <2>1 DEF Read
<1>9. ASSUME NEW b \in Builders, Finish(b) PROVE ProbesTypeOK'
  BY <1>9 DEF Finish
<1>10. ASSUME ForgetProbes PROVE ProbesTypeOK'
  <2>1. clean' \in BOOLEAN
    BY <1>10, Zenon DEF ForgetProbes
  <2>2. UNCHANGED <<disk, model, own, watch, changes, builds>> /\ includes' = None
        /\ host' = "models" /\ stats' = [k \in Places |-> None]
    BY <1>10 DEF ForgetProbes
  <2> QED BY <2>1, <2>2
<1>11. ASSUME ForgetModels PROVE ProbesTypeOK'
  BY <1>11 DEF ForgetModels
<1>12. ASSUME NEW k \in Places, NEW c \in Contents \cup {Absent}, Change(k, c) PROVE ProbesTypeOK'
  <2>1. changes + 1 \in 0 .. MaxChanges
    BY <1>12, FileProbesAssumption DEF Change
  <2> QED BY <1>12, <2>1 DEF Change
<1>13. CASE UNCHANGED probeVars
  BY <1>13 DEF probeVars
<1> QED
  BY <1>1, <1>2, <1>4, <1>5, <1>6, <1>7, <1>8, <1>9, <1>10, <1>11, <1>12, <1>13 DEF ProbesNext

-----------------------------------------------------------------------------
(* One step of each invariant *)

\* What changes the memory, and what it has then.
LEMMA MemoryStep == ProbesInv /\ [ProbesNext]_probeVars => MemoryInv'
<1> SUFFICES ASSUME ProbesInv, [ProbesNext]_probeVars, clean' PROVE MemoryInv'
  BY DEF MemoryInv
<1> USE DEF ProbesInv, memory, own, watch
<1>1. ASSUME UNCHANGED <<disk, memory, host, clean>> PROVE MemoryInv'
  BY <1>1 DEF MemoryInv, Answer, Present, IncludeOf
<1>2. ASSUME NEW b \in Builders, NEW cacheable \in BOOLEAN, Begin(b, cacheable) PROVE MemoryInv'
  BY <1>1, <1>2 DEF Begin
<1>3. ASSUME NEW b \in Builders, Resolve(b) \/ Recall(b) \/ Stat(b) \/ Read(b) PROVE MemoryInv'
  BY <1>1, <1>3 DEF Resolve, Recall, Stat, Read
<1>4. ASSUME NEW b \in Builders, Remember(b) PROVE MemoryInv'
  <2>1. UNCHANGED <<disk, includes, model, host, clean>> /\ probing[b] = "remember"
    BY <1>4 DEF Remember
  <2>2. probe[b] = Answer(at[b])
    BY <2>1 DEF BuildInv, Gathered
  <2>3. ASSUME NEW k \in Places PROVE stats'[k] \in {None, Answer(k)}
    BY <1>4, <2>1, <2>2 DEF Remember, MemoryInv, ProbesTypeOK
  <2> QED BY <2>1, <2>3 DEF MemoryInv, Answer, Present, IncludeOf
<1>5. ASSUME NEW b \in Builders, PutResolution(b) PROVE MemoryInv'
  <2>1. UNCHANGED <<disk, stats, model, host, clean>> /\ includes' = existing[b] /\ probing[b] = "put"
    BY <1>5 DEF PutResolution
  <2>2. includes' = Present
    BY <2>1 DEF BuildInv, Gathered
  <2> QED BY <2>1, <2>2 DEF MemoryInv, Answer, Present, IncludeOf
<1>6. ASSUME NEW b \in Builders, Finish(b) PROVE MemoryInv'
  <2>1. UNCHANGED <<disk, stats, includes, host, clean>> /\ probing[b] = "finish"
        /\ model' \in {model, result[b]}
    BY <1>6 DEF Finish
  <2>2. result[b] = IncludeOf(Present)
    BY <2>1 DEF BuildInv, Gathered
  <2> QED BY <2>1, <2>2 DEF MemoryInv, Answer, Present, IncludeOf
<1>7. ASSUME ForgetProbes PROVE MemoryInv'
  BY <1>7 DEF ForgetProbes, MemoryInv, Answer
<1>8. ASSUME ForgetModels PROVE MemoryInv'
  BY <1>8 DEF ForgetModels, MemoryInv, Answer, Present, IncludeOf
<1>9. ASSUME NEW k \in Places, NEW c \in Contents \cup {Absent}, Change(k, c) PROVE MemoryInv'
  BY <1>9 DEF Change
<1>10. CASE UNCHANGED probeVars
  BY <1>1, <1>10 DEF probeVars
<1> QED BY <1>2, <1>3, <1>4, <1>5, <1>6, <1>7, <1>8, <1>9, <1>10 DEF ProbesNext

\* A build begins with nothing.
LEMMA StartStep == ProbesTypeOK /\ StartInv /\ [ProbesNext]_probeVars => StartInv'
<1> SUFFICES ASSUME ProbesTypeOK, StartInv, [ProbesNext]_probeVars,
                    NEW c \in Builders, probing'[c] = "resolve"
             PROVE  existing'[c] = {} /\ at'[c] = 1
  BY DEF StartInv
<1> USE DEF ProbesTypeOK, memory, own, watch
<1>1. CASE UNCHANGED own
  BY <1>1 DEF StartInv
<1>2. ASSUME NEW b \in Builders, NEW cacheable \in BOOLEAN, Begin(b, cacheable)
      PROVE  existing'[c] = {} /\ at'[c] = 1
  BY <1>2 DEF Begin, StartInv
<1>3. ASSUME NEW b \in Builders,
             Resolve(b) \/ Recall(b) \/ Stat(b) \/ Remember(b) \/ PutResolution(b) \/ Read(b) \/ Finish(b)
      PROVE  existing'[c] = {} /\ at'[c] = 1
  <2>1. CASE b = c
    BY <1>3, <2>1 DEF Resolve, Recall, Stat, Remember, PutResolution, Read, Finish, Settle
  <2>2. CASE b # c
    <3>1. probing'[c] = probing[c] /\ existing'[c] = existing[c] /\ at'[c] = at[c]
      BY <1>3, <2>2 DEF Resolve, Recall, Stat, Remember, PutResolution, Read, Finish, Settle
    <3> QED BY <3>1 DEF StartInv
  <2> QED BY <2>1, <2>2
<1>4. CASE ForgetProbes \/ ForgetModels \/ \E k \in Places, v \in Contents \cup {Absent} : Change(k, v)
  BY <1>1, <1>4 DEF ForgetProbes, ForgetModels, Change
<1>5. CASE UNCHANGED probeVars
  BY <1>1, <1>5 DEF probeVars
<1> QED BY <1>2, <1>3, <1>4, <1>5 DEF ProbesNext

\* A change of a file ends both the clean memory and the steady builds.
LEMMA SteadyStep == ProbesTypeOK /\ SteadyInv /\ [ProbesNext]_probeVars => SteadyInv'
<1> SUFFICES ASSUME ProbesTypeOK, SteadyInv, [ProbesNext]_probeVars, NEW c \in Builders, steady'[c] PROVE clean'
  BY DEF SteadyInv
<1> USE DEF SteadyInv, ProbesTypeOK, watch
<1>1. ASSUME NEW b \in Builders, NEW cacheable \in BOOLEAN, Begin(b, cacheable) PROVE clean'
  BY <1>1 DEF Begin
<1>2. ASSUME NEW b \in Builders,
             Resolve(b) \/ Recall(b) \/ Stat(b) \/ Remember(b) \/ PutResolution(b) \/ Read(b) \/ Finish(b)
      PROVE  clean'
  BY <1>2 DEF Resolve, Recall, Stat, Remember, PutResolution, Read, Finish
<1>3. CASE ForgetProbes
  BY <1>3 DEF ForgetProbes
<1>4. CASE ForgetModels
  BY <1>4 DEF ForgetModels
<1>5. ASSUME NEW k \in Places, NEW v \in Contents \cup {Absent}, Change(k, v) PROVE clean'
  BY <1>5 DEF Change
<1>6. CASE UNCHANGED probeVars
  BY <1>6 DEF probeVars
<1> QED BY <1>1, <1>2, <1>3, <1>4, <1>5, <1>6 DEF ProbesNext

\* The candidate that a build probed is settled as the disk has it.
LEMMA SettleGathers ==
    ASSUME ProbesTypeOK, NEW b \in Builders, NEW found \in BOOLEAN, Settle(b, found),
           UNCHANGED <<disk, probe, result>>,
           probing[b] \in {"probe", "stat", "remember"},
           existing[b] = {k \in Present : k < at[b]},
           found <=> Answer(at[b]) = "found"
    PROVE  Gathered(b)'
<1>1. at[b] \in Places /\ at[b] \in Nat /\ Candidates \in Nat
  BY FileProbesAssumption DEF ProbesTypeOK, Places
<1>2. existing'[b] = {k \in Present : k < at[b] + 1}
  <2>1. found <=> at[b] \in Present
    BY <1>1 DEF Answer, Present
  <2>2. existing'[b] = IF found THEN existing[b] \cup {at[b]} ELSE existing[b]
    BY DEF Settle, ProbesTypeOK
  <2>3. \A k \in Present : k < at[b] + 1 <=> k < at[b] \/ k = at[b]
    BY <1>1 DEF Present, Places
  <2> QED BY <2>1, <2>2, <2>3
<1>3. Present' = Present
  BY DEF Present
<1>4. CASE at[b] < Candidates
  <2>1. probing'[b] = "probe" /\ at'[b] = at[b] + 1
    BY <1>4 DEF Settle, ProbesTypeOK
  <2> QED BY <1>2, <1>3, <2>1 DEF Gathered
<1>5. CASE ~ (at[b] < Candidates)
  <2>1. probing'[b] = "put"
    BY <1>5 DEF Settle, ProbesTypeOK
  <2>2. existing'[b] = Present
    BY <1>1, <1>2, <1>5 DEF Present, Places
  <2> QED BY <1>3, <2>1, <2>2 DEF Gathered
<1> QED BY <1>4, <1>5

\* What a build in flight gathers on a clean memory is what is on the disk.
LEMMA BuildStep == ProbesInv /\ [ProbesNext]_probeVars => BuildInv'
<1> SUFFICES ASSUME ProbesInv, [ProbesNext]_probeVars, clean', NEW c \in Builders
             PROVE  Gathered(c)'
  BY DEF BuildInv
<1> USE DEF ProbesInv, own, watch, memory
<1>1. ASSUME clean, UNCHANGED disk, probing'[c] = probing[c], at'[c] = at[c], probe'[c] = probe[c],
             existing'[c] = existing[c], result'[c] = result[c]
      PROVE  Gathered(c)'
  BY <1>1 DEF BuildInv, Gathered, Present, Answer, IncludeOf
<1>2. ASSUME NEW b \in Builders, b # c, UNCHANGED <<disk, clean>>, NEW cacheable \in BOOLEAN,
             Begin(b, cacheable) \/ Resolve(b) \/ Recall(b) \/ Stat(b) \/ Remember(b)
             \/ PutResolution(b) \/ Read(b) \/ Finish(b)
      PROVE  Gathered(c)'
  <2>1. CASE Begin(b, cacheable)
    BY <1>1, <1>2, <2>1 DEF Begin, ProbesTypeOK
  <2>2. CASE Recall(b) \/ Remember(b)
    <3>1. probing'[c] = probing[c] /\ at'[c] = at[c] /\ existing'[c] = existing[c]
      BY <1>2, <2>2 DEF Recall, Remember, Settle, ProbesTypeOK
    <3>2. probe' = probe /\ result' = result /\ clean
      BY <2>2 DEF Recall, Remember
    <3> QED BY <1>1, <1>2, <3>1, <3>2
  <2>3. CASE Resolve(b) \/ Stat(b) \/ PutResolution(b) \/ Read(b) \/ Finish(b)
    <3>1. probing'[c] = probing[c] /\ at'[c] = at[c] /\ probe'[c] = probe[c] /\ existing'[c] = existing[c]
          /\ result'[c] = result[c]
      BY <1>2, <2>3 DEF Resolve, Stat, PutResolution, Read, Finish, ProbesTypeOK
    <3> QED BY <1>1, <1>2, <3>1
  <2> QED BY <1>2, <2>1, <2>2, <2>3
<1>3. ASSUME NEW cacheable \in BOOLEAN, Begin(c, cacheable) PROVE Gathered(c)'
  <2>1. probing'[c] \in {"done", "resolve"}
    BY <1>3 DEF Begin, ProbesTypeOK
  <2> QED BY <2>1 DEF Gathered
<1>4. CASE Resolve(c)
  <2>1. clean /\ UNCHANGED disk /\ probing[c] = "resolve" /\ at'[c] = at[c]
    BY <1>4 DEF Resolve
  <2>2. CASE includes # None
    <3>1. probing'[c] = "read" /\ existing'[c] = Present
      BY <1>4, <2>1, <2>2 DEF Resolve, MemoryInv, ProbesTypeOK
    <3> QED BY <2>1, <3>1 DEF Gathered, Present
  <2>3. CASE includes = None
    <3>1. probing'[c] = "probe" /\ existing'[c] = {} /\ at'[c] = 1
      BY <1>4, <2>1, <2>3 DEF Resolve, StartInv, ProbesTypeOK
    <3>2. {k \in Present : k < 1} = {}
      BY DEF Present, Places
    <3> QED BY <2>1, <3>1, <3>2 DEF Gathered, Present
  <2> QED BY <2>2, <2>3
<1>5. CASE Recall(c)
  <2>1. clean /\ UNCHANGED <<disk, probe, result>> /\ probing[c] = "probe"
    BY <1>5 DEF Recall
  <2>2. existing[c] = {k \in Present : k < at[c]}
    BY <2>1 DEF BuildInv, Gathered
  <2>3. CASE stats[at[c]] # None
    <3>1. stats[at[c]] = Answer(at[c])
      BY <2>1, <2>3 DEF MemoryInv, ProbesTypeOK
    <3>2. Settle(c, stats[at[c]] = "found")
      BY <1>5, <2>3 DEF Recall
    <3> QED BY <2>1, <2>2, <3>1, <3>2, SettleGathers
  <2>4. CASE stats[at[c]] = None
    <3>1. probing'[c] = "stat" /\ at'[c] = at[c] /\ existing'[c] = existing[c]
      BY <1>5, <2>4 DEF Recall, ProbesTypeOK
    <3> QED BY <2>1, <2>2, <3>1 DEF Gathered, Present
  <2> QED BY <2>3, <2>4
<1>6. CASE Stat(c)
  <2>1. clean /\ UNCHANGED disk /\ probing[c] = "stat" /\ probing'[c] = "remember"
        /\ probe'[c] = Answer(at[c]) /\ existing'[c] = existing[c] /\ at'[c] = at[c]
    BY <1>6 DEF Stat, ProbesTypeOK, Answer
  <2>2. existing[c] = {k \in Present : k < at[c]}
    BY <2>1 DEF BuildInv, Gathered
  <2> QED BY <2>1, <2>2 DEF Gathered, Present, Answer
<1>7. CASE Remember(c)
  <2>1. clean /\ UNCHANGED <<disk, probe, result>> /\ probing[c] = "remember"
    BY <1>7 DEF Remember
  <2>2. existing[c] = {k \in Present : k < at[c]} /\ probe[c] = Answer(at[c])
    BY <2>1 DEF BuildInv, Gathered
  <2>3. CASE stats[at[c]] # None
    <3>1. stats[at[c]] = Answer(at[c])
      BY <2>1, <2>3 DEF MemoryInv, ProbesTypeOK
    <3>2. Settle(c, stats[at[c]] = "found")
      BY <1>7, <2>3 DEF Remember
    <3> QED BY <2>1, <2>2, <3>1, <3>2, SettleGathers
  <2>4. CASE stats[at[c]] = None
    <3>1. Settle(c, probe[c] = "found")
      BY <1>7, <2>4 DEF Remember
    <3> QED BY <2>1, <2>2, <3>1, SettleGathers
  <2> QED BY <2>3, <2>4
<1>8. CASE PutResolution(c)
  <2>1. clean /\ UNCHANGED disk /\ probing[c] = "put" /\ probing'[c] = "read" /\ existing'[c] = existing[c]
    BY <1>8 DEF PutResolution, ProbesTypeOK
  <2> QED BY <2>1 DEF BuildInv, Gathered, Present
<1>9. CASE Read(c)
  <2>1. clean /\ UNCHANGED disk /\ probing[c] = "read" /\ existing'[c] = existing[c]
        /\ probing'[c] \in {"failed", "finish"}
        /\ (probing'[c] = "finish" => result'[c] = IncludeOf(existing[c]))
    BY <1>9 DEF Read, ProbesTypeOK
  <2>2. existing[c] = Present
    BY <2>1 DEF BuildInv, Gathered
  <2> QED BY <2>1, <2>2 DEF Gathered, Present, IncludeOf
<1>10. CASE Finish(c)
  <2>1. probing'[c] = "done"
    BY <1>10 DEF Finish, ProbesTypeOK
  <2> QED BY <2>1 DEF Gathered
<1>11. CASE ForgetProbes
  <2>1. UNCHANGED <<disk, probing, at, probe, existing, result>>
    BY <1>11 DEF ForgetProbes
  <2>4. clean \/ ~ Running(c)
    <3>1. clean' = (clean \/ \A b \in Builders : ~ Running(b))
      BY <1>11 DEF ForgetProbes
    <3> QED BY <3>1, Zenon
  <2>2. CASE clean
    BY <1>1, <2>1, <2>2
  <2>3. CASE ~ Running(c)
    <3>1. probing'[c] \in {"idle", "done", "failed"}
      BY <2>1, <2>3 DEF Running
    <3> QED BY <3>1 DEF Gathered
  <2> QED BY <2>2, <2>3, <2>4
<1>12. CASE ForgetModels
  BY <1>1, <1>12 DEF ForgetModels
<1>13. ASSUME NEW k \in Places, NEW v \in Contents \cup {Absent}, Change(k, v) PROVE FALSE
  BY <1>13 DEF Change
<1>14. CASE UNCHANGED probeVars
  BY <1>1, <1>14 DEF probeVars
<1>15. ASSUME NEW b \in Builders, NEW cacheable \in BOOLEAN,
              Begin(b, cacheable) \/ Resolve(b) \/ Recall(b) \/ Stat(b) \/ Remember(b)
              \/ PutResolution(b) \/ Read(b) \/ Finish(b)
       PROVE  Gathered(c)'
  <2>1. CASE b = c
    BY <1>15, <2>1, <1>3, <1>4, <1>5, <1>6, <1>7, <1>8, <1>9, <1>10
  <2>2. CASE b # c
    <3>1. UNCHANGED <<disk, clean>>
      BY <1>15 DEF Begin, Resolve, Recall, Stat, Remember, PutResolution, Read, Finish
    <3> QED BY <1>2, <1>15, <2>2, <3>1
  <2> QED BY <2>1, <2>2
<1> QED BY <1>11, <1>12, <1>13, <1>14, <1>15 DEF ProbesNext

\* What was read stays what is on the disk while nothing changes.
LEMMA ReadStep == ProbesInv /\ [ProbesNext]_probeVars => ReadInv'
<1> SUFFICES ASSUME ProbesInv, [ProbesNext]_probeVars, NEW c \in Builders,
                    probing'[c] \in {"finish", "done"}, quiet'[c], existing'[c] # {}
             PROVE  result'[c] = disk'[First(existing'[c])]
  BY DEF ReadInv
<1> USE DEF ProbesInv, own, watch, memory
<1>1. ASSUME UNCHANGED disk, quiet[c], probing[c] \in {"finish", "done"}, existing'[c] = existing[c],
             result'[c] = result[c]
      PROVE  result'[c] = disk'[First(existing'[c])]
  BY <1>1 DEF ReadInv
<1>2. ASSUME NEW b \in Builders, b # c, NEW cacheable \in BOOLEAN,
             Begin(b, cacheable) \/ Resolve(b) \/ Recall(b) \/ Stat(b) \/ Remember(b)
             \/ PutResolution(b) \/ Read(b) \/ Finish(b)
      PROVE  result'[c] = disk'[First(existing'[c])]
  <2>1. UNCHANGED disk /\ probing'[c] = probing[c] /\ existing'[c] = existing[c] /\ result'[c] = result[c]
        /\ quiet'[c] = quiet[c]
    BY <1>2 DEF Begin, Resolve, Recall, Stat, Remember, PutResolution, Read, Finish, Settle, ProbesTypeOK
  <2> QED BY <1>1, <2>1
<1>3. ASSUME NEW cacheable \in BOOLEAN, Begin(c, cacheable) PROVE FALSE
  BY <1>3 DEF Begin, ProbesTypeOK
<1>4. CASE Resolve(c) \/ Recall(c) \/ Stat(c) \/ Remember(c) \/ PutResolution(c)
  <2>1. probing'[c] \in {"read", "probe", "stat", "put", "remember"}
    BY <1>4 DEF Resolve, Recall, Stat, Remember, PutResolution, Settle, ProbesTypeOK
  <2> QED BY <2>1
<1>5. CASE Read(c)
  <2>1. UNCHANGED disk /\ existing'[c] = existing[c] /\ result'[c] = IncludeOf(existing[c])
    BY <1>5 DEF Read, ProbesTypeOK
  <2> QED BY <2>1 DEF IncludeOf
<1>6. CASE Finish(c)
  <2>1. UNCHANGED disk /\ probing[c] = "finish" /\ existing'[c] = existing[c] /\ result'[c] = result[c]
        /\ quiet'[c] = quiet[c]
    BY <1>6 DEF Finish, ProbesTypeOK
  <2> QED BY <1>1, <2>1
<1>7. CASE ForgetProbes \/ ForgetModels
  BY <1>1, <1>7 DEF ForgetProbes, ForgetModels
<1>8. ASSUME NEW k \in Places, NEW v \in Contents \cup {Absent}, Change(k, v) PROVE FALSE
  BY <1>8 DEF Change
<1>9. CASE UNCHANGED probeVars
  BY <1>1, <1>9 DEF probeVars
<1> QED BY <1>2, <1>3, <1>4, <1>5, <1>6, <1>7, <1>8, <1>9 DEF ProbesNext

\* A build that ends steadily ends with what is on the disk.
LEMMA CurrentStep == ProbesInv /\ [ProbesNext]_probeVars => CurrentWhenSteady'
<1> SUFFICES ASSUME ProbesInv, [ProbesNext]_probeVars, NEW c \in Builders,
                    Ended(c)', steady'[c]
             PROVE  result'[c] = IncludeOf(Present)'
  BY DEF CurrentWhenSteady
<1> USE DEF ProbesInv, own, watch, memory
<1>1. ASSUME UNCHANGED disk, steady[c], probing'[c] = probing[c], result'[c] = result[c]
      PROVE  result'[c] = IncludeOf(Present)'
  BY <1>1 DEF CurrentWhenSteady, Ended, IncludeOf, Present
<1>2. ASSUME NEW b \in Builders, b # c, NEW cacheable \in BOOLEAN,
             Begin(b, cacheable) \/ Resolve(b) \/ Recall(b) \/ Stat(b) \/ Remember(b)
             \/ PutResolution(b) \/ Read(b) \/ Finish(b)
      PROVE  result'[c] = IncludeOf(Present)'
  <2>1. UNCHANGED disk /\ probing'[c] = probing[c] /\ result'[c] = result[c] /\ steady'[c] = steady[c]
    BY <1>2 DEF Begin, Resolve, Recall, Stat, Remember, PutResolution, Read, Finish, Settle, ProbesTypeOK
  <2> QED BY <1>1, <2>1
<1>3. ASSUME NEW cacheable \in BOOLEAN, Begin(c, cacheable) PROVE result'[c] = IncludeOf(Present)'
  <2>1. UNCHANGED disk /\ clean /\ host = "idle" /\ model # None /\ result'[c] = model
    BY <1>3 DEF Begin, ProbesTypeOK, Ended
  <2> QED BY <2>1 DEF MemoryInv, IncludeOf, Present
<1>4. CASE Resolve(c) \/ Recall(c) \/ Stat(c) \/ Remember(c) \/ PutResolution(c)
  <2>1. probing'[c] \in {"read", "probe", "stat", "put", "remember"}
    BY <1>4 DEF Resolve, Recall, Stat, Remember, PutResolution, Settle, ProbesTypeOK
  <2> QED BY <2>1 DEF Ended
<1>5. CASE Read(c)
  <2>1. steady[c] /\ probing[c] = "read"
    BY <1>5 DEF Read
  <2>2. existing[c] = Present
    BY <2>1 DEF SteadyInv, BuildInv, Gathered
  <2>3. Present # {} => disk[First(Present)] # Absent
    <3>1. Present \in SUBSET Places
      BY DEF Present
    <3> QED BY <3>1, FirstIsIn DEF Present
  <2>4. probing'[c] = "finish"
    BY <1>5, <2>2, <2>3 DEF Read, ProbesTypeOK
  <2> QED BY <2>4 DEF Ended
<1>6. CASE Finish(c)
  <2>1. steady[c] /\ probing[c] = "finish" /\ UNCHANGED <<disk, result>>
    BY <1>6 DEF Finish
  <2>2. result[c] = IncludeOf(Present)
    BY <2>1 DEF SteadyInv, BuildInv, Gathered
  <2> QED BY <2>1, <2>2 DEF IncludeOf, Present
<1>7. CASE ForgetProbes \/ ForgetModels
  BY <1>1, <1>7 DEF ForgetProbes, ForgetModels
<1>8. ASSUME NEW k \in Places, NEW v \in Contents \cup {Absent}, Change(k, v) PROVE FALSE
  BY <1>8 DEF Change
<1>9. CASE UNCHANGED probeVars
  BY <1>1, <1>9 DEF probeVars
<1> QED BY <1>2, <1>3, <1>4, <1>5, <1>6, <1>7, <1>8, <1>9 DEF ProbesNext

-----------------------------------------------------------------------------
\* The invariant holds of every state.
LEMMA ProbesInvariance == ProbesSpec => []ProbesInv
<1>1. ProbesInit => ProbesInv
  BY FileProbesAssumption
     DEF ProbesInit, ProbesInv, ProbesTypeOK, MemoryInv, StartInv, BuildInv, Gathered, SteadyInv, ReadInv,
         CurrentWhenSteady, Ended, Places
<1>2. ProbesInv /\ [ProbesNext]_probeVars => ProbesInv'
  BY TypeStep, MemoryStep, StartStep, BuildStep, SteadyStep, ReadStep, CurrentStep DEF ProbesInv
<1> QED BY <1>1, <1>2, PTL DEF ProbesSpec

\* Every variable keeps its type, whatever the constants are.
THEOREM ProbeTypes == ProbesSpec => []ProbesTypeOK
BY ProbesInvariance, PTL DEF ProbesInv

\* TestParseCacheInvalidatesFilesystemProbes and
\* TestParseCacheDoesNotReuseModelsWithFilesystemIncludes, for any number of builds,
\* candidates, changes and invalidations: an invalidation that meets no build in flight
\* leaves nothing behind, and nothing that is kept of an include is its content.
THEOREM BuildsAreCurrent == ProbesSpec => []BuildsReadTheDisk
<1>1. ProbesInv => BuildsReadTheDisk
  BY DEF ProbesInv, ReadInv, BuildsReadTheDisk, IncludeIsReread
<1> QED BY <1>1, ProbesInvariance, PTL
=============================================================================
