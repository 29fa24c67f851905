----------------------------- MODULE ParseCache -----------------------------
(***************************************************************************)
(* The parse cache that an analyzer session or an editor host shares       *)
(* between builds (pkg/project/cache.go), as Model.addFile and             *)
(* resolveFileIncludes use it for one file of a build: the parse tree, the *)
(* index of its nodes, the walk and the semantic model are looked up one   *)
(* after another, each under its own short lock, and computed and stored   *)
(* on a miss.  Builds run at the same time, with other contents of the     *)
(* same file, other defines and other trivia needs; the editor also puts   *)
(* trees it got from its host (prepare, ExpandRoot).                       *)
(*                                                                         *)
(* A tree is its content, whether it carries trivia, and its identity: the *)
(* index, the walk and the semantic model hold pointers into one tree.     *)
(***************************************************************************)
EXTENDS Naturals, FiniteSets

CONSTANTS
    Builders,    \* goroutines that build a model with the shared cache
    Paths,       \* canonical paths
    Contents,    \* contents of a file; a content stands for its hash too
    Defines,     \* define environments
    Profiles,    \* needs for trivia: TRUE when trivia may be discarded
    Hosts,       \* goroutines of an editor host that prepare trees
    None,        \* nothing cached, nothing held
    MaxAnalyses, \* maxAnalysisCacheEntries
    MaxTrees     \* bound on the trees parsed

ASSUME ParseCacheAssumption ==
    /\ Profiles \subseteq BOOLEAN
    /\ Builders \cap Hosts = {}
    /\ MaxAnalyses \in Nat \ {0}
    /\ MaxTrees \in Nat

VARIABLES
    entries,   \* path -> parseCacheEntry
    index,     \* path -> indexCacheEntry
    walks,     \* <<path, defines>> -> walkCacheEntry
    semantics, \* <<path, defines>> -> semanticCacheEntry
    pc,        \* where each goroutine is
    job,       \* the file it works on
    parsed,    \* the tree it holds
    idx,       \* the index it holds
    walk,      \* the walk it holds
    sem,       \* the semantic model it holds
    trees      \* trees parsed so far; also the identity of the next one

caches == <<entries, index, walks, semantics>>
held == <<parsed, idx, walk, sem>>
vars == <<caches, pc, job, held, trees>>

Procs == Builders \cup Hosts
AnalysisKeys == Paths \X Defines

Jobs == [path : Paths, content : Contents, defines : Defines, discard : Profiles]
Trees == [content : Contents, discarded : BOOLEAN, id : 0 .. MaxTrees]
Entries == [hash : Contents, discard : BOOLEAN, allow : BOOLEAN, tree : Trees]
Indexes == [hash : Contents, tree : Trees]
Walks == [hash : Contents, defines : Defines, tree : Trees, index : Trees]
Semantics == [hash : Contents, tree : Trees, walk : Trees]

ASSUME NoneAssumption ==
    /\ None \notin Entries /\ None \notin Indexes /\ None \notin Walks
    /\ None \notin Semantics /\ None \notin Trees

\* parseCacheEntry.matches
Matches(e, hash, discard) ==
    /\ e # None
    /\ e.hash = hash
    /\ e.discard = discard \/ (e.allow /\ ~e.discard)

Key(p) == <<job[p].path, job[p].defines>>
Cached(f) == {k \in AnalysisKeys : f[k] # None}
Full == Cardinality(Cached(walks)) + Cardinality(Cached(semantics)) >= MaxAnalyses
Empty == [k \in AnalysisKeys |-> None]

Init ==
    /\ entries = [f \in Paths |-> None]
    /\ index = [f \in Paths |-> None]
    /\ walks = Empty
    /\ semantics = Empty
    /\ pc = [p \in Procs |-> "idle"]
    /\ job = [p \in Procs |-> None]
    /\ parsed = [p \in Procs |-> None]
    /\ idx = [p \in Procs |-> None]
    /\ walk = [p \in Procs |-> None]
    /\ sem = [p \in Procs |-> None]
    /\ trees = 0

-----------------------------------------------------------------------------
(* Plausible bugs *)

\* The second lookup under the write lock is left out.
InsertParse_NoRecheck(p) ==
    /\ pc[p] = "insert"
    /\ entries' = [entries EXCEPT ![job[p].path] =
          [hash |-> job[p].content, discard |-> job[p].discard, allow |-> FALSE,
           tree |-> parsed[p]]]
    /\ pc' = [pc EXCEPT ![p] = IF p \in Hosts THEN "done" ELSE "index"]
    /\ UNCHANGED <<index, walks, semantics, job, held, trees>>

\* A walk is taken whatever content it was made from.
GetWalk_AnyHash(p) ==
    /\ pc[p] = "walk"
    /\ IF walks[Key(p)] # None
       THEN /\ walk' = [walk EXCEPT ![p] = walks[Key(p)]]
            /\ pc' = [pc EXCEPT ![p] = "semantic"]
       ELSE /\ walk' = [walk EXCEPT ![p] =
                  [hash |-> job[p].content, defines |-> job[p].defines,
                   tree |-> parsed[p], index |-> idx[p].tree]]
            /\ pc' = [pc EXCEPT ![p] = "putwalk"]
    /\ UNCHANGED <<caches, job, parsed, idx, sem, trees>>

-----------------------------------------------------------------------------
(* A build, for one of its files *)

\* addFile reaches a file that the build has not seen yet.
Start(p, j) ==
    /\ pc[p] \in {"idle", "done"}
    /\ job' = [job EXCEPT ![p] = j]
    /\ parsed' = [parsed EXCEPT ![p] = None]
    /\ idx' = [idx EXCEPT ![p] = None]
    /\ walk' = [walk EXCEPT ![p] = None]
    /\ sem' = [sem EXCEPT ![p] = None]
    /\ pc' = [pc EXCEPT ![p] = "lookup"]
    /\ UNCHANGED <<caches, trees>>

\* parseHashed, ExpandRoot and prepare under the read lock.
Lookup(p) ==
    /\ pc[p] = "lookup"
    /\ LET e == entries[job[p].path]
       IN  IF Matches(e, job[p].content, job[p].discard)
           THEN /\ parsed' = [parsed EXCEPT ![p] = e.tree]
                /\ pc' = [pc EXCEPT ![p] = IF p \in Hosts THEN "done" ELSE "index"]
           ELSE /\ pc' = [pc EXCEPT ![p] = "parse"]
                /\ UNCHANGED parsed
    /\ UNCHANGED <<caches, job, idx, walk, sem, trees>>

\* parseSource, or the expansion of the host's compact syntax, without a lock.
Parse(p) ==
    /\ pc[p] = "parse"
    /\ trees < MaxTrees
    /\ parsed' = [parsed EXCEPT ![p] =
          [content |-> job[p].content, discarded |-> job[p].discard, id |-> trees]]
    /\ trees' = trees + 1
    /\ \/ pc' = [pc EXCEPT ![p] = "insert"]
       \/ p \in Hosts /\ pc' = [pc EXCEPT ![p] = "prepare"]
    /\ UNCHANGED <<caches, job, idx, walk, sem>>

\* parseHashed and ExpandRoot under the write lock: whoever came first wins.
InsertParse(p) ==
    /\ pc[p] = "insert"
    /\ LET f == job[p].path
       IN  IF Matches(entries[f], job[p].content, job[p].discard)
           THEN /\ parsed' = [parsed EXCEPT ![p] = entries[f].tree]
                /\ UNCHANGED entries
           ELSE /\ entries' = [entries EXCEPT ![f] =
                      [hash |-> job[p].content, discard |-> job[p].discard,
                       allow |-> FALSE, tree |-> parsed[p]]]
                /\ UNCHANGED parsed
    /\ pc' = [pc EXCEPT ![p] = IF p \in Hosts THEN "done" ELSE "index"]
    /\ UNCHANGED <<index, walks, semantics, job, idx, walk, sem, trees>>

\* prepare under the write lock: the entry also serves discarding readers.
Prepare(p) ==
    /\ pc[p] = "prepare"
    /\ LET f == job[p].path
       IN  IF Matches(entries[f], job[p].content, job[p].discard)
           THEN UNCHANGED entries
           ELSE entries' = [entries EXCEPT ![f] =
                    [hash |-> job[p].content, discard |-> job[p].discard,
                     allow |-> TRUE, tree |-> parsed[p]]]
    /\ pc' = [pc EXCEPT ![p] = "done"]
    /\ UNCHANGED <<index, walks, semantics, job, held, trees>>

\* getIndex, or walk.NewIndex of the tree at hand.
GetIndex(p) ==
    /\ pc[p] = "index"
    /\ LET x == index[job[p].path]
       IN  IF x # None /\ x.hash = job[p].content
           THEN /\ idx' = [idx EXCEPT ![p] = x]
                /\ pc' = [pc EXCEPT ![p] = "walk"]
           ELSE /\ idx' = [idx EXCEPT ![p] = [hash |-> job[p].content, tree |-> parsed[p]]]
                /\ pc' = [pc EXCEPT ![p] = "putindex"]
    /\ UNCHANGED <<caches, job, parsed, walk, sem, trees>>

PutIndex(p) ==
    /\ pc[p] = "putindex"
    /\ index' = [index EXCEPT ![job[p].path] = idx[p]]
    /\ pc' = [pc EXCEPT ![p] = "walk"]
    /\ UNCHANGED <<entries, walks, semantics, job, held, trees>>

\* getWalk, or walk.NewWithContext of the tree and the index at hand.
GetWalk(p) ==
    /\ pc[p] = "walk"
    /\ LET w == walks[Key(p)]
       IN  IF w # None /\ w.hash = job[p].content
           THEN /\ walk' = [walk EXCEPT ![p] = w]
                /\ pc' = [pc EXCEPT ![p] = "semantic"]
           ELSE /\ walk' = [walk EXCEPT ![p] =
                      [hash |-> job[p].content, defines |-> job[p].defines,
                       tree |-> parsed[p], index |-> idx[p].tree]]
                /\ pc' = [pc EXCEPT ![p] = "putwalk"]
    /\ UNCHANGED <<caches, job, parsed, idx, sem, trees>>

\* putWalk: a new key in a full cache empties it (resetAnalysisLocked).
PutWalk(p) ==
    /\ pc[p] = "putwalk"
    /\ IF walks[Key(p)] = None /\ Full
       THEN /\ walks' = [Empty EXCEPT ![Key(p)] = walk[p]]
            /\ semantics' = Empty
       ELSE /\ walks' = [walks EXCEPT ![Key(p)] = walk[p]]
            /\ UNCHANGED semantics
    /\ pc' = [pc EXCEPT ![p] = "semantic"]
    /\ UNCHANGED <<entries, index, job, held, trees>>

\* getSemantic, or semantic.Build of the tree and the walk at hand.
GetSemantic(p) ==
    /\ pc[p] = "semantic"
    /\ LET s == semantics[Key(p)]
       IN  IF s # None /\ s.hash = job[p].content
           THEN /\ sem' = [sem EXCEPT ![p] = s]
                /\ pc' = [pc EXCEPT ![p] = "done"]
           ELSE /\ sem' = [sem EXCEPT ![p] =
                      [hash |-> job[p].content, tree |-> parsed[p], walk |-> walk[p].tree]]
                /\ pc' = [pc EXCEPT ![p] = "putsemantic"]
    /\ UNCHANGED <<caches, job, parsed, idx, walk, trees>>

PutSemantic(p) ==
    /\ pc[p] = "putsemantic"
    /\ IF semantics[Key(p)] = None /\ Full
       THEN /\ semantics' = [Empty EXCEPT ![Key(p)] = sem[p]]
            /\ walks' = Empty
       ELSE /\ semantics' = [semantics EXCEPT ![Key(p)] = sem[p]]
            /\ UNCHANGED walks
    /\ pc' = [pc EXCEPT ![p] = "done"]
    /\ UNCHANGED <<entries, index, job, held, trees>>

\* BuildContext stops when its context is cancelled.
Cancel(p) ==
    /\ pc[p] \notin {"idle", "done"}
    /\ pc' = [pc EXCEPT ![p] = "idle"]
    /\ job' = [job EXCEPT ![p] = None]
    /\ parsed' = [parsed EXCEPT ![p] = None]
    /\ idx' = [idx EXCEPT ![p] = None]
    /\ walk' = [walk EXCEPT ![p] = None]
    /\ sem' = [sem EXCEPT ![p] = None]
    /\ UNCHANGED <<caches, trees>>

Next ==
    \E p \in Procs :
        \/ \E j \in Jobs : Start(p, j)
        \/ Lookup(p) \/ Parse(p) \/ InsertParse(p) \/ Prepare(p)
        \/ GetIndex(p) \/ PutIndex(p) \/ GetWalk(p) \/ PutWalk(p)
        \/ GetSemantic(p) \/ PutSemantic(p) \/ Cancel(p)

Spec == Init /\ [][Next]_vars

-----------------------------------------------------------------------------
(* Properties *)

Points == {"idle", "lookup", "parse", "insert", "prepare", "index", "putindex",
           "walk", "putwalk", "semantic", "putsemantic", "done"}

TypeOK ==
    /\ entries \in [Paths -> Entries \cup {None}]
    /\ index \in [Paths -> Indexes \cup {None}]
    /\ walks \in [AnalysisKeys -> Walks \cup {None}]
    /\ semantics \in [AnalysisKeys -> Semantics \cup {None}]
    /\ pc \in [Procs -> Points]
    /\ job \in [Procs -> Jobs \cup {None}]
    /\ parsed \in [Procs -> Trees \cup {None}]
    /\ idx \in [Procs -> Indexes \cup {None}]
    /\ walk \in [Procs -> Walks \cup {None}]
    /\ sem \in [Procs -> Semantics \cup {None}]
    /\ trees \in 0 .. MaxTrees

\* A build that is through with a file holds a tree, an index, a walk and a
\* semantic model of the content it asked for, the walk under its own defines,
\* whatever the other builds stored meanwhile; and its tree carries the trivia
\* it needs.
Finished(p) == pc[p] = "done" /\ p \in Builders

HeldIsOwn ==
    \A p \in Builders : Finished(p) =>
        /\ parsed[p].content = job[p].content
        /\ ~job[p].discard => ~parsed[p].discarded
        /\ idx[p].tree.content = job[p].content
        /\ walk[p].tree.content = job[p].content
        /\ walk[p].defines = job[p].defines
        /\ sem[p].tree.content = job[p].content

\* A tree is dropped from the cache only for one it could not have served: two
\* builds that race to parse the same source end with the same tree.
FirstParseWins ==
    [][\A f \in Paths :
          entries[f] # None /\ entries'[f] # entries[f]
              => ~Matches(entries[f], entries'[f].hash, entries'[f].discard)]_vars

\* Why HeldIsOwn holds: what is cached under a hash was made from that content.
EntryOK(e) == e.tree.content = e.hash /\ (~e.discard => ~e.tree.discarded)
WalkOK(w, d) == w.tree.content = w.hash /\ w.defines = d

CacheInv ==
    /\ \A f \in Paths : entries[f] # None => EntryOK(entries[f])
    /\ \A f \in Paths : index[f] # None => index[f].tree.content = index[f].hash
    /\ \A k \in AnalysisKeys : walks[k] # None => WalkOK(walks[k], k[2])
    /\ \A k \in AnalysisKeys :
          semantics[k] # None => semantics[k].tree.content = semantics[k].hash

HasTree == {"insert", "prepare", "index", "putindex", "walk", "putwalk", "semantic",
            "putsemantic"}
HasIndex == {"putindex", "walk", "putwalk", "semantic", "putsemantic"}
HasWalk == {"putwalk", "semantic", "putsemantic"}

ProcInv(p) ==
    /\ pc[p] # "idle" => job[p] \in Jobs
    /\ pc[p] = "prepare" => p \in Hosts
    /\ pc[p] \in HasTree \/ Finished(p) =>
          /\ parsed[p] \in Trees
          /\ parsed[p].content = job[p].content
          /\ ~job[p].discard => ~parsed[p].discarded
    /\ pc[p] \in HasIndex \/ Finished(p) =>
          /\ idx[p] \in Indexes
          /\ idx[p].hash = job[p].content
          /\ idx[p].tree.content = job[p].content
    /\ pc[p] \in HasWalk \/ Finished(p) =>
          /\ walk[p] \in Walks
          /\ walk[p].hash = job[p].content
          /\ WalkOK(walk[p], job[p].defines)
    /\ pc[p] = "putsemantic" \/ Finished(p) =>
          /\ sem[p] \in Semantics
          /\ sem[p].hash = job[p].content
          /\ sem[p].tree.content = job[p].content

IInv == TypeOK /\ CacheInv /\ \A p \in Procs : ProcInv(p)
=============================================================================
