-------------------------- MODULE DiagnosticsCache --------------------------
(***************************************************************************)
(* The on-disk cache of diagnostics (internal/cache) as its two users run  *)
(* it: the command line (cachedDiagnostics) and the analyzer API           *)
(* (cachedAnalyzerDiagnostics).  One file per slot holds the diagnostics   *)
(* of one analysis and the key of its inputs.  A process goes through its  *)
(* contexts (variants or builds): it builds the project model, asks the    *)
(* cache, analyses on a miss and replaces the file of the slot through a   *)
(* temporary file and a rename.                                            *)
(*                                                                         *)
(* Processes share the cache directory and run at the same time; sources,  *)
(* flags and include directories change between their steps; writes fail;  *)
(* processes are cancelled and killed; anybody may delete or damage the    *)
(* files of the cache.                                                     *)
(*                                                                         *)
(* Diagnostics are abstracted to what they were computed from.             *)
(***************************************************************************)
EXTENDS Naturals, FiniteSets

CONSTANTS
    CliProcs,      \* processes of the command line
    ApiProcs,      \* users of the analyzer API
    Contexts,      \* number of variants or builds of the configuration
    Targets,       \* number of files to lint
    Contents,      \* contents of the resolved sources
    Rules,         \* rule identifiers
    Configs,       \* configuration files
    Flags,         \* what --enable and --disable force
    NoEntry,       \* no file in the slot
    Garbled,       \* a file that does not decode or validate
    Nothing,       \* no diagnostics, no key
    MaxCommands,   \* bound on the commands started
    MaxChanges     \* bound on the changes of the environment

Procs == CliProcs \cup ApiProcs

\* A configuration file: the rules its profile and [rules] enable, and
\* whether one override matches the target, with what it enables and disables.
ConfigFile == [profile : SUBSET Rules, override : BOOLEAN,
               on : SUBSET Rules, off : SUBSET Rules]

Forced == [on : SUBSET Rules, off : SUBSET Rules]
NoFlags == [on |-> {}, off |-> {}]

ASSUME CacheAssumption ==
    /\ CliProcs \cap ApiProcs = {}
    /\ Contexts \in Nat \ {0}
    /\ Targets \in Nat
    /\ Configs \subseteq ConfigFile
    /\ Flags \subseteq Forced
    /\ NoFlags \in Flags
    /\ MaxCommands \in Nat
    /\ MaxChanges \in Nat

VARIABLES
    content,   \* what the sources resolve to now
    shadowed,  \* TRUE when an include has a second candidate file
    slots,     \* the files of the cache directory
    pc,        \* where each process is
    command,   \* configuration and flags of the command
    ctx,       \* index of the context being analysed
    model,     \* the sources and candidates the project model was built from
    linted,    \* files analysed so far in this context
    diag,      \* the diagnostics of this context
    temp,      \* the entry in the process's temporary file
    warm,      \* the key last stored for each context and not lost since
    commands,  \* commands started
    changes    \* changes of the environment

world == <<content, shadowed, changes>>
vars == <<content, shadowed, slots, pc, command, ctx, model, linted, diag,
          temp, warm, commands, changes>>

-----------------------------------------------------------------------------
(* What the cache looks at *)

\* Resolved.Enabled after ApplyCLIOverrides.
Enabled(cmd) == (cmd.config.profile \cup cmd.flags.on) \ cmd.flags.off

\* Resolved.EnabledForPath of the target: without overrides the map as it is,
\* else the override and then the forced rules on top of it.
EnabledForPath(cmd) ==
    IF ~cmd.config.override
    THEN Enabled(cmd)
    ELSE LET merged == (Enabled(cmd) \cup cmd.config.on) \ cmd.config.off
         IN  (merged \cup cmd.flags.on) \ cmd.flags.off

\* The key forgets what the command enables (a plausible bug).
KeyOf_NoEnabled(u, cmd, c, m) ==
    [user |-> u, ctx |-> c, config |-> cmd.config, enabled |-> {}, content |-> m.content]

\* cache.Key: context, configuration file, Resolved.Enabled and the sources.
\* The command line and the API write the context of a key differently.
KeyOf(u, cmd, c, m) ==
    [user |-> u, ctx |-> c, config |-> cmd.config, enabled |-> Enabled(cmd),
     content |-> m.content]

\* Two contexts share a slot (a plausible bug).
SlotOf_Shared(p, c) == IF p \in CliProcs THEN <<"cli", 0>> ELSE <<"api", 1>>

\* cache.Slot: the command line leaves the variant out, the analyzer does not.
SlotOf(p, c) == IF p \in CliProcs THEN <<"cli", 0>> ELSE <<"api", c>>

\* What the analysis of a context computes its diagnostics from.
Analysis(cmd, c, m) ==
    [ctx |-> c, config |-> cmd.config, enabled |-> Enabled(cmd), content |-> m.content,
     rules |-> EnabledForPath(cmd), shadowed |-> m.shadowed, complete |-> TRUE]

Users == {"cli", "api"}
Keys == [user : Users, ctx : 1 .. Contexts, config : Configs, enabled : SUBSET Rules,
         content : Contents]
Diags == [ctx : 1 .. Contexts, config : Configs, enabled : SUBSET Rules, content : Contents,
          rules : SUBSET Rules, shadowed : BOOLEAN, complete : BOOLEAN]
Entries == [key : Keys, diag : Diags]
Commands == [config : Configs, flags : Flags]
Models == [content : Contents, shadowed : BOOLEAN]
Slots == {<<"cli", 0>>} \cup {<<"api", c>> : c \in 1 .. Contexts}

\* No file and a damaged file are told apart from an entry, and no key from keys.
ASSUME TagAssumption == NoEntry \notin Entries /\ Garbled \notin Entries /\ Nothing \notin Keys

\* Load compares the version of the entry only (a plausible bug).
Found_AnyKey(s, k) == slots[s] \in Entries

\* cache.Load and cache.Validate find the diagnostics of key k.
Found(s, k) == slots[s] \in Entries /\ slots[s].key = k

Init ==
    /\ content \in Contents
    /\ shadowed = FALSE
    /\ slots = [s \in Slots |-> NoEntry]
    /\ pc = [p \in Procs |-> "idle"]
    /\ command = [p \in Procs |-> Nothing]
    /\ ctx = [p \in Procs |-> 1]
    /\ model = [p \in Procs |-> Nothing]
    /\ linted = [p \in Procs |-> 0]
    /\ diag = [p \in Procs |-> Nothing]
    /\ temp = [p \in Procs |-> Nothing]
    /\ warm = [s \in Users |-> [c \in 1 .. Contexts |-> Nothing]]
    /\ commands = 0
    /\ changes = 0

User(p) == IF p \in CliProcs THEN "cli" ELSE "api"
MyKey(p) == KeyOf(User(p), command[p], ctx[p], model[p])
MySlot(p) == SlotOf(p, ctx[p])

-----------------------------------------------------------------------------
(* Plausible bugs in the cache *)

\* A cancelled analysis is stored like a complete one.
Cancel_Stores(p) ==
    /\ p \in ApiProcs
    /\ pc[p] = "lint"
    /\ linted[p] < Targets
    /\ diag' = [diag EXCEPT ![p] = [Analysis(command[p], ctx[p], model[p])
                                       EXCEPT !.complete = FALSE]]
    /\ pc' = [pc EXCEPT ![p] = "store"]
    /\ UNCHANGED <<world, slots, command, ctx, model, linted, temp, warm, commands>>

-----------------------------------------------------------------------------
(* The processes *)

Start(p, cmd) ==
    /\ pc[p] = "idle"
    /\ commands < MaxCommands
    /\ p \in ApiProcs => cmd.flags = NoFlags
    /\ command' = [command EXCEPT ![p] = cmd]
    /\ ctx' = [ctx EXCEPT ![p] = 1]
    /\ pc' = [pc EXCEPT ![p] = "build"]
    /\ commands' = commands + 1
    /\ UNCHANGED <<world, slots, model, linted, diag, temp, warm>>

\* project.Build reads the sources of the context and resolves its includes.
Build(p) ==
    /\ pc[p] = "build"
    /\ model' = [model EXCEPT ![p] = [content |-> content, shadowed |-> shadowed]]
    /\ pc' = [pc EXCEPT ![p] = "load"]
    /\ UNCHANGED <<world, slots, command, ctx, linted, diag, temp, warm, commands>>

Hit(p) ==
    /\ pc[p] = "load"
    /\ Found(MySlot(p), MyKey(p))
    /\ diag' = [diag EXCEPT ![p] = slots[MySlot(p)].diag]
    /\ pc' = [pc EXCEPT ![p] = "served"]
    /\ UNCHANGED <<world, slots, command, ctx, model, linted, temp, warm, commands>>

\* No file, a damaged file or another key: analyse.
Miss(p) ==
    /\ pc[p] = "load"
    /\ ~Found(MySlot(p), MyKey(p))
    /\ linted' = [linted EXCEPT ![p] = 0]
    /\ pc' = [pc EXCEPT ![p] = "lint"]
    /\ UNCHANGED <<world, slots, command, ctx, model, diag, temp, warm, commands>>

LintOne(p) ==
    /\ pc[p] = "lint"
    /\ linted[p] < Targets
    /\ linted' = [linted EXCEPT ![p] = @ + 1]
    /\ UNCHANGED <<world, slots, pc, command, ctx, model, diag, temp, warm, commands>>

Analysed(p) ==
    /\ pc[p] = "lint"
    /\ linted[p] = Targets
    /\ diag' = [diag EXCEPT ![p] = Analysis(command[p], ctx[p], model[p])]
    /\ pc' = [pc EXCEPT ![p] = "store"]
    /\ UNCHANGED <<world, slots, command, ctx, model, linted, temp, warm, commands>>

\* The API checks for cancellation before each file and returns an error.
Cancel(p) ==
    /\ p \in ApiProcs
    /\ pc[p] = "lint"
    /\ linted[p] < Targets
    /\ pc' = [pc EXCEPT ![p] = "idle"]
    /\ UNCHANGED <<world, slots, command, ctx, model, linted, diag, temp, warm, commands>>

\* cache.Write up to the rename: the entry is in a temporary file.
Store(p) ==
    /\ pc[p] = "store"
    /\ temp' = [temp EXCEPT ![p] = [key |-> MyKey(p), diag |-> diag[p]]]
    /\ pc' = [pc EXCEPT ![p] = "rename"]
    /\ UNCHANGED <<world, slots, command, ctx, model, linted, diag, warm, commands>>

\* An error of cache.Write is ignored; the deferred function cleans up.
StoreFails(p) ==
    /\ pc[p] \in {"store", "rename"}
    /\ temp' = [temp EXCEPT ![p] = Nothing]
    /\ pc' = [pc EXCEPT ![p] = "served"]
    /\ UNCHANGED <<world, slots, command, ctx, model, linted, diag, warm, commands>>

Rename(p) ==
    /\ pc[p] = "rename"
    /\ slots' = [slots EXCEPT ![MySlot(p)] = temp[p]]
    /\ warm' = [warm EXCEPT ![User(p)][ctx[p]] = MyKey(p)]
    /\ temp' = [temp EXCEPT ![p] = Nothing]
    /\ pc' = [pc EXCEPT ![p] = "served"]
    /\ UNCHANGED <<world, command, ctx, model, linted, diag, commands>>

\* The diagnostics of this context are used: next context or end.
Served(p) ==
    /\ pc[p] = "served"
    /\ diag' = [diag EXCEPT ![p] = Nothing]
    /\ IF ctx[p] < Contexts
       THEN /\ ctx' = [ctx EXCEPT ![p] = @ + 1]
            /\ pc' = [pc EXCEPT ![p] = "build"]
       ELSE /\ pc' = [pc EXCEPT ![p] = "idle"]
            /\ UNCHANGED ctx
    /\ UNCHANGED <<world, slots, command, model, linted, temp, warm, commands>>

Crash(p) ==
    /\ pc[p] # "idle"
    /\ pc' = [pc EXCEPT ![p] = "idle"]
    /\ diag' = [diag EXCEPT ![p] = Nothing]
    /\ temp' = [temp EXCEPT ![p] = Nothing]
    /\ UNCHANGED <<world, slots, command, ctx, model, linted, warm, commands>>

-----------------------------------------------------------------------------
(* The environment *)

\* A source, or which file an include resolves to, changes.
Edit(c) ==
    /\ changes < MaxChanges
    /\ c # content
    /\ content' = c
    /\ changes' = changes + 1
    /\ UNCHANGED <<shadowed, slots, pc, command, ctx, model, linted, diag, temp, warm, commands>>

\* A file appears or disappears in a later include directory: the include
\* still resolves to the same source but its list of candidates changes.
ToggleCandidate ==
    /\ changes < MaxChanges
    /\ shadowed' = ~shadowed
    /\ changes' = changes + 1
    /\ UNCHANGED <<content, slots, pc, command, ctx, model, linted, diag, temp, warm, commands>>

\* The contexts whose entry lived in slot s are cold.
Lost(s) ==
    [u \in Users |-> [c \in 1 .. Contexts |->
        IF s = (IF u = "cli" THEN <<"cli", 0>> ELSE <<"api", c>>)
        THEN Nothing ELSE warm[u][c]]]

\* Somebody deletes or damages a file of the cache.
Damage(s, e) ==
    /\ changes < MaxChanges
    /\ slots[s] \notin {NoEntry, Garbled}
    /\ slots' = [slots EXCEPT ![s] = e]
    /\ warm' = Lost(s)
    /\ changes' = changes + 1
    /\ UNCHANGED <<content, shadowed, pc, command, ctx, model, linted, diag, temp, commands>>

Ended ==
    /\ commands = MaxCommands
    /\ \A p \in Procs : pc[p] = "idle"
    /\ UNCHANGED vars

Next ==
    \/ \E p \in Procs :
        \/ \E cmd \in Commands : Start(p, cmd)
        \/ Build(p) \/ Hit(p) \/ Miss(p) \/ LintOne(p) \/ Analysed(p) \/ Cancel(p)
        \/ Store(p) \/ StoreFails(p) \/ Rename(p) \/ Served(p) \/ Crash(p)
    \/ \E c \in Contents : Edit(c)
    \/ ToggleCandidate
    \/ \E s \in Slots, e \in {NoEntry, Garbled} : Damage(s, e)
    \/ Ended

Spec == Init /\ [][Next]_vars

-----------------------------------------------------------------------------
(* Properties *)

Points == {"idle", "build", "load", "lint", "store", "rename", "served"}

TypeOK ==
    /\ content \in Contents
    /\ shadowed \in BOOLEAN
    /\ slots \in [Slots -> Entries \cup {NoEntry, Garbled}]
    /\ pc \in [Procs -> Points]
    /\ command \in [Procs -> Commands \cup {Nothing}]
    /\ ctx \in [Procs -> 1 .. Contexts]
    /\ model \in [Procs -> Models \cup {Nothing}]
    /\ linted \in [Procs -> 0 .. Targets]
    /\ diag \in [Procs -> Diags \cup {Nothing}]
    /\ temp \in [Procs -> Entries \cup {Nothing}]
    /\ warm \in [Users -> [1 .. Contexts -> Keys \cup {Nothing}]]
    /\ commands \in 0 .. MaxCommands
    /\ changes \in 0 .. MaxChanges

\* The inputs of an analysis that the key covers are those of this process.
Covers(d, cmd, c, m) ==
    /\ d.ctx = c
    /\ d.config = cmd.config
    /\ d.enabled = Enabled(cmd)
    /\ d.content = m.content

\* The diagnostics a process goes on with, cached or not, were computed from
\* the sources its own model holds, in its own context, under its own
\* configuration file, and with the rules that are in force for the target,
\* whoever wrote the slot meanwhile.  For a command with a configuration that has an
\* override of the target the rules are not claimed: see ServedRulesAreOwn.
ServedMatchesInputs ==
    \A p \in Procs : pc[p] = "served" =>
        /\ Covers(diag[p], command[p], ctx[p], model[p])
        /\ p \in ApiProcs \/ ~command[p].config.override =>
              diag[p].rules = EnabledForPath(command[p])

\* docs/configuration.md: diagnostics are reused when the effective configuration
\* is unchanged.  The key of the command line (cli.cachedDiagnostics) holds the
\* enabled rules without the overrides and leaves the flags out, which win over them:
\* this is not true of it.  No run claims it; ServedMatchesInputs claims what is true.
ServedRulesAreOwn ==
    \A p \in Procs : pc[p] = "served" => diag[p].rules = EnabledForPath(command[p])

\* docs/configuration.md: the project graph is still rebuilt to validate includes.
\* Whether an include has a second candidate is known to the model and is what
\* ambiguous-include reports, but neither cache.Key nor a source tells it: this is not
\* true of the code either.
ServedIncludesAreOwn ==
    \A p \in Procs : pc[p] = "served" => diag[p].shadowed = model[p].shadowed

\* A cancelled analysis is never stored: every entry covers all the targets.
StoredIsComplete ==
    \A s \in Slots : slots[s] \in Entries => slots[s].diag.complete

\* Why ServedMatchesInputs holds: the key of an entry names its writer and the
\* inputs of the diagnostics it holds, which tell the rules in force: for the API,
\* which has no flags, always; for a command when no override matches.
Own(d, u) ==
    IF u = "api"
    THEN d.rules = EnabledForPath([config |-> d.config, flags |-> NoFlags])
    ELSE ~d.config.override => d.rules = d.enabled

Sound(e) ==
    /\ e.key = [user |-> e.key.user, ctx |-> e.diag.ctx, config |-> e.diag.config,
                enabled |-> e.diag.enabled, content |-> e.diag.content]
    /\ e.diag.complete
    /\ Own(e.diag, e.key.user)

Busy == {"load", "lint", "store", "rename", "served"}

ProcInv(p) ==
    /\ pc[p] # "idle" =>
          /\ command[p] \in Commands
          /\ p \in ApiProcs => command[p].flags = NoFlags
    /\ pc[p] \in Busy => model[p] \in Models
    /\ pc[p] \in {"store", "rename", "served"} =>
          /\ diag[p] \in Diags
          /\ diag[p].complete
          /\ Covers(diag[p], command[p], ctx[p], model[p])
          /\ Own(diag[p], User(p))
    /\ pc[p] = "rename" => temp[p] \in Entries /\ Sound(temp[p])

SlotInv == \A s \in Slots : slots[s] \in Entries => Sound(slots[s])

IInv == TypeOK /\ SlotInv /\ \A p \in Procs : ProcInv(p)

\* docs/configuration.md: the cache reuses diagnostics when the inputs are
\* unchanged.  An entry that a user of the API stored for a context, and that
\* was neither deleted nor damaged nor replaced by one for the same context, is
\* found.  Of the command line this is not true: its contexts share a slot.
UnchangedInputsHit ==
    \A p \in ApiProcs :
        pc[p] = "load" /\ warm["api"][ctx[p]] = MyKey(p) => Found(MySlot(p), MyKey(p))

\* Why it holds: an entry on its way carries the key of its process, and what is warm
\* for the API is in the slot of its context.
CarriedInv(p) == pc[p] = "rename" => temp[p].key = MyKey(p)
WarmInv ==
    /\ \A p \in Procs : CarriedInv(p)
    /\ \A c \in 1 .. Contexts :
          warm["api"][c] # Nothing => Found(<<"api", c>>, warm["api"][c])
=============================================================================
