------------------------------ MODULE Settings ------------------------------
(***************************************************************************)
(* From configuration files, presets and flags to what is enabled for a    *)
(* path, with which severity and options: pkg/lint/registry.go and         *)
(* options.go, internal/config/load.go, presets.go, resolve.go,            *)
(* cli_overrides.go, config.go and features.go.                            *)
(*                                                                         *)
(* A value of a file is a record whose one field says what it is: text,    *)
(* flag, int, half (a number of halves: other formats read numbers as      *)
(* floats), list or table.  None stands for an error, or for nothing.      *)
(***************************************************************************)
EXTENDS Integers, Sequences, FiniteSets, Selection

CONSTANTS
    None,
    RuleList,  \* the metadata of the rules, in the order they register
    AliasList, \* <<deprecated, replacement>>
    MaxLevels  \* how far Discover goes up (64 in the code)

Is(kind, v) == DOMAIN v = {kind}
Says(t) == [text |-> t]
Table(f) == [table |-> f]
Nowhere == [k \in {} |-> None]

Less(f, D) == [k \in DOMAIN f \ D |-> f[k]]

\* A map laid over another (@@, which no prover knows).
Atop(f, g) == [k \in DOMAIN f \cup DOMAIN g |-> IF k \in DOMAIN f THEN f[k] ELSE g[k]]

-----------------------------------------------------------------------------
(* Options of rules (pkg/lint/options.go).  An option: its name, type,      *)
(* bounds, choices, the values its own check refuses, whether it is         *)
(* required, its default, and the fields of the objects of a list.          *)

\* integerOption
AsInteger(v) ==
    CASE Is("int", v) -> v
      [] Is("half", v) /\ v.half % 2 = 0 -> [int |-> v.half \div 2]
      [] OTHER -> None

Allowed(o, t) == o.choices = {} \/ t \in o.choices

NormalizePlain(o, v) ==
    LET ok ==
            CASE o.type = "boolean" -> Is("flag", v)
              [] o.type = "integer" ->
                   /\ AsInteger(v) # None
                   /\ o.least # None => AsInteger(v).int >= o.least
                   /\ o.most # None => AsInteger(v).int <= o.most
              [] o.type = "string" -> Is("text", v) /\ Allowed(o, v.text)
              [] o.type = "string-list" ->
                   /\ Is("list", v)
                   /\ \A k \in DOMAIN v.list : Is("text", v.list[k]) /\ Allowed(o, v.list[k].text)
              [] OTHER -> FALSE
        result == IF o.type = "integer" THEN AsInteger(v) ELSE v
    IN  IF ok /\ result \notin o.refused THEN result ELSE None

Named(os, name) == CHOOSE k \in DOMAIN os : os[k].name = name
NamesOf(os) == {os[k].name : k \in DOMAIN os}

\* objectListOption, for one entry: unknown and missing fields are errors, defaults
\* are filled in.
NormalizeObject(o, f) ==
    LET given == [n \in DOMAIN f \cap NamesOf(o.fields) |->
                     NormalizePlain(o.fields[Named(o.fields, n)], f[n])]
        missing == {k \in DOMAIN o.fields : o.fields[k].name \notin DOMAIN f}
        filled == {k \in missing : o.fields[k].default # None}
    IN  IF /\ DOMAIN f \subseteq NamesOf(o.fields)
           /\ \A n \in DOMAIN given : given[n] # None
           /\ \A k \in missing : ~o.fields[k].required
        THEN Table(Atop(given, [n \in {o.fields[k].name : k \in filled} |->
                       NormalizePlain(o.fields[Named(o.fields, n)], o.fields[Named(o.fields, n)].default)]))
        ELSE None

\* NormalizeOption
NormalizeOption(o, v) ==
    IF o.type # "object-list" THEN NormalizePlain(o, v)
    ELSE IF ~Is("list", v) THEN None
    ELSE LET items == [k \in DOMAIN v.list |->
                          IF Is("table", v.list[k]) THEN NormalizeObject(o, v.list[k].table) ELSE None]
         IN  IF \A k \in DOMAIN items : items[k] # None THEN [list |-> items] ELSE None

Types == {"boolean", "integer", "string", "string-list", "object-list"}

Distinct(os) == \A k, l \in DOMAIN os : os[k].name = os[l].name => k = l

\* What validateOptions and validateObjectFields ask of an option and of a field.
ValidShape(o, types) ==
    /\ o.name \notin {"", "severity"} /\ o.type \in types
    /\ o.least # None /\ o.most # None => o.least <= o.most
    /\ o.type # "integer" => o.least = None /\ o.most = None
    /\ o.choices # {} => o.type \in {"string", "string-list"}
    /\ o.fields # <<>> => o.type = "object-list"
    /\ o.default # None => NormalizeOption(o, o.default) # None

\* validateOptions
ValidOptions(os) ==
    /\ Distinct(os)
    /\ \A k \in DOMAIN os :
          /\ ValidShape(os[k], Types)
          /\ Distinct(os[k].fields)
          /\ \A l \in DOMAIN os[k].fields : ValidShape(os[k].fields[l], Types \ {"object-list"})

-----------------------------------------------------------------------------
(* The registry (pkg/lint/registry.go)                                      *)

\* Register: an id is registered once and is no alias.
Register(reg, m) ==
    IF \/ reg = None \/ m.id = "" \/ ~ValidOptions(m.options)
       \/ m.id \in DOMAIN reg.rules \cup DOMAIN reg.aliases
    THEN None
    ELSE [reg EXCEPT !.rules = Atop([k \in {m.id} |-> m], @)]

\* RegisterAlias: an alias is no rule and stands for a rule that is there.
RegisterAlias(reg, a) ==
    IF \/ reg = None \/ a[1] \in {"", a[2]} \/ a[2] \notin DOMAIN reg.rules
       \/ a[1] \in DOMAIN reg.rules \cup DOMAIN reg.aliases
    THEN None
    ELSE [reg EXCEPT !.aliases = Atop([k \in {a[1]} |-> a[2]], @)]

\* The first n rules and the first m aliases.
RegistryOf(n, m) ==
    [rules |-> [id \in {RuleList[k].id : k \in 1 .. n} |->
                   RuleList[CHOOSE k \in 1 .. n : RuleList[k].id = id]],
     aliases |-> [id \in {AliasList[k][1] : k \in 1 .. m} |->
                     AliasList[CHOOSE k \in 1 .. m : AliasList[k][1] = id][2]]]

Registry == RegistryOf(Len(RuleList), Len(AliasList))

\* MustRegister and MustRegisterAlias for all of them, in order: they panic, so the
\* program starts only if everything can be registered.
ASSUME RegistrationAssumption ==
    /\ \A n \in 1 .. Len(RuleList) :
          Register(RegistryOf(n - 1, 0), RuleList[n]) \in {RegistryOf(n, 0)} \ {None}
    /\ \A n \in 1 .. Len(AliasList) :
          RegisterAlias(RegistryOf(Len(RuleList), n - 1), AliasList[n])
              \in {RegistryOf(Len(RuleList), n)} \ {None}

IDs == DOMAIN Registry.rules
Known(id) == id \in IDs \cup DOMAIN Registry.aliases
ResolveID(id) == IF id \in IDs THEN id ELSE Registry.aliases[id]
Lookup(id) == Registry.rules[ResolveID(id)]

Profiles == {"recommended", "strict", "all"}

\* profileEnables
ProfileEnables(p, m) ==
    /\ m.stability # "preview"
    /\ \/ p = "all"
       \/ p = "strict" /\ m.curated
       \/ p # "all" /\ m.on

EnabledForProfile(p) ==
    [id \in {i \in IDs : ProfileEnables(p, Registry.rules[i])} |-> Registry.rules[id].severity]

-----------------------------------------------------------------------------
(* Files and presets (internal/config/load.go, presets.go)                  *)
(* A disk maps paths to what decodes, or to None: unreadable, malformed or  *)
(* with unknown fields.  A file has profile, target ("": not given), warn,  *)
(* max and overrides (None: not given), rules, presets, and what only a     *)
(* local file may have: exclude, variants, builds, externals, api, other (empty: not *)
(* given, which is how an empty list is kept).                              *)

Empty == [presets |-> <<>>, profile |-> "", target |-> "", warn |-> None, max |-> None,
          rules |-> Nowhere, overrides |-> None, variants |-> <<>>, builds |-> <<>>,
          externals |-> <<>>, api |-> <<>>, exclude |-> <<>>, other |-> {}]

ArePaths(overrides) == IsSeq(overrides) /\ \A k \in DOMAIN overrides : ArePatterns(overrides[k].paths)
AreBuilds(builds) ==
    /\ IsSeq(builds)
    /\ \A k \in DOMAIN builds : /\ {"files", "exclude"} \subseteq DOMAIN builds[k]
                                /\ ArePatterns(builds[k].files) /\ ArePatterns(builds[k].exclude)

\* Of a file that decodes: its fields, and its lists.
IsFile(f) ==
    /\ DOMAIN f = DOMAIN Empty
    /\ IsSeq(f.presets) /\ IsSeq(f.variants) /\ IsSeq(f.externals) /\ ArePatterns(f.exclude)
    /\ f.overrides # None => ArePaths(f.overrides)
    /\ AreBuilds(f.builds)

\* A table of a later file replaces that of an earlier one (a plausible bug).
MergeRules_Replace(base, over) == Atop(over, base)

\* A table of a later file laid over that of an earlier one, the tables in both joined.
MergeTables(base, over, Join(_, _)) ==
    [k \in DOMAIN base \cup DOMAIN over |->
        IF k \notin DOMAIN over THEN base[k]
        ELSE IF k \in DOMAIN base /\ Is("table", base[k]) /\ Is("table", over[k])
        THEN Table(Join(base[k].table, over[k].table))
        ELSE over[k]]

\* mergeRuleMaps: tables are merged key by key, anything else is replaced.  The tables
\* are those of the rules, in them an option that is a table itself, which is refused
\* whatever is in it: what lies deeper is not merged.
MergeOptions(base, over) == MergeTables(base, over, LAMBDA b, o : Atop(o, b))
MergeRules(base, over) == MergeTables(base, over, MergeOptions)

\* mergePreset: an empty list of overrides clears those of the base, and is then
\* no list any more.
MergePreset(base, over) ==
    [over EXCEPT !.presets = <<>>,
                 !.profile = IF @ = "" THEN base.profile ELSE @,
                 !.warn = IF @ = None THEN base.warn ELSE @,
                 !.max = IF @ = None THEN base.max ELSE @,
                 !.rules = MergeRules(base.rules, over.rules),
                 !.overrides = IF @ = None THEN base.overrides ELSE IF @ = <<>> THEN None ELSE @]

\* validatePreset
ValidPreset(f) ==
    /\ f.target = "" /\ f.exclude = <<>> /\ f.other = {}
    /\ f.variants = <<>> /\ f.builds = <<>> /\ f.externals = <<>> /\ f.api = <<>>

\* What loadPresets makes of a file and its presets: each valid, in order, the file on top.
OnTop(presets, f) ==
    LET merged[n \in 0 .. Len(presets)] ==
            IF n = 0 THEN Empty
            ELSE IF merged[n - 1] = None \/ presets[n] = None THEN None
            ELSE IF ~ValidPreset(presets[n]) THEN None
            ELSE MergePreset(merged[n - 1], presets[n])
        base == merged[Len(presets)]
    IN  IF base = None THEN None ELSE MergePreset(base, f)

\* loadPresets, of a file that those above it name.
LoadPresets(disk, path, above) ==
    LET load[c \in (DOMAIN disk) \X SUBSET DOMAIN disk] ==
            LET f == disk[c[1]]
            IN  IF c[1] \in c[2] \/ f = None THEN None
                ELSE OnTop([n \in DOMAIN f.presets |->
                               IF f.presets[n] \in DOMAIN disk
                               THEN load[<<f.presets[n], c[2] \cup {c[1]}>>] ELSE None], f)
    IN  IF path \in DOMAIN disk THEN load[<<path, above>>] ELSE None

Load(disk, path) == LoadPresets(disk, path, {})

CandidateNames == <<"toml", "yaml", "yml", "json">>

\* Discover, from a directory that many levels below the root: the nearest directory
\* with a candidate, and of its candidates the first.
DiscoverFile(disk, level) ==
    LET found == {c \in (0 .. level) \X DOMAIN CandidateNames :
                     c[1] > level - MaxLevels /\ <<c[1], CandidateNames[c[2]]>> \in DOMAIN disk}
        nearest == CHOOSE c \in found :
                       \A d \in found : c[1] > d[1] \/ (c[1] = d[1] /\ c[2] <= d[2])
    IN  IF found = {} THEN None ELSE <<nearest[1], CandidateNames[nearest[2]]>>

Defaults == [Empty EXCEPT !.profile = "recommended", !.target = "openmp", !.warn = FALSE, !.max = 0]

-----------------------------------------------------------------------------
(* What a configuration means (internal/config/resolve.go)                  *)

Severities == {"error", "warning", "info", "hint"}
ASSUME NoneAssumption == None \notin Severities \cup {"off"}
IsSeverity(v) == Is("text", v) /\ v.text \in Severities \cup {"off"}

\* The severity a value gives a rule: None if it gives none.
SeverityOf(v) ==
    CASE Is("text", v) -> v.text
      [] Is("table", v) /\ "severity" \in DOMAIN v.table -> v.table["severity"].text
      [] OTHER -> None

OptionsOf(v) == Less(v.table, {"severity"})
OptionIn(id, name) == LET os == Lookup(id).options IN os[Named(os, name)]

\* parseRuleTable and validateRuleOptions: what is an error.
ValidRules(rules) ==
    /\ \A id \in DOMAIN rules : Known(id)
    /\ \A a, b \in DOMAIN rules : ResolveID(a) = ResolveID(b) => a = b
    /\ \A id \in DOMAIN rules :
          LET v == rules[id]
          IN  \/ Is("text", v) /\ IsSeverity(v)
              \/ /\ Is("table", v)
                 /\ "severity" \in DOMAIN v.table => IsSeverity(v.table["severity"])
                 /\ \A name \in DOMAIN OptionsOf(v) :
                       /\ name \in NamesOf(Lookup(id).options)
                       /\ NormalizeOption(OptionIn(id, name), v.table[name]) # None

\* parseRuleTable: the severities, and the options of those that have a table.
ParseRules(rules) ==
    LET given == {id \in DOMAIN rules : SeverityOf(rules[id]) # None}
        tables == {id \in DOMAIN rules : Is("table", rules[id])}
        name(id) == CHOOSE n \in DOMAIN rules : ResolveID(n) = id
    IN  [severity |-> [id \in {ResolveID(n) : n \in given} |-> SeverityOf(rules[name(id)])],
         options |-> [id \in {ResolveID(n) : n \in tables} |->
                         [o \in DOMAIN OptionsOf(rules[name(id)]) |->
                             NormalizeOption(OptionIn(id, o), rules[name(id)].table[o])]]]

\* Severities laid over what is enabled; "off" takes a rule out.
Over(enabled, severity) ==
    LET all == Atop(severity, enabled)
    IN  Less(all, {id \in DOMAIN all : all[id] = "off"})

DistinctNames(s) == /\ \A k \in DOMAIN s : s[k].name # ""
                    /\ Distinct(s)
Targets == {"", "openmp", "samp"}
LongestTimeout == 300000

\* What else Resolve refuses.  Names are taken without the spaces around them.
ValidFile(f) ==
    /\ f.profile \in Profiles \cup {""}
    /\ f.target \in Targets
    /\ \A k \in DOMAIN f.api : f.api[k] # None
    /\ f.max # None => f.max >= 0
    /\ DistinctNames(f.variants)
    /\ f.builds = <<>> \/ f.variants = <<>>
    /\ DistinctNames(f.externals)
    /\ \A k \in DOMAIN f.externals :
          /\ f.externals[k].plain /\ f.externals[k].command # ""
          /\ f.externals[k].timeout \in 0 .. LongestTimeout
    /\ DistinctNames(f.builds)
    /\ \A k \in DOMAIN f.builds : f.builds[k].entry # "" /\ f.builds[k].target \in Targets
    /\ ValidRules(f.rules)
    /\ f.overrides # None =>
          \A k \in DOMAIN f.overrides :
             /\ f.overrides[k].paths # <<>> /\ DOMAIN f.overrides[k].rules # {}
             /\ ValidRules(f.overrides[k].rules)

ProfileOf(f) == IF f.profile = "" THEN "recommended" ELSE f.profile

Resolve(f) ==
    IF ~ValidFile(f) THEN None
    ELSE [source |-> f,
          enabled |-> Over(EnabledForProfile(ProfileOf(f)), ParseRules(f.rules).severity),
          options |-> ParseRules(f.rules).options,
          overrides |-> IF f.overrides = None THEN <<>>
                        ELSE [k \in DOMAIN f.overrides |->
                                 Atop([paths |-> f.overrides[k].paths], ParseRules(f.overrides[k].rules))],
          forced |-> Nowhere]

-----------------------------------------------------------------------------
(* Flags (internal/config/cli_overrides.go)                                 *)

\* --disable is looked at first (a plausible bug).
Forced_DisableFirst(enable, disable) ==
    Atop([id \in {ResolveID(n) : n \in enable} |-> Registry.rules[id].severity],
         [id \in {ResolveID(n) : n \in disable} |-> "off"])

\* What --enable and then --disable force: a rule at its default severity, or off.
Forced(enable, disable) ==
    Atop([id \in {ResolveID(n) : n \in disable} |-> "off"],
         [id \in {ResolveID(n) : n \in enable} |-> Registry.rules[id].severity])

\* ApplyCLIOverrides: a profile starts again from the rules of the file.
ApplyCLI(r, cli) ==
    IF \/ cli.profile \notin Profiles \cup {""} \/ cli.target \notin Targets
       \/ \E n \in cli.enable \cup cli.disable : ~Known(n)
    THEN None
    ELSE LET base == IF cli.profile = "" THEN r.enabled
                     ELSE Over(EnabledForProfile(cli.profile), ParseRules(r.source.rules).severity)
             forced == Forced(cli.enable, cli.disable)
         IN  [r EXCEPT !.enabled = Over(base, forced),
                       !.forced = forced,
                       !.source.profile = IF cli.profile = "" THEN @ ELSE cli.profile,
                       !.source.target = IF cli.target = "" THEN @ ELSE cli.target,
                       !.source.builds = [k \in DOMAIN @ |->
                           IF cli.target = "" THEN @[k] ELSE [@[k] EXCEPT !.target = cli.target]]]

\* resolveConfig: --config, or what Discover finds; None: exit with 2.
Configured(disk, level, cli) ==
    LET path == IF cli.config # None THEN cli.config ELSE DiscoverFile(disk, level)
        f == IF path = None THEN Defaults ELSE Load(disk, path)
        r == IF f = None THEN None ELSE Resolve(f)
    IN  IF r = None THEN None ELSE ApplyCLI(r, cli)

-----------------------------------------------------------------------------
(* What holds for a path (internal/config/config.go)                        *)

\* The settings of every override that matches are laid over one another.
Layered(overrides, path, base, field) ==
    LET upTo[n \in 0 .. Len(overrides)] ==
            IF n = 0 THEN base
            ELSE IF MatchesAny(overrides[n].paths, path) THEN Atop(overrides[n][field], upTo[n - 1])
            ELSE upTo[n - 1]
    IN  upTo[Len(overrides)]

\* Flags are not laid over the overrides (a plausible bug).
EnabledForPath_NotForced(r, path) == Over(Layered(r.overrides, path, r.enabled, "severity"), Nowhere)

\* EnabledForPath: the overrides that match, in order, and then the flags.
EnabledForPath(r, path) == Over(Layered(r.overrides, path, r.enabled, "severity"), r.forced)

\* RuleConfigForPath: an override that has a table for a rule replaces its options.
RuleConfigForPath(r, path) == Layered(r.overrides, path, r.options, "options")

-----------------------------------------------------------------------------
(* What the project model has to hold (internal/config/features.go)         *)

\* Only what is enabled for all paths (a plausible bug).
Wanted_NoOverrides(r) == DOMAIN r.enabled \cup {id \in DOMAIN r.forced : r.forced[id] # "off"}

Wanted(r) ==
    {id \in IDs : \/ id \in DOMAIN r.enabled
                  \/ \E k \in DOMAIN r.overrides :
                        id \in DOMAIN r.overrides[k].severity /\ r.overrides[k].severity[id] # "off"
                  \/ id \in DOMAIN r.forced /\ r.forced[id] # "off"}

AllFeatures == UNION {Registry.rules[id].features : id \in IDs}

\* ProjectFeaturesExcluding: external rules are handed the whole project.
ProjectFeatures(r, excluded) ==
    IF r.source.externals # <<>> THEN AllFeatures
    ELSE UNION {Registry.rules[id].features : id \in Wanted(r) \ excluded}

-----------------------------------------------------------------------------
(* What a configuration has to mean: what was said last.  Of a lint, q: its  *)
(* disk, level, cli and path.                                                *)

\* Sequences one after the other.
Joined(ss) ==
    LET upTo[n \in 0 .. Len(ss)] == IF n = 0 THEN <<>> ELSE upTo[n - 1] \o ss[n]
    IN  upTo[Len(ss)]

\* The files that speak, the presets of a file before it.  A file that is missing, or
\* named by one it names, says nothing.
Speakers(disk, path) ==
    LET speak[c \in (DOMAIN disk) \X SUBSET DOMAIN disk] ==
            LET f == disk[c[1]]
            IN  IF c[1] \in c[2] \/ f = None THEN <<>>
                ELSE Append(Joined([n \in DOMAIN f.presets |->
                                       IF f.presets[n] \in DOMAIN disk
                                       THEN speak[<<f.presets[n], c[2] \cup {c[1]}>>] ELSE <<>>]), f)
    IN  IF path \in DOMAIN disk THEN speak[<<path, {}>>] ELSE <<>>

\* Where presets have presets of their own the last word is not always the last: a
\* string for a rule, or an empty list of overrides, undoes only what its own file knows.
\* Those are left out.
Flat(fs) ==
    \A n \in 1 .. Len(fs) - 1 :
        \/ \A m \in DOMAIN fs : m < Len(fs) => fs[m].presets = <<>>
        \/ fs[n].overrides # <<>> /\ \A id \in DOMAIN fs[n].rules : Is("table", fs[n].rules[id])

Top(q) ==
    LET path == IF q.cli.config # None THEN q.cli.config ELSE DiscoverFile(q.disk, q.level)
    IN  IF path = None THEN <<Defaults>> ELSE Speakers(q.disk, path)

Latest(S) == CHOOSE n \in S : \A m \in S : m <= n

\* What a table of rules says of a rule.
Speaks(rules, id) == \E k \in DOMAIN rules : ResolveID(k) = id
Word(rules, id) == rules[CHOOSE k \in DOMAIN rules : ResolveID(k) = id]

\* The files since the last string for a rule, which takes away what was before it (as
\* anything does that is no table; the last must be a string).
Strings(fs, id) == {n \in DOMAIN fs : Speaks(fs[n].rules, id) /\ ~Is("table", Word(fs[n].rules, id))}
Tables(fs, id) == {n \in DOMAIN fs : /\ Speaks(fs[n].rules, id)
                                     /\ \A m \in Strings(fs, id) : m < n}

ByProfile(q, fs, id) ==
    LET set == {n \in DOMAIN fs : fs[n].profile # ""}
        p == IF q.cli.profile # "" THEN q.cli.profile
             ELSE IF set = {} THEN "recommended" ELSE fs[Latest(set)].profile
    IN  IF ProfileEnables(p, Registry.rules[id]) THEN Registry.rules[id].severity ELSE "off"

ByFiles(q, fs, id) ==
    LET said == {n \in Tables(fs, id) : SeverityOf(Word(fs[n].rules, id)) # None}
    IN  IF said # {} THEN SeverityOf(Word(fs[Latest(said)].rules, id))
        ELSE IF Tables(fs, id) = {} /\ Strings(fs, id) # {}
        THEN Word(fs[Latest(Strings(fs, id))].rules, id).text
        ELSE ByProfile(q, fs, id)

\* The overrides that count are those of the last file that has some.  An empty list
\* takes them away in the file itself, not in a preset.
OverridesOf(fs) ==
    LET with == {n \in DOMAIN fs : fs[n].overrides # None /\ (n = Len(fs) \/ fs[n].overrides # <<>>)}
    IN  IF with = {} THEN <<>> ELSE fs[Latest(with)].overrides

Matching(q, fs, id) ==
    {n \in DOMAIN OverridesOf(fs) :
        /\ \E k \in DOMAIN OverridesOf(fs)[n].paths : MeansPath(OverridesOf(fs)[n].paths[k], q.path)
        /\ Speaks(OverridesOf(fs)[n].rules, id)}

LastWord(q, fs, id) ==
    LET said == {n \in Matching(q, fs, id) : SeverityOf(Word(OverridesOf(fs)[n].rules, id)) # None}
    IN  IF \E n \in q.cli.disable : ResolveID(n) = id THEN "off"
        ELSE IF \E n \in q.cli.enable : ResolveID(n) = id THEN Registry.rules[id].severity
        ELSE IF said # {} THEN SeverityOf(Word(OverridesOf(fs)[Latest(said)].rules, id))
        ELSE ByFiles(q, fs, id)

\* The options: of the last override that has a table, else of the tables of the files,
\* option by option.
OptionWord(q, fs, id, o) ==
    LET said == {n \in Matching(q, fs, id) : Is("table", Word(OverridesOf(fs)[n].rules, id))}
        files == {n \in Tables(fs, id) : o \in DOMAIN Word(fs[n].rules, id).table}
        v == IF said # {} THEN Word(OverridesOf(fs)[Latest(said)].rules, id).table
             ELSE IF files # {} THEN Word(fs[Latest(files)].rules, id).table ELSE Nowhere
    IN  IF o \in DOMAIN v THEN NormalizeOption(OptionIn(id, o), v[o]) ELSE None

SeverityGiven(r, path, id) ==
    LET e == EnabledForPath(r, path) IN IF id \in DOMAIN e THEN e[id] ELSE "off"

OptionGiven(r, path, id, o) ==
    LET c == RuleConfigForPath(r, path)
    IN  IF id \in DOMAIN c THEN IF o \in DOMAIN c[id] THEN c[id][o] ELSE None ELSE None
=============================================================================
