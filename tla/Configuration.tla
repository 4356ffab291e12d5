---------------------------- MODULE Configuration ----------------------------
(***************************************************************************)
(* ConfigurationManager, DefaultConfigurationProvider and RuleLoader:      *)
(* looking up a configuration file in the parent directories, loading it   *)
(* with all configurations it extends, flattening it for a file and loading *)
(* the rules it configures. All three keep caches for as long as the       *)
(* process lives, also after a call that failed.                           *)
(*                                                                         *)
(* A map of the code is a function, an absent one the empty function; a    *)
(* pattern is a record of the files it matches, relative to the directory  *)
(* of its configuration, and whether it is negated.                        *)
(***************************************************************************)
EXTENDS Naturals, Sequences, SequencesExt, FiniteSetsExt, TLC

CONSTANTS
    Dirs, ParentDir,    \* directories, ParentDir[d] = d for the root
    Targets,            \* files to lint
    CoreRules,          \* rules of the package @fimbul/mimir
    TypedRules,         \* rules that require type information
    ConfigInstances,    \* what is on disk: see disk
    Undefined, Off, Error, Broken, Pending

ASSUME ParentAssumption == ParentDir \in [Dirs -> Dirs]

VARIABLES
    disk,        \* raw: content of each configuration file; rc: in each directory, the
                 \* candidates of CONFIG_FILENAMES or Undefined; local: names that are
                 \* files in the current directory; rules: names of the rules in a directory
    configCache, \* ConfigurationManager.configCache
    dirCache,    \* DefaultConfigurationProvider.cache
    ruleCache,   \* RuleLoader.cache
    frames,      \* calls of loadResolved that did not return yet
    answer       \* the last call and what it returned

configVars == <<disk, configCache, dirCache, ruleCache, frames, answer>>

-----------------------------------------------------------------------------
(* Parsing a configuration file whose bases are loaded.                    *)

\* { ...base, ...more } for records and maps is more @@ base.
MapRuleSeverity(severity) ==
    CASE severity = "off" -> "off"
      [] severity \in {"warn", "warning"} -> "warning"
      [] severity \in {"hint", "suggestion"} -> "suggestion"
      [] OTHER -> "error"

MapRuleConfig(value) ==
    IF "severity" \in DOMAIN value THEN [severity |-> MapRuleSeverity(value.severity)] @@ value
                                   ELSE value

\* Mutant: what is inherited first
ExtendInherited(receiver, current) ==
    [p \in DOMAIN receiver \union DOMAIN current |->
        (IF p \in DOMAIN receiver THEN receiver[p] ELSE <<>>)
        \o (IF p \in DOMAIN current THEN current[p] ELSE <<>>)]

ExtendRulesDirectories(receiver, current) ==
    [p \in DOMAIN receiver \union DOMAIN current |->
        (IF p \in DOMAIN current THEN current[p] ELSE <<>>)
        \o (IF p \in DOMAIN receiver THEN receiver[p] ELSE <<>>)]

MapRulesDirectories(receiver, raw) ==
    ExtendRulesDirectories(receiver, [p \in DOMAIN raw |-> <<raw[p]>>])

\* A rule is <<prefix, name>>; core rules have the prefix Undefined.
ResolveNameAndDirectories(rule, directories) ==
    IF rule[1] = Undefined THEN [rule |-> rule[2], rulesDirectories |-> Undefined]
    ELSE IF rule[1] \in DOMAIN directories
         THEN [rule |-> rule[2], rulesDirectories |-> directories[rule[1]]]
         ELSE Error

\* The chain of aliases from the last of names to a rule that is none: its options
\* are the first ones that are specified.
RECURSIVE FollowAlias(_, _, _)
FollowAlias(mapped, names, options) ==
    LET alias == mapped[Last(names)]
        found == IF options = <<>> /\ "options" \in DOMAIN alias
                 THEN [options |-> alias.options] ELSE options
    IN  IF alias.rule \in ToSet(names) THEN Error
        ELSE IF alias.rule \in DOMAIN mapped
             THEN FollowAlias(mapped, Append(names, alias.rule), found)
             ELSE [rule |-> alias.rule, options |-> found]

ResolveAliases(raw, inherited, directories) ==
    LET mapped == [n \in {n \in DOMAIN raw : raw[n] # Off} |-> raw[n]]
        kept   == [n \in {n \in DOMAIN inherited : n \notin DOMAIN raw \/ raw[n] # Off} |-> inherited[n]]
        resolved(n) ==
            LET end == FollowAlias(mapped, <<n>>, <<>>)
            IN  IF end = Error THEN Error
                ELSE IF end.rule \in DOMAIN kept THEN end.options @@ kept[end.rule]
                ELSE LET rule == ResolveNameAndDirectories(end.rule, directories)
                     IN  IF rule = Error THEN Error ELSE rule @@ end.options
        all    == [n \in DOMAIN mapped |-> resolved(n)] @@ kept
    IN  IF \E n \in DOMAIN mapped : "rule" \notin DOMAIN mapped[n] THEN Error
        ELSE IF \E n \in DOMAIN mapped : all[n] = Error THEN Error ELSE all

MapRules(raw, aliases, directories) ==
    LET target(n) == IF n \in DOMAIN aliases THEN aliases[n] ELSE ResolveNameAndDirectories(n, directories)
    IN  IF \E n \in DOMAIN raw : target(n) = Error THEN Error
        ELSE [n \in DOMAIN raw |-> MapRuleConfig(raw[n]) @@ target(n)]

MapOverride(raw, aliases, directories) ==
    LET rules == MapRules(raw.rules, aliases, directories)
    IN  IF raw.files = <<>> \/ rules = Error THEN Error ELSE [raw EXCEPT !.rules = rules]

Parse(raw, file, bases) ==
    LET inheritedDirs    == FoldLeft(LAMBDA r, b : ExtendRulesDirectories(r, b.rulesDirectories), <<>>, bases)
        inheritedAliases == FoldLeft(LAMBDA r, b : b.aliases @@ r, <<>>, bases)
        directories      == MapRulesDirectories(inheritedDirs, raw.rulesDirectories)
        aliases          == ResolveAliases(raw.aliases, inheritedAliases, directories)
        rules            == MapRules(raw.rules, aliases, directories)
        overrides        == [i \in DOMAIN raw.overrides |-> MapOverride(raw.overrides[i], aliases, directories)]
    IN  IF aliases = Error THEN Error
        ELSE IF rules = Error \/ Error \in ToSet(overrides) THEN Error
        ELSE [filename |-> file, extends |-> bases, rulesDirectories |-> directories, aliases |-> aliases,
              rules |-> rules, overrides |-> overrides, processor |-> raw.processor,
              exclude |-> raw.exclude, settings |-> raw.settings]

-----------------------------------------------------------------------------
(* Flattening a configuration for a file.                                  *)

MatchesGlobs(file, patterns) ==
    LET hits == {i \in DOMAIN patterns : file \in patterns[i].files}
    IN  hits # {} /\ ~patterns[Max(hits)].negated

MatchingOverrides(config, file) == SelectSeq(config.overrides, LAMBDA o : MatchesGlobs(file, o.files))

ExtendRules(receiver, rules) ==
    [r \in DOMAIN rules |->
        rules[r] @@ (IF r \in DOMAIN receiver THEN receiver[r] ELSE [severity |-> "error", options |-> Undefined])]
    @@ receiver

ExtendConfig(receiver, config) ==
    [processor |-> IF config.processor = Undefined THEN receiver.processor
                   ELSE IF config.processor = Off THEN Undefined ELSE config.processor,
     settings  |-> config.settings @@ receiver.settings,
     rules     |-> ExtendRules(receiver.rules, config.rules)]

RECURSIVE ReduceConfig(_, _, _)
ReduceConfig(config, file, receiver) ==
    IF MatchesGlobs(file, config.exclude) THEN Undefined
    ELSE LET based == FoldLeft(LAMBDA r, base : IF r = Undefined THEN r ELSE ReduceConfig(base, file, r),
                               receiver, config.extends)
         IN  IF based = Undefined THEN Undefined
             ELSE FoldLeft(ExtendConfig, based, <<config>> \o MatchingOverrides(config, file))

Reduce(config, file) == ReduceConfig(config, file, [rules |-> <<>>, settings |-> <<>>, processor |-> Undefined])

RECURSIVE FindProcessorInConfig(_, _)
FindProcessorInConfig(config, file) ==
    LET defined(s) == SelectSeq(s, LAMBDA p : p # Undefined)
        overrides  == MatchingOverrides(config, file)
        own        == defined([i \in DOMAIN overrides |-> overrides[i].processor])
        inherited  == defined([i \in DOMAIN config.extends |-> FindProcessorInConfig(config.extends[i], file)])
    IN  IF own # <<>> THEN Last(own)
        ELSE IF config.processor # Undefined THEN config.processor
        ELSE IF inherited # <<>> THEN Last(inherited) ELSE Undefined

GetProcessor(config, file) ==
    LET processor == FindProcessorInConfig(config, file) IN IF processor = Off THEN Undefined ELSE processor

RECURSIVE ReduceSettings(_, _, _)
ReduceSettings(config, file, receiver) ==
    FoldLeft(LAMBDA r, layer : layer.settings @@ r,
             FoldLeft(LAMBDA r, base : ReduceSettings(base, file, r), receiver, config.extends),
             <<config>> \o MatchingOverrides(config, file))

-----------------------------------------------------------------------------
(* Lookup and loading.                                                     *)

\* The first of CONFIG_FILENAMES that is a file
OwnConfig(dir) == SelectSeq(disk.rc[dir], LAMBDA f : f # Undefined)

\* The directories findConfigForDirectory visits: up to the first that is in the cache,
\* has a configuration, or is the root
RECURSIVE VisitedDirs(_)
VisitedDirs(dir) ==
    IF dir \in DOMAIN dirCache \/ OwnConfig(dir) # <<>> \/ ParentDir[dir] = dir THEN <<dir>>
    ELSE <<dir>> \o VisitedDirs(ParentDir[dir])

FindConfigForDirectory(dir) ==
    LET last == Last(VisitedDirs(dir))
    IN  IF last \in DOMAIN dirCache THEN dirCache[last]
        ELSE IF OwnConfig(last) # <<>> THEN Head(OwnConfig(last)) ELSE Undefined

\* Names that can be resolved are the files they resolve to.
Resolve(name) == IF name \in DOMAIN disk.raw THEN name ELSE Error

\* Load a file through the cache, as the base of the last of fs if there is one.
LoadResolved(file, fs, call) ==
    IF file = Error THEN /\ frames' = <<>>
                         /\ answer' = [call |-> call, result |-> Error]
    ELSE IF file \notin DOMAIN configCache
    THEN /\ frames' = Append(fs, [file |-> file, bases |-> <<>>])
         /\ answer' = [call |-> call, result |-> Pending]
    ELSE IF fs = <<>>
    THEN /\ frames' = fs
         /\ answer' = [call |-> call, result |-> configCache[file]]
    ELSE /\ frames' = [fs EXCEPT ![Len(fs)].bases = Append(@, configCache[file])]
         /\ UNCHANGED answer

Find(dir) ==
    /\ frames = <<>>
    /\ LET path == FindConfigForDirectory(dir)
       IN  /\ dirCache' = [d \in ToSet(VisitedDirs(dir)) |-> path] @@ dirCache
           /\ IF path = Undefined
              THEN /\ answer' = [call |-> <<"find", dir>>, result |-> Undefined]
                   /\ UNCHANGED frames
              ELSE LoadResolved(path, <<>>, <<"find", dir>>)
    /\ UNCHANGED <<disk, configCache, ruleCache>>

LoadLocalOrResolved(name) ==
    /\ frames = <<>>
    /\ LoadResolved(IF name \in DOMAIN disk.local THEN disk.local[name] ELSE Resolve(name), <<>>, <<"load", name>>)
    /\ UNCHANGED <<disk, configCache, dirCache, ruleCache>>

Top == Last(frames)
Extended == disk.raw[Top.file].extends

\* ConfigurationProvider.load throws or the configuration is already being loaded. All
\* callers up to load give up.
Circular == \E i \in 1..Len(frames) - 1 : frames[i].file = Top.file
Unreadable == disk.raw[Top.file] = Broken
Complete == ~Unreadable /\ Len(Top.bases) = Len(Extended)

\* Mutant: a caller continues.
ThrowToCaller ==
    /\ frames # <<>>
    /\ Circular \/ Unreadable \/ (Complete /\ Parse(disk.raw[Top.file], Top.file, Top.bases) = Error)
    /\ frames' = Front(frames)
    /\ answer' = [answer EXCEPT !.result = Error]
    /\ UNCHANGED <<disk, configCache, dirCache, ruleCache>>

Throw ==
    /\ frames # <<>>
    /\ Circular \/ Unreadable \/ (Complete /\ Parse(disk.raw[Top.file], Top.file, Top.bases) = Error)
    /\ frames' = <<>>
    /\ answer' = [answer EXCEPT !.result = Error]
    /\ UNCHANGED <<disk, configCache, dirCache, ruleCache>>

LoadBase ==
    /\ frames # <<>>
    /\ ~Circular /\ ~Unreadable /\ ~Complete
    /\ LoadResolved(Resolve(Extended[Len(Top.bases) + 1]), frames, answer.call)
    /\ UNCHANGED <<disk, configCache, dirCache, ruleCache>>

Return ==
    /\ frames # <<>>
    /\ ~Circular /\ Complete
    /\ LET config == Parse(disk.raw[Top.file], Top.file, Top.bases)
           below  == Front(frames)
       IN  /\ config # Error
           /\ configCache' = (Top.file :> config) @@ configCache
           /\ IF below = <<>>
              THEN /\ frames' = below
                   /\ answer' = [answer EXCEPT !.result = config]
              ELSE /\ frames' = [below EXCEPT ![Len(below)].bases = Append(@, config)]
                   /\ UNCHANGED answer
    /\ UNCHANGED <<disk, dirCache, ruleCache>>

-----------------------------------------------------------------------------
(* Loading rules.                                                          *)

\* What NodeRuleLoader finds, with the directory Undefined for core rules
Ctor(dir, name) ==
    IF name \in (IF dir = Undefined THEN CoreRules ELSE disk.rules[dir]) THEN <<dir, name>> ELSE Undefined

\* Mutant: cached by name
CachedByName(dir, name) ==
    LET same == {k \in DOMAIN ruleCache : k[2] = name} IN IF same = {} THEN Ctor(dir, name) ELSE ruleCache[CHOOSE k \in same : TRUE]

Cached(dir, name) == IF <<dir, name>> \in DOMAIN ruleCache THEN ruleCache[<<dir, name>>] ELSE Ctor(dir, name)

\* The directories loadRule tries, in order
Searched(rule) ==
    IF rule.rulesDirectories = Undefined THEN <<Undefined>>
    ELSE LET d    == rule.rulesDirectories
             hits == {i \in DOMAIN d : Cached(d[i], rule.rule) # Undefined}
         IN  IF hits = {} THEN d ELSE SubSeq(d, 1, Min(hits))

LoadRule(rule) == Cached(Last(Searched(rule)), rule.rule)

\* Linter.prepareRules for a file, with or without a program
PrepareRules(file, typed) ==
    /\ frames = <<>>
    /\ answer.call[1] \in {"find", "load"}
    /\ answer.result \notin {Undefined, Error}
    /\ LET config == Reduce(answer.result, file)
           active == {r \in DOMAIN config.rules : config.rules[r].severity # "off"}
       IN  /\ config # Undefined
           /\ ruleCache' = [k \in UNION {ToSet(Searched(config.rules[r])) \X {config.rules[r].rule} : r \in active}
                            |-> Cached(k[1], k[2])] @@ ruleCache
           /\ answer' = [call   |-> <<"prepare", answer.result.filename, file, typed>>,
                         result |-> {[name |-> r, ctor |-> LoadRule(config.rules[r]),
                                      severity |-> config.rules[r].severity, options |-> config.rules[r].options] :
                                     r \in {r \in active : LET ctor == LoadRule(config.rules[r])
                                                           IN  ctor # Undefined /\ (typed \/ ctor[2] \notin TypedRules)}}]
    /\ UNCHANGED <<disk, configCache, dirCache, frames>>

ConfigInit ==
    /\ disk \in ConfigInstances
    /\ configCache = <<>>
    /\ dirCache = <<>>
    /\ ruleCache = <<>>
    /\ frames = <<>>
    /\ answer = [call |-> <<"none">>, result |-> Undefined]

LoadStep == Throw \/ LoadBase \/ Return

ConfigNext ==
    \/ \E dir \in Dirs : Find(dir)
    \/ \E name \in DOMAIN disk.raw \union DOMAIN disk.local : LoadLocalOrResolved(name)
    \/ LoadStep
    \/ \E file \in Targets, typed \in BOOLEAN : PrepareRules(file, typed)

ConfigSpec == ConfigInit /\ [][ConfigNext]_configVars

-----------------------------------------------------------------------------
(* What it means, without caches and without folding.                      *)

RECURSIVE MeaningIn(_, _)
MeaningIn(file, above) ==
    IF file = Error \/ file \in above THEN Error
    ELSE IF disk.raw[file] = Broken THEN Error
    ELSE LET names == disk.raw[file].extends
             bases == [i \in DOMAIN names |-> MeaningIn(Resolve(names[i]), above \union {file})]
         IN  IF Error \in ToSet(bases) THEN Error ELSE Parse(disk.raw[file], file, bases)

RECURSIVE NearestConfig(_)
NearestConfig(dir) ==
    IF OwnConfig(dir) # <<>> THEN Head(OwnConfig(dir))
    ELSE IF ParentDir[dir] = dir THEN Undefined ELSE NearestConfig(ParentDir[dir])

\* The configuration a call asks for
PathOf(call) ==
    IF call[1] = "find" THEN NearestConfig(call[2])
    ELSE IF call[2] \in DOMAIN disk.local THEN disk.local[call[2]] ELSE Resolve(call[2])

MeaningOf(path) == IF path = Undefined THEN Undefined ELSE MeaningIn(path, {})

\* Rules are prepared if and only if they are enabled and found, and are the first ones that are found.
RulesFound(prepared, rules, typed) ==
    LET found(r) == SelectSeq(IF rules[r].rulesDirectories = Undefined THEN <<Undefined>> ELSE rules[r].rulesDirectories,
                              LAMBDA d : Ctor(d, rules[r].rule) # Undefined)
    IN  /\ {p.name : p \in prepared} =
               {r \in DOMAIN rules : /\ rules[r].severity # "off"
                                     /\ found(r) # <<>>
                                     /\ typed \/ rules[r].rule \notin TypedRules}
        /\ \A p \in prepared : p.ctor = Ctor(Head(found(p.name)), rules[p.name].rule)

\* Everything that applies to a file, in the order of precedence
RECURSIVE Layers(_, _)
Layers(config, file) ==
    FlattenSeq([i \in DOMAIN config.extends |-> Layers(config.extends[i], file)])
    \o <<config>> \o MatchingOverrides(config, file)

RECURSIVE Family(_)
Family(config) == {config} \union UNION {Family(base) : base \in ToSet(config.extends)}

\* The value the last of the layers that have one gives, or the default
LastValue(layers, Has(_), Get(_), default) ==
    LET having == {i \in DOMAIN layers : Has(layers[i])}
    IN  IF having = {} THEN default ELSE Get(layers[Max(having)])

RuleField(layers, rule, field, default) ==
    LastValue(layers, LAMBDA l : rule \in DOMAIN l.rules /\ field \in DOMAIN l.rules[rule],
                      LAMBDA l : l.rules[rule][field], default)

\* Where rules with a prefix are searched: in the directory of the configuration, then
\* in those of its bases, the last base first.
RECURSIVE DirectoriesOf(_, _)
DirectoriesOf(config, prefix) ==
    LET own == disk.raw[config.filename].rulesDirectories
    IN  (IF prefix \in DOMAIN own THEN <<own[prefix]>> ELSE <<>>)
        \o FlattenSeq(Reverse([i \in DOMAIN config.extends |-> DirectoriesOf(config.extends[i], prefix)]))

\* The rule an alias of a configuration stands for after n steps
AliasAfter(own, alias, n) ==
    LET at[k \in 0..n] == IF k = 0 THEN alias
                          ELSE IF at[k - 1] \in DOMAIN own THEN own[at[k - 1]].rule ELSE at[k - 1]
    IN  at[n]

Loaded == IF frames = <<>> /\ answer.call[1] \in {"find", "load"} THEN {answer.result} \ {Undefined, Error} ELSE {}

-----------------------------------------------------------------------------
(* Properties.                                                             *)

\* What a call returns, configuration or error, is what a process that was just started
\* would return: it does not depend on earlier calls, whether they succeeded, threw in the
\* middle of a chain of bases, or loaded a part of the chain. A base that is extended twice
\* is no cycle, a configuration that extends itself over any number of others is. A rule
\* is searched in the directories in their order, also if some of them have been searched before.
AnswersAreFresh ==
    frames = <<>> =>
        CASE answer.call[1] \in {"load", "find"} -> answer.result = MeaningOf(PathOf(answer.call))
          [] answer.call[1] = "prepare" ->
                RulesFound(answer.result, Reduce(MeaningOf(answer.call[2]), answer.call[3]).rules, answer.call[4])
          [] OTHER -> TRUE

\* Rules, options, settings and processor of a file come from the last entry that sets them,
\* bases first, overrides last; a file is excluded if any of the configurations excludes it. The three
\* functions that look for the processor, for the settings and for all at once agree.
LaterEntriesWin ==
    \A config \in Loaded, file \in Targets :
        LET reduced == Reduce(config, file)
            layers  == Layers(config, file)
            keys    == UNION {DOMAIN layers[i].settings : i \in DOMAIN layers}
            names   == UNION {DOMAIN layers[i].rules : i \in DOMAIN layers}
            processor == LastValue(layers, LAMBDA l : l.processor # Undefined, LAMBDA l : l.processor, Undefined)
        IN  /\ (reduced = Undefined) = \E c \in Family(config) : MatchesGlobs(file, c.exclude)
            /\ reduced # Undefined =>
                /\ reduced.processor = (IF processor = Off THEN Undefined ELSE processor)
                /\ reduced.processor = GetProcessor(config, file)
                /\ reduced.settings = [k \in keys |-> LastValue(layers, LAMBDA l : k \in DOMAIN l.settings,
                                                                LAMBDA l : l.settings[k], Undefined)]
                /\ reduced.settings = ReduceSettings(config, file, <<>>)
                /\ DOMAIN reduced.rules = names
                /\ \A r \in names :
                    /\ reduced.rules[r].severity = RuleField(layers, r, "severity", "error")
                    /\ \A field \in {"rule", "rulesDirectories", "options"} :
                          reduced.rules[r][field] = RuleField(layers, r, field, Undefined)

\* An alias ends at the first name that is not an alias of the same configuration: an alias of a base,
\* which keeps its rule and directories, or a rule. The options closest to its start win. Circular
\* aliases are never accepted. Directories of a prefix are searched in the child first (docs/local-rules.md).
AliasesResolve ==
    \A config \in Loaded :
        LET raw == disk.raw[config.filename].aliases
            own == [n \in {n \in DOMAIN raw : raw[n] # Off} |-> raw[n]]
            size == Cardinality(DOMAIN own)
            inherited(n) == LastValue(config.extends, LAMBDA b : n \in DOMAIN b.aliases,
                                      LAMBDA b : b.aliases[n], Undefined)
        IN  /\ \A p \in DOMAIN config.rulesDirectories : config.rulesDirectories[p] = DirectoriesOf(config, p)
            /\ \A n \in DOMAIN config.aliases :
                LET end  == AliasAfter(own, n, size)
                    base == IF end \in DOMAIN raw THEN Undefined ELSE inherited(end)
                    with == {k \in 0..size : LET at == AliasAfter(own, n, k)
                                             IN  at \in DOMAIN own /\ "options" \in DOMAIN own[at]}
                    a    == config.aliases[n]
                IN  /\ end \notin DOMAIN own
                    /\ IF base # Undefined
                       THEN a.rule = base.rule /\ a.rulesDirectories = base.rulesDirectories
                       ELSE /\ a.rule = end[2]
                            /\ a.rulesDirectories = IF end[1] = Undefined THEN Undefined
                                                    ELSE DirectoriesOf(config, end[1])
                    /\ with # {} => a.options = own[AliasAfter(own, n, Min(with))].options

\* What a configuration that was loaded means for a file
ConfigurationMeans == LaterEntriesWin /\ AliasesResolve

\* Loading comes to an end, whatever extends what: it can always go on, and each step returns to the caller,
\* adds a configuration to the cache, or leaves less to load of the chain, which has no file twice before its end.
Progress == FoldLeft(LAMBDA sum, frame : sum + 1 + Len(frame.bases), 0, frames)
LoadEnds ==
    /\ [](frames # <<>> => ENABLED LoadStep /\ Len(frames) <= Cardinality(DOMAIN disk.raw) + 1)
    /\ [][frames # <<>> => \/ frames' = <<>>
                           \/ DOMAIN configCache \subseteq DOMAIN configCache' /\ configCache # configCache'
                           \/ configCache = configCache' /\ Progress < Progress']_configVars

\* createConfigHash: what decides whether results in the cache belong to the configuration
ConfigHash(config) ==
    [rules |-> [r \in DOMAIN config.rules |->
                  [rule |-> config.rules[r].rule, severity |-> config.rules[r].severity, options |-> config.rules[r].options]],
     settings |-> config.settings]

\* Different rules mean a different hash: a file is "outdated and therefore linted if [the]
\* linter configuration for the file changed" (packages/wotan/README.md:246-251).
HashTellsRules ==
    \A f, g \in DOMAIN configCache, file \in Targets :
        LET left  == Reduce(configCache[f], file)
            right == Reduce(configCache[g], file)
            ctors(config) == [r \in DOMAIN config.rules |-> LoadRule(config.rules[r])]
        IN  (left # Undefined /\ right # Undefined /\ ConfigHash(left) = ConfigHash(right)) => ctors(left) = ctors(right)
=============================================================================
