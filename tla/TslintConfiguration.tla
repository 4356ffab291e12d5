------------------------- MODULE TslintConfiguration -------------------------
(***************************************************************************)
(* TslintConfigurationProvider of packages/valtyr: finds, loads and        *)
(* translates tslint.json, on top of a global configuration in the format  *)
(* of DefaultConfigurationProvider.                                        *)
(***************************************************************************)
EXTENDS Configuration

CONSTANTS
    TslintInstances,    \* see tslint
    JavaScript,         \* targets that match *.js?(x)
    Idle

VARIABLES
    tslint,        \* parents of directories, a root is its own; dirs of all tslint.json; home: the home directory;
                   \* raw: the parsed content of each, Broken if it cannot be loaded; global: GlobalOptions.valtyr, raw
    foundConfigs,  \* cache
    walk,          \* the loop of find: where it is, what it marks and where it stops
    baseConfig,
    loaded         \* the last call of load and what it returned

tslintVars == <<tslint, foundConfigs, walk, baseConfig, loaded>>

-----------------------------------------------------------------------------
(* find: a configuration is named by its directory.                        *)

RECURSIVE Ancestors(_)
Ancestors(dir) == IF tslint.parents[dir] = dir THEN <<dir>> ELSE <<dir>> \o Ancestors(tslint.parents[dir])

DriveOf(dir) == Last(Ancestors(dir))

\* TSLint.Configuration.findConfigurationPath: the nearest one, or that in the home directory
FindConfigurationPath(dir) ==
    LET near == SelectSeq(Ancestors(dir), LAMBDA d : d \in tslint.dirs)
    IN  IF near # <<>> THEN Head(near) ELSE IF tslint.home \in tslint.dirs THEN tslint.home ELSE Undefined

FindTslint(dir) ==
    /\ walk = Idle
    /\ dir \notin DOMAIN foundConfigs
    /\ LET result == FindConfigurationPath(dir)
       IN  /\ foundConfigs' = dir :> result @@ foundConfigs
           /\ walk' = [at     |-> dir, result |-> result,
                       stop   |-> IF result = Undefined THEN DriveOf(dir)
                                  ELSE IF DriveOf(result) # DriveOf(dir) THEN DriveOf(dir) ELSE result]
    /\ UNCHANGED <<tslint, baseConfig, loaded>>

MarkParent ==
    /\ walk # Idle
    /\ IF walk.at = walk.stop
       THEN walk' = Idle /\ UNCHANGED foundConfigs
       ELSE /\ foundConfigs' = walk.at :> walk.result @@ foundConfigs
            /\ walk' = [walk EXCEPT !.at = tslint.parents[@]]
    /\ UNCHANGED <<tslint, baseConfig, loaded>>

-----------------------------------------------------------------------------
(* load                                                                    *)

MapTslintRules(rules, directories) ==
    [r \in DOMAIN rules |->
        [rule |-> r, rulesDirectories |-> IF directories = <<>> THEN Undefined ELSE directories,
         severity |-> rules[r].severity, options |-> rules[r].options]]

\* Mutant: rules for TypeScript apply to JavaScript, too.
OverrideForAll(files, negated, rules, directories) ==
    IF rules = <<>> THEN <<>>
    ELSE <<[files |-> <<[files |-> files, negated |-> FALSE]>>,
            rules |-> MapTslintRules(rules, directories), processor |-> Undefined, settings |-> <<>>]>>

OverrideFor(files, negated, rules, directories) ==
    IF rules = <<>> THEN <<>>
    ELSE <<[files |-> <<[files |-> files, negated |-> FALSE], [files |-> negated, negated |-> TRUE]>>,
            rules |-> MapTslintRules(rules, directories), processor |-> Undefined, settings |-> <<>>]>>

TslintParse(raw, base) ==
    [filename |-> "tslint.json", extends |-> base, rulesDirectories |-> <<>>, aliases |-> <<>>, rules |-> <<>>,
     overrides |-> OverrideFor(Targets, JavaScript, raw.rules, raw.rulesDirectory)
                   \o OverrideFor(JavaScript, {}, raw.jsRules, raw.rulesDirectory),
     processor |-> Undefined, exclude |-> raw.exclude, settings |-> <<>>]

\* validateGlobalConfig
IsGlobalConfig(config) ==
    /\ <<>> = config.exclude /\ <<>> = config.rules /\ <<>> = config.rulesDirectories /\ <<>> = config.aliases
    /\ \A i \in DOMAIN config.overrides : <<>> = config.overrides[i].rules

\* The global configuration must not extend another: load throws.
GetBaseConfiguration ==
    IF baseConfig # Undefined THEN baseConfig
    ELSE IF tslint.global = Undefined THEN <<>>
    ELSE LET config == Parse(tslint.global, "global", <<>>)
         IN  IF tslint.global.extends # <<>> \/ config = Error THEN Error
             ELSE IF IsGlobalConfig(config) THEN <<config>> ELSE Error

\* Loading tslint.json comes first.
LoadTslint(dir) ==
    /\ walk = Idle
    /\ LET raw == tslint.raw[dir]
       IN  /\ baseConfig' = IF raw = Broken \/ GetBaseConfiguration = Error THEN baseConfig ELSE GetBaseConfiguration
           /\ loaded' = [dir    |-> dir,
                         result |-> IF raw = Broken \/ GetBaseConfiguration = Error THEN Error
                                    ELSE TslintParse(raw, GetBaseConfiguration)]
    /\ UNCHANGED <<tslint, foundConfigs, walk>>

TslintInit ==
    /\ tslint \in TslintInstances
    /\ foundConfigs = <<>> /\ walk = Idle
    /\ baseConfig = Undefined /\ loaded = Idle

TslintNext ==
    \/ \E dir \in DOMAIN tslint.parents : FindTslint(dir)
    \/ MarkParent
    \/ \E dir \in DOMAIN tslint.raw : LoadTslint(dir)

TslintSpec == TslintInit /\ [][TslintNext]_tslintVars /\ WF_tslintVars(MarkParent)

-----------------------------------------------------------------------------
(* Properties.                                                             *)

\* The directories between a file and its configuration get the same configuration as the file, and all
\* other directories are looked up on their own, whatever has been found before.
FindIsFresh == \A dir \in DOMAIN foundConfigs : foundConfigs[dir] = FindConfigurationPath(dir)

\* TypeScript and JavaScript files get the rules for them, with their severity and options; processor and settings
\* come from the global configuration and its last override that matches. An invalid global
\* configuration is an error in every call, not only in the first.
RulesApply ==
    loaded # Idle =>
        LET raw    == tslint.raw[loaded.dir]
            global == tslint.global
            forbidden == global # Undefined /\ ( \/ global.extends # <<>> \/ global.rules # <<>> \/ global.exclude # <<>>
                                                \/ \E i \in DOMAIN global.overrides : global.overrides[i].rules # <<>>)
        IN  IF raw = Broken \/ forbidden THEN loaded.result = Error
            ELSE \A file \in Targets :
                    LET reduced == Reduce(loaded.result, file)
                        rules   == IF file \in JavaScript THEN raw.jsRules ELSE raw.rules
                        layers  == IF global = Undefined THEN <<>> ELSE <<global>> \o MatchingOverrides(global, file)
                    IN  IF MatchesGlobs(file, raw.exclude) THEN reduced = Undefined
                        ELSE /\ DOMAIN reduced.rules = DOMAIN rules
                             /\ \A r \in DOMAIN rules : /\ reduced.rules[r].severity = rules[r].severity
                                                        /\ reduced.rules[r].options = rules[r].options
                             /\ reduced.processor = LastValue(layers, LAMBDA l : l.processor # Undefined, LAMBDA l : l.processor, Undefined)
                             /\ \A k \in DOMAIN reduced.settings :
                                   reduced.settings[k] = LastValue(layers, LAMBDA l : k \in DOMAIN l.settings,
                                                                   LAMBDA l : l.settings[k], Undefined)

TslintApplies == FindIsFresh /\ RulesApply

\* "prevent infinite loop when result is on different drive" (packages/valtyr/src/configuration-provider.ts:49)
FindEnds == walk # Idle ~> walk = Idle
=============================================================================
