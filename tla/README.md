# TLA+ models of wotan

This directory holds a formal model of the linter runtime of this repository: TLA+ modules translated
from the TypeScript sources, configurations that model-check them with TLC, and proofs checked with
TLAPS. Paths below are relative to `src/packages/wotan/src/` unless they start with `packages/` or `docs/`,
which are relative to the root of the repository.

## 1. The system

Wotan lints the files of a TypeScript project. A run finds files and configurations, creates a TypeScript
program, executes rules on each file, filters the findings by comments in the file, optionally applies
fixes and lints again until nothing is left to fix, and keeps the results in a cache file for the next run.
It is single-threaded and synchronous inside of a project: there are no interleaved threads. What makes it
hard is state that outlives the moment it was computed for: caches over runs of the tool and over fixes
within a run, hand-written traversals of cyclic graphs, loops that go back, and writes that fail.

### Components

| Component | State | Operations | Interacts with | What makes it correct |
|---|---|---|---|---|
| **ProgramState** (`services/program-state.ts`) | old state loaded from the cache, `recheckOldState`, status per file of the old state, results of this run, ids per file | `getUpToDateResult`, `setFileResult`, `update`, `save`, `tryReuseOldState`, `isFileUpToDate`, `fileDependenciesUpToDate`, `aggregate` | called by Runner for each file; reads DependencyResolver, ContentId, StatePersistence | no stale result is reused or saved; no valid one is lost; the walk ends and never decides wrongly |
| **StatePersistence** (`services/default/state-persistence.ts`) | the cache file | `loadState`, `saveState` (errors are swallowed) | ProgramState | whatever is left of a write is loaded as a complete state or not at all |
| **DependencyResolver** (`services/dependency-resolver.ts`) | dependencies and global files computed lazily, compiler host and program | `update`, `getDependencies`, `getFilesAffectingGlobalScope`, `getResolvedFileNames` | ProgramState, TypeScript | answers belong to the latest program |
| **applyFixes** (`fix.ts`) | output, position, sorted replacements, `skip` and `state` per fix | one call: combine, sort, apply, roll back, retry | Linter, language service | text intact, no conflicts, all or nothing, progress, correct range |
| **Line switches** (`services/default/line-switches.ts`) | disabled ranges per rule, state per switch | parse comments, `filter` findings, `reportUseless` | Linter; its findings have fixes | only disabled findings dropped, all of them; useless is really useless |
| **Linter** (`linter.ts`) | none between calls; findings, fixed text and iteration in a call | `lintFile`, `lintAndFix`, `getFindings` | rules, applyFixes, line switches, a callback to Runner | fixing stops, rolls back on syntax errors, the last findings belong to the last text |
| **Runner** (`runner.ts`) | none between projects | `lintCollection`, `lintProject`, `lintFiles`, finding files, creating programs | everything above | results are cached under the content they were computed from; all selected files are linted |
| **ProjectHost** (`project-host.ts`) | caches of directories, source files, processed files, compiler options | `getSourceFile`, `updateSourceFile`, `updateProgram`, `getProcessedFileInfo`, `uncacheFile` | TypeScript, Runner, FileSystem, processors | TypeScript sees the fixed text; positions are mapped with the right version |
| **CachedFileSystem** (`services/cached-file-system.ts`) | kinds, listings and real paths that were looked up | `isFile`, `isDirectory`, `getKind`, `readDirectory`, `realpath`, `writeFile`, `remove`, `createDirectory` | everything that touches files | the cache agrees with the file system as far as this process changes it |
| **ConfigurationManager, DefaultConfigurationProvider** (`services/configuration-manager.ts`, `services/default/configuration-provider.ts`) | caches of configurations by file name, directory and resolved name | `find`, `load` (with `extends`), `reduce` (overrides, excludes, rules, settings, processor) | Runner, language service | later entries win, excludes exclude, cycles are detected, caches do not change the answer |
| **Language service interceptor** (`packages/wotan/language-service/index.ts`, `packages/mithotyn`) | findings per file, version of the project they belong to, a lint cache in memory | diagnostics, suggestions, code fixes, `fix all`, cleaning caches | TypeScript's server, Linter, Configuration, ProgramState | findings belong to the current text, program and configuration; answers fit each other |
| **Test command and baselines** (`commands/test.ts`, `baseline.ts`) | baselines on disk, those seen, a cache of directory listings | `test`, with updating, bailing out, exact | Runner, FileSystem | wrong, missing and left-over baselines are found; marks are where findings are |
| **Command line** (`argparse.ts`, `optparse.ts`, `cli.ts`, `commands/save.ts`) | `.fimbullinter.yaml` | parse arguments and options, `save` | Runner | arguments override defaults; saved options mean what they meant |
| **Loaders and default services** (`services/*-loader.ts`, `services/default`) | a map each | load a module once | resolver | rules of different directories are not confused |
| **valtyr** (`packages/valtyr`) | found configurations, the parsed global configuration | `find`, `load`, `parse` of `tslint.json` | ConfigurationManager | a TSLint configuration means the same |
| **ve** (`packages/ve`) | the source of a component, the range of its script | `preprocess`, `updateSource`, `postprocess` | Linter | positions map back, fixes stay in the script |
| **mimir** (`packages/mimir`) | none | rules and their fixes | Linter | fixes keep the meaning and agree with each other |
| **ymir, heimdall, bifrost, disir** (other packages) | none | interfaces, adapters for TSLint, own rules | Linter | functions of a file and its program |

### Interaction

`Runner.lintProject` creates a ProgramState for the program. For each file it asks `getUpToDateResult`;
without a hit `Linter.lintAndFix` lints, filters with the line switches, calls `applyFixes` and hands the
new text to ProjectHost, which updates the program; `ProgramState.update` is told about it. The findings
are stored by `setFileResult`. After the last file `save` writes the cache. Between runs the user edits
files, configuration and compiler options. A run may be aborted anywhere: the generator of `lintProject` is
consumed lazily, rules and processors throw.

### What is hard to test

`PROJECT.json` lists each hazard at its line. In short: results reused after a transitive change (imports,
cycles, global files); statuses kept over a fix; merging new results into an old snapshot in the middle of a run;
partial writes and aborted runs; a non-recursive walk whose stacks have to stay aligned in any cyclic graph;
rollbacks of fixes that displace each other; ranges of comments that close, split and hide each other; caches of
configurations, rules, directories and findings whose keys may say too little; projects and configurations that refer to each other
in circles; fixes of rules that create findings of other rules.

## 2. Modules

| Module | Models | Kind |
|---|---|---|
| `ProgramGraph` | what the cache sees of a program: content ids, dependencies, global files; the answer of the walk over dependencies | constants and operators |
| `ProgramState` | `ProgramStateImpl`, runs of the linter, the cache file, fixes and edits between runs | state machine |
| `ProgramGraphProofs` | lemmas about graphs, environments and the answer of the walk, for both modules that use them | TLAPS proofs |
| `ProgramStateProofs` | theorems about `ProgramState` | TLAPS proofs |
| `DependencyWalk` | what callers of `fileDependenciesUpToDate` rely on | abstract specification |
| `DependencyCheck` | the loop of `fileDependenciesUpToDate`, `markAsOutdated`, `setCircularDependency`, `findCircularDependencyOfCycle`; implements `DependencyWalk` | state machine |
| `CompletePrograms` | `ProgramState` under the assumption that a program has all files its files resolve to; EXTENDS `ProgramState` | assumption |
| `DependencyCheckProofs` | theorems about `DependencyCheck` and `DependencyResolver` | TLAPS proofs |
| `ApplyFixes` | `applyFixes`, `combineReplacements`, `compareReplacements` | state machine |
| `ApplyFixesProofs` | theorem about `ApplyFixes` | TLAPS proofs |
| `LineSwitches` | `DefaultLineSwitchParser`, `LineSwitchFilterFactory`, `Filter` | state machine |
| `LineSwitchesProofs` | theorems about `LineSwitches` | TLAPS proofs |
| `LintProject` | `Runner.lintProject`, the loop of `getFilesAndProgram`, `Linter.lintAndFix`, the caches of `ProjectHost`, the consumer in `commands/lint.ts` | state machine |
| `LintProjectProofs` | theorems about `LintProject` and `CachedFileSystem` | TLAPS proofs |
| `FileSystem` | a file system only this process changes; what callers of `CachedFileSystem` rely on | abstract specification |
| `CachedFileSystem` | `CachedFileSystem` with its three caches; implements `FileSystem` | state machine |
| `FreshResolver` | what callers of `DependencyResolver` rely on: answers computed from the current program | abstract specification |
| `DependencyResolver` | `DependencyResolverImpl` with its three caches; implements `FreshResolver` | state machine |
| `Projects` | `lintCollection`, `lintFiles`, `getFilesAndProgram`, `createPrograms`, `getFiles`, names in `ProjectHost`, the file filter | state machine |
| `Configuration` | `ConfigurationManager`, `DefaultConfigurationProvider`, `CachedRuleLoader`, `prepareRules`, `createConfigHash` | state machine and operators |
| `TslintConfiguration` | `TslintConfigurationProvider` of valtyr; EXTENDS `Configuration` | state machine and operators |
| `CommandLine` | `parseArguments`, `parseGlobalOptions`, `OptionParser`, the save command | state machine and operators |
| `TestCommand` | the test command, `createBaseline` | state machine and operators |
| `LanguageService` | `LanguageServiceInterceptor` | state machine |
| `LanguageServiceProofs` | theorems about `LanguageService` | TLAPS proofs |
| `VueProcessor` | the processor of ve, `calculateChangeRange`, `invertChangeRange` | state machine and operators |
| `VueProcessorProofs` | theorems about `VueProcessor` | TLAPS proofs |
| `ParameterProperties`, `JumpLabels`, `ReturnAwait`, `ObjectSpread` | rules of mimir and what their fixes make of the code | state machines over programs |
| `MC*` | instances for TLC | |

`ProgramState` EXTENDS `ProgramGraph` and uses its `WalkSucceeds` and `AfterWalks` as one step (`CallsAddUp` is about this).
`DependencyCheck` EXTENDS `ProgramGraph` too, and has every iteration of the loop as a step.
`DependencyWalk`, the interface between the two, is stated with the same operators, and
`DependencyCheck` is checked and proved to implement it (`RefinesWalk`). So the large state space of the walk is
explored over many graphs without a cache, and that of the cache over many histories without the walk.
`DependencyResolver` is where the dependencies in a `ProgramGraph` come from.

`LintProject` is the environment of `ProgramState`: it does not contain the cache, but justifies what
`ProgramState` takes for granted about its caller. That `SetFileResult` gets what linting the current program
gives is `ResultsFitProgram` there, that `Update` is told about each changed file is the second part of it.
Conversely it takes from `ProgramState` that a hit is what linting the file now would give (`NoStaleReuse`). `applyFixes` is
a choice among the texts of `FixesOf`; `ApplyFixes` has its details. `Projects` finds the files `LintProject` lints: the order of
projects, names and processors is there, what happens to the texts is in `LintProject`. `LanguageService` takes the same from `ProgramState`
(a result is reused if and only if nothing that was looked at differs) and the meaning of a configuration from `Configuration`.

`MCRunner`, `MCComponents` and `MCDependencies` put instances of several modules into one run. These have no state in common,
so a variable `machine` says which of them takes steps while the others stay in an initial state: the state spaces are added, not multiplied.
The instances of `MCComponents` are in `MCFindings` and `MCFrontEnds`, those of the language service in `MCLanguageService`.

### ProgramGraph and ProgramState

A program is a record: environment (TypeScript version, directory of the project, `compilerOptions`), files, a content
id per file, for every file a map from specifiers to a set of files (or `Null` if the specifier does not
resolve), and the files affecting the global scope. `Programs` is the set TypeScript may create.

An old state belongs to the environment if the version of TypeScript is the same and so is the hash of the options (`SameEnvironment`).
`OptionsHash` hashes an option by its kind: as it is, as a path or a list of paths relative to the project, or not at all. `Effect` is what a rule can find
out about the environment, stated without the hash. That the hash tells apart what rules can, and nothing else, is part of `NoStaleReuse` and of `MovedKeepsState`.

| Model | Code |
|---|---|
| `disk` | the `.fimbullintercache` file: absent, not loadable, or a `StaticProgramState` |
| `prog` | `this.program`; `None` while no run is active |
| `oldState` | `this[oldStateSymbol]`: the program it is a snapshot of and a result per file |
| `recheck`, `status`, `fileResults` | `recheckOldState`, `dependenciesUpToDate`, `fileResults` |
| `contentIds` | `this.contentIds`, the ids `getContentId` has computed; `None` for a file nobody asked about |
| `reply` | the last return value of `getUpToDateResult`, for the properties |
| `Create`, `GetUpToDateResult`, `SetFileResult`, `Update` | constructor and methods of the same name |
| `SaveMerged`, `SaveAggregated` | the two branches of `save`; `WriteState` lets the write succeed, fail, or leave a file that cannot be loaded |
| `Exit` | the end of a run at any point, regular or not |
| `TryReuseOldState`, `IsFileUpToDate`, `Aggregate` | the private methods of the same name, with their effects |
| `ContentId`, `Seen`, `Remember` | `getContentId`: the id of one file, the program with the ids the code uses for it, and the cache after some files were asked about |
| `MayAsk`, `WalksAsk`, `GlobalsAsk` | the files a walk over dependencies, or the comparison of the global files, may ask for ids on its way |

`Lint(P, f, c)` stands for linting: a function of the configuration and of everything a rule can look at
(`View`): the text of the file, of all files it reaches through imports, how their imports resolve,
and the global files. Comparing a cached result with `Lint` of the current program therefore says that
nothing a rule could have looked at differs. With `assumeChangesOnlyAffectDirectDependencies` TypeScript and
wotan both promise less, and `View` is smaller accordingly.

Content ids are cached: `update` forgets the id of the one file it is told about (line 118), all others stay until the end of the
run. So a file that leaves or enters the program because another one was fixed keeps an id the program no longer gives it, and every comparison in the
code goes through `Seen`, the program with the ids as they are kept. A walk stops as soon as it knows the answer, in an order that depends on the sorting of ids,
so the ids it computed on the way are any subset of those it may ask for. The id of a file that something resolves to without being loaded
is `NA`; the properties need that no program of the same environment loads it (`SourcesAssumption` in `CompletePrograms`). TypeScript loads what
an import resolves to, so this holds for imports; `stale_ids` shows what happens where it does not. Under the assumption a kept id is always that of the content (`IdsTrue`), because what
a program of the run resolves to and what it loads is decided by the environment; a missing `delete` in line 118 breaks it (`UpdateKeepsId`).

Abstractions: ids are
equal if and only if contents are (collisions of the 32 bit hash are left out); relative paths of
files and case-insensitive lookup are names; index numbers in the cache file are the names they stand
for; there are one or two options of each kind. `ProgramState` assumes that different files have different contents (`DistinctContentAssumption`);
what happens otherwise is the subject of `MCDependencyCopies`.

### DependencyCheck

One variable per local variable of the function: `queue` (file names and indices), `parents`, `childCounts`,
`circular`, `cycles`, and `status` for the field. `pc` is the position in the two nested loops. `Ask` is a call;
each `case` of the status, each way through the `default` case (`KnownCycle`, `Changed`, `Expand`) and each way
through the inner loop (`Close`, `NextChild`, `Finish`) is an action. The order in which
dependencies of a file are processed depends on the sort by content id and on the keys of a map: any order is possible
(`Expand`). A file in the queue is a pair of its current name and its index in the old state, because the code
pairs dependencies by id and not by name.

### ApplyFixes

The text has `N` characters; each replacement inserts one character of its own, so that the output tells
where every character comes from. Variables are those of the function; `skip` and `state` are the fields of
`FixWithState`. `AddFix` and `SortAll` are lines 25-40, `Skip`, `Conflict`, `RollBack` and `Apply` the
branches of the loop, `Finish` line 83, `Length` and `NewLength` the returned range. `RollBack` is one step for the whole
`else` branch: the loop that goes back (`Passed`, `Reset`, `Retried`) and the assignments after it.
`Combine` says what `combineReplacements` returns and not how: the sorted replacements are cut where one does not touch the next, and each piece becomes one replacement, which inserts the texts of all (`Pieces`).

### LineSwitches

A comment takes one position in a file of `Lines` lines of `Width` positions and lists predicates, each the set of
names it matches. `AllNames` are the names in comments, of which `RuleNames` are those of rules that are executed; findings may have no
width. `ParseNext` is one iteration of `parseLineSwitches`, with `Switch` the update of the ranges
of one rule, `Keep` and `Drop` are `filter` for one finding, the operators after `Filtered` are `reportUseless`.
`Fixed` is the list of comments after all reported ones are deleted by the fixes of their findings. `RangesFor` parses
it again.

### LintProject

A file has a text, which TypeScript sees, in a frame, which only its processor knows (for a `.vue` file, all but the
script). There are up to five copies: on disk (`disk`), in the cache of the host (`sources`), in the current program
(`program`), in the program `ProgramState` was last told about (`known`), and for processed files the content in the
processor and `originalContent` (`processed`).

| Model | Code |
|---|---|
| `OpenProject` | one iteration of the loop in `getFilesAndProgram`: new program, own and included files, uncaching |
| `GetProgram` | `factory.getProgram`, with the files `createProgram` releases |
| `SkipFile`, `StartFile`, `StartCached` | the beginning of the loop body of `lintProject`, without configuration, without and with a cached result |
| `Lint` | `getFindings`; whether a rule asks for the program is a choice |
| `NoFixes`, `Accept`, `Reject` | an iteration of `lintAndFix` with the callback of `lintProject`, by its outcome |
| `Finish` | `update` and `setFileResult`, and `writeFile` by the consumer before it takes the next result |
| `CloseProject` | end of a project |

Findings are a record of what they were computed from: the text of the file, the program if rules used it, and the content
their positions refer to. Fixes applied at the positions of another content (not `Fitting`) give any of the texts in `Damaged`.
Between files the host agrees with the disk, except for files with a processor that belong to several projects: as their `originalContent` is never updated, undoing
a fix gives them back the content of the first project (`CachesInSync`). `Orders` are the orders in which
`program.getSourceFiles()` may return files: TypeScript adds a file after the files it imports. This is why
the `!` in `runner.ts:118` is right: a fix only removes imports of a file that has been passed, and
whatever is left without an importer then has been passed too.

### FileSystem and CachedFileSystem

`tree` gives each path its kind, the one `stat` returns, and whether its entry is a symbolic link. `reply` is the last call with its
result. `FileSystem` has no caches: each answer is computed from `tree`. `CachedFileSystem` adds `kinds`, `dirents` and
`realpaths`, the three fields of the class, and uses the same steps of `tree`.

| Model | Code |
|---|---|
| `CGetKind` | `isFile`, `isDirectory`, `getKind`, which differ in the comparison only |
| `ListCached`, `List`, `ListFails` | `readDirectory` with and without an entry in the cache; the file system may return each entry as a name or as a `Dirent` |
| `CRealPath` | `realpath`; nothing is cached if it throws |
| `CWriteFile`, `CRemove`, `CWriteFails`, `CRemoveFails` | `writeFile` and `remove`, and the same if `fs` throws |
| `CreateKnown`, `DoCreateDirectory` | the two outcomes of line 103 |
| `UpdateCache` | `updateCache`, for all paths a call tells it about |

`DoCreateDirectory` is the recursion in closed form. `Made` are the directories that come into being if nothing can be created in the
directories `denied`. `doCreateDirectory` goes up to the nearest path that is a directory afterwards (`Nearest`) and tells
the cache about it and about each directory it creates on the way back; if the file system creates parents itself, about the nearest only.

`unseen` are the paths that came into being without the cache being told: parents created by `NodeFileSystem`'s recursive `mkdir`, and
files left by a write that threw. For these, `FileSystem` allows the answer that they do not exist. `Visible`, the refinement mapping, drops
entries of a listing that do not exist: removing a link to nowhere leaves its entry in a cached listing, with the kind `NonExistent`, which
all callers ignore.

Abstractions: paths are normalized (`normalizePath` is applied before each access to a cache); the target of a link is outside
of the modelled paths; nobody writes to devices and only files and links are removed; contents are left out.

### FreshResolver and DependencyResolver

A source file is the names it imports, the modules it declares or augments, whether it is a module, and the kinds of its other statements.
`sources` and `texts` are the program, `asked` is the last question with its answer. `DependencyResolver` adds `fileMetadata`,
`dependencies` and `state`, the fields of the class.

| Model | Code |
|---|---|
| `ResolverUpdate` | `update`: drops `state` and what was collected for the file; other files may enter or leave the program |
| `CachedFilesAffectingGlobalScope`, `CachedDependencies` | `getFilesAffectingGlobalScope`, `getDependencies`; `Collect` is what they add to the caches |
| `CollectFileMetadata`, `CollectExternalReferences`, `RedirectedTo` | the functions of the same name; references to outputs of projects lead to their sources |
| `BuildState`, `BestMatchingPattern`, `DependenciesOf` | `buildState`, `getBestMatchingPattern`, the body of `getDependencies` |

How a name resolves is a constant: fixes create no files. The order of files in an answer is left out.

### Projects

A path is a directory, a name and an extension; a processor adds an extension to the name (`WithSuffix`). `todo` is the stack of nested generators of
`createPrograms`, `directoryEntries` the directories `ProjectHost` has read, whose files are known by the names their processors give them.

| Model | Code |
|---|---|
| `LintProjects`, `LintFiles` | the beginning of `lintCollection`: projects that are named or found in a parent directory, or files by patterns |
| `ExhaustProjects`, `SkipProject`, `UseProject`, `PassProject`, `MatchUndefined` | an iteration of `createPrograms`: at the end, a project that was seen, one with and one without a program, and the `!` that fails |
| `LintInProject`, `LintFile` | an iteration of `lintProject` and `lintFiles`, without the linting |
| `EnsurePatternsMatch`, `FinishFiles` | the end |
| `Filter` | `DefaultFileFilter.filter` with `isOutputOfReferencedProject` |
| `GetFileSystemFile`, `NameOf` | `getFileSystemFile`, `processDirectory` |

A pattern is the set of files it matches and whether it has magic. While TypeScript creates a program it may look into other directories, which fills the cache (`OtherLookups`).

### Configuration and TslintConfiguration

`disk` has the raw content of each configuration file. `frames` are the calls of `loadResolved` that did not return yet, so a chain of bases is loaded step by
step (`LoadBase`, `Return`), and `Throw` ends all of them. `configCache`, `dirCache` and `ruleCache` are never emptied.
`Parse` is `parse` of the provider (aliases, directories of rules, overrides), `Reduce`, `GetProcessor` and `ReduceSettings` are the functions that look at one file.
They are compared with definitions of a different form: `MeaningIn` loads without a cache, `Layers` lists all that applies to a file in the order of precedence,
`AliasAfter` follows an alias, `DirectoriesOf` collects directories. Globs are the sets of files they match.
`TslintConfiguration` adds `find` with the loop that fills its cache, and `parse`, whose result goes through the same `Reduce`.

### CommandLine

A value is a tuple of its JavaScript type and the value, since options are told apart by `typeof`. `ParseArguments` reads one argument after the other as
`parseLintCommand` and its likes do, `ParseGlobalOptions` applies the specification of options with `optparse.ts`. `SavedOptions` are what the save command writes, `Reloaded` how YAML reads them back:
a string that looks like a date is not quoted, and comes back as no string. `RunCommand` is one command with any arguments and any content of the file.

### TestCommand

`queue` are the tests that are left, the first one is running in `testPhase`. Each test has a path and a name, from which the directory of its baselines follows
(`BaselineDirectory`). `listed` is the cache of `glob`, shared by all tests. `CreateBaseline` is `createBaseline`: lines and the marks below them, where a string
that is repeated a negative number of times throws. The results of a run come one after the other, and linting with fixes may throw before any of them or after (`FixingThrows`). `BaselinesRight` says exactly which findings let
`createBaseline` throw, so it accepts that; and in update mode it says nothing of tests that share a directory (`Separate`).

### LanguageService

A text is its version. `setup` is what is outside of the project: options in the directories above it, filtered files, the configuration of each file (or that there is none, or that it throws).
`GetFindingsForFile` is the function of that name with its three caches (a hit of the lint cache returns without saving, `UpToDateResult`), `Worker` is `getFindingsForFileWorker`. `GetDiagnostics`, `GetCodeFixesAtPosition`,
`GetCombinedCodeFix` and `CleanupSemanticCache` are requests of the editor. `served` and `offered` remember answers for the properties, `setups` the setups since the last version.

### VueProcessor

A component is a sequence of characters, where a tag counts as one. `ScriptRange` is the constructor (`Depth` stands for the HTML parser), `Fix` and `FixFails` are
an iteration of `lintAndFix` that is kept or taken back with `invertChangeRange`, each with any replacement inside of the script.
The end of a script that is not closed is `Infinity` in the code; it stands for the end of the file, with which it moves. `ComponentsAssumption` says which components and
fixes the model is about: the last script is the one that is closed last, and only once, and fixes insert no tags.

### Rules

`ParameterProperties`: a class with the parameters of its constructor, its members, and a body of assignments, calls and `super`. `ApplyRule` applies any of the
fixes that are reported, in each mode. `Meaning` executes the body. `JumpLabels`: statements inside of each other and jumps in the innermost; an action for
each rule. `ReturnAwait`: a returned expression inside of parts of try statements. `ObjectSpread`: an object literal, whose
properties have names the type checker knows, and those they really have. Each module has the checks of the rule as operators and its fix as an action; the properties say
what the code means before and after.

## 3. What is checked

Each run is listed in `PROJECT.json` with its properties, and each property of a passing run with a
mutant: a plausible bug in a definition (named `Mutant: ...` in the module) under which TLC finds the property violated.

| Run | Instances | Shows |
|---|---|---|
| `cache` | three files, `a` imports `b` imports `c`; `b` or `c` edited, `c` closing a cycle, `c` leaving the program with the import of it, the import of `a` broken, `c` resolved without being loaded; or one file that affects the global scope and is turned into a module; with and without `assumeChangesOnlyAffectDirectDependencies`; the project moved to another directory, modules looked up outside of the project; one or two linted files and configurations | statuses and ids are true, states attribute results to what they were computed from, no stale reuse, every save is current, nothing valid is lost, nothing unchanged is linted again, a state survives a move |
| `dependencies` | all graphs of four files with at most two imports each and six in all, up to renaming, at most one import broken; all graphs of three files with a second specifier. Resolver: four files with up to two texts each, patterns that overlap, an output that is redirected to its source | the walk ends, is never wrong on the way, keeps its stacks aligned, implements `DependencyWalk`; the resolver implements `FreshResolver` |
| `components` | fixes: three of one or two ranges, three of up to three insertions, two with replacements in any order. Switches: three lines, all lists of up to two comments for a rule and of three that do not only concern the next line; two comments with several, unknown and repeated names. Components with scripts in various places, two fixes. Classes with two parameters and three statements; up to five statements and two jumps; up to three parts of try statements; object literals with three properties. Configurations: three that extend each other in all ways; two levels with overrides, excludes, processors, settings; aliases with two levels. TSLint: two drives and a home directory. Arguments: two of any kind, or four of pairs of options; four files of defaults. Tests: two with up to two baselines, all pairs of findings in three lines | that the output of fixes is sound and free of conflicts, termination; which findings comments disable, that useless comments are useless; positions and ranges of processed files; that fixes of rules keep the meaning, converge and agree; answers of configurations do not depend on earlier calls, configurations mean what they say, arguments override and saved options stay, baselines are compared and updated |
| `runner` | linting: three files with five texts, fixes that need, undo or break each other and change imports; one file with a processor; one project, two that overlap, two composite ones; cache, no fixes, patterns, a file without configuration. Projects: a solution with an application and a library in circles, processed, missing, generated and external files. File cache: a root, a directory, an entry; links to a file, a directory and nowhere, a device; file systems that create parents and not. Language service: two files, two versions, four setups | which files are linted and when it is an error, that names map back, that both loops end; findings, host, processor and disk agree, the lint cache is told the truth; the file cache implements `FileSystem`; served findings are current and fit each other |
| `walk_copies`, `stale_ids`, `fix_atomic`, `switch_useless`, `switch_ignored`, `lint_processed`, `created_parents`, `parameter_modified` | instances of the same modules | *violations*, see below |

`components` takes about three minutes with two workers, `runner` a little more, `cache` and `dependencies` up to two.

Bounds. Three files are the least with a transitive dependency and a cycle longer than two, four the least in which
two cycles share parents in every way `setCircularDependency` distinguishes (a cycle inside of another, overlapping at
its start, at its end, and two that are merged by a third). A cached result goes through at most load, merge and save, and
the number of runs and fixes in `ProgramState` is not bounded at all: the state space is finite. The same is true of the calls of the file
cache, the resolver and the configuration manager. Three fixes are needed for a rollback that
retries a fix, four for one that is retried in part. Three comments are needed for a range to be
opened, closed and opened again by comments of different kinds; three lines for the line before, in and
after a switch. Two iterations of fixes are the least
in which a second one depends on, undoes or breaks the first, and with three files one can leave the program, stay because of
another, or be still to come. Three paths are the least with a directory that is both a parent and an entry, so that `createDirectory`
has a parent to create whose own listing and kind may be cached. Three configurations are the least with a cycle that does not contain the one
that is loaded, and with a base that is extended twice. The language service needs three versions of the project (`MaxProjectVersion`) for findings of a
version before the last one to be left over, and two of a file (`MaxVersion`). `MaxFixes` bounds the fixes of a component. A rule is executed on code in which each of its conditions
decides once: three statements for a parameter that is assigned before, between or after, five nested ones for two labels with two targets.
The modules in `components` describe calls that come to their end, so this run does not check for deadlock, and neither do violations of their properties.

Fairness. `DependencyCheck` assumes weak fairness of `Step`, the iterations of a loop that has been entered: the code
is synchronous and nothing else can run until the function returns. New calls (`Ask`) are not fair.
`ApplyFixes` assumes the same of its loop (`FixesStep` in `MCComponents`). That linting (`LintingEnds`), the search for projects (`ProjectsEnd`) and loading a configuration (`LoadEnds`) come
to an end is stated without fairness: there is a next step until the end, and every step makes a variant smaller. All other properties are about safety.

### Disagreements between code and documentation

* `walk_copies`: dependencies are paired by content id (`services/program-state.ts:250`). If an import is redirected to
  a copy of the file it resolved to, the file is up to date although the copy imports something else that has been
  changed since: "outdated" in `packages/wotan/README.md:244-257` includes outdated dependencies.
* `stale_ids`: an id is kept although its file left the program (`services/program-state.ts:118` forgets that of the fixed file only). `b` augments the module
  `c`, which TypeScript loads only because `a` imports it as well. After a fix removes that import, the old result of `b` is found and saved as before, because the id of `c` was
  computed before; linting `b` now could no longer see `c`. "outdated" in `packages/wotan/README.md:244-254` includes removed dependencies.
* `fix_atomic`: a fix displaced by another that is rolled back gets a second chance (`fix.ts:58`) even if its first
  replacement is before the point the loop returns to. It can end up applied in part; `docs/writing-rules.md:194` promises
  "either all of them are applied or none". `MCApplyFixes` needs four fixes for it.
* `switch_useless`: `wotan-enable-line` in a disabled block splits its range, and the rest is attributed to the
  enabling comment (`services/default/line-switches.ts:127`). The disable comment is reported as unused
  although everything after the line depends on it, and the fix deletes it. `DeletingUselessIsSafe` holds without such comments.
* `switch_ignored`: a `wotan-disable` after a `wotan-disable-next-line` in the same line is ignored, because the last range of the rule starts after it (`services/default/line-switches.ts:128`), although
  it "disables all rules from the start of the comment until the end of the file" (`packages/wotan/README.md:140`). `Overtaken` is the exception for this in `DisablesWhatItCovers`.
* `lint_processed`: the content id of a processed file is computed from what the processor takes out of it
  (`services/program-state.ts:72`). If only the rest of the file changes, cached findings with positions in the old content are
  reported and fixed in the new one, although `packages/wotan/README.md:251` lists "file content changed".
* `parameter_modified`: the fix of `parameter-properties` moves the assignment of a parameter to its property before all statements of the
  constructor. `isStatementWithPossibleSideEffects` lets assignments of constants pass, also those to the parameter itself (`packages/mimir/src/rules/parameter-properties.ts:275`),
  so the property gets the value of the argument. `packages/mimir/docs/parameter-properties.md:20` promises fixes "without changing the semantics of the code". `FixesConverge` has the same
  promise for constructors that do not assign to parameters.
* `created_parents`: `NodeFileSystem.createDirectory` creates all missing parents (`services/default/file-system.ts:56`), although
  `packages/ymir/src/index.ts:395` says "Is not supposed to create multiple directories". `doCreateDirectory`, which would create
  the parents one by one and tell the cache about each, never gets to do so: a parent that was looked up before stays
  nonexistent. With a file system as the interface describes it `DirectoriesKnown` holds.

Met while modelling, without a run:

`originalContent` of a processed file is never updated (the comment in
`project-host.ts:18` says so), so a file that belongs to two projects and is fixed in the first has its fixes applied to its former
content in the second; `NeverDamaged` excepts this case.
In the line switches, `wotan-enable-line` in the line of `wotan-disable`
leaves an empty range that still drops a finding spanning it (line 168, `packages/wotan/README.md:142`); an enabling
comment inside a range that an earlier `wotan-enable-next-line` closed is ignored (line 121). `DropsOnlyDisabled` speaks of findings in one line, or of comments that enable no
single line, because of the first, and leaves out comments that are `OutOfOrder` because of the second.

`FirstLineFits` in `VueProcessor`: if a script starts in the line of its tag, and that is not the first line of the file, the columns of findings in this line are one too
high (`packages/ve/src/index.ts:72`: the position of the line break is subtracted, not that of the character after it), although the comment in line 119 claims "special handling for first line
if there is no line break after opening tag". `ScriptMapsBack` states this as it is: the column is exactly one too high there, and right everywhere else.

`FilesExist` in `Projects`: `getFileSystemFile` returns `undefined` for a file that is listed in a composite project and does not exist, and matching patterns throws (`runner.ts:362`).

`HashTellsRules` in `Configuration`: the hash of a configuration leaves out the directories of its rules (`config-hash.ts:24`), so findings in the cache survive a change
from one directory with a rule of some name to another.

`FindEnds` in `TslintConfiguration`: TSLint falls back to a configuration in the home directory. If that is on the drive of the file, but not among its parents, the loop
in `find` goes up to the root and stays there (`packages/valtyr/src/configuration-provider.ts:52`).

`UpdateNeverFails` in `TestCommand`: with `--update` the command "Always returns with exit code 0" (`docs/testing-rules.md:32`), but it fails if linting throws, a file is outside of the
directory, or a baseline is to be removed that another test has removed after the listing was cached (`commands/test.ts:111`).

`ThirdPartyKept` in `CommandLine`: `save` drops empty lists and objects among the options of plugins, although it "will not alter third party configuration" (`packages/wotan/README.md:220`);
a string that looks like a date does not come back as a string.

In `ObjectSpread`, an optional property that is spread between the two accessors of a name makes a difference that `no-duplicate-spread-property` does not see (`SplitAccessors`).
The parser of TSLint's comments adds an empty rule name for trailing white space (`packages/valtyr/src/line-switches.ts:82`).

## 4. What is proved

`ProgramStateProofs` proves, for all sets of files, programs with `SourcesAssumption`, configurations and environments:

* `Invariance`: `IInv` is an inductive invariant, with content ids that are kept over updates;
* `NeverStale`, `TypeCorrect`, `AlwaysSound`: `NoStaleReuse`, `TypeOK` and `StatesSound` follow from it;
* `SavedIsCurrent`: the action property `SaveIsCurrent`;
* `NothingLintedTwice`, `NothingValidLost`: the other direction. A result that is still right is found (`NoNeedlessLint`) and survives setting results,
  recomputing the old state and both ways of saving (`KeepsValidResults`);
* `StateSurvivesMove`: `MovedKeepsState`, for any options and directories.

`NoStaleReuse` alone is not inductive: that a hit is current needs that the old state is sound for its snapshot (`StatesSound`), that
statuses remembered from earlier walks are true (`StatusesTrue`), and that the global files have been compared unless
a recheck is due (`RecheckInv`). Soundness of the old state after `SetFileResult` and of the file after `SaveMerged` needs that
pending results fit the old state (`FileResultsFitOldState`). All of them compare ids, so the ids that were kept must be those of the current contents (`IdsTrue`);
then `Seen` and the program give every comparison the same answer (`SeenIsProg`). `IInv` is their conjunction, and TLC checks it, too.

The argument has three layers. Lemmas about graphs and environments (`ProgramGraphProofs`): `Reach` is the least closed set, the walk decides
what it visits (`WalkDecides`), the hash of options is the same if and only if rules see no difference (`SameEffect`, `SameHash`). Lemmas about two programs: an up-to-date
file reaches the same files with the same ids in both, hence (`SameView`) equal views; conversely, equal views leave the walk nothing to object to
(`ViewDecides`, `ValidIsUpToDate`). Lemmas about operations: one for each action, one step for each conjunct it can disturb.
Asking for more ids keeps that (`RememberTrue`, `AsksIndexed`, `ReuseAsks`), and an update forgets the only one that changes (`UpdateInv`).
Assumptions: `ProgramsAssumption`, `IdAssumption`, `FilesAssumption` (finitely many), `SourcesAssumption`, `LintedAssumption`, `DistinctContentAssumption` and `NoneAssumption` (`undefined` is neither
a result nor a state). TLC evaluates the assumptions of all modules in the runs.

`DependencyCheckProofs` proves, for any number of files and specifiers and all pairs of graphs, if different files have different contents (`ContentsDiffer`):

* `StatusesAreTrue` and `StacksStayAligned`: `StatusesTrue` and `StacksAligned`;
* `ImplementsWalk`: `Spec` implies `Walk!Spec`. So what `ProgramState` takes for granted about a call is what the loop does;
* `CallsAddUp`: calls for several files one after the other, each stopping at what earlier ones found out, leave the statuses that `AfterWalks` allows for all of them at once.
  `Aggregate` in `ProgramState` is one step for such a series of calls. (`NoCalls` says the same of none.) The proof needs that a file is only known to be `Ok` if its dependencies are (`KnownClosed`); with
  less, a walk that stops early could leave a file undecided that `AfterWalks` takes for decided.

`Inv` is the inductive invariant: between calls the stacks are empty and
statuses are true, and in a call `Walking` holds of what is on the stacks. Its parts are

* `Shape`: `parents` has no file twice; each cycle owns a run of positions in it, `circular` names the first position of the run, and runs do not overlap;
* `OnPath`, `InCycles`: each parent depends on those before it in the stack; each member of a cycle depends on the first parent of its run, and a member that has left the stack has no
  dependencies but members of the cycle and files that are `Ok`;
* `Queued`: the queue is made of the children of each parent, as many as `childCounts` says;
* `EdgesSeen`: whatever a parent depends on is `Ok`, a member of its cycle, the next parent, or still in the queue.

When the last parent of a cycle has no more children, it follows that the cycle has no way out but to files that are `Ok`, so that the loop may set all of them to
`Ok`; a changed file on the other hand is reached from all parents, so that `markAsOutdated` may mark them (`Truthful`). `DoneClosed`, `OutdatedSpreads` and `MergeMembers` have these arguments.
Each operation on the stacks has its lemmas: `Push...`, `Pop...`, `Close...`, `Merged...`; each action has one (`...Inv`) that uses them. In `ImplementsWalk` the steps that return are the step of
`DependencyWalk`, all others stutter: until then the statuses a caller sees are those at the call (`ReturnMarks`).

`ContentsDiffer` is a hypothesis of the theorems and not an assumption of the module, because `walk_copies` shows what happens without it. TLC evaluates it for the instances of `dependencies`.
`Inv` says that positions of runs and numbers of children exist, of which TLC would have to try all; the run checks what follows from it.
Assumptions: `InstancesAssumption` (both programs have the same environment; otherwise there is no old state), and those of `ProgramGraph`. That calls return (`Terminates`) stays with TLC.

`ApplyFixesProofs` proves `TextIsSound` (`OutputSound`) for any length of the text and any list of fixes. `IInv` is the inductive invariant: while replacements are combined (`Collecting`),
each combined one stands for replacements of one fix that touch each other (`Combined`), and together they stand for all of its fix (`CombinedTo`); in the loop there is a set `A` of replacements that are applied (`Applying`), such that

* `Text`: the output is that of `A`: the characters of the source before `position` that no member replaces and what the members insert, in their order, with `position` the end of the last one;
* `CanUndo`: what a fix saved restores the text of the members before its first one, and all of the fix since then is in `A`;
* `NotApplied`, `StatesSaved`, `StatesInOrder`: nothing of a fix that was given up is in `A`, and states are saved in the order of the text, so that going back to one keeps those before it;
* `GivenUp`, `Awaited`, `FirstApplied`: a fix is only given up at once if something comes before it, one that is not given up is applied or will be tried, and what precedes the first member was rolled back.

`AddFixIsSound` and `SortAllPrepares` lead into the loop (`Prepared`), `SkipKeepsLoop`, `ConflictKeepsLoop`, `ApplyKeepsLoop` and `RollBackKeepsLoop` stay in it, `FinishIsSound` draws the conclusion. A replacement
only collides with one of another fix, because those of one fix are combined (`ConflictIsWithAnother`), so there is another fix in the text when one is given up, and rolling back never leaves none.
Which fix is applied completely follows from `FirstApplied`: the fix of the first member was not rolled back, and what it has after its first replacement is in `A`.
That `Sort` sorts, is stable and loses nothing (`SortIsStable`) and where `Pieces` cuts (`Runs`) is proved from ranks by the sizes of sets, without induction over the sequence.
Assumptions: `SourceAssumption`, `FixesAssumption` (fixes are finite lists, not empty, of replacements that start before they end and in the text). That the loop ends stays with TLC.

`LineSwitchesProofs` proves `DisabledExactly` (`DisablesExactly`) for any size of the file, all comments, rules and findings. The inductive invariant (`SwitchesInvariance`) is `SwitchesInv`: after
any number of comments the ranges of each rule come from comments that switch it (`RangesTyped`), only the last one is open and they do not overlap (`RangesOrdered`), each is part of what a
disabling comment covers and no later one enables (`RangesMeant`, by `Reason`, which also says where it starts and ends), the last one starts or ends where a comment says so (`RangesLast`), and what a comment covers is in one of them unless the comment was overtaken or a later one enables it (`RangesCover`).
`SwitchAdds`, `SwitchCloses` and `SwitchIgnores` are the three ways a comment changes the ranges of a rule,
and each part has to survive each of them (`AddedKeeps`, `ClosedKeeps`, `IgnoredKeeps`). A range a comment for a line reopens behind itself keeps the reason of the comment that opened it (`ReasonReopened`). The loops that look at the last range only are right because of `RangesOrdered`.
The properties speak of the comments and not of the ranges, so a comment the code ignores counts, too: it has to be `Overtaken`. Assumptions: `SizeAssumption`,
`CommentsAssumption` (comments are sorted and have a predicate each), `FindingsAssumption`.

`LintProjectProofs` proves, for any number of files, projects and rounds of fixing, all imports, fixes and patterns:

* `FindingsAreCurrent` and `ResultsFit`: `FindingsCurrent` and `ResultsFitProgram`;
* `HostStaysInSync`: `HostInSync`, with or without processors;
* `NoFileIsMissing`: the `!` in `runner.ts:118` is right;
* `LintingComesToAnEnd`: each step leaves less to do in the lexicographic order of `Remaining`, whose components never become negative.

None of these but the last is inductive. `LintInv` says what each copy of a text is worth at each point: the host has the text of a file or reads it
(`TextsTrue`), the program is what creating it now would give unless it is invalid (`ProgramTrue`), so is the one the lint cache knows, but for the
file that is being fixed (`KnownTrue`), and so is the one that findings come from (`FindingsTrue`). That an update of the program does not release the file
that is being fixed, nor one that is still to come, is `InOrder`: there is an order of files in which each one from the current file on (`Place`) is a root or
imported by a later one. It holds for the order of the program when a project is opened, and a fix changes the imports of no file after the current one.
Such files are reached from the roots (`LinkedAreLoaded`): of those outside of a closed set, take the last; the file that imports it is in the set. This is the
least number principle (`Least`), which the library's theorem about well-founded relations gives without induction over data.
`HostInSync` needs `HostInv` on top of it: a file has a processor if and only if its source file is cached, and the processor has its content or that of an earlier project (`ProcessorsTrue`); no file is released
before it is linted, and in a single project none is changed before that (`AgendaTrue`); the first fixes of a file are applied to its original content (`ContentTrue`); and files that are not processed, or are but neither cached nor part of several projects,
are not damaged (`UndamagedTrue`).
Assumptions: `TextsAssumption`, `ProjectsAssumption`, `UndefinedAssumption`.

The last part of `LintProjectProofs` proves, for all sets of paths, trees, file systems that create parents or do not, and any number of calls:

* `CacheInvariant`: `CachesCurrent` is an invariant; it is inductive as it stands, because it has all that a step relies on
  (an entry of a cached listing has a cached kind, which makes `ListCached` answer; a cached listing belongs to a directory);
* `Implements`: `CSpec` implies `Uncached!Spec`, the specification of a file system without caches. Each call maps to the same
  call there; `ListingAnswers` is the heart of it: what a listing shows are the existing entries, but for unseen ones.

The effect of `doCreateDirectory` is stated once (`CreateEffect`) for both. Assumptions: `PathsAssumption` and `UpAssumption` (paths form a
tree), `ValuesAssumption` (`undefined` and errors are not mistaken for answers).

The last part of `DependencyCheckProofs` is about the resolver the dependencies come from. It proves `CachesStayFresh` (`ResolverCachesFresh` is an invariant) and `ImplementsFresh` (`ImplementsFreshResolver`).
The caches are functions of files and fresh (`ResolverInv`); then questions answered from the caches are answered as without them
(`Transparent`), so each step is the same step of `FreshResolver`. An update only drops what was collected for the file whose text changes:
what is collected for another depends on its own text alone (`UpdateKeepsFresh`).

`LanguageServiceProofs` proves `EditorSeesFresh` (`ServesFresh`) and `AnswersFitEachOther` (`SameFindings`) for any number of files, versions and
setups. `ServiceInv` says that cached findings of the current version of the project come from a configuration since its last change (`FindingsTrue`), that what was
served is what the next answer comes from (`ServedTrue`), that the lint cache in memory holds results of linting (`StateTrue`) and that what was offered can be done (`OffersTrue`).
Assumptions: `ServiceAssumption` (a file depends on itself, findings are a finite list) and `NothingAssumption` (the values for no findings and errors are no findings).

`VueProcessorProofs` proves `PositionsMapBack` (`ScriptMapsBack`) and `OnlyScriptChanges` (`FixesStayInScript`) for components and fixes of any length and any number of fixes that are kept or taken back.
`VueInv` says that the processor knows the content, that `range` is that of the script (`IsScript`: it begins behind the last opening tag, or behind the line break there; `line` and
`firstLineOffset` are what they have to be for this beginning) and that the text is what is in it. `range` need not be what `ScriptRange` computes: a fix may put a line break at the beginning
of the script. Why it survives a fix: a file that differs from another in its script only (`Alike`) has the same tags at the same depth before the script, none in it, and moved ones behind it
(`AlikeScript`, `NotClosed`), so it has its script in the same place (`ScriptReplaced`). Positions are mapped back, in the first line without a line break after the tag up to the one column the code adds, because the line breaks of a part are those of the whole, moved (`LineBreaksInPart`),
and so is the last one before a position (`CharacterInPart`). `CalculatedRange` shows `calculateChangeRange` right for any two texts. Assumption: `ComponentsAssumption`.

Only model-checked: `DeletingUselessIsSafe` of `LineSwitches`, `Configuration`, `TslintConfiguration`, `Projects`, `CommandLine`, `TestCommand`, the rules, and liveness.
Liveness and `ENABLED` (in `LoadEnds`, `RulesAgree`, `JumpsKeepTargets`) are out of reach of the prover.
`RangesFor` in `LineSwitches` is a fold, about which induction would be needed; `Configuration`, `Projects` (in a property), `JumpLabels`
and `ObjectSpread` have recursive operators, because configurations, references, statements and types are nested to any depth.

## 5. What could come next

* Proofs: that `CachedRuleLoader` and the caches of `Configuration` do not change an answer.
* `ProgramState` with the programs `DependencyResolver` computes instead of given ones, so that a fix that lets files enter the program is followed through both.
* Rules that depend on the type checker (`no-useless-predicate`, `no-useless-assertion`, `restricted-property`): their meaning needs a model of types first.

## 6. What is not modelled

* Rules other than those in section 2, formatters, and the packages heimdall, bifrost and disir: each is a function of a syntax tree and of answers of the type checker without
  state. What a rule finds is a given for all other modules.
* Wrapping TSLint rules and formatters in valtyr: calls of TSLint. Its line switches only translate another syntax of comments; comments come parsed in `LineSwitches`.
* mithotyn, besides whether plugins are loaded: it forwards messages of the server.
* Loaders of processors and formatters, the resolver and the other default services: one call of Node.js or TypeScript each.
* What is printed: messages, diffs of baselines, the output of `show` and `validate`; the YAML and JSON formats and reading, parsing and validating of files, which succeed or throw.
* Globs and `minimatch`: a pattern is the set of files it matches. Paths are normalized.
* Collisions of hashes: two contents with the same hash are the same content.
* Changes of files by others while wotan runs, except in the language service.
* ymir has no control flow of its own, scripts are tools of the release.
