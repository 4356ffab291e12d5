--------------------------- MODULE LanguageService ---------------------------
(***************************************************************************)
(* LanguageServiceInterceptor, the plugin of the TypeScript server: it     *)
(* lints a file when the editor asks for diagnostics or code fixes, keeps  *)
(* the findings for the version of the project they were computed for, and *)
(* a state of the lint cache in memory. The user edits files, the          *)
(* configuration of the linter, which is not a part of the project, at any *)
(* time.                                                                   *)
(*                                                                         *)
(* A text is identified with its version. Of ProgramState the module takes *)
(* what ProgramState.tla shows: a result is reused if and only if all that *)
(* the rules could look at is the same.                                    *)
(***************************************************************************)
EXTENDS Naturals, Sequences, SequencesExt, FiniteSetsExt, TLC

CONSTANTS
    OpenFiles,          \* the files of the project
    MaxVersion,         \* bound on the versions of a file
    MaxProjectVersion,  \* bound on the versions of the project
    Imported,           \* the files a file depends on, with itself
    Setups,             \* configurations of the linter on disk: see setup
    Findings(_, _),     \* the findings in a version of a file with a configuration
    FixPositions,       \* the positions code fixes are asked for
    Nothing, Throwing     \* undefined; an exception

VARIABLES
    version,            \* of each file
    projectVersion,
    programFiles,       \* the files in the program, {} if there is none
    setup,              \* options: the global options found in each directory (Throwing: broken), from that of the
                        \* project to the root; filtered: files of dependencies; config: for each file its
                        \* configuration, Nothing if there is none or it is excluded, Throwing if loading or linting throws
    lastProjectVersion,
    findingsForFile,    \* findings by file and version
    oldState,           \* per file the view and the configuration its findings were computed from
    response,           \* the answer to getCombinedCodeFix, if that was the last request
    offered,            \* code fixes for all findings of a rule the editor may still ask for
    served,             \* the findings the last answer about each file came from
    setups              \* all setups since the version of the project changed

environment == <<version, projectVersion, programFiles, setup>>
serviceCaches == <<lastProjectVersion, findingsForFile, oldState>>
history == <<response, offered, served, setups>>
serviceVars == <<environment, serviceCaches, history>>

-----------------------------------------------------------------------------
NoFindings == [view |-> Nothing, config |-> Nothing, list |-> <<>>]

ASSUME ServiceAssumption ==
    /\ MaxVersion \in Nat \ {0}
    /\ MaxProjectVersion \in Nat
    /\ \A f \in OpenFiles : f \in Imported[f]
    /\ \A any \in Setups, f \in OpenFiles, v \in 1..MaxVersion : IsFiniteSet(DOMAIN Findings(any.config[f], v))

\* Neither undefined nor an exception can be taken for findings.
ASSUME NothingAssumption ==
    /\ NoFindings \notin {Nothing, Throwing}
    /\ \A files \in SUBSET OpenFiles : \A view \in [files -> 1..MaxVersion], any \in Setups, f \in OpenFiles, v \in 1..MaxVersion :
          [view |-> view, config |-> any.config[f], list |-> Findings(any.config[f], v)] \notin {Nothing, Throwing}

View(f) == [g \in Imported[f] \intersect programFiles |-> version[g]]

\* The options of the closest directory that has a .fimbullinter.yaml
GlobalOptions(s) ==
    LET found == SelectSeq(s.options, LAMBDA o : o # Nothing)
    IN  IF found = <<>> THEN [files |-> {}, exclude |-> {}, modules |-> TRUE] ELSE Head(found)

IsIncluded(f, options) ==
    /\ options.files = {} \/ \E pattern \in options.files : f \in pattern
    /\ ~\E pattern \in options.exclude : f \in pattern

Skipped(f, s) == ~IsIncluded(f, GlobalOptions(s)) \/ f \in s.filtered \/ s.config[f] = Nothing

\* loadPluginModule: all modules can be loaded and have createModule.
LoadsPluginModules(s) == GlobalOptions(s).modules

\* getFindingsForFileWorker, for whatever is linted or reused. Plugin modules are loaded after
\* files that are not included have been sorted out, which a file of global options that cannot be parsed prevents.
WorkerThrows(f, s) ==
    \/ GlobalOptions(s) = Throwing
    \/ IsIncluded(f, GlobalOptions(s)) /\ (LoadsPluginModules(s) => f \notin s.filtered /\ s.config[f] = Throwing)

\* getUpToDateResult
UpToDateResult(f, s) == f \in DOMAIN oldState /\ oldState[f].view = View(f) /\ oldState[f].config = s.config[f]

Worker(f, s) ==
    IF WorkerThrows(f, s) THEN Throwing
    ELSE IF Skipped(f, s) THEN NoFindings
    ELSE IF UpToDateResult(f, s) THEN oldState[f]
    ELSE [view |-> View(f), config |-> s.config[f], list |-> Findings(s.config[f], version[f])]

\* ProgramState.save after linting: results of other files survive while they are up to date
Saved(f, result) ==
    [g \in {f} \union {g \in DOMAIN oldState \intersect programFiles : oldState[g].view = View(g)} |->
        IF g = f THEN result ELSE oldState[g]]

Key(f) == <<f, version[f]>>
UpToDate == lastProjectVersion = projectVersion
\* Mutant: whatever the version of the project
HitAnyProject(f) == Key(f) \in DOMAIN findingsForFile

Hit(f) == UpToDate /\ Key(f) \in DOMAIN findingsForFile

\* The value of getFindingsForFile
FindingsForFile(f) ==
    IF f \notin programFiles THEN Nothing
    ELSE IF Hit(f) THEN findingsForFile[Key(f)]
    ELSE IF Worker(f, setup) = Throwing THEN Nothing
    ELSE Worker(f, setup)

\* Findings for another version of the project are forgotten.
Remember(f, findings) ==
    findingsForFile' = [key \in {Key(f)} \union (IF UpToDate THEN DOMAIN findingsForFile ELSE {}) |->
                           IF key = Key(f) THEN findings ELSE findingsForFile[key]]

\* Mutant: an error is not remembered.
GetFindingsButErrors(f) ==
    IF f \notin programFiles \/ Hit(f) \/ Worker(f, setup) = Throwing THEN UNCHANGED serviceCaches
    ELSE /\ lastProjectVersion' = projectVersion
         /\ Remember(f, Worker(f, setup))
         /\ oldState' = IF Skipped(f, setup) \/ UpToDateResult(f, setup) THEN oldState ELSE Saved(f, Worker(f, setup))

\* ... and its effect: an error is remembered as no findings.
GetFindingsForFile(f) ==
    IF f \notin programFiles \/ Hit(f) THEN UNCHANGED serviceCaches
    ELSE LET result == Worker(f, setup)
         IN  /\ lastProjectVersion' = projectVersion
             /\ Remember(f, IF result = Throwing THEN NoFindings ELSE result)
             /\ oldState' = IF result = Throwing \/ Skipped(f, setup) \/ UpToDateResult(f, setup) THEN oldState
                            ELSE Saved(f, result)

-----------------------------------------------------------------------------
(* Requests of the editor.                                                 *)

Answer(f, answer) ==
    /\ GetFindingsForFile(f)
    /\ response' = answer
    /\ served' = [served EXCEPT ![f] = IF FindingsForFile(f) = Nothing THEN NoFindings ELSE FindingsForFile(f)]
    /\ UNCHANGED <<environment, setups>>

\* getSemanticDiagnostics shows errors and warnings, getSuggestionDiagnostics the other findings.
GetDiagnostics(f) == Answer(f, Nothing) /\ UNCHANGED offered

\* What is offered at the position of a finding: fixes, fixes of all findings of the same rule,
\* comments that disable a rule, and a fix of everything (unless applyFixes has to drop all but one)
CodeFixes(list, start) ==
    LET at      == {i \in DOMAIN list : list[i].start = start}
        fixable == {i \in DOMAIN list : list[i].fixable}
        fixes   == at \intersect fixable
    IN  [fixes    |-> {list[i].rule : i \in fixes},
         all      |-> {list[i].rule : i \in {i \in fixes : \E j \in fixable \ {i} : list[j].rule = list[i].rule}},
         disables |-> {list[i].rule : i \in at},
         fixAll   |-> fixes # {} /\ Cardinality(fixable) > 1]

GetCodeFixesAtPosition(f, start) ==
    /\ Answer(f, Nothing)
    /\ offered' = IF FindingsForFile(f) = Nothing THEN offered
                  ELSE offered \union {<<f, rule>> : rule \in CodeFixes(FindingsForFile(f).list, start).all}

\* Without findings the ! after getFindingsForFile is wrong: reading file of undefined throws.
GetCombinedCodeFix(f, rule) ==
    /\ LET list == FindingsForFile(f).list
       IN  Answer(f, IF FindingsForFile(f) = Nothing THEN Throwing
                     ELSE [offer |-> <<f, rule>>, applied |-> {i \in DOMAIN list : list[i].rule = rule /\ list[i].fixable}])
    /\ UNCHANGED offered

-----------------------------------------------------------------------------
(* What happens in between.                                                *)

\* A new program: a file is edited, or leaves or enters the program.
ProgramChanges(v, files) ==
    /\ projectVersion < MaxProjectVersion
    /\ response' = Nothing
    /\ projectVersion' = projectVersion + 1
    /\ version' = v
    /\ programFiles' = files
    /\ offered' = {}
    /\ served' = [f \in OpenFiles |-> Nothing]
    /\ setups' = {setup}
    /\ UNCHANGED <<setup, serviceCaches>>

Edit(f) == version[f] < MaxVersion /\ ProgramChanges([version EXCEPT ![f] = @ + 1], programFiles)

ChangeFiles == \E files \in SUBSET OpenFiles : files # programFiles /\ ProgramChanges(version, files)

\* The configuration of the linter changes without a new version of the project.
ChangeSetup ==
    /\ setup' \in Setups \ {setup}
    /\ setups' = setups \union {setup'}
    /\ response' = Nothing
    /\ UNCHANGED <<version, projectVersion, programFiles, serviceCaches, offered, served>>

CleanupSemanticCache ==
    /\ findingsForFile' = <<>>
    /\ oldState' = <<>>
    /\ offered' = {}
    /\ served' = [f \in OpenFiles |-> Nothing]
    /\ setups' = {setup}
    /\ response' = Nothing
    /\ UNCHANGED <<environment, lastProjectVersion>>

ServiceInit ==
    /\ version = [f \in OpenFiles |-> 1]
    /\ projectVersion = 1
    /\ programFiles \in SUBSET OpenFiles
    /\ setup \in Setups
    /\ lastProjectVersion = 0
    /\ findingsForFile = <<>>
    /\ oldState = <<>>
    /\ response = Nothing
    /\ offered = {}
    /\ served = [f \in OpenFiles |-> Nothing]
    /\ setups = {setup}

Rules == UNION {{Findings(s.config[f], v)[i].rule : i \in DOMAIN Findings(s.config[f], v)} :
                   s \in Setups, f \in OpenFiles, v \in 1..MaxVersion}

ServiceNext ==
    \/ \E f \in OpenFiles :
        \/ GetDiagnostics(f)
        \/ \E start \in FixPositions : GetCodeFixesAtPosition(f, start)
        \/ \E rule \in Rules : GetCombinedCodeFix(f, rule)
        \/ Edit(f)
    \/ ChangeFiles
    \/ ChangeSetup
    \/ CleanupSemanticCache

ServiceSpec == ServiceInit /\ [][ServiceNext]_serviceVars

-----------------------------------------------------------------------------
\* What linting a file now would find
Fresh(f, s) ==
    IF f \notin programFiles \/ WorkerThrows(f, s) \/ Skipped(f, s) THEN NoFindings
    ELSE [view |-> View(f), config |-> s.config[f], list |-> Findings(s.config[f], version[f])]

\* An offer to fix all findings of a rule can be taken up while the project stays the same: the
\* request does not throw (the ! in line 180) and there is more than one fix to apply, even if the
\* configuration was changed or broken in between.
OffersHold ==
    /\ response \notin {Nothing, Throwing} =>
          (response.offer \in offered => Cardinality(response.applied) > 1)
    /\ \A offer \in offered : FindingsForFile(offer[1]) # Nothing

\* Findings the editor is shown are those of the current text and the current program, with a
\* configuration that was in force since the last change of the project, no matter from which
\* of the two caches they come. An edit of the configuration alone may not show until then.
\* What is offered holds as long.
ServesFresh ==
    /\ \A f \in OpenFiles : served[f] # Nothing => \E s \in setups : served[f] = Fresh(f, s)
    /\ OffersHold

\* All requests about a file in the same version of the project are answered from the same
\* findings: errors and suggestions, which the editor asks for separately, fit each other and the fixes.
SameFindings ==
    [][\A f \in OpenFiles : served[f] # Nothing /\ served'[f] # Nothing => served'[f] = served[f]]_serviceVars
=============================================================================
