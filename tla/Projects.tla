------------------------------ MODULE Projects ------------------------------
(***************************************************************************)
(* Which files are linted, and as what: Runner.lintCollection with         *)
(* lintFiles, getFilesAndProgram and createPrograms (runner.ts), the names *)
(* of ProjectHost (project-host.ts) and the file filter (file-filter.ts).  *)
(* How a file is linted and fixed is in LintProject.                       *)
(*                                                                         *)
(* A path is a record of its directory, a sequence of names, of the name   *)
(* without extension, and of the extension: <<"x", "vue">> with extension  *)
(* "ts" is x.vue.ts, the name a processor gave to x.vue.                   *)
(***************************************************************************)
EXTENDS Naturals, Sequences, SequencesExt, FiniteSetsExt, TLC

CONSTANTS
    Instances,      \* code bases: see code
    OptionsOf,      \* the options each of them is linted with: see lintOptions
    LibDirectory,   \* the directory of lib.d.ts
    OtherLookups,   \* bound: directories that TypeScript may look up names in while a program is created
    Absent, Invalid \* undefined; something that throws

VARIABLES
    code,           \* files: the paths of all files, a sequence; directories: those of projects; configFor: for each file its configuration,
                    \* Absent or Invalid; projects: what is in each tsconfig.json; external: files of external libraries
    lintOptions,        \* of lintCollection; cwd and config resolved
    todo,           \* the stack of generators createPrograms: projects left, resolved or names
    seen,           \* projectsSeen
    directoryEntries,   \* ProjectHost.directoryEntries
    remaining,        \* files to lint of the current program, or of lintFiles
    processor,      \* of lintFiles: the file it was created for
    matched,        \* allMatchedFiles
    linted,         \* what has been returned, in this order
    outcome         \* "start", "projects", "files", "done", "ConfigurationError" or "TypeError"

projectsVars == <<code, lintOptions, todo, seen, directoryEntries, remaining, processor, matched, linted, outcome>>

-----------------------------------------------------------------------------
(* Names.                                                                  *)

Supported(f) == f.ext \in {"ts", "d.ts", "tsx", "js", "jsx"}
Additional(f) == Supported(f) \/ f.ext = "json"

WithSuffix(f, suffix) == IF suffix = <<>> THEN f ELSE [f EXCEPT !.base = Append(@, f.ext), !.ext = suffix[1]]

Config(f) == IF lintOptions.config # Absent THEN lintOptions.config ELSE code.configFor[f]

\* The suffix of the processor of a file; an error in a configuration counts as no configuration.
\* A configuration has no processor for a file that is not in the domain of processors.
TryProcessor(f) ==
    LET config == Config(f) IN
    IF config \in {Absent, Invalid} THEN Absent ELSE IF f \in DOMAIN config.processors THEN config.processors[f] ELSE Absent

\* processDirectory: the name of a file in the program
NameOf(f) ==
    IF ~Additional(f) /\ TryProcessor(f) # Absent
    THEN LET name == WithSuffix(f, TryProcessor(f)) IN IF Additional(name) THEN name ELSE f
    ELSE f

AllFiles == ToSet(code.files)
In(dirs) == SelectSeq(code.files, LAMBDA f : f.dir \in dirs)

\* getFileSystemFile with the directories scanned so far
Lookup(name, scanned) ==
    LET reverse == {f \in AllFiles : f.dir \in scanned /\ NameOf(f) = name}
    IN  IF name \in reverse THEN name
        ELSE IF reverse # {} THEN CHOOSE f \in reverse : TRUE
        ELSE IF name.dir \notin scanned /\ name \in AllFiles THEN name
        ELSE Absent

\* ... which scans the directory of a name that is no file
Scanned(names, scanned) == scanned \union {n.dir : n \in {n \in names : Lookup(n, scanned) = Absent}}

GetFileSystemFile(name, scanned) == Lookup(name, Scanned({name}, scanned))

-----------------------------------------------------------------------------
(* Programs and the files of theirs that are linted.                       *)

\* checkConfigDirectory; the tsconfig.json of a directory is identified with the directory.
CheckConfigDirectory(path) == IF path \in DOMAIN code.projects THEN path ELSE Invalid

Resolved(path) == IF path \in DOMAIN code.projects THEN path ELSE Absent

\* parseConfigFile: the files listed, then those found in directories
FileNames(c) ==
    LET found == In(code.projects[c].include)
    IN  code.projects[c].files
        \o SelectSeq([i \in DOMAIN found |-> NameOf(found[i])],
                     LAMBDA n : Supported(n) /\ n \notin ToSet(code.projects[c].files))

Parsed(c) == directoryEntries \union code.projects[c].include

\* isFileIncluded, which throws for undefined if there is anything to match it with
Included(f) == (lintOptions.patterns = <<>> \/ \E p \in ToSet(lintOptions.patterns) : f \in p.matches) /\ f \notin lintOptions.exclude
MatchThrows == lintOptions.patterns # <<>> \/ lintOptions.exclude # {}

\* The first of the files that some(isFileIncluded) stops at: one that is included or not there
Decisive(c, scanned) ==
    SelectSeq([i \in DOMAIN FileNames(c) |-> GetFileSystemFile(FileNames(c)[i], scanned)],
              LAMBDA f : f = Absent \/ Included(f))

DeclarationOutputName(f, project, dir) ==
    IF f.ext \notin {"ts", "tsx", "js", "jsx"} THEN {}
    ELSE LET from == IF project.rootDir = Absent THEN dir ELSE project.rootDir
             to   == IF project.outDir = Absent THEN dir ELSE project.outDir
         IN  {[dir |-> to \o SubSeq(f.dir, Len(from) + 1, Len(f.dir)), base |-> f.base, ext |-> "d.ts"]}

OutputFileNames(c) ==
    IF code.projects[c].outFile # Absent THEN {[code.projects[c].outFile EXCEPT !.ext = "d.ts"]}
    ELSE UNION {DeclarationOutputName(f, code.projects[c], c) : f \in ToSet(FileNames(c))}

\* All projects reached by references from those in a sequence
IterateProjectReferences(refs) ==
    LET reached[n \in 0..Cardinality(DOMAIN code.projects)] ==
            IF n = 0 THEN {Resolved(r) : r \in ToSet(refs)} \ {Absent}
            ELSE reached[n - 1] \union ({Resolved(r) : r \in UNION {ToSet(code.projects[c].references) : c \in reached[n - 1]}}
                                        \ {Absent})
    IN  reached[Cardinality(DOMAIN code.projects)]

IsInTypeRoot(f, c) == \E d \in code.projects[c].typeRoots : IsPrefix(d, f.dir)
IsOutputOfReferencedProject(f, c) ==
    \E r \in IterateProjectReferences(code.projects[c].references) : f \in OutputFileNames(r)

\* Mutant: declaration files that were generated from a referenced project are linted.
FilterKeepsOutputs(f, c) ==
    /\ f.ext # "json"
    /\ IF code.projects[c].composite THEN f \in ToSet(FileNames(c))
       ELSE f \notin code.external /\ (f.ext = "d.ts" => ~IsPrefix(LibDirectory, f.dir) /\ ~IsInTypeRoot(f, c))

\* DefaultFileFilter.filter
Filter(f, c) ==
    /\ f.ext # "json"
    /\ IF code.projects[c].composite THEN f \in ToSet(FileNames(c))
       ELSE /\ f \notin code.external
            /\ f.ext = "d.ts" => /\ ~IsPrefix(LibDirectory, f.dir)
                                 /\ ~(IsSuffix(<<"node_modules", "tslib">>, f.dir) /\ f.base = <<"tslib">>)
                                 /\ ~IsInTypeRoot(f, c)
                                 /\ ~IsOutputOfReferencedProject(f, c)

\* Files of the program (getSourceFiles: those that exist) that pass the filter
SourceNames(c) == FileNames(c) \o code.projects[c].imported
SourceFiles(c, scanned) ==
    SelectSeq(SourceNames(c), LAMBDA n : Filter(n, c) /\ GetFileSystemFile(n, scanned) # Absent)

-----------------------------------------------------------------------------
(* lintCollection.                                                         *)

Fail(error) ==
    /\ outcome' = error
    /\ UNCHANGED <<code, lintOptions, todo, seen, directoryEntries, remaining, processor, matched, linted>>

\* Without --project and with patterns the file system is searched.
UsesFiles == lintOptions.project = <<>> /\ lintOptions.patterns # <<>>

\* Projects that were specified, the one in the current directory, or that of a parent
Named ==
    IF lintOptions.project # <<>> THEN [i \in DOMAIN lintOptions.project |-> CheckConfigDirectory(lintOptions.project[i])]
    ELSE IF lintOptions.references THEN <<CheckConfigDirectory(lintOptions.cwd)>>
    ELSE LET found == {n \in 0..Len(lintOptions.cwd) : SubSeq(lintOptions.cwd, 1, n) \in DOMAIN code.projects}
         IN  IF found = {} THEN <<Invalid>>
             ELSE <<SubSeq(lintOptions.cwd, 1, CHOOSE n \in found : \A m \in found : m <= n)>>

LintProjects ==
    /\ outcome = "start" /\ ~UsesFiles
    /\ IF Invalid \in ToSet(Named) THEN Fail("ConfigurationError")
       ELSE /\ todo' = <<[projects |-> Named, resolved |-> FALSE]>>
            /\ outcome' = "projects"
            /\ UNCHANGED <<code, lintOptions, seen, directoryEntries, remaining, processor, matched, linted>>

\* The rest of the current generator, with another one on top if there is any
Continue(projects, resolved) ==
    todo' = Front(todo) \o <<[Last(todo) EXCEPT !.projects = Tail(@)]>>
            \o (IF projects = <<>> THEN <<>> ELSE <<[projects |-> projects, resolved |-> resolved]>>)

Project == Head(Last(todo).projects)
Ready == outcome = "projects" /\ remaining = <<>> /\ todo # <<>>
AtProject == Ready /\ Last(todo).projects # <<>>
\* Mutant: projects are opened again.
IsThere == Project # Absent

IsNew == Project # Absent /\ Project \notin seen

ExhaustProjects ==
    /\ Ready /\ Last(todo).projects = <<>>
    /\ todo' = Front(todo)
    /\ UNCHANGED <<code, lintOptions, seen, directoryEntries, remaining, processor, matched, linted, outcome>>

SkipProject ==
    /\ AtProject /\ ~IsNew
    /\ Continue(<<>>, FALSE)
    /\ UNCHANGED <<code, lintOptions, seen, directoryEntries, remaining, processor, matched, linted, outcome>>

\* A composite project none of whose files is selected needs no program, nor does one without files.
Asks(c) == FileNames(c) # <<>> /\ code.projects[c].composite
Crashes(c) == Asks(c) /\ MatchThrows /\ Decisive(c, Parsed(c)) # <<>> /\ Head(Decisive(c, Parsed(c))) = Absent
IsUsed(c) == FileNames(c) # <<>> /\ (Asks(c) => Decisive(c, Parsed(c)) # <<>>)

\* The ! after getFileSystemFile (runner.ts:362) is wrong for a file that does not exist.
MatchUndefined ==
    /\ AtProject /\ IsNew
    /\ Crashes(Project)
    /\ Fail("TypeError")

UseProject ==
    /\ AtProject /\ IsNew
    /\ ~Crashes(Project) /\ IsUsed(Project)
    /\ \E scanned \in {Scanned(ToSet(SourceNames(Project)), Parsed(Project) \union more) : more \in OtherLookups} :
        LET own   == SourceFiles(Project, scanned)
            files == [i \in DOMAIN own |-> [project |-> Project, file |-> GetFileSystemFile(own[i], scanned), name |-> own[i]]]
        IN  /\ directoryEntries' = scanned
            /\ remaining' = SelectSeq(files, LAMBDA p : Included(p.file))
    /\ matched' = matched \union {p.file : p \in ToSet(remaining')}
    /\ seen' = seen \union {Project}
    /\ LET refs == code.projects[Project].references
       IN  Continue(IF lintOptions.references THEN [i \in DOMAIN refs |-> Resolved(refs[i])] ELSE <<>>, TRUE)
    /\ UNCHANGED <<code, lintOptions, processor, linted, outcome>>

PassProject ==
    /\ AtProject /\ IsNew
    /\ ~Crashes(Project) /\ ~IsUsed(Project)
    /\ LET refs    == code.projects[Project].references
           checked == [i \in DOMAIN refs |-> CheckConfigDirectory(refs[i])]
       IN  IF lintOptions.references /\ ~Last(todo).resolved /\ Invalid \in ToSet(checked) THEN Fail("ConfigurationError")
           ELSE /\ Continue(IF ~lintOptions.references THEN <<>>
                            ELSE IF Last(todo).resolved THEN [i \in DOMAIN refs |-> Resolved(refs[i])] ELSE checked,
                            Last(todo).resolved)
                /\ seen' = seen \union {Project}
                /\ directoryEntries' = Parsed(Project)
                /\ UNCHANGED <<code, lintOptions, remaining, processor, matched, linted, outcome>>

\* The effect of the loop in lintProject on a file of the program that is remaining
LintInProject ==
    /\ outcome = "projects" /\ remaining # <<>>
    /\ LET p == Head(remaining)
           config == Config(p.file)
           processed == TryProcessor(p.file) # Absent
       IN  IF config = Invalid THEN Fail("ConfigurationError")
           ELSE /\ linted' = IF config = Absent THEN linted
                             ELSE IF p.file \in config.excluded THEN linted
                             ELSE Append(linted, p @@ "processor" :> IF processed THEN p.file ELSE Absent)
                /\ remaining' = Tail(remaining)
                /\ UNCHANGED <<code, lintOptions, todo, seen, directoryEntries, processor, matched, outcome>>

\* A pattern without magic that matches nothing of a set is an error unless it is excluded.
Unmatched(files) == {p \in ToSet(lintOptions.patterns) : ~p.magic /\ p.matches \intersect (files \union lintOptions.exclude) = {}}

\* Mutant: a file that matches but is not linted, because of its configuration, is missed.
EnsurePatternsLint ==
    /\ outcome = "projects" /\ remaining = <<>> /\ todo = <<>>
    /\ outcome' = IF Unmatched({l.file : l \in ToSet(linted)}) # {} THEN "ConfigurationError" ELSE "done"
    /\ UNCHANGED <<code, lintOptions, todo, seen, directoryEntries, remaining, processor, matched, linted>>

EnsurePatternsMatch ==
    /\ outcome = "projects" /\ remaining = <<>> /\ todo = <<>>
    /\ outcome' = IF Unmatched(matched) # {} THEN "ConfigurationError" ELSE "done"
    /\ UNCHANGED <<code, lintOptions, todo, seen, directoryEntries, remaining, processor, matched, linted>>

-----------------------------------------------------------------------------
(* lintFiles.                                                              *)

\* getFiles
LintFiles ==
    /\ outcome = "start" /\ UsesFiles
    /\ IF Unmatched(AllFiles) # {} THEN Fail("ConfigurationError")
       ELSE /\ remaining' = SelectSeq(code.files, Included)
            /\ outcome' = "files"
            /\ UNCHANGED <<code, lintOptions, todo, seen, directoryEntries, processor, matched, linted>>

\* The name a file is linted with: it needs an extension that is supported or was specified.
TargetName(f) == IF Supported(f) \/ f.ext \in lintOptions.extensions \/ TryProcessor(f) = Absent THEN f
                 ELSE WithSuffix(f, TryProcessor(f))
Lints(f) ==
    /\ Config(f) # Absent
    /\ f \notin Config(f).excluded
    /\ Supported(TargetName(f)) \/ TargetName(f).ext \in lintOptions.extensions

\* Mutant: the processor of the file before is used for a file without one.
LintFileWithLastProcessor ==
    /\ outcome = "files" /\ remaining # <<>>
    /\ LET f == Head(remaining) IN
       IF Config(f) = Invalid THEN Fail("ConfigurationError")
       ELSE /\ remaining' = Tail(remaining)
            /\ IF Lints(f)
               THEN /\ processor' = IF TryProcessor(f) = Absent THEN processor ELSE f
                    /\ linted' = Append(linted, [project |-> Absent, file |-> f, name |-> TargetName(f),
                                                 processor |-> processor'])
               ELSE UNCHANGED <<processor, linted>>
            /\ UNCHANGED <<code, lintOptions, todo, seen, directoryEntries, matched, outcome>>

LintFile ==
    /\ outcome = "files" /\ remaining # <<>>
    /\ LET f == Head(remaining) IN
       IF Config(f) = Invalid THEN Fail("ConfigurationError")
       ELSE /\ remaining' = Tail(remaining)
            /\ IF Lints(f)
               THEN /\ processor' = IF TryProcessor(f) = Absent THEN Absent ELSE f
                    /\ linted' = Append(linted, [project |-> Absent, file |-> f, name |-> TargetName(f),
                                                 processor |-> processor'])
               ELSE UNCHANGED <<processor, linted>>
            /\ UNCHANGED <<code, lintOptions, todo, seen, directoryEntries, matched, outcome>>

FinishFiles ==
    /\ outcome = "files" /\ remaining = <<>>
    /\ outcome' = "done"
    /\ UNCHANGED <<code, lintOptions, todo, seen, directoryEntries, remaining, processor, matched, linted>>

-----------------------------------------------------------------------------
Ended == outcome \in {"done", "ConfigurationError", "TypeError"}
Stop == Ended /\ UNCHANGED projectsVars

ProjectsInit ==
    /\ code \in Instances
    /\ lintOptions \in OptionsOf[code]
    /\ todo = <<>> /\ seen = {} /\ directoryEntries = {}
    /\ remaining = <<>> /\ processor = Absent /\ matched = {} /\ linted = <<>>
    /\ outcome = "start"

ProjectsNext ==
    \/ LintProjects \/ ExhaustProjects \/ SkipProject \/ MatchUndefined \/ UseProject \/ PassProject
    \/ LintInProject \/ EnsurePatternsMatch
    \/ LintFiles \/ LintFile \/ FinishFiles
    \/ Stop

ProjectsSpec == ProjectsInit /\ [][ProjectsNext]_projectsVars

-----------------------------------------------------------------------------
(* Properties.                                                             *)

\* The projects that are to be linted
RECURSIVE ReachedFrom(_)
ReachedFrom(projects) ==
    LET next == projects \union ({Resolved(r) : r \in UNION {ToSet(code.projects[c].references) : c \in projects}} \ {Absent})
    IN  IF next = projects \/ ~lintOptions.references THEN projects ELSE ReachedFrom(next)

\* The files of a project, with all names known
Everywhere == {f.dir : f \in AllFiles}
OwnFiles(c) == {GetFileSystemFile(n, Everywhere) : n \in ToSet(SourceFiles(c, Everywhere))}
AllOwnFiles == UNION {OwnFiles(c) : c \in ReachedFrom(ToSet(Named))}

HasConfig(f) == Config(f) # Absent /\ f \notin Config(f).excluded

\* If nothing is wrong, all files of all projects that were specified or are referenced are linted if they are
\* selected and have a configuration, once per project, also if projects reference each other in circles
\* and projects that contain nothing to lint are not even loaded. Declarations that were generated from
\* another project are never linted. Patterns of files that are in no project are not forgotten.
SelectsFiles ==
    (outcome = "done" /\ ~UsesFiles) =>
        /\ {l.file : l \in ToSet(linted)} = {f \in AllOwnFiles : Included(f) /\ HasConfig(f)}
        /\ \A c \in ReachedFrom(ToSet(Named)) :
              {l.file : l \in {l \in ToSet(linted) : l.project = c}} = {f \in OwnFiles(c) : Included(f) /\ HasConfig(f)}
        /\ \A i, j \in DOMAIN linted : linted[i] = linted[j] => i = j
        /\ \A i \in DOMAIN linted : linted[i].name \notin code.generated
        /\ Unmatched(AllOwnFiles) = {}

\* There is a reason for every error: a project or reference that does not exist, a configuration
\* that is invalid, a pattern without magic that matches nothing, a file that is listed but does not exist.
FailsWithReason ==
    /\ outcome = "ConfigurationError" =>
        IF UsesFiles
        THEN Unmatched(AllFiles) # {} \/ \E f \in AllFiles : Included(f) /\ Config(f) = Invalid
        ELSE \/ Invalid \in ToSet(Named)
             \/ Unmatched(AllOwnFiles) # {}
             \/ \E f \in AllOwnFiles : Included(f) /\ Config(f) = Invalid
             \/ /\ lintOptions.references
                /\ \E c \in ReachedFrom(ToSet(Named)) : \E r \in ToSet(code.projects[c].references) : Resolved(r) = Absent
    /\ outcome = "TypeError" =>
        \E c \in ReachedFrom(ToSet(Named)) :
            /\ code.projects[c].composite
            /\ \E n \in ToSet(code.projects[c].files) : GetFileSystemFile(n, Everywhere) = Absent

\* A file is linted under the same name and with its own processor, or none, no matter if it was found in
\* a project or by its name and which files were linted before. Names of files in programs are mapped to
\* different files, the same in whatever order directories are scanned.
NamesMapBack ==
    /\ \A i \in DOMAIN linted :
          LET l == linted[i]
          IN  /\ l.name = TargetName(l.file)
              /\ l.processor = IF TryProcessor(l.file) = Absent THEN Absent ELSE l.file
    /\ \A c \in seen :
          LET names == {n \in ToSet(SourceNames(c)) : Additional(n)}
              file(n) == GetFileSystemFile(n, directoryEntries)
              there   == {n \in names : file(n) # Absent}
          IN  /\ \A n \in names : file(n) = GetFileSystemFile(n, Everywhere)
              /\ Cardinality({file(n) : n \in there}) = Cardinality(there)

\* Linting comes to an end whichever projects reference each other: until then there is a next step (the
\* absence of deadlocks), and every step but the first opens a project for the first time or leaves less to do.
Unseen == Cardinality(DOMAIN code.projects \ seen)
Left == Len(remaining) + FoldLeft(LAMBDA sum, g : sum + 1 + Len(g.projects), 0, todo)
ProjectsEnd ==
    [][outcome # "start" /\ outcome' = outcome => Unseen' < Unseen \/ (Unseen' = Unseen /\ Left' < Left)]_projectsVars

\* The ! after getFileSystemFile in line 362 of runner.ts: the files of a project exist.
FilesExist == outcome # "TypeError"
=============================================================================
