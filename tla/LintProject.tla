---------------------------- MODULE LintProject ----------------------------
(***************************************************************************)
(* Linting and fixing the files of one or more projects: lintProject,      *)
(* getFilesAndProgram (packages/wotan/src/runner.ts), lintAndFix           *)
(* (linter.ts), the caches of ProjectHost (project-host.ts) and the        *)
(* consumer that writes fixed files (commands/lint.ts).                    *)
(*                                                                         *)
(* Four copies of a file have to agree: the file on disk, the source file  *)
(* cached by the host, the one in the current program and the one in the   *)
(* program the lint cache knows. Processed files have a fifth one inside   *)
(* of their processor.                                                     *)
(*                                                                         *)
(* A text is what TypeScript sees of a file. The content of a file on disk *)
(* is this text and the frame a processor takes it out of.                 *)
(***************************************************************************)
EXTENDS Naturals, FiniteSets, Sequences, SequencesExt

CONSTANTS
    Files, Texts, Frames,
    Undefined,   \* undefined
    Damaged,     \* texts that result from replacements at wrong positions
    Valid,       \* texts without syntax errors
    FixesOf,     \* the texts that applying the fixes of findings in a text may result in
    Disks,       \* the texts of all files before the run
    ImportMaps,  \* which files each text of a file imports
    ProjectLists,\* lists of projects: root files and compilerOptions.composite
    Processed,   \* files with a processor
    OptionSets   \* cache; iterations: how often fixes are applied to a file, 0 without
                 \* --fix; included: files that match the patterns given by the user;
                 \* excluded: files without configuration

ASSUME TextsAssumption ==
    /\ IsFiniteSet(Files) /\ Frames # {}
    /\ Damaged \subseteq Texts /\ Valid \subseteq Texts
    /\ FixesOf \in [Texts -> SUBSET Texts]
    /\ \A t \in Texts \ Damaged : FixesOf[t] \cap Damaged = {}
    /\ Disks \subseteq [Files -> Texts \ Damaged]

\* Contents of files
Contents == [frame : Frames, text : Texts]

\* What the host has of a processed file
ProcessedFiles == [original : Contents, source : Contents]

ASSUME UndefinedAssumption == Undefined \notin Texts \union ProcessedFiles

ASSUME ProjectsAssumption ==
    /\ ImportMaps \subseteq [Files -> [Texts -> SUBSET Files]]
    /\ ProjectLists \subseteq Seq([roots : SUBSET Files, composite : BOOLEAN])
    /\ OptionSets \subseteq [cache : BOOLEAN, iterations : Nat, included : SUBSET Files, excluded : SUBSET Files]

VARIABLES
    imports, projects,  \* the code base, chosen at the start
    options,
    disk,         \* the content of every file
    sources,      \* ProjectHost.sourceFileCache
    processed,    \* ProjectHost.processedFiles: originalContent and the processor's source
    current,      \* index of the project
    previous,     \* filesOfPreviousProject
    program,      \* text of the files in the current program
    invalidated,  \* invalidatedProgram
    known,        \* the program ProgramState was last told about
    stored,       \* the findings given to ProgramState.setFileResult
    pending,      \* files of the project that are to be linted, in this order
    pc,
    job           \* the file that is linted

host == <<sources, processed>>
lintVars == <<imports, projects, options, disk, sources, processed, current, previous, program,
          invalidated, known, stored, pending, pc, job>>

NoProgram == [f \in Files |-> Undefined]

-----------------------------------------------------------------------------
(* Programs                                                                *)

\* The content with the given text
WithText(content, text) == [content EXCEPT !.text = text]

\* getSourceFile: a source file is read and processed once.
TextOf(f) == IF sources[f] # Undefined THEN sources[f] ELSE disk[f].text

Loaded(roots) ==
    {f \in Files : \A X \in SUBSET Files :
        roots \subseteq X /\ (\A g \in X : imports[g][TextOf(g)] \subseteq X) => f \in X}

NewProgram(roots) == LET loaded == Loaded(roots) IN [f \in Files |-> IF f \in loaded THEN TextOf(f) ELSE Undefined]

\* program.getSourceFiles: a file comes after the files it imports unless these were
\* found before, in which case another one that imports them comes later.
Orders(roots) ==
    {o \in SetToSeqs(Loaded(roots)) : \A n \in DOMAIN o :
        o[n] \in roots \/ \E m \in n + 1..Len(o) : o[n] \in imports[o[m]][TextOf(o[m])]}

\* The files of an order that are selected, in this order
Selected(order, files) ==
    {s \in SetToSeqs({order[n] : n \in DOMAIN order} \cap files) :
        \A x, y \in DOMAIN s, m, n \in DOMAIN order : x < y /\ order[m] = s[x] /\ order[n] = s[y] => m < n}

\* The caches after creating program P, uncaching the released files
Cached(P, released) ==
    /\ sources' = [f \in Files |-> IF f \in released THEN Undefined
                                   ELSE IF P[f] # Undefined THEN P[f] ELSE sources[f]]
    /\ processed' = [f \in Files |->
         IF f \in released THEN Undefined
         ELSE IF P[f] # Undefined /\ sources[f] = Undefined /\ f \in Processed
              THEN [original |-> disk[f], source |-> disk[f]]
              ELSE processed[f]]

\* Mutant: the program is still used after a file has changed.
GetStaleProgram == UNCHANGED <<program, invalidated, sources, processed>>

\* factory.getProgram: updates the program if a file has changed. Files that are no
\* longer referenced are released.
GetProgram ==
    IF ~invalidated THEN UNCHANGED <<program, invalidated, sources, processed>>
    ELSE LET P == NewProgram(projects[current].roots) IN
         /\ program' = P
         /\ invalidated' = FALSE
         /\ Cached(P, {f \in Files : program[f] # Undefined /\ P[f] = Undefined})

-----------------------------------------------------------------------------
(* Actions                                                                 *)

LintInit ==
    /\ imports \in ImportMaps
    /\ projects \in ProjectLists
    /\ options \in OptionSets
    /\ \E texts \in Disks : disk = [f \in Files |-> [frame |-> CHOOSE x \in Frames : TRUE, text |-> texts[f]]]
    /\ sources = NoProgram /\ processed = NoProgram
    /\ current = 0 /\ previous = {} /\ program = NoProgram /\ invalidated = FALSE
    /\ known = NoProgram /\ stored = NoProgram /\ pending = <<>>
    /\ pc = "open" /\ job = Undefined

\* getFilesAndProgram: the next project is opened after all files of the previous
\* one, whose files are uncached unless they are needed again.
OpenProject ==
    /\ pc = "open" /\ current < Len(projects)
    /\ current' = current + 1
    /\ LET project == projects[current + 1]
           P == NewProgram(project.roots)
           own == IF project.composite THEN project.roots ELSE {f \in Files : P[f] # Undefined}
       IN  \E order \in Orders(project.roots) : \E files \in Selected(order, own \cap options.included) :
           /\ program' = P
           /\ Cached(P, previous \ own)
           /\ previous' = own
           /\ pending' = files
           /\ known' = IF options.cache /\ files # <<>> THEN P ELSE NoProgram
           /\ pc' = IF files = <<>> THEN "open" ELSE "next"
    /\ invalidated' = FALSE
    /\ stored' = NoProgram
    /\ UNCHANGED <<imports, projects, options, disk, job>>

\* The project's results are saved.
CloseProject ==
    /\ pc = "next" /\ pending = <<>>
    /\ pc' = "open"
    /\ UNCHANGED <<imports, projects, options, disk, sources, processed, current, previous, program,
                   invalidated, known, stored, pending, job>>

\* A file without configuration is not linted.
SkipFile ==
    /\ pc = "next" /\ pending # <<>> /\ Head(pending) \in options.excluded
    /\ pending' = Tail(pending)
    /\ UNCHANGED <<imports, projects, options, disk, sources, processed, current, previous, program,
                   invalidated, known, stored, pc, job>>

Original(f) == IF processed[f] # Undefined THEN processed[f].original
               ELSE [frame |-> disk[f].frame, text |-> program[f]]

\* Files with syntax errors are not fixed.
ShouldFix(f) == options.iterations # 0 /\ program[f] \in Valid

\* The next file is taken from the program.
Start(f, findings) ==
    /\ pc = "next" /\ pending # <<>> /\ f = Head(pending)
    /\ f \notin options.excluded
    /\ job' = [file |-> f, source |-> program[f], content |-> Original(f),
               fix |-> ShouldFix(f), round |-> 0,
               findings |-> findings, cached |-> findings # Undefined, updated |-> FALSE]
    /\ pending' = Tail(pending)
    /\ UNCHANGED <<imports, projects, options, disk, sources, processed, current, previous, program,
                   invalidated, known, stored>>

\* There is no result in the cache.
StartFile(f) == Start(f, Undefined) /\ pc' = "lint"

\* There is one: what linting the file known to ProgramState would give. Its positions
\* are those in the file of the run that computed it.
StartCached(f) ==
    /\ options.cache
    /\ \E frame \in IF f \in Processed THEN Frames ELSE {disk[f].frame}, view \in {Undefined, known} :
         Start(f, [text |-> known[f], at |-> [frame |-> frame, text |-> known[f]], view |-> view])
    /\ pc' = IF job'.fix THEN "fix" ELSE "finish"

\* The content that positions of findings refer to: the processor maps them.
Origin == IF processed'[job.file] = Undefined THEN WithText(job.content, job.source)
          ELSE processed'[job.file].source

\* getFindings: rules that use type information get the program.
Lint ==
    /\ pc = "lint"
    /\ \E typed \in BOOLEAN :
         /\ IF typed THEN GetProgram ELSE UNCHANGED <<program, invalidated, sources, processed>>
         /\ job' = [job EXCEPT !.findings =
                [text |-> job.source, at |-> Origin,
                 view |-> IF typed THEN program' ELSE Undefined]]
    /\ pc' = IF job.fix /\ job.round < options.iterations THEN "fix" ELSE "finish"
    /\ UNCHANGED <<imports, projects, options, disk, current, previous, known, stored, pending>>

\* The findings have no fixes.
NoFixes ==
    /\ pc = "fix" /\ FixesOf[job.findings.text] = {}
    /\ pc' = "finish"
    /\ UNCHANGED <<imports, projects, options, disk, sources, processed, current, previous, program,
                   invalidated, known, stored, pending, job>>

\* The findings were mapped by a processor that has the content they are applied to.
Fitting == job.findings.at = job.content /\ job.content.text = job.findings.text

\* applyFixes: replacements are positions in the content.
Fixed == IF Fitting THEN FixesOf[job.findings.text]
         ELSE IF FixesOf[job.findings.text] = {} THEN {} ELSE Damaged

UpdateProcessor(content) ==
    processed' = IF processed[job.file] = Undefined THEN processed
                 ELSE [processed EXCEPT ![job.file].source = content]

\* Mutant: there is no limit.
AcceptForever ==
    /\ pc = "fix"
    /\ \E text \in Fixed \cap Valid :
         /\ sources' = [sources EXCEPT ![job.file] = text]
         /\ UpdateProcessor(WithText(job.content, text))
         /\ job' = [job EXCEPT !.source = text, !.content = WithText(job.content, text), !.updated = TRUE]
    /\ invalidated' = TRUE
    /\ pc' = "lint"
    /\ UNCHANGED <<imports, projects, options, disk, current, previous, program, known, stored, pending>>

\* The fixed text is parsed and becomes the source file, it is linted again.
Accept ==
    /\ pc = "fix"
    /\ \E text \in Fixed \cap Valid :
         /\ sources' = [sources EXCEPT ![job.file] = text]
         /\ UpdateProcessor(WithText(job.content, text))
         /\ job' = [job EXCEPT !.source = text, !.content = WithText(job.content, text),
                               !.round = @ + 1, !.updated = TRUE]
    /\ invalidated' = TRUE
    /\ pc' = "lint"
    /\ UNCHANGED <<imports, projects, options, disk, current, previous, program, known, stored, pending>>

\* Mutant: the processor keeps the fixed content.
RejectKeepsProcessor ==
    /\ pc = "fix"
    /\ \E text \in Fixed \ Valid : UpdateProcessor(WithText(job.content, text))
    /\ sources' = [sources EXCEPT ![job.file] = job.source]
    /\ invalidated' = TRUE
    /\ pc' = "finish"
    /\ UNCHANGED <<imports, projects, options, disk, current, previous, program, known, stored, pending, job>>

\* Fixing caused syntax errors: source file and processor are set back.
Reject ==
    /\ pc = "fix"
    /\ Fixed \ Valid # {}
    /\ sources' = [sources EXCEPT ![job.file] = job.source]
    /\ UpdateProcessor(job.content)
    /\ invalidated' = TRUE
    /\ pc' = "finish"
    /\ UNCHANGED <<imports, projects, options, disk, current, previous, program, known, stored, pending, job>>

\* Mutant: the program the loop started with is used.
FinishWithOldProgram ==
    /\ pc = "finish"
    /\ UNCHANGED <<program, invalidated, sources, processed>>
    /\ known' = IF options.cache /\ job.updated THEN program ELSE known
    /\ stored' = IF options.cache /\ (~job.cached \/ job.updated)
                 THEN [stored EXCEPT ![job.file] = job.findings] ELSE stored
    /\ disk' = IF job.updated THEN [disk EXCEPT ![job.file] = job.content] ELSE disk
    /\ pc' = "next" /\ job' = Undefined
    /\ UNCHANGED <<imports, projects, options, current, previous, pending>>

\* ProgramState is told about the new program and the findings, the consumer writes
\* the fixed file.
Finish ==
    /\ pc = "finish"
    /\ IF options.cache /\ job.updated THEN GetProgram /\ known' = program'
       ELSE UNCHANGED <<program, invalidated, sources, processed, known>>
    /\ stored' = IF options.cache /\ (~job.cached \/ job.updated)
                 THEN [stored EXCEPT ![job.file] = job.findings] ELSE stored
    /\ disk' = IF job.updated THEN [disk EXCEPT ![job.file] = job.content] ELSE disk
    /\ pc' = "next" /\ job' = Undefined
    /\ UNCHANGED <<imports, projects, options, current, previous, pending>>

LintNext ==
    \/ OpenProject \/ CloseProject
    \/ SkipFile
    \/ \E f \in Files : StartFile(f)
    \/ \E f \in Files : StartCached(f)
    \/ Lint \/ NoFixes \/ Accept \/ Reject \/ Finish

LintSpec == LintInit /\ [][LintNext]_lintVars
-----------------------------------------------------------------------------
(* Properties                                                              *)

Programs == [Files -> Texts \union {Undefined}]

LintTypeOK ==
    /\ disk \in [Files -> Contents]
    /\ sources \in Programs /\ program \in Programs /\ known \in Programs
    /\ processed \in [Files -> {Undefined} \union ProcessedFiles]
    /\ current \in 0..Len(projects)
    /\ previous \subseteq Files /\ pending \in Seq(Files)
    /\ invalidated \in BOOLEAN
    /\ pc \in {"open", "next", "lint", "fix", "finish"}
    /\ pc \in {"open", "next"} => job = Undefined
    /\ pc \in {"lint", "fix", "finish"} =>
         job.source \in Texts /\ job.content \in Contents /\ job.round \in 0..options.iterations
    /\ pc \in {"fix", "finish"} => job.findings.text \in Texts /\ job.findings.at \in Contents

\* Findings that are fixed, returned or cached belong to the text they are fixed in
\* and returned with, and rules that use types saw the current text of all files:
\* the program is updated after each fix, in time (getProgram, runner.ts:101).
FindingsCurrent ==
    pc \in {"fix", "finish"} =>
        /\ job.findings.text = job.source
        /\ job.findings.view # Undefined =>
             /\ job.findings.view[job.file] = job.source
             /\ \A f \in Files : job.findings.view[f] \in {Undefined, TextOf(f)}

\* What setFileResult gets was computed from the program ProgramState knows. Between two calls of update
\* only the file it is told about changes (update only forgets the content id of this file,
\* program-state.ts:118). "Files containing syntax errors are never fixed. If applying fixes would cause
\* syntax errors, the fixes will not be applied." (packages/wotan/README.md:156)
ResultsFitProgram ==
    /\ [][stored' # stored /\ pc = "finish" =>
            LET x == stored'[job.file] IN x.text = known'[job.file] /\ x.view \in {Undefined, known'}]_lintVars
    /\ [][pc = "finish" => \A f \in Files \ {job.file} :
            known'[f] = known[f] \/ Undefined \in {known[f], known'[f]}]_lintVars
    /\ [][\A f \in Files : disk'[f] # disk[f] => disk[f].text \in Valid /\ disk'[f].text \in Valid]_lintVars

\* Between files the caches of the host agree with the files on disk. A file that was fixed in an earlier project is
\* fixed at wrong positions, as originalContent is not updated; if that is undone, its processor has this content.
CachesInSync ==
    pc \in {"next", "open"} =>
        \A f \in Files :
            /\ sources[f] # Undefined => sources[f] = disk[f].text
            /\ processed[f] # Undefined =>
                 \/ processed[f].source = disk[f]
                 \/ Len(projects) > 1 /\ processed[f].source = processed[f].original

\* Fixes are never applied at wrong positions (linter.ts:124). Processed files are only
\* safe if their findings are not cached and they belong to one project: originalContent
\* is not updated.
NeverDamaged ==
    \A f \in Files : disk[f].text \in Damaged => f \in Processed /\ (options.cache \/ Len(projects) > 1)

\* A file that is still to be linted is part of the program (the ! in runner.ts:118),
\* although fixes remove imports: only files linted before can be left without any.
NeverMissing == \A n \in DOMAIN pending : program[pending[n]] # Undefined

\* The copies of the files the host, the processors, the program and the disk hold agree whenever they
\* have to, and what is written or looked up because of them is right.
HostInSync == LintTypeOK /\ CachesInSync /\ NeverDamaged /\ NeverMissing

\* What is left to do: projects, files, rounds of fixing the current file, and steps of the round
Remaining ==
    <<Len(projects) - current, Len(pending),
      IF pc \in {"open", "next"} THEN 0 ELSE options.iterations - job.round,
      [open |-> 1, next |-> 2, finish |-> 3, fix |-> 4, lint |-> 5][pc]>>

LeavesLess == \E n \in 1..4 : /\ Remaining'[n] \in 0..Remaining[n] - 1
                              /\ \A m \in 1..n - 1 : Remaining'[m] = Remaining[m]

\* Linting comes to an end although rules may undo each others fixes: every step leaves less to do, and there is
\* a next step (the absence of deadlocks) until all projects are done.
LintingEnds == [][LeavesLess]_lintVars

\* A file whose content changed is outdated (packages/wotan/README.md:251): positions
\* of findings from the cache are those in the current content.
FixesFit == pc = "fix" => job.findings.at = job.content
=============================================================================
