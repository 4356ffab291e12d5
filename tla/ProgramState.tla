---------------------------- MODULE ProgramState ----------------------------
(***************************************************************************)
(* The incremental lint cache of a project: ProgramStateImpl in            *)
(* packages/wotan/src/services/program-state.ts together with the file     *)
(* DefaultStatePersistence keeps it in (a .fimbullintercache file).        *)
(*                                                                         *)
(* A run of the linter creates one ProgramState per TypeScript program. It *)
(* asks for cached results (getUpToDateResult), stores new ones            *)
(* (setFileResult), tells it that a fix changed a file (update) and        *)
(* finally saves it. Between runs the user edits the project: the next run *)
(* sees any other program.                                                 *)
(*                                                                         *)
(* The walk over a file's dependencies (fileDependenciesUpToDate) appears  *)
(* here by its answer and by the statuses it may leave behind; module      *)
(* DependencyCheck has its steps.                                          *)
(***************************************************************************)
EXTENDS ProgramGraph

CONSTANTS
    Linted,     \* the files the runner does not exclude from linting
    Configs,    \* config hashes
    None,       \* undefined
    Corrupt     \* a cache file that cannot be loaded

ASSUME LintedAssumption == Linted \subseteq Files

\* Two different files never have the same content (DependencyCheck shows what
\* happens if they have).
ASSUME DistinctContentAssumption ==
    \A P, Q \in Programs : \A f \in P.files, g \in Q.files : f # g => P.ver[f] # Q.ver[g]

VARIABLES
    disk,         \* the cache file: None, Corrupt or a StaticProgramState
    prog,         \* this.program, None while no run is active
    contentIds,   \* this.contentIds, None for a file whose id was not asked for yet
    oldState,     \* this[oldStateSymbol]
    recheck,      \* this.recheckOldState
    status,       \* this.dependenciesUpToDate
    fileResults,  \* this.fileResults
    reply         \* what getUpToDateResult returned last, and to which question

vars == <<disk, prog, contentIds, oldState, recheck, status, fileResults, reply>>

-----------------------------------------------------------------------------
(* Results and states                                                      *)

\* Linting is a function of the configuration and the view.
Lint(P, f, c) == [config |-> c, result |-> View(P, f)]

-----------------------------------------------------------------------------
(* States: a snapshot of the program they were computed from (ids,         *)
(* dependencies and global files) and a result for some of its files       *)

Entries == [config : Configs, result : {View(P, f) : P \in Programs, f \in Files}]

Results == [Files -> {None} \union Entries]

States == [snap : Programs, res : Results]

\* undefined is neither.
ASSUME NoneAssumption == None \notin Entries \union States

NoResults == [f \in Files |-> None]

AllFiles(s) == [f \in Files |-> s]

\* The files a state has an index for: those of the program and what they resolve to
Indexed(S) == S.files \union UNION {Targets(S, f) : f \in S.files}

NoIds == AllFiles(None)

TypeOK ==
    /\ disk \in {None, Corrupt} \union States
    /\ prog \in {None} \union Programs
    /\ contentIds \in [Files -> {None, NA} \union Versions]
    /\ oldState \in {None} \union States
    /\ recheck \in BOOLEAN
    /\ status \in [Files -> DependencyState]
    /\ fileResults \in Results
    /\ reply \in {None} \union
         [file : Files, config : Configs, result : {None} \union Entries]

-----------------------------------------------------------------------------
(* Content ids are computed when they are asked for and then kept until    *)
(* that file is updated.                                                   *)

\* getContentId
ContentId(f) == IF contentIds[f] = None THEN Id(prog, f) ELSE contentIds[f]

\* The program as it is compared with the old state: with the ids the cache knows.
\* Only the ids of files of the program and of what they resolve to are asked for.
Seen == [prog EXCEPT !.id = [f \in Files |-> IF f \in Indexed(prog) THEN ContentId(f) ELSE prog.id[f]]]

\* The ids are remembered after those of the files in F were asked for.
Remember(F) == [f \in Files |-> IF f \in F THEN ContentId(f) ELSE contentIds[f]]

\* Walks from the files in R ask for the ids of the dependencies of the files they visit,
\* a failing one maybe only for some.
MayAsk(S, st, R) == UNION {Targets(prog, g) : g \in UNION {Visited(S, Seen, st, f) : f \in R}}

WalksAsk(S, st, R) ==
    {MayAsk(S, st, {f \in R : WalkSucceeds(S, Seen, st, f)}) \union F : F \in SUBSET MayAsk(S, st, R)}

-----------------------------------------------------------------------------
(* Reusing the old state                                                   *)

\* Mutant: only the number of global files is compared.
GlobalsUpToDateByCount(S, P, st) == Cardinality(S.global) = Cardinality(P.global)

GlobalsUpToDate(S, P, st) ==
    /\ IdList(S, S.global) = IdList(P, P.global)
    /\ Direct(P) \/ \A g \in P.global : WalkSucceeds(S, P, st, g)

\* The comparison of the global files asks for their ids unless there are more or less
\* than before, and for those the walks ask for up to the first that fails.
GlobalsAsk(S) ==
    IF Cardinality(S.global) # Cardinality(prog.global) THEN {{}}
    ELSE {prog.global \union F :
             F \in IF Direct(prog) THEN {{}}
                   ELSE IF GlobalsUpToDate(S, Seen, status) THEN {MayAsk(S, status, prog.global)}
                   ELSE SUBSET MayAsk(S, status, prog.global)}

\* What oldState, recheck and status are after tryReuseOldState, and the ids it may ask
\* for. Without an old state the statuses are never read again.
TryReuseOldState ==
    IF oldState = None \/ ~recheck
    THEN [old |-> oldState, recheck |-> recheck, status |-> status, asks |-> {{}}]
    ELSE LET S == oldState.snap IN
         IF GlobalsUpToDate(S, Seen, status)
         THEN [old |-> oldState, recheck |-> FALSE, asks |-> GlobalsAsk(S),
               status |-> IF Direct(prog) THEN status
                          ELSE Mark(S, Seen, status, UNION {Visited(S, Seen, status, g) : g \in prog.global})]
         ELSE [old |-> None, recheck |-> recheck, status |-> status, asks |-> GlobalsAsk(S)]

\* The file has an index and its content is unchanged.
SameContent(r, f) == r.old # None /\ f \in Indexed(r.old.snap) /\ Id(r.old.snap, f) = Id(Seen, f)

IsFileUpToDate(r, f) == SameContent(r, f) /\ WalkSucceeds(r.old.snap, Seen, r.status, f)

OldResult(S, f) == IF S = None THEN None ELSE S.res[f]

\* The result a file has before it is known whether it is still valid.
Candidate(S, f) == IF fileResults[f] # None THEN fileResults[f] ELSE OldResult(S, f)

\* Mutant: results set in this run are not taken over.
AggregateOldOnly(r) ==
    [snap |-> Seen,
     res |-> [f \in Files |->
                IF f \in prog.files /\ OldResult(r.old, f) # None /\ IsFileUpToDate(r, f)
                THEN OldResult(r.old, f) ELSE None]]

Aggregate(r) ==
    [snap |-> Seen,
     res |-> [f \in Files |->
                IF f \in prog.files /\ Candidate(r.old, f) # None /\ IsFileUpToDate(r, f)
                THEN Candidate(r.old, f) ELSE None]]

-----------------------------------------------------------------------------
(* Actions                                                                 *)

Init ==
    /\ disk = None
    /\ prog = None
    /\ contentIds = NoIds
    /\ oldState = None
    /\ recheck = TRUE
    /\ status = AllFiles("Unknown")
    /\ fileResults = NoResults
    /\ reply = None

\* The constructor: load the saved state, drop it if it belongs to another
\* environment.
Create(P) ==
    /\ prog = None
    /\ prog' = P
    /\ contentIds' = NoIds
    /\ oldState' = IF disk \notin {None, Corrupt} /\ SameEnvironment(disk.snap, P)
                   THEN disk ELSE None
    /\ recheck' = TRUE
    /\ status' = AllFiles("Unknown")
    /\ fileResults' = NoResults
    /\ reply' = None
    /\ UNCHANGED disk

GetUpToDateResult(f, c) ==
    /\ prog # None
    /\ f \in prog.files
    /\ LET r == TryReuseOldState
           old == OldResult(r.old, f)
           candidate == old # None /\ old.config = c /\ SameContent(r, f)
           hit == candidate /\ WalkSucceeds(r.old.snap, Seen, r.status, f)
           asked == IF old # None /\ old.config = c THEN {f} ELSE {}
       IN  /\ oldState' = r.old
           /\ recheck' = r.recheck
           /\ status' \in IF candidate THEN AfterWalks(r.old.snap, Seen, r.status, {f})
                          ELSE {r.status}
           /\ \E F \in r.asks, G \in IF candidate THEN WalksAsk(r.old.snap, r.status, {f}) ELSE {{}} :
                contentIds' = Remember(asked \union F \union G)
           /\ reply' = [file |-> f, config |-> c, result |-> IF hit THEN old ELSE None]
    /\ UNCHANGED <<disk, prog, fileResults>>

\* The file has been linted with configuration c.
SetFileResult(f, c) ==
    /\ prog # None
    /\ f \in prog.files
    /\ LET r == TryReuseOldState IN
       \/ /\ IsFileUpToDate(r, f)
          /\ oldState' = r.old
          /\ recheck' = r.recheck
          /\ status' \in AfterWalks(r.old.snap, Seen, r.status, {f})
          /\ \E F \in r.asks, G \in WalksAsk(r.old.snap, r.status, {f}) :
               contentIds' = Remember({f} \union F \union G)
          /\ fileResults' = [fileResults EXCEPT ![f] = Lint(prog, f, c)]
       \/ /\ ~IsFileUpToDate(r, f)
          /\ oldState' = Aggregate(r)
          /\ recheck' = FALSE
          /\ status' = AllFiles("Ok")
          /\ contentIds' = Remember(Indexed(prog))
          /\ fileResults' = [NoResults EXCEPT ![f] = Lint(prog, f, c)]
    /\ reply' = None
    /\ UNCHANGED <<disk, prog>>

\* Mutant: what was known about the files before the fix is kept.
UpdateKeepsStatus(u, P) ==
    /\ prog # None
    /\ u \in prog.files
    /\ P.env = prog.env
    /\ \A f \in Files \ {u} : P.ver[f] = prog.ver[f]
    /\ prog' = P
    /\ contentIds' = [contentIds EXCEPT ![u] = None]
    /\ recheck' = TRUE
    /\ reply' = None
    /\ UNCHANGED <<disk, oldState, status, fileResults>>

\* Mutant: the file keeps the id of its former content.
UpdateKeepsId(u, P) ==
    /\ prog # None
    /\ u \in prog.files
    /\ P.env = prog.env
    /\ \A f \in Files \ {u} : P.ver[f] = prog.ver[f]
    /\ prog' = P
    /\ recheck' = TRUE
    /\ status' = AllFiles("Unknown")
    /\ reply' = None
    /\ UNCHANGED <<disk, contentIds, oldState, fileResults>>

\* A fix changed the content of file u, P is the resulting program. Other files may
\* enter or leave the program; the ids that were asked for are kept.
Update(u, P) ==
    /\ prog # None
    /\ u \in prog.files
    /\ P.env = prog.env
    /\ \A f \in Files \ {u} : P.ver[f] = prog.ver[f]
    /\ prog' = P
    /\ contentIds' = [contentIds EXCEPT ![u] = None]
    /\ recheck' = TRUE
    /\ status' = AllFiles("Unknown")
    /\ reply' = None
    /\ UNCHANGED <<disk, oldState, fileResults>>

\* The write succeeds, fails without an effect or leaves a partial file.
WriteState(S) == disk' \in {S, disk, Corrupt}

\* Every index is known to be Ok: only results are added.
SaveMerged ==
    /\ prog # None
    /\ fileResults # NoResults
    /\ oldState # None
    /\ \A f \in Indexed(oldState.snap) : status[f] = "Ok"
    /\ WriteState([oldState EXCEPT !.res = [f \in Files |-> Candidate(oldState, f)]])
    /\ reply' = None
    /\ UNCHANGED <<prog, contentIds, oldState, recheck, status, fileResults>>

SaveAggregated ==
    /\ prog # None
    /\ fileResults # NoResults
    /\ oldState # None => \E f \in Indexed(oldState.snap) : status[f] # "Ok"
    /\ LET r == TryReuseOldState
           asked == {f \in prog.files : Candidate(r.old, f) # None /\ SameContent(r, f)}
       IN  /\ WriteState(Aggregate(r))
           /\ oldState' = r.old
           /\ recheck' = r.recheck
           /\ status' \in IF r.old = None THEN {r.status}
                          ELSE AfterWalks(r.old.snap, Seen, r.status, asked)
    /\ contentIds' = Remember(Indexed(prog))
    /\ reply' = None
    /\ UNCHANGED <<prog, fileResults>>

\* The run ends, regularly or not.
Exit ==
    /\ prog # None
    /\ prog' = None
    /\ contentIds' = NoIds
    /\ oldState' = None
    /\ recheck' = TRUE
    /\ status' = AllFiles("Unknown")
    /\ fileResults' = NoResults
    /\ reply' = None
    /\ UNCHANGED disk

Steps(programs, linted, configs) ==
    \/ \E P \in programs : Create(P)
    \/ \E f \in linted, c \in configs : GetUpToDateResult(f, c)
    \/ \E f \in linted, c \in configs : SetFileResult(f, c)
    \/ \E u \in linted, P \in programs : Update(u, P)
    \/ SaveMerged
    \/ SaveAggregated
    \/ Exit

Next == Steps(Programs, Linted, Configs)

Spec == Init /\ [][Next]_vars

-----------------------------------------------------------------------------
(* Properties                                                              *)

\* A result taken from the cache is the one linting the file now would give: it
\* is never stale (getUpToDateResult, README "Caching").
NoStaleReuse ==
    reply # None /\ reply.result # None =>
        reply.result = Lint(prog, reply.file, reply.config)

Sound(S) ==
    \A f \in Files : S.res[f] # None =>
        /\ f \in S.snap.files
        /\ S.res[f] = Lint(S.snap, f, S.res[f].config)

\* Whatever runs, fixes, failed writes and merges happened before, a state never
\* attributes a result to a snapshot it was not computed from (aggregate, save).
StatesSound ==
    /\ disk \notin {None, Corrupt} => Sound(disk)
    /\ oldState # None => Sound(oldState)

\* Results not yet merged belong to the old state, too: save may merge them into
\* it once all statuses are Ok, and lookupFileIndex finds them (line 311).
FileResultsFitOldState ==
    oldState # None => Sound([oldState EXCEPT !.res = [f \in Files |-> Candidate(oldState, f)]])

StatusesMatch(S, P, st) ==
    \A f \in Files :
        /\ st[f] = "Ok" => UpToDate(S, P, f) /\ (f \in S.files => Id(S, f) = Id(P, f))
        /\ st[f] = "Outdated" => ~UpToDate(S, P, f)

\* A status that is reused by later walks tells the truth about the program as it
\* is now, also after a fix changed files (update, line 120), and Ok is only given
\* to files whose content is unchanged: save relies on that (line 307).
StatusesTrue ==
    prog # None /\ oldState # None => StatusesMatch(oldState.snap, prog, status)

GlobalsMatch(S, P) ==
    /\ SameEnvironment(S, P)
    /\ IdList(S, S.global) = IdList(P, P.global)
    /\ Direct(P) \/ \A g \in P.global : UpToDate(S, P, g)

\* As long as the old state needs no recheck its global files are those of the
\* program; while it does, nothing is known about any file (update, tryReuseOldState).
RecheckInv ==
    prog # None /\ oldState # None =>
        /\ SameEnvironment(oldState.snap, prog)
        /\ ~recheck => GlobalsMatch(oldState.snap, prog)
        /\ recheck => status = AllFiles("Unknown")

Written == disk' # disk /\ disk' \notin {None, Corrupt}

Current(S) ==
    \A f \in Files : S.res[f] # None =>
        f \in prog.files /\ S.res[f] = Lint(prog, f, S.res[f].config)

\* Every result in a newly written cache file is what linting the program at that
\* moment would give, also if save takes the shortcut of keeping the old state.
SaveIsCurrent == [][Written => Current(disk')]_vars

\* f has a result that linting the program now would give again.
Valid(f) ==
    /\ oldState # None
    /\ f \in prog.files
    /\ Candidate(oldState, f) # None
    /\ Candidate(oldState, f) = Lint(prog, f, Candidate(oldState, f).config)

\* Files something resolves to that are not part of the program, in some program with
\* the environment
Missing(env) == UNION {Indexed(P) \ P.files : P \in {Q \in Programs : Q.env = env}}

\* The ids that are kept over updates are those of the files as they are now, although
\* update forgets only that of the fixed file (line 118).
IdsTrue ==
    prog # None =>
        LET missing == Missing(prog.env)
        IN  \A f \in Files : contentIds[f] # None =>
               contentIds[f] = IF f \in missing THEN NA ELSE prog.ver[f]

\* The inductive invariant behind the safety properties.
IInv ==
    /\ TypeOK
    /\ StatesSound
    /\ FileResultsFitOldState
    /\ StatusesTrue
    /\ RecheckInv
    /\ IdsTrue
    /\ NoStaleReuse

\* Merging the current state into the old one "includes all results from old
\* state that are still up-to-date and all file results if they are still valid"
\* (comment in setFileResult): only a new result for the file replaces one. Saving keeps
\* all of them, too.
KeepsValidResults ==
    [][\A f \in Files : Valid(f) =>
          /\ Written => disk'.res[f] = Candidate(oldState, f)
          /\ prog # None /\ prog' = prog
               => \/ Candidate(oldState, f)' = Candidate(oldState, f)
                  \/ fileResults'[f] # None /\ fileResults'[f] # fileResults[f]]_vars

\* A saved state is used again in every environment that rules cannot tell from the one
\* it was saved in, also after the project has been moved to another directory.
MovedKeepsState ==
    [][prog = None /\ prog' # None /\ disk \notin {None, Corrupt}
          /\ Effect(disk.snap.env) = Effect(prog'.env)
        => oldState' = disk]_vars

\* A file whose inputs and configuration did not change is not linted again.
NoNeedlessLint ==
    [][reply' # None /\ reply' # reply /\ Valid(reply'.file)
          /\ OldResult(oldState, reply'.file) # None
          /\ OldResult(oldState, reply'.file) = Lint(prog, reply'.file, reply'.config)
        => reply'.result # None]_vars
=============================================================================
