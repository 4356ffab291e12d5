---------------------------- MODULE ProgramGraph ----------------------------
(***************************************************************************)
(* What the lint cache sees of a TypeScript program: the content ids of    *)
(* its files, their resolved dependencies and the files that affect the    *)
(* global scope (packages/wotan/src/services/program-state.ts and          *)
(* dependency-resolver.ts); and what the walk over the dependencies of a   *)
(* file, fileDependenciesUpToDate, computes.                               *)
(***************************************************************************)
EXTENDS Naturals, FiniteSets, Sequences

CONSTANTS
    Files,      \* names of all files the project consists of or resolves to
    Versions,   \* content ids: hashes of what a file contains
    Specs,      \* keys of a dependency map: module specifiers and '\0'
    Envs,       \* TypeScript version, project directory and compilerOptions
    Programs,   \* the programs TypeScript may create for the project
    Null,       \* a specifier that does not resolve
    NA          \* content id of a file that is not part of the program, 'N/A'

(***************************************************************************)
(* A program: ver[f] is what f contains, id[f] the id computeContentId     *)
(* gives it; deps[f][k] is the set of files specifier k of file f depends  *)
(* on, Null if it resolves to nothing, {} if f has no such specifier. Only *)
(* files of the program have an id and dependencies                        *)
(* (dependency-resolver.ts:106), only those can affect the global scope    *)
(* (dependency-resolver.ts:56-59).                                         *)
(***************************************************************************)
ASSUME ProgramsAssumption ==
    /\ Programs \subseteq
         [env : Envs, files : SUBSET Files, ver : [Files -> Versions],
          id : [Files -> Versions \union {NA}],
          deps : [Files -> [Specs -> {Null} \union SUBSET Files]],
          global : SUBSET Files]
    /\ \A P \in Programs :
         /\ P.global \subseteq P.files
         /\ \A f \in Files : P.id[f] = IF f \in P.files THEN P.ver[f] ELSE NA
         /\ \A f \in Files \ P.files, k \in Specs : P.deps[f][k] = {}

ASSUME IdAssumption == NA \notin Versions

ASSUME FilesAssumption == IsFiniteSet(Files) /\ IsFiniteSet(Specs)

-----------------------------------------------------------------------------
(* The environment of a program: env.ts is the version of TypeScript,      *)
(* env.project the directory of the project and env.options maps the names *)
(* of the compilerOptions that are present to their values. Absolute paths *)
(* are sequences of names.                                                 *)

\* How an option is hashed, for one or two options of each kind. Other options than
\* those in the table are left out like those to ignore.
compilerOptionKinds ==
    [strict |-> "Value", assumeChangesOnlyAffectDirectDependencies |-> "Value",
     baseUrl |-> "Path", rootDirs |-> "PathArray", tsBuildInfoFile |-> "Ignore"]

\* path.relative: leave what the paths do not share, then descend
Relative(dir, path) ==
    LET shared == Cardinality({n \in 1..Len(dir) :
                      n <= Len(path) /\ \A k \in 1..n : dir[k] = path[k]})
    IN  [up |-> Len(dir) - shared, down |-> SubSeq(path, shared + 1, Len(path))]

RelativePaths(dir, paths) == [n \in DOMAIN paths |-> Relative(dir, paths[n])]

\* Mutant: paths are hashed as they are.
HashWithAbsolutePaths(e) ==
    [o \in {x \in DOMAIN e.options \cap DOMAIN compilerOptionKinds : compilerOptionKinds[x] # "Ignore"} |->
        e.options[o]]

\* computeCompilerOptionsHash: different options have different hashes.
OptionsHash(e) ==
    [o \in {x \in DOMAIN e.options \cap DOMAIN compilerOptionKinds : compilerOptionKinds[x] # "Ignore"} |->
        CASE compilerOptionKinds[o] = "Path" -> Relative(e.project, e.options[o])
          [] compilerOptionKinds[o] = "PathArray" -> RelativePaths(e.project, e.options[o])
          [] OTHER -> e.options[o]]

\* The value of an option, none if it is not set
Option(e, o) == {e.options[x] : x \in {o} \cap DOMAIN e.options}

\* What a rule can find out about the environment. It knows paths by their position
\* relative to the project, like the files it looks at.
Effect(e) ==
    [ts |-> e.ts,
     strict |-> Option(e, "strict"),
     direct |-> Option(e, "assumeChangesOnlyAffectDirectDependencies"),
     baseUrl |-> {Relative(e.project, path) : path \in Option(e, "baseUrl")},
     rootDirs |-> {RelativePaths(e.project, paths) : paths \in Option(e, "rootDirs")}]

\* this.assumeChangesOnlyAffectDirectDependencies
Direct(P) == TRUE \in Option(P.env, "assumeChangesOnlyAffectDirectDependencies")

SameEnvironment(S, P) == S.env.ts = P.env.ts /\ OptionsHash(S.env) = OptionsHash(P.env)

-----------------------------------------------------------------------------
(* What a program looks like to the cache and to a rule                    *)

Resolved(P, f, k) == IF P.deps[f][k] = Null THEN {} ELSE P.deps[f][k]

Targets(P, f) == UNION {Resolved(P, f, k) : k \in Specs}

\* The content id of a file: in a program djb2 of its text, in a snapshot of an old
\* state the id it was saved with.
Id(P, f) == P.id[f]

\* A list of files sorted by content id, as seen by a comparison of the ids.
IdList(P, D) ==
    [x \in {Id(P, g) : g \in D} |-> Cardinality({g \in D : Id(P, g) = x})]

DepIds(P, f) == [k \in Specs |-> <<P.deps[f][k] = Null, IdList(P, Resolved(P, f, k))>>]

\* The dependencies the walk follows
Edges(P) == [f \in Files |-> IF Direct(P) THEN {} ELSE Targets(P, f)]

Closed(E, X) == \A h \in X : E[h] \subseteq X

\* No closed set with f leaves g out.
Reach(E, f) == {g \in Files : \A X \in SUBSET (Files \ {g}) : f \in X => ~Closed(E, X)}

\* The files whose text and resolved imports a rule can take into account.
Scope(P, f) ==
    IF Direct(P) THEN {f}
    ELSE P.files \cap UNION {Reach(Edges(P), g) : g \in {f} \union P.global}

\* Everything the findings in f can depend on.
View(P, f) ==
    [env |-> Effect(P.env), self |-> Id(P, f),
     global |-> {Id(P, g) : g \in P.global},
     scope |-> {<<Id(P, g), DepIds(P, g)>> : g \in Scope(P, f)}]

-----------------------------------------------------------------------------
(* fileDependenciesUpToDate: S is the snapshot of the old state, P the     *)
(* program, st the statuses known so far                                   *)

DependencyState == {"Unknown", "Outdated", "Ok"}

SameDeps(S, P, f) == DepIds(S, f) = DepIds(P, f)

\* The walk descends into files it knows nothing about and ends at the first one
\* whose dependencies changed.
OpenEdges(S, P, st) ==
    [f \in Files |-> IF st[f] = "Unknown" /\ SameDeps(S, P, f) THEN Edges(S)[f] ELSE {}]

\* Mutant: a file nothing is known about counts as outdated.
WalkSucceedsIfKnown(S, P, st, f) == st[f] = "Ok"

WalkSucceeds(S, P, st, f) ==
    \A g \in Reach(OpenEdges(S, P, st), f) :
        /\ st[g] # "Outdated"
        /\ st[g] = "Unknown" /\ g \in S.files => SameDeps(S, P, g)

Visited(S, P, st, f) == {g \in Reach(OpenEdges(S, P, st), f) : st[g] = "Unknown"}

Mark(S, P, st, M) ==
    [g \in Files |-> IF g \notin M THEN st[g]
                     ELSE IF WalkSucceeds(S, P, st, g) THEN "Ok" ELSE "Outdated"]

\* A successful walk decides every file it visits, a failing one at least the
\* file it started from and maybe more.
AfterWalks(S, P, st, R) ==
    LET sure == {f \in R : st[f] = "Unknown"}
                  \union UNION {Visited(S, P, st, f) : f \in {g \in R : WalkSucceeds(S, P, st, g)}}
        maybe == UNION {Visited(S, P, st, f) : f \in R}
    IN  {Mark(S, P, st, sure \union M) : M \in SUBSET maybe}

\* What the walk is to find out, without what is known already.
UpToDate(S, P, f) == \A g \in S.files \cap Reach(Edges(S), f) : SameDeps(S, P, g)
=============================================================================
