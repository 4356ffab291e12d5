-------------------------- MODULE DependencyResolver --------------------------
(***************************************************************************)
(* DependencyResolverImpl: metadata and references of each file are        *)
(* collected when they are first needed and kept over updates of the       *)
(* program, except those of the updated file; what depends on the whole    *)
(* program is computed when asked for and dropped by an update.            *)
(***************************************************************************)
EXTENDS FreshResolver

VARIABLES
    fileMetadata,   \* a function of the files whose metadata was collected
    dependencies,   \* a function of the files whose references were collected
    state           \* what buildState returned, NotAsked if there is none

resolverVars == <<sources, texts, asked, fileMetadata, dependencies, state>>

\* resolveCachedResult
CachedMetadata ==
    [f \in SourceNames |-> IF f \in DOMAIN fileMetadata THEN fileMetadata[f] ELSE CollectFileMetadata(texts[f])]

CachedReferences ==
    [f \in SourceNames |-> IF f \in DOMAIN dependencies THEN dependencies[f] ELSE CollectExternalReferences(f, texts[f])]

\* The files whose references buildState looks at
Augmented == {x[2] : x \in Rest(sources, CachedMetadata)}

CachedState == IF state = NotAsked THEN BuildState(sources, CachedMetadata, CachedReferences) ELSE state

ResolverInit ==
    /\ FreshInit
    /\ fileMetadata = <<>>
    /\ dependencies = <<>>
    /\ state = NotAsked

\* Mutant: what was collected for the file before it was changed is kept.
UpdateKeepsReferences(f) ==
    /\ Update(f)
    /\ state' = NotAsked
    /\ fileMetadata' = [g \in DOMAIN fileMetadata \ {f} |-> fileMetadata[g]]
    /\ UNCHANGED dependencies

\* Mutant: the state is kept if the file itself has nothing to do with it.
UpdateKeepsState(f) ==
    /\ Update(f)
    /\ state' = IF state # NotAsked /\ f \notin state.affectsGlobalScope THEN state ELSE NotAsked
    /\ dependencies' = [g \in DOMAIN dependencies \ {f} |-> dependencies[g]]
    /\ fileMetadata' = [g \in DOMAIN fileMetadata \ {f} |-> fileMetadata[g]]

ResolverUpdate(f) ==
    /\ Update(f)
    /\ state' = NotAsked
    /\ dependencies' = [g \in DOMAIN dependencies \ {f} |-> dependencies[g]]
    /\ fileMetadata' = [g \in DOMAIN fileMetadata \ {f} |-> fileMetadata[g]]

\* Computing the state fills the other caches; it asks for the metadata of all files, also of those
\* that are declaration files.
Collect(also) ==
    LET metadata   == DOMAIN fileMetadata \union (IF state = NotAsked THEN sources ELSE {})
        references == DOMAIN dependencies \union (IF state = NotAsked THEN Augmented ELSE {}) \union also
    IN  /\ state' = CachedState
        /\ fileMetadata' = [f \in metadata |-> CachedMetadata[f]]
        /\ dependencies' = [f \in references |-> CachedReferences[f]]

CachedFilesAffectingGlobalScope ==
    /\ Collect({})
    /\ asked' = <<"global", CachedState.affectsGlobalScope>>
    /\ UNCHANGED <<sources, texts>>

CachedDependencies(f) ==
    /\ IF f \in sources
       THEN /\ Collect({f})
            /\ asked' = <<"dependencies", f, DependenciesOf(f, CachedState, CachedMetadata, CachedReferences)>>
       ELSE /\ asked' = <<"dependencies", f, <<>>>>
            /\ UNCHANGED <<fileMetadata, dependencies, state>>
    /\ UNCHANGED <<sources, texts>>

ResolverNext ==
    \/ \E f \in SourceNames : ResolverUpdate(f)
    \/ CachedFilesAffectingGlobalScope
    \/ \E f \in SourceNames : CachedDependencies(f)

ResolverSpec == ResolverInit /\ [][ResolverNext]_resolverVars

-----------------------------------------------------------------------------
\* What was collected before an update of other files is what would be collected now. While
\* there is a state, it is that of the current program and has been built from the metadata of all its files,
\* which line 134 (the ! after fileMetadata.get) relies on.
ResolverCachesFresh ==
    /\ \A f \in DOMAIN fileMetadata : fileMetadata[f] = Metadata[f]
    /\ \A f \in DOMAIN dependencies : dependencies[f] = References[f]
    /\ state # NotAsked => /\ state = ProgramWide
                           /\ sources \subseteq DOMAIN fileMetadata

\* Answers are those of a resolver that was just created for the program.
ImplementsFreshResolver == FreshSpec
=============================================================================
