---------------------------- MODULE FreshResolver ----------------------------
(***************************************************************************)
(* What callers of DependencyResolver rely on: every answer is computed    *)
(* from the current program, as if nothing was ever cached. The order of   *)
(* files in an answer is left out.                                         *)
(*                                                                         *)
(* A source file is a record: the names it imports, the names of the       *)
(* modules it declares or augments, whether it is a module itself, and the *)
(* kinds of its other statements. How a name resolves does not change:     *)
(* fixes create no files.                                                  *)
(***************************************************************************)
EXTENDS Integers, FiniteSets

CONSTANTS
    SourceNames,    \* files that may be in the program
    ModuleNames,    \* names that are imported or declared
    Patterns,       \* those with a wildcard
    PrefixLength,   \* of each pattern: the position of its wildcard
    Matches,        \* of each pattern: the names that start and end like it
    ResolvedName,   \* what resolveModuleNames returns for a name in a file, or Unresolved
    ProjectOf,      \* the project reference whose output a file is, or Unresolved
    OutFileOf,      \* the first source file of a reference with outFile, or Unresolved
    SourceOf,       \* the source of the output of a reference
    RedirectToSource,   \* useSourceOfProjectReferenceRedirect
    TextsOf,        \* what each file may contain
    Unresolved, Self, NotAsked

Kinds == {"global", "export", "nested", "other"}

ASSUME ResolverAssumption ==
    /\ Patterns \subseteq ModuleNames
    /\ \A f \in SourceNames :
          TextsOf[f] \subseteq [imports : SUBSET ModuleNames, ambient : SUBSET ModuleNames,
                                isModule : BOOLEAN, kinds : SUBSET Kinds]

VARIABLES
    sources,        \* the files of the program
    texts,          \* what each file contains
    asked           \* the last question and its answer

-----------------------------------------------------------------------------
(* What can be told from a single file.                                    *)

AffectsGlobalScope(t) ==
    \/ t.kinds \intersect {"global", "export"} # {}
    \/ ~t.isModule /\ t.kinds \intersect {"nested", "other"} # {}

CollectFileMetadata(t) ==
    [affectsGlobalScope |-> AffectsGlobalScope(t), ambientModules |-> t.ambient, isExternalModule |-> t.isModule]

RedirectedTo(file) ==
    IF ~RedirectToSource \/ ProjectOf[file] = Unresolved THEN file
    ELSE IF OutFileOf[ProjectOf[file]] # Unresolved THEN OutFileOf[ProjectOf[file]]
    ELSE SourceOf[file]

CollectExternalReferences(f, t) ==
    [m \in t.imports \union (IF t.isModule THEN t.ambient ELSE {}) |->
        IF ResolvedName[f][m] = Unresolved THEN Unresolved ELSE RedirectedTo(ResolvedName[f][m])]

-----------------------------------------------------------------------------
(* What depends on the whole program, given all metadata and references.   *)

\* The files declaring or augmenting a module in the files of a program
Declaring(files, meta, m) == {f \in files : m \in meta[f].ambientModules /\ ~meta[f].isExternalModule}
Augmenting(files, meta, m) == {f \in files : m \in meta[f].ambientModules /\ meta[f].isExternalModule}

Declared(files, meta) == {m \in ModuleNames : Declaring(files, meta, m) # {}}

BestMatchingPattern(m, patterns) ==
    LET matching == {p \in patterns : m \in Matches[p]}
    IN  IF matching = {} THEN Unresolved
        ELSE CHOOSE p \in matching : \A q \in matching : PrefixLength[q] <= PrefixLength[p]

\* Augmentations that do not apply to an ambient module: pairs of a name and a file
Rest(files, meta) ==
    {x \in ModuleNames \X files : /\ x[2] \in Augmenting(files, meta, x[1])
                                  /\ x[1] \in Declared(files, meta) => x[1] \in Patterns}

BuildState(files, meta, refs) ==
    LET patterns == Declared(files, meta) \intersect Patterns
        rest     == Rest(files, meta)
        resolved == {x \in rest : refs[x[2]][x[1]] # Unresolved}
    IN  [affectsGlobalScope    |-> {f \in files : meta[f].affectsGlobalScope},
         ambientModules        |-> [m \in Declared(files, meta) \ Patterns |->
                                       Declaring(files, meta, m) \union Augmenting(files, meta, m)],
         moduleAugmentations   |-> [f \in {refs[x[2]][x[1]] : x \in resolved} |->
                                       {x[2] : x \in {x \in resolved : refs[x[2]][x[1]] = f}}],
         patternAmbientModules |-> [p \in patterns |->
                                       Declaring(files, meta, p)
                                       \union {x[2] : x \in {x \in rest \ resolved :
                                                               BestMatchingPattern(x[1], patterns) = p}}]]

\* getDependencies for a file of the program
DependenciesOf(f, s, meta, refs) ==
    LET augments(g) == IF g \in DOMAIN s.moduleAugmentations THEN s.moduleAugmentations[g] ELSE {}
        pattern(m)  == BestMatchingPattern(m, DOMAIN s.patternAmbientModules)
        of(m)       == IF m \in DOMAIN s.ambientModules THEN s.ambientModules[m]
                       ELSE IF refs[f][m] # Unresolved THEN {refs[f][m]} \union augments(refs[f][m])
                       ELSE IF pattern(m) # Unresolved THEN s.patternAmbientModules[pattern(m)]
                       ELSE Unresolved
        own         == IF meta[f].isExternalModule THEN {} ELSE meta[f].ambientModules
    IN  [m \in (IF augments(f) = {} THEN {} ELSE {Self}) \union DOMAIN refs[f] \union own |->
            IF m = Self THEN augments(f)
            ELSE IF m \notin own THEN of(m)
            ELSE IF m \in Patterns THEN s.patternAmbientModules[m] ELSE s.ambientModules[m]]

-----------------------------------------------------------------------------
Metadata == [f \in SourceNames |-> CollectFileMetadata(texts[f])]
References == [f \in SourceNames |-> CollectExternalReferences(f, texts[f])]
ProgramWide == BuildState(sources, Metadata, References)

FreshInit ==
    /\ sources \in SUBSET SourceNames
    /\ texts \in {t \in [SourceNames -> UNION {TextsOf[f] : f \in SourceNames}] :
                    \A f \in SourceNames : t[f] \in TextsOf[f]}
    /\ asked = NotAsked

\* A fix of a file, by which others may enter or leave the program
Update(f) ==
    /\ \E t \in TextsOf[f] : texts' = [texts EXCEPT ![f] = t]
    /\ sources' \in SUBSET SourceNames
    /\ f \in sources \intersect sources'
    /\ asked' = NotAsked

GetFilesAffectingGlobalScope ==
    /\ asked' = <<"global", ProgramWide.affectsGlobalScope>>
    /\ UNCHANGED <<sources, texts>>

GetDependencies(f) ==
    /\ asked' = <<"dependencies", f, IF f \in sources THEN DependenciesOf(f, ProgramWide, Metadata, References) ELSE <<>>>>
    /\ UNCHANGED <<sources, texts>>

FreshNext ==
    \/ \E f \in SourceNames : Update(f)
    \/ GetFilesAffectingGlobalScope
    \/ \E f \in SourceNames : GetDependencies(f)

FreshSpec == FreshInit /\ [][FreshNext]_<<sources, texts, asked>>
=============================================================================
