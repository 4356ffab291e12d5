------------------------- MODULE ProgramStateProofs -------------------------
(***************************************************************************)
(* Proofs about ProgramState, for every set of files, programs,            *)
(* configurations and environments.                                        *)
(***************************************************************************)
EXTENDS CompletePrograms, ProgramGraphProofs, TLAPS

-----------------------------------------------------------------------------
(* Files with the same dependencies lead to the same files                 *)

\* Ids tell files apart.
LEMMA SameId ==
    ASSUME NEW S \in Programs, NEW P \in Programs, NEW f \in Files, NEW g \in Files,
           f \in P.files, Id(S, g) = Id(P, f)
    PROVE  g = f /\ g \in S.files /\ Id(S, f) = Id(P, f)
<1>0. P.ver \in [Files -> Versions] /\ Id(P, f) = P.ver[f]
  BY ProgramIds, ProgramFields
<1>1. Id(P, f) = P.ver[f] /\ Id(P, f) \in Versions
  BY <1>0
<1>2. g \in S.files /\ S.ver[g] = P.ver[f]
  BY <1>1, ProgramIds, IdAssumption
<1> QED BY <1>1, <1>2, DistinctContentAssumption

\* If a file's dependencies have the same ids in both programs, a dependency that is
\* part of one program is a dependency, with the same id, in the other.
LEMMA StepTransfer ==
    ASSUME NEW S \in Programs, NEW P \in Programs, NEW h \in Files,
           SameDeps(S, P, h), NEW t \in Targets(P, h), t \in P.files
    PROVE  t \in Targets(S, h) /\ t \in S.files /\ Id(S, t) = Id(P, t)
<1>1. PICK k \in Specs : t \in Resolved(P, h, k)
  BY DEF Targets
<1>2. {Id(S, g) : g \in Resolved(S, h, k)} = {Id(P, g) : g \in Resolved(P, h, k)}
  <2>1. DepIds(S, h)[k] = DepIds(P, h)[k]
    BY DEF SameDeps
  <2>2. IdList(S, Resolved(S, h, k)) = IdList(P, Resolved(P, h, k))
    BY <2>1 DEF DepIds
  <2> QED BY <2>2, SameIds
<1>3. PICK g \in Resolved(S, h, k) : Id(S, g) = Id(P, t)
  BY <1>1, <1>2
<1>4. g \in Targets(S, h)
  BY <1>3 DEF Targets
<1>5. g \in Files /\ t \in Files
  BY <1>4, ProgramFields
<1> QED BY <1>3, <1>4, <1>5, SameId

\* An up-to-date file leads to the same files with the same ids in both programs.
LEMMA ReachTransfer ==
    ASSUME NEW S \in Programs, NEW P \in Programs, NEW f \in Files,
           Direct(S) <=> Direct(P), f \in S.files, Id(S, f) = Id(P, f), UpToDate(S, P, f),
           NEW g \in P.files \cap Reach(Edges(P), f)
    PROVE  g \in S.files \cap Reach(Edges(S), f) /\ Id(S, g) = Id(P, g)
<1> DEFINE X == {h \in Files : h \in P.files =>
                    h \in S.files \cap Reach(Edges(S), f) /\ Id(S, h) = Id(P, h)}
<1>1. f \in X
  BY ReachRefl
<1>2. Closed(Edges(P), X)
  <2> SUFFICES ASSUME NEW h \in X, NEW t \in Edges(P)[h]
               PROVE  t \in X
    BY DEF Closed
  <2>1. t \in Targets(P, h) /\ ~Direct(P) /\ h \in P.files /\ t \in Files
    BY ProgramFields DEF Edges
  <2>2. h \in S.files \cap Reach(Edges(S), f)
    BY <2>1
  <2>3. SameDeps(S, P, h)
    BY <2>2 DEF UpToDate
  <2>4. CASE t \in P.files
    <3>1. t \in Targets(S, h) /\ t \in S.files /\ Id(S, t) = Id(P, t)
      BY <2>1, <2>3, <2>4, StepTransfer
    <3>2. t \in Edges(S)[h]
      BY <3>1, <2>1 DEF Edges
    <3>3. t \in Reach(Edges(S), f)
      BY <3>2, <2>2, ReachClosed, ProgramFields DEF Closed
    <3> QED BY <3>1, <3>3, <2>1
  <2>5. CASE t \notin P.files
    BY <2>5, <2>1
  <2> QED BY <2>4, <2>5
<1>3. Reach(Edges(P), f) \subseteq X
  BY <1>1, <1>2, ReachLeast
<1> QED BY <1>3

\* Programs whose global files have the same ids have the same global files.
LEMMA SameGlobalFiles ==
    ASSUME NEW S \in Programs, NEW P \in Programs,
           {Id(S, g) : g \in S.global} = {Id(P, g) : g \in P.global}
    PROVE  S.global = P.global /\ \A g \in P.global : Id(S, g) = Id(P, g)
<1>1. ASSUME NEW A \in Programs, NEW B \in Programs, NEW g \in A.global,
             \A h \in A.global : \E x \in B.global : Id(B, x) = Id(A, h)
      PROVE  g \in B.global /\ Id(B, g) = Id(A, g)
  <2>1. PICK x \in B.global : Id(B, x) = Id(A, g)
    BY <1>1
  <2>2. x \in Files /\ g \in Files /\ g \in A.files
    BY ProgramFields
  <2> QED BY <2>1, <2>2, SameId
<1>2. \A h \in S.global : \E x \in P.global : Id(P, x) = Id(S, h)
  OBVIOUS
<1>3. \A h \in P.global : \E x \in S.global : Id(S, x) = Id(P, h)
  OBVIOUS
<1> QED BY <1>1, <1>2, <1>3

\* The comparison of the sorted ids of the global files compares the files.
LEMMA SameGlobals ==
    ASSUME NEW S \in Programs, NEW P \in Programs,
           IdList(S, S.global) = IdList(P, P.global)
    PROVE  S.global = P.global /\ \A g \in P.global : Id(S, g) = Id(P, g)
  BY SameIds, SameGlobalFiles

\* A file that is up to date, among up-to-date global files, is linted with the same
\* result in both programs.
LEMMA SameView ==
    ASSUME NEW S \in Programs, NEW P \in Programs, NEW f \in P.files,
           GlobalsMatch(S, P), Id(S, f) = Id(P, f), UpToDate(S, P, f)
    PROVE  View(S, f) = View(P, f) /\ f \in S.files
<1>0. f \in Files /\ (Direct(S) <=> Direct(P)) /\ f \in S.files /\ Effect(S.env) = Effect(P.env)
  BY SameId, SameEffect, ProgramFields DEF GlobalsMatch
<1>2. {Id(S, g) : g \in S.global} = {Id(P, g) : g \in P.global}
  BY SameIds DEF GlobalsMatch
<1>5. S.global = P.global /\ \A g \in P.global : Id(S, g) = Id(P, g)
  BY SameGlobals DEF GlobalsMatch
<1> DEFINE Scopes(Q) == {<<Id(Q, g), DepIds(Q, g)>> : g \in Scope(Q, f)}
<1>6. Scopes(S) = Scopes(P)
  <2>1. CASE Direct(P)
    <3>1. Scope(S, f) = {f} /\ Scope(P, f) = {f}
      BY <2>1, <1>0 DEF Scope
    <3>2. SameDeps(S, P, f)
      BY <1>0, ReachRefl DEF UpToDate
    <3> QED BY <3>1, <3>2 DEF SameDeps
  <2>2. CASE ~Direct(P)
    <3> DEFINE R == {f} \union P.global
    <3>1. \A r \in R : /\ r \in Files /\ r \in S.files /\ r \in P.files
                       /\ Id(S, r) = Id(P, r) /\ UpToDate(S, P, r)
      BY <1>0, <1>5, <2>2, ProgramFields DEF GlobalsMatch
    <3>2. ASSUME NEW r \in R
          PROVE  /\ S.files \cap Reach(Edges(S), r) = P.files \cap Reach(Edges(P), r)
                 /\ \A g \in P.files \cap Reach(Edges(P), r) :
                       Id(S, g) = Id(P, g) /\ DepIds(S, g) = DepIds(P, g)
      <4>1. \A g \in P.files \cap Reach(Edges(P), r) :
                g \in S.files \cap Reach(Edges(S), r) /\ Id(S, g) = Id(P, g)
        BY <1>0, <3>1, ReachTransfer
      <4>2. \A g \in P.files \cap Reach(Edges(P), r) : DepIds(S, g) = DepIds(P, g)
        BY <4>1, <3>1 DEF UpToDate, SameDeps
      <4>3. UpToDate(P, S, r)
        BY <4>2 DEF UpToDate, SameDeps
      <4>4. \A g \in S.files \cap Reach(Edges(S), r) : g \in P.files \cap Reach(Edges(P), r)
        BY <1>0, <3>1, <4>3, ReachTransfer
      <4> QED BY <4>1, <4>2, <4>4
    <3>3. /\ Scope(S, f) = UNION {S.files \cap Reach(Edges(S), r) : r \in R}
          /\ Scope(P, f) = UNION {P.files \cap Reach(Edges(P), r) : r \in R}
      BY <1>0, <1>5, <2>2 DEF Scope
    <3>4. Scope(S, f) = Scope(P, f)
      BY <3>2, <3>3
    <3>5. \A g \in Scope(P, f) : Id(S, g) = Id(P, g) /\ DepIds(S, g) = DepIds(P, g)
      BY <3>2, <3>3
    <3> QED BY <3>4, <3>5
  <2> QED BY <2>1, <2>2
<1> QED BY <1>0, <1>2, <1>6 DEF View

\* The opposite direction: if a file is linted with the same result, then it and the
\* global files are up to date.
LEMMA ViewDecides ==
    ASSUME NEW S \in Programs, NEW P \in Programs, NEW f \in P.files, f \in S.files,
           SameEnvironment(S, P), View(S, f) = View(P, f)
    PROVE  Id(S, f) = Id(P, f) /\ UpToDate(S, P, f) /\ GlobalsMatch(S, P)
<1> DEFINE Scopes(Q) == {<<Id(Q, g), DepIds(Q, g)>> : g \in Scope(Q, f)}
<1>1. /\ Id(S, f) = Id(P, f)
      /\ {Id(S, g) : g \in S.global} = {Id(P, g) : g \in P.global}
      /\ Scopes(S) = Scopes(P)
  BY DEF View
<1>2. f \in Files /\ (Direct(S) <=> Direct(P))
  BY ProgramFields, SameEffect
<1>3. Scope(P, f) \subseteq P.files /\ P.files \subseteq Files /\ S.files \subseteq Files
  BY ProgramFields DEF Scope
<1>4. ASSUME NEW h \in Scope(S, f), h \in S.files
      PROVE  SameDeps(S, P, h)
  <2>1. <<Id(S, h), DepIds(S, h)>> \in Scopes(P)
    BY <1>1
  <2>2. PICK g \in Scope(P, f) : Id(S, h) = Id(P, g) /\ DepIds(S, h) = DepIds(P, g)
    BY <2>1
  <2>3. h = g
    BY <1>3, <1>4, <2>2, SameId
  <2> QED BY <2>2, <2>3 DEF SameDeps
<1>5. S.global = P.global /\ \A g \in P.global : Id(S, g) = Id(P, g)
  BY <1>1, SameGlobalFiles
<1>6. IdList(S, S.global) = IdList(P, P.global)
  BY <1>5 DEF IdList
<1>7. CASE Direct(P)
  <2>1. Scope(S, f) = {f}
    BY <1>2, <1>7 DEF Scope
  <2>2. Reach(Edges(S), f) \subseteq {f}
    <3>1. Closed(Edges(S), {f})
      BY <1>2, <1>7 DEF Closed, Edges
    <3> QED BY <1>2, <3>1, ReachLeast
  <2>3. UpToDate(S, P, f)
    BY <1>4, <2>1, <2>2 DEF UpToDate
  <2> QED BY <1>1, <1>6, <1>7, <2>3 DEF GlobalsMatch
<1>8. CASE ~Direct(P)
  <2>1. Scope(S, f) = S.files \cap UNION {Reach(Edges(S), g) : g \in {f} \union S.global}
    BY <1>2, <1>8 DEF Scope
  <2>2. ASSUME NEW g \in {f} \union S.global
        PROVE  UpToDate(S, P, g)
    BY <1>4, <2>1 DEF UpToDate
  <2> QED BY <1>1, <1>5, <1>6, <2>2 DEF GlobalsMatch
<1> QED BY <1>7, <1>8

-----------------------------------------------------------------------------
(* Walks                                                                   *)

\* With true statuses the walk answers whether the file is up to date.
LEMMA WalkCorrect ==
    ASSUME NEW S \in Programs, NEW P \in Programs, NEW st \in [Files -> DependencyState],
           StatusesMatch(S, P, st), NEW f \in Files
    PROVE  WalkSucceeds(S, P, st, f) <=> UpToDate(S, P, f)
BY WalkDecides DEF StatusesMatch

\* Every file a walk visits has the content it had in the old state.
LEMMA VisitedSameId ==
    ASSUME NEW S \in Programs, NEW P \in Programs, NEW st, NEW f \in Files,
           Id(S, f) = Id(P, f), NEW g \in Reach(OpenEdges(S, P, st), f), g \in S.files
    PROVE  Id(S, g) = Id(P, g)
<1> DEFINE X == {h \in Files : h \in S.files => Id(S, h) = Id(P, h)}
<1>1. f \in X
  OBVIOUS
<1>2. Closed(OpenEdges(S, P, st), X)
  <2> SUFFICES ASSUME NEW h \in X, NEW t \in OpenEdges(S, P, st)[h], t \in S.files
               PROVE  t \in Files /\ Id(S, t) = Id(P, t)
    BY OpenEdgesType DEF Closed
  <2>1. SameDeps(P, S, h) /\ t \in Targets(S, h)
    BY DEF OpenEdges, Edges, SameDeps
  <2>2. t \in Files
    BY OpenEdgesType
  <2> QED BY <2>1, <2>2, StepTransfer
<1>3. Reach(OpenEdges(S, P, st), f) \subseteq X
  BY <1>1, <1>2, ReachLeast
<1> QED BY <1>3

\* Marking files a walk from f visited keeps the statuses true.
LEMMA MarkTrue ==
    ASSUME NEW S \in Programs, NEW P \in Programs, NEW st \in [Files -> DependencyState],
           StatusesMatch(S, P, st), NEW M,
           \A g \in Files \cap M : g \in S.files => Id(S, g) = Id(P, g)
    PROVE  /\ Mark(S, P, st, M) \in [Files -> DependencyState]
           /\ StatusesMatch(S, P, Mark(S, P, st, M))
<1>1. Mark(S, P, st, M) \in [Files -> DependencyState]
  BY DEF Mark, DependencyState
<1>2. ASSUME NEW f \in Files
      PROVE  /\ Mark(S, P, st, M)[f] = "Ok" =>
                   UpToDate(S, P, f) /\ (f \in S.files => Id(S, f) = Id(P, f))
             /\ Mark(S, P, st, M)[f] = "Outdated" => ~UpToDate(S, P, f)
  <2>1. CASE f \notin M
    <3>1. Mark(S, P, st, M)[f] = st[f]
      BY <2>1 DEF Mark
    <3> QED BY <3>1 DEF StatusesMatch
  <2>2. CASE f \in M
    <3>1. WalkSucceeds(S, P, st, f) <=> UpToDate(S, P, f)
      BY WalkCorrect
    <3>2. Mark(S, P, st, M)[f] = IF WalkSucceeds(S, P, st, f) THEN "Ok" ELSE "Outdated"
      BY <2>2 DEF Mark
    <3> QED BY <2>2, <3>1, <3>2
  <2> QED BY <2>1, <2>2
<1> QED BY <1>1, <1>2 DEF StatusesMatch

\* So do the walks of one call.
LEMMA AfterWalksTrue ==
    ASSUME NEW S \in Programs, NEW P \in Programs, NEW st \in [Files -> DependencyState],
           StatusesMatch(S, P, st), NEW R \in SUBSET Files,
           \A f \in R : Id(S, f) = Id(P, f),
           NEW st2 \in AfterWalks(S, P, st, R)
    PROVE  st2 \in [Files -> DependencyState] /\ StatusesMatch(S, P, st2)
<1> DEFINE sure == {f \in R : st[f] = "Unknown"}
             \union UNION {Visited(S, P, st, f) : f \in {g \in R : WalkSucceeds(S, P, st, g)}}
           maybe == UNION {Visited(S, P, st, f) : f \in R}
<1>1. PICK M \in SUBSET maybe : st2 = Mark(S, P, st, sure \union M)
  BY DEF AfterWalks
<1>2. \A g \in sure \union M : g \in R \/ \E f \in R : g \in Visited(S, P, st, f)
  BY <1>1
<1>3. \A g \in Files \cap (sure \union M) : g \in S.files => Id(S, g) = Id(P, g)
  BY <1>2, VisitedSameId DEF Visited
<1> QED BY <1>1, <1>3, MarkTrue

-----------------------------------------------------------------------------
(* What the operations compute, under the invariant                        *)

\* Every result of a program is an entry.
LEMMA LintType ==
    ASSUME NEW P \in Programs, NEW f \in Files, NEW c \in Configs
    PROVE  Lint(P, f, c) \in Entries /\ Lint(P, f, c).config = c
  BY DEF Lint, Entries

\* The results known for a file are entries.
LEMMA CandidateType ==
    ASSUME TypeOK, NEW S \in {None} \union States, NEW f \in Files
    PROVE  /\ Candidate(S, f) \in {None} \union Entries
           /\ OldResult(S, f) \in {None} \union Entries
<1>1. fileResults[f] \in {None} \union Entries
  BY DEF TypeOK, Results
<1>2. S # None => S.res[f] \in {None} \union Entries
  BY DEF States, Results
<1> QED BY <1>1, <1>2 DEF Candidate, OldResult

\* What the program resolves to without being a part of it is missing.
LEMMA IndexedFiles ==
    ASSUME NEW P \in Programs
    PROVE  /\ Indexed(P) \in SUBSET Files
           /\ P.files \subseteq Indexed(P)
           /\ \A f \in Files : Targets(P, f) \subseteq Indexed(P)
           /\ \A f \in Indexed(P) : f \in P.files <=> f \notin Missing(P.env)
<1>0. /\ P.files \in SUBSET Files
      /\ \A f \in Files : Targets(P, f) \in SUBSET Files
      /\ \A f \in Files \ P.files : Targets(P, f) = {}
  BY ProgramFields
<1>1. /\ Indexed(P) \in SUBSET Files
      /\ P.files \subseteq Indexed(P)
      /\ \A f \in Files : Targets(P, f) \subseteq Indexed(P)
  <2> HIDE DEF Targets
  <2> QED BY <1>0 DEF Indexed
<1>2. \A f \in Indexed(P) : f \notin P.files => f \in Missing(P.env)
  BY DEF Missing
<1> QED BY <1>1, <1>2, SourcesAssumption

\* The ids the cache knows are those of the program, so it sees the program as it is.
LEMMA SeenIsProg ==
    ASSUME IInv, prog # None
    PROVE  /\ prog \in Programs
           /\ \A f \in Indexed(prog) : ContentId(f) = Id(prog, f)
           /\ Seen = prog
<1>1. prog \in Programs
  BY DEF IInv, TypeOK
<1>2. ASSUME NEW f \in Indexed(prog)
      PROVE  ContentId(f) = Id(prog, f)
  <2>1. f \in Files /\ (f \in prog.files <=> f \notin Missing(prog.env))
    BY <1>1, IndexedFiles
  <2>2. Id(prog, f) = IF f \in prog.files THEN prog.ver[f] ELSE NA
    BY <1>1, <2>1, ProgramIds
  <2>3. contentIds[f] # None => contentIds[f] = Id(prog, f)
    BY <2>1, <2>2 DEF IInv, IdsTrue
  <2> QED BY <2>3 DEF ContentId
<1>3. prog.id \in [Files -> Versions \union {NA}]
  BY <1>1, ProgramIds
<1>4. [f \in Files |-> IF f \in Indexed(prog) THEN ContentId(f) ELSE prog.id[f]] = prog.id
  BY <1>2, <1>3 DEF Id
<1>5. Seen = [prog EXCEPT !.id = prog.id]
  BY <1>4 DEF Seen
<1>6. [prog EXCEPT !.id = prog.id] = prog
  BY <1>1, ProgramsAssumption
<1> QED BY <1>1, <1>2, <1>5, <1>6

\* Ids that are remembered are true.
LEMMA RememberTrue ==
    ASSUME IInv, prog # None, prog' = prog, NEW F \in SUBSET Indexed(prog), contentIds' = Remember(F)
    PROVE  /\ contentIds' \in [Files -> {None, NA} \union Versions]
           /\ IdsTrue'
<1>1. contentIds \in [Files -> {None, NA} \union Versions]
  BY DEF IInv, TypeOK
<1>2. prog \in Programs /\ Indexed(prog) \in SUBSET Files
  BY SeenIsProg, IndexedFiles
<1>3. ASSUME NEW f \in F
      PROVE  /\ ContentId(f) = IF f \in Missing(prog.env) THEN NA ELSE prog.ver[f]
             /\ ContentId(f) \in {NA} \union Versions
  <2>1. ContentId(f) = IF f \in prog.files THEN prog.ver[f] ELSE NA
    BY <1>2, SeenIsProg, ProgramIds
  <2>2. f \in prog.files <=> f \notin Missing(prog.env)
    BY <1>2, IndexedFiles
  <2>3. prog.ver[f] \in Versions
    BY <1>2, ProgramFields
  <2> QED BY <2>1, <2>2, <2>3
<1>4. ASSUME NEW f \in Files
      PROVE  /\ contentIds'[f] = IF f \in F THEN ContentId(f) ELSE contentIds[f]
             /\ contentIds'[f] \in {None, NA} \union Versions
  BY <1>1, <1>3 DEF Remember
<1>5. contentIds' \in [Files -> {None, NA} \union Versions]
  BY <1>4 DEF Remember
<1>6. \A f \in Files : contentIds'[f] # None =>
        contentIds'[f] = IF f \in Missing(prog.env) THEN NA ELSE prog.ver[f]
  BY <1>3, <1>4 DEF IInv, IdsTrue
<1> QED BY <1>5, <1>6 DEF IdsTrue

\* Walks ask for ids of dependencies only.
LEMMA AsksIndexed ==
    ASSUME IInv, prog # None, NEW S, NEW st, NEW R
    PROVE  /\ MayAsk(S, st, R) \subseteq Indexed(prog)
           /\ \A F \in WalksAsk(S, st, R) : F \subseteq Indexed(prog)
           /\ \A F \in GlobalsAsk(S) : F \subseteq Indexed(prog)
<1>1. prog \in Programs
  BY SeenIsProg
<1>2. \A X : MayAsk(S, st, X) \subseteq Indexed(prog) /\ MayAsk(S, status, X) \subseteq Indexed(prog)
  BY <1>1, IndexedFiles DEF MayAsk, Visited, Reach
<1>3. \A F \in WalksAsk(S, st, R) : F \subseteq Indexed(prog)
  BY <1>2 DEF WalksAsk
<1>4. prog.global \subseteq Indexed(prog)
  BY <1>1, ProgramFields, IndexedFiles
<1>5. \A F \in GlobalsAsk(S) : F \subseteq Indexed(prog)
  BY <1>2, <1>4 DEF GlobalsAsk
<1> QED BY <1>2, <1>3, <1>5

\* Reusing the old state asks for ids of the program only.
LEMMA ReuseAsks ==
    ASSUME IInv, prog # None, NEW F \in TryReuseOldState.asks
    PROVE  F \subseteq Indexed(prog)
<1>1. CASE oldState = None \/ ~recheck
  BY <1>1 DEF TryReuseOldState
<1>2. CASE ~(oldState = None \/ ~recheck)
  <2>1. TryReuseOldState.asks = GlobalsAsk(oldState.snap)
    BY <1>2 DEF TryReuseOldState
  <2> QED BY <2>1, AsksIndexed
<1> QED BY <1>1, <1>2

\* Reusing the old state either drops it or makes sure that its global files are
\* those of the program; statuses found on the way are true.
LEMMA ReuseCorrect ==
    ASSUME IInv, prog \in Programs, prog # None, NEW r, r = TryReuseOldState
    PROVE  /\ r.old \in {None, oldState}
           /\ r.old \in {None} \union States
           /\ r.recheck \in BOOLEAN
           /\ r.status \in [Files -> DependencyState]
           /\ r.old # None => /\ r.old = oldState
                              /\ ~r.recheck
                              /\ GlobalsMatch(r.old.snap, prog)
                              /\ StatusesMatch(r.old.snap, prog, r.status)
<1>0. /\ oldState \in {None} \union States
      /\ recheck \in BOOLEAN
      /\ status \in [Files -> DependencyState]
      /\ Seen = prog
  BY SeenIsProg DEF IInv, TypeOK
<1>1. CASE oldState = None
  BY <1>0, <1>1 DEF TryReuseOldState
<1>2. CASE oldState # None /\ ~recheck
  <2>1. r.old = oldState /\ r.recheck = recheck /\ r.status = status
    BY <1>2 DEF TryReuseOldState
  <2> QED BY <1>0, <1>2, <2>1 DEF IInv, RecheckInv, StatusesTrue
<1>3. CASE oldState # None /\ recheck
  <2> DEFINE S == oldState.snap
             M == UNION {Visited(S, prog, status, g) : g \in prog.global}
  <2>0. S \in Programs /\ SameEnvironment(S, prog) /\ StatusesMatch(S, prog, status)
    BY <1>0, <1>3 DEF States, IInv, RecheckInv, StatusesTrue
  <2>1. CASE ~GlobalsUpToDate(S, prog, status)
    <3>1. r.old = None /\ r.recheck = recheck /\ r.status = status
      BY <1>0, <1>3, <2>1 DEF TryReuseOldState
    <3> QED BY <1>0, <3>1
  <2>2. CASE GlobalsUpToDate(S, prog, status)
    <3>1. /\ r.old = oldState /\ r.recheck = FALSE
          /\ r.status = IF Direct(prog) THEN status ELSE Mark(S, prog, status, M)
      BY <1>0, <1>3, <2>2 DEF TryReuseOldState
    <3>2. \A g \in prog.global : g \in Files /\ Id(S, g) = Id(prog, g)
      BY <2>0, <2>2, SameGlobals, ProgramFields DEF GlobalsUpToDate
    <3>3. GlobalsMatch(S, prog)
      BY <2>0, <2>2, <3>2, <1>0, WalkCorrect DEF GlobalsUpToDate, GlobalsMatch
    <3>4. \A g \in Files \cap M : g \in S.files => Id(S, g) = Id(prog, g)
      BY <2>0, <3>2, VisitedSameId DEF Visited
    <3>5. /\ Mark(S, prog, status, M) \in [Files -> DependencyState]
          /\ StatusesMatch(S, prog, Mark(S, prog, status, M))
      BY <1>0, <2>0, <3>4, MarkTrue
    <3> QED BY <1>0, <1>3, <2>0, <3>1, <3>3, <3>5
  <2> QED BY <2>1, <2>2
<1> QED BY <1>0, <1>1, <1>2, <1>3

\* A result that is found to be up to date is the one linting the program would give,
\* and a new one fits the old state as well.
LEMMA UpToDateCorrect ==
    ASSUME IInv, prog \in Programs, prog # None, NEW r, r = TryReuseOldState,
           NEW f \in prog.files, IsFileUpToDate(r, f)
    PROVE  /\ f \in r.old.snap.files
           /\ View(r.old.snap, f) = View(prog, f)
           /\ Candidate(r.old, f) # None =>
                Candidate(r.old, f) = Lint(prog, f, Candidate(r.old, f).config)
           /\ OldResult(r.old, f) # None =>
                OldResult(r.old, f) = Lint(prog, f, OldResult(r.old, f).config)
<1>0. r.old # None /\ r.old = oldState /\ r.old \in States /\ r.old.snap \in Programs /\ f \in Files
  BY ReuseCorrect, ProgramFields DEF IsFileUpToDate, SameContent, States
<1>1. /\ GlobalsMatch(r.old.snap, prog)
      /\ StatusesMatch(r.old.snap, prog, r.status)
      /\ r.status \in [Files -> DependencyState]
  BY <1>0, ReuseCorrect
<1>2. Id(r.old.snap, f) = Id(prog, f) /\ UpToDate(r.old.snap, prog, f)
  BY <1>0, <1>1, WalkCorrect, SeenIsProg DEF IsFileUpToDate, SameContent
<1>3. View(r.old.snap, f) = View(prog, f) /\ f \in r.old.snap.files
  BY <1>0, <1>1, <1>2, SameView
<1>4. Candidate(oldState, f) # None =>
        Candidate(oldState, f) = Lint(oldState.snap, f, Candidate(oldState, f).config)
  BY <1>0 DEF IInv, FileResultsFitOldState, Sound, States
<1>5. OldResult(oldState, f) # None =>
        OldResult(oldState, f) = Lint(oldState.snap, f, OldResult(oldState, f).config)
  BY <1>0 DEF IInv, StatesSound, Sound, OldResult
<1> QED BY <1>0, <1>3, <1>4, <1>5 DEF Lint

\* Aggregating gives a sound state of the program.
LEMMA AggregateCorrect ==
    ASSUME IInv, prog \in Programs, prog # None, NEW r, r = TryReuseOldState
    PROVE  /\ Aggregate(r) \in States
           /\ Aggregate(r).snap = prog
           /\ Sound(Aggregate(r))
<1>1. ASSUME NEW f \in Files
      PROVE  /\ Aggregate(r).res[f] \in {None} \union Entries
             /\ Aggregate(r).res[f] # None =>
                  /\ f \in prog.files
                  /\ Aggregate(r).res[f] = Lint(prog, f, Aggregate(r).res[f].config)
  <2>1. Candidate(r.old, f) \in {None} \union Entries
    BY CandidateType, ReuseCorrect DEF IInv
  <2> QED BY <2>1, UpToDateCorrect DEF Aggregate
<1> QED BY <1>1, SeenIsProg DEF Aggregate, States, Results, Sound

\* A state of the program itself matches the program.
LEMMA OwnState ==
    ASSUME NEW P \in Programs
    PROVE  GlobalsMatch(P, P) /\ StatusesMatch(P, P, AllFiles("Ok"))
  BY DEF GlobalsMatch, SameEnvironment, StatusesMatch, AllFiles, UpToDate, SameDeps

\* A state about which nothing is known matches any program.
LEMMA NothingKnown ==
    ASSUME NEW S, NEW P
    PROVE  StatusesMatch(S, P, AllFiles("Unknown"))
  BY DEF StatusesMatch, AllFiles

-----------------------------------------------------------------------------
(* The invariant is inductive                                              *)

\* The invariant of a step in which a call leaves the old state (or drops it), the
\* statuses are true and the results not yet merged are those from before.
LEMMA AfterReuse ==
    ASSUME IInv, prog \in Programs, prog # None, NEW r, r = TryReuseOldState,
           prog' = prog, oldState' = r.old, recheck' = r.recheck, fileResults' = fileResults,
           status' \in [Files -> DependencyState],
           r.old # None => StatusesMatch(r.old.snap, prog, status')
    PROVE  /\ oldState' \in {None} \union States
           /\ recheck' \in BOOLEAN
           /\ oldState' # None => Sound(oldState')
           /\ FileResultsFitOldState'
           /\ StatusesTrue'
           /\ RecheckInv'
<1>1. /\ r.old \in {None, oldState}
      /\ r.old \in {None} \union States
      /\ r.recheck \in BOOLEAN
      /\ r.old # None => /\ r.old = oldState
                         /\ ~r.recheck
                         /\ GlobalsMatch(r.old.snap, prog)
  BY ReuseCorrect
<1>2. oldState' # None => Sound(oldState')
  BY <1>1 DEF IInv, StatesSound
<1>4. FileResultsFitOldState'
  BY <1>1 DEF IInv, FileResultsFitOldState, Candidate
<1>5. StatusesTrue'
  BY DEF StatusesTrue
<1>6. RecheckInv'
  BY <1>1 DEF RecheckInv, GlobalsMatch
<1> QED BY <1>1, <1>2, <1>4, <1>5, <1>6

\* Creating a ProgramState preserves the invariant.
LEMMA CreateInv ==
    ASSUME IInv, NEW P \in Programs, Create(P)
    PROVE  IInv'
<1>1. /\ prog' = P /\ disk' = disk /\ recheck' = TRUE /\ reply' = None
      /\ status' = AllFiles("Unknown") /\ fileResults' = NoResults /\ contentIds' = NoIds
      /\ oldState' = IF disk \notin {None, Corrupt} /\ SameEnvironment(disk.snap, P) THEN disk ELSE None
  BY DEF Create
<1>2. oldState' \in {None} \union States
  BY <1>1 DEF IInv, TypeOK
<1>3. TypeOK'
  BY <1>1, <1>2 DEF IInv, TypeOK, AllFiles, NoResults, Results, DependencyState, NoIds
<1>4. StatesSound'
  BY <1>1 DEF IInv, StatesSound
<1>5. ASSUME oldState' # None
      PROVE  \A f \in Files : Candidate(oldState, f)' = oldState'.res[f]
  BY <1>1, <1>5 DEF Candidate, OldResult, NoResults
<1>6. FileResultsFitOldState'
  <2> SUFFICES ASSUME oldState' # None
               PROVE  Sound([oldState EXCEPT !.res = [f \in Files |-> Candidate(oldState, f)]])'
    BY DEF FileResultsFitOldState
  <2>1. oldState' = disk /\ oldState' \in States /\ Sound(disk)
    BY <1>1, <1>2 DEF IInv, StatesSound
  <2> QED BY <1>5, <2>1 DEF Sound, States
<1>7. StatusesTrue'
  BY <1>1, NothingKnown DEF StatusesTrue
<1>8. RecheckInv'
  BY <1>1 DEF RecheckInv
<1>9. IdsTrue'
  BY <1>1 DEF IdsTrue, NoIds, AllFiles
<1> QED BY <1>1, <1>3, <1>4, <1>6, <1>7, <1>8, <1>9 DEF IInv, NoStaleReuse

\* Asking for a result preserves the invariant.
LEMMA GetInv ==
    ASSUME IInv, NEW f \in Files, NEW c \in Configs, GetUpToDateResult(f, c)
    PROVE  IInv'
<1> DEFINE r == TryReuseOldState
           old == OldResult(r.old, f)
           candidate == old # None /\ old.config = c /\ SameContent(r, f)
           hit == candidate /\ WalkSucceeds(r.old.snap, prog, r.status, f)
<1>0. prog \in Programs /\ prog # None /\ f \in prog.files /\ Seen = prog
  BY SeenIsProg DEF GetUpToDateResult
<1>1. /\ oldState' = r.old /\ recheck' = r.recheck
      /\ status' \in IF candidate THEN AfterWalks(r.old.snap, prog, r.status, {f}) ELSE {r.status}
      /\ reply' = [file |-> f, config |-> c, result |-> IF hit THEN old ELSE None]
      /\ disk' = disk /\ prog' = prog /\ fileResults' = fileResults
  BY <1>0 DEF GetUpToDateResult
<1>2. /\ r.old \in {None} \union States
      /\ r.status \in [Files -> DependencyState]
      /\ r.old # None => StatusesMatch(r.old.snap, prog, r.status)
  BY <1>0, ReuseCorrect
<1>3. /\ status' \in [Files -> DependencyState]
      /\ r.old # None => StatusesMatch(r.old.snap, prog, status')
  <2>1. CASE candidate
    <3>1. r.old # None /\ r.old.snap \in Programs /\ Id(r.old.snap, f) = Id(prog, f)
      BY <2>1, <1>0, <1>2 DEF SameContent, States
    <3> HIDE DEF r
    <3> QED BY <1>0, <1>1, <1>2, <2>1, <3>1, AfterWalksTrue
  <2>2. CASE ~candidate
    BY <1>1, <1>2, <2>2
  <2> QED BY <2>1, <2>2
<1>4. /\ oldState' \in {None} \union States
      /\ recheck' \in BOOLEAN
      /\ oldState' # None => Sound(oldState')
      /\ FileResultsFitOldState'
      /\ StatusesTrue'
      /\ RecheckInv'
  BY <1>0, <1>1, <1>3, AfterReuse
<1>5. old \in {None} \union Entries
  BY <1>2, CandidateType DEF IInv
<1>9. contentIds' \in [Files -> {None, NA} \union Versions] /\ IdsTrue'
  <2>1. PICK F \in r.asks, G \in IF candidate THEN WalksAsk(r.old.snap, r.status, {f}) ELSE {{}} :
            contentIds' = Remember((IF old # None /\ old.config = c THEN {f} ELSE {}) \union F \union G)
    BY DEF GetUpToDateResult
  <2>2. F \subseteq Indexed(prog) /\ G \subseteq Indexed(prog) /\ f \in Indexed(prog)
    BY <1>0, <2>1, ReuseAsks, AsksIndexed, IndexedFiles
  <2> QED BY <1>0, <1>1, <2>1, <2>2, RememberTrue
<1>6. TypeOK'
  BY <1>1, <1>3, <1>4, <1>5, <1>9 DEF IInv, TypeOK
<1>7. StatesSound'
  BY <1>1, <1>4 DEF IInv, StatesSound
<1>8. NoStaleReuse'
  <2>1. hit => old = Lint(prog, f, c)
    BY <1>0, UpToDateCorrect DEF IsFileUpToDate
  <2> QED BY <1>1, <2>1 DEF NoStaleReuse
<1> QED BY <1>4, <1>6, <1>7, <1>8, <1>9 DEF IInv

\* Storing a result preserves the invariant.
LEMMA SetInv ==
    ASSUME IInv, NEW f \in Files, NEW c \in Configs, SetFileResult(f, c)
    PROVE  IInv'
<1> DEFINE r == TryReuseOldState
<1>0. prog \in Programs /\ prog # None /\ f \in prog.files /\ Seen = prog
  BY SeenIsProg DEF SetFileResult
<1>1. disk' = disk /\ prog' = prog /\ reply' = None
  BY DEF SetFileResult
<1>2. /\ r.old \in {None} \union States
      /\ r.old \in {None, oldState}
      /\ r.recheck \in BOOLEAN
      /\ r.status \in [Files -> DependencyState]
      /\ r.old # None => /\ ~r.recheck
                         /\ GlobalsMatch(r.old.snap, prog)
                         /\ StatusesMatch(r.old.snap, prog, r.status)
  BY <1>0, ReuseCorrect
<1>3. Lint(prog, f, c) \in Entries /\ Lint(prog, f, c).config = c
  BY <1>0, LintType
<1>4. CASE /\ IsFileUpToDate(r, f)
           /\ oldState' = r.old
           /\ recheck' = r.recheck
           /\ status' \in AfterWalks(r.old.snap, prog, r.status, {f})
           /\ \E F \in r.asks, G \in WalksAsk(r.old.snap, r.status, {f}) :
                contentIds' = Remember({f} \union F \union G)
           /\ fileResults' = [fileResults EXCEPT ![f] = Lint(prog, f, c)]
  <2>1. /\ r.old # None /\ r.old = oldState /\ oldState \in States
        /\ Id(r.old.snap, f) = Id(prog, f) /\ r.old.snap \in Programs
    BY <1>0, <1>2, <1>4 DEF IsFileUpToDate, SameContent, States
  <2>2. f \in oldState.snap.files /\ View(oldState.snap, f) = View(prog, f)
    BY <1>0, <1>4, <2>1, UpToDateCorrect
  <2>3. status' \in [Files -> DependencyState] /\ StatusesMatch(oldState.snap, prog, status')
    <3> HIDE DEF r
    <3> QED BY <1>0, <1>2, <1>4, <2>1, AfterWalksTrue
  <2>4. \A g \in Files : fileResults'[g] \in {None} \union Entries
    BY <1>3, <1>4 DEF IInv, TypeOK, Results
  <2>10. contentIds' \in [Files -> {None, NA} \union Versions] /\ IdsTrue'
    <3>1. PICK F \in r.asks, G \in WalksAsk(r.old.snap, r.status, {f}) :
              contentIds' = Remember({f} \union F \union G)
      BY <1>4
    <3>2. F \subseteq Indexed(prog) /\ G \subseteq Indexed(prog) /\ f \in Indexed(prog)
      BY <1>0, <3>1, ReuseAsks, AsksIndexed, IndexedFiles
    <3> QED BY <1>0, <1>1, <3>1, <3>2, RememberTrue
  <2>5. TypeOK'
    BY <1>1, <1>2, <1>3, <1>4, <2>1, <2>3, <2>10 DEF IInv, TypeOK, Results
  <2>6. FileResultsFitOldState'
    <3> DEFINE S == [oldState EXCEPT !.res = [g \in Files |-> Candidate(oldState, g)]]
               S2 == [oldState EXCEPT !.res = [g \in Files |-> Candidate(oldState, g)']]
    <3>1. Sound(S)
      BY <2>1 DEF IInv, FileResultsFitOldState
    <3>2. S2.snap = oldState.snap /\ S.snap = oldState.snap
      BY <2>1 DEF States
    <3>3. ASSUME NEW g \in Files, S2.res[g] # None
          PROVE  g \in S2.snap.files /\ S2.res[g] = Lint(S2.snap, g, S2.res[g].config)
      <4>1. CASE g = f
        <5>1. fileResults'[f] = Lint(prog, f, c)
          BY <1>4 DEF IInv, TypeOK, Results
        <5>2. S2.res[f] = Candidate(oldState, f)'
          BY <2>1 DEF States
        <5>3. Candidate(oldState, f)' \in {Lint(prog, f, c), oldState.res[f]}
          BY <1>2, <1>4, <2>1, <5>1 DEF Candidate, OldResult
        <5>4. CASE S2.res[f] = Lint(prog, f, c)
          BY <1>3, <2>2, <3>2, <4>1, <5>4 DEF Lint
        <5>5. CASE S2.res[f] = oldState.res[f]
          <6>1. oldState.res[f] = Lint(oldState.snap, f, oldState.res[f].config)
            BY <2>1, <3>3, <4>1, <5>5 DEF IInv, StatesSound, Sound
          <6> QED BY <2>2, <3>2, <4>1, <5>5, <6>1
        <5> QED BY <4>1, <5>2, <5>3, <5>4, <5>5
      <4>2. CASE g # f
        <5>1. Candidate(oldState, g)' = Candidate(oldState, g)
          BY <1>2, <1>4, <2>1, <4>2 DEF Candidate, IInv, TypeOK, Results
        <5>2. S2.res[g] = S.res[g]
          BY <2>1, <5>1 DEF States
        <5> QED BY <3>1, <3>2, <3>3, <5>2 DEF Sound
      <4> QED BY <4>1, <4>2
    <3>4. Sound(S2)
      BY <3>3 DEF Sound
    <3>5. oldState' = oldState
      BY <1>4, <2>1
    <3> QED BY <3>4, <3>5 DEF FileResultsFitOldState
  <2>7. StatesSound'
    BY <1>1, <1>4, <2>1 DEF IInv, StatesSound
  <2>8. StatusesTrue'
    BY <1>1, <1>4, <2>1, <2>3 DEF StatusesTrue
  <2>9. RecheckInv'
    BY <1>1, <1>2, <1>4, <2>1 DEF RecheckInv, GlobalsMatch
  <2> QED BY <1>1, <2>5, <2>6, <2>7, <2>8, <2>9, <2>10 DEF IInv, NoStaleReuse
<1>5. CASE /\ ~IsFileUpToDate(r, f)
           /\ oldState' = Aggregate(r)
           /\ recheck' = FALSE
           /\ status' = AllFiles("Ok")
           /\ contentIds' = Remember(Indexed(prog))
           /\ fileResults' = [NoResults EXCEPT ![f] = Lint(prog, f, c)]
  <2>1. oldState' \in States /\ oldState'.snap = prog /\ Sound(oldState')
    BY <1>0, <1>5, AggregateCorrect
  <2>6. contentIds' \in [Files -> {None, NA} \union Versions] /\ IdsTrue'
    BY <1>0, <1>1, <1>5, RememberTrue
  <2>2. TypeOK'
    BY <1>0, <1>1, <1>3, <1>5, <2>1, <2>6 DEF IInv, TypeOK, AllFiles, DependencyState, Results, NoResults
  <2>3. FileResultsFitOldState'
    <3> DEFINE S2 == [oldState' EXCEPT !.res = [g \in Files |-> Candidate(oldState, g)']]
    <3>1. S2.snap = prog
      BY <2>1 DEF States
    <3>2. ASSUME NEW g \in Files, S2.res[g] # None
          PROVE  g \in prog.files /\ S2.res[g] = Lint(prog, g, S2.res[g].config)
      <4>1. S2.res[g] = Candidate(oldState, g)'
        BY <2>1 DEF States
      <4>2. CASE S2.res[g] = oldState'.res[g]
        <5>1. oldState'.res[g] # None
          BY <3>2, <4>2
        <5> QED BY <2>1, <4>2, <5>1 DEF Sound
      <4>3. CASE g = f /\ S2.res[g] = Lint(prog, f, c)
        BY <1>0, <1>3, <4>3
      <4>4. fileResults'[g] = IF g = f THEN Lint(prog, f, c) ELSE None
        BY <1>5 DEF NoResults
      <4>5. S2.res[g] \in {oldState'.res[g], None} \/ (g = f /\ S2.res[g] = Lint(prog, f, c))
        BY <4>1, <4>4 DEF Candidate, OldResult
      <4> QED BY <3>2, <4>2, <4>3, <4>5
    <3>3. Sound(S2)
      BY <3>1, <3>2 DEF Sound
    <3> QED BY <3>3 DEF FileResultsFitOldState
  <2>4. StatesSound'
    BY <1>1, <2>1 DEF IInv, StatesSound
  <2>5. StatusesTrue' /\ RecheckInv'
    BY <1>0, <1>1, <1>5, <2>1, OwnState DEF StatusesTrue, RecheckInv, GlobalsMatch
  <2> QED BY <1>1, <2>2, <2>3, <2>4, <2>5, <2>6 DEF IInv, NoStaleReuse
<1> QED BY <1>0, <1>4, <1>5 DEF SetFileResult

\* Telling the state about a fix preserves the invariant.
LEMMA UpdateInv ==
    ASSUME IInv, NEW u \in Files, NEW P \in Programs, Update(u, P)
    PROVE  IInv'
<1>1. /\ prog' = P /\ disk' = disk /\ recheck' = TRUE /\ reply' = None
      /\ status' = AllFiles("Unknown") /\ fileResults' = fileResults /\ oldState' = oldState
      /\ prog # None /\ P.env = prog.env /\ contentIds' = [contentIds EXCEPT ![u] = None]
      /\ \A f \in Files \ {u} : P.ver[f] = prog.ver[f]
  BY DEF Update
<1>6. /\ contentIds' \in [Files -> {None, NA} \union Versions]
      /\ contentIds'[u] = None
      /\ \A f \in Files \ {u} : contentIds'[f] = contentIds[f]
  BY <1>1 DEF IInv, TypeOK
<1>7. IdsTrue'
  <2>1. ASSUME NEW f \in Files, contentIds'[f] # None
        PROVE  contentIds'[f] = IF f \in Missing(P.env) THEN NA ELSE P.ver[f]
    BY <1>1, <1>6, <2>1 DEF IInv, IdsTrue
  <2> QED BY <1>1, <2>1 DEF IdsTrue
<1>2. TypeOK'
  BY <1>1, <1>6 DEF IInv, TypeOK, AllFiles, DependencyState
<1>3. StatesSound' /\ FileResultsFitOldState'
  BY <1>1 DEF IInv, StatesSound, FileResultsFitOldState, Candidate
<1>4. StatusesTrue'
  BY <1>1, NothingKnown DEF StatusesTrue
<1>5. RecheckInv'
  BY <1>1 DEF IInv, RecheckInv, SameEnvironment
<1> QED BY <1>1, <1>2, <1>3, <1>4, <1>5, <1>7 DEF IInv, NoStaleReuse

\* Saving the old state with new results merged into it preserves the invariant.
LEMMA SaveMergedInv ==
    ASSUME IInv, SaveMerged
    PROVE  IInv'
<1> DEFINE S == [oldState EXCEPT !.res = [f \in Files |-> Candidate(oldState, f)]]
<1>1. /\ prog' = prog /\ oldState' = oldState /\ recheck' = recheck /\ status' = status
      /\ fileResults' = fileResults /\ reply' = None /\ oldState # None /\ contentIds' = contentIds
      /\ disk' \in {S, disk, Corrupt}
  BY DEF SaveMerged, WriteState
<1>2. S \in States /\ Sound(S)
  <2>1. oldState \in States /\ \A f \in Files : Candidate(oldState, f) \in {None} \union Entries
    BY <1>1, CandidateType DEF IInv, TypeOK
  <2>2. [f \in Files |-> Candidate(oldState, f)] \in Results
    BY <2>1 DEF Results
  <2> QED BY <1>1, <2>1, <2>2 DEF States, IInv, FileResultsFitOldState
<1>3. TypeOK'
  BY <1>1, <1>2 DEF IInv, TypeOK
<1>4. StatesSound'
  BY <1>1, <1>2 DEF IInv, StatesSound
<1>5. FileResultsFitOldState'
  BY <1>1 DEF IInv, FileResultsFitOldState, Candidate
<1>6. StatusesTrue' /\ RecheckInv'
  BY <1>1 DEF IInv, StatusesTrue, RecheckInv, GlobalsMatch
<1>7. IdsTrue'
  BY <1>1 DEF IInv, IdsTrue
<1> QED BY <1>1, <1>3, <1>4, <1>5, <1>6, <1>7 DEF IInv, NoStaleReuse

\* Saving an aggregated state preserves the invariant.
LEMMA SaveAggregatedInv ==
    ASSUME IInv, SaveAggregated
    PROVE  IInv'
<1> DEFINE r == TryReuseOldState
           asked == {f \in prog.files : Candidate(r.old, f) # None /\ SameContent(r, f)}
<1>0. prog \in Programs /\ prog # None /\ Seen = prog
  BY SeenIsProg DEF SaveAggregated
<1>1. /\ disk' \in {Aggregate(r), disk, Corrupt}
      /\ oldState' = r.old /\ recheck' = r.recheck
      /\ status' \in IF r.old = None THEN {r.status}
                     ELSE AfterWalks(r.old.snap, prog, r.status, asked)
      /\ reply' = None /\ prog' = prog /\ fileResults' = fileResults
      /\ contentIds' = Remember(Indexed(prog))
  BY <1>0 DEF SaveAggregated, WriteState
<1>2. /\ r.old \in {None} \union States
      /\ r.status \in [Files -> DependencyState]
      /\ r.old # None => StatusesMatch(r.old.snap, prog, r.status)
  BY <1>0, ReuseCorrect
<1>3. /\ status' \in [Files -> DependencyState]
      /\ r.old # None => StatusesMatch(r.old.snap, prog, status')
  <2>1. CASE r.old # None
    <3>1. r.old.snap \in Programs /\ \A f \in asked : Id(r.old.snap, f) = Id(prog, f)
      BY <2>1, <1>0, <1>2 DEF SameContent, States
    <3>2. asked \in SUBSET Files
      BY <1>0, ProgramFields
    <3> HIDE DEF r, asked
    <3> QED BY <1>0, <1>1, <1>2, <2>1, <3>1, <3>2, AfterWalksTrue
  <2>2. CASE r.old = None
    BY <1>1, <1>2, <2>2
  <2> QED BY <2>1, <2>2
<1>4. /\ oldState' \in {None} \union States
      /\ recheck' \in BOOLEAN
      /\ oldState' # None => Sound(oldState')
      /\ FileResultsFitOldState'
      /\ StatusesTrue'
      /\ RecheckInv'
  BY <1>0, <1>1, <1>3, AfterReuse
<1>5. Aggregate(r) \in States /\ Sound(Aggregate(r))
  BY <1>0, AggregateCorrect
<1>8. contentIds' \in [Files -> {None, NA} \union Versions] /\ IdsTrue'
  BY <1>0, <1>1, RememberTrue
<1>6. TypeOK'
  BY <1>1, <1>3, <1>4, <1>5, <1>8 DEF IInv, TypeOK
<1>7. StatesSound'
  BY <1>1, <1>4, <1>5 DEF IInv, StatesSound
<1> QED BY <1>1, <1>4, <1>6, <1>7, <1>8 DEF IInv, NoStaleReuse

\* Ending a run preserves the invariant.
LEMMA ExitInv ==
    ASSUME IInv, Exit
    PROVE  IInv'
<1>1. /\ prog' = None /\ oldState' = None /\ recheck' = TRUE /\ reply' = None /\ disk' = disk
      /\ status' = AllFiles("Unknown") /\ fileResults' = NoResults /\ contentIds' = NoIds
  BY DEF Exit
<1>2. TypeOK'
  BY <1>1 DEF IInv, TypeOK, AllFiles, DependencyState, Results, NoResults, NoIds
<1> QED BY <1>1, <1>2 DEF IInv, StatesSound, FileResultsFitOldState, StatusesTrue, RecheckInv,
             NoStaleReuse, IdsTrue

\* The invariant holds throughout.
THEOREM Invariance == Spec => []IInv
<1>1. Init => IInv
  BY DEF Init, IInv, TypeOK, StatesSound, FileResultsFitOldState, StatusesTrue, RecheckInv,
         NoStaleReuse, AllFiles, NoResults, Results, DependencyState, IdsTrue, NoIds
<1>2. IInv /\ [Next]_vars => IInv'
  <2> SUFFICES ASSUME IInv, [Next]_vars
               PROVE  IInv'
    OBVIOUS
  <2>1. ASSUME NEW P \in Programs, Create(P)
        PROVE  IInv'
    BY <2>1, CreateInv
  <2>2. ASSUME NEW f \in Linted, NEW c \in Configs, GetUpToDateResult(f, c)
        PROVE  IInv'
    BY <2>2, GetInv, LintedAssumption
  <2>3. ASSUME NEW f \in Linted, NEW c \in Configs, SetFileResult(f, c)
        PROVE  IInv'
    BY <2>3, SetInv, LintedAssumption
  <2>4. ASSUME NEW u \in Linted, NEW P \in Programs, Update(u, P)
        PROVE  IInv'
    BY <2>4, UpdateInv, LintedAssumption
  <2>5. CASE SaveMerged
    BY <2>5, SaveMergedInv
  <2>6. CASE SaveAggregated
    BY <2>6, SaveAggregatedInv
  <2>7. CASE Exit
    BY <2>7, ExitInv
  <2>8. CASE UNCHANGED vars
    BY <2>8 DEF vars, IInv, TypeOK, StatesSound, FileResultsFitOldState, StatusesTrue, RecheckInv,
                NoStaleReuse, Candidate, GlobalsMatch, IdsTrue
  <2> QED BY <2>1, <2>2, <2>3, <2>4, <2>5, <2>6, <2>7, <2>8 DEF Next, Steps
<1> QED BY <1>1, <1>2, PTL DEF Spec

\* The variables keep their types.
THEOREM TypeCorrect == Spec => []TypeOK
  BY Invariance, PTL DEF IInv

\* getUpToDateResult never returns a stale result: what it returns is what linting the
\* file in the program as it is now would give.
THEOREM NeverStale == Spec => []NoStaleReuse
  BY Invariance, PTL DEF IInv

\* The cache file and the state in memory never attribute a result to a program it was
\* not computed from.
THEOREM AlwaysSound == Spec => []StatesSound
  BY Invariance, PTL DEF IInv

\* What save writes is what linting the current program would give, on both of its paths.
THEOREM SavedIsCurrent == Spec => SaveIsCurrent
<1>1. ASSUME IInv, SaveMerged, Written
      PROVE  Current(disk')
  <2> DEFINE S == [oldState EXCEPT !.res = [f \in Files |-> Candidate(oldState, f)]]
  <2>0. /\ prog \in Programs /\ prog # None /\ oldState # None /\ oldState \in States
        /\ status \in [Files -> DependencyState]
        /\ fileResults # NoResults /\ fileResults \in Results
    BY <1>1 DEF SaveMerged, IInv, TypeOK
  <2>1. disk' = S /\ Sound(S) /\ S.snap = oldState.snap /\ S.snap \in Programs
    BY <1>1, <2>0 DEF SaveMerged, WriteState, Written, IInv, FileResultsFitOldState, States
  <2>2. \A f \in S.snap.files : f \in Files /\ status[f] = "Ok"
    BY <1>1, <2>1, ProgramFields DEF SaveMerged, Indexed
  <2>3. PICK f \in Files : fileResults[f] # None
    BY <2>0 DEF NoResults, Results
  <2>4. f \in S.snap.files
    BY <2>0, <2>1, <2>3 DEF Sound, Candidate, States
  <2>5. ~recheck
    BY <1>1, <2>0, <2>2, <2>4 DEF IInv, RecheckInv, AllFiles
  <2>6. GlobalsMatch(S.snap, prog) /\ StatusesMatch(S.snap, prog, status)
    BY <1>1, <2>0, <2>1, <2>5 DEF IInv, RecheckInv, StatusesTrue
  <2>7. ASSUME NEW g \in Files, S.res[g] # None
        PROVE  g \in prog.files /\ S.res[g] = Lint(prog, g, S.res[g].config)
    <3>1. g \in S.snap.files /\ S.res[g] = Lint(S.snap, g, S.res[g].config)
      BY <2>1, <2>7 DEF Sound
    <3>2. Id(S.snap, g) = Id(prog, g) /\ UpToDate(S.snap, prog, g)
      BY <2>2, <2>6, <3>1 DEF StatusesMatch
    <3>3. g \in prog.files
      BY <2>0, <2>1, <3>1, <3>2, SameId
    <3>4. View(S.snap, g) = View(prog, g)
      BY <2>0, <2>1, <2>6, <3>2, <3>3, SameView
    <3> QED BY <3>1, <3>3, <3>4 DEF Lint
  <2> QED BY <2>1, <2>7 DEF Current
<1>2. ASSUME IInv, SaveAggregated, Written
      PROVE  Current(disk')
  <2>1. prog \in Programs /\ prog # None /\ disk' = Aggregate(TryReuseOldState)
    BY <1>2 DEF SaveAggregated, WriteState, Written, IInv, TypeOK
  <2>2. Sound(disk') /\ disk'.snap = prog
    BY <1>2, <2>1, AggregateCorrect
  <2> QED BY <2>2 DEF Sound, Current
<1>3. ASSUME [Next]_vars, Written
      PROVE  SaveMerged \/ SaveAggregated
  BY <1>3 DEF Next, Steps, vars, Written, Create, GetUpToDateResult, SetFileResult, Update, Exit
<1>4. IInv /\ [Next]_vars => [Written => Current(disk')]_vars
  BY <1>1, <1>2, <1>3
<1> QED BY <1>4, Invariance, PTL DEF Spec, SaveIsCurrent

\* A saved state is used again wherever the project is now, as long as the environment
\* has the same effect (the comparison in the constructor of ProgramStateImpl).
THEOREM StateSurvivesMove == Spec => MovedKeepsState
<1>1. ASSUME [Next]_vars, prog = None, prog' # None, disk \notin {None, Corrupt},
             Effect(disk.snap.env) = Effect(prog'.env)
      PROVE  oldState' = disk
  <2>1. PICK P \in Programs : Create(P)
    BY <1>1 DEF Next, Steps, vars, GetUpToDateResult, SetFileResult, Update, SaveMerged, SaveAggregated, Exit
  <2>2. SameEnvironment(disk.snap, P)
    BY <1>1, <2>1, SameHash DEF Create
  <2> QED BY <1>1, <2>1, <2>2 DEF Create
<1> QED BY <1>1, PTL DEF Spec, MovedKeepsState

-----------------------------------------------------------------------------
(* Nothing that is still valid is lost                                     *)

\* A valid result was computed from the snapshot of the old state and the files it
\* depends on did not change since.
LEMMA ValidIsUpToDate ==
    ASSUME IInv, prog # None, oldState # None, NEW f \in Files, f \in prog.files,
           NEW x, x # None, x \in {Candidate(oldState, f), OldResult(oldState, f)},
           x = Lint(prog, f, x.config)
    PROVE  LET S == oldState.snap IN
           /\ f \in S.files
           /\ Id(S, f) = Id(prog, f)
           /\ UpToDate(S, prog, f)
           /\ GlobalsMatch(S, prog)
<1> DEFINE S == oldState.snap
           merged == [oldState EXCEPT !.res = [g \in Files |-> Candidate(oldState, g)]]
<1>1. prog \in Programs /\ oldState \in States /\ S \in Programs
  BY DEF IInv, TypeOK, States
<1>2. merged.snap = S /\ merged.res[f] = Candidate(oldState, f) /\ OldResult(oldState, f) = oldState.res[f]
  BY <1>1 DEF States, OldResult
<1>3. f \in S.files /\ x = Lint(S, f, x.config)
  <2>1. Sound(oldState) /\ Sound(merged)
    BY DEF IInv, StatesSound, FileResultsFitOldState
  <2> QED BY <1>2, <2>1 DEF Sound
<1>4. View(S, f) = View(prog, f)
  BY <1>3 DEF Lint
<1>5. SameEnvironment(S, prog)
  BY DEF IInv, RecheckInv
<1> QED BY <1>1, <1>3, <1>4, <1>5, ViewDecides

\* If a result is still valid, the old state is used again and the file is found to be
\* up to date.
LEMMA ValidIsFound ==
    ASSUME IInv, prog # None, oldState # None, NEW f \in Files, f \in prog.files,
           NEW x, x # None, x \in {Candidate(oldState, f), OldResult(oldState, f)},
           x = Lint(prog, f, x.config)
    PROVE  LET r == TryReuseOldState IN r.old = oldState /\ IsFileUpToDate(r, f)
<1> DEFINE S == oldState.snap
           r == TryReuseOldState
<1>1. /\ prog \in Programs /\ oldState \in States /\ S \in Programs
      /\ status \in [Files -> DependencyState] /\ Seen = prog
  BY SeenIsProg DEF IInv, TypeOK, States
<1>2. f \in Indexed(S) /\ Id(S, f) = Id(prog, f) /\ UpToDate(S, prog, f) /\ GlobalsMatch(S, prog)
  BY <1>1, ValidIsUpToDate, IndexedFiles
<1>3. StatusesMatch(S, prog, status)
  BY DEF IInv, StatusesTrue
<1>4. r.old = oldState
  <2>1. CASE ~recheck
    BY <2>1 DEF TryReuseOldState
  <2>2. CASE recheck
    <3>1. \A g \in prog.global : g \in Files
      BY <1>1, ProgramFields
    <3>2. GlobalsUpToDate(S, prog, status)
      BY <1>1, <1>2, <1>3, <3>1, WalkCorrect DEF GlobalsUpToDate, GlobalsMatch
    <3> QED BY <1>1, <2>2, <3>2 DEF TryReuseOldState
  <2> QED BY <2>1, <2>2 DEF IInv, TypeOK
<1>5. /\ r.status \in [Files -> DependencyState]
      /\ StatusesMatch(r.old.snap, prog, r.status)
  BY <1>1, <1>4, ReuseCorrect
<1> HIDE DEF r
<1>6. WalkSucceeds(r.old.snap, prog, r.status, f)
  BY <1>1, <1>2, <1>4, <1>5, WalkCorrect
<1>7. r.old = oldState /\ IsFileUpToDate(r, f)
  BY <1>1, <1>2, <1>4, <1>6 DEF IsFileUpToDate, SameContent
<1> QED BY <1>7 DEF r

\* A file whose inputs and configuration did not change is not linted again: the answer
\* of getUpToDateResult is no less than what is known.
THEOREM NothingLintedTwice == Spec => NoNeedlessLint
<1>1. ASSUME IInv, [Next]_vars, reply' # None, reply' # reply, Valid(reply'.file),
             OldResult(oldState, reply'.file) # None,
             OldResult(oldState, reply'.file) = Lint(prog, reply'.file, reply'.config)
      PROVE  reply'.result # None
  <2>1. PICK f \in Linted, c \in Configs : GetUpToDateResult(f, c)
    BY <1>1 DEF Next, Steps, vars, Create, SetFileResult, Update, SaveMerged, SaveAggregated, Exit
  <2> DEFINE r == TryReuseOldState
             old == OldResult(r.old, f)
  <2>2. reply'.file = f /\ reply'.config = c
    BY <2>1 DEF GetUpToDateResult
  <2>3. f \in Files /\ f \in prog.files /\ prog # None /\ oldState # None
    BY <1>1, <2>1, <2>2, LintedAssumption DEF GetUpToDateResult, Valid
  <2>4. OldResult(oldState, f) # None /\ OldResult(oldState, f) = Lint(prog, f, c)
    BY <1>1, <2>2
  <2>5. OldResult(oldState, f).config = c
    BY <2>4 DEF Lint
  <2>6. r.old = oldState /\ IsFileUpToDate(r, f)
    BY <1>1, <2>3, <2>4, <2>5, ValidIsFound
  <2>7. reply'.result = IF /\ old # None /\ old.config = c /\ SameContent(r, f)
                           /\ WalkSucceeds(r.old.snap, prog, r.status, f)
                        THEN old ELSE None
    BY <1>1, <2>1, <2>3, SeenIsProg DEF GetUpToDateResult
  <2> QED BY <1>1, <2>3, SeenIsProg, <2>4, <2>5, <2>6, <2>7 DEF IsFileUpToDate
<1> QED BY <1>1, Invariance, PTL DEF Spec, NoNeedlessLint

\* What an operation does to a valid result.
Kept(f) ==
    /\ Written => disk'.res[f] = Candidate(oldState, f)
    /\ prog # None /\ prog' = prog
         => \/ Candidate(oldState, f)' = Candidate(oldState, f)
            \/ fileResults'[f] # None /\ fileResults'[f] # fileResults[f]

\* Asking keeps all results.
LEMMA GetKeeps ==
    ASSUME IInv, NEW f \in Files, Valid(f), NEW g \in Files, NEW c \in Configs, GetUpToDateResult(g, c)
    PROVE  Kept(f)
<1>1. prog # None /\ fileResults' = fileResults /\ disk' = disk /\ oldState' = TryReuseOldState.old
  BY DEF GetUpToDateResult
<1>2. TryReuseOldState.old = oldState
  BY <1>1, ValidIsFound DEF Valid
<1> QED BY <1>1, <1>2 DEF Kept, Written, Candidate

\* A new result replaces only that of its file, whether it is added to the old state or
\* the old state is merged with the results so far.
LEMMA SetKeeps ==
    ASSUME IInv, NEW f \in Files, Valid(f), NEW g \in Files, NEW c \in Configs, SetFileResult(g, c)
    PROVE  Kept(f)
<1> DEFINE r == TryReuseOldState
           x == Lint(prog, g, c)
<1>1. /\ prog # None /\ prog \in Programs /\ disk' = disk /\ fileResults \in Results
      /\ f \in prog.files /\ oldState # None /\ oldState \in States
      /\ Candidate(oldState, f) # None
  BY DEF SetFileResult, IInv, TypeOK, Valid
<1>2. r.old = oldState /\ IsFileUpToDate(r, f)
  BY <1>1, ValidIsFound DEF Valid
<1>3. x # None
  BY <1>1, LintType, NoneAssumption
<1> HIDE DEF r, x
<1>4. CASE IsFileUpToDate(r, g)
  <2>1. oldState' = oldState /\ fileResults' = [fileResults EXCEPT ![g] = x]
    BY <1>2, <1>4 DEF SetFileResult, r, x
  <2>2. CASE f = g
    BY <1>1, <1>3, <2>1, <2>2 DEF Kept, Written, Results, Candidate
  <2>3. CASE f # g
    BY <1>1, <2>1, <2>3 DEF Kept, Written, Results, Candidate
  <2> QED BY <2>2, <2>3
<1>5. CASE ~IsFileUpToDate(r, g)
  <2>1. oldState' = Aggregate(r) /\ fileResults' = [NoResults EXCEPT ![g] = x]
    BY <1>5 DEF SetFileResult, r, x
  <2>2. f # g
    BY <1>2, <1>5
  <2>3. fileResults'[f] = None
    BY <2>1, <2>2 DEF NoResults
  <2>4. Aggregate(r).res[f] = Candidate(oldState, f) /\ Aggregate(r) # None
    <3>1. Aggregate(r).res[f] = Candidate(r.old, f)
      BY <1>1, <1>2 DEF Aggregate
    <3>2. Aggregate(r) # None
      BY <1>1, AggregateCorrect, NoneAssumption DEF r
    <3> QED BY <1>2, <3>1, <3>2
  <2> QED BY <1>1, <2>1, <2>3, <2>4 DEF Kept, Written, Candidate, OldResult
<1> QED BY <1>4, <1>5

\* Saving writes all valid results and keeps them.
LEMMA SaveKeeps ==
    ASSUME IInv, NEW f \in Files, Valid(f), SaveMerged \/ SaveAggregated
    PROVE  Kept(f)
<1>1. /\ prog # None /\ prog \in Programs /\ oldState # None /\ oldState \in States /\ f \in prog.files
      /\ Candidate(oldState, f) # None
  BY DEF SaveMerged, SaveAggregated, IInv, TypeOK, Valid
<1>2. TryReuseOldState.old = oldState /\ IsFileUpToDate(TryReuseOldState, f)
  BY <1>1, ValidIsFound DEF Valid
<1>3. CASE SaveMerged
  BY <1>1, <1>3 DEF SaveMerged, WriteState, Kept, Written, Candidate, States
<1>4. CASE SaveAggregated
  <2>1. /\ disk' \in {Aggregate(TryReuseOldState), disk, Corrupt}
        /\ oldState' = TryReuseOldState.old /\ fileResults' = fileResults
    BY <1>4 DEF SaveAggregated, WriteState
  <2>2. Aggregate(TryReuseOldState).res[f] = Candidate(oldState, f)
    BY <1>1, <1>2 DEF Aggregate
  <2> QED BY <1>2, <2>1, <2>2 DEF Kept, Written, Candidate
<1> QED BY <1>3, <1>4

\* Merging results into a new state and saving lose no result that is still valid, not
\* even if other files have changed or the old state is replaced.
THEOREM NothingValidLost == Spec => KeepsValidResults
<1>1. ASSUME IInv, [Next]_vars, NEW f \in Files, Valid(f)
      PROVE  Kept(f)
  <2>1. ASSUME NEW P \in Programs, Create(P)
        PROVE  Kept(f)
    BY <2>1 DEF Create, Kept, Written
  <2>2. ASSUME NEW g \in Linted, NEW c \in Configs, GetUpToDateResult(g, c)
        PROVE  Kept(f)
    BY <1>1, <2>2, GetKeeps, LintedAssumption
  <2>3. ASSUME NEW g \in Linted, NEW c \in Configs, SetFileResult(g, c)
        PROVE  Kept(f)
    BY <1>1, <2>3, SetKeeps, LintedAssumption
  <2>4. ASSUME NEW u \in Linted, NEW P \in Programs, Update(u, P)
        PROVE  Kept(f)
    BY <2>4 DEF Update, Kept, Written, Candidate
  <2>5. CASE SaveMerged \/ SaveAggregated
    BY <1>1, <2>5, SaveKeeps
  <2>6. CASE Exit
    BY <2>6 DEF Exit, Kept, Written
  <2>7. CASE UNCHANGED vars
    BY <2>7 DEF vars, Kept, Written, Candidate
  <2> QED BY <1>1, <2>1, <2>2, <2>3, <2>4, <2>5, <2>6, <2>7 DEF Next, Steps
<1>2. IInv /\ [Next]_vars =>
        [\A f \in Files : Valid(f) =>
            /\ Written => disk'.res[f] = Candidate(oldState, f)
            /\ prog # None /\ prog' = prog
                 => \/ Candidate(oldState, f)' = Candidate(oldState, f)
                    \/ fileResults'[f] # None /\ fileResults'[f] # fileResults[f]]_vars
  BY <1>1 DEF Kept
<1> QED BY <1>2, Invariance, PTL DEF Spec, KeepsValidResults
=============================================================================
