------------------------- MODULE ProgramGraphProofs -------------------------
(***************************************************************************)
(* Lemmas about programs, what is hashed of their environment, and the     *)
(* files a walk over their dependencies visits.                            *)
(***************************************************************************)
EXTENDS ProgramGraph, TLAPS

-----------------------------------------------------------------------------
(* Reachability                                                            *)

\* Every file reaches itself.
LEMMA ReachRefl ==
    ASSUME NEW E, NEW f \in Files
    PROVE  f \in Reach(E, f)
  BY DEF Reach

\* Reach is the least closed set containing the file.
LEMMA ReachLeast ==
    ASSUME NEW E, NEW f, NEW X \in SUBSET Files, f \in X, Closed(E, X)
    PROVE  Reach(E, f) \subseteq X
  BY DEF Reach

\* What can be reached is closed under the edges.
LEMMA ReachClosed ==
    ASSUME NEW E \in [Files -> SUBSET Files], NEW f
    PROVE  Closed(E, Reach(E, f)) /\ Reach(E, f) \in SUBSET Files
  BY DEF Reach, Closed

\* Reachability is transitive.
LEMMA ReachTrans ==
    ASSUME NEW E \in [Files -> SUBSET Files], NEW f, NEW g \in Reach(E, f)
    PROVE  Reach(E, g) \subseteq Reach(E, f)
  BY ReachClosed, ReachLeast

\* Programs have the fields they are used with.
LEMMA ProgramFields ==
    ASSUME NEW P \in Programs
    PROVE  /\ P.files \in SUBSET Files
           /\ P.ver \in [Files -> Versions]
           /\ P.deps \in [Files -> [Specs -> {Null} \union SUBSET Files]]
           /\ P.global \in SUBSET P.files
           /\ \A f \in Files : Targets(P, f) \in SUBSET Files
           /\ \A f \in Files \ P.files : Targets(P, f) = {}
           /\ Edges(P) \in [Files -> SUBSET Files]
<1>1. /\ P.files \in SUBSET Files
      /\ P.ver \in [Files -> Versions]
      /\ P.deps \in [Files -> [Specs -> {Null} \union SUBSET Files]]
      /\ P.global \in SUBSET P.files
  BY ProgramsAssumption
<1>2. ASSUME NEW f \in Files, NEW k \in Specs
      PROVE  Resolved(P, f, k) \in SUBSET Files
  <2>1. P.deps[f][k] \in {Null} \union SUBSET Files
    BY <1>1
  <2> QED BY <2>1 DEF Resolved
<1>3. \A f \in Files : Targets(P, f) \in SUBSET Files
  BY <1>2 DEF Targets
<1>4. ASSUME NEW f \in Files \ P.files
      PROVE  Targets(P, f) = {}
  <2>1. \A k \in Specs : Resolved(P, f, k) = {}
    BY ProgramsAssumption DEF Resolved
  <2> QED BY <2>1 DEF Targets
<1> QED BY <1>1, <1>3, <1>4 DEF Edges

\* The ids of a program are those of the contents of its files.
LEMMA ProgramIds ==
    ASSUME NEW P \in Programs
    PROVE  /\ P.id \in [Files -> Versions \union {NA}]
           /\ \A f \in Files : Id(P, f) = IF f \in P.files THEN P.ver[f] ELSE NA
  BY ProgramsAssumption DEF Id

\* Equal lists of ids contain the same ids.
LEMMA SameIds ==
    ASSUME NEW S, NEW P, NEW D, NEW D2, IdList(S, D) = IdList(P, D2)
    PROVE  {Id(S, g) : g \in D} = {Id(P, g) : g \in D2}
<1>1. DOMAIN IdList(S, D) = {Id(S, g) : g \in D} /\ DOMAIN IdList(P, D2) = {Id(P, g) : g \in D2}
  BY DEF IdList
<1> QED BY <1>1

-----------------------------------------------------------------------------
(* Environments                                                            *)

\* What is hashed of an environment.
LEMMA HashedOptions ==
    ASSUME NEW e
    PROVE  LET H == OptionsHash(e)
               opts == e.options
           IN  /\ DOMAIN H = DOMAIN opts \cap
                      {"strict", "assumeChangesOnlyAffectDirectDependencies", "baseUrl", "rootDirs"}
               /\ \A o \in DOMAIN opts \cap {"strict", "assumeChangesOnlyAffectDirectDependencies"} :
                      H[o] = opts[o]
               /\ "baseUrl" \in DOMAIN opts => H["baseUrl"] = Relative(e.project, opts["baseUrl"])
               /\ "rootDirs" \in DOMAIN opts => H["rootDirs"] = RelativePaths(e.project, opts["rootDirs"])
<1>1. DOMAIN compilerOptionKinds =
        {"strict", "assumeChangesOnlyAffectDirectDependencies", "baseUrl", "rootDirs", "tsBuildInfoFile"}
  BY DEF compilerOptionKinds
<1>2. /\ compilerOptionKinds["strict"] = "Value"
      /\ compilerOptionKinds["assumeChangesOnlyAffectDirectDependencies"] = "Value"
      /\ compilerOptionKinds["baseUrl"] = "Path"
      /\ compilerOptionKinds["rootDirs"] = "PathArray"
      /\ compilerOptionKinds["tsBuildInfoFile"] = "Ignore"
  BY DEF compilerOptionKinds
<1> QED BY <1>1, <1>2 DEF OptionsHash

\* Whatever is hashed of an option is what a rule can find out about it.
LEMMA EffectOfOptions ==
    ASSUME NEW e
    PROVE  LET H == OptionsHash(e)
               of(o) == {H[x] : x \in {o} \cap DOMAIN H}
           IN  /\ Option(e, "strict") = of("strict")
               /\ Option(e, "assumeChangesOnlyAffectDirectDependencies")
                     = of("assumeChangesOnlyAffectDirectDependencies")
               /\ {Relative(e.project, path) : path \in Option(e, "baseUrl")} = of("baseUrl")
               /\ {RelativePaths(e.project, paths) : paths \in Option(e, "rootDirs")} = of("rootDirs")
<1> DEFINE H == OptionsHash(e)
           of(o) == {H[x] : x \in {o} \cap DOMAIN H}
<1>1. ASSUME NEW o \in {"strict", "assumeChangesOnlyAffectDirectDependencies"}
      PROVE  Option(e, o) = of(o)
  <2>1. o \in DOMAIN H <=> o \in DOMAIN e.options
    BY HashedOptions
  <2>2. o \in DOMAIN e.options => H[o] = e.options[o]
    BY HashedOptions
  <2> QED BY <2>1, <2>2 DEF Option
<1>2. {Relative(e.project, path) : path \in Option(e, "baseUrl")} = of("baseUrl")
  <2>1. "baseUrl" \in DOMAIN H <=> "baseUrl" \in DOMAIN e.options
    BY HashedOptions
  <2>2. "baseUrl" \in DOMAIN e.options => H["baseUrl"] = Relative(e.project, e.options["baseUrl"])
    BY HashedOptions
  <2> QED BY <2>1, <2>2 DEF Option
<1>3. {RelativePaths(e.project, paths) : paths \in Option(e, "rootDirs")} = of("rootDirs")
  <2>1. "rootDirs" \in DOMAIN H <=> "rootDirs" \in DOMAIN e.options
    BY HashedOptions
  <2>2. "rootDirs" \in DOMAIN e.options => H["rootDirs"] = RelativePaths(e.project, e.options["rootDirs"])
    BY HashedOptions
  <2> QED BY <2>1, <2>2 DEF Option
<1> QED BY <1>1, <1>2, <1>3

\* Equal hashes are those of environments that rules cannot tell apart.
LEMMA SameEffect ==
    ASSUME NEW S, NEW P, SameEnvironment(S, P)
    PROVE  Effect(S.env) = Effect(P.env) /\ (Direct(S) <=> Direct(P))
<1> DEFINE H(Q) == OptionsHash(Q.env)
           of(Q, o) == {H(Q)[x] : x \in {o} \cap DOMAIN H(Q)}
<1>1. S.env.ts = P.env.ts /\ H(S) = H(P)
  BY DEF SameEnvironment
<1>2. \A o : of(S, o) = of(P, o)
  BY <1>1
<1>3. ASSUME NEW Q
      PROVE  /\ Option(Q.env, "strict") = of(Q, "strict")
             /\ Option(Q.env, "assumeChangesOnlyAffectDirectDependencies")
                   = of(Q, "assumeChangesOnlyAffectDirectDependencies")
             /\ {Relative(Q.env.project, path) : path \in Option(Q.env, "baseUrl")} = of(Q, "baseUrl")
             /\ {RelativePaths(Q.env.project, paths) : paths \in Option(Q.env, "rootDirs")} = of(Q, "rootDirs")
  BY EffectOfOptions
<1> HIDE DEF of, H
<1>4. /\ Option(S.env, "strict") = Option(P.env, "strict")
      /\ Option(S.env, "assumeChangesOnlyAffectDirectDependencies")
           = Option(P.env, "assumeChangesOnlyAffectDirectDependencies")
  BY <1>2, <1>3
<1>5. {Relative(S.env.project, path) : path \in Option(S.env, "baseUrl")}
        = {Relative(P.env.project, path) : path \in Option(P.env, "baseUrl")}
  BY <1>2, <1>3
<1>6. {RelativePaths(S.env.project, paths) : paths \in Option(S.env, "rootDirs")}
        = {RelativePaths(P.env.project, paths) : paths \in Option(P.env, "rootDirs")}
  BY <1>2, <1>3
<1> QED BY <1>1, <1>4, <1>5, <1>6 DEF Effect, Direct

\* Environments that rules cannot tell apart have equal hashes, wherever the project is.
LEMMA SameHash ==
    ASSUME NEW S, NEW P, Effect(S.env) = Effect(P.env)
    PROVE  SameEnvironment(S, P)
<1> DEFINE H(Q) == OptionsHash(Q.env)
           of(Q, o) == {H(Q)[x] : x \in {o} \cap DOMAIN H(Q)}
           Hashed == {"strict", "assumeChangesOnlyAffectDirectDependencies", "baseUrl", "rootDirs"}
<1>1. S.env.ts = P.env.ts
  BY DEF Effect
<1>2. /\ Option(S.env, "strict") = Option(P.env, "strict")
      /\ Option(S.env, "assumeChangesOnlyAffectDirectDependencies")
           = Option(P.env, "assumeChangesOnlyAffectDirectDependencies")
      /\ {Relative(S.env.project, path) : path \in Option(S.env, "baseUrl")}
           = {Relative(P.env.project, path) : path \in Option(P.env, "baseUrl")}
      /\ {RelativePaths(S.env.project, paths) : paths \in Option(S.env, "rootDirs")}
           = {RelativePaths(P.env.project, paths) : paths \in Option(P.env, "rootDirs")}
  BY DEF Effect
<1>3. \A o \in Hashed : of(S, o) = of(P, o)
  BY <1>2, EffectOfOptions
<1>4. \A o \in Hashed : /\ o \in DOMAIN H(S) <=> o \in DOMAIN H(P)
                        /\ o \in DOMAIN H(S) => H(S)[o] = H(P)[o]
  BY <1>3
<1>5. DOMAIN H(S) \subseteq Hashed /\ DOMAIN H(P) \subseteq Hashed
  BY HashedOptions
<1>6. DOMAIN H(S) = DOMAIN H(P) /\ \A o \in DOMAIN H(S) : H(S)[o] = H(P)[o]
  BY <1>4, <1>5
<1>7. H(S) = [o \in DOMAIN H(S) |-> H(S)[o]] /\ H(P) = [o \in DOMAIN H(P) |-> H(P)[o]]
  BY DEF OptionsHash
<1> QED BY <1>1, <1>6, <1>7 DEF SameEnvironment

-----------------------------------------------------------------------------
(* Walks                                                                   *)

\* The edges a walk follows are edges of the old state.
LEMMA OpenEdgesType ==
    ASSUME NEW S \in Programs, NEW P, NEW st
    PROVE  /\ OpenEdges(S, P, st) \in [Files -> SUBSET Files]
           /\ \A h \in Files : OpenEdges(S, P, st)[h] \subseteq Edges(S)[h]
  BY ProgramFields DEF OpenEdges

\* A walk stays within what can be reached.
LEMMA OpenReach ==
    ASSUME NEW S \in Programs, NEW P, NEW st, NEW f \in Files
    PROVE  Reach(OpenEdges(S, P, st), f) \subseteq Reach(Edges(S), f)
<1>1. Closed(Edges(S), Reach(Edges(S), f)) /\ Reach(Edges(S), f) \in SUBSET Files
  BY ReachClosed, ProgramFields
<1>2. Closed(OpenEdges(S, P, st), Reach(Edges(S), f))
  BY <1>1, OpenEdgesType DEF Closed
<1> QED BY <1>1, <1>2, ReachRefl, ReachLeast

\* With true statuses the walk answers whether the file is up to date, however much
\* of it is skipped because of what is known already.
LEMMA WalkDecides ==
    ASSUME NEW S \in Programs, NEW P \in Programs, NEW st \in [Files -> DependencyState],
           NEW f \in Files,
           \A g \in Files : (st[g] = "Ok" => UpToDate(S, P, g)) /\ (st[g] = "Outdated" => ~UpToDate(S, P, g))
    PROVE  WalkSucceeds(S, P, st, f) <=> UpToDate(S, P, f)
<1> DEFINE O == OpenEdges(S, P, st)
           E == Edges(S)
<1>0. E \in [Files -> SUBSET Files]
  BY ProgramFields
<1>1. ASSUME WalkSucceeds(S, P, st, f)
      PROVE  UpToDate(S, P, f)
  <2> DEFINE Y == {h \in Files : \/ h \in Reach(O, f)
                                 \/ \E g \in Reach(O, f) : st[g] = "Ok" /\ h \in Reach(E, g)}
  <2>1. f \in Y
    BY ReachRefl
  <2>2. Closed(E, Y)
    <3> SUFFICES ASSUME NEW h \in Y, NEW t \in E[h]
                 PROVE  t \in Y
      BY DEF Closed
    <3>0. t \in Files
      BY <1>0
    <3>1. CASE h \in Reach(O, f) /\ st[h] = "Unknown"
      <4>1. h \in S.files
        BY ProgramFields DEF Edges
      <4>2. SameDeps(S, P, h)
        BY <1>1, <3>1, <4>1 DEF WalkSucceeds
      <4>3. t \in O[h]
        BY <3>1, <4>2 DEF OpenEdges
      <4>4. t \in Reach(O, f)
        BY <3>1, <4>3, ReachClosed, OpenEdgesType DEF Closed
      <4> QED BY <4>4, <3>0
    <3>2. CASE h \in Reach(O, f) /\ st[h] = "Ok"
      <4>1. t \in Reach(E, h)
        BY ReachRefl, ReachClosed, ProgramFields DEF Closed
      <4> QED BY <3>2, <4>1, <3>0
    <3>3. CASE h \notin Reach(O, f)
      <4>1. PICK g \in Reach(O, f) : st[g] = "Ok" /\ h \in Reach(E, g)
        BY <3>3
      <4>2. t \in Reach(E, g)
        BY <4>1, ReachClosed, ProgramFields DEF Closed
      <4> QED BY <4>1, <4>2, <3>0
    <3>4. h \in Reach(O, f) => st[h] \in {"Unknown", "Ok"}
      BY <1>1 DEF WalkSucceeds, DependencyState
    <3> QED BY <3>1, <3>2, <3>3, <3>4
  <2>3. Reach(E, f) \subseteq Y
    BY <2>1, <2>2, ReachLeast
  <2>4. ASSUME NEW g \in S.files \cap Reach(E, f)
        PROVE  SameDeps(S, P, g)
    <3>0. g \in Files
      BY <2>3
    <3>1. CASE g \in Reach(O, f) /\ st[g] = "Unknown"
      BY <1>1, <3>1 DEF WalkSucceeds
    <3>2. CASE g \in Reach(O, f) /\ st[g] = "Ok"
      BY <3>0, <3>2, ReachRefl DEF UpToDate
    <3>3. CASE \E h \in Reach(O, f) : st[h] = "Ok" /\ g \in Reach(E, h)
      BY <3>3, ReachClosed, OpenEdgesType DEF UpToDate
    <3>4. g \in Reach(O, f) => st[g] \in {"Unknown", "Ok"}
      BY <1>1, <3>0 DEF WalkSucceeds, DependencyState
    <3> QED BY <2>3, <3>1, <3>2, <3>3, <3>4
  <2> QED BY <2>4 DEF UpToDate
<1>2. ASSUME UpToDate(S, P, f)
      PROVE  WalkSucceeds(S, P, st, f)
  <2> SUFFICES ASSUME NEW g \in Reach(O, f)
               PROVE  /\ st[g] # "Outdated"
                      /\ g \in S.files => SameDeps(S, P, g)
    BY DEF WalkSucceeds
  <2>1. g \in Reach(E, f) /\ g \in Files
    BY OpenReach, ReachClosed, OpenEdgesType
  <2>2. UpToDate(S, P, g)
    BY <1>2, <2>1, ReachTrans, ProgramFields DEF UpToDate
  <2> QED BY <1>2, <2>1, <2>2 DEF UpToDate
<1> QED BY <1>1, <1>2
=============================================================================
