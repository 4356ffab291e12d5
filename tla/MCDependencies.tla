---------------------------- MODULE MCDependencies ----------------------------
(***************************************************************************)
(* The walk over the dependencies and the resolver that finds them, for    *)
(* TLC. They have no state in common; a behaviour is one of either while   *)
(* the other one stays in an initial state.                                *)
(***************************************************************************)
EXTENDS DependencyCheck, DependencyResolver, TLC

CONSTANTS a, b, c, d, s, t, importer, declarer, imported, out

-----------------------------------------------------------------------------
(* Families of dependency graphs before and after a change                 *)

\* Without options, or with assumeChangesOnlyAffectDirectDependencies
Options(options) == [ts |-> "4.2", project |-> <<"p">>, options |-> options]

full == Options(<<>>)
direct == Options([assumeChangesOnlyAffectDirectDependencies |-> TRUE])

MCEnvs == {full, direct}

AllPrograms == UNION {{I[1], I[2]} : I \in Instances}

Program(env, files, deps, edited) ==
    LET version(f) == <<f, IF f \in edited THEN 2 ELSE 1>> IN
    [env |-> env, files |-> files, global |-> {},
     ver |-> [f \in Files |-> version(f)],
     id |-> [f \in Files |-> IF f \in files THEN version(f) ELSE NA], deps |-> deps]

\* Every file has its own content, except that an edited one got a new one.
Contents == Files \X {1, 2}

\* The specifiers of the files in broken no longer resolve.
Break(deps, broken) ==
    [f \in Files |-> IF f \in broken THEN [deps[f] EXCEPT ![s] = Null] ELSE deps[f]]

Imports(edges) == [f \in Files |-> [k \in Specs |-> IF k = s THEN edges[f] ELSE {}]]

\* All graphs where each of the given files imports at most two of the others
Graphs(files) ==
    {g \in [Files -> {X \in SUBSET files : Cardinality(X) <= 2}] :
        \A f \in Files : f \notin g[f] /\ (f \notin files => g[f] = {})}

SumCardinality(g) == FoldSet(LAMBDA f, sum : Cardinality(g[f]) + sum, 0, Files)

\* The graphs and broken files that result from renaming files
Renamed(g, broken) ==
    {<<[f \in Files |-> {p[h] : h \in g[CHOOSE e \in Files : p[e] = f]}], {p[f] : f \in broken}>> :
        p \in Permutations(Files)}

\* All graphs of four files with at most six imports but for their names, at most one file broken
FourFiles ==
    {<<Program(full, Files, Imports(r[1]), {}), Program(full, Files, Break(Imports(r[1]), r[2]), {})>> :
        r \in {CHOOSE r \in Renamed(g, broken) : TRUE :
                  g \in {g \in Graphs(Files) : SumCardinality(g) <= 6}, broken \in {{}} \union {{f} : f \in Files}}}

\* A second specifier of a may resolve to the same files as the first or to a itself;
\* with or without assumeChangesOnlyAffectDirectDependencies. c is edited or broken.
TwoSpecifiers ==
    {<<Program(env, {a, b, c}, deps, {}), Program(env, {a, b, c}, Break(deps, change[1]), change[2])>> :
        deps \in {[Imports(g) EXCEPT ![a][t] = more] :
                    g \in Graphs({a, b, c}), more \in {{a}, {a, b}}},
        change \in {<<{}, {}>>, <<{c}, {}>>, <<{}, {c}>>}, env \in Envs}

MCInstances == FourFiles \union TwoSpecifiers

ASSUME DistinctContents == ContentsDiffer

-----------------------------------------------------------------------------
(* A file that imports, one that declares or augments modules, and one     *)
(* that is imported, which may be the source of an output of a project.    *)

Text(imports, ambient, isModule, kinds) ==
    [imports |-> imports, ambient |-> ambient, isModule |-> isModule, kinds |-> kinds]

\* "./c" resolves to out, the output of imported; "w*" and "wx*" are patterns
MCResolvedName == [f \in SourceNames |-> [m \in ModuleNames |-> IF m = "./c" THEN out ELSE Unresolved]]
MCMatches == "w*" :> {"wx", "w*"} @@ "wx*" :> {"wx"}
MCPrefixLength == "w*" :> 1 @@ "wx*" :> 2
MCProjectOf == [f \in SourceNames |-> IF f = out THEN "project" ELSE Unresolved]
MCSourceOf == out :> imported
MCOutFileOf == "project" :> Unresolved

MCTextsOf ==
    importer :> {Text({"./c", "wx"}, {}, TRUE, {"other"}), Text({"m"}, {"m", "wx*"}, FALSE, {"global"})}
    @@ declarer :> {Text({}, {"m", "w*"}, FALSE, {}), Text({}, {"./c", "m", "wx"}, TRUE, {"nested"})}
    @@ imported :> {Text({"m"}, {"w*"}, FALSE, {"other"})}
    @@ out :> {Text({}, {}, TRUE, {})}
-----------------------------------------------------------------------------
VARIABLE machine

all == <<machine, vars, resolverVars>>

AnInstance == CHOOSE I \in TwoSpecifiers : TRUE

AnyInit ==
    /\ \/ /\ machine = "walk"
          /\ sources = {}
          /\ texts = [f \in SourceNames |-> CHOOSE text \in TextsOf[f] : TRUE]
       \/ /\ machine = "resolver"
          /\ old = AnInstance[1]
          /\ new = AnInstance[2]
    /\ Init
    /\ ResolverInit

WalkStep == machine = "walk" /\ Step /\ UNCHANGED <<machine, resolverVars>>

WalkAsked == machine = "walk" /\ (\E f \in Files : Ask(f)) /\ UNCHANGED <<machine, resolverVars>>

ResolverStep == machine = "resolver" /\ ResolverNext /\ UNCHANGED <<machine, vars>>

AnySpec == AnyInit /\ [][WalkStep \/ WalkAsked \/ ResolverStep]_all /\ WF_all(WalkStep)
=============================================================================
