--------------------------- MODULE MCProgramState ---------------------------
(***************************************************************************)
(* Instances of ProgramState for TLC: families of programs over the files  *)
(* "a", "b", "c".                                                          *)
(***************************************************************************)
EXTENDS CompletePrograms, TLC

ABC == {"a", "b", "c"}

MCVersions == Files \X {1, 2} \X BOOLEAN

\* A program where the one specifier of every file in DOMAIN imports resolves as
\* given; the files in edited have their second content. A file with an import has
\* another content than one without.
Program(env, files, edited, imports, globals) ==
    LET version(f) == <<f, IF f \in edited THEN 2 ELSE 1, f \in DOMAIN imports>> IN
    [env |-> env, files |-> files,
     ver |-> [f \in Files |-> version(f)],
     id |-> [f \in Files |-> IF f \in files THEN version(f) ELSE NA],
     deps |-> [f \in Files |->
                 [k \in Specs |-> IF f \in DOMAIN imports THEN imports[f] ELSE {}]],
     global |-> globals]

\* A project in directory dir
Project(dir, options) == [ts |-> "4.2", project |-> dir, options |-> options]

Plain == Project(<<"p">>, "strict" :> TRUE @@ "baseUrl" :> <<"p", "src">>)

\* The project has been moved, another file is used for incremental builds.
Moved ==
    Project(<<"q", "p">>, "strict" :> TRUE @@ "baseUrl" :> <<"q", "p", "src">>
                            @@ "tsBuildInfoFile" :> <<"tmp">>)

\* The project has not been moved.
Incremental ==
    Project(<<"p">>, "strict" :> TRUE @@ "baseUrl" :> <<"p", "src">> @@ "tsBuildInfoFile" :> <<"tmp">>)

\* Modules are looked up outside of the project.
Outside == Project(<<"p">>, "strict" :> TRUE @@ "baseUrl" :> <<"lib">> @@ "rootDirs" :> <<<<"lib">>, <<"p">>>>)

DirectOnly == Project(<<"p">>, "assumeChangesOnlyAffectDirectDependencies" :> TRUE)

AllEnvs == {Plain, Moved, Incremental, Outside, DirectOnly}

Chain == "a" :> {"b"} @@ "b" :> {"c"}

\* a imports b imports c, only a and b are linted. Between programs c is edited and then may
\* close a cycle, b loses its import, whereupon c leaves the program, or the import of a no
\* longer resolves. In the incremental builds b augments the module c but
\* nothing imports it, so it is resolved without being a part of the program.
ImportPrograms ==
    {Program(Plain, ABC, edited, Chain, {}) : edited \in {{}, {"c"}}}
    \union {Program(Plain, ABC, {"c"}, Chain @@ "c" :> {"a"}, {}),
            Program(Plain, {"a", "b"}, {"b"}, "a" :> {"b"}, {}),
            Program(Incremental, {"a", "b"}, {}, Chain, {}),
            Program(Plain, ABC, {}, "a" :> Null @@ "b" :> {"c"}, {})}

\* a imports b. c affects the global scope unless it is turned into a module.
GlobalPrograms ==
    {Program(Plain, ABC, edited, "a" :> {"b"}, {"c"}) : edited \in {{}, {"a"}, {"b"}, {"c"}}}
    \union {Program(DirectOnly, ABC, edited, "a" :> {"b"}, {"c"}) : edited \in {{}, {"c"}}}
    \union {Program(env, ABC, {"c"}, "a" :> {"b"} @@ "c" :> {}, {}) : env \in {Plain, DirectOnly}}
    \union {Program(env, ABC, {}, "a" :> {"b"}, {"c"}) : env \in {Moved, Outside}}

AllPrograms == ImportPrograms \union GlobalPrograms
-----------------------------------------------------------------------------
\* A behaviour has the programs of one family, and lints what that family is about.
VARIABLE family

all == <<family, vars>>

AnyInit == family \in {"imports", "globals"} /\ Init

ImportStep == family = "imports" /\ Steps(ImportPrograms, {"a", "b"}, {"c1"}) /\ UNCHANGED family

GlobalStep == family = "globals" /\ Steps(GlobalPrograms, {"a"}, {"c1", "c2"}) /\ UNCHANGED family

AnySpec == AnyInit /\ [][ImportStep \/ GlobalStep]_all
=============================================================================
