------------------------------ MODULE MCProjects ------------------------------
(***************************************************************************)
(* An instance of Projects for TLC: a solution with an application, a      *)
(* library the application references, and processed files.               *)
(***************************************************************************)
EXTENDS Projects

R == <<"r">>
App == <<"r", "app">>
Lib == <<"r", "lib">>
Out == <<"r", "out">>
Gone == <<"r", "gone">>
Types == <<"r", "types">>
LibDir == <<"ts">>

Path(dir, base, ext) == [dir |-> dir, base |-> <<base>>, ext |-> ext]

ats == Path(App, "a", "ts")
v == Path(App, "v", "vue")
d == Path(App, "d", "json")
md == Path(App, "r", "md")
l == Path(Lib, "l", "ts")
w == Path(Lib, "w", "vue")
missing == Path(Lib, "m", "ts")
ldts == Path(Out, "l", "d.ts")
AllPaths == <<ats, v, d, md, l, w, ldts, Path(LibDir, "lib", "d.ts"), Path(Types, "t", "d.ts"), Path(App, "x", "d.ts"),
           Path(Types, "ext", "ts")>>

\* v is a Vue component, md has a processor that does not make it TypeScript
Vue(excluded) == [excluded |-> excluded, processors |-> v :> <<"ts">> @@ w :> <<"ts">> @@ md :> <<"txt">> @@ l :> <<>>]
Unconfigured == [excluded |-> {}, processors |-> <<>>]

ProjectOf(files, include, composite, references) ==
    [files |-> files, include |-> include, composite |-> composite, references |-> references, imported |-> <<>>,
     outDir |-> Absent, rootDir |-> Absent, outFile |-> Absent, typeRoots |-> {}]

\* What the application imports: the output of the library, lib.d.ts, types, JSON, a library and a declaration of its own
AppImports == <<Path(Types, "ext", "ts"), d, ldts, Path(LibDir, "lib", "d.ts"), Path(Types, "t", "d.ts")>>

Code(composite, listed, refs, vueConfig) ==
    [files      |-> AllPaths,
     external   |-> {Path(Types, "ext", "ts")},
     generated  |-> {ldts},
     configFor  |-> [f \in ToSet(AllPaths) |-> IF f.dir = App THEN Vue({}) ELSE IF f.dir = Lib THEN vueConfig ELSE Unconfigured],
     projects   |-> R :> ProjectOf(<<>>, {}, FALSE, <<App, Lib>>)
                    @@ App :> [ProjectOf(<<>>, {App}, composite, <<Lib>>) EXCEPT !.imported = AppImports, !.typeRoots = {Types}]
                    @@ Lib :> [ProjectOf(listed, {}, TRUE, refs) EXCEPT !.outDir = Out]]

wts == WithSuffix(w, <<"ts">>)

MCInstances ==
    {Code(composite, listed, refs, config) :
        composite \in BOOLEAN, listed \in {<<l, wts>>, <<missing, l>>}, refs \in {<<>>, <<App>>, <<Gone, R>>},
        config \in {Vue({l}), Invalid, Absent}}

Pattern(magic, matches) == [magic |-> magic, matches |-> matches]

PatternLists == {<<>>, <<Pattern(FALSE, {ats})>>, <<Pattern(TRUE, {v, w, md}), Pattern(FALSE, {missing})>>,
                 <<Pattern(FALSE, {l}), Pattern(TRUE, {v, d})>>}

MCOtherLookups == {{}, {App, Lib}}

MCOptionsOf ==
    [c \in MCInstances |->
        {[project |-> project, patterns |-> patterns, exclude |-> exclude, references |-> how[1],
          cwd |-> App, config |-> how[2], extensions |-> {"json"}] :
            project \in {<<>>, <<App, Lib>>, <<R>>, <<R, Gone>>}, patterns \in PatternLists,
            exclude \in {{}, {v, missing}},
            how \in {<<TRUE, Absent>>, <<FALSE, Absent>>, <<TRUE, Vue({})>>, <<FALSE, Unconfigured>>}}]
===============================================================================
