--------------------------- MODULE MCAugmentation ---------------------------
(***************************************************************************)
(* An instance of ProgramState where a fix makes a file leave the program  *)
(* although another one still resolves to it.                              *)
(***************************************************************************)
EXTENDS ProgramState

CONSTANTS a, b, c, s, augmentations

DirectOnly ==
    [ts |-> "4.2", project |-> <<"p">>, options |-> [assumeChangesOnlyAffectDirectDependencies |-> TRUE]]

MCEnvs == {DirectOnly}

MCVersions == Files \X {1, 2}

\* b augments the module c (declare module './c'), which TypeScript loads only because a
\* imports it, too. A fix removes that import. Whoever resolves to c depends on b as well.
Program(imported) ==
    LET files == IF imported THEN Files ELSE Files \ {c}
        importers == IF imported THEN {a, b} ELSE {b}
        version(f) == <<f, IF f = a /\ ~imported THEN 2 ELSE 1>>
    IN  [env |-> DirectOnly, files |-> files, global |-> {},
         ver |-> [f \in Files |-> version(f)],
         id |-> [f \in Files |-> IF f \in files THEN version(f) ELSE NA],
         deps |-> [f \in Files |->
                     [k \in Specs |-> IF k = s THEN IF f \in importers THEN {b, c} ELSE {}
                                      ELSE IF f = c /\ imported THEN {b} ELSE {}]]]

Augmented == {Program(TRUE), Program(FALSE)}
-----------------------------------------------------------------------------
\* The files the runner has looked at in this run. It asks for the result of a file, may fix
\* it and stores the new result before it turns to the next one.
VARIABLE visited

Start == Create(Program(TRUE)) /\ visited' = <<>>

Visit ==
    \E f \in Linted, config \in Configs :
        /\ \A i \in DOMAIN visited : visited[i] # f
        /\ GetUpToDateResult(f, config)
        /\ visited' = Append(visited, f)

LintVisited ==
    /\ visited # <<>>
    /\ LET f == visited[Len(visited)] IN
       \/ \E config \in Configs : SetFileResult(f, config)
       \/ reply # None /\ f = a /\ Update(f, Program(FALSE))
    /\ UNCHANGED visited

End == (SaveMerged \/ SaveAggregated \/ Exit) /\ UNCHANGED visited

RunnerSpec == Init /\ visited = <<>> /\ [][Start \/ Visit \/ LintVisited \/ End]_<<vars, visited>>

\* A result is not used again if a dependency left the program since: "A file is treated
\* as outdated [if a] dependency is added or removed" (packages/wotan/README.md:244-254).
RemovedDependencyOutdates == NoStaleReuse
=============================================================================
