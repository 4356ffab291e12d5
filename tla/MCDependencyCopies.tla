------------------------- MODULE MCDependencyCopies -------------------------
(***************************************************************************)
(* An instance of DependencyCheck where files have the same content.       *)
(***************************************************************************)
EXTENDS DependencyCheck

CONSTANTS a, b, c, d, e, s

full == [ts |-> "4.2", project |-> <<"p">>, options |-> <<>>]

MCEnvs == {full}

AllPrograms == UNION {{I[1], I[2]} : I \in Instances}

Contents == Files \X {1, 2}

\* b and d have the same content, and so have c and e before c is edited. b imports c,
\* d imports e. The import of a resolves to b, after the change to d.
Copies ==
    LET version(f, edited) == IF f \in edited THEN <<f, 2>>
                              ELSE <<IF f = d THEN b ELSE IF f = e THEN c ELSE f, 1>>
        program(target, edited) ==
            [env |-> full, files |-> Files, global |-> {},
             ver |-> [f \in Files |-> version(f, edited)],
             id |-> [f \in Files |-> version(f, edited)],
             deps |-> [f \in Files |-> [k \in Specs |->
                         IF f = a THEN {target} ELSE IF f = b THEN {c}
                         ELSE IF f = d THEN {e} ELSE {}]]]
    IN  {<<program(b, {}), program(d, {c})>>}
=============================================================================
