--------------------------- MODULE MCLintProject ---------------------------
(***************************************************************************)
(* Instances of LintProject for TLC.                                       *)
(***************************************************************************)
EXTENDS LintProject, TLC

CONSTANTS a, b, c

MCTexts == {"one", "two", "three", "error", "damaged", "broken"}

\* A fix may need another one, undo another one or cause a syntax error.
MCFixesOf == "one" :> {"two", "error"} @@ "two" :> {"three", "one", "error"}
               @@ "three" :> {} @@ "error" :> {"two"} @@ "damaged" :> {} @@ "broken" :> {}

MCDisks == {[f \in Files |-> IF f = a THEN x ELSE IF f = b THEN y ELSE "one"] :
              x \in {"one", "two"}, y \in {"one", "error"}}

\* a imports b unless it is fixed; then c may import it, or b imports both
MCImportMaps ==
    {[f \in Files |-> [t \in Texts |-> IF f = a THEN (IF t = "one" THEN {b} ELSE {})
                                      ELSE IF f = c /\ t \in more THEN {b}
                                      ELSE IF f = b /\ more = {"one"} THEN {a, c} ELSE {}]] :
        more \in {{}, {"two", "three"}, {"one"}}}

Rooted(roots) == [roots |-> roots, composite |-> FALSE]

MCOptionSets ==
    {[cache |-> TRUE, iterations |-> 2, included |-> Files, excluded |-> {}],
     [cache |-> FALSE, iterations |-> 2, included |-> Files, excluded |-> {c}],
     [cache |-> TRUE, iterations |-> 0, included |-> {a, b}, excluded |-> {}]}

MCProjectLists ==
    {<<Rooted({a, c})>>, <<Rooted({a, b, c})>>, <<Rooted({a}), Rooted({a, b})>>,
     <<[roots |-> {a, b}, composite |-> TRUE], [roots |-> {a}, composite |-> TRUE]>>}
=============================================================================
