--------------------------- MODULE MCLanguageService ---------------------------
(***************************************************************************)
(* Instances of LanguageService for TLC.                                   *)
(***************************************************************************)
EXTENDS LanguageService

CONSTANTS one, two,     \* files
          r1, r2        \* rules

MCImported == one :> {one, two} @@ two :> {two}

ServiceFinding(rule, severity, start, fixable) == [rule |-> rule, severity |-> severity, start |-> start, fixable |-> fixable]

\* The strict configuration finds more; the second version of a text has a finding less.
ServiceFindings(config, v) ==
    LET found == <<ServiceFinding(r1, "error", 1, TRUE), ServiceFinding(r1, "error", 2, TRUE), ServiceFinding(r2, "suggestion", 1, TRUE)>>
    IN  IF config = "strict" THEN SubSeq(found, v, 3) ELSE IF config = "lax" THEN <<ServiceFinding(r2, "warning", 2, FALSE)>> ELSE <<>>

ServiceOptions(files, exclude, modules) == [files |-> files, exclude |-> exclude, modules |-> modules]

Setup(options, filtered, ca, cb) == [options |-> options, filtered |-> filtered, config |-> one :> ca @@ two :> cb]

\* A configuration cannot be loaded, dependencies are filtered, a file is excluded or its configuration missing; what
\* the directory of the project has is used although it is broken, and instead of what its parent has.
MCSetups ==
    {Setup(<<Nothing, Nothing>>, {}, "strict", "lax"),
     Setup(<<Nothing, ServiceOptions({{one}, {two}}, {}, TRUE)>>, {two}, "lax", Throwing),
     Setup(<<ServiceOptions({}, {{two}}, TRUE), ServiceOptions({}, {}, FALSE)>>, {}, Throwing, Nothing),
     Setup(<<Throwing, Nothing>>, {}, "strict", "strict")}
===============================================================================
