-------------------------- MODULE CompletePrograms --------------------------
(***************************************************************************)
(* The programs for which the content ids ProgramStateImpl keeps over      *)
(* updates are right: a file is part of all of them or of none, as long as *)
(* only the texts of files change. MCAugmentation has programs for which   *)
(* the ids are wrong.                                                      *)
(***************************************************************************)
EXTENDS ProgramState

\* What something resolves to without being loaded is loaded by no program of the same
\* environment. TypeScript loads what an import resolves to, JavaScript only if allowJs is
\* set. But it does not load the target of a module augmentation that nothing imports, and
\* JavaScript files in node_modules only up to maxNodeModuleJsDepth.
ASSUME SourcesAssumption ==
    \A P \in Programs : \A f \in Missing(P.env) : f \notin P.files
=============================================================================
