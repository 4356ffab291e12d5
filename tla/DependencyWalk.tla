--------------------------- MODULE DependencyWalk ---------------------------
(***************************************************************************)
(* What callers of fileDependenciesUpToDate                                *)
(* (packages/wotan/src/services/program-state.ts) rely on: a call answers  *)
(* whether a file is up to date and may remember the status of the files   *)
(* on its way. ProgramState uses the same answer, and AfterWalks describes *)
(* the same statuses; DependencyCheck implements this module.              *)
(***************************************************************************)
EXTENDS ProgramGraph

CONSTANTS
    Instances, \* pairs of an old program and the current one
    None       \* no call has been made yet

VARIABLES
    old,       \* the snapshot of oldState
    new,       \* the current program
    known,     \* dependenciesUpToDate between calls
    answer     \* file and result of the last call

Init ==
    /\ \E I \in Instances : old = I[1] /\ new = I[2]
    /\ known = [f \in Files |-> "Unknown"]
    /\ answer = None

\* The answer is that of WalkSucceeds. The files that get a status are the ones a
\* successful walk visits, or at least f and maybe others on the way of a failing one.
Check(f) ==
    /\ Id(old, f) = Id(new, f)
    /\ \E result \in BOOLEAN :
         /\ answer' = [file |-> f, result |-> result]
         /\ result = WalkSucceeds(old, new, known, f)
         /\ LET decided == {g \in Files : known'[g] # known[g]} IN
              /\ known' = Mark(old, new, known, decided)
              /\ decided \subseteq Visited(old, new, known, f)
              /\ IF result THEN Visited(old, new, known, f) \subseteq decided
                 ELSE known'[f] = "Outdated"
    /\ UNCHANGED <<old, new>>

Next == \E f \in Files : Check(f)

Spec == Init /\ [][Next]_<<old, new, known, answer>>
=============================================================================
