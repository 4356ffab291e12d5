------------------------------ MODULE JumpLabels ------------------------------
(***************************************************************************)
(* The rules no-useless-jump-label and no-unused-label (packages/mimir):   *)
(* the fixes of the one create findings of the other.                      *)
(***************************************************************************)
EXTENDS Naturals, Sequences, SequencesExt

CONSTANTS
    Nestings  \* statements that contain each other, outermost first; the last one contains all jumps.
              \* kind: "loop", "switch", "block", "label" (of the next statement) or "function"; id
              \* jumps: kind, "break" or "continue", and label, "" without

VARIABLES statements, jumps, originally

labelVars == <<statements, jumps, originally>>

-----------------------------------------------------------------------------
(* no-useless-jump-label                                                   *)

\* The labels directly in front of statement i
RECURSIVE LabelsOf(_, _)
LabelsOf(s, i) == IF i > 1 /\ s[i - 1].kind = "label" THEN {s[i - 1].label} \union LabelsOf(s, i - 1) ELSE {}

\* Mutant: a switch statement is the target of break and continue.
RECURSIVE IsLabelNecessaryInSwitch(_, _, _)
IsLabelNecessaryInSwitch(s, i, jump) ==
    IF i = 0 \/ s[i].kind = "function" THEN TRUE
    ELSE IF s[i].kind \in {"loop", "switch"} THEN jump.label \notin LabelsOf(s, i)
    ELSE (jump.kind = "break" /\ s[i].label = jump.label) \/ IsLabelNecessaryInSwitch(s, i - 1, jump)

\* The innermost of the statements that decides
RECURSIVE IsLabelNecessary(_, _, _)
IsLabelNecessary(s, i, jump) ==
    IF i = 0 THEN TRUE
    ELSE CASE s[i].kind = "loop" \/ (jump.kind = "break" /\ s[i].kind = "switch") -> jump.label \notin LabelsOf(s, i)
           [] s[i].kind = "function" -> TRUE
           [] OTHER -> \/ jump.kind = "break" /\ s[i].kind = "label" /\ s[i].label = jump.label
                       \/ IsLabelNecessary(s, i - 1, jump)

IsUselessLabel(jump) == jump.label # "" /\ ~IsLabelNecessary(statements, Len(statements), jump)

RemoveJumpLabel(j) ==
    /\ IsUselessLabel(jumps[j])
    /\ jumps' = [jumps EXCEPT ![j].label = ""]
    /\ UNCHANGED <<statements, originally>>

-----------------------------------------------------------------------------
(* no-unused-label                                                         *)

\* The statements in statement i, Len(statements) + 1 for the jumps; those of a function are no part of it.
ChildStatements(i) == IF statements[i].kind = "function" THEN {} ELSE {i + 1}

\* Another label of the same name hides the label.
RECURSIVE UsesLabel(_, _)
UsesLabel(i, label) ==
    IF i > Len(statements) THEN \E j \in DOMAIN jumps : jumps[j].label = label
    ELSE /\ statements[i].kind = "label" => statements[i].label # label
         /\ \E child \in ChildStatements(i) : UsesLabel(child, label)

RemoveLabel(i) ==
    /\ statements[i].kind = "label"
    /\ ~UsesLabel(i + 1, statements[i].label)
    /\ statements' = RemoveAt(statements, i)
    /\ UNCHANGED <<jumps, originally>>

-----------------------------------------------------------------------------

\* Where a jump goes, by the semantics of the language: the statement it breaks or continues
Within(s) == LET f == {i \in DOMAIN s : s[i].kind = "function"} IN (IF f = {} THEN 1 ELSE Max(f) + 1)..Len(s)
Labelled(s, i, label) == LET f == {k \in Within(s) : k < i /\ s[k].kind = "label" /\ s[k].label = label}
                         IN  \E k \in f : \A m \in k..i - 1 : s[m].kind = "label"
JumpTarget(s, jump) ==
    LET loops == {i \in Within(s) : s[i].kind = "loop" \/ (jump.kind = "break" /\ s[i].kind = "switch")}
        named == {i \in Within(s) : s[i].kind # "label" /\ Labelled(s, i, jump.label)}
    IN  IF jump.label # "" THEN (IF named = {} THEN 0 ELSE s[Max(named)].id)
        ELSE IF loops = {} THEN 0 ELSE s[Max(loops)].id

\* Programs the compiler accepts
Valid(s, js) ==
    /\ \A j \in DOMAIN js : /\ JumpTarget(s, js[j]) # 0
                            /\ js[j].kind = "continue" =>
                                  \E i \in DOMAIN s : s[i].id = JumpTarget(s, js[j]) /\ s[i].kind = "loop"
    /\ s = <<>> \/ Last(s).kind # "label"
    /\ \A i, k \in DOMAIN s :
          (i < k /\ s[i].kind = "label" /\ s[k].kind = "label" /\ s[i].label = s[k].label)
              => \E m \in i..k : s[m].kind = "function"

LabelInit ==
    /\ \E n \in Nestings : statements = n.statements /\ jumps = n.jumps /\ Valid(n.statements, n.jumps)
    /\ originally = [j \in DOMAIN jumps |-> JumpTarget(statements, jumps[j])]

LabelNext ==
    \/ \E j \in DOMAIN jumps : RemoveJumpLabel(j)
    \/ \E i \in DOMAIN statements : RemoveLabel(i)

LabelSpec == LabelInit /\ [][LabelNext]_labelVars

-----------------------------------------------------------------------------
(* Properties                                                              *)

\* Whichever labels of jumps and statements are removed in any order, the program stays valid and every jump
\* goes where it went; when nothing is left to report, every label is needed: without it, a jump
\* would go somewhere else.
JumpsKeepTargets ==
    /\ Valid(statements, jumps)
    /\ \A j \in DOMAIN jumps : JumpTarget(statements, jumps[j]) = originally[j]
    /\ ~ENABLED LabelNext =>
         /\ \A j \in DOMAIN jumps : jumps[j].label # "" =>
               JumpTarget(statements, [jumps[j] EXCEPT !.label = ""]) # originally[j]
         /\ \A i \in DOMAIN statements : statements[i].kind = "label" =>
               \E j \in DOMAIN jumps : JumpTarget(RemoveAt(statements, i), jumps[j]) # originally[j]
=============================================================================
