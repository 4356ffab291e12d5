----------------------------- MODULE ApplyFixes -----------------------------
(***************************************************************************)
(* applyFixes in packages/wotan/src/fix.ts: applies the replacements of    *)
(* all fixes in the order of their position, and goes back to the start of *)
(* a fix when one of its later replacements is in conflict with what has   *)
(* been applied before.                                                    *)
(*                                                                         *)
(* The text to fix consists of N characters <<0, 0>> .. <<0, N-1>>, each   *)
(* replacement inserts a character of its own: <<f, k>> for replacement k  *)
(* of fix f.                                                               *)
(***************************************************************************)
EXTENDS Integers, FiniteSets, Sequences

CONSTANTS
    N,         \* length of the source
    FixLists   \* the lists of fixes to start with; a fix is a list of replacements

ASSUME SourceAssumption == N \in Nat

ASSUME FixesAssumption ==
    /\ FixLists \subseteq Seq(Seq([start : 0..N, end : 0..N]) \ {<<>>})
    /\ \A fs \in FixLists : \A f \in DOMAIN fs : \A k \in DOMAIN fs[f] : fs[f][k].start <= fs[f][k].end

VARIABLES
    fixes,         \* the argument
    pc,            \* "combine", "apply", "done" or "thrown"
    replacements,  \* those of all fixes, combined and sorted
    i,             \* index of the next fix or replacement, from 1
    output,
    position,      \* end of the last replacement, -1 if there is none
    start,         \* range.span.start
    skip,          \* fix.skip
    state,         \* fix.state: where to continue after a rollback
    fixed          \* number of fixes that are not skipped

vars == <<fixes, pc, replacements, i, output, position, start, skip, state, fixed>>

NoState == [position |-> -1, index |-> 0, length |-> 0]

-----------------------------------------------------------------------------
(* Sorting and combining                                                   *)

\* compareReplacements
Before(a, b) == a.start < b.start \/ (a.start = b.start /\ a.end < b.end)

\* A stable sort
Sort(s) ==
    LET rank(k) == Cardinality({j \in DOMAIN s : Before(s[j], s[k]) \/ (~Before(s[k], s[j]) /\ j <= k)})
    IN  [n \in DOMAIN s |-> s[CHOOSE k \in DOMAIN s : rank(k) = n]]

Overlap(fix) ==
    LET sorted == Sort(fix) IN \E k \in 1..Len(sorted) - 1 : sorted[k].end > sorted[k + 1].start

\* What is sorted is cut where a replacement does not touch the one before it.
\* Each piece becomes one replacement; the text of each of its parts is one character.
Pieces(sorted) ==
    LET first == {k \in DOMAIN sorted : k = 1 \/ sorted[k - 1].end # sorted[k].start}
        number(k) == Cardinality({j \in first : j <= k})
        from(m) == CHOOSE k \in first : number(k) = m
        to(m) == IF m < Cardinality(first) THEN from(m + 1) - 1 ELSE Len(sorted)
    IN  [m \in 1..Cardinality(first) |->
           [fix |-> sorted[from(m)].fix, start |-> sorted[from(m)].start, end |-> sorted[to(m)].end,
            text |-> [n \in 1..to(m) - from(m) + 1 |-> sorted[from(m) + n - 1].text[1]]]]

\* combineReplacements: touching replacements become one. As the argument of a
\* function, what is sorted is only computed once.
Combine(fix) == [sorted \in {Sort(fix)} |-> Pieces(sorted)][Sort(fix)]

\* The replacements of a fix with their origin
Tagged(f) ==
    [k \in DOMAIN fixes[f] |->
        [fix |-> f, start |-> fixes[f][k].start, end |-> fixes[f][k].end, text |-> <<<<f, k>>>>]]

\* fix.replacements.length
Parts(f) == Cardinality({n \in DOMAIN replacements : replacements[n].fix = f})

Source(from, to) == [n \in 1..to - from |-> <<0, from + n - 1>>]

-----------------------------------------------------------------------------
(* Actions                                                                 *)

Init ==
    /\ fixes \in FixLists
    /\ pc = "combine"
    /\ replacements = <<>>
    /\ i = 1
    /\ output = <<>>
    /\ position = -1
    /\ start = 0
    /\ skip = [f \in DOMAIN fixes |-> FALSE]
    /\ state = [f \in DOMAIN fixes |-> NoState]
    /\ fixed = Len(fixes)

\* The replacements of the next fix are added, i counts the fixes.
AddFix ==
    /\ pc = "combine" /\ i <= Len(fixes)
    /\ IF Overlap(Tagged(i))
       THEN pc' = "thrown" /\ UNCHANGED <<replacements, i>>
       ELSE /\ replacements' = replacements \o Combine(Tagged(i))
            /\ i' = i + 1
            /\ UNCHANGED pc
    /\ UNCHANGED <<fixes, output, position, start, skip, state, fixed>>

SortAll ==
    /\ pc = "combine" /\ i > Len(fixes)
    /\ replacements' = Sort(replacements)
    /\ i' = 1
    /\ pc' = "apply"
    /\ UNCHANGED <<fixes, output, position, start, skip, state, fixed>>

Current == replacements[i]

\* The fix has been in a conflict before.
Skip ==
    /\ pc = "apply" /\ i <= Len(replacements)
    /\ skip[Current.fix]
    /\ i' = i + 1
    /\ UNCHANGED <<fixes, pc, replacements, output, position, start, skip, state, fixed>>

\* The first replacement the fix wants to apply touches the previous one.
Conflict ==
    /\ pc = "apply" /\ i <= Len(replacements)
    /\ ~skip[Current.fix]
    /\ Current.start <= position
    /\ state[Current.fix] = NoState
    /\ skip' = [skip EXCEPT ![Current.fix] = TRUE]
    /\ fixed' = fixed - 1
    /\ i' = i + 1
    /\ UNCHANGED <<fixes, pc, replacements, output, position, start, state>>

\* The replacements the loop in line 50 goes back over: all after the first
\* replacement of the fix
Passed == state[Current.fix].index + 1..i - 1

\* Fixes whose first replacement is undone
Reset == {f \in DOMAIN fixes : state[f].index \in Passed}

\* Fixes that were given up and have none of their replacements applied before
Retried ==
    {f \in DOMAIN fixes :
        skip[f] /\ \E n \in Passed :
            /\ replacements[n].fix = f
            /\ state[f] = NoState \/ state[f].index >= n}

\* Mutant: the text stays as it is.
RollBackKeepsOutput ==
    /\ pc = "apply" /\ i <= Len(replacements)
    /\ ~skip[Current.fix]
    /\ Current.start <= position
    /\ state[Current.fix] # NoState
    /\ position' = state[Current.fix].position
    /\ skip' = [skip EXCEPT ![Current.fix] = TRUE]
    /\ fixed' = fixed - 1
    /\ i' = state[Current.fix].index + 1
    /\ UNCHANGED <<fixes, pc, replacements, output, start, state>>

\* Mutant: the fix that is rolled back is applied again.
RollBackRetries ==
    /\ pc = "apply" /\ i <= Len(replacements)
    /\ ~skip[Current.fix]
    /\ Current.start <= position
    /\ state[Current.fix] # NoState
    /\ LET back == state[Current.fix] IN
       /\ output' = SubSeq(output, 1, back.length)
       /\ position' = back.position
       /\ i' = back.index
    /\ state' = [state EXCEPT ![Current.fix] = NoState]
    /\ UNCHANGED <<fixes, pc, replacements, start, skip, fixed>>

\* Continue after the first replacement of the fix, without the fix. What fixes
\* applied or gave up since then is forgotten.
RollBack ==
    /\ pc = "apply" /\ i <= Len(replacements)
    /\ ~skip[Current.fix]
    /\ Current.start <= position
    /\ state[Current.fix] # NoState
    /\ LET back == state[Current.fix] IN
       /\ output' = SubSeq(output, 1, back.length)
       /\ position' = back.position
       /\ i' = back.index + 1
    /\ state' = [f \in DOMAIN fixes |-> IF f \in Reset THEN NoState ELSE state[f]]
    /\ skip' = [f \in DOMAIN fixes |-> f = Current.fix \/ (skip[f] /\ f \notin Retried)]
    /\ fixed' = fixed - 1 + Cardinality(Retried)
    /\ UNCHANGED <<fixes, pc, replacements, start>>

\* A fix with several replacements remembers how to undo the first of them.
Apply ==
    /\ pc = "apply" /\ i <= Len(replacements)
    /\ ~skip[Current.fix]
    /\ Current.start > position
    /\ state' = IF state[Current.fix] = NoState /\ Parts(Current.fix) # 1
                THEN [state EXCEPT ![Current.fix] =
                        [position |-> position, index |-> i, length |-> Len(output)]]
                ELSE state
    /\ start' = IF position = -1 THEN Current.start ELSE start
    /\ output' = output \o Source(IF position = -1 THEN 0 ELSE position, Current.start) \o Current.text
    /\ position' = Current.end
    /\ i' = i + 1
    /\ UNCHANGED <<fixes, pc, replacements, skip, fixed>>

\* The rest of the source is appended.
Finish ==
    /\ pc = "apply" /\ i > Len(replacements)
    /\ pc' = "done"
    /\ output' = output \o Source(IF position = -1 THEN 0 ELSE position, N)
    /\ UNCHANGED <<fixes, replacements, i, position, start, skip, state, fixed>>

Next == AddFix \/ SortAll \/ Skip \/ Conflict \/ RollBack \/ Apply \/ Finish

\* The loop runs to its end.
Spec == Init /\ [][Next]_vars /\ WF_vars(Next)

-----------------------------------------------------------------------------
(* The result                                                              *)

Length == position - start

NewLength == Length + Len(output) - N

Used(f, k) == \E n \in DOMAIN output : output[n] = <<f, k>>

-----------------------------------------------------------------------------
(* Properties                                                              *)

TypeOK ==
    /\ pc \in {"combine", "apply", "done", "thrown"}
    /\ i \in 1..1 + IF pc = "combine" THEN Len(fixes) ELSE Len(replacements)
    /\ position \in -1..N
    /\ start \in 0..N
    /\ skip \in [DOMAIN fixes -> BOOLEAN]
    /\ \A f \in DOMAIN fixes :
         /\ state[f].position \in -1..N
         /\ state[f].index \in 0..Len(replacements)
         /\ state[f].length \in Nat
    /\ fixed \in 0..Len(fixes)

\* However often the text was rolled back: what is left of it is the source in its
\* order, each replacement is at its place and no character it replaces is left.
TextIntact ==
    pc = "done" =>
        /\ \A c \in 0..N - 1 :
             (\E n \in DOMAIN output : output[n] = <<0, c>>)
               <=> ~\E f \in DOMAIN fixes : \E k \in DOMAIN fixes[f] :
                      Used(f, k) /\ c \in fixes[f][k].start..fixes[f][k].end - 1
        /\ \A m, n \in DOMAIN output : m < n => LET x == output[m] y == output[n] IN
             /\ x # y
             /\ x[1] = 0 /\ y[1] = 0 => x[2] < y[2]
             /\ x[1] = 0 /\ y[1] # 0 => x[2] < fixes[y[1]][y[2]].start
             /\ x[1] # 0 /\ y[1] = 0 => y[2] >= fixes[x[1]][x[2]].end

\* Replacements of different fixes never overlap or touch, "to prevent unspecified
\* behavior" (line 46).
NoConflict ==
    \A f, g \in DOMAIN fixes : f # g =>
        \A j \in DOMAIN fixes[f], k \in DOMAIN fixes[g] :
            Used(f, j) /\ Used(g, k) =>
                \/ fixes[f][j].end < fixes[g][k].start
                \/ fixes[g][k].end < fixes[f][j].start

\* The number of applied fixes is that of the fixes with a replacement in the text:
\* nothing of a fix stays that was rolled back, whatever was retried since. "At least
\* one fix will be applied" (line 16), and completely: each iteration of lintAndFix makes
\* progress.
CountsFixes ==
    pc = "done" =>
        /\ fixed = Cardinality({f \in DOMAIN fixes : \E k \in DOMAIN fixes[f] : Used(f, k)})
        /\ fixes # <<>> => \E f \in DOMAIN fixes : \A k \in DOMAIN fixes[f] : Used(f, k)

\* Outside of the range the text is unchanged: updateFile parses only the range again.
RangeCoversChanges ==
    pc = "done" /\ fixes # <<>> =>
        /\ Length >= 0 /\ NewLength >= 0
        /\ SubSeq(output, 1, start) = Source(0, start)
        /\ SubSeq(output, start + NewLength + 1, Len(output)) = Source(start + Length, N)

\* A fix whose own replacements overlap is an error, whatever their order; touching
\* replacements are not (docs/writing-rules.md:202-203).
ThrowsOnOverlap ==
    pc \in {"thrown", "done"} => (pc = "thrown" <=>
        \E f \in DOMAIN fixes : \E j, k \in DOMAIN fixes[f] :
            LET a == fixes[f][j]
                b == fixes[f][k]
            IN  j # k /\ a.end > b.start /\ b.end > a.start)

\* Insertions of a fix at the same position keep the order in which the fix lists
\* them (docs/writing-rules.md:223).
KeepsInsertOrder ==
    pc = "done" =>
        \A f \in DOMAIN fixes : \A j, k \in DOMAIN fixes[f] :
            j < k /\ fixes[f][j] = fixes[f][k] /\ Used(f, j) /\ Used(f, k) =>
                \E m, n \in DOMAIN output : m < n /\ output[m] = <<f, j>> /\ output[n] = <<f, k>>

\* Whatever was rolled back and retried, the text, the number of fixes and the range that are returned fit the
\* replacements that were applied, fixes do not touch each other, and overlapping replacements are rejected.
OutputSound ==
    TypeOK /\ TextIntact /\ NoConflict /\ CountsFixes /\ RangeCoversChanges /\ ThrowsOnOverlap /\ KeepsInsertOrder

\* The loop comes to an end although it goes back and retries fixes.
Terminates == pc = "apply" ~> pc = "done"

\* "either all of them are applied or none" (docs/writing-rules.md:194)
AllOrNone ==
    pc = "done" =>
        \A f \in DOMAIN fixes : \A j, k \in DOMAIN fixes[f] : Used(f, j) <=> Used(f, k)
=============================================================================
