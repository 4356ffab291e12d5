----------------------------- MODULE ReturnAwait -----------------------------
(***************************************************************************)
(* The rules no-return-await and try-catch-return-await (packages/mimir):  *)
(* one deletes what the other adds.                                        *)
(***************************************************************************)
EXTENDS Naturals, Sequences, SequencesExt

CONSTANTS
    Places,       \* what contains a return statement, outermost first: kind "function", "block", or a part of a try
                  \* statement, "try", "catch" or "finally"; catch, finally: whether it has one; async
    Expressions   \* what contains a promise in the returned expression, innermost first: "paren", "branch" of a
                  \* condition or "condition", "left" or "right" of ||

VARIABLES
    place, expression,
    leaf, top     \* the promise itself, or the whole expression, is awaited

awaitVars == <<place, expression, leaf, top>>

Function == Max({i \in DOMAIN place : place[i].kind = "function"})

\* The body of an arrow function is returned without a return statement.
IsArrowBody == place[Len(place)].kind = "function"

-----------------------------------------------------------------------------
(* no-return-await                                                         *)

\* Mutant: a finally block after catch does not count.
IsInsideTryOnly == \E i \in Function..Len(place) : place[i].kind = "try"

\* isInsideTryBlock: stops at the function; a try statement that does not count is skipped.
IsInsideTryBlock ==
    \E i \in Function..Len(place) : place[i].kind = "try" \/ (place[i].kind = "catch" /\ place[i].finally)

\* isUnnecessaryAwait, for the promise
IsUnnecessaryLeaf ==
    /\ leaf /\ ~top
    /\ ToSet(expression) \subseteq {"paren", "branch", "right"}
    /\ IsArrowBody \/ ~IsInsideTryBlock

IsUnnecessaryTop == top /\ (IsArrowBody \/ ~IsInsideTryBlock)

NoReturnAwait ==
    /\ IsUnnecessaryLeaf \/ IsUnnecessaryTop
    /\ leaf' = (leaf /\ ~IsUnnecessaryLeaf)
    /\ top' = (top /\ ~IsUnnecessaryTop)
    /\ UNCHANGED <<place, expression>>

-----------------------------------------------------------------------------
(* try-catch-return-await                                                  *)

\* An arrow function without a block does not count.
IsAsyncFunction == place[Function].async /\ ~IsArrowBody

IsInAsyncFunction(i) == i > Function /\ IsAsyncFunction

\* What apply and visitStatement visit, starting from the try statement at i, is in the same function.
Visits(i) ==
    /\ place[i].kind = "try" \/ (place[i].kind = "catch" /\ place[i].finally)
    /\ IsInAsyncFunction(i)

\* try statements that are visited as a part of another one
Visited(i) == \E k \in 1..i - 1 : Visits(k)

\* checkReturnExpression: how often it reports the expression
Promised == ~leaf /\ ~top /\ "condition" \notin ToSet(expression)
MissingAwaits == IF Promised THEN {i \in DOMAIN place : Visits(i) /\ ~Visited(i)} ELSE {}

TryCatchReturnAwait ==
    /\ MissingAwaits # {}
    /\ IF expression = <<>> THEN leaf' = TRUE /\ UNCHANGED top ELSE top' = TRUE /\ UNCHANGED leaf
    /\ UNCHANGED <<place, expression>>

AwaitInit ==
    /\ place \in Places /\ expression \in Expressions
    /\ leaf \in BOOLEAN
    /\ top \in (IF expression = <<>> THEN {FALSE} ELSE BOOLEAN)
    /\ (leaf \/ top) => place[Function].async

AwaitNext == NoReturnAwait \/ TryCatchReturnAwait

AwaitSpec == AwaitInit /\ [][AwaitNext]_awaitVars

-----------------------------------------------------------------------------
(* Properties                                                              *)

\* Executing the function: whether its catch and finally blocks wait for the promise, and whether
\* it is the promise or its value that is tested
Handles(p) == \/ p.kind = "try"
              \/ p.kind = "catch" /\ p.finally
HandledInFunction == \E i \in Function + 1..Len(place) : Handles(place[i])
Waits == (leaf \/ top) /\ HandledInFunction
TestsValue == leaf /\ ToSet(expression) \cap {"condition", "left"} # {}

\* The fixes of the two rules never undo each other, whatever the other one has done. In the end a promise that
\* is returned is awaited exactly if a catch or finally block of the same async function depends on it, or its
\* value is tested. A return statement is reported once, however many try statements contain it.
Settled ==
    /\ ~ENABLED NoReturnAwait \/ ~ENABLED TryCatchReturnAwait
    /\ Cardinality(MissingAwaits) <= 1
    /\ (~ENABLED AwaitNext /\ "condition" \notin ToSet(expression) /\ place[Function].async) =>
           (leaf \/ top) = (HandledInFunction \/ TestsValue)

\* The fixes of both rules lead to that, and deleting await does not change what the function does.
RulesAgree ==
    /\ []Settled
    /\ [][NoReturnAwait => Waits' = Waits /\ TestsValue' = TestsValue]_awaitVars
=============================================================================
