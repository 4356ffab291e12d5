------------------------- MODULE ParameterProperties -------------------------
(***************************************************************************)
(* The rule parameter-properties (packages/mimir/src/rules): parameters    *)
(* of a constructor are turned into properties and back by its fixes.      *)
(***************************************************************************)
EXTENDS Naturals, Sequences, SequencesExt

CONSTANTS
    Classes,    \* params: parameters of the constructor, isParameterProperty if property; members: property declarations;
                \* body: its statements, assignments of a value to a property of this or to a variable, or others
    Modes       \* of the options

VARIABLES mode, class

parameterVars == <<mode, class>>

-----------------------------------------------------------------------------
(* Statements                                                              *)

IsDirective(s) == s.kind = "directive"
IsAssignment(s) == s.kind = "assign"

\* getFinalDirectiveIndex: the number of directives the body starts with
FinalDirective(body) == Max({0} \union {n \in 1..Len(body) : \A i \in 1..n : IsDirective(body[i])})

IsSuperCall(s) == s.kind = "super"

\* getSuperCallIndex: right after the directives, 0 if it is not there
SuperCall(body) ==
    LET n == FinalDirective(body) + 1 IN IF n <= Len(body) /\ IsSuperCall(body[n]) THEN n ELSE 0

\* getEndOfDirectivesAndSuper: the statement they end with, 0 if there are none
DirectivesAndSuper(body) == Max({FinalDirective(body), SuperCall(body)})

StatementsMinusDirectivesAndSuper(body) == SubSeq(body, DirectivesAndSuper(body) + 1, Len(body))

\* this.x = x
IsSimpleParamToPropAssignment(s, p) == IsAssignment(s) /\ s.target = <<"this", p.name>> /\ s.value = <<"local", p.name>>

IsNonParamAssignmentToProp(s, p) == s.target = <<"this", p.name>> /\ s.value # <<"local", p.name>>

\* Mutant: this.x += x counts as the assignment.
HasSideEffectsIgnoringOperator(s, p) == ~IsAssignment(s) \/ s.value = <<"call">> \/ IsNonParamAssignmentToProp(s, p)

IsStatementWithPossibleSideEffects(s, p) ==
    \/ ~IsAssignment(s)
    \/ s.operator # "="
    \/ s.value = <<"call">>
    \/ IsNonParamAssignmentToProp(s, p)

IsPropertyMatchForParam(m, p) ==
    ~m.initializer /\ m.optional = p.optional /\ m.name = p.name /\ m.type = p.type

\* The first statement that may have side effects or is the assignment decides.
CanBeParameterProperty(p, c) ==
    LET members  == SelectSeq(c.members, LAMBDA m : IsPropertyMatchForParam(m, p))
        deciding == SelectSeq(StatementsMinusDirectivesAndSuper(c.body),
                              LAMBDA s : IsStatementWithPossibleSideEffects(s, p) \/ IsSimpleParamToPropAssignment(s, p))
    IN  /\ p.identifier
        /\ members # <<>> /\ ~members[1].decorated
        /\ deciding # <<>>
        /\ ~IsStatementWithPossibleSideEffects(Head(deciding), p)

-----------------------------------------------------------------------------
(* Findings and fixes                                                      *)

Properties(c) == {i \in DOMAIN c.params : c.params[i].property}
Others(c) == DOMAIN c.params \ Properties(c)

\* checkConstructorParameters: the parameters that must not be properties, and those that have to be
ToLonghand(c) ==
    CASE mode = "never" -> Properties(c)
      [] mode = "consistent" /\ \E i \in Others(c) : ~CanBeParameterProperty(c.params[i], c) -> Properties(c)
      [] OTHER -> {}

ToProperty(c) ==
    CASE mode = "never" -> {}
      [] mode = "consistent" -> IF \A i \in Others(c) : CanBeParameterProperty(c.params[i], c) THEN Others(c) ELSE {}
      [] OTHER -> {i \in Others(c) : CanBeParameterProperty(c.params[i], c)}

\* getPropertyTextFromParam: a property like the parameter
PropertyFromParam(p) == [name |-> p.name, type |-> p.type, optional |-> p.optional, initializer |-> FALSE, decorated |-> FALSE]

\* getFixerForDisallowedParameterProp
Longhand(c, i) ==
    LET p == c.params[i]
    IN  [params  |-> [c.params EXCEPT ![i].property = FALSE],
         members |-> Append(c.members, PropertyFromParam(p)),
         body    |-> InsertAt(c.body, DirectivesAndSuper(c.body) + 1,
                              [kind |-> "assign", target |-> <<"this", p.name>>, operator |-> "=", value |-> <<"local", p.name>>])]

\* getFixerForLonghandProp: the member and the first assignment are deleted.
ParameterProperty(c, i) ==
    LET p          == c.params[i]
        member     == SelectInSeq(c.members, LAMBDA m : m.name = p.name)
        assignment == SelectInSeq(c.body, LAMBDA s : IsSimpleParamToPropAssignment(s, p))
    IN  [params  |-> [c.params EXCEPT ![i].property = TRUE],
         members |-> RemoveAt(c.members, member),
         body    |-> RemoveAt(c.body, assignment)]

RuleInit == mode \in Modes /\ class \in Classes

\* Fixes in the same place exclude each other: some of them are applied, then the file is linted again.
ApplyRule ==
    /\ \E some \in SUBSET (ToLonghand(class) \union ToProperty(class)) :
         /\ some # {}
         /\ class' = FoldLeft(LAMBDA c, i : IF i \notin some THEN c
                                            ELSE IF class.params[i].property THEN Longhand(c, i) ELSE ParameterProperty(c, i),
                              class, [i \in DOMAIN class.params |-> i])
    /\ UNCHANGED mode

RuleSpec == RuleInit /\ [][ApplyRule]_parameterVars

-----------------------------------------------------------------------------
(* Properties.                                                             *)

\* What the constructor does: the values of variables and properties as seen by every statement that is not
\* an assignment, and in the end. Parameter properties are assigned before the body, after super().
Names(c) == {c.params[i].name : i \in DOMAIN c.params} \union {c.members[i].name : i \in DOMAIN c.members}

Meaning(c) ==
    LET assigned == {c.params[i].name : i \in Properties(c)}
        start    == [local |-> [n \in Names(c) |-> <<"argument", n>>],
                     this  |-> [n \in Names(c) |-> IF n \in assigned THEN <<"argument", n>> ELSE <<"undefined">>],
                     seen  |-> <<>>]
        value(x, v)  == IF v[1] = "local" THEN x.local[v[2]] ELSE IF v[1] = "this" THEN x.this[v[2]] ELSE v
        result(x, s) == IF s.operator = "=" THEN value(x, s.value) ELSE <<"sum">>
        step(x, s)   ==
            LET y == IF IsAssignment(s) /\ s.value # <<"call">> THEN x ELSE [x EXCEPT !.seen = Append(@, <<x.local, x.this>>)]
            IN  IF s.kind \in {"directive", "super"} THEN x
                ELSE IF ~IsAssignment(s) THEN y
                ELSE IF s.target[1] = "this" THEN [y EXCEPT !.this[s.target[2]] = result(x, s)]
                ELSE [y EXCEPT !.local[s.target[2]] = result(x, s)]
    IN  FoldLeft(step, start, c.body)

\* A parameter is assigned to, or a property is read, by an assignment.
Unusual(c) == \E i \in DOMAIN c.body : IsAssignment(c.body[i]) /\ (c.body[i].target[1] = "local" \/ c.body[i].value[1] = "this")

\* "without changing the semantics of the code" (packages/mimir/docs/parameter-properties.md:20)
MeaningKept == Meaning(class') = Meaning(class)

KeepsSemantics == [][MeaningKept]_parameterVars

\* Whichever fixes are applied together, in all modes: the constructor still does what it did, unless
\* parameters are modified or properties read before they are assigned, and fixing comes to an end: each iteration
\* leaves less to report. Then the class is as the mode demands.
Reported(c) == Cardinality(ToLonghand(c) \union ToProperty(c))
FixesConverge ==
    [][class' # class =>
           /\ ~Unusual(class) => MeaningKept
           /\ Reported(class') < Reported(class)
           /\ Reported(class') = 0 => CASE mode = "never" -> Properties(class') = {}
                                        [] mode = "consistent" -> Properties(class') \in {{}, DOMAIN class'.params}
                                        [] OTHER -> Properties(class) \subseteq Properties(class')]_parameterVars
=============================================================================
