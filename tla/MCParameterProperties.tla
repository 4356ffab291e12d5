------------------------ MODULE MCParameterProperties ------------------------
(***************************************************************************)
(* Instances of ParameterProperties for TLC: classes with two parameters.  *)
(***************************************************************************)
EXTENDS ParameterProperties

Param(name, property, type) ==
    [name |-> name, property |-> property, identifier |-> TRUE, type |-> type, optional |-> FALSE]
Member(name, type) == [name |-> name, type |-> type, optional |-> FALSE, initializer |-> FALSE, decorated |-> FALSE]
Statement(kind) == [kind |-> kind, target |-> <<>>, operator |-> "", value |-> <<>>]
Assign(target, operator, value) == [kind |-> "assign", target |-> target, operator |-> operator, value |-> value]

SimpleAssignment(n) == Assign(<<"this", n>>, "=", <<"local", n>>)

\* For each of the parameters: whether it is a property, or how its property is declared
Shapes(n) ==
    {<<Param(n, TRUE, "t"), <<>>>>, <<Param(n, FALSE, "t"), <<>>>>,
     <<Param(n, FALSE, "t"), <<Member(n, "t")>>>>, <<Param(n, FALSE, "t"), <<Member(n, "u")>>>>,
     <<Param(n, FALSE, "t"), <<[Member(n, "t") EXCEPT !.decorated = TRUE]>>>>,
     <<Param(n, FALSE, "t"), <<[Member(n, "t") EXCEPT !.initializer = TRUE]>>>>,
     <<[Param(n, FALSE, "t") EXCEPT !.optional = TRUE], <<Member(n, "t")>>>>,
     <<[Param(n, FALSE, "t") EXCEPT !.identifier = FALSE], <<Member(n, "t")>>>>}

BodyStatements ==
    {SimpleAssignment("x"), SimpleAssignment("y"), Statement("call"), Assign(<<"this", "x">>, "=", <<"constant">>),
     Assign(<<"this", "x">>, "+=", <<"local", "x">>), Assign(<<"this", "y">>, "=", <<"call">>)}

FirstStatements == {<<>>, <<Statement("directive")>>, <<Statement("directive"), Statement("super")>>,
             <<Statement("call"), Statement("super")>>}

WithBody(bodies) ==
    {[params |-> <<x[1], y[1]>>, members |-> x[2] \o y[2], body |-> body] : x \in Shapes("x"), y \in Shapes("y"), body \in bodies}

\* Properties have to be declared; with a parameter property, super() comes first.
Declared(c) ==
    /\ (Properties(c) # {} /\ Statement("super") \in ToSet(c.body)) => c.body[1] # Statement("call")
    /\ \A i \in DOMAIN c.body : IsAssignment(c.body[i]) =>
        \/ c.body[i].target[1] = "local"
        \/ \E p \in ToSet(c.params) : p.property /\ p.name = c.body[i].target[2]
        \/ \E m \in ToSet(c.members) : m.name = c.body[i].target[2]

\* Up to two of these statements after the first ones, or three simple ones
MCClasses ==
    {c \in WithBody({prefix \o body : prefix \in FirstStatements, body \in UNION {[1..n -> BodyStatements] : n \in 0..2}}
                    \union [1..3 -> {SimpleAssignment("x"), SimpleAssignment("y"), Statement("call")}]) :
        Declared(c)}

\* The parameter may be assigned to, class I of the documentation
Modified ==
    {c \in WithBody({body \in [1..2 -> {SimpleAssignment("x"), SimpleAssignment("y"), Assign(<<"local", "x">>, "=", <<"constant">>)}] : body[1] # body[2]}) :
        Declared(c)}
=============================================================================
