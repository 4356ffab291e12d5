------------------------------ MODULE MCFindings ------------------------------
(***************************************************************************)
(* Instances of what is done with findings, for TLC: applying their fixes, *)
(* disabling them by comments, mapping them through a processor, and rules *)
(* whose fixes interact.                                                   *)
(***************************************************************************)
EXTENDS MCApplyFixes, MCLineSwitches, VueProcessor, MCParameterProperties, JumpLabels, ReturnAwait, ObjectSpread

-----------------------------------------------------------------------------
(* Files for VueProcessor                                                  *)

\* What comes before the script, its tag, the script, and what comes after it; or a script that is not closed
Leading == {<<>>, <<"x", "lf">>, <<"<template>", "<script>", "</script>", "</template>">>,
           <<"lf", "<template>", "lf", "</template>", "x">>, <<"<script>", "x", "</script>", "lf">>}
After == {<<"</script>">>, <<"</script>", "lf", "<template>", "lf", "</template>">>}
Texts == UNION {[1..n -> {"x", "lf"}] : n \in 0..2} \union {<<"cr", "lf", "x", "cr", "lf">>, <<"<template>", "lf">>}

VueComponents ==
    {b \o <<tag>> \o t \o e : b \in Leading, tag \in {"<script>", "<script lang=ts>"}, t \in Texts, e \in After}
    \union {b \o <<"<script>">> \o t : b \in {<<>>, <<"x", "lf">>}, t \in Texts}
    \union {<<"x", "lf">>, <<"<template>", "<script>", "x", "</script>", "</template>">>}

MCInsertions == {<<>>, <<"x">>, <<"lf", "x">>}

-----------------------------------------------------------------------------
(* Up to five statements in each other and two jumps                       *)

LabelNames == {"k", "l"}
Nested == [kind : {"loop", "switch", "block", "function"}, label : {""}] \union [kind : {"label"}, label : LabelNames]

Labels(list) == {x \in DOMAIN list : list[x].kind = "label"}

\* All with up to three statements; with more of them, there are two labels and k is the first.
Nest(n) ==
    {list \in [1..n -> Nested] :
        /\ list[n].kind # "label"
        /\ n > 3 => Cardinality(Labels(list)) = 2 /\ list[Min(Labels(list))].label = "k"}

MCNestings ==
    {[statements |-> [x \in DOMAIN list |-> list[x] @@ [id |-> x]], jumps |-> <<a, b>>] :
        list \in UNION {Nest(n) : n \in 1..5},
        a \in [kind : {"break", "continue"}, label : LabelNames \union {""}], b \in [kind : {"break"}, label : {"", "k"}]}

-----------------------------------------------------------------------------
(* A function with up to two statements around the returned expression, or *)
(* with three clauses of try statements that have all of them              *)

Clauses == [catch : BOOLEAN, finally : BOOLEAN]
Part(kind) == {[kind |-> kind, catch |-> c.catch, finally |-> c.finally, async |-> FALSE] :
                  c \in {c \in Clauses : CASE kind = "try" -> c.catch \/ c.finally
                                           [] kind = "catch" -> c.catch
                                           [] kind = "finally" -> c.finally
                                           [] OTHER -> ~c.catch /\ ~c.finally}}
FunctionOf(async) == [kind |-> "function", catch |-> FALSE, finally |-> FALSE, async |-> async]
Containers == UNION {Part(kind) : kind \in {"try", "catch", "finally", "block"}} \union {FunctionOf(TRUE), FunctionOf(FALSE)}

AllClauses == [kind : {"try", "catch", "finally"}, catch : {TRUE}, finally : {TRUE}, async : {FALSE}]

MCPlaces ==
    {<<FunctionOf(a)>> \o list : a \in BOOLEAN, list \in UNION {[1..n -> Containers] : n \in 0..2} \union [1..3 -> AllClauses]}
MCExpressions == UNION {[1..n -> {"paren", "branch", "condition", "left", "right"}] : n \in 0..2}

-----------------------------------------------------------------------------
(* Object literals of up to three properties with two names                *)

ObjectType(required, optional, index) == [kind |-> "object", required |-> required, optional |-> optional, index |-> index]
OfA == ObjectType({"a"}, {}, FALSE)
OfB == ObjectType({"b"}, {}, FALSE)
MaybeA == ObjectType({}, {"a"}, FALSE)
OtherType == [kind |-> "other"]

Simple ==
    {OfA, MaybeA, ObjectType({"a", "b"}, {}, FALSE), ObjectType({"b"}, {"a"}, FALSE), ObjectType({"a"}, {}, TRUE),
     ObjectType({}, {}, FALSE), OtherType}
SpreadTypes ==
    Simple \union [kind : {"union", "intersection"}, a : {OfA, MaybeA}, b : {OfB, OtherType}]
           \union [kind : {"parameter"}, constraint : {OfA, MaybeA, OtherType}]

\* The own properties of the values of a type; those of a type without index signature are known.
RECURSIVE ValuesOf(_)
ValuesOf(type) ==
    CASE type.kind = "union" -> ValuesOf(type.a) \union ValuesOf(type.b)
      [] type.kind = "intersection" -> {x \union y : x \in ValuesOf(type.a), y \in ValuesOf(type.b)}
      [] type.kind = "parameter" -> {x \union y : x \in ValuesOf(type.constraint), y \in SUBSET PropertyNames}
      [] type.kind = "object" ->
            {type.required \union x : x \in SUBSET (type.optional \union IF type.index THEN PropertyNames ELSE {})}
      [] OTHER -> {{}}

Literals ==
    UNION {{[kind |-> "spread", names |-> {}, type |-> t, value |-> v] : v \in ValuesOf(t)} : t \in SpreadTypes}
    \union UNION {{[kind |-> "property", names |-> names, type |-> OtherType, value |-> {n}] :
                      n \in IF names = {} THEN PropertyNames ELSE names} : names \in SUBSET PropertyNames}
    \union {[kind |-> k, names |-> {n}, type |-> OtherType, value |-> {n}] : k \in {"get", "set"}, n \in {"a"}}

\* In threes without the types that combine others, except for unions
MCObjects ==
    {[x \in DOMAIN list |-> list[x] @@ [id |-> x]] :
        list \in UNION {[1..n -> Literals] : n \in 1..2}
             \union [1..3 -> {p \in Literals : p.type \in Simple \union [kind : {"union"}, a : {OfA}, b : {OfB}]}]}
===============================================================================
