----------------------------- MODULE ObjectSpread -----------------------------
(***************************************************************************)
(* The rule no-duplicate-spread-property (packages/mimir) and what         *)
(* happens if the properties it reports are deleted.                       *)
(***************************************************************************)
EXTENDS Naturals, Sequences, SequencesExt, TLC

CONSTANTS
    PropertyNames,
    Objects     \* object literals: sequences of properties, each with an id and value, the names it really has.
                \* kind: "property" with the names it can have, {} if they are not known, "get" or "set",
                \* or "spread" with a type
                \* type: kind "object" with its required and optional properties that are spread (methods and accessors of
                \* classes are not) and whether it has an index signature; "union" or "intersection" of two; "parameter" with its constraint; or "other"

VARIABLE object

-----------------------------------------------------------------------------
(* What is known of a property                                             *)

PropertyInfo(known, names, assignedNames) == [known |-> known, names |-> names, assignedNames |-> assignedNames]
EmptyPropertyInfo == PropertyInfo(FALSE, {}, {})

\* Mutant: what one of the types assigns
UnionAssignsAny(a, b) ==
    PropertyInfo(a.known /\ b.known, a.names \union b.names, a.assignedNames \union b.assignedNames)

UnionPropertyInfo(a, b) ==
    PropertyInfo(a.known /\ b.known, a.names \union b.names, a.assignedNames \intersect b.assignedNames)

IntersectPropertyInfo(a, b) ==
    PropertyInfo(a.known /\ b.known, a.names \union b.names, a.assignedNames \union b.assignedNames)

RECURSIVE PropertyInfoFromType(_)
PropertyInfoFromType(type) ==
    CASE type.kind = "union" -> UnionPropertyInfo(PropertyInfoFromType(type.a), PropertyInfoFromType(type.b))
      [] type.kind = "intersection" -> IntersectPropertyInfo(PropertyInfoFromType(type.a), PropertyInfoFromType(type.b))
      [] type.kind = "parameter" -> [PropertyInfoFromType(type.constraint) EXCEPT !.known = FALSE]
      [] type.kind = "object" -> PropertyInfo(~type.index, type.required \union type.optional, type.required)
      [] OTHER -> EmptyPropertyInfo

IsAccessor(p) == p.kind \in {"get", "set"}

GetPropertyInfo(p) ==
    CASE p.kind = "spread" -> PropertyInfoFromType(p.type)
      [] p.names = {} -> EmptyPropertyInfo
      [] OTHER -> PropertyInfo(TRUE, p.names, IF Cardinality(p.names) = 1 THEN p.names ELSE {})

-----------------------------------------------------------------------------

\* seen tells for the names assigned later whether by an accessor.
Overridden(p, seen) ==
    LET info == GetPropertyInfo(p)
    IN  info.known /\ \A n \in info.names : n \in DOMAIN seen /\ (IsAccessor(p) => ~seen[n])

\* An accessor that is reported does not change what has been seen.
CheckProperty(p, state) ==
    LET reported == Overridden(p, state.seen)
    IN  [seen     |-> IF reported /\ IsAccessor(p) THEN state.seen
                      ELSE [n \in GetPropertyInfo(p).assignedNames |-> IsAccessor(p)] @@ state.seen,
         reported |-> state.reported \union (IF reported THEN {p.id} ELSE {})]

CheckObject(properties) ==
    FoldRight(CheckProperty, properties, [seen |-> <<>>, reported |-> {}]).reported

HasSpread(properties) == \E i \in DOMAIN properties : properties[i].kind = "spread"

SpreadInit == object \in Objects /\ HasSpread(object)

\* All that is reported is deleted.
DeleteReported ==
    /\ HasSpread(object)
    /\ object' = SelectSeq(object, LAMBDA p : p.id \notin CheckObject(object))

SpreadSpec == SpreadInit /\ [][DeleteReported]_object

-----------------------------------------------------------------------------
(* Properties                                                              *)

\* What the literal evaluates to: for each name where its value comes from, or its getter and setter
Evaluate(properties) ==
    FoldLeft(LAMBDA result, p :
                 CASE IsAccessor(p) ->
                         [n \in p.names |->
                             [kind |-> "accessor"] @@ p.kind :> p.id
                             @@ (IF n \in DOMAIN result /\ result[n].kind = "accessor" THEN result[n] ELSE "get" :> 0 @@ "set" :> 0)]
                         @@ result
                   [] OTHER -> [n \in p.value |-> [kind |-> "data", from |-> p.id]] @@ result,
             <<>>, properties)

\* A property that may be missing between the two accessors of a name would make a difference: it deletes the first one.
SplitAccessors(properties) ==
    \E i, k \in DOMAIN properties :
        i + 1 < k /\ IsAccessor(properties[i]) /\ IsAccessor(properties[k]) /\ properties[i].names = properties[k].names

\* All that is reported is overridden, whatever values the objects that are spread and the computed names have:
\* without it, the object has the same properties from the same places, and there is nothing more to report.
OverriddenIsUseless ==
    [][object' # object /\ ~SplitAccessors(object) => Evaluate(object') = Evaluate(object) /\ CheckObject(object') = {}]_object
=============================================================================
