--------------------------- MODULE WhereConditions ---------------------------
(***************************************************************************)
(* The conditions that select entities (src/data/Where.ts): a where is a   *)
(* list of conditions that must all hold; a condition tests one property,  *)
(* or is an or or an and of the conditions of another where.  The matcher  *)
(* of the memory persister (MemoryValueUtils.ts) is built from the same    *)
(* list, and so is the text that the SQL persisters send (SqlChains).      *)
(*                                                                         *)
(* A value is a natural number; NoValue is the value of a property that an *)
(* entity does not have, and no value of PropertyValues.                   *)
(***************************************************************************)
EXTENDS Integers, Sequences, SequencesExt

CONSTANTS PropertyNames, PropertyValues, NoValue

Entities == [PropertyNames -> PropertyValues \cup {NoValue}]

------------------------------------------------------------------------------
\* Where.ts

propertyEquals(p, v) == <<[is |-> "equal", property |-> p, value |-> v]>>

propertyBetween(p, start, end) ==
    <<[is |-> "between", property |-> p, start |-> start, end |-> end]>>

propertyBefore(p, v) == <<[is |-> "before", property |-> p, value |-> v]>>

propertyAfter(p, v) == <<[is |-> "after", property |-> p, value |-> v]>>

propertyListEquals(p, values) ==
    <<[is |-> "or", where |-> [i \in DOMAIN values |-> propertyEquals(p, values[i])[1]]]>>

WhereAnd(a, b) == a \o b

\* An or has one condition on each side.
AsCondition(where) == IF Len(where) = 1 THEN where[1] ELSE [is |-> "and", where |-> where]

WhereOr(a, b) == <<[is |-> "or", where |-> <<AsCondition(a), AsCondition(b)>>]>>

------------------------------------------------------------------------------
\* Tests of one property (MemoryValueUtils.ts).  No order holds of undefined.

rangeTest(value, start, end) == value # NoValue /\ start <= value /\ value <= end

equalTest(value, testValue) == value = testValue

beforeTest(value, testValue) == value # NoValue /\ value < testValue

afterTest(value, testValue) == value # NoValue /\ value > testValue

Test(condition, entity) ==
    LET value == entity[condition.property] IN
    CASE condition.is = "between" -> rangeTest(value, condition.start, condition.end)
      [] condition.is = "equal"   -> equalTest(value, condition.value)
      [] condition.is = "before"  -> beforeTest(value, condition.value)
      [] condition.is = "after"   -> afterTest(value, condition.value)

\* What the conditions mean: all of a where, all of an and, some of an or.
RECURSIVE Means(_, _)
Means(condition, entity) ==
    CASE condition.is = "and" -> \A i \in DOMAIN condition.where : Means(condition.where[i], entity)
      [] condition.is = "or"  -> \E i \in DOMAIN condition.where : Means(condition.where[i], entity)
      [] OTHER -> Test(condition, entity)

Selected(where) == {entity \in Entities : \A i \in DOMAIN where : Means(where[i], entity)}

------------------------------------------------------------------------------
\* The matchers of the memory persister.  They are built condition by
\* condition: a test of a property is combined with the matcher so far, and an
\* or or an and takes its place.

RECURSIVE MatchesAnd(_, _), MatchesOr(_, _)

\* buildMatcherFunctionFromWhereUsingAnd
MatchesAnd(where, entity) ==
    FoldLeft(LAMBDA ret, item :
                 CASE item.is = "or"  -> MatchesOr(item.where, entity)
                   [] item.is = "and" -> MatchesAnd(item.where, entity)
                   [] OTHER           -> ret /\ Test(item, entity),
             TRUE, where)

\* buildMatcherFunctionFromWhereUsingOr
MatchesOr(where, entity) ==
    FoldLeft(LAMBDA ret, item :
                 CASE item.is = "or"  -> MatchesOr(item.where, entity)
                   [] item.is = "and" -> MatchesAnd(item.where, entity)
                   [] OTHER           -> ret \/ Test(item, entity),
             FALSE, where)

\* The matcher of an or refuses the order tests: building it throws.
RECURSIVE IsSupported(_, _)
IsSupported(kind, where) ==
    \A i \in DOMAIN where :
        IF where[i].is \in {"and", "or"} THEN IsSupported(where[i].is, where[i].where)
        ELSE kind = "or" => where[i].is \notin {"before", "after"}

Matched(where) == {entity \in Entities : MatchesAnd(where, entity)}
==============================================================================
