-------------------------- MODULE RepositoryQueries --------------------------
(***************************************************************************)
(* Queries by condition.  A caller composes wheres (Where.ts) and gives    *)
(* them to a method of a repository, which adds the condition of its own   *)
(* name (RepositoryUtils.ts: findAllByName, countByNameBetween, ...) or    *)
(* passes them on (CrudRepositoryImpl.ts).  What the persister is asked    *)
(* for is then matched in memory, or told to an SQL database.              *)
(***************************************************************************)
EXTENDS SqlChains

CONSTANTS
    Given,          \* the wheres of one condition that the caller starts from
    MaxConditions   \* how many of them the caller uses; bounds the model

VARIABLES
    wheres,   \* what the caller has composed: a where, and the entities it means by it
    asked     \* the where that the persister was asked for, and what was meant by it

vars == <<wheres, asked>>

Composed(where, meant, size) == [where |-> where, meant |-> meant, size |-> size]

Nothing == Composed(<<>>, {}, 0)

Init == wheres = <<>> /\ asked = Nothing

RECURSIVE SizeOf(_)
SizeOf(list) == IF list = <<>> THEN 0 ELSE Head(list).size + SizeOf(Tail(list))

------------------------------------------------------------------------------
\* The caller.

\* A where of one condition.
NewWhere ==
    /\ asked = Nothing
    /\ SizeOf(wheres) < MaxConditions
    /\ \E where \in Given : wheres' = Append(wheres, Composed(where, Selected(where), 1))
    /\ UNCHANGED asked

\* The last two wheres become one.
Combine(Operation(_, _), Meaning(_, _)) ==
    /\ asked = Nothing
    /\ Len(wheres) > 1
    /\ LET a == wheres[Len(wheres) - 1]
           b == wheres[Len(wheres)]
       IN wheres' = SubSeq(wheres, 1, Len(wheres) - 2) \o
              <<Composed(Operation(a.where, b.where), Meaning(a.meant, b.meant), a.size + b.size)>>
    /\ UNCHANGED asked

CombineAnd == Combine(WhereAnd, LAMBDA a, b : a \cap b)

CombineOr == Combine(WhereOr, LAMBDA a, b : a \cup b)

------------------------------------------------------------------------------
\* The repository: the persister is asked for a where, and the caller goes.

AskPersister(where, meant) ==
    /\ asked' = Composed(where, meant, 0)
    /\ wheres' = <<>>

\* The wheres among the last two arguments (_parseSortAndWhereArgs); a sort among
\* them is not of this module.
ArgumentWhere ==
    CASE Len(wheres) = 1 -> wheres[1].where
      [] Len(wheres) = 2 -> WhereAnd(wheres[1].where, wheres[2].where)

ArgumentsMeant == IF wheres = <<>> THEN Entities
                  ELSE {entity \in Entities : \A i \in DOMAIN wheres : entity \in wheres[i].meant}

\* _findAllByCondition, _findByCondition, _deleteAllByCondition
ByCondition(where) ==
    AskPersister(IF wheres = <<>> THEN where ELSE WhereAnd(where, ArgumentWhere),
                 Selected(where) \cap ArgumentsMeant)

\* _existsByCondition, _countByCondition: no further arguments.
ByConditionOnly(where) == wheres = <<>> /\ AskPersister(where, Selected(where))

\* The generated methods of a property.
CallGenerated ==
    /\ asked = Nothing
    /\ Len(wheres) <= 2
    /\ \E where \in Given : ByCondition(where) \/ ByConditionOnly(where)

\* findAll, find, count, existsBy, deleteAll of CrudRepositoryImpl.
CallRepository ==
    /\ asked = Nothing
    /\ Len(wheres) \in 1..2
    /\ AskPersister(ArgumentWhere, ArgumentsMeant)

Next == NewWhere \/ CombineAnd \/ CombineOr \/ CallGenerated \/ CallRepository

Spec == Init /\ [][Next]_vars

------------------------------------------------------------------------------
IsAsked == asked # Nothing

RECURSIVE HasTimeEquality(_)
HasTimeEquality(where) ==
    \E i \in DOMAIN where :
        IF where[i].is \in {"and", "or"} THEN HasTimeEquality(where[i].where)
        ELSE where[i].is = "equal" /\ ColumnTypes[where[i].property] = "time"

\* The entities that an SQL query selects are those that the caller meant,
\* however the conditions are nested: each text stands in its parentheses, and
\* the values stand in the order of the placeholders.  The template of MySQL for
\* the equality of a time names no column, and is left out.
SqlMeansWhere ==
    IsAsked =>
        /\ Queried("pg", asked.where) = asked.meant
        /\ HasTimeEquality(asked.where) \/ Queried("mysql", asked.where) = asked.meant

\* The entities that the memory persister matches are those that the caller
\* meant.
MemoryMeansWhere ==
    IsAsked /\ IsSupported("and", asked.where) => Matched(asked.where) = asked.meant
==============================================================================
