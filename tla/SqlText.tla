------------------------------- MODULE SqlText -------------------------------
(***************************************************************************)
(* The text of an SQL query under construction.  A builder of             *)
(* src/data/query keeps a list of texts and, apart from it, the list of    *)
(* the values that go into the placeholders of the texts; the database     *)
(* driver fills the placeholders in order.                                 *)
(*                                                                         *)
(* A text is a sequence of tokens [sql, args]: an SQL construct with its   *)
(* arguments.  MySQL has a placeholder, a Hole, for every argument; the    *)
(* text for PostgreSQL quotes names and has a hole for each value only.    *)
(***************************************************************************)
EXTENDS Integers, Sequences, SequencesExt

Name(n) == [is |-> "name", name |-> n]
Datum(v) == [is |-> "value", value |-> v]
Key(k) == [is |-> "key", key |-> k]   \* the key of a JSON member, as a value
Hole == [is |-> "hole"]

Names(list) == [i \in DOMAIN list |-> Name(list[i])]

Token(sql, args) == <<[sql |-> sql, args |-> args]>>
Open == Token("(", <<>>)
Close == Token(")", <<>>)

\* A text and its values, as a builder keeps them.
Part(query, values) == [query |-> query, values |-> values]
NoPart == Part(<<>>, <<>>)

Appended(part, other) == Part(part.query \o other.query, part.values \o other.values)

Parts(list) == FoldLeft(Appended, NoPart, list)

\* The holes of all tokens are filled with the values, in order.
Filled(part) ==
    LET holes(i) == Cardinality({a \in DOMAIN part.query[i].args : part.query[i].args[a] = Hole})
        before[i \in 1..Len(part.query) + 1] ==
            IF i = 1 THEN 0 ELSE before[i - 1] + holes(i - 1)
        upTo(i, a) == before[i] + Cardinality({b \in 1..a : part.query[i].args[b] = Hole})
    IN [i \in DOMAIN part.query |->
            [part.query[i] EXCEPT !.args =
                [a \in DOMAIN @ |-> IF @[a] # Hole THEN @[a]
                                    ELSE IF upTo(i, a) \in DOMAIN part.values
                                         THEN part.values[upTo(i, a)] ELSE Hole]]]
==============================================================================
