------------------------------ MODULE SqlChains ------------------------------
(***************************************************************************)
(* How a where becomes the condition of an SQL query (src/data/query):     *)
(* ChainQueryBuilderUtils walks its conditions and tells them to an        *)
(* and chain or an or chain, of MySQL or of PostgreSQL.  A chain keeps a   *)
(* list of texts with placeholders and, apart from it, the list of the     *)
(* values that go into the placeholders; a nested chain gives its text and *)
(* its values to the chain around it.                                      *)
(*                                                                         *)
(* The database is not of this repository: it fills the holes in order,    *)
(* and its AND binds tighter than its OR.                                  *)
(***************************************************************************)
EXTENDS WhereConditions, SqlText

CONSTANTS ColumnTypes   \* of each property: "plain", "time" or "bigint"

Dialects == {"mysql", "pg"}

\* How a query of entities reads a column (EntityBuilderUtils.includeFields).
Converted(p) ==
    CASE ColumnTypes[p] = "bigint" -> "AS TEXT AS"
      [] ColumnTypes[p] = "time"   -> "AS TIMESTAMP AS"
      [] OTHER                     -> "AS"

And == Token("AND", <<>>)
Or == Token("OR", <<>>)

------------------------------------------------------------------------------
\* What a chain keeps for each test: the table, the column, then the values.

Data(values) == [i \in DOMAIN values |-> Datum(values[i])]

Blanks(values) == [i \in DOMAIN values |-> Hole]

\* The templates of mysql-queries.ts.  That of the equality of a time has a
\* suffix after the name of the column.
MySqlTest(op, p, type, values) ==
    Part(Token(IF op = "=" /\ type = "time" THEN "_AS_TIME =" ELSE op,
               <<Hole, Hole>> \o Blanks(values)),
         <<Name("table"), Name(p)>> \o Data(values))

PgTest(op, p, values) ==
    Part(Token(op, <<Name("table"), Name(p)>> \o Blanks(values)), Data(values))

ColumnTest(dialect, op, p, values) ==
    IF dialect = "mysql" THEN MySqlTest(op, p, ColumnTypes[p], values) ELSE PgTest(op, p, values)

\* The texts of a chain with what is between them, in the parentheses of the chain.
Joined(texts, between) ==
    Open \o FoldLeft(LAMBDA all, i : IF i = 1 THEN texts[1] ELSE all \o between \o texts[i],
                     <<>>, [i \in DOMAIN texts |-> i]) \o Close

MySqlAndText(texts) == Joined(texts, Close \o And \o Open)
MySqlOrText(texts) == Joined(texts, Close \o Or \o Open)
PgAndText(texts) == Joined(texts, And)

\* Fault: an or chain without its parentheses.
PgBareOrText(texts) == LET text == Joined(texts, Or) IN SubSeq(text, 2, Len(text) - 1)

PgOrText(texts) == Joined(texts, Or)

ChainText(dialect, kind, texts) ==
    CASE dialect = "mysql" /\ kind = "and" -> MySqlAndText(texts)
      [] dialect = "mysql" /\ kind = "or"  -> MySqlOrText(texts)
      [] dialect = "pg" /\ kind = "and"    -> PgAndText(texts)
      [] dialect = "pg" /\ kind = "or"     -> PgOrText(texts)

\* buildChain, and what the chain then builds.
RECURSIVE Chain(_, _, _)
Chain(dialect, kind, where) ==
    LET told(item) ==
            CASE item.is \in {"and", "or"} -> Chain(dialect, item.is, item.where)
              [] item.is = "equal"   -> ColumnTest(dialect, "=", item.property, <<item.value>>)
              [] item.is = "before"  -> ColumnTest(dialect, "<", item.property, <<item.value>>)
              [] item.is = "after"   -> ColumnTest(dialect, ">", item.property, <<item.value>>)
              [] item.is = "between" ->
                     ColumnTest(dialect, "BETWEEN", item.property, <<item.start, item.end>>)
        parts == [i \in DOMAIN where |-> told(where[i])]
    IN Part(ChainText(dialect, kind, [i \in DOMAIN parts |-> parts[i].query]),
            FoldLeft(LAMBDA all, part : all \o part.values, <<>>, parts))

------------------------------------------------------------------------------
\* The database.

\* A test of the column that its second argument names.
TestHolds(test, entity) ==
    LET value == entity[test.args[2].name]
        datum(i) == test.args[i].value
    IN /\ value # NoValue
       /\ CASE test.sql = "="       -> value = datum(3)
            [] test.sql = "<"       -> value < datum(3)
            [] test.sql = ">"       -> value > datum(3)
            [] test.sql = "BETWEEN" -> datum(3) <= value /\ value <= datum(4)
            [] OTHER                -> FALSE

\* How many parentheses are open before the token i.
DepthAt(text, i) ==
    LET count(sql) == Cardinality({j \in 1..i - 1 : text[j].sql = sql})
    IN count("(") - count(")")

\* The outermost OR or AND splits the text: first the ORs, then the ANDs.
RECURSIVE Holds(_, _)
Holds(text, entity) ==
    LET splits(sql) == {i \in DOMAIN text : text[i].sql = sql /\ DepthAt(text, i) = 0}
        left(i) == Holds(SubSeq(text, 1, i - 1), entity)
        right(i) == Holds(SubSeq(text, i + 1, Len(text)), entity)
    IN IF splits("OR") # {} THEN LET i == Min(splits("OR")) IN left(i) \/ right(i)
       ELSE IF splits("AND") # {} THEN LET i == Min(splits("AND")) IN left(i) /\ right(i)
       ELSE IF text[1].sql = "(" THEN Holds(SubSeq(text, 2, Len(text) - 1), entity)
       ELSE TestHolds(text[1], entity)

\* The entities that a query with this where selects.
Queried(dialect, where) ==
    LET chain == Chain(dialect, "and", where)
        text == Filled(chain)
    IN {entity \in Entities : Holds(text, entity)}
==============================================================================
