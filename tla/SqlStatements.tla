---------------------------- MODULE SqlStatements ----------------------------
(***************************************************************************)
(* The builders of SELECT, INSERT, UPDATE and DELETE statements of         *)
(* src/data/query.  A caller makes a builder of one dialect, calls its     *)
(* methods in any order, and builds the statement: a text with             *)
(* placeholders and the list of their values, each assembled clause by     *)
(* clause.  `said` is what the caller has asked for, as tokens with their  *)
(* arguments, which no builder sees.                                       *)
(*                                                                         *)
(* Names of tables are with their prefix, which the caller has set first.  *)
(***************************************************************************)
EXTENDS MySqlBuilders, PgBuilders

CONSTANTS
    FieldOrder,              \* the properties of an entity, each in the column of its name
    KeyColumns,              \* those of ids, which relations join by
    Insertable, Updatable,   \* those that INSERT and UPDATE may set
    EntityGiven,             \* the entities that the caller writes
    WhereGiven,              \* the wheres the caller selects by
    MaxCalls                 \* calls of one builder; bounds the model

VARIABLES dialect, statement, parts, where, groupBy, appended, said, calls

statementVars == <<dialect, statement, parts, where, groupBy, appended, said, calls>>

Clauses == {"results", "joins", "orders", "columns", "rows", "sets"}

Table == "table"
Related == "related"

Fields(allowed) == SelectSeq(FieldOrder, LAMBDA p : p \in allowed)

StatementInit ==
    /\ dialect \in Dialects
    /\ statement \in {"select", "insert", "update", "delete"}
    /\ parts = [c \in Clauses |-> NoPart]
    /\ where = <<>> /\ groupBy = <<>> /\ appended = <<>>
    /\ said = [c \in Clauses |-> <<>>]
    /\ calls = 0

\* A method of the builder of one of these statements.
Method(statements) ==
    /\ statement \in statements
    /\ calls < MaxCalls
    /\ calls' = calls + 1
    /\ UNCHANGED <<dialect, statement>>

\* The builder of the dialect adds its part; the caller has asked for tokens.
Add(clause, mysql, pg, tokens) ==
    /\ parts' = [parts EXCEPT ![clause] = Appended(@, IF dialect = "mysql" THEN mysql ELSE pg)]
    /\ said' = [said EXCEPT ![clause] = @ \o tokens]

------------------------------------------------------------------------------
\* SELECT

\* includeEntityFields: all columns, each converted as its type asks for.
IncludeFields ==
    /\ Method({"select"})
    /\ Add("results", MySqlFields(Table, FieldOrder), PgFields(Table, FieldOrder),
           [i \in DOMAIN FieldOrder |->
               Token(Converted(FieldOrder[i]), Names(<<Table, FieldOrder[i], FieldOrder[i]>>))[1]])
    /\ UNCHANGED <<where, groupBy, appended>>

IncludeFormula ==
    /\ Method({"select"})
    /\ Add("results", MySqlFormula("COUNT(*)", "count"), PgFormula("COUNT(*)", "count"),
           Token("COUNT(*)", <<>>) \o Token("named", Names(<<"count">>)))
    /\ UNCHANGED <<where, groupBy, appended>>

\* The tokens of a related entity: null when the tested columns are null.
ObjectTokens(columns) ==
    LET tested == IF dialect = "mysql" THEN columns ELSE PgTested(columns)
    IN Token("CASE WHEN", <<>>)
       \o [i \in DOMAIN tested |-> Token("IS NULL", Names(<<Related, tested[i]>>))[1]]
       \o Token("THEN NULL ELSE JSON", <<>>)
       \o [i \in DOMAIN columns |->
              Token("member", <<Key(columns[i])>> \o Names(<<Related, columns[i]>>))[1]]
       \o Token("END", <<>>)

\* A relation adds a result and a join.
AddRelation(mysql, pg, tokens, column) ==
    /\ parts' = [parts EXCEPT
          !.results = Appended(@, IF dialect = "mysql" THEN mysql.results ELSE pg.results),
          !.joins = Appended(@, IF dialect = "mysql" THEN mysql.joins ELSE pg.joins)]
    /\ said' = [said EXCEPT
          !.results = @ \o tokens \o Token("named", Names(<<"relation">>)),
          !.joins = @ \o Token("LEFT JOIN", Names(<<Related, Table, column, Related, column>>))]

\* setOneToManyRelations: grouped by the column of the join, which must be set.
IncludeOneToMany ==
    /\ Method({"select"})
    /\ groupBy # <<>>
    /\ LET column == groupBy[1] IN
       AddRelation(MySqlOneToMany("relation", FieldOrder, Related, column, Table, column),
                   PgOneToMany("relation", FieldOrder, Related, column, Table, column),
                   Token(IF dialect = "mysql" THEN "GROUP_CONCAT" ELSE "jsonb_agg", <<>>)
                       \o Open \o ObjectTokens(FieldOrder) \o Close, column)
    /\ UNCHANGED <<where, groupBy, appended>>

\* setManyToOneRelations: joined by the column of the relation.
IncludeManyToOne ==
    /\ Method({"select"})
    /\ \E column \in KeyColumns :
       AddRelation(MySqlManyToOne("relation", FieldOrder, Related, column, Table, column),
                   PgManyToOne("relation", FieldOrder, Related, column, Table, column),
                   IF dialect = "mysql" THEN ObjectTokens(FieldOrder)
                   ELSE Token("jsonb_agg", <<>>) \o Open \o ObjectTokens(FieldOrder) \o Close
                            \o Token("->0", <<>>), column)
    /\ UNCHANGED <<where, groupBy, appended>>

SetOrders ==
    /\ Method({"select"})
    /\ \E way \in {"ASC", "DESC"} :
         LET orders == [i \in DOMAIN FieldOrder |-> <<FieldOrder[i], way>>] IN
         Add("orders", MySqlOrders(Table, orders), PgOrders(Table, orders),
             [i \in DOMAIN orders |-> Token(way, Names(<<Table, orders[i][1]>>))[1]])
    /\ UNCHANGED <<where, groupBy, appended>>

SetGroupBy ==
    /\ Method({"select"})
    /\ \E column \in KeyColumns : groupBy' = <<column>>
    /\ UNCHANGED <<parts, where, appended, said>>

\* setWhereFromQueryBuilder
SetWhere ==
    /\ Method({"select", "update", "delete"})
    /\ \E w \in WhereGiven : where' = w
    /\ UNCHANGED <<parts, groupBy, appended, said>>

------------------------------------------------------------------------------
\* INSERT and UPDATE

AppendEntity ==
    /\ Method({"insert"})
    /\ \E entity \in EntityGiven :
         /\ parts' = IF dialect = "mysql" THEN MySqlAppendEntity(parts, entity, Fields(Insertable))
                     ELSE PgAppendEntity(parts, entity, Fields(Insertable))
         /\ appended' = Append(appended, entity)
    /\ UNCHANGED <<where, groupBy, said>>

SetEntity ==
    /\ Method({"update"})
    /\ \E entity \in EntityGiven : LET fields == Fields(Updatable) IN
         Add("sets", MySqlAssignments(entity, fields), PgAssignments(entity, fields),
             [i \in DOMAIN fields |->
                 Token("assign", <<Name(fields[i]), Datum(entity[fields[i]])>>)[1]])
    /\ UNCHANGED <<where, groupBy, appended>>

StatementNext ==
    \/ IncludeFields \/ IncludeFormula \/ IncludeOneToMany \/ IncludeManyToOne
    \/ SetOrders \/ SetGroupBy \/ SetWhere \/ AppendEntity \/ SetEntity

StatementSpec == StatementInit /\ [][StatementNext]_statementVars

------------------------------------------------------------------------------
\* The statement as it is built.

WherePart == IF where = <<>> THEN NoPart ELSE Chain(dialect, "and", where)

\* BaseInsertQueryBuilder: prefix, columns, rows.
Insert ==
    LET prefix == IF dialect = "mysql" THEN MySqlInsertInto(Table) ELSE PgInsertInto(Table) IN
    Part(prefix.query \o Open \o parts.columns.query \o Close
             \o Token("VALUES", <<>>) \o parts.rows.query,
         prefix.values \o parts.columns.values \o parts.rows.values)

\* BaseUpdateQueryBuilder: prefix, assignments, where.
Update ==
    LET prefix == IF dialect = "mysql" THEN MySqlUpdateTable(Table) ELSE PgUpdateTable(Table) IN
    Part(prefix.query \o Token("SET", <<>>) \o parts.sets.query
             \o (IF where = <<>> THEN <<>> ELSE Token("WHERE", <<>>) \o WherePart.query),
         prefix.values \o parts.sets.values \o WherePart.values)

Built ==
    CASE statement = "select" -> IF dialect = "mysql"
                                 THEN MySqlSelect(parts, Table, WherePart, groupBy)
                                 ELSE PgSelect(parts, Table, WherePart, groupBy)
      [] statement = "insert" -> Insert
      [] statement = "update" -> Update
      [] statement = "delete" -> IF dialect = "mysql" THEN MySqlDelete(Table, WherePart)
                                 ELSE PgDelete(Table, WherePart)

\* A builder with nothing to write throws.
IsComplete ==
    CASE statement = "select" -> parts.results.query # <<>>
      [] statement = "insert" -> parts.columns.query # <<>> /\ parts.rows.query # <<>>
      [] statement = "update" -> parts.sets.query # <<>>
      [] statement = "delete" -> TRUE

------------------------------------------------------------------------------
\* Each column of an INSERT is named once, and every row has the value of its
\* entity in each of them.
RowsAreEntities(text) ==
    LET columns == SelectSeq(text, LAMBDA t : t.sql = "column")
        rows == SelectSeq(text, LAMBDA t : t.sql = "row")
        named == {columns[c].args[1].name : c \in DOMAIN columns}
    IN /\ Len(rows) = Len(appended) /\ Cardinality(named) = Len(columns)
       /\ \A r \in DOMAIN rows :
            /\ \A p \in Insertable \ named : appended[r][p] = NoValue
            /\ rows[r].args = [c \in DOMAIN columns |->
                                  Datum(appended[r][columns[c].args[1].name])]

AskedClause(sql, tokens) == IF tokens = <<>> THEN <<>> ELSE Token(sql, <<>>) \o tokens

\* A statement with its values in the place of its placeholders is what the
\* caller asked for, in whatever order the methods were called.  The builder of
\* PostgreSQL names the columns again for each entity, and takes only one.
StatementsSayWhatWasAsked ==
    LET text == Filled(Built)
        condition == AskedClause("WHERE", Filled(WherePart))
        table == Names(<<Table>>)
    IN IsComplete =>
        CASE statement = "select" ->
                text = Token("SELECT", <<>>) \o said.results \o Token("FROM", table) \o said.joins
                       \o condition
                       \o (IF groupBy = <<>> THEN <<>>
                           ELSE Token("GROUP BY", Names(<<Table, groupBy[1]>>)))
                       \o AskedClause("ORDER BY", said.orders)
          [] statement = "update" ->
                text = Token("UPDATE", table) \o Token("SET", <<>>) \o said.sets \o condition
          [] statement = "delete" -> text = Token("DELETE FROM", table) \o condition
          [] statement = "insert" ->
                dialect = "mysql" \/ Len(appended) = 1 =>
                    /\ text[1] = Token("INSERT INTO", table)[1]
                    /\ RowsAreEntities(text)
==============================================================================
