----------------------------- MODULE PgBuilders ------------------------------
(***************************************************************************)
(* What the query builders of PostgreSQL (src/data/query/pg) add to a      *)
(* statement, and how they assemble it.  Names are quoted in the text;     *)
(* only values are placeholders.                                           *)
(***************************************************************************)
EXTENDS SqlChains

\* A construct with names only has no values.
Quoted(sql, names) == Part(Token(sql, Names(names)), <<>>)

------------------------------------------------------------------------------
\* PgSelectQueryBuilder

\* includeEntityFields: includeColumn, includeColumnAsText, -Time, -Date and
\* -Timestamp.
PgFields(t, columns) ==
    Parts([i \in DOMAIN columns |->
               Quoted(Converted(columns[i]), <<t, columns[i], columns[i]>>)])

\* includeColumnFromQueryBuilder
PgColumnFromBuilder(part, as) == Parts(<<part, Quoted("named", <<as>>)>>)

\* includeFormulaByString
PgFormula(formula, as) == Parts(<<Quoted(formula, <<>>), Quoted("named", <<as>>)>>)

\* leftJoinTable: LEFT JOIN from ON source.column = from.column
PgLeftJoin(from, fromColumn, source, sourceColumn) ==
    Quoted("LEFT JOIN", <<from, source, sourceColumn, from, fromColumn>>)

\* setOrderByTableFields: one expression with all orders.
PgOrders(t, orders) ==
    Parts([i \in DOMAIN orders |-> Quoted(orders[i][2], <<t, orders[i][1]>>)])

\* buildQueryString and getQueryValueFactories
PgSelectText(parts, table, where, groupBy) ==
    Token("SELECT", <<>>) \o parts.results.query \o Token("FROM", <<Name(table)>>)
    \o parts.joins.query
    \o (IF where.query = <<>> THEN <<>> ELSE Token("WHERE", <<>>) \o where.query)
    \o (IF groupBy = <<>> THEN <<>> ELSE Token("GROUP BY", <<Name(table), Name(groupBy[1])>>))
    \o (IF parts.orders.query = <<>> THEN <<>> ELSE Token("ORDER BY", <<>>) \o parts.orders.query)

PgSelectValues(parts, where) ==
    parts.results.values \o parts.joins.values \o where.values \o parts.orders.values

PgSelect(parts, table, where, groupBy) ==
    Part(PgSelectText(parts, table, where, groupBy), PgSelectValues(parts, where))

------------------------------------------------------------------------------
\* A related entity as a JSON object (PgJsonBuildObjectBuilder): the tests for
\* null, of the columns that are told as they are, then the keys, which are
\* values, with their columns.
PgTested(columns) == SelectSeq(columns, LAMBDA c : ColumnTypes[c] \notin {"time", "bigint"})

PgJsonObject(t, columns) ==
    LET tested == PgTested(columns)
        nulls == Parts([i \in DOMAIN tested |-> Quoted("IS NULL", <<t, tested[i]>>)])
        members == Parts([i \in DOMAIN columns |->
                       Part(Token("member", <<Hole, Name(t), Name(columns[i])>>),
                            <<Key(columns[i])>>)])
    IN Part(Token("CASE WHEN", <<>>) \o nulls.query \o Token("THEN NULL ELSE JSON", <<>>)
                \o members.query \o Token("END", <<>>),
            nulls.values \o members.values)

\* FunctionQueryBuilder, as jsonb_agg of PgJsonAggBuilder
PgJsonAgg(part) == Part(Token("jsonb_agg", <<>>) \o Open \o part.query \o Close, part.values)

\* PgJsonIndexBuilder: the first of the aggregated objects.
PgJsonIndex(part) == Part(part.query \o Token("->0", <<>>), part.values)

\* setOneToMany and setManyToOne of PgEntitySelectQueryBuilder
PgOneToMany(property, columns, target, targetColumn, source, sourceColumn) ==
    [results |-> PgColumnFromBuilder(PgJsonAgg(PgJsonObject(target, columns)), property),
     joins   |-> PgLeftJoin(target, targetColumn, source, sourceColumn)]

PgManyToOne(property, columns, target, targetColumn, source, sourceColumn) ==
    [results |-> PgColumnFromBuilder(PgJsonIndex(PgJsonAgg(PgJsonObject(target, columns))), property),
     joins   |-> PgLeftJoin(target, targetColumn, source, sourceColumn)]

------------------------------------------------------------------------------
\* Inserts

\* addColumnName of PgInsertQueryBuilder
PgAddColumn(columns, name) == Appended(columns, Quoted("column", <<name>>))

\* appendEntity of PgEntityInsertQueryBuilder: a column and a value for each
\* insertable field that the entity has.
PgAppendEntity(parts, entity, insertable) ==
    LET has == SelectSeq(insertable, LAMBDA p : entity[p] # NoValue)
    IN [parts EXCEPT
            !.columns = FoldLeft(PgAddColumn, @, has),
            !.rows = Appended(@, Part(Token("row", Blanks(has)),
                                      [i \in DOMAIN has |-> Datum(entity[has[i]])]))]

PgInsertInto(table) == Quoted("INSERT INTO", <<table>>)

------------------------------------------------------------------------------
\* Updates and deletes

\* appendEntity of PgEntityUpdateQueryBuilder: an assignment for each updatable
\* field, of null when the entity does not have it.
PgAssignments(entity, updatable) ==
    Parts([i \in DOMAIN updatable |->
                 Part(Token("assign", <<Name(updatable[i]), Hole>>), <<Datum(entity[updatable[i]])>>)])

PgUpdateTable(table) == Quoted("UPDATE", <<table>>)

\* PgDeleteQueryBuilder
PgDelete(table, where) ==
    Part(Token("DELETE FROM", <<Name(table)>>)
             \o (IF where.query = <<>> THEN <<>> ELSE Token("WHERE", <<>>) \o where.query),
         where.values)
==============================================================================
