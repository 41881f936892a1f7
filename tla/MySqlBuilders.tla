---------------------------- MODULE MySqlBuilders ----------------------------
(***************************************************************************)
(* What the query builders of MySQL (src/data/query/mysql) add to a        *)
(* statement, and how they assemble it.  Every argument is a placeholder   *)
(* of the text, and a value of its own list.  JSON, orders and columns are *)
(* tokens like the rest.                                                   *)
(***************************************************************************)
EXTENDS SqlChains

\* A template with a placeholder for each of its values.
Template(sql, values) == Part(Token(sql, Blanks(values)), values)

------------------------------------------------------------------------------
\* MySqlSelectQueryBuilder

\* includeEntityFields: includeColumn, includeColumnAsText, -Time, -Date and
\* -Timestamp.
MySqlFields(t, columns) ==
    Parts([i \in DOMAIN columns |->
               Template(Converted(columns[i]), Names(<<t, columns[i], columns[i]>>))])

\* includeColumnFromQueryBuilder
MySqlColumnFromBuilder(part, as) == Parts(<<part, Template("named", Names(<<as>>))>>)

\* includeFormulaByString
MySqlFormula(formula, as) ==
    Parts(<<Part(Token(formula, <<>>), <<>>), Template("named", Names(<<as>>))>>)

\* leftJoinTable: LEFT JOIN ?? ON ??.?? = ??.??
MySqlLeftJoin(from, fromColumn, source, sourceColumn) ==
    Template("LEFT JOIN", Names(<<from, source, sourceColumn, from, fromColumn>>))

\* setOrderByTableFields: an expression for each order.
MySqlOrders(t, orders) ==
    Parts([i \in DOMAIN orders |-> Template(orders[i][2], Names(<<t, orders[i][1]>>))])

\* buildQueryString and getQueryValueFactories
MySqlSelectText(parts, where, groupBy) ==
    Token("SELECT", <<>>) \o parts.results.query \o Token("FROM", <<Hole>>) \o parts.joins.query
    \o (IF where.query = <<>> THEN <<>> ELSE Token("WHERE", <<>>) \o where.query)
    \o (IF groupBy = <<>> THEN <<>> ELSE Token("GROUP BY", <<Hole, Hole>>))
    \o (IF parts.orders.query = <<>> THEN <<>> ELSE Token("ORDER BY", <<>>) \o parts.orders.query)

\* Fault: the values of the where before those of the joins.
MySqlWhereFirstValues(parts, table, where, groupBy) ==
    parts.results.values \o Names(<<table>>) \o where.values \o parts.joins.values
    \o (IF groupBy = <<>> THEN <<>> ELSE Names(<<table, groupBy[1]>>))
    \o parts.orders.values

MySqlSelectValues(parts, table, where, groupBy) ==
    parts.results.values \o Names(<<table>>) \o parts.joins.values \o where.values
    \o (IF groupBy = <<>> THEN <<>> ELSE Names(<<table, groupBy[1]>>))
    \o parts.orders.values

MySqlSelect(parts, table, where, groupBy) ==
    Part(MySqlSelectText(parts, where, groupBy), MySqlSelectValues(parts, table, where, groupBy))

------------------------------------------------------------------------------
\* A related entity as a JSON object (MySqlJsonObjectQueryBuilder): the tests
\* for null, then the keys with their columns; each list has its own values.
MySqlJsonObject(t, columns) ==
    LET nulls == Parts([i \in DOMAIN columns |-> Template("IS NULL", Names(<<t, columns[i]>>))])
        members == Parts([i \in DOMAIN columns |->
                       Template("member", <<Key(columns[i])>> \o Names(<<t, columns[i]>>))])
    IN Part(Token("CASE WHEN", <<>>) \o nulls.query \o Token("THEN NULL ELSE JSON", <<>>)
                \o members.query \o Token("END", <<>>),
            nulls.values \o members.values)

\* MySqlJsonArrayAggBuilder
MySqlJsonArray(part) ==
    Part(Token("GROUP_CONCAT", <<>>) \o Open \o part.query \o Close, part.values)

\* setOneToMany and setManyToOne of MySqlEntitySelectQueryBuilder: a result of
\* the name of the property, and a join.
MySqlOneToMany(property, columns, target, targetColumn, source, sourceColumn) ==
    [results |-> MySqlColumnFromBuilder(MySqlJsonArray(MySqlJsonObject(target, columns)), property),
     joins   |-> MySqlLeftJoin(target, targetColumn, source, sourceColumn)]

MySqlManyToOne(property, columns, target, targetColumn, source, sourceColumn) ==
    [results |-> MySqlColumnFromBuilder(MySqlJsonObject(target, columns), property),
     joins   |-> MySqlLeftJoin(target, targetColumn, source, sourceColumn)]

------------------------------------------------------------------------------
\* Inserts

\* addColumnName of MySqlInsertQueryBuilder: once for each name.
MySqlAddColumn(columns, name) ==
    IF Name(name) \in ToSet(columns.values) THEN columns
    ELSE Appended(columns, Template("column", Names(<<name>>)))

\* appendEntity of MySqlEntityInsertQueryBuilder: a column and a value for each
\* insertable field; a value the entity does not have is null.
MySqlAppendEntity(parts, entity, insertable) ==
    [parts EXCEPT
        !.columns = FoldLeft(MySqlAddColumn, @, insertable),
        !.rows = Appended(@, Template("row", [i \in DOMAIN insertable |-> Datum(entity[insertable[i]])]))]

MySqlInsertInto(table) == Template("INSERT INTO", Names(<<table>>))

------------------------------------------------------------------------------
\* Updates and deletes

\* appendEntity of MySqlEntityUpdateQueryBuilder: an assignment for each
\* updatable field, of null when the entity does not have it.
MySqlAssignments(entity, updatable) ==
    Parts([i \in DOMAIN updatable |->
               Template("assign", <<Name(updatable[i]), Datum(entity[updatable[i]])>>)])

MySqlUpdateTable(table) == Template("UPDATE", Names(<<table>>))

\* MySqlDeleteQueryBuilder
MySqlDelete(table, where) ==
    Part(Token("DELETE FROM", <<Hole>>)
             \o (IF where.query = <<>> THEN <<>> ELSE Token("WHERE", <<>>) \o where.query),
         Names(<<table>>) \o where.values)
==============================================================================
