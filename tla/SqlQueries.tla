------------------------------- MODULE SqlQueries -------------------------------
(***************************************************************************)
(* Queries as the query abstraction layer represents them (qal/_qal.py):   *)
(* SELECT statements and set queries, their clauses, and the tables a      *)
(* query refers to, provides itself, or expects from a query around it.    *)
(*                                                                         *)
(* A subquery is known by a name in the hierarchy of expressions.  Limits, *)
(* hints, VALUES and window functions are left out.                        *)
(***************************************************************************)
EXTENDS Predicates

CONSTANTS
  Subqueries,   \* the query of each subquery name
  Schema        \* the column names of each table of the database

SubqueryOf(name) == [Node("subquery", "", <<>>) EXCEPT !.name = name]
Aggregate(function, argument) == Node("function", function, <<argument>>)
Star == Node("star", "", <<>>)
Exists(name) == Unary("EXISTS", SubqueryOf(name))

QueryFor(subquery) == Subqueries[subquery.name]

-------------------------------------------------------------------------------
(* Clauses. *)

DirectTableSource(t) == [table |-> t, subquery |-> "", virtual |-> FALSE, join |-> Null]
CteSource(t) == [DirectTableSource(t) EXCEPT !.virtual = TRUE]
SubqueryTableSource(t, name) == [CteSource(t) EXCEPT !.subquery = name]

\* An explicit JOIN of two sources; automatic joins have no condition.
JoinTableSource(type, lhs, rhs, condition) ==
  [DirectTableSource("") EXCEPT !.join = [type |-> type, lhs |-> lhs, rhs |-> rhs, condition |-> condition]]

NaturalJoins == {"NATURAL JOIN", "NATURAL LEFT JOIN", "NATURAL RIGHT JOIN", "NATURAL OUTER JOIN"}
AutoJoins == NaturalJoins \union {"CROSS JOIN"}

RECURSIVE JoinTypes(_)
JoinTypes(s) ==
  IF s.join = Null THEN {} ELSE {s.join.type} \union JoinTypes(s.join.lhs) \union JoinTypes(s.join.rhs)

RECURSIVE SourcesIn(_)
SourcesIn(s) == IF s.join = Null THEN {s} ELSE SourcesIn(s.join.lhs) \union SourcesIn(s.join.rhs)
WithQuery(t, name) == [table |-> t, subquery |-> name]

\* SELECT * FROM a list of sources.
SelectStar(sources) ==
  [kind |-> "select", ctes |-> <<>>, targets |-> << Star >>, from |-> sources, where |-> Null,
   group |-> <<>>, having |-> Null, order |-> <<>>, lhs |-> "", rhs |-> ""]

SelectFrom(targets, sources) == [SelectStar(sources) EXCEPT !.targets = targets]
Where(q, p) == [q EXCEPT !.where = p]
GroupBy(q, columns) == [q EXCEPT !.group = columns]
Having(q, p) == [q EXCEPT !.having = p]
OrderBy(q, expressions) == [q EXCEPT !.order = expressions]
With(q, ctes) == [q EXCEPT !.ctes = ctes]

\* Union, UnionAll, Intersect and Except.
SetQuery(operation, lhs, rhs) == [SelectStar(<<>>) EXCEPT !.kind = operation, !.lhs = lhs, !.rhs = rhs]

\* The sources of a FROM clause without the joins, those that are subqueries, and the conditions
\* of the joins.
FromSources(q) == UNION {SourcesIn(s) : s \in ToSet(q.from)}
NestedSources(q) == {s \in FromSources(q) : s.subquery # ""}

RECURSIVE JoinConditions(_)
JoinConditions(s) ==
  IF s.join = Null THEN {}
  ELSE JoinConditions(s.join.lhs) \union JoinConditions(s.join.rhs) \union ({s.join.condition} \ {Null})

FromConditions(q) == UNION {JoinConditions(s) : s \in ToSet(q.from)}

IsSetQuery(q) == q.kind # "select"
IsStar(q) == q.targets = << Star >>
IsAggregate(e) == e.kind = "function"

\* is_scalar: one aggregate and no groups.
IsScalar(q) == ~IsSetQuery(q) /\ Len(q.targets) = 1 /\ IsAggregate(q.targets[1]) /\ q.group = <<>>

Condition(p) == IF p = Null THEN {} ELSE {p}
ConditionParts(p) == IF p = Null THEN {} ELSE ToSet(p.parts)

\* iterexpressions of a query, and of each of its clauses.
RECURSIVE QueryExpressions(_)
QueryExpressions(q) ==
  IF IsSetQuery(q) THEN QueryExpressions(Subqueries[q.lhs]) \union QueryExpressions(Subqueries[q.rhs])
  ELSE ToSet(q.targets) \union ToSet(q.group) \union ToSet(q.order)
       \union {SubqueryOf(s.subquery) : s \in NestedSources(q)}
       \union UNION {ConditionParts(p) : p \in FromConditions(q)}
       \union ConditionParts(q.where) \union ConditionParts(q.having)
       \union UNION {QueryExpressions(Subqueries[w.subquery]) : w \in ToSet(q.ctes)}

\* iterchildren.
Children(e) == IF e.kind = "subquery" THEN QueryExpressions(QueryFor(e)) ELSE ToSet(e.parts)

\* collect_subqueries_in_expression, and _SubqueryDetector.
RECURSIVE SubqueriesIn(_)
SubqueriesIn(e) == IF e.kind = "subquery" THEN {e} ELSE UNION {SubqueriesIn(part) : part \in ToSet(e.parts)}

-------------------------------------------------------------------------------
(* Tables. *)

RECURSIVE QueryTables(_)
TablesIn(e) == TablesOf(e) \union UNION {QueryTables(QueryFor(s)) : s \in SubqueriesIn(e)}
QueryTables(q) ==
  IF IsSetQuery(q) THEN QueryTables(Subqueries[q.lhs]) \union QueryTables(Subqueries[q.rhs])
  ELSE UNION {TablesIn(e) : e \in ToSet(q.targets) \union ToSet(q.group) \union ToSet(q.order)
                                 \union Condition(q.where) \union Condition(q.having)}
       \union {s.table : s \in FromSources(q)} \union {w.table : w \in ToSet(q.ctes)}
       \union UNION {QueryTables(Subqueries[s.subquery]) : s \in NestedSources(q)}
       \union UNION {QueryTables(Subqueries[w.subquery]) : w \in ToSet(q.ctes)}

\* _collect_bound_tables.
RECURSIVE TablesOfSources(_)
TablesOfSources(q) ==
  {s.table : s \in FromSources(q)}
  \union UNION {TablesOfSources(Subqueries[s.subquery]) : s \in NestedSources(q)}

\* _collect_subqueries of all clauses.
RECURSIVE SubqueriesOfQuery(_)
SubqueriesOfQuery(q) ==
  IF IsSetQuery(q) THEN SubqueriesOfQuery(Subqueries[q.lhs]) \union SubqueriesOfQuery(Subqueries[q.rhs])
  ELSE UNION {SubqueriesIn(e) : e \in ToSet(q.targets) \union ToSet(q.group) \union ToSet(q.order)
                                      \union Condition(q.where) \union Condition(q.having)}
       \union {SubqueryOf(s.subquery) : s \in NestedSources(q)}
       \union UNION {SubqueriesOfQuery(Subqueries[w.subquery]) : w \in ToSet(q.ctes)}

RECURSIVE BoundTables(_)
BoundTables(q) ==
  IF IsSetQuery(q) THEN BoundTables(Subqueries[q.lhs]) \union BoundTables(Subqueries[q.rhs])
  ELSE TablesOfSources(q)
       \union UNION {BoundTables(QueryFor(s)) : s \in SubqueriesOfQuery(q)}
       \union UNION {{w.table} \union QueryTables(Subqueries[w.subquery]) : w \in ToSet(q.ctes)}

RECURSIVE UnboundTables(_)
UnboundTables(q) ==
  IF IsSetQuery(q) THEN UnboundTables(Subqueries[q.lhs]) \union UnboundTables(Subqueries[q.rhs])
  ELSE QueryTables(q) \ BoundTables(q)

\* columns.
RECURSIVE QueryColumns(_)
QueryColumns(q) ==
  IF IsSetQuery(q) THEN QueryColumns(Subqueries[q.lhs]) \union QueryColumns(Subqueries[q.rhs])
  ELSE UNION {ColumnsOf(e) : e \in QueryExpressions(q)}
       \union UNION {QueryColumns(QueryFor(s)) : s \in UNION {SubqueriesIn(e) : e \in QueryExpressions(q)}}
-------------------------------------------------------------------------------
(* What a query asks for.  A table is a set of rows, a row gives each of   *)
(* its columns a value; a subquery sees the row of the query around it.    *)
(* The columns that a natural join compares can be referred to on either   *)
(* side; a star shows them once, as a column of no table.                  *)

\* A condition that is true, unknown or false.
Known(truth) ==
  Binary("=", Static(IF truth = Unknown THEN Null ELSE truth), Static(True))

Over(row, outer) == row @@ outer

\* A row for each choice of one row per source.
RECURSIVE Combined(_)
Combined(tables) ==
  IF tables = <<>> THEN {<<>>} ELSE {Over(r, s) : r \in Head(tables), s \in Combined(Tail(tables))}

Largest(values) == IF values \ {Null} = {} THEN Null ELSE Max(values \ {Null})

\* The query in WITH or FROM that gives a source its rows, if it is no table.
NestedQuery(s, ctes) ==
  LET named == {w \in ToSet(ctes) : w.table = s.table}
  IN IF s.subquery # "" THEN s.subquery
     ELSE IF named # {} THEN (CHOOSE w \in named : TRUE).subquery ELSE ""

\* The names of the columns of a source.
RECURSIVE ColumnNames(_, _)
ColumnNames(s, ctes) ==
  LET name == NestedQuery(s, ctes)
      q == Subqueries[name]
  IN IF s.join # Null THEN ColumnNames(s.join.lhs, ctes) \o ColumnNames(s.join.rhs, ctes)
     ELSE IF name = "" THEN Schema[s.table]
     ELSE IF IsStar(q) THEN FlattenSeq([i \in DOMAIN q.from |-> ColumnNames(q.from[i], q.ctes)])
     ELSE [i \in DOMAIN q.targets |-> q.targets[i].name]

MergedColumn(name) == ColumnOf("", name)

\* Natural joins compare and merge the columns that both sides show under the same name.
ComparedColumns(type, left, right) ==
  IF type \notin NaturalJoins THEN {}
  ELSE {<< c, d >> \in left.shown \X right.shown : c.name = d.name}

Merging(left, right, compared, merged) ==
  [all |-> left.all \union right.all \union merged,
   shown |-> ((left.shown \union right.shown) \ UNION {Range(pair) : pair \in compared}) \union merged]

JoinedColumns(left, right, compared) ==
  Merging(left, right, compared, {MergedColumn(pair[1].name) : pair \in compared})

TableColumns(columns) == [all |-> columns, shown |-> columns]

\* The columns of the rows of a source, and those of them that a star shows.
RECURSIVE ColumnsOfSource(_, _)
ColumnsOfSource(s, ctes) ==
  IF s.join = Null THEN TableColumns({ColumnOf(s.table, n) : n \in ToSet(ColumnNames(s, ctes))})
  ELSE LET Joined(left, right) == JoinedColumns(left, right, ComparedColumns(s.join.type, left, right))
       IN Joined(ColumnsOfSource(s.join.lhs, ctes), ColumnsOfSource(s.join.rhs, ctes))

Hidden(columns) == columns.all \ columns.shown

HiddenColumns(s, ctes) ==
  IF JoinTypes(s) \intersect NaturalJoins = {} THEN {} ELSE Hidden(ColumnsOfSource(s, ctes))

NullRow(columns) == [c \in columns |-> Null]

\* A row of a natural join with its merged columns: the value of whichever side has one.
Coalesced(row, compared) ==
  [m \in {MergedColumn(pair[1].name) : pair \in compared} |->
     LET pair == CHOOSE pair \in compared : pair[1].name = m.name
     IN IF row[pair[1]] # Null THEN row[pair[1]] ELSE row[pair[2]]] @@ row

\* A condition or expression with the answers of its subqueries put in; other parts are those
\* given.
WithAnswers(e, answers, parts) ==
  LET values == UNION {IF e.parts[i] \in DOMAIN answers THEN {Static(t[1]) : t \in answers[e.parts[i]]}
                       ELSE {parts[i]} : i \in 2 .. Len(e.parts)}
  IN IF e.kind = "subquery" THEN Static(IF answers[e] = {} THEN Null ELSE (CHOOSE t \in answers[e] : TRUE)[1])
     ELSE IF e.kind = "unary" /\ e.operator = "EXISTS" THEN
       Known(IF answers[e.parts[1]] # {} THEN True ELSE False)
     ELSE IF e.kind = "in" /\ DOMAIN answers # {} THEN
       IF values = {} THEN Known(IF e.operator = "IN" THEN False ELSE True)
       ELSE In(e.operator, parts[1], SetToSeq(values))
     ELSE [e EXCEPT !.parts = parts]

RECURSIVE Answer(_, _, _), Ground(_, _, _), SourceRows(_, _, _, _)

\* The condition or expression with everything a row provides put in, subqueries included.
Ground(e, row, db) ==
  LET subqueries == {v \in {e} \union ToSet(e.parts) : v.kind = "subquery"}
  IN IF e \in DOMAIN row THEN Static(row[e])
     ELSE WithAnswers(e, [v \in subqueries |-> Answer(QueryFor(v), row, db)],
                         [i \in DOMAIN e.parts |-> Ground(e.parts[i], row, db)])

Satisfies(p, row, db) == p = Null \/ Keeps(Ground(p, row, db), <<>>)

ValueOf(e, row, db) == Evaluate(Ground(e, row, db), <<>>)

\* MAX and COUNT, of what an argument is in each row.
Aggregated(f, rows, Value(_, _)) ==
  IF f.operator = "MAX" THEN Largest({Value(f.parts[1], r) : r \in rows})
  ELSE Cardinality({r \in rows : f.parts[1] = Star \/ Value(f.parts[1], r) # Null})

\* A row per group: the group's columns and all aggregates over it.
GroupRows(columns, functions, rows, Value(_, _)) ==
  LET GroupOf(r) == [c \in ToSet(columns) |-> Value(c, r)]
      groups == IF columns = <<>> THEN {<<>>} ELSE {GroupOf(r) : r \in rows}
      Members(g) == {r \in rows : columns = <<>> \/ GroupOf(r) = g}
  IN {g @@ [f \in functions |-> Aggregated(f, Members(g), Value)] : g \in groups}

RECURSIVE AggregatesIn(_)
AggregatesIn(e) == IF IsAggregate(e) THEN {e} ELSE UNION {AggregatesIn(part) : part \in ToSet(e.parts)}

QueryAggregates(q) == UNION {AggregatesIn(e) : e \in ToSet(q.targets) \union Condition(q.having)}

KeepsLeft == {"LEFT JOIN", "OUTER JOIN", "NATURAL LEFT JOIN", "NATURAL OUTER JOIN"}
KeepsRight == {"RIGHT JOIN", "OUTER JOIN", "NATURAL RIGHT JOIN", "NATURAL OUTER JOIN"}

\* The rows of a join: the pairs that match, and the rows without a match that an outer join
\* keeps.  The sides are given by their rows and by their columns.
JoinedRows(join, left, right, leftColumns, rightColumns, outer, db) ==
  LET compared == ComparedColumns(join.type, leftColumns, rightColumns)
      matches ==
        {<< l, r >> \in left \X right :
           /\ Satisfies(join.condition, Over(Over(l, r), outer), db)
           /\ \A pair \in compared : Compare("=", l[pair[1]], r[pair[2]]) = True}
      Joined(matched) ==
        {Over(m[1], m[2]) : m \in matched}
        \union {Over(l, NullRow(rightColumns.all)) :
                  l \in {k \in left : join.type \in KeepsLeft /\ \A m \in matched : m[1] # k}}
        \union {Over(r, NullRow(leftColumns.all)) :
                  r \in {k \in right : join.type \in KeepsRight /\ \A m \in matched : m[2] # k}}
  IN UNION {{Coalesced(row, pairs) : row \in Joined(matched)} : matched \in {matches}, pairs \in {compared}}

\* The rows of a source, ctes being those around it.
SourceRows(s, ctes, outer, db) ==
  LET name == NestedQuery(s, ctes)
      names == ColumnNames(s, ctes)
      Names(key, n) == IF IsStar(Subqueries[name]) THEN key.name = n ELSE names[key] = n
      Side(t) == SourceRows(t, ctes, outer, db)
  IN IF s.join # Null THEN
       UNION {JoinedRows(s.join, left, right, ColumnsOfSource(s.join.lhs, ctes),
                         ColumnsOfSource(s.join.rhs, ctes), outer, db) :
                left \in {Side(s.join.lhs)}, right \in {Side(s.join.rhs)}}
     ELSE IF name = "" THEN db[s.table]
     ELSE {[c \in {ColumnOf(s.table, n) : n \in ToSet(names)} |->
              row[CHOOSE key \in DOMAIN row : Names(key, c.name)]] : row \in Answer(Subqueries[name], outer, db)}

\* The groups, aggregates, conditions on groups and targets of a query over the rows that WHERE
\* keeps.
Selected(q, kept, outer, db) ==
  LET rows == {Over(r, outer) : r \in kept}
      Value(e, r) == ValueOf(e, r, db)
      grouped == IF q.group = <<>> /\ QueryAggregates(q) = {} THEN kept
                 ELSE GroupRows(q.group, QueryAggregates(q), rows, Value)
      hidden == UNION {HiddenColumns(s, q.ctes) : s \in ToSet(q.from)}
      TargetsOf(r) == [i \in DOMAIN q.targets |-> ValueOf(q.targets[i], Over(r, outer), db)]
  IN {IF IsStar(q) THEN [c \in DOMAIN r \ hidden |-> r[c]] ELSE TargetsOf(r) :
        r \in {g \in grouped : Satisfies(q.having, Over(g, outer), db)}}

\* The answer of a query: tuples of the values of its targets, or whole rows for a star.
Answer(q, outer, db) ==
  IF IsSetQuery(q) THEN
    LET left == Answer(Subqueries[q.lhs], outer, db)
        right == Answer(Subqueries[q.rhs], outer, db)
    IN IF q.kind = "intersect" THEN left \intersect right
       ELSE IF q.kind = "except" THEN left \ right ELSE left \union right
  ELSE
    LET joined == Combined([i \in DOMAIN q.from |-> SourceRows(q.from[i], q.ctes, outer, db)])
    IN UNION {Selected(q, kept, outer, db) : kept \in {{r \in joined : Satisfies(q.where, Over(r, outer), db)}}}
===============================================================================
