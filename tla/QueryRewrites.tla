------------------------------ MODULE QueryRewrites ------------------------------
(***************************************************************************)
(* Rewrites of whole queries (transform.py): explicit and natural joins,   *)
(* stars, renamed columns and tables, predicates that are removed or       *)
(* replaced, and the parts of a query that concern some of its tables.     *)
(*                                                                         *)
(* Rewrites that look into nested queries are modelled for queries without *)
(* any; stars and joins also for queries with queries in WITH and FROM.    *)
(***************************************************************************)
EXTENDS SqlQueries, Rewrites

\* A sequence, an element at a time.
Mapped(s, Changed(_)) == FoldLeft(LAMBDA done, e : Append(done, Changed(e)), <<>>, s)

Optional(p, Changed(_)) == IF p = Null THEN Null ELSE Changed(p)

\* create_and, which skips what is None.
AllOf(predicates) ==
  LET present == SelectSeq(predicates, LAMBDA p : p # Null)
  IN IF present = <<>> THEN Null ELSE Compound("and", present)

\* A change of every expression, source and condition of a query.
MapClauses(q, Expression(_), Source(_), Predicate(_)) ==
  [q EXCEPT !.targets = Mapped(@, Expression), !.from = Mapped(@, Source),
            !.where = Optional(@, Predicate), !.group = Mapped(@, Expression),
            !.having = Optional(@, Predicate), !.order = Mapped(@, Expression)]

\* A change of the leaves and of the conditions of a source.
MapSource(source, Leaf(_), Predicate(_)) ==
  LET RECURSIVE go(_)
      go(s) == IF s.join = Null THEN Leaf(s)
               ELSE [s EXCEPT !.join = [type |-> @.type, lhs |-> go(@.lhs), rhs |-> go(@.rhs),
                                        condition |-> Optional(@.condition, Predicate)]]
  IN go(source)

SourceTables(s) == {t.table : t \in SourcesIn(s)}
HasSimpleFrom(q) == \A s \in ToSet(q.from) : s.join = Null /\ s.subquery = ""
IsFlat(q) == q.ctes = <<>> /\ NestedSources(q) = {}

AsStarQuery(q) == [q EXCEPT !.targets = << Star >>]

-------------------------------------------------------------------------------
(* Explicit joins. *)

\* Variant: the condition of an inner join replaces those of the joins below it.
ImplicitConditionOfTop(source) ==
  IF source.join = Null THEN Null ELSE source.join.condition

\* _ImplicitFromClauseRewriter: the conditions of all joins of a source.
ImplicitCondition(source) ==
  LET RECURSIVE go(_)
      go(s) == IF s.join = Null THEN Null
               ELSE AllOf(<< go(s.join.lhs), go(s.join.rhs), s.join.condition >>)
  IN go(source)

ImplicitSources(source) ==
  LET RECURSIVE go(_)
      go(s) == IF s.join = Null THEN << s >> ELSE go(s.join.lhs) \o go(s.join.rhs)
  IN go(source)

\* Outer and natural joins have no implicit form.
IsImplicit(q) == \A s \in ToSet(q.from) : JoinTypes(s) \subseteq {"JOIN", "CROSS JOIN"}

ExplicitToImplicit(q) ==
  IF HasSimpleFrom(q) THEN q
  ELSE LET condition == AllOf(<< AllOf(Mapped(q.from, ImplicitCondition)), q.where >>)
       IN [q EXCEPT !.from = FlattenSeq(Mapped(q.from, ImplicitSources)),
                    !.where = IF condition = Null THEN Null ELSE Flatten(condition)]

-------------------------------------------------------------------------------
(* The columns of a source, as they are looked up in the schema. *)

RECURSIVE ResultSetShape(_, _)

\* _determine_output_shape of a query known as a table: the columns behind a star keep
\* their tables.
OutputShape(q, t, ctes) ==
  FlattenSeq(Mapped(q.targets, LAMBDA target :
    IF target = Star THEN FlattenSeq(Mapped(q.from, LAMBDA s : ResultSetShape(s, ctes)))
    ELSE << IF target.kind = "column" THEN ColumnOf(t, target.name) ELSE ColumnOf(t, "?column?") >>))

ResultSetShape(s, ctes) ==
  LET name == NestedQuery(s, ctes)
  IN IF s.join # Null THEN ResultSetShape(s.join.lhs, ctes) \o ResultSetShape(s.join.rhs, ctes)
     ELSE IF name = "" THEN Mapped(Schema[s.table], LAMBDA n : ColumnOf(s.table, n))
     ELSE OutputShape(Subqueries[name], s.table, ctes)

\* expand_select_star.
ExpandSelectStar(q) ==
  [q EXCEPT !.targets = FlattenSeq(Mapped(@, LAMBDA target :
     IF target = Star THEN FlattenSeq(Mapped(q.from, LAMBDA s : ResultSetShape(s, q.ctes))) ELSE << target >>))]

\* The columns behind a nested star get the names of tables that only the nested query knows.
HidesTables(q) ==
  \E s \in FromSources(q) : NestedQuery(s, q.ctes) # "" /\ IsStar(Subqueries[NestedQuery(s, q.ctes)])

IsNatural(q) == \E s \in ToSet(q.from) : JoinTypes(s) \intersect NaturalJoins # {}

\* A natural join compares what an outer natural join below it has merged.
RECURSIVE ComparesMerged(_)
ComparesMerged(s) ==
  /\ s.join # Null
  /\ \E side \in {s.join.lhs, s.join.rhs} :
       \/ ComparesMerged(side)
       \/ s.join.type \in NaturalJoins /\ JoinTypes(side) \intersect (NaturalJoins \ {"NATURAL JOIN"}) # {}

\* The columns of a source by their names, whatever tables the shape gives them.
NamedColumns(source, ctes) ==
  {c \in UNION {{ColumnOf(s.table, d.name) : d \in ToSet(ResultSetShape(s, ctes))} : s \in SourcesIn(source)} :
     c.name # "?column?"}

\* The columns that _JoinRewriter compares.
Overlap(join, ctes) ==
  {<< c, d >> \in NamedColumns(join.lhs, ctes) \X NamedColumns(join.rhs, ctes) : c.name = d.name}

\* A natural join of sources without a common column cannot be expanded.
RECURSIVE CanExpand(_, _)
CanExpand(s, ctes) ==
  s.join # Null =>
    /\ CanExpand(s.join.lhs, ctes) /\ CanExpand(s.join.rhs, ctes)
    /\ s.join.type \in NaturalJoins => Overlap(s.join, ctes) # {}

ExpandedType ==
  [type \in NaturalJoins |->
     CASE type = "NATURAL JOIN" -> "JOIN" [] type = "NATURAL LEFT JOIN" -> "LEFT JOIN"
       [] type = "NATURAL RIGHT JOIN" -> "RIGHT JOIN" [] type = "NATURAL OUTER JOIN" -> "OUTER JOIN"]

\* expand_natural_joins.
ExpandNaturalJoins(q) ==
  LET RECURSIVE go(_)
      go(s) ==
        IF s.join = Null THEN s
        ELSE LET lhs == go(s.join.lhs)
                 rhs == go(s.join.rhs)
             IN IF s.join.type \notin NaturalJoins
                THEN JoinTableSource(s.join.type, lhs, rhs, s.join.condition)
                ELSE JoinTableSource(ExpandedType[s.join.type], lhs, rhs,
                       AndOf({Binary("=", pair[1], pair[2]) : pair \in Overlap(s.join, q.ctes)}))
  IN [q EXCEPT !.from = Mapped(@, go)]

\* normalize_query: the queries in WITH first, each of which becomes another known query.
RECURSIVE Normalized(_)
NormalizedName(name) == CHOOSE n \in DOMAIN Subqueries : Subqueries[n] = Normalized(Subqueries[name])
Normalized(q) ==
  LET ctes == Mapped(q.ctes, LAMBDA w : WithQuery(w.table, NormalizedName(w.subquery)))
      implicit == ExplicitToImplicit(ExpandNaturalJoins(With(q, ctes)))
      flat == [implicit EXCEPT !.where = Optional(@, NormalForm), !.having = Optional(@, Flatten)]
  IN ExpandSelectStar(flat)

-------------------------------------------------------------------------------
(* Renaming. *)

\* rename_columns_in_expression.
RenameColumns(expression, renaming) ==
  LET RECURSIVE go(_)
      go(e) == IF e \in DOMAIN renaming THEN renaming[e] ELSE [e EXCEPT !.parts = Mapped(@, go)]
  IN go(expression)

RenameColumnsInPredicate(predicate, renaming) ==
  LET RECURSIVE go(_)
      go(p) == [p EXCEPT !.parts = IF p.kind \in Compounds THEN Mapped(@, go)
                                   ELSE Mapped(@, LAMBDA e : RenameColumns(e, renaming))]
  IN go(predicate)

RenameColumnsInSource(source, renaming) ==
  MapSource(source, LAMBDA leaf : leaf, LAMBDA p : RenameColumnsInPredicate(p, renaming))

RenameColumnsInQuery(q, renaming) ==
  MapClauses(q, LAMBDA e : RenameColumns(e, renaming), LAMBDA s : RenameColumnsInSource(s, renaming),
             LAMBDA p : RenameColumnsInPredicate(p, renaming))

Renamed(t, names) == IF t \in DOMAIN names THEN names[t] ELSE t

\* _TableReferenceRenamer: the tables of expressions; NOT IN becomes IN.
RenameTables(expression, names) ==
  LET RECURSIVE go(_)
      go(e) == [e EXCEPT !.table = Renamed(@, names), !.parts = Mapped(@, go),
                         !.operator = IF e.kind = "in" THEN "IN" ELSE @]
  IN go(expression)

\* visit_from_clause: a source whose tables have all been seen is dropped.
Distinct(sources) ==
  FoldLeft(LAMBDA kept, s : IF SourceTables(s) \subseteq UNION {SourceTables(k) : k \in ToSet(kept)}
                            THEN kept ELSE Append(kept, s), <<>>, sources)

RenameTableSource(source, names) ==
  MapSource(source, LAMBDA leaf : [leaf EXCEPT !.table = Renamed(@, names)], LAMBDA p : RenameTables(p, names))

RenameTablesInQuery(q, names) ==
  LET Rename(e) == RenameTables(e, names)
      renamed == MapClauses(q, Rename, LAMBDA s : RenameTableSource(s, names), Rename)
  IN [renamed EXCEPT !.from = Distinct(@)]

\* The renamer refuses to give a table of a query with explicit joins the name of another.
NamesAreTaken(q, names) ==
  /\ Range(names) \intersect {s.table : s \in FromSources(q)} # {}
  /\ \E s \in ToSet(q.from) : s.join # Null

\* The columns of renamed tables, with the old table as a prefix on request.
RenamingOf(columns, names, prefix) ==
  [c \in {d \in columns : d.table \in DOMAIN names} |->
     ColumnOf(names[c.table], IF prefix THEN c.table \o "_" \o c.name ELSE c.name)]

AllColumns(q) ==
  UNION {ColumnsOf(e) : e \in ToSet(q.targets) \union ToSet(q.group) \union ToSet(q.order)
                              \union Condition(q.where) \union Condition(q.having) \union FromConditions(q)}

\* rename_table: the columns first, then all tables, those of the new columns included.
RenameTable(q, names, prefix) ==
  RenameTablesInQuery(RenameColumnsInQuery(q, RenamingOf(AllColumns(q), names, prefix)), names)

\* merge_tables renames the columns at once and the tables one by one.
MergeTables(q, tables, target) ==
  LET names == [t \in tables |-> target]
  IN FoldLeft(LAMBDA merged, t : RenameTable(merged, t :> target, FALSE),
              RenameColumnsInQuery(q, RenamingOf(AllColumns(q), names, FALSE)), SetToSeq(tables))

-------------------------------------------------------------------------------
(* Predicates. *)

\* remove_predicate (Null for None).
RemovePredicate(root, removed) ==
  LET RECURSIVE go(_)
      go(p) ==
        IF p = removed THEN Null
        ELSE IF p.kind \notin Compounds THEN p
        ELSE LET rest == SelectSeq(Mapped(p.parts, go), LAMBDA part : part # Null)
             IN IF rest = <<>> THEN Null ELSE Compound(p.kind, rest)
  IN Optional(root, go)

\* replace_expressions: a predicate's operands first, the predicate itself last.
ReplaceInPredicate(predicate, Replaced(_)) ==
  LET RECURSIVE go(_)
      go(p) == Replaced(IF p.kind \in Compounds THEN Compound(p.kind, Mapped(p.parts, go))
                                                ELSE [p EXCEPT !.parts = Mapped(@, Replaced)])
  IN go(predicate)

ReplaceInSource(source, Replaced(_)) ==
  MapSource(source, LAMBDA leaf : leaf, LAMBDA p : ReplaceInPredicate(p, Replaced))

ReplaceExpressions(q, Replaced(_)) ==
  MapClauses(q, Replaced, LAMBDA s : ReplaceInSource(s, Replaced), LAMBDA p : ReplaceInPredicate(p, Replaced))

ReplacePredicate(q, old, new) == ReplaceExpressions(q, LAMBDA e : IF e = old THEN new ELSE e)

-------------------------------------------------------------------------------
(* Parts of a query. *)

Within(expressions, tables) == SelectSeq(expressions, LAMBDA e : TablesOf(e) \subseteq tables)

FragmentOf(p, tables) ==
  IF p = Null \/ Fragment(p, tables) = <<>> THEN Null ELSE Fragment(p, tables)[1]

\* extract_query_fragment, keeping the projection.
QueryFragment(q, tables) ==
  LET implicit == ExplicitToImplicit(q)
  IN [implicit EXCEPT
        !.targets = IF Within(@, tables) = <<>> THEN << Star >> ELSE Within(@, tables),
        !.from = SelectSeq(@, LAMBDA s : s.table \in tables),
        !.where = FragmentOf(@, tables), !.having = FragmentOf(@, tables),
        !.group = Within(@, tables), !.order = Within(@, tables)]

\* extract_subquery.
ExtractSubquery(q, tables) ==
  LET fragment == QueryFragment(q, tables)
  IN Where(SelectStar(fragment.from), fragment.where)
===============================================================================
