------------------------------ MODULE RewriteSession ------------------------------
(***************************************************************************)
(* A query is rewritten step by step (transform.py): joins and stars are   *)
(* expanded, it is normalized and predicates are replaced, in any order;   *)
(* then some of its tables may be renamed, merged into the table of a      *)
(* materialized view, or moved into a subquery.                            *)
(*                                                                         *)
(* The last rewrites leave queries about tables the database does not      *)
(* have: for each of them the session keeps what its rows are.             *)
(***************************************************************************)
EXTENDS QueryRewrites

CONSTANTS
  Queries,
  Databases,
  Replacements,   \* pairs of predicates that mean the same
  Renamings,      \* new names for some tables
  Target          \* the table of a view

VARIABLES
  original,
  query,
  views,    \* what the new tables stand for: a query, and new names for its columns
  lossy,    \* a rewrite was applied to a query for which it is known not to be exact
  raised    \* the last rewrite failed

vars == << original, query, views, lossy, raised >>

Init ==
  /\ original \in Queries
  /\ query = original
  /\ views = {}
  /\ lossy = FALSE
  /\ raised = FALSE

Active == views = {} /\ ~raised

Rewrite(q, exact) ==
  /\ Active
  /\ query' = q
  /\ lossy' = (lossy \/ ~exact)
  /\ UNCHANGED << original, views, raised >>

RewriteWithViews(q, new, exact) ==
  /\ query' = q
  /\ views' = new
  /\ lossy' = (lossy \/ ~exact)
  /\ UNCHANGED << original, raised >>

Fail ==
  /\ Active
  /\ raised' = TRUE
  /\ UNCHANGED << original, query, views, lossy >>

-------------------------------------------------------------------------------
(* Joins, stars and predicates. *)

JoinsCanExpand(q) == \A s \in ToSet(q.from) : CanExpand(s, q.ctes)

\* Once a natural join has become another one, a star shows the columns of both sides, and
\* the side that an outer join has left empty is compared, too.
JoinsExpandExactly ==
  /\ ~(IsStar(query) /\ IsNatural(query))
  /\ \A s \in ToSet(query.from) : ~ComparesMerged(s)

\* A star lists the columns of both sides of a natural join, and those of nested stars under
\* the names of tables that only the nested query knows.
StarExpandsExactly == ~IsStar(query) \/ ~(IsNatural(query) \/ HidesTables(query))

ExpandJoins == JoinsCanExpand(query) /\ Rewrite(ExpandNaturalJoins(query), JoinsExpandExactly)
ExpandJoinsRaises == ~JoinsCanExpand(query) /\ Fail

MakeImplicit == IsImplicit(query) /\ Rewrite(ExplicitToImplicit(query), TRUE)
MakeImplicitRaises == ~IsImplicit(query) /\ Fail

ExpandStar == Rewrite(ExpandSelectStar(query), StarExpandsExactly)

\* add_ec_predicates takes the conditions of queries in FROM for conditions of the query.
RECURSIVE CanNormalize(_)
CanNormalize(q) ==
  LET implicit == ExpandNaturalJoins(q)
  IN /\ \A w \in ToSet(q.ctes) : CanNormalize(Subqueries[w.subquery])
     /\ JoinsCanExpand(q) /\ IsImplicit(implicit)
     /\ \A p \in Condition(ExplicitToImplicit(implicit).where) : JoinsAreBinary(InferBetween(p))

Normalize ==
  /\ CanNormalize(query)
  /\ \A s \in NestedSources(query) : Subqueries[s.subquery].where = Null
  /\ Rewrite(Normalized(query), JoinsExpandExactly /\ StarExpandsExactly)

NormalizeRaises == ~CanNormalize(query) /\ Fail

Replace(old, new) == IsFlat(query) /\ Rewrite(ReplacePredicate(query, old, new), TRUE)

-------------------------------------------------------------------------------
(* New tables. *)

TablesOfQuery == {s.table : s \in FromSources(query)}

View(q, renaming) == [query |-> q, columns |-> renaming]

SchemaColumns(tables) == UNION {{ColumnOf(t, n) : n \in ToSet(Schema[t])} : t \in tables}

QueryPredicates == UNION {Conjuncts(p) : p \in Condition(query.where) \union FromConditions(query)}

\* The fragment for these tables has a part of a predicate.
IsBroken(tables) ==
  \E p \in QueryPredicates :
    ~(TablesOf(p) \subseteq tables) /\ \E base \in BasePredicates(p) : TablesOf(base) \subseteq tables

RECURSIVE Operators(_)
Operators(e) == {e.operator} \union UNION {Operators(part) : part \in ToSet(e.parts)}

KeepsOperators(q) == \A p \in Condition(q.where) \union Condition(q.having) : "NOT IN" \notin Operators(p)

\* The tables are renamed one after the other if a new name is an old one, too; two sources
\* of an explicit join may get the same name.
NamesAreDistinct(names) ==
  /\ Range(names) \intersect DOMAIN names = {}
  /\ \A s \in ToSet(query.from), t, u \in DOMAIN names :
       (s.join # Null /\ {t, u} \subseteq SourceTables(s) /\ names[t] = names[u]) => t = u

\* What a new table stands for: the one or the join of those it replaces.
ViewsOf(names, prefix) ==
  {LET tables == {t \in DOMAIN names : names[t] = new}
   IN View(IF Cardinality(tables) = 1 THEN SelectStar(SetToSeq({DirectTableSource(t) : t \in tables}))
                                      ELSE ExtractSubquery(query, tables),
           RenamingOf(SchemaColumns(tables), names, prefix)) : new \in Range(names)}

\* A view has one column of each name.
NamesFit(names, prefix) == IsInjective(RenamingOf(SchemaColumns(DOMAIN names), names, prefix))

Rename(names, prefix) ==
  /\ Active /\ IsFlat(query) /\ IsImplicit(query)
  /\ DOMAIN names \subseteq TablesOfQuery /\ NamesFit(names, prefix)
  /\ ~NamesAreTaken(query, names)
  /\ RewriteWithViews(RenameTable(query, names, prefix), ViewsOf(names, prefix),
       /\ KeepsOperators(query) /\ NamesAreDistinct(names)
       /\ ~IsInjective(names) => ~IsBroken(DOMAIN names))

Merge(tables) ==
  LET names == [t \in tables |-> Target]
  IN /\ Active /\ IsFlat(query) /\ IsImplicit(query) /\ NamesFit(names, FALSE)
     /\ HasSimpleFrom(query) \/ Cardinality(tables) = 1
     /\ RewriteWithViews(MergeTables(query, tables, Target), ViewsOf(names, FALSE),
                         KeepsOperators(query) /\ ~IsBroken(tables))

\* Once the first table has its new name, the second cannot get it in an explicit join.
MergeRaises(tables) ==
  /\ Cardinality(tables) > 1 /\ IsFlat(query) /\ ~HasSimpleFrom(query)
  /\ Fail

-------------------------------------------------------------------------------
(* move_into_subquery. *)

\* The PredicateTree of a condition whose tables are visited in some order.
Tree(root, visited) ==
  INSTANCE PredicateTree WITH
    Tables <- DOMAIN visited, Queries <- {}, query <- QueryOf(root), order <- visited,
    intermediates <- {}, raised <- FALSE

VisitOrders == {o \in [TablesOfQuery -> 1 .. Cardinality(TablesOfQuery)] : IsInjective(o)}

Grouped(conjuncts) == IF conjuncts = {} THEN <<>> ELSE << AndOf({c.predicate : c \in conjuncts}) >>

\* The filters of each table and the joins between them, as the tree groups them.
SubqueryPredicates(tables, visited) ==
  IF query.where = Null THEN <<>>
  ELSE FlattenSeq(Mapped(SetToSeq(tables), LAMBDA t : Grouped(Tree(query.where, visited)!FiltersFor(t))))
       \o Grouped(Tree(query.where, visited)!JoinsBetween(tables, tables))

\* The columns that the subquery provides.
ColumnsFrom(tables) == {c \in AllColumns(query) : c.table \in tables}

CanMove(tables, visited) ==
  /\ IsFlat(query) /\ Cardinality(tables) > 1
  /\ IsInjective([c \in ColumnsFrom(tables) |-> c.name]) /\ ColumnsFrom(tables) # {}
  /\ query.where # Null => ~Tree(query.where, visited)!Raising

\* Predicates over tables on both sides, comparisons apart, may be moved as a whole; those
\* that occur in others are removed from them; and a star loses the columns nobody mentions.
MovesCleanly(tables) ==
  /\ ~IsStar(query)
  /\ \A p \in QueryPredicates :
       \/ p.kind = "binary" \/ TablesOf(p) \subseteq tables \/ TablesOf(p) \intersect tables = {}
  /\ \A p, r \in QueryPredicates : p # r => r = RemovePredicate(r, p)

MoveIntoSubquery(tables, visited) ==
  LET renaming == [c \in ColumnsFrom(tables) |-> ColumnOf(Target, c.name)]
      moved == SubqueryPredicates(tables, visited)
      subquery == Where(SelectFrom(SetToSeq(ColumnsFrom(tables)),
                                   SelectSeq(query.from, LAMBDA s : s.table \in tables)), AllOf(moved))
      rest == [query EXCEPT
                 !.from = Append(SelectSeq(@, LAMBDA s : s.table \notin tables), CteSource(Target)),
                 !.where = FoldLeft(RemovePredicate, @, moved)]
  IN /\ Active /\ CanMove(tables, visited) /\ HasSimpleFrom(query)
     /\ RewriteWithViews(RenameColumnsInQuery(rest, renaming), {View(subquery, renaming)},
                         MovesCleanly(tables))

MoveRaises(tables, visited) == ~CanMove(tables, visited) /\ Fail

-------------------------------------------------------------------------------
Next ==
  \/ ExpandJoins \/ ExpandJoinsRaises \/ MakeImplicit \/ MakeImplicitRaises
  \/ ExpandStar \/ Normalize \/ NormalizeRaises
  \/ \E pair \in Replacements : Replace(pair[1], pair[2])
  \/ \E names \in Renamings, prefix \in BOOLEAN : Rename(names, prefix)
  \/ \E tables \in SUBSET TablesOfQuery :
       \/ tables # {} /\ Merge(tables)
       \/ MergeRaises(tables)
       \/ \E visited \in VisitOrders : MoveIntoSubquery(tables, visited) \/ MoveRaises(tables, visited)

Spec == Init /\ [][Next]_vars
-------------------------------------------------------------------------------
(* Properties. *)

RenamedRow(row, renaming) ==
  LET NewName(c) == IF c \in DOMAIN renaming THEN renaming[c] ELSE c
  IN [c \in {NewName(d) : d \in DOMAIN row} |-> row[CHOOSE d \in DOMAIN row : NewName(d) = c]]

NewTable(v) == (CHOOSE c \in Range(v.columns) : TRUE).table

\* The database with the new tables.
WithViews(db) ==
  [t \in {NewTable(v) : v \in views} |->
     LET v == CHOOSE w \in views : NewTable(w) = t
     IN {RenamedRow(row, v.columns) : row \in Answer(AsStarQuery(v.query), <<>>, db)}] @@ db

NewColumns == FoldSet(LAMBDA v, all : v.columns @@ all, <<>>, views)

\* A row of the original answer, with the names and in the form of the present one.
Expected(row) ==
  LET renamed == RenamedRow(row, NewColumns)
  IN IF ~IsStar(original) THEN row
     ELSE IF IsStar(query) THEN renamed
     ELSE [i \in DOMAIN query.targets |-> renamed[query.targets[i]]]

\* Queries return the same rows after they have been rewritten, in any order of the rewrites:
\* outer joins keep their unmatched rows, no condition of a join is lost, a star has all
\* columns, queries over a view find there what they asked the tables for, and a predicate
\* that is moved into a subquery leaves none behind that needed it.  (transform.py)
RewritesReturnTheAnswer ==
  ~lossy => \A db \in Databases :
              \A tables \in {WithViews(db)} :
                Answer(query, <<>>, tables) = {Expected(row) : row \in Answer(original, <<>>, db)}

\* The fragment of a query for some of its tables, as it is used to estimate or to count
\* the rows of an intermediate, has every row that takes part in the answer, unless an OR
\* or a NOT was taken apart.  (extract_query_fragment)
FragmentsCoverTheQuery ==
  (views = {} /\ ~lossy /\ IsFlat(query) /\ IsImplicit(query)) =>
    \A tables \in SUBSET TablesOfQuery : (tables # {} /\ ~IsBroken(tables)) =>
      LET fragment == ExtractSubquery(query, tables)
          whole == SelectStar(query.from)
      IN \A db \in Databases :
           {[c \in {d \in DOMAIN row : d.table \in tables} |-> row[c]] :
              row \in Answer(Where(whole, query.where), <<>>, db)}
           \subseteq Answer(fragment, <<>>, db)
===============================================================================
