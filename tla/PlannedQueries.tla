------------------------------ MODULE PlannedQueries ------------------------------
(***************************************************************************)
(* From the WHERE condition of a query to the conditions in its plan: the  *)
(* condition may be rewritten, then a plan is built with the PredicateTree *)
(* of the result.  PostgresDynProg plans a query after add_ec_predicates   *)
(* (opt/_dynprog.py), users may normalize it before.                       *)
(***************************************************************************)
EXTENDS PredicateTree, Rewrites

CONSTANTS
  Columns,   \* column nodes
  Values

\* A condition over these columns that can be constructed.
Legal(p) ==
  /\ p \in Nodes /\ p.kind \in PredicateKinds
  /\ \A n \in Hierarchy(p) : Constructed(n) /\ (n.kind = "column" => n \in Columns)

ASSUME ColumnsAssumption ==
  /\ Tables \subseteq STRING
  /\ \A c \in Columns : c.table \in Tables /\ c.name \in STRING /\ c = ColumnOf(c.table, c.name)
ASSUME ValuesAssumption == Values \subseteq Int \union {Null}

\* The predicates of a query are those of its condition, to which a conjunction can be added.
ASSUME ConditionsAssumption ==
  \A q \in Queries : /\ q = QueryOf(q.root) /\ Legal(q.root)
                     /\ Conjuncts(q.root) \subseteq NodesUpTo[Depth - 1]

VARIABLES
  original,   \* the condition of the query as it was given
  closed      \* equivalent columns have been joined

planVars == << query, order, intermediates, raised, original, closed >>

PlanInit == Init /\ original = query.root /\ closed = FALSE

Rewrite(root) ==
  /\ intermediates = {} /\ ~raised
  /\ query' = QueryOf(root)
  /\ UNCHANGED << order, intermediates, raised, original >>

InferBetweenPredicates == Rewrite(InferBetween(query.root)) /\ UNCHANGED closed

FlattenAndPredicate == Rewrite(Flatten(query.root)) /\ UNCHANGED closed

AddEcPredicates ==
  JoinsAreBinary(query.root) /\ Rewrite(AddEc(query.root)) /\ closed' = TRUE

NormalizeQuery ==
  JoinsAreBinary(InferBetween(query.root)) /\ Rewrite(NormalForm(query.root)) /\ closed' = TRUE

\* add_ec_predicates accepts binary joins only.
AddEcRaises ==
  /\ intermediates = {} /\ ~raised /\ ~JoinsAreBinary(query.root)
  /\ raised' = TRUE
  /\ UNCHANGED << query, order, intermediates, original, closed >>

Plan == Next /\ UNCHANGED << original, closed >>

PlanNext ==
  \/ InferBetweenPredicates \/ FlattenAndPredicate \/ AddEcPredicates \/ NormalizeQuery
  \/ AddEcRaises
  \/ Plan

PlanSpec == PlanInit /\ [][PlanNext]_planVars
-------------------------------------------------------------------------------
(* Properties.  Those of a query alone are stated for the time before it is planned: *)
(* building the plan leaves it as it is.                                             *)

Rows == [Columns -> Values]

SameMeaning(p, q) == \A row \in Rows : Keeps(p, row) <=> Keeps(q, row)

\* Equalities between two columns are plain: nothing is computed or cast.
PlainEqualities(root) ==
  \A p \in ColumnEqualities(JoinsOf(root)) : \A side \in ToSet(p.parts) : side.kind = "column"

\* NOT IN becomes IN in a SimpleFilter, and casts are dropped.
IsExactFilter(p) ==
  /\ IsSimpleFilter(p) /\ p.operator # "NOT IN"
  /\ \A operand \in ToSet(p.parts) : operand.kind # "cast"

\* infer_between_predicates, add_ec_predicates, flatten_and_predicate and normalize_query, in
\* any order, leave the result of the query as it is: no bound is lost where a column has
\* several, no join where a class of equal columns has cycles or two columns of one table.
\* This is said of queries whose equalities are of plain columns; others are taken for such.
\* Nor does the SimpleFilter of one of its filters mean anything else than the filter, columns
\* on the right included; the filter must not be NOT IN or have a cast operand.
RewritesKeepRows ==
  intermediates = {} =>
    /\ PlainEqualities(original) => SameMeaning(original, query.root)
    /\ \A p \in FiltersOf(query.root) : IsExactFilter(p) => SameMeaning(p, SimpleFilter(p))

\* After add_ec_predicates equalities are transitive: two columns that equal a third one are
\* compared directly, so that the enumerators may join their tables in any order.  Later
\* rewrites keep this.
EquivalentColumnsAreJoined ==
  (intermediates = {} /\ closed) =>
    LET equalities == ColumnEqualities(JoinsOf(query.root))
    IN \A p, q \in equalities : ColumnsOf(p) \intersect ColumnsOf(q) # {} =>
         \A c, d \in ColumnsOf(p) \union ColumnsOf(q) : c # d =>
           \E r \in Conjuncts(query.root) : r.operator = "=" /\ ToSet(r.parts) = {c, d}

Broken(p, ts) == Fragment(p, ts) \notin {<<>>, << p >>}

\* The condition of extract_query_fragment, from which the cardinality of an intermediate is
\* estimated, is the one its plan applies, if all predicates are simple and no OR or NOT is
\* taken apart.
PlansMatchFragments ==
  \A i \in intermediates :
    ( /\ \A c \in query.predicates : Simple(c) /\ ~Broken(c.predicate, i.tables) )
    => LET fragment == ToSet(Fragment(query.root, i.tables))
       IN \A row \in Rows : (\A c \in i.applied : Keeps(c.predicate, row)) <=>
                            (\A p \in fragment : Keeps(p, row))

\* A complete plan of a query of simple predicates keeps the rows of the query as it was
\* given, whatever the rewrites, the join order and the cross products.
PlansReturnTheQuery ==
  \A i \in intermediates :
    (i.tables = Tables /\ PlainEqualities(original) /\ \A c \in query.predicates : Simple(c))
    => \A row \in Rows : (\A c \in i.applied : Keeps(c.predicate, row)) <=> Keeps(original, row)
===============================================================================
