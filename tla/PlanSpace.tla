------------------------------- MODULE PlanSpace -------------------------------
(***************************************************************************)
(* What the two dynamic programming enumerators of opt/_dynprog.py work    *)
(* on: a query with its join graph, the operators that are allowed and a   *)
(* cost model.                                                             *)
(*                                                                         *)
(* The cost model is not part of the enumerators (they get any CostModel): *)
(* the one here is linear in the costs of the inputs, tells outer from     *)
(* inner, and calls some operators illegal on some intermediates.  Finite  *)
(* costs are multiples of 16, so that halving them at every level of a     *)
(* plan with up to four tables stays exact.                                *)
(***************************************************************************)
EXTENDS PathList

CONSTANTS
  Tables,   \* the tables of the query, numbered in the order of query.tables()
  ColumnNames,
  Queries   \* the queries and enumerator settings to consider

ScanOperator == {"seq", "index", "index_only", "bitmap"}
JoinOperator == {"nlj", "merge", "hash"}
\* The nested-loop join with a memoized or materialized inner path has costs of its own.
JoinMethod == JoinOperator \union {"memo", "mat"}

Query == [
  predicates : SUBSET SUBSET (Tables \X ColumnNames),  \* the columns of each equi-join it states
  joins : SUBSET {e \in SUBSET Tables : Cardinality(e) = 2},  \* joined once ECs are expanded
  cost : [ScanOperator -> [Tables -> Nat \union {Infinite}]],
  indexed : SUBSET Tables,      \* tables with an index on a column the query names
  narrow : SUBSET Tables,       \* tables of which the query names one column only
  starred : SUBSET Tables,      \* tables of which it selects all columns by a star,
  star_indexed : SUBSET Tables, \* where a column that only the star selects is indexed,
  star_narrow : SUBSET Tables,  \* and where the star selects nothing the query does not name
  rows : [SUBSET Tables -> Nat],
  workers : [Tables -> Nat],    \* _estimate_workers
  illegal : SUBSET (JoinMethod \X SUBSET Tables),
  scan_ops : SUBSET ScanOperator,
  join_ops : SUBSET JoinOperator,
  memoize : BOOLEAN,
  materialize : BOOLEAN,
  pg : BOOLEAN ]                \* is it the cost model of the target database itself?

ASSUME TablesAssumption == IsFiniteSet(Tables) /\ Tables # {} /\ Tables = 1 .. Cardinality(Tables)

-------------------------------------------------------------------------------
(* The join graph. *)

TablesOf(predicate) == {column[1] : column \in predicate}

StatedJoins(predicates) == {TablesOf(p) : p \in predicates}

\* Two columns are in one equivalence class if no set of columns holds just one of them
\* and is left by no predicate.
Equivalent(predicates, c, d) ==
  \A part \in SUBSET (UNION predicates) :
    (\A p \in predicates : p \subseteq part \/ p \intersect part = {}) => (c \in part => d \in part)

\* add_ec_predicates joins all columns of a class with each other.
ExpandedJoins(predicates) ==
  {e \in kSubset(2, Tables) :
     \E c, d \in UNION predicates : e = {c[1], d[1]} /\ Equivalent(predicates, c, d)}

ASSUME QueriesAssumption ==
  /\ \A q \in Queries : q \in Query
  /\ \A predicates \in {q.predicates : q \in Queries} :
       /\ \A p \in predicates : \E c, d \in Tables \X ColumnNames : p = {c, d} /\ c[1] # d[1]
       /\ LET joins == ExpandedJoins(predicates)
          IN \A q \in Queries : q.predicates = predicates => q.joins = joins

JoinsBetween(q, first, second) ==
  {e \in q.joins : \E a \in first, b \in second : e = {a, b}}

\* Are the tables connected in the join graph they induce?  A proper part without a
\* join to the rest would be left over by a breadth-first search.
JoinsTables(q, tables) ==
  \A part \in (SUBSET tables) \ {{}, tables} : JoinsBetween(q, part, tables \ part) # {}

-------------------------------------------------------------------------------
(* The cost model. *)

Price(q, method, rel, outer, inner) ==
  CASE << method, rel >> \in q.illegal \/ Infinite \in {outer, inner} -> Infinite
    [] OTHER ->
       CASE method = "nlj"   -> outer + 3 * inner + q.rows[rel]
         [] method = "memo"  -> outer + 2 * inner + 2 * q.rows[rel]
         [] method = "mat"   -> outer + inner + (q.rows[rel] + 320)
         [] method = "merge" -> outer + inner + 2 * q.rows[rel]
         [] method = "hash"  -> outer + inner + 3 * q.rows[rel]

GatherPrice(cost) == IF cost = Infinite THEN Infinite ELSE (cost \div 2) + 64

Cheaper(costs) == IF costs \subseteq {Infinite} THEN Infinite ELSE Min(costs \ {Infinite})

-------------------------------------------------------------------------------
(* The access paths of a table, for both enumerators. *)

ScansOf(q, t) ==
  {op \in q.scan_ops :
     /\ op \in {"index", "index_only"} => t \in q.indexed
     /\ op = "index_only" => t \in q.narrow}

-------------------------------------------------------------------------------
(* The reference: the cheapest way to compute every intermediate, over all splits,  *)
(* join directions, methods and places for a gather.                               *)

\* How the settings of q allow to join two inputs.
Methods(q) == {m \in JoinMethod : /\ m \in {"nlj", "memo", "mat"} => "nlj" \in q.join_ops
                                  /\ m \in {"merge", "hash"} => m \in q.join_ops
                                  /\ m = "memo" => q.memoize
                                  /\ m = "mat" => q.materialize}

Splits(q, rel) == {outer \in (SUBSET rel) \ {{}, rel} :
                     /\ JoinsTables(q, outer) /\ JoinsTables(q, rel \ outer)
                     /\ JoinsBetween(q, outer, rel \ outer) # {}}

\* The join of the best inputs of a split. A join over partial paths has a partial outer
\* and a complete inner input.
JoinCost(q, method, rel, outer, best) ==
  Price(q, method, rel, best[outer].regular, best[rel \ outer].regular)
PartialJoinCost(q, method, rel, outer, best) ==
  Price(q, method, rel, best[outer].partial, best[rel \ outer].regular)

RegularCosts(q, rel, best) ==
  IF Cardinality(rel) = 1
  THEN {q.cost[op][t] : op \in ScansOf(q, Min(rel)), t \in rel}
  ELSE {JoinCost(q, m, rel, o, best) : m \in Methods(q) \ {"merge"}, o \in Splits(q, rel)}

PartialCosts(q, rel, best) ==
  IF Cardinality(rel) = 1
  THEN IF q.workers[Min(rel)] > 0 THEN RegularCosts(q, rel, best) ELSE {}
  ELSE {PartialJoinCost(q, m, rel, o, best) : m \in Methods(q) \ {"merge", "mat"}, o \in Splits(q, rel)}

BestOf(q, rel, best) ==
  LET partial == Cheaper(PartialCosts(q, rel, best))
  IN [partial |-> partial,
      regular |-> Cheaper(RegularCosts(q, rel, best) \union {GatherPrice(partial)})]

\* Merge joins are left out: PostgresDynProg never builds one (JoinSearch).
Optimum(q) ==
  LET Best[rel \in SUBSET Tables] ==
        BestOf(q, rel, [s \in UNION {{o, rel \ o} : o \in Splits(q, rel)} |-> Best[s]])
  IN Best
===============================================================================
