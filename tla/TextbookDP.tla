------------------------------ MODULE TextbookDP ------------------------------
(***************************************************************************)
(* DynamicProgrammingEnumerator (opt/_dynprog.py): the cost of the entry   *)
(* that its dynamic programming table holds for every intermediate.  The   *)
(* table is filled level by level; an intermediate that is not connected   *)
(* has no entry.                                                           *)
(*                                                                         *)
(* This enumerator takes the joins as the query states them, counts the    *)
(* columns that a star selects, and has no inner variants and no partial   *)
(* paths: a query is planned as its AsWritten.                             *)
(***************************************************************************)
EXTENDS PlanSpace

\* The query without add_ec_predicates, with the columns of _collect_used_columns and the
\* plain operators only.
AsWritten(q) ==
  [q EXCEPT !.joins = StatedJoins(q.predicates),
            !.indexed = @ \union (q.starred \intersect q.star_indexed),
            !.narrow = @ \ (q.starred \ q.star_narrow),
            !.memoize = FALSE, !.materialize = FALSE, !.workers = [t \in Tables |-> 0]]

\* The cheapest scan of each table.
BaseAccessPaths(q) ==
  [S \in {{t} : t \in Tables} |-> Cheaper({q.cost[op][Min(S)] : op \in ScansOf(q, Min(S))})]

\* Variant: the inner input is always a single table.
CheapestPathLeftDeep(q, S, dp_table) ==
  LET outers == {outer \in (SUBSET S) \ {{}, S} : /\ {outer, S \ outer} \subseteq DOMAIN dp_table
                                                /\ Cardinality(S \ outer) = 1}
  IN Cheaper({Price(q, op, S, dp_table[outer], dp_table[S \ outer]) :
                op \in q.join_ops, outer \in outers})

\* Every way to split the intermediate into two inputs that have an entry.
CheapestPath(q, S, dp_table) ==
  LET outers == {outer \in (SUBSET S) \ {{}, S} : {outer, S \ outer} \subseteq DOMAIN dp_table}
  IN Cheaper({Price(q, op, S, dp_table[outer], dp_table[S \ outer]) :
                op \in q.join_ops, outer \in outers})

\* dp_table.update with the connected intermediates of a level.
BuildLevel(q, level, dp_table) ==
  LET access_paths == {S \in kSubset(level, Tables) : JoinsTables(q, S)}
  IN [S \in access_paths \union DOMAIN dp_table |->
        IF S \in access_paths THEN CheapestPath(q, S, dp_table) ELSE dp_table[S]]

DPTable(q) ==
  LET Table[level \in 1 .. Cardinality(Tables)] ==
        IF level = 1 THEN BaseAccessPaths(q) ELSE BuildLevel(q, level, Table[level - 1])
  IN Table[Cardinality(Tables)]

FinalPlanCost(q) == DPTable(AsWritten(q))[Tables]
===============================================================================
