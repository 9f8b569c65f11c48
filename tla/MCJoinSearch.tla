----------------------------- MODULE MCJoinSearch -----------------------------
(***************************************************************************)
(* Queries over four tables for JoinSearch.  Chain, star and cycle of      *)
(* joins over columns of their own; chains over one column of each table,  *)
(* where equivalence classes add joins; a graph that is not connected.     *)
(* Small and large tables so that operators, directions and bushy plans    *)
(* matter; an index path within one percent of the sequential scan; stars  *)
(* in the SELECT clause; parallel tables; operators that are illegal on    *)
(* one intermediate.                                                       *)
(***************************************************************************)
EXTENDS JoinSearch

Four == 1 .. 4

\* The join of two tables on columns of its own, and on the first column of both.
On(s, t) == {<< s, t >>, << t, s >>}
OnFirst(s, t) == {<< s, 0 >>, << t, 0 >>}
MCColumnNames == 0 .. 4

Graphs == {{On(1, 2), On(2, 3), On(3, 4)}, {On(1, 2), On(1, 3), On(1, 4)},
           {On(1, 2), On(2, 3), On(3, 4), On(1, 4)}, {On(1, 2), On(3, 4)},
           {OnFirst(1, 2), OnFirst(2, 3), OnFirst(3, 4)}, {OnFirst(1, 2), OnFirst(2, 3), On(3, 4)}}

\* Table sizes, and the cost of the scans that follow from them.
Small == 160
Large == 3200
Sizes == {[t \in Four |-> IF t \in large THEN Large ELSE Small] : large \in {{1}, {1, 4}, {2, 3}, Four}}
ScanCosts(size) ==
  [op \in ScanOperator |->
     [t \in Four |-> CASE op = "seq" -> size[t]
                       [] op = "index" -> IF t = 4 /\ size[t] = Large THEN 3232 ELSE size[t] + 32
                       [] op = "index_only" -> size[t] - 16
                       [] op = "bitmap" -> size[t] + 16]]

\* The intermediates that a filter makes small.
Selective == {{}, {{1, 2}, {1, 2, 3}}, {{3, 4}, {2, 3}}}

Base == [predicates |-> {}, joins |-> {}, starred |-> {}, star_indexed |-> {2}, star_narrow |-> {},
         cost |-> ScanCosts([t \in Four |-> Small]),
         indexed |-> {1, 4}, narrow |-> {1},
         rows |-> [S \in SUBSET Four |-> 160],
         workers |-> [t \in Four |-> 0], illegal |-> {},
         scan_ops |-> ScanOperator, join_ops |-> {"nlj", "hash"},
         memoize |-> TRUE, materialize |-> TRUE, pg |-> FALSE]

Settings ==
  {Base,
   [Base EXCEPT !.memoize = FALSE, !.materialize = FALSE],
   [Base EXCEPT !.memoize = FALSE, !.materialize = FALSE, !.join_ops = {"hash"}, !.scan_ops = {"index", "seq"}],
   [Base EXCEPT !.memoize = FALSE, !.materialize = FALSE, !.starred = {1}],
   [Base EXCEPT !.memoize = FALSE, !.materialize = FALSE, !.starred = {2}],
   [Base EXCEPT !.workers = [t \in Four |-> 2]],
   [Base EXCEPT !.workers = [t \in Four |-> IF t = 2 THEN 2 ELSE 0], !.materialize = FALSE],
   [Base EXCEPT !.pg = TRUE, !.workers = [t \in Four |-> 1]],
   [Base EXCEPT !.illegal = {"nlj", "memo", "mat"} \X {{2, 3}, {1, 2, 3}}],
   [Base EXCEPT !.illegal = JoinMethod \X {{2, 3}}],
   [Base EXCEPT !.scan_ops = {"index"}]}

MCQueries ==
  UNION {LET joins == ExpandedJoins(graph) IN
         {[setting EXCEPT !.predicates = graph, !.joins = joins, !.cost = ScanCosts(size),
                          !.rows = [S \in SUBSET Four |-> IF S \in selective THEN 16 ELSE 160 * Cardinality(S)]] :
            setting \in Settings, size \in Sizes, selective \in Selective} :
         graph \in Graphs}
===============================================================================
