-------------------------------- MODULE ExplainPlans --------------------------------
(***************************************************************************)
(* From the EXPLAIN output of a database to a query plan                   *)
(* (postgres/_explain.py, parse_duckdb_plan of duckdb/_duckdb.py).         *)
(*                                                                         *)
(* A node of the output is a record; what the output leaves out is Unknown *)
(* if it is a number and None if it is a name.                             *)
(***************************************************************************)
EXTENDS PlanNodes

PostgresExplainScanNodes ==
  ("Seq Scan" :> "SeqScan") @@ ("Index Scan" :> "IdxScan") @@
  ("Index Only Scan" :> "IdxOnlyScan") @@ ("Bitmap Heap Scan" :> "BitmapScan")
PostgresExplainJoinNodes ==
  ("Nested Loop" :> "NestLoop") @@ ("Hash Join" :> "HashJoin") @@ ("Merge Join" :> "MergeJoin")
PostgresExplainIntermediateNodes ==
  ("Materialize" :> "Materialize") @@ ("Memoize" :> "Memoize") @@ ("Sort" :> "Sort")

\* The operator of a node type, None for all others.
OperatorOf(type) ==
  Get(PostgresExplainScanNodes @@ PostgresExplainJoinNodes @@ PostgresExplainIntermediateNodes,
      type, None)

\* PostgresExplain.__init__ with the plans below it.
PostgresExplain(type, rel, plans) ==
  [type |-> type, rel |-> rel, plans |-> plans, table |-> None, name |-> None,
   rows |-> Unknown, actual |-> Unknown, loops |-> 1, time |-> Unknown,
   planned |-> Unknown, launched |-> Unknown]

TrueCardinality(raw) == IF raw.type \in {"BitmapAnd", "BitmapOr"} THEN Unknown ELSE raw.actual

SubplanRelations == {"SubPlan", "InitPlan", "Subquery"}

\* The outer input comes first, members of an Append last.
Ordered(plansOf(_)) == plansOf({"Outer"}) \o plansOf({"Inner"}) \o plansOf({"Member"})

\* Below a Gather estimates are per worker.  A node that plans no workers has NaN for
\* their number, not zero.
ChildAdjustment(raw, adjustment) ==
  IF GreaterThan(adjustment, 1) THEN adjustment ELSE Plus(raw.planned, 1)

\* _generate_qep.  Of several subplans the last one is kept.
RECURSIVE GenerateQep(_, _)
GenerateQep(raw, adjustment) ==
  LET below(p) == GenerateQep(p, ChildAdjustment(raw, adjustment))
      plansOf(rels) ==
        LET plans == SelectSeq(raw.plans, LAMBDA p : p.rel \in rels)
        IN [i \in DOMAIN plans |-> below(plans[i])]
      subplans == SelectSeq(raw.plans, LAMBDA p : p.rel \in SubplanRelations)
      subplan == subplans[Len(subplans)]
  IN [QueryPlan(raw.type, OperatorOf(raw.type), Ordered(plansOf))
        EXCEPT !.table = raw.table,
               !.workers = CASE raw.launched # Unknown -> raw.launched
                             [] raw.launched = Unknown /\ raw.planned # Unknown -> raw.planned
                             [] OTHER -> 0,
               !.est = Times(raw.rows, adjustment),
               !.act = Times(TrueCardinality(raw), raw.loops),
               !.time = raw.time,
               !.subplan = IF subplans = << >> THEN None
                           ELSE [root |-> below(subplan), target |-> subplan.name]]

AsQep(raw) == GenerateQep(raw, 1)

-------------------------------------------------------------------------------
(* DuckDB. *)

DuckdbNodes == ("HASH_JOIN" :> "HashJoin") @@ ("Sequential Scan" :> "SeqScan") @@ ("Index Scan" :> "IdxScan")

\* The type of a scan is the one of its extra information; wrappers (the root, EXPLAIN)
\* have one child and disappear.  Runtimes add up.
RECURSIVE ParseDuckdbPlan(_)
ParseDuckdbPlan(raw) ==
  IF raw.type \in {"root", "EXPLAIN", "EXPLAIN_ANALYZE"} THEN ParseDuckdbPlan(raw.plans[1])
  ELSE LET op == Get(DuckdbNodes, raw.type, None)
           children == [i \in DOMAIN raw.plans |-> ParseDuckdbPlan(raw.plans[i])]
           total[i \in 0..Len(children)] ==
             IF i = 0 THEN raw.time ELSE Plus(total[i - 1], children[i].time)
       IN [QueryPlan(IF op = None THEN raw.type ELSE op, op, children)
             EXCEPT !.table = IF op \in ScanOperators THEN raw.table ELSE None,
                    !.est = raw.rows, !.act = raw.actual, !.time = total[Len(children)]]
===============================================================================
