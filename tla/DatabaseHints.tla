------------------------------- MODULE DatabaseHints -------------------------------
(***************************************************************************)
(* From optimizer decisions to the hints of a database system: pg_hint_plan *)
(* and pg_lab (postgres/_pg.py), quack_lab for DuckDB (duckdb/_duckdb.py).  *)
(*                                                                         *)
(* Hints are a set of records: what is hinted, for which tables, with      *)
(* which value.  None stands for a call that raises an error.              *)
(***************************************************************************)
EXTENDS PlanParts

CONSTANT GeqoThreshold

Hint(kind, ts, value) == [kind |-> kind, tables |-> ts, value |-> value]

\* How the hint for an operator is named; pg_hint_plan has one hint for both index scans,
\* pg_lab too.
PGHintPlanOptimizerHints ==
  [op \in JoinOperators \union ScanOperators \union {"Memoize"} |->
     IF op = "IdxScan" THEN "IdxOnlyScan" ELSE op]
PGLabOptimizerHints ==
  [op \in JoinOperators \union ScanOperators \union {"Materialize", "Memoize"} |->
     IF op = "IdxOnlyScan" THEN "IdxScan" ELSE op]
DuckdbOptimizerHints == [op \in JoinOperators \union {"SeqScan", "IdxScan"} |-> op]

\* supports_hint; the other members of PostgresPlanHints and the hint types of DuckDB.
SupportsHint(backend, hint) ==
  IF backend = "quack_lab"
    THEN hint \in DOMAIN DuckdbOptimizerHints \union {"JoinOrder", "Cardinality", "Operator"}
    ELSE hint \in JoinOperators \union ScanOperators
           \union {"Cardinality", "Parallelization", "JoinOrder", "JoinDirection", "Operator"}

JoinOrderHints(tree, minimum) ==
  IF tree = None \/ Cardinality(TreeTables(tree)) < minimum THEN {}
  ELSE {Hint("JoinOrder", TreeTables(tree), Shape(tree))}

SettingHints(ops) == {Hint("Set", {}, << op, ops.global[op] >>) : op \in DOMAIN ops.global}

SystemSettings(params) ==
  {Hint("Setting", {}, << s, params.settings[s] >>) : s \in DOMAIN params.settings}

CardinalityHints(params) ==
  {Hint("Card", ts, params.cards[ts]) : ts \in {s \in DOMAIN params.cards : IsValid(params.cards[s])}}

MoreThanOne(workers) == workers # None /\ workers > 1

-------------------------------------------------------------------------------
(* pg_hint_plan. *)

WorkerHints(ts, workers) == {Hint("Parallel", ts, workers)}

\* The workers of a join are set on all its tables.
PgHintPlanOperatorHints(ops) ==
  LET scans == {ops.scans[t] : t \in DOMAIN ops.scans}
      joins == {ops.joins[ts] : ts \in DOMAIN ops.joins}
  IN {Hint(PGHintPlanOptimizerHints[s.op], {s.table}, 0) : s \in scans}
     \union UNION {WorkerHints({s.table}, s.workers) : s \in {x \in scans : MoreThanOne(x.workers)}}
     \union {Hint(PGHintPlanOptimizerHints[j.op], j.join, 0) : j \in joins}
     \union UNION {UNION {WorkerHints({t}, j.workers) : t \in j.join}
                   : j \in {x \in joins : MoreThanOne(x.workers)}}
     \union {Hint(ops.intermediates[ts], ts, 0)
             : ts \in {s \in DOMAIN ops.intermediates :
                         ops.intermediates[s] \in DOMAIN PGHintPlanOptimizerHints}}
     \union SettingHints(ops)

\* _generate_pghintplan_hints
GeneratePgHintPlanHints(queryTables, tree, ops, params) ==
  (IF Cardinality(queryTables) > GeqoThreshold THEN {Hint("Set", {}, << "geqo", FALSE >>)} ELSE {})
    \union JoinOrderHints(tree, 2)
    \union (IF ops = None THEN {} ELSE PgHintPlanOperatorHints(ops))
    \union (IF params = None THEN {}
            ELSE CardinalityHints(params) \union SystemSettings(params)
                 \union UNION {WorkerHints(ts, params.workers[ts])
                               : ts \in {s \in DOMAIN params.workers : params.workers[s] # 1}})

-------------------------------------------------------------------------------
(* pg_lab. *)

WorkersOrZero(workers) == IF MoreThanOne(workers) THEN workers ELSE 0

PgLabOperatorHints(ops) ==
  {Hint(PGLabOptimizerHints[ops.scans[t].op], {t}, WorkersOrZero(ops.scans[t].workers)) : t \in DOMAIN ops.scans}
  \union {Hint(PGLabOptimizerHints[ops.joins[ts].op], ts, WorkersOrZero(ops.joins[ts].workers))
          : ts \in DOMAIN ops.joins}
  \union {Hint(PGLabOptimizerHints[ops.intermediates[ts]], ts, 0) : ts \in DOMAIN ops.intermediates}
  \union SettingHints(ops)

\* _generate_pglab_hints.  There is no hint for a sort: the lookup fails (None).
GeneratePgLabHints(tree, ops, params) ==
  LET parallel == IF ops = None \/ params = None THEN ops ELSE IntegrateWorkers(ops, params)
  IN IF ops # None /\ \E ts \in DOMAIN ops.intermediates : ops.intermediates[ts] = "Sort" THEN None
     ELSE {Hint("Config", {}, "anchored")}
            \union JoinOrderHints(tree, 2)
            \union (IF ops = None THEN {} ELSE PgLabOperatorHints(parallel))
            \union (IF params = None THEN {}
                    ELSE CardinalityHints(params) \union SystemSettings(params)
                         \union (IF params.mode = None THEN {} ELSE {Hint("Config", {}, params.mode)}))

\* Variant: every node whose cardinality is valid gets a hint for it.
CardinalityHintedForAll(n) == IsValid(n.est)

CardinalityHinted(n) == IsValid(n.est) /\ n.op \notin IntermediateOperators

WorkersOf(n, parWorkers) == IF n.workers = 0 THEN parWorkers ELSE n.workers

\* _generate_pglab_plan below its first level: workers of a node without hint (Gather)
\* go to the next node below, which is a Result as long as no scan or join was met.
RECURSIVE PgLabNodeHints(_, _, _)
PgLabNodeHints(n, parWorkers, inUpperrel) ==
  LET upperrel == inUpperrel /\ IsAuxiliary(n)
      hints(workers) == UNION {PgLabNodeHints(n.children[i], workers, upperrel) : i \in DOMAIN n.children}
  IN IF parWorkers # 0 /\ upperrel THEN {Hint("Result", {}, parWorkers)} \union hints(0)
     ELSE IF n.op \notin DOMAIN PGLabOptimizerHints THEN hints(WorkersOf(n, parWorkers))
     ELSE {Hint(PGLabOptimizerHints[n.op], PlanTables(n), WorkersOf(n, parWorkers))}
            \union (IF CardinalityHinted(n) THEN {Hint("Card", PlanTables(n), n.est)} ELSE {})
            \union (IF IsScan(n) THEN {} ELSE hints(0))

\* _extract_plan_join_order fails (None) for a scan without base table.
RECURSIVE ExtractPlanJoinOrder(_)
ExtractPlanJoinOrder(n) ==
  CASE IsScan(n) -> IF n.table = None THEN None ELSE CreateScan(n.table, None)
    [] ~IsScan(n) /\ Len(n.children) = 1 -> ExtractPlanJoinOrder(n.children[1])
    [] ~IsScan(n) /\ Len(n.children) = 2 ->
         LET outer == ExtractPlanJoinOrder(Outer(n)) inner == ExtractPlanJoinOrder(Inner(n))
         IN IF None \in {outer, inner} THEN None ELSE CreateJoin(outer, inner, None)
    [] OTHER -> None

GeneratePgLabPlan(n) ==
  LET tree == ExtractPlanJoinOrder(n)
  IN IF tree = None THEN None
     ELSE {Hint("Config", {}, "full")} \union JoinOrderHints(tree, 1) \union PgLabNodeHints(n, 0, TRUE)

-------------------------------------------------------------------------------
(* DuckDB. *)

\* Bitmap and index-only scans, intermediate operators and workers are errors.
GenerateDuckdbHints(tree, ops, params) ==
  LET used == IF ops = None THEN {}
              ELSE {ops.scans[t].op : t \in DOMAIN ops.scans}
                     \union {ops.joins[ts].op : ts \in DOMAIN ops.joins} \union DOMAIN ops.global
  IN IF \/ ~(used \subseteq DOMAIN DuckdbOptimizerHints)
        \/ ops # None /\ DOMAIN ops.intermediates # {}
        \/ params # None /\ DOMAIN params.workers # {}
       THEN None
       ELSE JoinOrderHints(tree, 3)
              \union (IF ops = None THEN {}
                      ELSE {Hint(ops.scans[t].op, {t}, 0) : t \in DOMAIN ops.scans}
                             \union {Hint(ops.joins[ts].op, ts, 0) : ts \in DOMAIN ops.joins}
                             \union SettingHints(ops))
              \union (IF params = None THEN {} ELSE CardinalityHints(params) \union SystemSettings(params))

-------------------------------------------------------------------------------
(* generate_hints *)

GenerateHintsForParts(backend, queryTables, tree, ops, params) ==
  CASE backend = "pg_hint_plan" -> GeneratePgHintPlanHints(queryTables, tree, ops, params)
    [] backend = "pg_lab" ->
         GeneratePgLabHints(tree, IF ops = None \/ params = None THEN ops ELSE IntegrateWorkers(ops, params), params)
    [] backend = "quack_lab" -> GenerateDuckdbHints(tree, ops, params)
    [] backend = "none" -> None

\* pg_hint_plan gets measured cardinalities where there are some, DuckDB estimates.
GenerateHintsForPlan(backend, queryTables, n) ==
  LET tree == JoinTreeFromPlan(n, "estimates")
      ops == OperatorsFromPlan(n, FALSE)
  IN CASE backend = "pg_lab" -> GeneratePgLabPlan(n)
       [] backend = "none" \/ tree = None -> None
       [] backend = "pg_hint_plan" /\ tree # None ->
            GeneratePgHintPlanHints(queryTables, tree, ops, ParametersFromPlan(n, "actual", TRUE))
       [] backend = "quack_lab" /\ tree # None ->
            GenerateDuckdbHints(tree, ops, ParametersFromPlan(n, "estimates", FALSE))
===============================================================================
