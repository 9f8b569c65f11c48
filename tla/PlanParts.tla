---------------------------------- MODULE PlanParts ----------------------------------
(***************************************************************************)
(* Taking query plans apart into join order, operators and parameters      *)
(* (_hints.py), putting such parts together, changing the operators of a   *)
(* plan and reading stored parts (opt/_helpers.py), and the operators the  *)
(* exhaustive and the random generators choose (opt/_enumeration.py,       *)
(* opt/_randomized.py).                                                    *)
(***************************************************************************)
EXTENDS PlanNodes

-------------------------------------------------------------------------------
(* Apart. *)

\* jointree_from_plan: a scan without base table fails (None).
RECURSIVE JoinTreeFromPlan(_, _)
JoinTreeFromPlan(n, source) ==
  LET card == IF source = "estimates" THEN n.est ELSE n.act
  IN CASE IsScan(n) -> IF n.table = None THEN None ELSE CreateScan(n.table, card)
       [] IsJoin(n) -> LET inputs == << JoinTreeFromPlan(Outer(n), source),
                                        JoinTreeFromPlan(Inner(n), source) >>
                       IN IF None \in {inputs[1], inputs[2]} THEN None
                          ELSE CreateJoin(inputs[1], inputs[2], card)
       [] IsAuxiliary(n) -> IF Len(n.children) # 1 THEN None
                            ELSE JoinTreeFromPlan(n.children[1], source)

MergeAll(seq, Merge(_, _), first) ==
  LET upTo[i \in 0..Len(seq)] == IF i = 0 THEN first ELSE Merge(upTo[i - 1], seq[i])
  IN upTo[Len(seq)]

TargetCardinality(n, target, fallback) ==
  CASE target = "estimates" -> n.est
    [] target = "actual" /\ ~fallback -> n.act
    [] OTHER -> IF IsValid(n.act) THEN n.act ELSE n.est

\* parameters_from_plan: of the nodes over the same tables the lowest one decides.
RECURSIVE ParametersFromPlan(_, _, _)
ParametersFromPlan(n, target, fallback) ==
  LET card == TargetCardinality(n, target, fallback)
      own == IF card = Unknown THEN NoParameters ELSE AddCardinality(NoParameters, PlanTables(n), card)
      below == [i \in DOMAIN n.children |-> ParametersFromPlan(n.children[i], target, fallback)]
  IN MergeAll(below, MergeParameters,
              IF n.workers = 0 THEN own ELSE SetWorkers(own, PlanTables(n), n.workers))

\* The same for a join tree, whose annotations are cardinalities or None.
RECURSIVE ParametersFromJoinTree(_)
ParametersFromJoinTree(tree) ==
  LET own == IF tree.annotation \in {None, Unknown} THEN NoParameters
             ELSE AddCardinality(NoParameters, TreeTables(tree), tree.annotation)
      children == TreeChildren(tree)
  IN MergeAll([i \in DOMAIN children |-> ParametersFromJoinTree(children[i])], MergeParameters, own)

\* operators_from_plan: workers are only read at the node the call starts from, and only
\* if that node has an operator.
RECURSIVE OperatorsFromPlan(_, _)
OperatorsFromPlan(n, includeWorkers) ==
  IF n.op = None /\ Len(n.children) = 1 THEN OperatorsFromPlan(n.children[1], FALSE)
  ELSE LET workers == IF includeWorkers THEN n.workers ELSE None
           own == CASE IsScan(n) /\ n.table # None ->
                         SetScanOperator(NoOperators, ScanAssignment(n.op, n.table, workers))
                    [] IsJoin(n) ->
                         SetJoinOperator(NoOperators, JoinAssignment(n.op, PlanTables(n), workers))
                    [] n.op \in IntermediateOperators ->
                         SetIntermediateOperator(NoOperators, n.op, PlanTables(n))
                    [] OTHER -> NoOperators
       IN MergeAll([i \in DOMAIN n.children |-> OperatorsFromPlan(n.children[i], FALSE)],
                   MergeOperators, own)

ExplodeQueryPlan(n, source) ==
  [tree |-> JoinTreeFromPlan(n, source), ops |-> OperatorsFromPlan(n, FALSE),
   params |-> ParametersFromPlan(n, source, FALSE)]

-------------------------------------------------------------------------------
(* Together. *)

\* The operator of an assignment, which wraps it.
PlainOperator(assigned, default) == IF assigned = None THEN default ELSE assigned.op

\* _make_custom_plan and, with NoOperators, _make_simple_plan.  The nodes get no base
\* table.  Without a valid cardinality among the parameters the code tests for a
\* subscripted generic class and fails (None), like for a missing operator; children are
\* built without the fallback for joins.
RECURSIVE MakePlan(_, _, _, _, _)
MakePlan(tree, ops, params, scanOp, joinOp) ==
  LET ts == TreeTables(tree)
      card == IF params = None THEN Unknown ELSE Get(params.cards, ts, Unknown)
      op == PlainOperator(AssignedTo(ops, ts), IF tree.kind = "scan" THEN scanOp ELSE joinOp)
      childJoinOp == IF HasOperators(ops) THEN None ELSE joinOp
      inputs == TreeChildren(tree)
      children == [i \in DOMAIN inputs |-> MakePlan(inputs[i], ops, params, scanOp, childJoinOp)]
  IN IF ~IsValid(card) \/ op = None \/ (\E i \in DOMAIN children : children[i] = None) THEN None
     ELSE LET workers == IF HasOperators(ops) THEN Get(params.workers, ts, 0) ELSE 0
              plan == [QueryPlan(op, op, children) EXCEPT !.est = card, !.workers = workers]
          IN IF Get(ops.intermediates, PlanTables(plan), None) = "Materialize"
               THEN [QueryPlan("Materialize", "Materialize", << plan >>) EXCEPT !.est = card]
               ELSE plan

ToQueryPlan(tree, ops, params, scanOp, joinOp) ==
  IF ~HasOperators(ops) /\ None \in {scanOp, joinOp} THEN None
  ELSE MakePlan(tree, ops, params, scanOp, joinOp)

\* update_plan.  Parameters make it fail (None): a set of tables is no key.
RECURSIVE UpdatePlan(_, _, _)
UpdatePlan(n, ops, params) ==
  IF params # None THEN None
  ELSE LET plan == Canonical(n)
           op == PlainOperator(AssignedTo(ops, PlanTables(plan)), plan.op)
       IN [plan EXCEPT !.op = op,
                       !.children = [i \in DOMAIN @ |-> UpdatePlan(@[i], ops, params)]]

-------------------------------------------------------------------------------
(* Stored as JSON and read again. *)

\* read_query_plan_json: every node needs an operator.  Workers are read with the other
\* parameters; a lookup key is not turned into an expression again, {None}: a plan that
\* has one cannot tell its tables any more.
ReadQueryPlanJson(n) ==
  LET nodes == AllNodes(n)
  IN IF \E i \in DOMAIN nodes : nodes[i].op = None THEN None
     ELSE MapNodes(n, LAMBDA m : [m EXCEPT !.lookup = IF @ = {} THEN {} ELSE {None}])

\* read_operator_assignment_json: workers are not written.
ReadOperatorAssignmentJson(a) ==
  [a EXCEPT !.scans = [t \in DOMAIN @ |-> ScanAssignment(@[t].op, t, None)],
            !.joins = [ts \in DOMAIN @ |-> JoinAssignment(@[ts].op, ts, None)]]

\* read_plan_params_json: an intermediate is read as if it were a single table, which
\* fails (None); settings and execution mode are not written.
ReadPlanParamsJson(p) == IF {DOMAIN p.cards, DOMAIN p.workers} = {{}} THEN NoParameters ELSE None

-------------------------------------------------------------------------------
(* Operators for a join order. *)

ScanAssignments(ts, scanOps) ==
  {[NoOperators EXCEPT !.scans = [t \in ts |-> ScanAssignment(choice[t], t, None)]]
   : choice \in [ts -> scanOps]}

JoinAssignments(tree, joinOps) ==
  LET joins == TreeJoins(tree)
      intermediates == {TreeTables(joins[i]) : i \in DOMAIN joins}
  IN {[NoOperators EXCEPT !.joins = [ts \in intermediates |-> JoinAssignment(choice[ts], ts, None)]]
      : choice \in [intermediates -> joinOps]}

\* all_operator_assignments_for: without scans (or joins) the assignments of joins (or
\* scans) alone come first, those of all operators follow.
AllOperatorAssignments(tree, scanOps, joinOps, includeScans, includeJoins) ==
  LET scans == ScanAssignments(TreeTables(tree), scanOps)
      joins == JoinAssignments(tree, joinOps)
  IN {MergeOperators(s, j) : s \in scans, j \in joins}
       \union (IF includeScans THEN {} ELSE joins)
       \union (IF includeScans /\ ~includeJoins THEN scans ELSE {})

\* random_operator_assignments_for: what a draw can be.
RandomOperatorAssignments(tree, scanOps, joinOps, includeScans, includeJoins) ==
  {MergeOperators(s, j) :
     s \in IF includeScans THEN ScanAssignments(TreeTables(tree), scanOps) ELSE {NoOperators},
     j \in IF includeJoins THEN JoinAssignments(tree, joinOps) ELSE {NoOperators}}
===============================================================================
