--------------------------------- MODULE HintSession ---------------------------------
(***************************************************************************)
(* How an optimizer decision becomes hints.  A join order is sampled from  *)
(* the join graph of a query.  Either the database explains a plan for it, *)
(* which is parsed, or an enumerator builds one, and the plan is changed   *)
(* and taken apart, or operators are drawn for the order.  The parts are   *)
(* edited and put together again.  Plans and parts are turned into the     *)
(* hints of one of the backends.                                           *)
(***************************************************************************)
EXTENDS ExplainPlans, DatabaseHints, FiniteSetsExt

CONSTANTS
  JoinGraphs,     \* queries: tables and pairs of tables with a join predicate between them
  CteTable,       \* a table of an InitPlan, not among the joined ones
  TableSize,      \* stands for the rows of a table
  ScanTypes, JoinTypes,   \* node types of explained plans
  InnerTypes,     \* what may be on top of the inner input of a nested loop, None for nothing
  TopTypes,       \* sequences of nodes on top of the joins
  ScanChoices, JoinChoices,   \* operators for drawn and edited assignments
  MaxPlannedTables,   \* bound: tables of a query that is planned
  MaxEdits,       \* bound: edits of a session
  MaxEditedNodes  \* bound: nodes of a plan that is edited or taken apart for edits

ASSUME SessionAssumption == CteTable \notin DOMAIN TableSize /\ MaxEdits \in Nat

VARIABLES
  query,     \* one of JoinGraphs
  graph,     \* the join graph of _sample_join_graph
  plan,      \* a query plan or None
  parts,     \* join order, operators and parameters or None
  built,     \* what to_query_plan made of the parts or None
  wanted,    \* the latest edit of the parts for each kind and intermediate
  edits,
  hinted     \* None or the subject, the backend and the hints

vars == << query, graph, plan, parts, built, wanted, edits, hinted >>

Joined == query.tables
Workers == 2

-------------------------------------------------------------------------------
(* What a database explains. *)

\* Rows of an intermediate; a third of them in each process of a parallel plan.  An
\* aggregate and a memoized lookup yield fewer.
PartRows(ts) == MapThenSumSet(LAMBDA t : TableSize[t], ts)

\* How a plan is explained: types of scans and joins, what is on the inner inputs of
\* nested loops, the scan below a Gather of its own, an InitPlan, ANALYZE.  Measured rows
\* differ from estimated ones.
Measured(raw, rows, how, parallel) ==
  [raw EXCEPT !.rows = (IF parallel THEN 1 ELSE 3) * (rows + 1),
              !.actual = CASE ~how.analyze -> Unknown
                           [] how.analyze /\ parallel -> rows + 2
                           [] OTHER -> 3 * (rows + 2),
              !.loops = IF parallel THEN 3 ELSE 1,
              !.time = IF how.analyze THEN 1 ELSE Unknown]

Above(type, raw, ts, how, parallel) ==
  LET rows == IF type \in {"Aggregate", "Memoize"} THEN 0 ELSE PartRows(ts)
      node == Measured(PostgresExplain(type, raw.rel, << [raw EXCEPT !.rel = "Outer"] >>), rows, how, parallel)
  IN IF type = "Gather"
       THEN [node EXCEPT !.planned = Workers, !.launched = IF how.analyze THEN Workers ELSE Unknown]
       ELSE node

RawScan(t, type, how, parallel) ==
  LET below == IF type # "Bitmap Heap Scan" THEN << >>
               ELSE << Measured(PostgresExplain("Bitmap Index Scan", "Outer", << >>), PartRows({t}), how, parallel) >>
  IN [Measured(PostgresExplain(type, "Outer", below), PartRows({t}), how, parallel) EXCEPT !.table = t]

RECURSIVE RawTree(_, _, _)
RawTree(tree, how, parallel) ==
  IF tree.kind = "scan"
    THEN LET t == tree.table type == how.ops.scans[t].op
         IN IF how.gather = t THEN Above("Gather", RawScan(t, type, how, TRUE), {t}, how, FALSE)
                              ELSE RawScan(t, type, how, parallel)
    ELSE LET ts == TreeTables(tree)
             type == how.ops.joins[ts].op
             inner == RawTree(tree.inner, how, parallel)
             aux == IF type = "Hash Join" THEN "Hash" ELSE how.inner
             wrapped == IF aux = None THEN inner
                        ELSE Above(aux, inner, TreeTables(tree.inner), how, parallel)
         IN Measured(PostgresExplain(type, "Outer", << RawTree(tree.outer, how, parallel),
                                                       [wrapped EXCEPT !.rel = "Inner"] >>),
                     PartRows(ts), how, parallel)

\* The nodes on top; what is below a Gather runs in parallel.
RECURSIVE RawTop(_, _, _, _)
RawTop(top, tree, how, parallel) ==
  IF top = << >> THEN RawTree(tree, how, parallel)
  ELSE Above(Head(top), RawTop(Tail(top), tree, how, parallel \/ Head(top) = "Gather"),
             TreeTables(tree), how, parallel)

WithInitPlan(raw, how) ==
  IF ~how.cte THEN raw
  ELSE [raw EXCEPT !.plans = Append(@, [Measured(PostgresExplain("Seq Scan", "InitPlan", << >>), 0, how, FALSE)
                                          EXCEPT !.table = CteTable, !.name = "InitPlan 1"])]

PostgresPlans(tree) ==
  {AsQep(WithInitPlan(RawTop(top, tree, how, FALSE), how)) :
     << top, how >> \in
       {<< t, h >> \in TopTypes \X
          [ops : UNION {AllOperatorAssignments(tree, {type}, JoinTypes, TRUE, TRUE) : type \in ScanTypes},
           inner : InnerTypes, gather : TreeTables(tree) \union {None}, cte : BOOLEAN, analyze : BOOLEAN] :
          /\ h.gather # None => ~\E i \in DOMAIN t : t[i] = "Gather"
          /\ h.cte => t = << >> /\ h.gather = None /\ h.inner = None}}

\* DuckDB does not tell aliases: a scan may stay without its table.
RECURSIVE DuckdbTree(_, _)
DuckdbTree(tree, unbound) ==
  IF tree.kind = "scan"
    THEN [PostgresExplain("Sequential Scan", None, << >>)
            EXCEPT !.table = IF tree.table = unbound THEN None ELSE tree.table,
                   !.rows = PartRows({tree.table}), !.time = 1]
    ELSE [PostgresExplain("HASH_JOIN", None, << DuckdbTree(tree.outer, unbound), DuckdbTree(tree.inner, unbound) >>)
            EXCEPT !.rows = PartRows(TreeTables(tree)), !.time = 1]

DuckdbPlans(tree) ==
  {ParseDuckdbPlan(PostgresExplain("root", None,
     << [PostgresExplain("PROJECTION", None, << DuckdbTree(tree, t) >>) EXCEPT !.time = 1] >>))
   : t \in TreeTables(tree) \union {None}}

\* A plan of PostgresDynProg: nested loops, whose inner inputs may be memoized for one of
\* the columns they are joined on.
RECURSIVE EnumeratedPlan(_, _)
EnumeratedPlan(tree, memoized) ==
  LET node(op, children, filter) ==
        [QueryPlan(op, op, children) EXCEPT !.filter = filter, !.est = PartRows(TreeTables(tree))]
  IN IF tree.kind = "scan"
       THEN [node("SeqScan", << >>, {}) EXCEPT !.table = tree.table]
       ELSE LET outer == EnumeratedPlan(tree.outer, memoized)
                inner == EnumeratedPlan(tree.inner, memoized)
                join == CHOOSE pair \in query.joins : /\ pair \intersect TreeTables(tree.outer) # {}
                                                     /\ pair \intersect TreeTables(tree.inner) # {}
                memo == [QueryPlan("Memoize", "Memoize", << inner >>)
                           EXCEPT !.lookup = join \intersect TreeTables(tree.inner), !.est = inner.est]
            IN node("NestLoop", << outer, IF memoized THEN memo ELSE inner >>, join)

EnumeratedPlans(tree) == {EnumeratedPlan(tree, memoized) : memoized \in BOOLEAN}

-------------------------------------------------------------------------------
(* Steps. *)

Init ==
  /\ query \in JoinGraphs
  /\ graph = JoinGraph(query.tables, query.joins)
  /\ plan = None /\ parts = None /\ built = None /\ hinted = None
  /\ wanted = Empty
  /\ edits = 0

Sampled == Cardinality(graph.nodes) = 1
JoinOrder == CHOOSE tree \in graph.nodes : TRUE
Open == Sampled /\ hinted = None
Unplanned == Open /\ plan = None /\ parts = None /\ Cardinality(Joined) <= MaxPlannedTables

\* One round of _sample_join_graph: a random edge in a random direction.
SampleJoin ==
  /\ ~Sampled
  /\ \E edge \in graph.edges : \E start \in edge : \E target \in edge \ {start} :
       graph' = Contract(graph, start, target, JoinWith(start, target, "inner"))
  /\ UNCHANGED << query, plan, parts, built, wanted, edits, hinted >>

\* A left-deep or right-deep join order along a random walk.
SampleLinear ==
  /\ graph = JoinGraph(query.tables, query.joins)
  /\ \E structure \in {"left-deep", "right-deep"} : \E tree \in LinearJoinOrders(graph, structure) :
       graph' = [nodes |-> {tree}, edges |-> {}]
  /\ UNCHANGED << query, plan, parts, built, wanted, edits, hinted >>

Explain ==
  /\ Unplanned
  /\ plan' \in PostgresPlans(JoinOrder) \union DuckdbPlans(JoinOrder) \union EnumeratedPlans(JoinOrder)
  /\ UNCHANGED << query, graph, parts, built, wanted, edits, hinted >>

DrawOperators ==
  /\ Unplanned
  /\ \E includeScans, includeJoins \in BOOLEAN :
       /\ includeScans \/ includeJoins
       /\ \E ops \in RandomOperatorAssignments(JoinOrder, ScanChoices, JoinChoices, includeScans, includeJoins) :
            parts' = [tree |-> JoinOrder, ops |-> ops, params |-> NoParameters]
  /\ UNCHANGED << query, graph, plan, built, wanted, edits, hinted >>

Editing ==
  /\ Open
  /\ edits < MaxEdits /\ edits' = edits + 1
  /\ plan # None => Len(IterNodes(plan)) <= MaxEditedNodes

TreeIntermediates(tree) ==
  {{t} : t \in TreeTables(tree)} \union {TreeTables(TreeJoins(tree)[i]) : i \in DOMAIN TreeJoins(tree)}

OperatorFor(ts, op) ==
  IF Cardinality(ts) = 1 THEN SetScanOperator(NoOperators, ScanAssignment(op, CHOOSE t \in ts : TRUE, None))
  ELSE LET join == TreeLookup(JoinOrder, ts)
       IN SetJoinOperator(NoOperators,
            DirectionalJoinAssignment(op, TreeTables(join.inner), TreeTables(join.outer), None))

OperatorsFor(ts) == IF Cardinality(ts) = 1 THEN ScanChoices ELSE JoinChoices

ChangePlan ==
  /\ Editing /\ plan # None /\ parts = None
  /\ \/ plan' = WithActualCard(plan)
     \/ plan' = Canonical(plan)
     \/ plan' = ScaleCardinality(plan, 2, "estimated", TRUE)
     \/ plan' = WithRuntimeAsCost(WithCardAsCost(plan))
     \/ plan' = WithEstimates(plan, 9, 9, TRUE)
     \/ plan' = Parallelize(plan, Workers + 1)
     \/ \E ts \in TreeIntermediates(JoinOrder) : \E op \in OperatorsFor(ts) :
          plan' = UpdatePlan(plan, OperatorFor(ts, op), None)
  /\ UNCHANGED << query, graph, parts, built, wanted, hinted >>

Explode ==
  /\ Open /\ plan # None /\ parts = None
  /\ \E source \in {"estimates", "actual"} :
       /\ JoinTreeFromPlan(plan, source) # None
       /\ parts' = ExplodeQueryPlan(plan, source)
  /\ UNCHANGED << query, graph, plan, built, wanted, edits, hinted >>

\* Edits of the parts, in place or by merging with further parts.
ChooseOperator ==
  /\ Editing /\ parts # None /\ built = None
  /\ \E ts \in TreeIntermediates(JoinOrder) : \E op \in OperatorsFor(ts) :
       /\ parts' = [parts EXCEPT !.ops = MergeOperators(@, OperatorFor(ts, op))]
       /\ wanted' = Put(wanted, << "op", ts >>, op)
  /\ UNCHANGED << query, graph, plan, built, hinted >>

ChooseCardinality ==
  /\ Editing /\ parts # None /\ built = None
  /\ \E ts \in TreeIntermediates(JoinOrder), card \in {7, Infinite} :
       /\ \/ parts' = [parts EXCEPT !.params = AddCardinality(@, ts, card)]
          \/ parts' = [parts EXCEPT !.params = MergeParameters(@, AddCardinality(NoParameters, ts, card))]
       /\ wanted' = Put(wanted, << "card", ts >>, card)
  /\ UNCHANGED << query, graph, plan, built, hinted >>

ChooseWorkers ==
  /\ Editing /\ parts # None /\ built = None
  /\ \E ts \in TreeIntermediates(JoinOrder) :
       /\ parts' = [parts EXCEPT !.params = SetWorkers(@, ts, Workers + 2)]
       /\ wanted' = Put(wanted, << "workers", ts >>, Workers + 2)
  /\ UNCHANGED << query, graph, plan, built, hinted >>

ForbidOperator ==
  /\ Editing /\ parts # None /\ built = None
  /\ \E op \in JoinChoices \union {"Memoize"} :
       /\ parts' = [parts EXCEPT !.ops = SetGlobally(@, op, FALSE, TRUE)]
       /\ wanted' = Put(wanted, << "forbid", {} >>, op)
  /\ UNCHANGED << query, graph, plan, built, hinted >>

ConfigureSystem ==
  /\ Editing /\ parts # None /\ built = None
  /\ \/ parts' = [parts EXCEPT !.params = SetSystemSetting(@, "work_mem", 1)]
     \/ parts' = [parts EXCEPT !.params = SetExecutionMode(@, "parallel")]
  /\ UNCHANGED << query, graph, plan, built, wanted, hinted >>

\* Operators that went through a file lose their workers; only empty parameters survive it.
Store ==
  /\ Editing /\ parts # None /\ built = None
  /\ \/ parts' = [parts EXCEPT !.ops = ReadOperatorAssignmentJson(@)]
     \/ /\ ReadPlanParamsJson(parts.params) # None
        /\ parts' = [parts EXCEPT !.params = ReadPlanParamsJson(@)]
  /\ UNCHANGED << query, graph, plan, built, wanted, hinted >>

Build ==
  /\ Open /\ parts # None /\ built = None
  /\ built' = ToQueryPlan(parts.tree, parts.ops, parts.params, None, None)
  /\ built' # None
  /\ UNCHANGED << query, graph, plan, parts, wanted, edits, hinted >>

Backends == {"pg_hint_plan", "pg_lab", "quack_lab"}

GenerateHints ==
  /\ Open
  /\ \E backend \in Backends :
       \/ /\ plan # None /\ parts = None
          /\ hinted' = [subject |-> "plan", backend |-> backend,
                        hints |-> GenerateHintsForPlan(backend, Joined, plan)]
       \/ /\ parts # None /\ built = None
          /\ hinted' = [subject |-> "parts", backend |-> backend,
                        hints |-> GenerateHintsForParts(backend, Joined, parts.tree, parts.ops, parts.params)]
       \/ /\ built # None
          /\ hinted' = [subject |-> "built", backend |-> backend,
                        hints |-> GenerateHintsForPlan(backend, Joined, built)]
  /\ UNCHANGED << query, graph, plan, parts, built, wanted, edits >>

Next ==
  \/ SampleJoin \/ SampleLinear \/ Explain \/ DrawOperators
  \/ ChangePlan \/ Explode
  \/ ChooseOperator \/ ChooseCardinality \/ ChooseWorkers \/ ForbidOperator
  \/ ConfigureSystem \/ Store
  \/ Build \/ GenerateHints

Spec == Init /\ [][Next]_vars

-------------------------------------------------------------------------------
(* Properties. *)

\* Independent of the code: the trees without cross products over some tables.
Neighboured(left, right) ==
  \E pair \in query.joins : pair \intersect left # {} /\ pair \intersect right # {}

RECURSIVE ProductFreeTrees(_)
ProductFreeTrees(ts) ==
  IF Cardinality(ts) = 1 THEN {CreateScan(t, None) : t \in ts}
  ELSE UNION {{CreateJoin(o, i, None) : o \in ProductFreeTrees(left), i \in ProductFreeTrees(ts \ left)}
              : left \in {l \in SUBSET ts \ {{}, ts} : Neighboured(l, ts \ l)}}

\* The enumerator yields each bushy join order without cross products and no other, the
\* walks each linear one, and what the random generator samples is one of them
\* (_enumeration.py:29, _randomized.py:63).
JoinOrdersAreExact ==
  plan = None /\ parts = None =>
    LET trees == ProductFreeTrees(Joined)
        deep(tree, Side(_)) == LET joins == TreeJoins(tree)
                               IN \A k \in DOMAIN joins : Side(joins[k]).kind = "scan"
    IN /\ graph = JoinGraph(Joined, query.joins) =>
            /\ AllJoinOrders(graph, "bushy") = trees
            /\ LinearJoinOrders(graph, "left-deep") = {t \in trees : deep(t, LAMBDA j : j.inner)}
            /\ LinearJoinOrders(graph, "right-deep") = {t \in trees : deep(t, LAMBDA j : j.outer)}
       /\ Sampled => JoinOrder \in trees

Explained == plan # None /\ JoinTreeFromPlan(plan, "estimates") # None

Elements(f) == {f[x] : x \in DOMAIN f}
NodesOf(n) == Elements(AllNodes(n))

\* A plan without its auxiliary nodes has the same join order, operators, cardinalities
\* and shape, its joins cost the same, its parts are found under the same tables, and it can
\* be stored, which a plan with unknown operators or lookup keys cannot (_qep.py:1855).
CanonicalPlanIsTheSamePlan ==
  Explained /\ parts = None /\ hinted = None =>
    LET c == Canonical(plan)
    IN /\ \A source \in {"estimates", "actual"} :
            LET tree == JoinTreeFromPlan(plan, source)
            IN /\ JoinTreeFromPlan(c, source) = tree
               /\ CteTable \notin PlanTables(plan) =>
                    ParametersFromPlan(c, source, FALSE).cards = ParametersFromJoinTree(tree).cards
       /\ OperatorsFromPlan(c, FALSE) =
            [OperatorsFromPlan(plan, FALSE) EXCEPT !.intermediates = Empty]
       /\ << IsLinear(c), IsBushy(c), IsLeftDeep(c), IsRightDeep(c), IsZigzag(c) >> =
            << IsLinear(plan), IsBushy(plan), IsLeftDeep(plan), IsRightDeep(plan),
               IsZigzag(IF IsAuxiliary(plan) THEN Lookup(c, PlanTables(plan)) ELSE plan) >>
       /\ IsBushy(c) = ~IsLinearTree(JoinOrder)
       /\ PlanDepth(c) = TreeDepth(JoinOrder)
       /\ COut(c, FALSE) = COut(plan, FALSE)
       /\ OutermostScan(c) = Canonical(OutermostScan(plan))
       /\ \A n \in NodesOf(c) :
            CteTable \notin PlanTables(plan) =>
              /\ TreeLookup(JoinOrder, PlanTables(n)) # None
              /\ Canonical(Lookup(plan, PlanTables(n))) = n
              /\ FetchBaseTable(Lookup(plan, PlanTables(n))) = n.table
              /\ IsBasePlanJoin(n) = IsBaseJoin(TreeLookup(JoinOrder, PlanTables(n)))
       /\ ReadQueryPlanJson(c) = c

\* Hints.
HintsOfKind(kinds, ts) == {h \in hinted.hints : h.kind \in kinds /\ h.tables = ts}

HintNames(backend) == CASE backend = "pg_hint_plan" -> PGHintPlanOptimizerHints
                        [] backend = "pg_lab" -> PGLabOptimizerHints
                        [] backend = "quack_lab" -> DuckdbOptimizerHints

OperatorHintsFor(ts) ==
  {h.kind : h \in HintsOfKind({HintNames(hinted.backend)[op] :
                                 op \in (JoinOperators \union ScanOperators) \intersect DOMAIN HintNames(hinted.backend)}, ts)}

\* The cardinality a backend hints for a node.
HintedCard(n) == IF hinted.backend = "pg_hint_plan" /\ IsValid(n.act) THEN n.act ELSE n.est

\* The hints of a plan name its join order, for each scan and join its operator and, if
\* it is known, its cardinality, and nothing contradicts them.  DuckDB refuses what it
\* has no hints for; a plan of the database is never refused by its own backends
\* (_pg.py:2056, _duckdb.py:750).
HintsNameThePlan ==
  hinted # None /\ hinted.subject = "plan" /\ Explained /\ CteTable \notin PlanTables(plan) =>
    /\ hinted.hints = None =>
         \E n \in NodesOf(plan) :
           n.workers # 0 \/ (n.op # None /\ ~SupportsHint(hinted.backend, n.op))
    /\ hinted.backend # "quack_lab" => hinted.hints # None
    /\ hinted.hints # None =>
         /\ \A h \in hinted.hints : h.kind = "JoinOrder" => h.value = JoinOrder
         /\ Cardinality(Joined) > 2 => HintsOfKind({"JoinOrder"}, Joined) # {}
         /\ \A n \in NodesOf(Canonical(plan)) :
              /\ OperatorHintsFor(PlanTables(n)) = {HintNames(hinted.backend)[n.op]}
              /\ IsValid(HintedCard(n)) =>
                   {h.value : h \in HintsOfKind({"Card"}, PlanTables(n))} = {HintedCard(n)}

\* The workers of a Gather are hinted once, for the node they work on (_pg.py:1867).
WorkersReachTheHints ==
  hinted # None /\ hinted.subject = "plan" /\ hinted.backend = "pg_lab" /\ Explained =>
    LET parallel == {n \in NodesOf(plan) : n.workers # 0}
        hints == {h \in hinted.hints : h.kind \in {"Result"} \union Elements(PGLabOptimizerHints) /\ h.value # 0}
    IN \A n \in parallel : Cardinality(parallel) = 1 =>
         /\ {h.value : h \in hints} = {n.workers}
         /\ \A h \in hints : h.tables \in {{}, PlanTables(n)}
         /\ Cardinality(hints) = 1

\* What the hints of a backend say is the plan, its parallel part included.
HintsForceThePlan == HintsNameThePlan /\ WorkersReachTheHints

HintedFor(op) ==
  LET names == HintNames(hinted.backend)
  IN {h.tables : h \in {x \in hinted.hints : op \in DOMAIN names /\ x.kind = names[op]}}

\* The latest decision about an operator, a cardinality or (pg_lab) workers is what the
\* hints say, whether it was made in place or merged in (_hints.py:296, 336, 770).
\* Excluded: a forbidden operator of scans or joins.  "If True all assignments that
\* contradict the setting are removed" (_hints.py:121) is true of intermediate operators
\* only; parts to which the operator had been assigned keep it, whatever was decided last.
EditsReachTheHints ==
  hinted # None /\ hinted.subject = "parts" =>
    IF hinted.hints = None
      THEN \/ \E op \in Elements(parts.ops.intermediates) : ~SupportsHint(hinted.backend, op)
           \/ hinted.backend = "quack_lab" /\
                \/ parts.params.workers # Empty
                \/ \E op \in DOMAIN parts.ops.global \union {a.op : a \in Elements(parts.ops.scans)} :
                     ~SupportsHint("quack_lab", op)
      ELSE \A key \in DOMAIN wanted :
             LET ts == key[2] value == wanted[key]
             IN CASE key[1] = "op" -> OperatorHintsFor(ts) = {HintNames(hinted.backend)[value]}
                  [] key[1] = "card" -> {h.value : h \in HintsOfKind({"Card"}, ts)} = {value} \ {Infinite}
                  [] key[1] = "forbid" ->
                       /\ Hint("Set", {}, << value, FALSE >>) \in hinted.hints
                       /\ value \notin ScanOperators \union JoinOperators => HintedFor(value) = {}
                  [] key[1] = "workers" ->
                       hinted.backend = "pg_lab" /\ AssignedTo(parts.ops, ts) # None =>
                         \E h \in HintsOfKind(Elements(PGLabOptimizerHints), ts) : h.value = value

\* A plan without tables, to compare plans built from parts, which know none.
Bare(n) ==
  MapNodes(n, LAMBDA m : [QueryPlan(m.op, m.op, m.children) EXCEPT !.est = m.est])

\* Putting the parts of a plan whose cardinalities are known together gives its operators,
\* order and cardinalities back (opt/_helpers.py:386, 580).
RebuiltPlanIsThePlan ==
  built # None /\ plan # None /\ wanted = Empty /\ CteTable \notin PlanTables(plan) =>
    \A source \in {"estimates", "actual"} :
      LET measured == Canonical(IF source = "actual" THEN WithActualCard(plan) ELSE plan)
      IN /\ parts = ExplodeQueryPlan(plan, source)
         /\ \A n \in NodesOf(measured) : IsValid(n.est)
         => Bare(IF built.op = "Materialize" THEN built.children[1] ELSE built) = Bare(measured)

===============================================================================
