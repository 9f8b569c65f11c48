--------------------------------- MODULE JoinTrees ---------------------------------
(***************************************************************************)
(* Join trees (class JoinTree of _hints.py) and how they are obtained from *)
(* the join graph of a query: all of them (opt/_enumeration.py), one at    *)
(* random (opt/_randomized.py), along the walks of util/nx.py.             *)
(*                                                                         *)
(* A tree is a record; the code compares trees without their annotations,  *)
(* which is what SameTree does.  A join graph is a set of edges between    *)
(* trees: at first the trees of single tables, later the trees that        *)
(* contracted edges left behind.                                           *)
(***************************************************************************)
EXTENDS PlanHints

EmptyTree == [kind |-> "empty"]
CreateScan(t, annotation) == [kind |-> "scan", table |-> t, annotation |-> annotation]
CreateJoin(outer, inner, annotation) ==
  [kind |-> "join", outer |-> outer, inner |-> inner, annotation |-> annotation]

\* Variant: the inner input first.
TreeChildrenInnerFirst(tree) ==
  IF tree.kind = "join" THEN << tree.inner, tree.outer >> ELSE << >>

TreeChildren(tree) == IF tree.kind = "join" THEN << tree.outer, tree.inner >> ELSE << >>

RECURSIVE TreeTables(_)
TreeTables(tree) ==
  CASE tree.kind = "empty" -> {}
    [] tree.kind = "scan" -> {tree.table}
    [] tree.kind = "join" -> TreeTables(tree.outer) \union TreeTables(tree.inner)

\* A tree without annotations.
RECURSIVE Shape(_)
Shape(tree) ==
  CASE tree.kind = "empty" -> EmptyTree
    [] tree.kind = "scan" -> CreateScan(tree.table, None)
    [] tree.kind = "join" -> CreateJoin(Shape(tree.outer), Shape(tree.inner), None)

RECURSIVE TreeDepth(_)
TreeDepth(tree) ==
  CASE tree.kind = "empty" -> 0
    [] tree.kind = "scan" -> 1
    [] tree.kind = "join" ->
         1 + LET o == TreeDepth(tree.outer) i == TreeDepth(tree.inner) IN IF o > i THEN o ELSE i

\* lookup: the subtree over exactly these tables.
RECURSIVE TreeLookup(_, _)
TreeLookup(tree, ts) ==
  CASE ts = TreeTables(tree) -> tree
    [] ~(ts \subseteq TreeTables(tree)) \/ tree.kind # "join" -> None
    [] OTHER -> LET outer == TreeLookup(tree.outer, ts)
                IN IF outer # None THEN outer ELSE TreeLookup(tree.inner, ts)

\* iternodes (the root first) and iterjoins (the root last).
RECURSIVE TreeNodes(_)
TreeNodes(tree) ==
  CASE tree.kind = "empty" -> << >>
    [] tree.kind = "scan" -> << tree >>
    [] tree.kind = "join" -> << tree >> \o TreeNodes(tree.outer) \o TreeNodes(tree.inner)

RECURSIVE TreeJoins(_)
TreeJoins(tree) ==
  IF tree.kind # "join" THEN << >>
  ELSE TreeJoins(tree.outer) \o TreeJoins(tree.inner) \o << tree >>

\* is_linear looks at the root only.
IsLinearTree(tree) == tree.kind = "scan" \/ "scan" \in {tree.outer.kind, tree.inner.kind}
IsBaseJoin(tree) == tree.kind = "join" /\ {tree.outer.kind, tree.inner.kind} = {"scan"}

\* join_with: the partner becomes the inner or the outer input.
JoinWith(tree, partner, direction) ==
  CASE partner.kind = "empty" -> tree
    [] partner.kind # "empty" /\ tree.kind = "empty" -> partner
    [] OTHER -> IF direction = "inner" THEN CreateJoin(tree, partner, None)
                                       ELSE CreateJoin(partner, tree, None)

-------------------------------------------------------------------------------
(* Join graphs. *)

\* The join graph of a query over these tables with these pairs of joined tables.
JoinGraph(ts, pairs) ==
  [nodes |-> {CreateScan(t, None) : t \in ts},
   edges |-> {{CreateScan(t, None) : t \in pair} : pair \in pairs}]

\* Contracting an edge: the merged tree takes the place of both ends.
Contract(graph, start, target, merged) ==
  LET renamed(node) == IF node \in {start, target} THEN merged ELSE node
  IN [nodes |-> {renamed(node) : node \in graph.nodes},
      edges |-> {{renamed(node) : node \in edge} : edge \in graph.edges \ {{start, target}}}]

\* Variant: an edge is contracted in one direction only.
RECURSIVE EnumerateOneDirection(_)
EnumerateOneDirection(graph) ==
  IF Cardinality(graph.nodes) = 1 THEN graph.nodes
  ELSE UNION {LET start == CHOOSE node \in edge : TRUE
                  target == CHOOSE node \in edge : node # start
              IN EnumerateOneDirection(
                   Contract(graph, start, target, CreateJoin(start, target, None)))
              : edge \in graph.edges}

\* _enumerate_join_graph: contract every edge, in both directions.
RECURSIVE EnumerateJoinGraph(_)
EnumerateJoinGraph(graph) ==
  IF Cardinality(graph.nodes) = 1 THEN graph.nodes
  ELSE UNION {UNION {EnumerateJoinGraph(
                       Contract(graph, start, target, CreateJoin(start, target, None)))
                     : target \in edge \ {start}}
              : << edge, start >> \in {pair \in graph.edges \X graph.nodes : pair[2] \in pair[1]}}

Connected(graph) ==
  \A part \in (SUBSET graph.nodes) \ {{}, graph.nodes} :
    \E edge \in graph.edges : edge \intersect part # {} /\ ~(edge \subseteq part)

\* all_join_orders_for.  For linear trees the generator of the walks is created and
\* dropped, nothing is yielded.  None stands for the ValueError of a query with a
\* cross product.
AllJoinOrders(graph, structure) ==
  CASE structure # "bushy" \/ graph.nodes = {} -> {}
    [] structure = "bushy" /\ graph.nodes # {} /\ Connected(graph) -> EnumerateJoinGraph(graph)
    [] OTHER -> {None}

-------------------------------------------------------------------------------
(* Walks. *)

Neighbours(graph, node) == UNION {edge \ {node} : edge \in {e \in graph.edges : node \in e}}

\* _walk_frontier: expand a walk along each edge that leaves the visited nodes, jump
\* when there is none.  A walk is the sequence of its nodes.
RECURSIVE WalkFrontier(_, _)
WalkFrontier(graph, walk) ==
  LET frontier == {walk[i] : i \in DOMAIN walk}
      available == UNION {Neighbours(graph, node) : node \in frontier} \ frontier
      next == IF available # {} THEN available ELSE graph.nodes \ frontier
  IN IF next = {} THEN {walk} ELSE UNION {WalkFrontier(graph, Append(walk, node)) : node \in next}

FrontierWalks(graph) == UNION {WalkFrontier(graph, << node >>) : node \in graph.nodes}

RECURSIVE TreeOfWalk(_, _)
TreeOfWalk(walk, structure) ==
  IF walk = << >> THEN EmptyTree
  ELSE JoinWith(TreeOfWalk(SubSeq(walk, 1, Len(walk) - 1), structure), walk[Len(walk)],
                IF structure = "left-deep" THEN "inner" ELSE "outer")

\* _linear_join_orders: what the enumerator would yield.
LinearJoinOrders(graph, structure) ==
  {TreeOfWalk(walk, structure) : walk \in FrontierWalks(graph)}

===============================================================================
