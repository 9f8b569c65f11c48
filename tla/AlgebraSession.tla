----------------------------- MODULE AlgebraSession -----------------------------
(***************************************************************************)
(* A query is converted to relational algebra (parse_relalg), and nodes of *)
(* the algebra are then changed one after the other (RelNode.mutate): the  *)
(* predicate of a node is replaced, a selection is put below a node, or a  *)
(* node is made the root.  A change leaves the tree it is made from as it  *)
(* is and is done to a copy.                                               *)
(*                                                                         *)
(* The module also says which rows a tree yields, and states that these    *)
(* are what the query asks for.  Rows form sets: how often a row is        *)
(* returned is not compared.                                               *)
(***************************************************************************)
EXTENDS AlgebraParser

CONSTANTS
  Queries,       \* the queries to convert
  Databases,     \* the rows of each table, a function for each database
  NewPredicates, \* what predicates are replaced by
  MaxChanges     \* bound on the changes in a row, for each query

VARIABLES
  query,     \* the query
  heap,      \* all nodes
  root,      \* the root of the current tree
  stage,     \* "new", "raised", "lost" (not all of it could be copied), "parsed" or "changed"
  changes,   \* the number of changes made
  last       \* the tree before the last change, the node changed, and the change

vars == << query, heap, root, stage, changes, last >>

NoChange == [root |-> 0, node |-> 0, change |-> Unchanged, asRoot |-> FALSE]

-------------------------------------------------------------------------------
(* Rows of a tree.  A row gives a value to each expression it provides; a  *)
(* projection yields tuples.  Within a subquery, the tables of the query   *)
(* around it stand for the row the subquery is evaluated for.              *)

RestrictTo(row, expressions) == [e \in DOMAIN row \intersect expressions |-> row[e]]

ColumnsIn(row) == {e \in DOMAIN row : e.kind \in {"column", "function"}}

\* Every column, aggregate and subquery the expression is made of has a value.
RECURSIVE HasValue(_, _)
HasValue(e, row) ==
  \/ e \in DOMAIN row
  \/ /\ e.kind \notin {"column", "function", "subquery"}
     /\ \A part \in ToSet(e.parts) : HasValue(part, row)

\* The expression with everything the row provides put in.
RECURSIVE Substituted(_, _)
Substituted(e, row) ==
  IF e \in DOMAIN row THEN Static(row[e]) ELSE [e EXCEPT !.parts = Each(@, LAMBDA part : Substituted(part, row))]

Value(e, row) == Evaluate(Substituted(e, row), <<>>)
Accepts(p, row) == HasValue(p, row) /\ Keeps(Substituted(p, row), <<>>)

\* An input of a set operation: tuples, or the columns of its rows.
Comparable(n, rows) == IF heap[n].type = "Projection" THEN rows ELSE {RestrictTo(r, ColumnsIn(r)) : r \in rows}

RECURSIVE Rows(_, _, _)

\* The rows of a subquery's scan: what it selects by name, and the subquery itself.
ScanRows(n, outer, db) ==
  LET below == heap[n].inputs[1]
      targets == heap[below].label
  IN IF heap[below].type # "Projection" THEN Rows(below, outer, db)
     ELSE {[t \in ToSet(targets) |-> tuple[CHOOSE i \in DOMAIN targets : targets[i] = t]] @@ (heap[n].label :> tuple[1]) :
             tuple \in Rows(below, outer, db)}

SourceOf(n, outer, db) ==
  LET node == heap[n]
      ofOuter == {e \in DOMAIN outer : e.kind = "column" /\ e.table = node.label.table}
      Renamed(row) == [c \in node.label.columns |-> row[CHOOSE e \in DOMAIN row : e.name = c.name /\ e.kind = "column"]]
  IN IF ofOuter # {} THEN {RestrictTo(outer, ofOuter)}
     ELSE IF node.inputs = <<>> THEN db[node.label.table]
     ELSE {Renamed(r) : r \in Rows(node.inputs[1], outer, db)}

\* The rows of the left input with the rows of the right one that go with them.
Pairs(n, outer, db) ==
  {<< l, r >> : l \in Rows(heap[n].inputs[1], outer, db), r \in Rows(heap[n].inputs[2], outer, db)}

Matches(n, l, outer, db) ==
  {r \in Rows(heap[n].inputs[2], Over(l, outer), db) :
     heap[n].label = Null \/ Accepts(heap[n].label, Over(Over(r, l), outer))}

Rows(n, outer, db) ==
  LET node == heap[n]
      Input(i) == Rows(node.inputs[i], outer, db)
      Side(i) == Comparable(node.inputs[i], Input(i))
  IN CASE node.type = "Relation" -> SourceOf(n, outer, db)
       [] node.type = "SubqueryScan" -> ScanRows(n, outer, db)
       [] node.type \in {"Map", "Sort", "DuplicateElimination"} -> Input(1)
       [] node.type = "Selection" -> {r \in Input(1) : Accepts(node.label, Over(r, outer))}
       [] node.type = "CrossProduct" /\ heap[node.inputs[2]].type = "SubqueryScan" ->
            \* A scalar subquery without a row is NULL.
            {Over(l, [e \in {heap[node.inputs[2]].label} |->
                        LET rows == Rows(node.inputs[2], Over(l, outer), db)
                        IN IF rows = {} THEN Null ELSE (CHOOSE r \in rows : TRUE)[e]]) : l \in Input(1)}
       [] node.type = "CrossProduct" -> {Over(p[1], p[2]) : p \in Pairs(n, outer, db)}
       [] node.type = "ThetaJoin" ->
            {Over(p[1], p[2]) : p \in {p \in Pairs(n, outer, db) : Accepts(node.label, Over(Over(p[1], p[2]), outer))}}
       [] node.type = "SemiJoin" -> {l \in Input(1) : Matches(n, l, outer, db) # {}}
       [] node.type = "AntiJoin" -> {l \in Input(1) : Matches(n, l, outer, db) = {}}
       [] node.type = "Union" -> Side(1) \union Side(2)
       [] node.type = "Intersection" -> Side(1) \intersect Side(2)
       [] node.type = "Difference" -> Side(1) \ Side(2)
       [] node.type = "Grouping" ->
            LET arguments == UNION {ToSet(f.parts) \ {Star} : f \in node.label.aggregates} \union ToSet(node.label.columns)
                rows == {Over(r, outer) : r \in Input(1)}
            IN GroupRows(node.label.columns, node.label.aggregates, {r \in rows : \A e \in arguments : HasValue(e, r)}, Value)
       [] node.type = "Projection" ->
            {[i \in DOMAIN node.label |-> Value(node.label[i], Over(r, outer))] :
               r \in {r \in Input(1) : \A e \in ToSet(node.label) : HasValue(e, Over(r, outer))}}

\* The rows of the root, of a query with a star as its columns only.
AlgebraAnswer(q, db) ==
  LET rows == Rows(root, <<>>, db)
  IN IF ~IsSetQuery(q) /\ IsStar(q) THEN {RestrictTo(r, ColumnsIn(r)) : r \in rows} ELSE rows

-------------------------------------------------------------------------------
(* The session. *)

Init ==
  /\ query \in Queries
  /\ heap = <<>> /\ root = 0
  /\ stage = "new"
  /\ changes = 0
  /\ last = NoChange

Parsed(raw, copied) ==
  /\ stage = "new"
  /\ stage' = IF raw.node = 0 THEN "raised" ELSE IF copied.node = 0 THEN "lost" ELSE "parsed"
  /\ heap' = IF stage' = "parsed" THEN copied.heap ELSE <<>>
  /\ root' = IF stage' = "parsed" THEN Root(copied.heap, copied.node) ELSE 0
  /\ UNCHANGED << query, changes, last >>

\* parse_relalg: the result is a copy of what was built.
ParseRelalg(order) ==
  \E raw \in {GenerateRelnode(query, order)} :
    Parsed(raw, Mutate(raw.heap, raw.node, Unchanged, FALSE, order.nodes))

Changed(mutated) ==
  /\ stage' = IF mutated.node = 0 THEN "lost" ELSE "changed"
  /\ heap' = mutated.heap
  /\ root' = IF mutated.node = 0 THEN 0 ELSE Root(mutated.heap, mutated.node)

Change(started, n, change, asRoot) ==
  /\ stage \in {"parsed", "changed"}
  /\ changes < MaxChanges[query]
  /\ changes' = changes + 1
  /\ Changed(Mutate(started, n, change, asRoot, FALSE))
  /\ last' = [root |-> root, node |-> n, change |-> change, asRoot |-> asRoot]
  /\ UNCHANGED query

\* mutate(predicate=...) of a selection or a join.
ReplacePredicate(n, p) ==
  /\ heap[n].type \in {"Selection", "ThetaJoin"}
  /\ Change(heap, n, Relabelled(p), FALSE)

\* mutate(input_node=...) or mutate(left_input=...) with a new selection of the input.
InsertSelection(n, p) ==
  /\ heap[n].type \notin {"Relation", "SubqueryScan"}
  /\ LET selection == Selection(heap, heap[n].inputs[1], p)
     IN Change(selection.heap, n, WithInput(selection.node), FALSE)

\* mutate(as_root=True).
MakeRoot(n) == Change(heap, n, Unchanged, TRUE)

Next ==
  \/ \E order \in [predicates : BOOLEAN, nodes : BOOLEAN] : ParseRelalg(order)
  \/ \E n \in IF root = 0 THEN {} ELSE NodesBelow(heap, root) :
       \/ \E p \in NewPredicates : ReplacePredicate(n, p) \/ InsertSelection(n, p)
       \/ MakeRoot(n)

Spec == Init /\ [][Next]_vars

-------------------------------------------------------------------------------
(* Properties. *)

\* A part of a conjunction is to be evaluated later than the conjunction as a whole.
LosesParts(p) ==
  p.kind = "and" /\ \E part \in ToSet(p.parts) : Phase(part) > Phase(p)

RECURSIVE SubqueryIsNegated(_)
SubqueryIsNegated(p) ==
  \/ p.kind = "not" /\ SubqueriesIn(p) # {}
  \/ p.kind = "in" /\ p.operator = "NOT IN" /\ SubqueriesIn(p) # {}
  \/ p.kind \in {"and", "or"} /\ \E part \in ToSet(p.parts) : SubqueryIsNegated(part)

RECURSIVE OrOfSubqueries(_)
OrOfSubqueries(p) ==
  \/ p.kind = "or" /\ \A part \in ToSet(p.parts) : SubqueriesIn(part) # {}
  \/ p.kind \in {"and", "or"} /\ \E part \in ToSet(p.parts) : OrOfSubqueries(part)

TablesOfFrom(q) == {s.table : s \in FromSources(q)}

\* The fragments of the left side that the right side does not replace are joined with it.
RightSideJoinsTheLeft(q) ==
  IsSetQuery(q) /\ ~(TablesOfFrom(Subqueries[q.lhs]) \subseteq TablesOfFrom(Subqueries[q.rhs]))

\* What parse_relalg is known to convert to something else.
Misconverted(q) ==
  \/ RightSideJoinsTheLeft(q)
  \/ \E p \in Condition(q.where) : LosesParts(p) \/ SubqueryIsNegated(p) \/ OrOfSubqueries(p)
  \/ \E p \in Condition(q.having) : Phase(p) # PostAggregation
  \/ \E e \in ToSet(q.targets) : SubqueriesIn(e) # {}

\* The algebra of a query yields the rows the query asks for, whatever the order in which
\* its predicates are applied: no filter, join or subquery is lost, applied to another table
\* or before what it needs is computed (parse_relalg).
AlgebraReturnsTheQuery ==
  stage = "parsed" /\ ~Misconverted(query) =>
    \A db \in Databases : AlgebraAnswer(query, db) = Answer(query, <<>>, db)

\* A tree is linked: its root has no parent, every input knows all nodes of the tree it is
\* an input of, and no other ones.
Linked(r) ==
  LET tree == NodesBelow(heap, r)
      UsersOf(n) == {m \in tree : n \in ToSet(heap[m].inputs)}
  IN \A n \in tree : ToSet(Users(heap, n)) = UsersOf(n)

\* The copy of a tree as well as the tree it was made from are linked, so that walking up
\* from a leaf never leaves the tree (RelNode._rebuild_linkage).
AlgebraIsLinked ==
  /\ root # 0 => Linked(root)
  /\ last.root # 0 => Linked(last.root)

\* The structure of a tree with a node, and its equals, changed.
RECURSIVE StructureWith(_, _, _, _)
StructureWith(h, n, target, change) ==
  LET node == h[n]
      below == Each(node.inputs, LAMBDA m : StructureWith(h, m, target, change))
  IN IF node.structure # h[target].structure THEN Labelled(node.type, node.label, below)
     ELSE IF change.label # Null THEN Labelled(node.type, change.label, below)
     ELSE IF change.input # 0 THEN Labelled(node.type, node.label, << h[change.input].structure >> \o Tail(below))
     ELSE h[n].structure

\* A change makes the tree it was made from with that node changed, and nothing else; it
\* never fails for a tree that has been converted, however often it was changed
\* (RelNode.mutate).
MutationIsExact ==
  /\ changes > 0 => stage = "changed"
  /\ stage = "changed" =>
    heap[root].structure = StructureWith(heap, IF last.asRoot THEN last.node ELSE last.root, last.node, last.change)
===============================================================================
