------------------------------ MODULE AlgebraNodes ------------------------------
(***************************************************************************)
(* Relational algebra (relalg.py): the nodes, the links between them and   *)
(* how a tree is copied when one of its nodes is to be changed.            *)
(*                                                                         *)
(* A heap is the sequence of all nodes ever made; a node is an index of    *)
(* it, and 0 the node that could not be made.  Inputs point down; parent   *)
(* and passes (_sideways_pass) point up, to the first node that took this  *)
(* one as an input and to all further ones, of whatever tree.  A result is *)
(* a heap and a node of it.                                                *)
(*                                                                         *)
(* Sets of nodes, of predicates and of fragments are iterated over in some *)
(* order or, backwards, in the reverse one.                                *)
(***************************************************************************)
EXTENDS SqlQueries

Result(heap, node) == [heap |-> heap, node |-> node]
Failed(heap) == Result(heap, 0)

Arranged(s, backwards) == IF backwards THEN Reverse(s) ELSE s

-------------------------------------------------------------------------------
(* Equality and hashes. *)

\* What nodes are compared by: a relation by its table only.
Labelled(type, label, below) ==
  IF type = "Relation" THEN << "Relation", label.table, below >> ELSE << type, label, below >>

Each(s, Op(_)) == FoldLeft(LAMBDA results, x : Append(results, Op(x)), <<>>, s)

Structure(heap, node) == Labelled(node.type, node.label, Each(node.inputs, LAMBDA m : heap[m].structure))

\* _recalc_hash_val: from the hashes the inputs have at this time.
HashOf(heap, node) == Labelled(node.type, node.label, Each(node.inputs, LAMBDA m : heap[m].hash))

\* Variant: by the kind of node only.
EqualKinds(heap, n, m) == heap[n].type = heap[m].type

Equal(heap, n, m) == heap[n].structure = heap[m].structure

\* How a dictionary or a set knows a node.
Identity(heap, n) == << heap[n].hash, heap[n].structure >>

-------------------------------------------------------------------------------
(* Links. *)

\* A node becomes the parent of an input that has none and takes a sideways pass otherwise.
Link(heap, n, input) ==
  IF heap[input].parent = 0 THEN [heap EXCEPT ![input].parent = n]
  ELSE IF \E p \in heap[input].passes : Identity(heap, p) = Identity(heap, n) THEN heap
  ELSE [heap EXCEPT ![input].passes = @ \union {n}]

\* _maintain_child_links.
LinkInputs(heap, n) == FoldLeft(LAMBDA h, input : Link(h, n, input), heap, heap[n].inputs)

RECURSIVE LinkTree(_, _)
LinkTree(heap, n) ==
  IF heap[n].inputs = <<>> THEN heap
  ELSE FoldLeft(LAMBDA h, input : LinkTree(h, input), LinkInputs(heap, n), heap[n].inputs)

RECURSIVE NodesBelow(_, _)
NodesBelow(heap, n) == {n} \union UNION {NodesBelow(heap, m) : m \in ToSet(heap[n].inputs)}

Unlinked(node) == [node EXCEPT !.parent = 0, !.passes = {}]

\* _clear_parent_links.
RECURSIVE UnlinkTree(_, _)
UnlinkTree(heap, n) ==
  LET unlinked == [heap EXCEPT ![n] = Unlinked(@)]
  IN IF heap[n].inputs = <<>> THEN unlinked
     ELSE FoldLeft(LAMBDA h, input : UnlinkTree(h, input), unlinked, heap[n].inputs)

\* _rebuild_linkage.
RebuildLinkage(heap, root) == LinkTree(UnlinkTree(heap, root), root)

\* _rehash: a node is hashed before its inputs are.
RECURSIVE Rehash(_, _)
Rehash(heap, n) ==
  LET hashed == [heap EXCEPT ![n].hash = HashOf(heap, heap[n])]
  IN IF heap[n].inputs = <<>> THEN hashed
     ELSE FoldLeft(LAMBDA h, input : Rehash(h, input), hashed, heap[n].inputs)

RECURSIVE Root(_, _)
Root(heap, n) == IF heap[n].parent = 0 THEN n ELSE Root(heap, heap[n].parent)

\* The nodes a node hands its tuples to.
Users(heap, n) ==
  (IF heap[n].parent = 0 THEN <<>> ELSE << heap[n].parent >>) \o SetToSeq(heap[n].passes)

\* _collect_leaf_nodes: of equal relations the first one only.
RECURSIVE Leaves(_, _)
Leaves(heap, n) ==
  IF heap[n].inputs = <<>> THEN << n >>
  ELSE FoldLeft(LAMBDA found, leaf : IF \E m \in ToSet(found) : Identity(heap, m) = Identity(heap, leaf)
                                     THEN found ELSE Append(found, leaf),
                <<>>, FlattenSeq(Each(heap[n].inputs, LAMBDA m : Leaves(heap, m))))

-------------------------------------------------------------------------------
(* Copies (_RelNodeUpdateManager).  A change gives a node another label,   *)
(* another first input, or neither.                                        *)

Unchanged == [label |-> Null, input |-> 0]
Relabelled(label) == [label |-> label, input |-> 0]
WithInput(n) == [label |-> Null, input |-> n]

\* clone and _update_child_nodes.
Structured(heap, node) == [node EXCEPT !.structure = Structure(heap, node)]

CloneOf(heap, n, copies) ==
  Structured(heap, [Unlinked(heap[n]) EXCEPT !.inputs = Each(@, LAMBDA m : copies[Identity(heap, m)])])

Ready(heap, n, copies) ==
  /\ Identity(heap, n) \notin DOMAIN copies
  /\ \A m \in ToSet(heap[n].inputs) : Identity(heap, m) \in DOMAIN copies

CopyTo(heap, n, copies) == (Identity(heap, n) :> Len(heap) + 1) @@ copies

\* _merge_new_child: copy a node that is to become an input, from its leaves up.
RECURSIVE MergeNewChild(_, _, _, _)
MergeNewChild(heap, child, queue, copies) ==
  IF queue = <<>> THEN [heap |-> heap, copies |-> copies, node |-> 0]
  ELSE LET n == Head(queue)
           found == Equal(heap, n, child)
           higher == Tail(queue) \o Users(heap, n)
       IN CASE Identity(heap, n) \in DOMAIN copies ->
                 IF found THEN [heap |-> heap, copies |-> copies, node |-> copies[Identity(heap, n)]]
                          ELSE MergeNewChild(heap, child, higher, copies)
            [] Ready(heap, n, copies) ->
                 MergeNewChild(Append(heap, CloneOf(heap, n, copies)), child,
                               IF found THEN << n >> ELSE higher, CopyTo(heap, n, copies))
            [] OTHER -> MergeNewChild(heap, child, Tail(queue), copies)

Updated(heap, copies, n, node) ==
  [heap |-> [heap EXCEPT ![n] = Structured(heap, node)], copies |-> copies, failed |-> FALSE]

\* The clone n with the copy of its new input.
WithMerged(merged, heap, n) ==
  IF merged.node = 0 THEN [heap |-> heap, copies |-> merged.copies, failed |-> TRUE]
  ELSE Updated(merged.heap, merged.copies, n, [heap[n] EXCEPT !.inputs[1] = merged.node])

\* _perform_node_update of the clone that is the last node of the heap.
Update(heap, change, copies) ==
  LET n == Len(heap)
  IN IF change.label # Null THEN Updated(heap, copies, n, [heap[n] EXCEPT !.label = change.label])
     ELSE IF change.input = 0 THEN [heap |-> heap, copies |-> copies, failed |-> FALSE]
     ELSE WithMerged(MergeNewChild(heap, change.input, Leaves(heap, change.input), copies), heap, n)

\* _update_node_working_set for each node of a sequence, by halves.
RECURSIVE UsersInTurn(_, _)
UsersInTurn(heap, nodes) ==
  LET half == Len(nodes) \div 2
  IN IF nodes = <<>> THEN <<>>
     ELSE IF half = 0 THEN Users(heap, nodes[1])
     ELSE UsersInTurn(heap, SubSeq(nodes, 1, half)) \o UsersInTurn(heap, SubSeq(nodes, half + 1, Len(nodes)))

\* The state of the copying, c, once a node has been copied.
Copied(c, updated, n, copy, isInitiator, becomesRoot) ==
  [heap |-> updated.heap, copies |-> (Identity(c.heap, n) :> copy) @@ updated.copies,
   queue |-> c.queue, failed |-> updated.failed,
   changed |-> IF isInitiator THEN copy ELSE c.changed, root |-> IF becomesRoot THEN copy ELSE c.root]

\* Nodes that are not ready, or copied already, are passed over; their users queue up.
PassOver(c, passed) ==
  [c EXCEPT !.queue = SubSeq(@, passed + 1, Len(@)) \o UsersInTurn(c.heap, SubSeq(@, 1, passed))]

\* The node n, which is ready, is copied.
CopyNode(c, n, change, isInitiator, becomesRoot) ==
  Copied(c, Update(Append(c.heap, CloneOf(c.heap, n, c.copies)), IF isInitiator THEN change ELSE Unchanged, c.copies),
         n, Len(c.heap) + 1, isInitiator, becomesRoot)

CopyNext(c, n, root, initiator, change, asRoot) ==
  CopyNode(c, n, change, Equal(c.heap, n, initiator), Equal(c.heap, n, IF asRoot THEN initiator ELSE root))

\* From the queue up to its first ready node, if there is one at the given places.
CopyFirst(c, ready, root, initiator, change, asRoot) ==
  IF ready = {} THEN PassOver(c, Len(c.queue))
  ELSE CopyNext(PassOver(c, Min(ready)), c.queue[Min(ready)], root, initiator, change, asRoot)

\* The working set: a node is copied once all its inputs are, and is reached from below.
RECURSIVE CopyUpwards(_, _, _, _, _)
CopyUpwards(c, root, initiator, change, asRoot) ==
  IF c.queue = <<>> \/ c.failed \/ (asRoot /\ c.changed # 0) THEN c
  ELSE CopyUpwards(CopyFirst(c, {i \in DOMAIN c.queue : Ready(c.heap, c.queue[i], c.copies)},
                             root, initiator, change, asRoot),
                   root, initiator, change, asRoot)

Copies(heap, root, n, change, asRoot, backwards) ==
  CopyUpwards([heap |-> heap, copies |-> <<>>, queue |-> Arranged(Leaves(heap, root), backwards), failed |-> FALSE,
               changed |-> 0, root |-> 0], root, n, change, asRoot)

Relinked(heap, root) == Rehash(RebuildLinkage(heap, root), root)

\* Variant: the tree the copy was made of keeps its links.
CompletedCopy(c, heap, root) ==
  IF c.failed \/ c.changed = 0 \/ c.root = 0 THEN Failed(heap) ELSE Result(Relinked(c.heap, c.root), c.changed)

\* What the copying has made, and the tree it was made of, are linked and hashed again.
Completed(c, heap, root) ==
  IF c.failed \/ c.changed = 0 \/ c.root = 0 THEN Failed(heap)
  ELSE Result(FoldLeft(Relinked, c.heap, << c.root, root >>), c.changed)

\* mutate: the changed copy of a node within a copy of its whole tree, which becomes the
\* new root with asRoot.  It fails if the node or the root is not reached.
Mutate(heap, n, change, asRoot, backwards) ==
  Completed(Copies(heap, Root(heap, n), n, change, asRoot, backwards), heap, Root(heap, n))

-------------------------------------------------------------------------------
(* Kinds of nodes. *)

NewNode(heap, type, label, inputs) ==
  LET plain == [type |-> type, label |-> label, inputs |-> inputs, parent |-> 0, passes |-> {},
                hash |-> <<>>, structure |-> <<>>]
      node == Structured(heap, [plain EXCEPT !.hash = HashOf(heap, plain)])
      n == Len(heap) + 1
  IN IF 0 \in ToSet(inputs) THEN Failed(heap) ELSE Result(LinkInputs(Append(heap, node), n), n)

Relation(heap, t, columns) == NewNode(heap, "Relation", [table |-> t, columns |-> columns], <<>>)
Selection(heap, input, p) == NewNode(heap, "Selection", p, << input >>)
CrossProduct(heap, left, right) == NewNode(heap, "CrossProduct", Null, << left, right >>)
ThetaJoin(heap, left, right, p) == NewNode(heap, "ThetaJoin", p, << left, right >>)
UnionOf(heap, left, right) == NewNode(heap, "Union", Null, << left, right >>)
Intersection(heap, left, right) == NewNode(heap, "Intersection", Null, << left, right >>)
Difference(heap, left, right) == NewNode(heap, "Difference", Null, << left, right >>)
Projection(heap, input, targets) == NewNode(heap, "Projection", targets, << input >>)
Sort(heap, input, sorting) == NewNode(heap, "Sort", sorting, << input >>)
DuplicateElimination(heap, input) == NewNode(heap, "DuplicateElimination", Null, << input >>)
SubqueryScan(heap, input, subquery) == NewNode(heap, "SubqueryScan", subquery, << input >>)

Grouping(heap, input, columns, aggregates) ==
  NewNode(heap, "Grouping", [columns |-> columns, aggregates |-> aggregates], << input >>)

\* Expressions, by the expressions they are computed from.
Map(heap, input, expressions) ==
  NewNode(heap, "Map", {<< {d \in Children(e) : d.kind \notin {"value", "star"}}, e >> : e \in expressions}, << input >>)

\* A relation that stands for a subquery is the parent of the subquery's tree.
SubqueryRelation(heap, t, columns, input) ==
  LET n == Len(heap) + 1
  IN IF input = 0 THEN Failed(heap)
     ELSE NewNode([heap EXCEPT ![input].parent = n], "Relation", [table |-> t, columns |-> columns], << input >>)

\* Semi and anti joins take a copy of the subquery's tree and are its parent.
JoinWithCopy(copied, type, input, p) ==
  IF copied.node = 0 THEN copied
  ELSE NewNode([copied.heap EXCEPT ![copied.node].parent = Len(copied.heap) + 1], type, p, << input, copied.node >>)

JoinWithSubquery(heap, type, input, scan, p, backwards) ==
  IF 0 \in {input, scan} THEN Failed(heap)
  ELSE JoinWithCopy(Mutate(heap, scan, Unchanged, FALSE, backwards), type, input, p)

\* tables.
RECURSIVE NodeTables(_, _)
NodeTables(heap, n) ==
  (IF heap[n].type = "Relation" THEN {heap[n].label.table} ELSE {})
  \union UNION {NodeTables(heap, m) : m \in ToSet(heap[n].inputs)}

\* tables without those of subqueries.
RECURSIVE OwnTables(_, _)
OwnTables(heap, n) ==
  IF heap[n].type = "Relation" THEN {heap[n].label.table}
  ELSE IF heap[n].type = "SubqueryScan" THEN {}
  ELSE UNION {OwnTables(heap, m) : m \in ToSet(heap[n].inputs)}

\* provided_expressions.
RECURSIVE ProvidedBy(_, _)
ProvidedBy(heap, n) ==
  LET node == heap[n]
      inputs == UNION {ProvidedBy(heap, m) : m \in ToSet(node.inputs)}
  IN CASE node.type = "Relation" -> inputs \union node.label.columns
       [] node.type = "Map" -> inputs \union {entry[2] : entry \in node.label}
       [] node.type = "Grouping" -> ToSet(node.label.columns) \union node.label.aggregates
       [] node.type = "SubqueryScan" -> inputs \union {node.label}
       [] OTHER -> inputs
===============================================================================
