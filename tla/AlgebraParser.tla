------------------------------ MODULE AlgebraParser ------------------------------
(***************************************************************************)
(* From a query to its relational algebra (relalg.py): when a predicate    *)
(* can be evaluated, which nodes it becomes, and how the query is put      *)
(* together from them.  The parser keeps a fragment for each table: the    *)
(* topmost node that holds it so far.  A subquery gets a parser of its own *)
(* that may use the fragments of the one around it.                        *)
(***************************************************************************)
EXTENDS AlgebraNodes

-------------------------------------------------------------------------------
(* Evaluation phases. *)

BaseTable == 1
JoinPhase == 2
PostJoin == 3
PostAggregation == 4

\* _determine_expression_phase.
RECURSIVE ExpressionPhase(_)
ExpressionPhase(e) ==
  CASE e.kind \in {"column", "value", "star"} -> BaseTable
    [] e.kind = "function" -> PostAggregation
    [] e.kind = "subquery" -> IF Cardinality(UnboundTables(QueryFor(e))) < 2 THEN BaseTable ELSE PostJoin
    [] OTHER -> Max({IF Cardinality(TablesIn(e)) > 1 THEN JoinPhase ELSE BaseTable}
                    \union {ExpressionPhase(part) : part \in ToSet(e.parts)})

\* _determine_predicate_phase.
Phase(p) ==
  LET Decided(nested, phase) ==
        IF Cardinality(TablesIn(p)) - Cardinality(nested) = 1 THEN BaseTable
        ELSE IF nested # {} THEN PostJoin
        ELSE IF phase > JoinPhase THEN phase
        ELSE IF p.kind = "binary" THEN JoinPhase ELSE PostJoin
      expressions == {part \in ToSet(p.parts) : part.kind \notin {"star", "value"}}
  IN Decided(UNION {BoundTables(QueryFor(s)) : s \in SubqueriesIn(p)}, Max({ExpressionPhase(e) : e \in expressions}))

\* _filter_eval_phase: what of a predicate is evaluated in a phase, a sequence of at most one.
FilterPhase(p, phase) ==
  LET Evaluated(own, parts) ==
        IF p.kind = "and" /\ own >= phase /\ parts # <<>> THEN << Compound("and", parts) >>
        ELSE IF p.kind # "and" /\ own = phase THEN << p >> ELSE <<>>
  IN IF p = Null THEN <<>> ELSE Evaluated(Phase(p), SelectSeq(p.parts, LAMBDA q : Phase(q) = phase))

\* _BaseTableLookup, where it finds exactly one table.
BaseTableOf(p) ==
  IF Cardinality(TablesIn(p)) = 1 THEN TablesIn(p)
  ELSE TablesOf(p) \union UNION {UnboundTables(QueryFor(s)) : s \in SubqueriesIn(p)}

\* _split_filter_predicate: tables and what is to be applied to them.
RECURSIVE SplitFilter(_, _)
SplitFilter(p, backwards) ==
  IF p.kind # "and" THEN {<< BaseTableOf(p), p >>}
  ELSE LET parts == UNION {SplitFilter(child, backwards) : child \in ToSet(p.parts)}
           Filters(ts) == {part[2] : part \in {part \in parts : part[1] = ts}}
       IN {<< ts, Compound("and", Arranged(SetToSeq(Filters(ts)), backwards)) >> : ts \in {part[1] : part \in parts}}

\* _split_join_predicate.
SplitJoin(p) == IF p.kind = "and" THEN p.parts ELSE << p >>

-------------------------------------------------------------------------------
(* Expressions that have to be computed. *)

\* _collect_all_expressions: down to aggregates; _needs_mapping.
RECURSIVE AllExpressions(_)
AllExpressions(e) ==
  IF IsAggregate(e) THEN {e}
  ELSE {x \in {e} \union UNION {AllExpressions(child) : child \in Children(e)} : x.kind \notin {"value", "star"}}

Required(expressions) == UNION {AllExpressions(e) : e \in expressions}

\* _collect_provided_expressions: those of the query around included.
Provided(heap, n, outer) == ProvidedBy(heap, n) \union UNION {ProvidedBy(heap, outer[t]) : t \in DOMAIN outer}

MapMissing(heap, n, missing) == IF missing = {} THEN Result(heap, n) ELSE Map(heap, n, missing)

\* _ensure_predicate_applicability.
EnsureApplicable(r, p, outer) ==
  IF r.node = 0 THEN r
  ELSE MapMissing(r.heap, r.node, Required(ToSet(p.parts)) \ Provided(r.heap, r.node, outer))

\* _ensure_expression_applicability: what the expression is computed from.
EnsureParts(heap, n, e, outer) ==
  MapMissing(heap, n, Required(ToSet(e.parts)) \ Provided(heap, n, outer))

Select(applicable, p) == Selection(applicable.heap, applicable.node, p)

NodeFor(fragments, t) == IF t \in DOMAIN fragments THEN fragments[t] ELSE 0

-------------------------------------------------------------------------------
(* A parser, p, is the heap it builds on, the fragments it has made, those *)
(* around it, the columns required of each table, whether it has seen a    *)
(* subquery, what it iterates over backwards, and whether it has raised.   *)

NewParser(heap, outer, order) ==
  [heap |-> heap, fragments |-> <<>>, outer |-> outer, required |-> <<>>, merged |-> FALSE,
   order |-> order, raised |-> FALSE, node |-> 0]

Broken(p) == [p EXCEPT !.raised = TRUE]

ColumnsByTable(p, columns) ==
  [t \in {c.table : c \in columns} \union DOMAIN p.required |->
     {c \in columns : c.table = t} \union (IF t \in DOMAIN p.required THEN p.required[t] ELSE {})]

Require(p, columns) ==
  IF p.merged /\ \E c \in columns : c.table \notin DOMAIN p.required THEN Broken(p)
  ELSE [p EXCEPT !.required = ColumnsByTable(p, columns)]

\* _update_query: what was a defaultdict is a plain one once a subquery's columns are merged in.
UpdateQuery(p, q) == Require(p, QueryColumns(q))

RECURSIVE Generate(_, _)

\* _add_subquery, by a parser of its own.
ParseSubquery(p, name) ==
  Generate(UpdateQuery(NewParser(p.heap, p.fragments, p.order), Subqueries[name]), Subqueries[name])

Scanned(inner, name) ==
  IF inner.node = 0 THEN Failed(inner.heap) ELSE SubqueryScan(inner.heap, inner.node, SubqueryOf(name))

AddSubquery(p, name) == Scanned(ParseSubquery(p, name), name)

On(p, result) == [p EXCEPT !.heap = result.heap]
At(p, result) == [p EXCEPT !.heap = result.heap, !.node = result.node]

\* The node n together with the scan of the subquery e: target says how it is used.
UseSubquery(scan, n, e, target, column, order) ==
  LET below == scan.heap[scan.heap[scan.node].inputs[1]]
      compares == target = "in" /\ ~IsScalar(QueryFor(e))
  IN IF scan.node = 0 \/ (compares /\ (below.type # "Projection" \/ Len(below.label) # 1)) THEN Failed(scan.heap)
     ELSE IF ~compares /\ target \in {"scalar", "in"} THEN CrossProduct(scan.heap, n, scan.node)
     ELSE JoinWithSubquery(scan.heap, IF target = "antijoin" THEN "AntiJoin" ELSE "SemiJoin", n, scan.node,
                           IF compares THEN Binary("=", column, below.label[1]) ELSE Null, order.nodes)

\* _add_expression for the nodes an expression needs.
AddExpression(p, n, e, target, column) ==
  IF n = 0 THEN Failed(p.heap)
  ELSE IF e \in ProvidedBy(p.heap, n) \/ e.kind \in {"column", "value"} THEN Result(p.heap, n)
  ELSE IF e.kind = "subquery" THEN UseSubquery(AddSubquery(p, e.name), n, e, target, column, p.order)
  ELSE IF e.kind \in {"cast", "function", "math"} THEN EnsureParts(p.heap, n, e, p.outer)
  ELSE Failed(p.heap)

AddExpressions(p, n, expressions) ==
  FoldLeft(LAMBDA r, e : AddExpression(On(p, r), r.node, e, "scalar", Null), Result(p.heap, n), expressions)

\* The union of what has been kept so far and what a part with a subquery keeps.
ConvertOr(p, regular, branch) ==
  UnionOf(branch.heap, regular, branch.node)

Without(n, branch) == Difference(branch.heap, n, branch.node)

IsScalarValue(v) == \A s \in SubqueriesIn(v) : IsScalar(QueryFor(s))

\* A predicate is converted in steps: an expression is added, or a predicate is applied, with
\* what it needs being computed before if "needed".
Adding(expressions, target, column) ==
  [i \in DOMAIN expressions |-> [expression |-> expressions[i], target |-> target, column |-> column]]
Applying(p, target) == << [expression |-> p, target |-> target, column |-> Null] >>

\* IN: its plain values and scalar subqueries first, then a semi join for each further subquery.
StepsOfIn(column, plain, queries) ==
  Adding(plain \o << column >>, "scalar", Null)
  \o (IF plain = <<>> THEN <<>> ELSE Applying(In("IN", column, plain), "given"))
  \o Adding(queries, "in", column)

Steps(predicate) ==
  LET parts == predicate.parts
  IN CASE SubqueriesIn(predicate) = {} -> Applying(predicate, "needed")
       [] predicate.kind = "unary" ->
            Adding(parts, IF predicate.operator = "EXISTS" THEN "semijoin" ELSE "antijoin", Null)
       [] predicate.kind = "between" -> Adding(parts, "scalar", Null) \o Applying(predicate, "given")
       [] predicate.kind = "in" ->
            StepsOfIn(parts[1], SelectSeq(Tail(parts), LAMBDA v : IsScalarValue(v)),
                      SelectSeq(Tail(parts), LAMBDA v : ~IsScalarValue(v)))
       [] predicate.kind = "binary" ->
            Adding(SelectSeq(parts, LAMBDA e : SubqueriesIn(e) # {}), "scalar", Null)
            \o Applying(predicate, "needed")

Step(p, r, s) ==
  IF s.target \notin {"needed", "given"} THEN AddExpression(On(p, r), r.node, s.expression, s.target, s.column)
  ELSE Select(IF s.target = "needed" THEN EnsureApplicable(r, s.expression, p.outer) ELSE r, s.expression)

SelectPlain(p, n, kind, parts) ==
  IF parts = <<>> THEN Result(p.heap, n)
  ELSE Select(EnsureApplicable(Result(p.heap, n), Compound(kind, parts), p.outer), Compound(kind, parts))

\* _convert_predicate.
RECURSIVE ConvertPredicate(_, _, _)

\* AND and OR: the parts without subqueries first; an OR applies each other part to the input.
AddPart(p, n, kind, r, part) ==
  IF kind = "and" THEN ConvertPredicate(On(p, r), r.node, part)
  ELSE ConvertOr(p, r.node, ConvertPredicate(On(p, r), n, part))
ConvertCompound(p, n, kind, parts) ==
  FoldLeft(LAMBDA r, part : AddPart(p, n, kind, r, part),
           SelectPlain(p, n, kind, SelectSeq(parts, LAMBDA c : SubqueriesIn(c) = {})),
           SelectSeq(parts, LAMBDA c : SubqueriesIn(c) # {}))

ConvertPredicate(p, n, predicate) ==
  IF n = 0 THEN Failed(p.heap)
  ELSE IF predicate.kind \in {"and", "or"} THEN ConvertCompound(p, n, predicate.kind, predicate.parts)
  ELSE IF predicate.kind = "not" /\ SubqueriesIn(predicate) # {} THEN
    Without(n, ConvertPredicate(p, n, predicate.parts[1]))
  ELSE FoldLeft(LAMBDA r, s : Step(p, r, s), Result(p.heap, n), Steps(predicate))

\* A join of two nodes that a predicate misses some expressions of.
JoinSides(heap, left, right, missing, predicate) ==
  LET ofLeft == {e \in missing : TablesIn(e) \subseteq NodeTables(heap, left)}
      ofRight == {e \in missing \ ofLeft : TablesIn(e) \subseteq NodeTables(heap, right)}
      Joined(l, r) == ThetaJoin(r.heap, l.node, r.node, predicate)
      MapRight(l) == Joined(l, MapMissing(l.heap, right, ofRight))
  IN IF missing # ofLeft \union ofRight THEN Failed(heap) ELSE MapRight(MapMissing(heap, left, ofLeft))

\* The same for what the sides of the predicate are computed on.
JoinComputed(p, left, right, predicate) ==
  JoinSides(right.heap, left.node, right.node,
            Required(ToSet(predicate.parts))
              \ (Provided(right.heap, left.node, p.outer) \union Provided(right.heap, right.node, p.outer)),
            predicate)

JoinWithSide(p, left, n, predicate) ==
  JoinComputed(p, left, AddExpression(On(p, left), n, predicate.parts[2], "scalar", Null), predicate)

\* _convert_join_predicate, for the binary predicates without subqueries that are evaluated
\* in this phase.
ConvertJoinPredicate(p, predicate) ==
  LET inputs == {IF t \in DOMAIN p.fragments THEN p.fragments[t] ELSE NodeFor(p.outer, t) : t \in TablesIn(predicate)}
      Fits(l, r) == /\ TablesIn(predicate.parts[1]) \subseteq OwnTables(p.heap, l)
                    /\ TablesIn(predicate.parts[2]) \subseteq OwnTables(p.heap, r)
      sides == {s \in inputs \X inputs : s[1] # s[2] /\ Fits(s[1], s[2])}
  IN IF 0 \in inputs THEN Failed(p.heap)
     ELSE IF Cardinality(inputs) = 1 THEN
       Select(EnsureApplicable(Result(p.heap, CHOOSE n \in inputs : TRUE), predicate, p.outer), predicate)
     ELSE IF Cardinality(inputs) # 2 \/ sides = {} THEN Failed(p.heap)
     ELSE LET s == CHOOSE s \in sides : TRUE
          IN JoinWithSide(p, AddExpression(p, s[1], predicate.parts[1], "scalar", Null), s[2], predicate)

-------------------------------------------------------------------------------
(* A query (generate_relnode). *)

\* The parser goes on with a new node for some tables.
Advanced(p, result, tables) ==
  [p EXCEPT !.heap = result.heap, !.raised = @ \/ result.node = 0, !.fragments = [t \in tables |-> result.node] @@ @]

\* _add_table; a table without required columns is known from then on.
AddKnownTable(p, t) == Advanced(p, Relation(p.heap, t, p.required[t]), {t})
AddTable(p, t) ==
  IF p.merged /\ t \notin DOMAIN p.required THEN Broken(p)
  ELSE AddKnownTable([p EXCEPT !.required = @ @@ (t :> {})], t)

Scan(p, scan, t, required) ==
  IF scan.node = 0 \/ t \notin DOMAIN required THEN Broken(p)
  ELSE Advanced([p EXCEPT !.required = required, !.merged = TRUE],
                SubqueryRelation(scan.heap, t, required[t], scan.node), {t})

ScanOf(p, inner, t, name) == Scan(p, Scanned(inner, name), t, p.required @@ inner.required)

\* A table for the tuples of a subquery.
AddSubqueryTable(p, t, name) == ScanOf(p, ParseSubquery(p, name), t, name)

\* _add_table_source; explicit joins are not supported.
AddTableSource(p, source) ==
  IF p.raised THEN p
  ELSE IF source.join # Null THEN Broken(p)
  ELSE IF source.subquery # "" THEN AddSubqueryTable(p, source.table, source.subquery)
  ELSE IF ~source.virtual THEN AddTable(p, source.table)
  ELSE IF source.table \in DOMAIN p.fragments THEN p ELSE Broken(p)

AddCte(p, cte) == IF p.raised THEN p ELSE AddSubqueryTable(p, cte.table, cte.subquery)

AddFilter(p, part) ==
  LET t == CHOOSE t \in part[1] : TRUE
  IN IF p.raised \/ Cardinality(part[1]) # 1 \/ NodeFor(p.fragments, t) = 0 THEN Broken(p)
     ELSE Advanced(p, ConvertPredicate(p, p.fragments[t], part[2]), {t})

AddFoundFilter(p, found, backwards) ==
  IF p.raised \/ found = <<>> THEN p
  ELSE IF IsJoin(found[1]) THEN Broken(p)
  ELSE FoldLeft(AddFilter, p, Arranged(SetToSeq(SplitFilter(found[1], backwards)), backwards))

\* _add_predicate, base table phase.
AddFilters(p, q) == AddFoundFilter(p, FilterPhase(q.where, BaseTable), p.order.predicates)

\* Variant: only the tables of the predicate are known to be joined.
JoinForPartners(p, joined, predicate) ==
  IF p.raised \/ joined.node = 0 THEN Broken(p) ELSE Advanced(p, joined, TablesIn(predicate))

\* All tables of a join have it as their fragment.
Join(p, joined, predicate) ==
  IF p.raised \/ joined.node = 0 THEN Broken(p) ELSE Advanced(p, joined, NodeTables(joined.heap, joined.node))

AddJoin(p, predicate) == Join(p, ConvertJoinPredicate(p, predicate), predicate)

AddFoundJoins(p, found) ==
  IF p.raised \/ found = <<>> THEN p ELSE FoldLeft(AddJoin, p, Arranged(SplitJoin(found[1]), p.order.predicates))

\* _add_predicate, join phase.
AddJoins(p, q) == AddFoundJoins(p, FilterPhase(q.where, JoinPhase))

\* The join order, completed by cross products.
CrossJoined(p) ==
  LET heads == Arranged(SetToSeq(Range(p.fragments)), p.order.nodes)
  IN At(p, IF p.raised THEN Failed(p.heap)
           ELSE FoldLeft(LAMBDA r, n : CrossProduct(r.heap, r.node, n), Result(p.heap, Head(heads)), Tail(heads)))

\* Tables of the query around are added as a predicate needs them.
CrossedWith(p, predicate) ==
  FoldLeft(LAMBDA r, t : CrossProduct(r.heap, r.node, p.outer[t]), Result(p.heap, p.node),
           Arranged(SetToSeq((TablesIn(predicate) \ NodeTables(p.heap, p.node)) \intersect DOMAIN p.outer),
                    p.order.predicates))

ConvertOn(p, crossed, predicate) == At(p, ConvertPredicate(On(p, crossed), crossed.node, predicate))
AddFound(p, found) ==
  IF p.node = 0 \/ found = <<>> THEN p ELSE ConvertOn(p, CrossedWith(p, found[1]), found[1])

\* _add_predicate after the joins.
AddPredicate(p, predicate, phase) == AddFound(p, FilterPhase(predicate, phase))

\* ExpressionCollector looks into subqueries, too.
RECURSIVE CollectedAggregates(_)
CollectedAggregates(e) ==
  IF IsAggregate(e) THEN {e} ELSE UNION {CollectedAggregates(child) : child \in Children(e)}

\* _add_aggregation.
AddAggregation(p, q) ==
  LET functions == UNION {CollectedAggregates(e) : e \in ToSet(q.targets) \union ConditionParts(q.having)}
      arguments == Required({f.parts[1] : f \in functions})
      mapped == MapMissing(p.heap, p.node, arguments \ ProvidedBy(p.heap, p.node))
  IN IF p.node = 0 \/ (functions = {} /\ q.group = <<>>) THEN p
     ELSE At(p, Grouping(mapped.heap, mapped.node, q.group, functions))

\* _add_ordering.
AddOrdering(p, expressions) ==
  LET Sorted(computed) == At(p, Sort(computed.heap, computed.node, expressions))
  IN IF expressions = <<>> THEN p ELSE Sorted(AddExpressions(p, p.node, expressions))

\* _add_final_projection.
AddProjection(p, q) ==
  LET mapped == MapMissing(p.heap, p.node, Required(ToSet(q.targets)) \ ProvidedBy(p.heap, p.node))
  IN IF p.node = 0 \/ IsStar(q) THEN p ELSE At(p, Projection(mapped.heap, mapped.node, q.targets))

Combine(kind, heap, left, right) ==
  CASE kind = "unionall" -> UnionOf(heap, left, right)
    [] kind = "union" -> LET u == UnionOf(heap, left, right) IN DuplicateElimination(u.heap, u.node)
    [] kind = "intersect" -> Intersection(heap, left, right)
    [] kind = "except" -> Difference(heap, left, right)

\* _add_subquery, for the subqueries in the expressions of a query: their columns are merged in.
\* All tables of the query have been added by then, so that it concerns what is parsed next.
MergeSubqueries(p, known) ==
  LET nested == {QueryFor(p.heap[n].label) : n \in {n \in DOMAIN p.heap \ known : p.heap[n].type = "SubqueryScan"}}
      tables == UNION {BoundTables(q) : q \in nested}
  IN IF nested = {} THEN p
     ELSE [p EXCEPT !.merged = TRUE,
                    !.required = ColumnsByTable(p, UNION {QueryColumns(q) : q \in nested}) @@ [t \in tables |-> {}]]

\* _parse_set_query: one parser for the queries of the WITH clause and both sides, which keeps
\* its fragments.
GenerateSetQuery(p, q) ==
  LET Go(r, name) == Generate(UpdateQuery(r, Subqueries[name]), Subqueries[name])
      BothSides(left, right) ==
        At(p, IF 0 \in {left.node, right.node} THEN Failed(right.heap)
              ELSE Combine(q.kind, right.heap, left.node, right.node))
      WithLeft(left) == BothSides(left, Go(left, q.rhs))
      named == FoldLeft(LAMBDA r, w : Go(r, w.subquery), NewParser(p.heap, <<>>, p.order), q.ctes)
  IN AddOrdering(WithLeft(Go(named, q.lhs)), q.order)

AddSources(p, q) == FoldLeft(AddTableSource, FoldLeft(AddCte, p, q.ctes), q.from)
JoinSources(p, q) == CrossJoined(AddJoins(AddFilters(AddSources(p, q), q), q))
AddGroups(p, q) == AddPredicate(AddAggregation(p, q), q.having, PostAggregation)

\* The clauses of a query, in the order in which they are evaluated.
Generate(p, q) ==
  IF IsSetQuery(q) THEN GenerateSetQuery(p, q)
  ELSE MergeSubqueries(
         AddProjection(AddOrdering(AddGroups(AddPredicate(JoinSources(p, q), q.where, PostJoin), q), q.order), q),
         DOMAIN p.heap)

GenerateRelnode(q, order) == Generate(UpdateQuery(NewParser(<<>>, <<>>, order), q), q)
===============================================================================
