-------------------------------- MODULE Rewrites --------------------------------
(***************************************************************************)
(* Rewriting of WHERE conditions (transform.py, qal/_qal.py): flattening,  *)
(* BETWEEN for pairs of bounds, the joins implied by equivalence classes,  *)
(* and the simplified views of filters and joins.                          *)
(***************************************************************************)
EXTENDS Predicates

\* flatten_and_predicate
Flatten(p) == IF p.kind = "and" THEN AndOf(Conjuncts(p)) ELSE p

-------------------------------------------------------------------------------
(* infer_between_predicates *)

\* What a predicate bounds, if it compares a bare column with <= or >=.
BoundsOf(p) ==
  IF p.kind = "binary" /\ p.operator \in {"<=", ">="} /\ Cardinality(ColumnsOf(p)) = 1
  THEN {[column |-> p.parts[i], upper |-> (i = 1) = (p.operator = "<="), value |-> p.parts[3 - i]] :
          i \in {j \in 1 .. 2 : p.parts[j].kind = "column" /\ (j = 2 => p.parts[1].kind # "column")}}
  ELSE {}

Bounded(bound) == Binary(IF bound.upper THEN "<=" ELSE ">=", bound.column, bound.value)

\* Variant: a second bound on the same side replaces the first.
BetweenBoundsUnblocked(children) ==
  LET bounds == UNION {BoundsOf(p) : p \in ToSet(children)}
      Of(c, upper) == CHOOSE b \in bounds : b.column = c /\ b.upper = upper
      both == {b.column : b \in {u \in bounds : u.upper}} \intersect
              {b.column : b \in {u \in bounds : ~u.upper}}
  IN Compound("and", SelectSeq(children, LAMBDA p : BoundsOf(p) = {}) \o
       SetToSeq({Between(c, Of(c, FALSE).value, Of(c, TRUE).value) : c \in both} \union
                {Bounded(b) : b \in {u \in bounds : u.column \notin both}}))

\* visit_and_predicate: the first bound of a column on either side is a candidate, a second
\* one on the same side blocks the column.
BetweenBounds(children) ==
  LET BoundAt(i) == CHOOSE b \in BoundsOf(children[i]) : TRUE
      bounds == {i \in DOMAIN children : BoundsOf(children[i]) # {}}
      Repeats(j, i) == /\ j < i /\ BoundAt(j).column = BoundAt(i).column
                       /\ BoundAt(j).upper = BoundAt(i).upper
      first == {i \in bounds : \A j \in bounds : ~Repeats(j, i)}
      candidates == {BoundAt(i) : i \in first}
      blocked == {BoundAt(i).column : i \in bounds \ first}
      pairs == {pair \in {c \in candidates : ~c.upper} \X {c \in candidates : c.upper} :
                  pair[1].column = pair[2].column /\ pair[1].column \notin blocked}
      rest == FlattenSeq([i \in DOMAIN children |-> IF i \in first THEN <<>> ELSE << children[i] >>])
  IN Compound("and", rest \o SetToSeq(
       {Between(pair[1].column, pair[1].value, pair[2].value) : pair \in pairs} \union
       {Bounded(b) : b \in {c \in candidates : \A pair \in pairs : c \notin ToSet(pair)}}))

BetweenFrom(p, parts) ==
  CASE p.kind = "and" -> BetweenBounds(p.parts)
    [] p.kind \in {"or", "not"} -> Compound(p.kind, parts)
    [] OTHER -> p

WithBetween(predicate) ==
  LET rewritten[p \in Nodes] == BetweenFrom(p, OverParts(rewritten, p))
  IN rewritten[predicate]

InferBetween(root) == WithBetween(Flatten(root))

-------------------------------------------------------------------------------
(* Simplified views. *)

Unwrapped(expression) ==
  LET unwrapped[e \in Nodes] == IF e.kind = "cast" THEN OverParts(unwrapped, e)[1] ELSE e
  IN unwrapped[expression]

Unwraps(e) == Unwrapped(e).kind \in {"column", "value"}

\* SimpleJoin.can_wrap
IsSimpleJoin(p) ==
  /\ p.kind = "binary" /\ IsJoin(p) /\ p.operator = "="
  /\ \A side \in ToSet(p.parts) : Unwrapped(side).kind = "column"

Reversed ==
  [operator \in {"=", "<>", "<", ">", "<=", ">="} |->
     CASE operator = "<" -> ">" [] operator = ">" -> "<"
       [] operator = "<=" -> ">=" [] operator = ">=" -> "<="
       [] OTHER -> operator]

\* SimpleFilter.can_wrap.  (It fails an assertion if BETWEEN or IN has a value on its left,
\* which is left out.)
IsSimpleFilter(p) ==
  /\ ~IsJoin(p) /\ p.kind \in {"binary", "between", "in", "unary"}
  /\ Cardinality(ColumnsOf(p)) = 1
  /\ \A operand \in ToSet(p.parts) : Unwraps(operand)
  /\ p.kind # "binary" => Unwrapped(p.parts[1]).kind = "column"

\* Variant: the operator is not reversed with its operands.
SimpleFilterUnreversed(p) ==
  LET operands == [i \in DOMAIN p.parts |-> Unwrapped(p.parts[i])]
  IN IF p.kind = "binary" /\ operands[2].kind = "column"
     THEN Binary(p.operator, operands[2], operands[1])
     ELSE [p EXCEPT !.parts = operands, !.operator = IF p.kind = "in" THEN "IN" ELSE @]

\* The column, operator and value of a SimpleFilter, written as a predicate.
SimpleFilter(p) ==
  LET operands == [i \in DOMAIN p.parts |-> Unwrapped(p.parts[i])]
  IN IF p.kind = "binary" /\ operands[2].kind = "column"
     THEN Binary(Reversed[p.operator], operands[2], operands[1])
     ELSE [p EXCEPT !.parts = operands, !.operator = IF p.kind = "in" THEN "IN" ELSE @]

-------------------------------------------------------------------------------
(* add_ec_predicates *)

JoinsOf(root) == {p \in Conjuncts(root) : IsJoin(p)}
FiltersOf(root) == {p \in Conjuncts(root) : ~IsJoin(p)}

\* The joins that determine_join_equivalence_classes takes for equalities of two columns.
ColumnEqualities(joins) ==
  {p \in joins : p.kind = "binary" /\ p.operator = "=" /\ Cardinality(ColumnsOf(p)) = 2}

\* Variant: the columns of one equality.
EqualityOnly(edges, columns) == columns

\* The connected component these columns belong to: those in each set that no edge leaves.
EquivalenceClass(edges, columns) ==
  LET closed == {S \in SUBSET UNION edges :
                   columns \subseteq S /\ \A e \in edges : e \intersect S # {} => e \subseteq S}
  IN {c \in UNION edges : \A S \in closed : c \in S}

EquivalenceClasses(joins) ==
  LET edges == {ColumnsOf(p) : p \in ColumnEqualities(joins)}
  IN {EquivalenceClass(edges, e) : e \in edges}

\* generate_predicates_for_equivalence_classes: one equality for each pair of columns.
ClassPredicates(classes) ==
  LET pairs == UNION {kSubset(2, class) : class \in classes}
  IN {Binary("=", SetToSeq(pair)[1], SetToSeq(pair)[2]) : pair \in pairs}

\* add_ec_predicates, for conditions whose joins are all binary predicates.
AddEc(root) ==
  AndOf(ClassPredicates(EquivalenceClasses(JoinsOf(root)))
        \union {p \in JoinsOf(root) : ~IsSimpleJoin(p)}
        \union FiltersOf(root))

JoinsAreBinary(root) == \A p \in JoinsOf(root) : p.kind = "binary"

\* The part of normalize_query that concerns the WHERE condition.
NormalForm(root) == Flatten(AddEc(InferBetween(root)))
===============================================================================
