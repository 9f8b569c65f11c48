------------------------------- MODULE Predicates -------------------------------
(***************************************************************************)
(* Predicates and expressions of the query abstraction layer               *)
(* (qal/_qal.py): what they mean, which are joins, what they join.         *)
(*                                                                         *)
(* A node of the hierarchy has a kind, an operator, and parts: the child   *)
(* expressions or predicates, in the order in which the code keeps them.   *)
(* Subqueries, functions and bare boolean columns are left out.            *)
(***************************************************************************)
EXTENDS Integers, Sequences, SequencesExt

CONSTANTS
  Null,
  Depth   \* how deep predicates and expressions may be nested

ASSUME NullAssumption == Null \notin Int
ASSUME DepthAssumption == Depth \in Nat \ {0, 1}

Blank == ""

Node(kind, operator, parts) ==
  [kind |-> kind, operator |-> operator, parts |-> parts, table |-> Blank, name |-> Blank, value |-> Null]

ColumnOf(t, n) == [Node("column", Blank, <<>>) EXCEPT !.table = t, !.name = n]
Static(v) == [Node("value", Blank, <<>>) EXCEPT !.value = v]
Cast(e) == Node("cast", Blank, <<e>>)
Plus(e, f) == Node("math", "+", <<e, f>>)

Binary(operator, lhs, rhs) == Node("binary", operator, <<lhs, rhs>>)
Between(column, lower, upper) == Node("between", "BETWEEN", <<column, lower, upper>>)
In(operator, column, values) == Node("in", operator, <<column>> \o values)
Unary(operator, expression) == Node("unary", operator, <<expression>>)

Compounds == {"and", "or", "not"}

\* Variant: the negation of a single remaining part is lost.
CompoundWithoutNot(kind, children) ==
  IF Len(children) = 1 THEN children[1] ELSE Node(kind, Blank, children)

\* CompoundPredicate.create: AND and OR of a single part are that part.
Compound(kind, children) ==
  IF Len(children) = 1 /\ kind # "not" THEN children[1] ELSE Node(kind, Blank, children)

\* create_and of a set, in whatever order it is iterated over.
AndOf(predicates) == Compound("and", SetToSeq(predicates))

ExpressionKinds == {"column", "value", "cast", "math"}
PredicateKinds == {"binary", "between", "in", "unary"} \union Compounds

OperatorsOf(kind) ==
  CASE kind = "math" -> {"+"}
    [] kind = "binary" -> {"=", "<>", "<", ">", "<=", ">="}
    [] kind = "between" -> {"BETWEEN"}
    [] kind = "in" -> {"IN", "NOT IN"}
    [] kind = "unary" -> {"IS NULL", "IS NOT NULL"}
    [] OTHER -> {Blank}

Kinds == ExpressionKinds \union PredicateKinds

\* Strings, with those named that nodes are made of here.
NodeNames == STRING \union Kinds \union {Blank} \union UNION {OperatorsOf(kind) : kind \in Kinds}

NodesOver(parts) ==
  [kind : NodeNames, operator : NodeNames, parts : parts, table : NodeNames, name : NodeNames,
   value : Int \union {Null}]

\* The nodes whose hierarchy has a certain height.
NodesUpTo[height \in 0 .. Depth] ==
  NodesOver(IF height = 0 THEN {<<>>} ELSE Seq(NodesUpTo[height - 1]))

Nodes == NodesUpTo[Depth]

\* What a function on nodes says of the parts of a node.
OverParts(f, n) == [i \in DOMAIN n.parts |-> f[n.parts[i]]]

\* What the constructors accept: CompoundPredicate.__init__ counts the parts of AND, OR and NOT.
Constructed(n) ==
  \/ n = ColumnOf(n.table, n.name)
  \/ n = Static(n.value)
  \/ /\ n = Node(n.kind, n.operator, n.parts) /\ n.operator \in OperatorsOf(n.kind)
     /\ \/ n.kind \in {"cast", "unary", "not"} /\ Len(n.parts) = 1
        \/ n.kind \in {"math", "binary"} /\ Len(n.parts) = 2
        \/ n.kind = "between" /\ Len(n.parts) = 3
        \/ n.kind \in {"in", "and", "or"} /\ Len(n.parts) >= 2
     /\ \A part \in ToSet(n.parts) :
          part.kind \in IF n.kind \in Compounds THEN PredicateKinds ELSE ExpressionKinds

\* All nodes of a hierarchy.
Hierarchy(node) ==
  LET hierarchy[n \in Nodes] == {n} \union UNION ToSet(OverParts(hierarchy, n))
  IN hierarchy[node]

ColumnsOf(node) ==
  LET columns[n \in Nodes] == IF n.kind = "column" THEN {n} ELSE UNION ToSet(OverParts(columns, n))
  IN columns[node]

TablesOf(n) == {c.table : c \in ColumnsOf(n)}

-------------------------------------------------------------------------------
(* The meaning of a predicate in SQL's three-valued logic. *)

False == 0
Unknown == 1
True == 2

\* A row gives each column a value.  The cast stands for one that loses information, such
\* as one to integers.
Computed(e, row, operands) ==
  CASE e.kind = "column" -> row[e]
    [] e.kind = "value" -> e.value
    [] OTHER -> IF Null \in {operands[1], operands[Len(operands)]} THEN Null
                ELSE IF e.kind = "cast" THEN 2 * (operands[1] \div 2)
                ELSE operands[1] + operands[Len(operands)]

Evaluate(expression, row) ==
  LET value[e \in Nodes] == Computed(e, row, OverParts(value, e))
  IN value[expression]

Compare(operator, v, w) ==
  IF Null \in {v, w} THEN Unknown
  ELSE IF \/ v < w /\ operator \in {"<", "<=", "<>"}
          \/ v = w /\ operator \in {"=", "<=", ">="}
          \/ v > w /\ operator \in {">", ">=", "<>"}
       THEN True ELSE False

Negation(truth) == True - truth

\* A predicate that is no compound one, whose operands have these values.
BaseTruth(p, operands) ==
  CASE p.kind = "binary" -> Compare(p.operator, operands[1], operands[2])
    [] p.kind = "between" -> Min({Compare(">=", operands[1], operands[2]), Compare("<=", operands[1], operands[3])})
    [] p.kind = "in" -> LET found == Max({Compare("=", operands[1], operands[i]) : i \in 2 .. Len(operands)})
                        IN IF p.operator = "IN" THEN found ELSE Negation(found)
    [] p.kind = "unary" -> IF (operands[1] = Null) = (p.operator = "IS NULL") THEN True ELSE False

TruthFrom(p, row, children) ==
  CASE p.kind = "and" -> Min(ToSet(children))
    [] p.kind = "or" -> Max(ToSet(children))
    [] p.kind = "not" -> Negation(children[1])
    [] OTHER -> BaseTruth(p, [i \in DOMAIN p.parts |-> Evaluate(p.parts[i], row)])

Truth(predicate, row) ==
  LET truth[p \in Nodes] == TruthFrom(p, row, OverParts(truth, p))
  IN truth[predicate]

\* WHERE keeps the rows for which its condition is true.
Keeps(p, row) == Truth(p, row) = True

-------------------------------------------------------------------------------
(* Joins and filters. *)

\* is_join of a base predicate.
IsBaseJoin(p) ==
  \/ /\ p.kind = "binary"
     /\ \/ \E side \in ToSet(p.parts) : Cardinality(TablesOf(side)) > 1
        \/ /\ \A side \in ToSet(p.parts) : TablesOf(side) # {}
           /\ TablesOf(p.parts[1]) # TablesOf(p.parts[2])
  \/ /\ p.kind \in {"between", "in", "unary"}
     /\ \E operand \in ToSet(p.parts) : Cardinality(TablesOf(p.parts[1]) \union TablesOf(operand)) > 1

\* iter_base_predicates
BasePredicates(predicate) ==
  LET base[p \in Nodes] ==
        IF p.kind \in Compounds THEN UNION ToSet(OverParts(base, p)) ELSE {p}
  IN base[predicate]

IsJoin(p) == \E base \in BasePredicates(p) : IsBaseJoin(base)

JoinPairsOf(columns, others) == {{c.table, d.table} : c \in columns, d \in others} \ {{c.table} : c \in columns}

\* join_partners, by their tables; those of a compound predicate are those of its base predicates.
BasePartners(p) == JoinPairsOf(IF p.kind = "binary" THEN ColumnsOf(p) ELSE ColumnsOf(p.parts[1]), ColumnsOf(p))

JoinPartners(p) == UNION {BasePartners(base) : base \in BasePredicates(p)}

\* join_partners of a base predicate asserts that it is a join, also below a compound one.
RaisesNoJoin(p) == \E base \in BasePredicates(p) : base.kind # "unary" /\ ~IsBaseJoin(base)

\* The predicates a hierarchy is a conjunction of, as they are collected into filters and joins.
Conjuncts(predicate) ==
  LET conjuncts[p \in Nodes] ==
        IF p.kind = "and" THEN UNION ToSet(OverParts(conjuncts, p)) ELSE {p}
  IN conjuncts[predicate]

\* A predicate as it is known to the PredicateTree.
Conjunct(p) ==
  [predicate |-> p, tables |-> TablesOf(p), join |-> IsJoin(p),
   partners |-> IF IsJoin(p) THEN JoinPartners(p) ELSE {}, raises |-> IsJoin(p) /\ RaisesNoJoin(p)]

QueryOf(root) == [root |-> root, predicates |-> {Conjunct(p) : p \in Conjuncts(root)}]

\* _get_predicate_fragment: the part of a hierarchy that refers to the given tables only
\* (a sequence of at most one predicate).
FragmentFrom(p, ts, fragments) ==
  LET parts == FlattenSeq(fragments)
  IN IF p.kind \notin Compounds THEN IF TablesOf(p) \subseteq ts THEN << p >> ELSE <<>>
     ELSE IF parts = <<>> THEN <<>> ELSE << Compound(p.kind, parts) >>

Fragment(predicate, ts) ==
  LET fragment[p \in Nodes] == FragmentFrom(p, ts, OverParts(fragment, p))
  IN fragment[predicate]
===============================================================================
