-------------------------------- MODULE MCAlgebra --------------------------------
(***************************************************************************)
(* Queries over three tables for AlgebraSession: filters, joins, every     *)
(* form of subquery in every place of a condition, groups, orders, set     *)
(* queries, and queries in FROM and WITH.                                  *)
(***************************************************************************)
EXTENDS AlgebraSession

ax == ColumnOf("a", "x")
ay == ColumnOf("a", "y")
bx == ColumnOf("b", "x")
by == ColumnOf("b", "y")
cx == ColumnOf("c", "x")
cy == ColumnOf("c", "y")
vx == ColumnOf("v", "x")

Or(p, q) == Node("or", Blank, << p, q >>)
And(p, q) == Node("and", Blank, << p, q >>)
Not(p) == Node("not", Blank, << p >>)

A == DirectTableSource("a")
B == DirectTableSource("b")
C == DirectTableSource("c")
MaxOf(c) == Aggregate("MAX", c)
CountStar == Aggregate("COUNT", Star)
Less(c, v) == Binary("<", c, Static(v))

MCSchema == [a |-> << "x", "y" >>, b |-> << "x", "y" >>, c |-> << "x", "y" >>]

MCSubqueries ==
  LET OfC(targets) == SelectFrom(targets, << C >>)
      OfCWhere(targets, p) == Where(OfC(targets), p)
  IN [all |-> SelectStar(<< C >>),
      partners |-> Where(SelectStar(<< C >>), Binary("=", cx, ax)),
      joint |-> Where(SelectStar(<< C >>), And(Binary("=", cx, ax), Binary("=", cy, by))),
      values |-> OfC(<< cx >>),
      others |-> OfCWhere(<< cx >>, Binary("<", cy, ay)),
      top |-> OfC(<< MaxOf(cx) >>),
      topOthers |-> OfCWhere(<< MaxOf(cx) >>, Binary("=", cy, ay)),
      topOfB |-> OfCWhere(<< MaxOf(cx) >>, Binary("=", cy, by)),
      left |-> SelectFrom(<< ax >>, << A >>),
      leftSmall |-> Where(SelectFrom(<< ay >>, << A >>), Less(ax, 1)),
      leftNested |-> Where(SelectFrom(<< ax >>, << A >>), Exists("all")),
      both |-> Where(SelectFrom(<< bx >>, << A, B >>), Binary("<", ay, by)),
      right |-> Where(SelectFrom(<< bx >>, << B >>), Less(by, 1)),
      small |-> OfCWhere(<< cx >>, Less(cy, 1))]

Plain == {Less(ax, 1), Binary("=", ay, Plus(ax, Static(1))), Unary("IS NULL", ay), In("IN", ax, << Static(0), ay >>),
          Or(Less(ax, 1), Less(ay, 1)), Not(Less(ax, 1))}

JoinsAB == {Binary("=", ax, bx), Binary("<", Plus(ax, ay), bx), Binary("=", Plus(ax, bx), Static(1)),
            Or(Less(ax, 1), Less(by, 1))}

Nested ==
  {Exists("all"), Exists("partners"),
   In("IN", ax, << SubqueryOf("values") >>), In("IN", ax, << SubqueryOf("others") >>),
   In("NOT IN", ax, << SubqueryOf("values") >>),
   In("IN", ax, << Static(1), SubqueryOf("top") >>),
   Binary("<", ax, SubqueryOf("top")), Binary("=", ax, SubqueryOf("topOthers")),
   Between(ax, SubqueryOf("topOthers"), Static(1))}

Single == Plain \union Nested
ConditionsA ==
  Single \union {Not(p) : p \in Nested}
  \union {And(p, q) : p \in Single, q \in Nested} \union {Or(p, q) : p \in Single, q \in Nested}

ConditionsAB ==
  JoinsAB \union {AndOf({p, q}) : p \in JoinsAB, q \in JoinsAB \union Single \union {Exists("joint"), Binary("=", ax, SubqueryOf("topOfB"))}}

JoinsABC == {Binary("=", ax, bx), Binary("=", bx, cx), Binary("<", ay, cy), Less(cx, 1), Or(Less(ax, 1), Less(cy, 1))}

MCQueries ==
  {SelectStar(<< A >>), SelectStar(<< A, B >>)}
  \union {Where(SelectFrom(<< ax, by, cy >>, << A, B, C >>), AndOf(ps)) : ps \in kSubset(2, JoinsABC) \union kSubset(3, JoinsABC)}
  \union {Where(SelectStar(<< A >>), p) : p \in ConditionsA}
  \union {Where(SelectFrom(<< ax, by >>, << A, B >>), p) : p \in ConditionsAB}
  \union {GroupBy(SelectFrom(<< ax, CountStar >>, << A, B >>), << ax >>),
          Having(GroupBy(Where(SelectFrom(<< ax, MaxOf(by) >>, << A, B >>), Binary("=", ax, bx)), << ax >>), Less(CountStar, 2)),
          Having(GroupBy(SelectFrom(<< ax >>, << A >>), << ax >>), Less(MaxOf(ay), 1)),
          Having(GroupBy(SelectFrom(<< ax >>, << A, B >>), << ax >>), Binary("<", MaxOf(ay), MaxOf(by))),
          OrderBy(SelectFrom(<< ax >>, << A >>), << ay >>),
          OrderBy(SelectFrom(<< ax >>, << A >>), << Plus(ax, ay) >>),
          SelectFrom(<< ax, Plus(ax, by) >>, << A, B >>),
          SelectFrom(<< SubqueryOf("top") >>, << A >>),
          SelectStar(<< JoinTableSource("JOIN", A, B, Binary("=", ax, bx)) >>),
          Where(SelectStar(<< A, SubqueryTableSource("v", "small") >>), Binary("=", ax, vx)),
          With(Where(SelectStar(<< A, CteSource("v") >>), Binary("=", ax, vx)), << WithQuery("v", "small") >>),
          With(SelectStar(<< A >>), << WithQuery("v", "small") >>)}
  \union {SetQuery(op, lhs, rhs) : op \in {"union", "unionall", "intersect", "except"},
                                   lhs \in {"left", "leftSmall", "leftNested"}, rhs \in {"right", "left", "both"}}

\* Rows of a, of b and of c.
Row(t, v, w) == [c \in {ColumnOf(t, "x"), ColumnOf(t, "y")} |-> IF c.name = "x" THEN v ELSE w]
MCDatabases ==
  {[a |-> {Row("a", 0, 1), Row("a", 1, 0), Row("a", 1, Null)},
    b |-> {Row("b", 0, 0), Row("b", 1, 1)},
    c |-> {Row("c", 0, 1), Row("c", 1, 0)}],
   [a |-> {Row("a", 0, 0), Row("a", 1, 1)},
    b |-> {Row("b", 1, 0), Row("b", 2, 1)},
    c |-> {Row("c", 1, 1), Row("c", Null, 0)}],
   [a |-> {Row("a", 0, 1), Row("a", 2, 1)}, b |-> {Row("b", 0, 1)}, c |-> {}],
   [a |-> {}, b |-> {Row("b", 0, 0), Row("b", 2, 1)}, c |-> {Row("c", 0, 0), Row("c", 1, 1)}]}

MCNewPredicates == {Less(ax, 0)}

\* Some trees are changed twice; those that differ from another only in a plain filter are not.
ChangedTwice ==
  {Where(SelectStar(<< A >>), Or(Less(ax, 1), Exists("partners"))),
   Where(SelectStar(<< A >>), Or(Less(ax, 1), Binary("=", ax, SubqueryOf("topOthers")))),
   SetQuery("union", "left", "right")}
Unchanging ==
  UNION {{Where(SelectStar(<< A >>), And(p, q)), Where(SelectStar(<< A >>), Or(p, q))} :
           p \in Plain \ {Less(ax, 1)}, q \in Nested}
MCMaxChanges == [q \in MCQueries |-> IF q \in Unchanging THEN 0 ELSE IF q \in ChangedTwice THEN 2 ELSE 1]
===============================================================================
