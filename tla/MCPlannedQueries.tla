----------------------------- MODULE MCPlannedQueries -----------------------------
(***************************************************************************)
(* Conditions over three tables for PlannedQueries: simple joins and       *)
(* filters, and those the code finds hard (computed and cast joins, joins  *)
(* of three tables, bounds on both sides, repeated bounds, negations,      *)
(* disjunctions across tables).                                            *)
(***************************************************************************)
EXTENDS PlannedQueries

ax == ColumnOf("a", "x")
ay == ColumnOf("a", "y")
bx == ColumnOf("b", "x")
cx == ColumnOf("c", "x")
MCColumns == {ax, ay, bx, cx}
MCValues == {0, 1, Null}

Or(p, q) == Node("or", Blank, << p, q >>)
And(p, q) == Node("and", Blank, << p, q >>)
Not(p) == Node("not", Blank, << p >>)

Equalities == {Binary("=", ax, bx), Binary("=", bx, cx), Binary("=", ay, bx), Binary("=", cx, ay)}

OtherJoins ==
  {Binary("<", ax, bx),
   Binary("=", ax, Cast(cx)),
   Binary("=", ax, Plus(bx, Static(1))),
   Binary("=", ax, Plus(bx, cx)),
   Between(ax, bx, cx),
   Or(Binary("=", ax, bx), Binary("=", ay, bx)),
   Or(Binary("=", ax, cx), Binary("=", bx, Static(1))),
   Not(Binary("=", bx, cx))}

Bounds ==
  {Binary("<=", ax, Static(1)), Binary(">=", Static(0), ax), Binary(">=", ax, Static(0)),
   Binary("<=", Static(1), ax), Binary("<", Static(0), bx)}

OtherFilters ==
  {In("IN", cx, << Static(0), Static(1) >>),
   In("NOT IN", bx, << Static(1) >>),
   Unary("IS NULL", cx),
   Between(Static(1), ax, bx),
   Or(Binary("=", bx, Static(0)), Binary("=", cx, Static(1))),
   Not(And(Binary("<=", bx, Static(1)), Binary(">=", bx, Static(0))))}

Pool == Equalities \union OtherJoins \union Bounds \union OtherFilters

\* All conditions of one or two predicates, all of equalities only, bounds only, and two
\* predicates below an equality.
Conditions ==
  {AndOf(ps) : ps \in kSubset(1, Pool) \union kSubset(2, Pool)
                      \union ((SUBSET Equalities \union SUBSET Bounds) \ {{}})}
  \union {And(Binary("=", ax, bx), AndOf(ps)) : ps \in kSubset(2, Equalities \union OtherJoins)}

MCQueries == {QueryOf(r) : r \in Conditions}
===============================================================================
