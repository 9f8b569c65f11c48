-------------------------------- MODULE MCRewrites --------------------------------
(***************************************************************************)
(* Queries over three tables for RewriteSession: implicit and explicit     *)
(* joins of every type, nested ones included, predicates of every kind,    *)
(* groups and orders, and queries in FROM and WITH.  Two tables share the  *)
(* name of a column.                                                       *)
(***************************************************************************)
EXTENDS RewriteSession

MCSchema == [a |-> << "x", "y" >>, b |-> << "y", "z" >>, c |-> << "w", "u" >>]

ax == ColumnOf("a", "x")
ay == ColumnOf("a", "y")
by == ColumnOf("b", "y")
bz == ColumnOf("b", "z")
cw == ColumnOf("c", "w")
cu == ColumnOf("c", "u")
vy == ColumnOf("v", "y")
vz == ColumnOf("v", "z")

A == DirectTableSource("a")
B == DirectTableSource("b")
C == DirectTableSource("c")
V(name) == SubqueryTableSource("v", name)

Or(p, q) == Node("or", Blank, << p, q >>)
And(p, q) == Node("and", Blank, << p, q >>)
Not(p) == Node("not", Blank, << p >>)
Equal(c, d) == Binary("=", c, d)
Less(c, v) == Binary("<", c, Static(v))

MCSubqueries ==
  [all |-> SelectStar(<< B >>),
   columns |-> SelectFrom(<< by, bz >>, << B >>),
   keys |-> SelectFrom(<< ay >>, << A >>),
   small |-> Where(SelectFrom(<< by >>, << B >>), Less(bz, 1)),
   joined |-> SelectFrom(<< by, ax >>, << JoinTableSource("JOIN", A, B, Equal(ay, by)) >>),
   implicit |-> Where(SelectFrom(<< by, ax >>, << A, B >>), Equal(ay, by))]

FiltersAB == {Less(ax, 1), Unary("IS NULL", bz), In("IN", bz, << Static(0), Static(2) >>),
              In("NOT IN", ax, << Static(0), Static(2) >>), Or(Less(ax, 1), Less(ay, 1)),
              Not(Less(ax, 1)), Binary(">=", bz, Static(1)), Binary("<=", bz, Static(1))}
JoinsAB == {Equal(ay, by), Binary("<", ax, bz), Or(Less(ax, 1), Less(bz, 1)), Not(Equal(ay, by)),
            Or(Equal(ay, by), Less(ax, 1)), Between(ay, by, bz)}
JoinsABC == {Equal(ay, by), Equal(by, cw), Binary("<", ax, cu), Between(ax, by, cw), Or(Less(ax, 1), Less(cu, 1))}
FiltersABC == {Less(ax, 1), Less(cu, 2)}

Implicit ==
  {SelectStar(<< A >>), SelectStar(<< A, B >>), Where(SelectFrom(<< ax >>, << A >>), Less(ax, 1))}
  \union {Where(SelectFrom(<< ax, bz >>, << A, B >>), AndOf(ps)) :
            ps \in {{j, p} : j \in JoinsAB, p \in FiltersAB \union JoinsAB}}
  \union {Where(SelectStar(<< A, B >>), AndOf({j} \union ps)) : j \in JoinsAB, ps \in kSubset(2, FiltersAB)}
  \union {Where(SelectFrom(<< ax, bz, cu >>, << A, B, C >>), AndOf(js \union {p})) :
            js \in kSubset(2, JoinsABC) \union kSubset(3, JoinsABC), p \in FiltersABC}

Grouped3 ==
  {GroupBy(Where(SelectFrom(<< ay, Aggregate("COUNT", Star) >>, << A, B >>), Equal(ay, by)), << ay >>),
   Having(GroupBy(SelectFrom(<< ay, Aggregate("MAX", ax) >>, << JoinTableSource("JOIN", A, B, Equal(ay, by)) >>), << ay >>),
          Binary("<", Aggregate("MAX", bz), Static(2))),
   OrderBy(Where(SelectFrom(<< ax, cu >>, << A, C >>), Binary("<", ax, cu)), << cu >>)}

Types == {"JOIN", "LEFT JOIN", "RIGHT JOIN", "OUTER JOIN"}
JoinsOfAB ==
  {JoinTableSource(type, A, B, p) : type \in Types, p \in {Equal(ay, by), And(Equal(ay, by), Less(ax, 1))}}
  \union {JoinTableSource(type, A, B, Null) : type \in AutoJoins}

Explicit ==
  {SelectStar(<< j >>) : j \in JoinsOfAB}
  \union {Where(SelectStar(<< j >>), p) : j \in JoinsOfAB, p \in {Less(ax, 1), Or(Less(ax, 1), Less(bz, 1))}}
  \union {SelectStar(<< j, C >>) : j \in JoinsOfAB}
  \union {SelectFrom(<< ax, bz, cu >>, << JoinTableSource(type, j, C, Equal(by, cw)) >>) : type \in Types, j \in JoinsOfAB}
  \union {SelectStar(<< JoinTableSource("NATURAL LEFT JOIN", j, C, Null) >>) : j \in {JoinTableSource("JOIN", A, B, Equal(ay, by))}}
  \union {SelectStar(<< JoinTableSource(type, A, V(name), Null) >>) : type \in NaturalJoins, name \in {"all", "columns"}}
  \union {SelectFrom(<< ax, vy, vz >>, << JoinTableSource(type, A, V("all"), Null) >>) : type \in NaturalJoins}
  \union {SelectFrom(<< ax, bz, vy >>, << JoinTableSource(type, j, V("keys"), Null) >>) :
            type \in NaturalJoins, j \in {JoinTableSource(below, A, B, Null) : below \in NaturalJoins}}

NestedQueries ==
  {Where(SelectStar(<< A, V(name) >>), p) : name \in DOMAIN MCSubqueries \ {"all"}, p \in {Null, Equal(ay, vy)}}
  \union {SelectStar(<< A, V("all") >>), Where(SelectFrom(<< ax, vy >>, << V("all"), A >>), Equal(ay, vy))}
  \union {With(Where(SelectStar(<< A, CteSource("v") >>), p), << WithQuery("v", name) >>) :
            p \in {Null, Equal(ay, vy)}, name \in {"small", "joined"}}
  \union {With(SelectFrom(<< ax, vz >>, << JoinTableSource("NATURAL JOIN", A, CteSource("v"), Null) >>), << WithQuery("v", "all") >>)}

MCQueries == Implicit \union Grouped3 \union Explicit \union NestedQueries

\* Rows of a, of b and of c.
Row(t, v, w) == [c \in {ColumnOf(t, MCSchema[t][1]), ColumnOf(t, MCSchema[t][2])} |->
                   IF c.name = MCSchema[t][1] THEN v ELSE w]
MCDatabases ==
  {[a |-> {Row("a", 0, 1), Row("a", 1, 0), Row("a", 1, Null)},
    b |-> {Row("b", 0, 0), Row("b", 1, 1)},
    c |-> {Row("c", 0, 1), Row("c", 1, 2)}],
   [a |-> {Row("a", 0, 0), Row("a", 2, 1)},
    b |-> {Row("b", 1, 2), Row("b", Null, 0)},
    c |-> {Row("c", 1, 1)}],
   [a |-> {Row("a", 0, 1), Row("a", 2, 1)}, b |-> {Row("b", 1, 1)}, c |-> {}]}

MCReplacements ==
  {<< Less(ax, 1), Binary(">", Static(1), ax) >>, << Equal(ay, by), Between(ay, by, by) >>}

MCRenamings ==
  {[a |-> "d"], [a |-> "b", b |-> "a"], [a |-> "d", b |-> "d"], [b |-> "d", c |-> "e"], [b |-> "d", c |-> "d"]}
===============================================================================
