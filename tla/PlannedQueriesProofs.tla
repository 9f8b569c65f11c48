--------------------------- MODULE PlannedQueriesProofs ---------------------------
(***************************************************************************)
(* Proofs about PredicateTree and PlannedQueries, for all sets of tables,  *)
(* columns and values, all conditions of any depth, all rewrites of them   *)
(* and all orders in which the tables are visited.                         *)
(*                                                                         *)
(* Predicates are nodes up to a height; what a recursive function says of  *)
(* a node is proved by induction over the height (NodeInduction).          *)
(***************************************************************************)
EXTENDS PlannedQueries, FiniteSetTheorems, SequenceTheorems, WellFoundedInduction, TLAPS

Adjacent(t, u) == u \in Neighbours(t) \/ t \in Neighbours(u)

\* No part of an intermediate without cross products is cut off from the rest.
Connected(ts) ==
  \A part \in (SUBSET ts) \ {{}, ts} : \E t \in part, u \in ts \ part : Adjacent(t, u)

IntermediatesAreConnected == \A i \in intermediates : ~i.cross => Connected(i.tables)

Inv == TypeOK /\ SimplePredicatesAreApplied /\ IntermediatesAreConnected

-------------------------------------------------------------------------------
(* The join predicates of two tables. *)

\* The only partner of one table of a simple join is the other.
LEMMA SimpleJoinPartner ==
  ASSUME NEW c \in Joins, Simple(c), NEW t \in c.tables
  PROVE  \E u \in Tables : t # u /\ c.tables = {t, u} /\ PartnersOf(c, t) = {u}
<1>1. c.join
  BY DEF Joins
<1>2. PICK v, w \in Tables : v # w /\ c.tables = {v, w} /\ c.partners = {{v, w}}
  BY <1>1 DEF Simple
<1>3. PartnersOf(c, t) = {v, w} \ {t}
  BY <1>2 DEF PartnersOf
<1> QED
  BY <1>2, <1>3

\* What JoinGroup and the map of join predicates contain, by the tables' order.
LEMMA JoinPredicateIsGroup ==
  ASSUME NEW t, NEW u
  PROVE  \/ JoinPredicate(t, u) = JoinGroup(t, {u})
         \/ JoinPredicate(t, u) = JoinGroup(u, {t})
BY DEF JoinPredicate

\* A simple join of two tables is found for them, whichever is visited first.
LEMMA SimpleJoinsAreFound ==
  ASSUME NEW c \in Joins, Simple(c), NEW t, NEW u, t # u, c.tables = {t, u}
  PROVE  c \in JoinPredicate(t, u)
<1>1. PartnersOf(c, t) = {u}
  BY SimpleJoinPartner
<1>2. PartnersOf(c, u) = {t}
  BY SimpleJoinPartner
<1>3. c \in JoinGroup(t, {u}) /\ c \in JoinGroup(u, {t})
  BY <1>1, <1>2 DEF JoinGroup
<1> QED
  BY <1>3 DEF JoinPredicate

\* What is found for two tables refers to both, if it is simple.
LEMMA FoundJoinsAreBetween ==
  ASSUME NEW t, NEW u, NEW c \in JoinPredicate(t, u), Simple(c)
  PROVE  c.tables = {t, u}
<1>1. c \in JoinGroup(t, {u}) \/ c \in JoinGroup(u, {t})
  BY JoinPredicateIsGroup
<1>2. ASSUME NEW x, NEW y, c \in JoinGroup(x, {y})
      PROVE  c.tables = {x, y}
  <2>1. c \in Joins /\ x \in c.tables /\ PartnersOf(c, x) = {y}
    BY <1>2 DEF JoinGroup
  <2>2. PICK z \in Tables : c.tables = {x, z} /\ PartnersOf(c, x) = {z}
    BY <2>1, SimpleJoinPartner
  <2> QED
    BY <2>1, <2>2
<1> QED
  BY <1>1, <1>2

\* Tables with a join predicate are neighbours.
LEMMA FoundJoinsConnect ==
  ASSUME NEW t, NEW u, JoinPredicate(t, u) # {}
  PROVE  Adjacent(t, u)
<1>1. JoinGroup(t, {u}) # {} \/ JoinGroup(u, {t}) # {}
  BY JoinPredicateIsGroup
<1>2. ASSUME NEW x, NEW y, JoinGroup(x, {y}) # {}
      PROVE  y \in Neighbours(x)
  <2>1. PICK c \in Joins : x \in c.tables /\ PartnersOf(c, x) = {y}
    BY <1>2 DEF JoinGroup
  <2> QED
    BY <2>1 DEF Neighbours
<1> QED
  BY <1>1, <1>2 DEF Adjacent

\* Two connected intermediates with a join predicate between them are connected.
LEMMA JoinsConnect ==
  ASSUME NEW ls, NEW rs, Connected(ls), Connected(rs), JoinsBetween(ls, rs) # {}
  PROVE  Connected(ls \union rs)
<1>1. PICK t \in ls, u \in rs : Adjacent(t, u)
  BY FoundJoinsConnect DEF JoinsBetween
<1> SUFFICES ASSUME NEW part \in SUBSET (ls \union rs), part # {}, part # ls \union rs
             PROVE  \E v \in part, w \in (ls \union rs) \ part : Adjacent(v, w)
  BY DEF Connected
<1>2. CASE part \intersect ls \notin {{}, ls}
  <2>1. part \intersect ls \in (SUBSET ls) \ {{}, ls}
    BY <1>2
  <2> QED
    BY <2>1 DEF Connected
<1>3. CASE part \intersect rs \notin {{}, rs}
  <2>1. part \intersect rs \in (SUBSET rs) \ {{}, rs}
    BY <1>3
  <2> QED
    BY <2>1 DEF Connected
<1>4. CASE part \intersect ls \in {{}, ls} /\ part \intersect rs \in {{}, rs}
  <2>1. \/ t \in part /\ u \notin part
        \/ u \in part /\ t \notin part
    BY <1>4
  <2>2. Adjacent(u, t)
    BY <1>1 DEF Adjacent
  <2> QED
    BY <1>1, <2>1, <2>2
<1> QED
  BY <1>2, <1>3, <1>4

-------------------------------------------------------------------------------
(* The invariant. *)

\* Joins are conditioned on predicates of the query.
LEMMA JoinsBetweenArePredicates ==
  ASSUME NEW ls, NEW rs
  PROVE  JoinsBetween(ls, rs) \subseteq query.predicates
BY JoinPredicateIsGroup DEF JoinsBetween, JoinGroup, Joins

\* What a join adds: the simple joins that have a table on either side.
LEMMA JoinsBetweenExact ==
  ASSUME NEW ls, NEW rs, ls \intersect rs = {}, NEW c \in query.predicates, Simple(c),
         c.join \in BOOLEAN
  PROVE  c \in JoinsBetween(ls, rs) <=>
           c.join /\ \E t \in ls, u \in rs : c.tables = {t, u}
<1>1. ASSUME c \in JoinsBetween(ls, rs)
      PROVE  c.join /\ \E t \in ls, u \in rs : c.tables = {t, u}
  <2>1. PICK t \in ls, u \in rs : c \in JoinPredicate(t, u)
    BY <1>1 DEF JoinsBetween
  <2>2. c.tables = {t, u}
    BY <2>1, FoundJoinsAreBetween
  <2>3. c.join
    BY <2>1, JoinPredicateIsGroup DEF JoinGroup, Joins
  <2> QED
    BY <2>2, <2>3
<1>2. ASSUME c.join, NEW t \in ls, NEW u \in rs, c.tables = {t, u}
      PROVE  c \in JoinsBetween(ls, rs)
  <2>1. c \in Joins /\ t # u
    BY <1>2 DEF Joins
  <2>2. c \in JoinPredicate(t, u)
    BY <1>2, <2>1, SimpleJoinsAreFound
  <2> QED
    BY <2>2 DEF JoinsBetween
<1> QED
  BY <1>1, <1>2

\* Scan: a part of one table applies its filters and is connected.
LEMMA ScanPreserves ==
  ASSUME Inv, NEW t \in Tables, Scan(t)
  PROVE  Inv'
<1> DEFINE scan == [tables |-> {t}, applied |-> FiltersFor(t), cross |-> FALSE]
<1>1. /\ intermediates' = intermediates \union {scan}
      /\ query' = query /\ order' = order /\ raised' = raised
      /\ \A i \in intermediates : t \notin i.tables
  BY DEF Scan, Covered
<1>2. /\ scan.tables = {t} /\ scan.applied = FiltersFor(t) /\ scan.cross = FALSE
      /\ DOMAIN scan = {"tables", "applied", "cross"}
  OBVIOUS
<1>3. FiltersFor(t) \subseteq query.predicates
  BY DEF FiltersFor, Filters
<1> HIDE DEF scan
<1>4. TypeOK'
  <2>1. WellFormed(query)' /\ order' \in Orders /\ raised' \in BOOLEAN
    BY <1>1 DEF Inv, TypeOK, WellFormed
  <2>2. \A i \in intermediates' : /\ DOMAIN i = {"tables", "applied", "cross"}
                                  /\ i.tables \in (SUBSET Tables) \ {{}}
                                  /\ i.applied \subseteq query.predicates /\ i.cross \in BOOLEAN
    BY <1>1, <1>2, <1>3 DEF Inv, TypeOK
  <2>3. \A i, j \in intermediates' : i # j => i.tables \intersect j.tables = {}
    BY <1>1, <1>2 DEF Inv, TypeOK
  <2> QED
    BY <1>1, <2>1, <2>2, <2>3 DEF TypeOK
<1>5. SimplePredicatesAreApplied'
  <2>1. ASSUME NEW c \in query.predicates, Simple(c)
        PROVE  c \in FiltersFor(t) <=> c.tables \subseteq {t}
    <3>1. c.join \in BOOLEAN
      BY DEF Inv, TypeOK, WellFormed
    <3>2. CASE c.join
      <4>1. PICK v, w \in Tables : v # w /\ c.tables = {v, w}
        BY <2>1, <3>2 DEF Simple
      <4> QED
        BY <3>2, <4>1 DEF FiltersFor, Filters
    <3>3. CASE ~c.join
      <4>1. PICK v \in Tables : c.tables = {v}
        BY <2>1, <3>3 DEF Simple
      <4> QED
        BY <3>3, <4>1 DEF FiltersFor, Filters
    <3> QED
      BY <3>1, <3>2, <3>3
  <2> QED
    BY <1>1, <1>2, <2>1 DEF Inv, SimplePredicatesAreApplied, Simple
<1>6. IntermediatesAreConnected'
  <2>1. Connected({t})
    BY DEF Connected
  <2>2. \A i \in intermediates' : ~i.cross => Connected(i.tables)
    BY <1>1, <1>2, <2>1 DEF Inv, IntermediatesAreConnected
  <2> QED
    BY <1>1, <2>2 DEF IntermediatesAreConnected, Connected, Adjacent, Neighbours, Joins, PartnersOf
<1> QED
  BY <1>4, <1>5, <1>6 DEF Inv

\* Join: the parts of the plan stay disjoint, exact and connected.
LEMMA JoinPreserves ==
  ASSUME Inv, NEW l \in intermediates, NEW r \in intermediates, Join(l, r)
  PROVE  Inv'
<1> DEFINE condition == JoinsBetween(l.tables, r.tables)
           joined == [tables |-> l.tables \union r.tables,
                      applied |-> l.applied \union r.applied \union condition,
                      cross |-> l.cross \/ r.cross \/ condition = {}]
<1>1. /\ intermediates' = (intermediates \ {l, r}) \union {joined} /\ l # r
      /\ query' = query /\ order' = order /\ raised' = raised
  BY DEF Join
<1>2. /\ joined.tables = l.tables \union r.tables
      /\ joined.applied = l.applied \union r.applied \union condition
      /\ joined.cross = (l.cross \/ r.cross \/ condition = {})
      /\ DOMAIN joined = {"tables", "applied", "cross"}
  OBVIOUS
<1>3. condition \subseteq query.predicates
  BY JoinsBetweenArePredicates
<1>4. l.tables \intersect r.tables = {}
  BY <1>1 DEF Inv, TypeOK
<1> HIDE DEF joined, condition
<1>5. TypeOK'
  <2>1. WellFormed(query)' /\ order' \in Orders /\ raised' \in BOOLEAN
    BY <1>1 DEF Inv, TypeOK, WellFormed
  <2>2. /\ joined.tables \in (SUBSET Tables) \ {{}}
        /\ joined.applied \subseteq query.predicates
    BY <1>2, <1>3 DEF Inv, TypeOK
  <2>3. joined.cross \in BOOLEAN
    BY <1>2
  <2>4. \A i \in intermediates' : /\ DOMAIN i = {"tables", "applied", "cross"}
                                  /\ i.tables \in (SUBSET Tables) \ {{}}
                                  /\ i.applied \subseteq query.predicates /\ i.cross \in BOOLEAN
    BY <1>1, <1>2, <2>2, <2>3 DEF Inv, TypeOK
  <2>5. \A i, j \in intermediates' : i # j => i.tables \intersect j.tables = {}
    BY <1>1, <1>2 DEF Inv, TypeOK
  <2> QED
    BY <1>1, <2>1, <2>4, <2>5 DEF TypeOK
<1>6. SimplePredicatesAreApplied'
  <2>1. ASSUME NEW c \in query.predicates, Simple(c)
        PROVE  c \in joined.applied <=> c.tables \subseteq joined.tables
    <3>1. c.join \in BOOLEAN
      BY DEF Inv, TypeOK, WellFormed
    <3>2. /\ c \in l.applied <=> c.tables \subseteq l.tables
          /\ c \in r.applied <=> c.tables \subseteq r.tables
      BY <2>1 DEF Inv, SimplePredicatesAreApplied
    <3>3. c \in condition <=> c.join /\ \E t \in l.tables, u \in r.tables : c.tables = {t, u}
      BY <1>4, <2>1, <3>1, JoinsBetweenExact DEF condition
    <3>4. CASE c.join
      <4>1. PICK v, w \in Tables : v # w /\ c.tables = {v, w}
        BY <2>1, <3>4 DEF Simple
      <4> QED
        BY <1>2, <3>2, <3>3, <3>4, <4>1
    <3>5. CASE ~c.join
      <4>1. PICK v \in Tables : c.tables = {v}
        BY <2>1, <3>5 DEF Simple
      <4> QED
        BY <1>2, <3>2, <3>3, <3>5, <4>1
    <3> QED
      BY <3>1, <3>4, <3>5
  <2> QED
    BY <1>1, <2>1 DEF Inv, SimplePredicatesAreApplied, Simple
<1>7. IntermediatesAreConnected'
  <2>1. ASSUME ~joined.cross
        PROVE  Connected(joined.tables)
    <3>1. ~l.cross /\ ~r.cross /\ condition # {}
      BY <1>2, <2>1
    <3>2. Connected(l.tables) /\ Connected(r.tables)
      BY <3>1 DEF Inv, IntermediatesAreConnected
    <3> QED
      BY <1>2, <3>1, <3>2, JoinsConnect DEF condition
  <2>2. \A i \in intermediates' : ~i.cross => Connected(i.tables)
    BY <1>1, <2>1 DEF Inv, IntermediatesAreConnected
  <2> QED
    BY <1>1, <2>2 DEF IntermediatesAreConnected, Connected, Adjacent, Neighbours, Joins, PartnersOf
<1> QED
  BY <1>5, <1>6, <1>7 DEF Inv

\* There is no part of a plan at first.
LEMMA InitEstablishes == Init => Inv
BY QueriesAssumption DEF QueriesAssumption, Init, Inv, TypeOK, SimplePredicatesAreApplied, IntermediatesAreConnected

\* The inductive invariant: plans under construction are disjoint, apply exactly the simple
\* predicates of their tables, and are connected unless they contain a cross product.
THEOREM PlansAreSound == Spec => []Inv
<1>1. ASSUME Inv, [Next]_vars
      PROVE  Inv'
  <2>1. CASE \E t \in Tables : Scan(t)
    BY <1>1, <2>1, ScanPreserves
  <2>2. CASE \E l, r \in intermediates : Join(l, r)
    BY <1>1, <2>2, JoinPreserves
  <2>3. CASE \E l, r \in intermediates : JoinRaises(l, r)
    <3>1. query' = query /\ order' = order /\ intermediates' = intermediates /\ raised' = TRUE
      BY <2>3 DEF JoinRaises
    <3>2. TypeOK' /\ SimplePredicatesAreApplied'
      BY <1>1, <3>1 DEF Inv, TypeOK, WellFormed, SimplePredicatesAreApplied, Simple
    <3>3. IntermediatesAreConnected'
      BY <1>1, <3>1 DEF Inv, IntermediatesAreConnected, Connected, Adjacent, Neighbours, Joins, PartnersOf
    <3> QED
      BY <3>2, <3>3 DEF Inv
  <2>4. CASE UNCHANGED vars
    <3>1. query' = query /\ order' = order /\ intermediates' = intermediates /\ raised' = raised
      BY <2>4 DEF vars
    <3>2. TypeOK' /\ SimplePredicatesAreApplied'
      BY <1>1, <3>1 DEF Inv, TypeOK, WellFormed, SimplePredicatesAreApplied, Simple
    <3>3. IntermediatesAreConnected'
      BY <1>1, <3>1 DEF Inv, IntermediatesAreConnected, Connected, Adjacent, Neighbours, Joins, PartnersOf
    <3> QED
      BY <3>2, <3>3 DEF Inv
  <2> QED
    BY <1>1, <2>1, <2>2, <2>3, <2>4 DEF Next
<1> QED
  BY InitEstablishes, <1>1, PTL DEF Spec

\* The plan's parts are disjoint, hold predicates of the query only, and are well formed.
THEOREM TypeCorrect == Spec => []TypeOK
BY PlansAreSound, PTL DEF Inv

\* Each simple predicate of any query is applied exactly where its tables are there.
THEOREM FiltersAndJoinsAreApplied == Spec => []SimplePredicatesAreApplied
BY PlansAreSound, PTL DEF Inv

\* A join repeats no simple predicate of its inputs.
THEOREM PredicatesAreAppliedOnce == Spec => []NothingIsAppliedTwice
<1>1. ASSUME Inv
      PROVE  NothingIsAppliedTwice
  <2> SUFFICES ASSUME NEW l \in intermediates, NEW r \in intermediates, l # r,
                      NEW c \in JoinsBetween(l.tables, r.tables), Simple(c)
               PROVE  c \notin l.applied /\ c \notin r.applied
    BY DEF NothingIsAppliedTwice
  <2>1. l.tables \intersect r.tables = {} /\ c \in query.predicates /\ c.join \in BOOLEAN
    BY <1>1, JoinsBetweenArePredicates DEF Inv, TypeOK, WellFormed
  <2>2. \E t \in l.tables, u \in r.tables : c.tables = {t, u}
    BY <2>1, JoinsBetweenExact
  <2>3. ~(c.tables \subseteq l.tables) /\ ~(c.tables \subseteq r.tables)
    BY <2>1, <2>2
  <2> QED
    BY <1>1, <2>1, <2>3 DEF Inv, SimplePredicatesAreApplied
<1> QED
  BY <1>1, PlansAreSound, PTL

\* What PostgresDynProg joins is connected for the textbook enumerator, and conversely if all
\* predicates of the query are simple.
THEOREM EnumeratorsAgreeOnCrossProducts == Spec => []SearchesAgree
<1>1. ASSUME Inv
      PROVE  SearchesAgree
  <2> SUFFICES ASSUME NEW l \in intermediates, NEW r \in intermediates,
                      l # r, ~l.cross, ~r.cross
               PROVE  /\ JoinsBetween(l.tables, r.tables) # {} => JoinsTables(l.tables \union r.tables)
                      /\ /\ JoinsTables(l.tables \union r.tables)
                         /\ \A c \in query.predicates : Simple(c)
                         => JoinsBetween(l.tables, r.tables) # {}
    BY DEF SearchesAgree
  <2>1. /\ l.tables \intersect r.tables = {} /\ l.tables # {} /\ r.tables # {}
        /\ Connected(l.tables) /\ Connected(r.tables)
    BY <1>1 DEF Inv, TypeOK, IntermediatesAreConnected
  <2>2. \A t : l.tables \union r.tables # {t}
    BY <2>1
  <2>3. JoinsTables(l.tables \union r.tables) <=> Connected(l.tables \union r.tables)
    BY <2>2 DEF JoinsTables, Connected, Adjacent
  <2>4. ASSUME JoinsBetween(l.tables, r.tables) # {}
        PROVE  JoinsTables(l.tables \union r.tables)
    BY <2>1, <2>3, <2>4, JoinsConnect
  <2>5. ASSUME JoinsTables(l.tables \union r.tables), \A c \in query.predicates : Simple(c)
        PROVE  JoinsBetween(l.tables, r.tables) # {}
    <3>1. l.tables \in (SUBSET (l.tables \union r.tables)) \ {{}, l.tables \union r.tables}
      BY <2>1
    <3>2. PICK t \in l.tables, u \in r.tables : Adjacent(t, u)
      BY <2>3, <2>5, <3>1 DEF Connected
    <3>3. ASSUME NEW x, NEW y, y \in Neighbours(x)
          PROVE  \E c \in Joins : Simple(c) /\ c.tables = {x, y} /\ c.tables = {y, x}
      <4>1. PICK c \in Joins : x \in c.tables /\ y \in PartnersOf(c, x)
        BY <3>3 DEF Neighbours
      <4>2. Simple(c)
        BY <2>5 DEF Joins
      <4>3. c.tables = {x, y} /\ c.tables = {y, x}
        BY <4>1, <4>2, SimpleJoinPartner
      <4> QED
        BY <4>2, <4>3
    <3>4. PICK c \in Joins : Simple(c) /\ c.tables = {t, u}
      BY <3>2, <3>3 DEF Adjacent
    <3>5. t # u
      BY <2>1
    <3>6. c \in JoinPredicate(t, u)
      BY <3>4, <3>5, SimpleJoinsAreFound
    <3> QED
      BY <3>6 DEF JoinsBetween
  <2> QED
    BY <2>4, <2>5
<1> QED
  BY <1>1, PlansAreSound, PTL

-------------------------------------------------------------------------------
(* Induction over the natural numbers. *)

Less == {p \in Nat \X Nat : p[1] < p[2]}

\* The order of the natural numbers is well-founded.
LEMMA LessIsWellFounded == IsWellFoundedOn(Less, Nat)
  BY NatLessThanWellFounded, Zenon DEF OpToRel, Less

\* Sets of natural numbers have a least element.
LEMMA LeastNat == ASSUME NEW T, T \subseteq Nat, T # {} PROVE \E n \in T : \A m \in T : n <= m
<1>1. PICK x \in T : \A y \in T : << y, x >> \notin Less
  BY LessIsWellFounded, WFMin
<1>2. ASSUME NEW y \in T PROVE x <= y
  <2>1. ~(y < x)
    BY <1>1 DEF Less
  <2> QED
    BY <2>1
<1> QED
  BY <1>2

\* Induction over 0 .. m, for the set of the numbers that have a property.
LEMMA SetInduction ==
  ASSUME NEW m \in Nat, NEW S, 0 \in S, \A k \in 1 .. m : k - 1 \in S => k \in S
  PROVE  \A k \in 0 .. m : k \in S
<1> DEFINE Bad == {k \in 0 .. m : k \notin S}
<1>1. ASSUME Bad # {} PROVE FALSE
  <2>1. PICK k \in Bad : \A j \in Bad : k <= j
    <3>1. Bad \subseteq Nat
      OBVIOUS
    <3> HIDE DEF Bad
    <3> QED
      BY <1>1, <3>1, LeastNat
  <2>2. k \in 1 .. m
    BY <2>1
  <2>3. k - 1 \in 0 .. m /\ k - 1 \notin Bad
    BY <2>1, <2>2
  <2> QED
    BY <2>1, <2>2, <2>3
<1> QED
  BY <1>1

-------------------------------------------------------------------------------
(* Nodes. *)

\* The nodes of a height are those whose parts are of a smaller one.
LEMMA NodesByHeight ==
  \A h \in 0 .. Depth :
    NodesUpTo[h] = NodesOver(IF h = 0 THEN {<<>>} ELSE Seq(NodesUpTo[h - 1]))
<1> DEFINE Body(f, h) == NodesOver(IF h = 0 THEN {<<>>} ELSE Seq(f[h - 1]))
           Fits(m, f) == f = [h \in 0 .. m |-> Body(f, h)]
           Good == {m \in 0 .. Depth : \E f : Fits(m, f)}
<1>0. Depth \in Nat
  BY DepthAssumption DEF DepthAssumption
<1>1. 0 \in Good
  <2> DEFINE f == [h \in 0 .. 0 |-> NodesOver({<<>>})]
  <2>1. Fits(0, f)
    OBVIOUS
  <2> HIDE DEF Fits
  <2> QED
    BY <1>0, <2>1
<1>2. ASSUME NEW m \in 1 .. Depth, m - 1 \in Good PROVE m \in Good
  <2>1. PICK f : Fits(m - 1, f)
    BY <1>2
  <2> DEFINE g == [h \in 0 .. m |-> Body(f, h)]
  <2>2. \A h \in 0 .. m - 1 : g[h] = f[h] /\ h \in 0 .. m
    BY <1>0, <2>1
  <2>3. \A h \in 0 .. m : h # 0 => h - 1 \in 0 .. m - 1
    BY <1>0
  <2>4. \A h \in 0 .. m : Body(g, h) = Body(f, h)
    <3> HIDE DEF g
    <3> QED BY <2>2, <2>3
  <2>5. Fits(m, g)
    BY <2>4
  <2>6. m \in 0 .. Depth
    BY <1>0
  <2> HIDE DEF Fits
  <2> QED
    BY <2>5, <2>6
<1>3. \E f : Fits(Depth, f)
  <2>1. \A m \in 0 .. Depth : m \in Good
    <3> HIDE DEF Good
    <3> QED
      BY <1>0, <1>1, <1>2, SetInduction
  <2> HIDE DEF Fits
  <2> QED
    BY <1>0, <2>1
<1>4. Fits(Depth, NodesUpTo)
  BY <1>3 DEF NodesUpTo
<1> QED
  BY <1>4

\* The fields of a node, and where its parts are.
LEMMA NodeFields ==
  ASSUME NEW h \in 0 .. Depth, NEW n \in NodesUpTo[h]
  PROVE  /\ n = [kind |-> n.kind, operator |-> n.operator, parts |-> n.parts,
                 table |-> n.table, name |-> n.name, value |-> n.value]
         /\ n.kind \in NodeNames /\ n.operator \in NodeNames
         /\ n.table \in NodeNames /\ n.name \in NodeNames /\ n.value \in Int \union {Null}
         /\ h = 0 => n.parts = <<>>
         /\ h # 0 => h - 1 \in 0 .. Depth /\ n.parts \in Seq(NodesUpTo[h - 1])
<1>1. n \in NodesOver(IF h = 0 THEN {<<>>} ELSE Seq(NodesUpTo[h - 1]))
  BY NodesByHeight
<1>2. h # 0 => h - 1 \in 0 .. Depth
  BY DepthAssumption DEF DepthAssumption
<1> QED
  BY <1>1, <1>2 DEF NodesOver

\* The parts of a node have a smaller height.
LEMMA PartsAreLower ==
  ASSUME NEW h \in 0 .. Depth, NEW n \in NodesUpTo[h]
  PROVE  /\ DOMAIN n.parts = 1 .. Len(n.parts) /\ Len(n.parts) \in Nat
         /\ \A i \in DOMAIN n.parts : h # 0 /\ h - 1 \in 0 .. Depth /\ n.parts[i] \in NodesUpTo[h - 1]
<1>1. CASE h = 0
  <2>1. n.parts = <<>>
    BY <1>1, NodeFields
  <2> QED
    BY <2>1
<1>2. CASE h # 0
  <2>1. n.parts \in Seq(NodesUpTo[h - 1]) /\ h - 1 \in 0 .. Depth
    BY <1>2, NodeFields
  <2> QED
    BY <1>2, <2>1, LenProperties, ElementOfSeq
<1> QED
  BY <1>1, <1>2

\* A node of some height, by its fields.
LEMMA IsNode ==
  ASSUME NEW h \in 1 .. Depth, NEW kind \in NodeNames, NEW operator \in NodeNames,
         NEW parts \in Seq(NodesUpTo[h - 1]), NEW t \in NodeNames, NEW c \in NodeNames,
         NEW v \in Int \union {Null}
  PROVE  [kind |-> kind, operator |-> operator, parts |-> parts, table |-> t, name |-> c,
          value |-> v] \in NodesUpTo[h]
<1>1. h \in 0 .. Depth /\ h # 0
  OBVIOUS
<1> QED
  BY <1>1, NodesByHeight DEF NodesOver

\* Nodes up to a height are nodes up to the next one.
LEMMA HeightsGrowByOne == \A h \in 1 .. Depth : NodesUpTo[h - 1] \subseteq NodesUpTo[h]
<1> DEFINE Good == {k \in 0 .. Depth : k # 0 => NodesUpTo[k - 1] \subseteq NodesUpTo[k]}
<1>0. Depth \in Nat
  BY DepthAssumption DEF DepthAssumption
<1>1. 0 \in Good
  BY <1>0
<1>2. ASSUME NEW k \in 1 .. Depth, k - 1 \in Good PROVE k \in Good
  <2>1. ASSUME NEW n \in NodesUpTo[k - 1] PROVE n \in NodesUpTo[k]
    <3>1. k - 1 \in 0 .. Depth
      BY <1>0
    <3>2. n.parts \in Seq(NodesUpTo[k - 1])
      <4>1. CASE k - 1 = 0
        BY <3>1, <4>1, NodeFields, EmptySeq
      <4>2. CASE k - 1 # 0
        <5>1. NodesUpTo[k - 1 - 1] \subseteq NodesUpTo[k - 1]
          BY <1>2, <4>2
        <5>2. n.parts \in Seq(NodesUpTo[k - 1 - 1])
          BY <3>1, <4>2, NodeFields
        <5> QED
          BY <5>1, <5>2, SeqMonotonic
      <4> QED
        BY <4>1, <4>2
    <3>3. n = [kind |-> n.kind, operator |-> n.operator, parts |-> n.parts,
               table |-> n.table, name |-> n.name, value |-> n.value]
          /\ n.kind \in NodeNames /\ n.operator \in NodeNames
          /\ n.table \in NodeNames /\ n.name \in NodeNames /\ n.value \in Int \union {Null}
      BY <3>1, NodeFields
    <3> QED
      BY <3>2, <3>3, IsNode
  <2> QED
    BY <1>0, <2>1
<1>3. \A k \in 0 .. Depth : k \in Good
  <2> HIDE DEF Good
  <2> QED
    BY <1>0, <1>1, <1>2, SetInduction
<1> QED
  BY <1>0, <1>3

\* Nodes up to a height are nodes up to a greater one.
LEMMA HeightsGrow ==
  ASSUME NEW h \in 0 .. Depth, NEW g \in 0 .. h
  PROVE  NodesUpTo[g] \subseteq NodesUpTo[h]
<1> DEFINE Good == {k \in 0 .. Depth : g <= k => NodesUpTo[g] \subseteq NodesUpTo[k]}
<1>0. Depth \in Nat
  BY DepthAssumption DEF DepthAssumption
<1>1. 0 \in Good
  BY <1>0
<1>2. ASSUME NEW k \in 1 .. Depth, k - 1 \in Good PROVE k \in Good
  <2>1. NodesUpTo[k - 1] \subseteq NodesUpTo[k]
    BY HeightsGrowByOne
  <2>2. g = k \/ g <= k - 1 \/ ~(g <= k)
    BY <1>0
  <2> QED
    BY <1>0, <1>2, <2>1, <2>2
<1>3. \A k \in 0 .. Depth : k \in Good
  <2> HIDE DEF Good
  <2> QED
    BY <1>0, <1>1, <1>2, SetInduction
<1> QED
  BY <1>0, <1>3

\* Nodes up to any height are nodes.
LEMMA HeightsAreNodes == \A h \in 0 .. Depth : NodesUpTo[h] \subseteq Nodes
BY DepthAssumption, HeightsGrow DEF DepthAssumption, Nodes

\* The parts of a node are nodes.
LEMMA PartsAreNodes ==
  ASSUME NEW n \in Nodes
  PROVE  /\ DOMAIN n.parts = 1 .. Len(n.parts) /\ Len(n.parts) \in Nat
         /\ \A i \in DOMAIN n.parts : n.parts[i] \in Nodes
<1>1. Depth \in 0 .. Depth /\ n \in NodesUpTo[Depth]
  BY DepthAssumption DEF DepthAssumption, Nodes
<1> QED
  BY <1>1, PartsAreLower, HeightsAreNodes

\* Induction over nodes, for the set of those that have a property.
LEMMA NodeInduction ==
  ASSUME NEW S,
         \A n \in Nodes : (\A i \in DOMAIN n.parts : n.parts[i] \in S) => n \in S
  PROVE  \A n \in Nodes : n \in S
<1> DEFINE Good == {h \in 0 .. Depth : NodesUpTo[h] \subseteq S}
<1>0. Depth \in Nat /\ 0 \in 0 .. Depth
  BY DepthAssumption DEF DepthAssumption
<1>1. 0 \in Good
  BY <1>0, PartsAreLower, HeightsAreNodes
<1>2. ASSUME NEW h \in 1 .. Depth, h - 1 \in Good PROVE h \in Good
  <2>1. h \in 0 .. Depth /\ NodesUpTo[h - 1] \subseteq S
    BY <1>0, <1>2
  <2> QED
    BY <2>1, PartsAreLower, HeightsAreNodes
<1>3. \A h \in 0 .. Depth : h \in Good
  <2> HIDE DEF Good
  <2> QED
    BY <1>0, <1>1, <1>2, SetInduction
<1> QED
  BY <1>0, <1>3 DEF Nodes

\* What is said of the parts of a node.
LEMMA OverPartsFacts ==
  ASSUME NEW f, NEW n
  PROVE  /\ DOMAIN OverParts(f, n) = DOMAIN n.parts
         /\ \A i \in DOMAIN n.parts : OverParts(f, n)[i] = f[n.parts[i]]
         /\ ToSet(OverParts(f, n)) = {f[n.parts[i]] : i \in DOMAIN n.parts}
BY DEF OverParts, ToSet

\* The columns of a node, by those of its parts.
LEMMA ColumnsOfDefined ==
  \A n \in Nodes : ColumnsOf(n) =
    IF n.kind = "column" THEN {n} ELSE UNION {ColumnsOf(n.parts[i]) : i \in DOMAIN n.parts}
<1> DEFINE Body(f, n) == IF n.kind = "column" THEN { n } ELSE UNION ToSet(OverParts(f, n))
           Fits(h, f) == f = [n \in NodesUpTo[h] |-> Body(f, n)]
           Good == {h \in 0 .. Depth : \E f : Fits(h, f)}
           columns == CHOOSE f : f = [n \in Nodes |-> Body(f, n)]
<1>0. Depth \in Nat /\ 0 \in 0 .. Depth
  BY DepthAssumption DEF DepthAssumption
<1>1. \A f, g, n : OverParts(g, n) = OverParts(f, n) => Body(g, n) = Body(f, n)
  OBVIOUS
<1> HIDE DEF Body
<1>2. 0 \in Good
  <2> DEFINE g == [n \in NodesUpTo[0] |-> Body(<<>>, n)]
  <2>1. \A n \in NodesUpTo[0] : OverParts(g, n) = OverParts(<<>>, n)
    BY <1>0, PartsAreLower DEF OverParts
  <2>2. Fits(0, g)
    BY <1>1, <2>1
  <2> HIDE DEF Fits
  <2> QED
    BY <1>0, <2>2
<1>3. ASSUME NEW h \in 1 .. Depth, h - 1 \in Good PROVE h \in Good
  <2>1. PICK f : Fits(h - 1, f)
    <3> HIDE DEF Fits
    <3> QED BY <1>3
  <2> DEFINE g == [n \in NodesUpTo[h] |-> Body(f, n)]
  <2>2. h \in 0 .. Depth /\ \A n \in NodesUpTo[h - 1] : n \in NodesUpTo[h] /\ g[n] = f[n]
    BY <1>0, <2>1, HeightsGrowByOne
  <2>3. \A n \in NodesUpTo[h] : OverParts(g, n) = OverParts(f, n)
    <3> HIDE DEF g
    <3> QED BY <2>2, PartsAreLower DEF OverParts
  <2>4. Fits(h, g)
    BY <1>1, <2>3
  <2> HIDE DEF Fits
  <2> QED
    BY <2>2, <2>4
<1>4. \E f : Fits(Depth, f)
  <2>1. \A h \in 0 .. Depth : h \in Good
    <3> HIDE DEF Good
    <3> QED
      BY <1>0, <1>2, <1>3, SetInduction
  <2> HIDE DEF Fits
  <2> QED
    BY <1>0, <2>1
<1>5. columns = [n \in Nodes |-> Body(columns, n)]
  BY <1>4 DEF Nodes
<1>6. \A n \in Nodes : ColumnsOf(n) = columns[n]
  BY DEF ColumnsOf, Body
<1> HIDE DEF columns
<1>7. \A n \in Nodes : columns[n] = Body(columns, n)
  BY <1>5
<1>8. ASSUME NEW n \in Nodes
      PROVE  ToSet(OverParts(columns, n)) = {ColumnsOf(n.parts[i]) : i \in DOMAIN n.parts}
  BY <1>6, PartsAreNodes, OverPartsFacts
<1> QED
  BY <1>6, <1>7, <1>8 DEF Body

\* The value of an expression, by those of its parts.
LEMMA EvaluateDefined ==
  ASSUME NEW row
  PROVE  \A e \in Nodes : Evaluate(e, row) =
    Computed(e, row, [i \in DOMAIN e.parts |-> Evaluate(e.parts[i], row)])
<1> DEFINE Body(f, e) == Computed(e, row, OverParts(f, e))
           Fits(h, f) == f = [e \in NodesUpTo[h] |-> Body(f, e)]
           Good == {h \in 0 .. Depth : \E f : Fits(h, f)}
           value == CHOOSE f : f = [e \in Nodes |-> Body(f, e)]
<1>0. Depth \in Nat /\ 0 \in 0 .. Depth
  BY DepthAssumption DEF DepthAssumption
<1>1. \A f, g, e : OverParts(g, e) = OverParts(f, e) => Body(g, e) = Body(f, e)
  OBVIOUS
<1> HIDE DEF Body
<1>2. 0 \in Good
  <2> DEFINE g == [e \in NodesUpTo[0] |-> Body(<<>>, e)]
  <2>1. \A e \in NodesUpTo[0] : OverParts(g, e) = OverParts(<<>>, e)
    BY <1>0, PartsAreLower DEF OverParts
  <2>2. Fits(0, g)
    BY <1>1, <2>1
  <2> HIDE DEF Fits
  <2> QED
    BY <1>0, <2>2
<1>3. ASSUME NEW h \in 1 .. Depth, h - 1 \in Good PROVE h \in Good
  <2>1. PICK f : Fits(h - 1, f)
    <3> HIDE DEF Fits
    <3> QED BY <1>3
  <2> DEFINE g == [e \in NodesUpTo[h] |-> Body(f, e)]
  <2>2. h \in 0 .. Depth /\ \A e \in NodesUpTo[h - 1] : e \in NodesUpTo[h] /\ g[e] = f[e]
    BY <1>0, <2>1, HeightsGrowByOne
  <2>3. \A e \in NodesUpTo[h] : OverParts(g, e) = OverParts(f, e)
    <3> HIDE DEF g
    <3> QED BY <2>2, PartsAreLower DEF OverParts
  <2>4. Fits(h, g)
    BY <1>1, <2>3
  <2> HIDE DEF Fits
  <2> QED
    BY <2>2, <2>4
<1>4. \E f : Fits(Depth, f)
  <2>1. \A h \in 0 .. Depth : h \in Good
    <3> HIDE DEF Good
    <3> QED
      BY <1>0, <1>2, <1>3, SetInduction
  <2> HIDE DEF Fits
  <2> QED
    BY <1>0, <2>1
<1>5. value = [e \in Nodes |-> Body(value, e)]
  BY <1>4 DEF Nodes
<1>6. \A e \in Nodes : Evaluate(e, row) = value[e]
  BY DEF Evaluate, Body
<1> HIDE DEF value
<1>7. \A e \in Nodes : value[e] = Body(value, e)
  BY <1>5
<1>8. ASSUME NEW e \in Nodes
      PROVE  OverParts(value, e) = [i \in DOMAIN e.parts |-> Evaluate(e.parts[i], row)]
  BY <1>6, PartsAreNodes DEF OverParts
<1> QED
  BY <1>6, <1>7, <1>8 DEF Body

\* The truth of a predicate, by that of its parts.
LEMMA TruthDefined ==
  ASSUME NEW row
  PROVE  \A p \in Nodes : Truth(p, row) =
    TruthFrom(p, row, [i \in DOMAIN p.parts |-> Truth(p.parts[i], row)])
<1> DEFINE Body(f, p) == TruthFrom(p, row, OverParts(f, p))
           Fits(h, f) == f = [p \in NodesUpTo[h] |-> Body(f, p)]
           Good == {h \in 0 .. Depth : \E f : Fits(h, f)}
           truth == CHOOSE f : f = [p \in Nodes |-> Body(f, p)]
<1>0. Depth \in Nat /\ 0 \in 0 .. Depth
  BY DepthAssumption DEF DepthAssumption
<1>1. \A f, g, p : OverParts(g, p) = OverParts(f, p) => Body(g, p) = Body(f, p)
  OBVIOUS
<1> HIDE DEF Body
<1>2. 0 \in Good
  <2> DEFINE g == [p \in NodesUpTo[0] |-> Body(<<>>, p)]
  <2>1. \A p \in NodesUpTo[0] : OverParts(g, p) = OverParts(<<>>, p)
    BY <1>0, PartsAreLower DEF OverParts
  <2>2. Fits(0, g)
    BY <1>1, <2>1
  <2> HIDE DEF Fits
  <2> QED
    BY <1>0, <2>2
<1>3. ASSUME NEW h \in 1 .. Depth, h - 1 \in Good PROVE h \in Good
  <2>1. PICK f : Fits(h - 1, f)
    <3> HIDE DEF Fits
    <3> QED BY <1>3
  <2> DEFINE g == [p \in NodesUpTo[h] |-> Body(f, p)]
  <2>2. h \in 0 .. Depth /\ \A p \in NodesUpTo[h - 1] : p \in NodesUpTo[h] /\ g[p] = f[p]
    BY <1>0, <2>1, HeightsGrowByOne
  <2>3. \A p \in NodesUpTo[h] : OverParts(g, p) = OverParts(f, p)
    <3> HIDE DEF g
    <3> QED BY <2>2, PartsAreLower DEF OverParts
  <2>4. Fits(h, g)
    BY <1>1, <2>3
  <2> HIDE DEF Fits
  <2> QED
    BY <2>2, <2>4
<1>4. \E f : Fits(Depth, f)
  <2>1. \A h \in 0 .. Depth : h \in Good
    <3> HIDE DEF Good
    <3> QED
      BY <1>0, <1>2, <1>3, SetInduction
  <2> HIDE DEF Fits
  <2> QED
    BY <1>0, <2>1
<1>5. truth = [p \in Nodes |-> Body(truth, p)]
  BY <1>4 DEF Nodes
<1>6. \A p \in Nodes : Truth(p, row) = truth[p]
  BY DEF Truth, Body
<1> HIDE DEF truth
<1>7. \A p \in Nodes : truth[p] = Body(truth, p)
  BY <1>5
<1>8. ASSUME NEW p \in Nodes
      PROVE  OverParts(truth, p) = [i \in DOMAIN p.parts |-> Truth(p.parts[i], row)]
  BY <1>6, PartsAreNodes DEF OverParts
<1> QED
  BY <1>6, <1>7, <1>8 DEF Body

\* The base predicates below a predicate, by those of its parts.
LEMMA BasePredicatesDefined ==
  \A p \in Nodes : BasePredicates(p) =
    IF p.kind \in Compounds THEN UNION {BasePredicates(p.parts[i]) : i \in DOMAIN p.parts} ELSE {p}
<1> DEFINE Body(f, p) == IF p.kind \in Compounds THEN UNION ToSet(OverParts(f, p)) ELSE { p }
           Fits(h, f) == f = [p \in NodesUpTo[h] |-> Body(f, p)]
           Good == {h \in 0 .. Depth : \E f : Fits(h, f)}
           base == CHOOSE f : f = [p \in Nodes |-> Body(f, p)]
<1>0. Depth \in Nat /\ 0 \in 0 .. Depth
  BY DepthAssumption DEF DepthAssumption
<1>1. \A f, g, p : OverParts(g, p) = OverParts(f, p) => Body(g, p) = Body(f, p)
  OBVIOUS
<1> HIDE DEF Body
<1>2. 0 \in Good
  <2> DEFINE g == [p \in NodesUpTo[0] |-> Body(<<>>, p)]
  <2>1. \A p \in NodesUpTo[0] : OverParts(g, p) = OverParts(<<>>, p)
    BY <1>0, PartsAreLower DEF OverParts
  <2>2. Fits(0, g)
    BY <1>1, <2>1
  <2> HIDE DEF Fits
  <2> QED
    BY <1>0, <2>2
<1>3. ASSUME NEW h \in 1 .. Depth, h - 1 \in Good PROVE h \in Good
  <2>1. PICK f : Fits(h - 1, f)
    <3> HIDE DEF Fits
    <3> QED BY <1>3
  <2> DEFINE g == [p \in NodesUpTo[h] |-> Body(f, p)]
  <2>2. h \in 0 .. Depth /\ \A p \in NodesUpTo[h - 1] : p \in NodesUpTo[h] /\ g[p] = f[p]
    BY <1>0, <2>1, HeightsGrowByOne
  <2>3. \A p \in NodesUpTo[h] : OverParts(g, p) = OverParts(f, p)
    <3> HIDE DEF g
    <3> QED BY <2>2, PartsAreLower DEF OverParts
  <2>4. Fits(h, g)
    BY <1>1, <2>3
  <2> HIDE DEF Fits
  <2> QED
    BY <2>2, <2>4
<1>4. \E f : Fits(Depth, f)
  <2>1. \A h \in 0 .. Depth : h \in Good
    <3> HIDE DEF Good
    <3> QED
      BY <1>0, <1>2, <1>3, SetInduction
  <2> HIDE DEF Fits
  <2> QED
    BY <1>0, <2>1
<1>5. base = [p \in Nodes |-> Body(base, p)]
  BY <1>4 DEF Nodes
<1>6. \A p \in Nodes : BasePredicates(p) = base[p]
  BY DEF BasePredicates, Body
<1> HIDE DEF base
<1>7. \A p \in Nodes : base[p] = Body(base, p)
  BY <1>5
<1>8. ASSUME NEW p \in Nodes
      PROVE  ToSet(OverParts(base, p)) = {BasePredicates(p.parts[i]) : i \in DOMAIN p.parts}
  BY <1>6, PartsAreNodes, OverPartsFacts
<1> QED
  BY <1>6, <1>7, <1>8 DEF Body

\* The conjuncts of a predicate, by those of its parts.
LEMMA ConjunctsDefined ==
  \A p \in Nodes : Conjuncts(p) =
    IF p.kind = "and" THEN UNION {Conjuncts(p.parts[i]) : i \in DOMAIN p.parts} ELSE {p}
<1> DEFINE Body(f, p) == IF p.kind = "and" THEN UNION ToSet(OverParts(f, p)) ELSE { p }
           Fits(h, f) == f = [p \in NodesUpTo[h] |-> Body(f, p)]
           Good == {h \in 0 .. Depth : \E f : Fits(h, f)}
           conjuncts == CHOOSE f : f = [p \in Nodes |-> Body(f, p)]
<1>0. Depth \in Nat /\ 0 \in 0 .. Depth
  BY DepthAssumption DEF DepthAssumption
<1>1. \A f, g, p : OverParts(g, p) = OverParts(f, p) => Body(g, p) = Body(f, p)
  OBVIOUS
<1> HIDE DEF Body
<1>2. 0 \in Good
  <2> DEFINE g == [p \in NodesUpTo[0] |-> Body(<<>>, p)]
  <2>1. \A p \in NodesUpTo[0] : OverParts(g, p) = OverParts(<<>>, p)
    BY <1>0, PartsAreLower DEF OverParts
  <2>2. Fits(0, g)
    BY <1>1, <2>1
  <2> HIDE DEF Fits
  <2> QED
    BY <1>0, <2>2
<1>3. ASSUME NEW h \in 1 .. Depth, h - 1 \in Good PROVE h \in Good
  <2>1. PICK f : Fits(h - 1, f)
    <3> HIDE DEF Fits
    <3> QED BY <1>3
  <2> DEFINE g == [p \in NodesUpTo[h] |-> Body(f, p)]
  <2>2. h \in 0 .. Depth /\ \A p \in NodesUpTo[h - 1] : p \in NodesUpTo[h] /\ g[p] = f[p]
    BY <1>0, <2>1, HeightsGrowByOne
  <2>3. \A p \in NodesUpTo[h] : OverParts(g, p) = OverParts(f, p)
    <3> HIDE DEF g
    <3> QED BY <2>2, PartsAreLower DEF OverParts
  <2>4. Fits(h, g)
    BY <1>1, <2>3
  <2> HIDE DEF Fits
  <2> QED
    BY <2>2, <2>4
<1>4. \E f : Fits(Depth, f)
  <2>1. \A h \in 0 .. Depth : h \in Good
    <3> HIDE DEF Good
    <3> QED
      BY <1>0, <1>2, <1>3, SetInduction
  <2> HIDE DEF Fits
  <2> QED
    BY <1>0, <2>1
<1>5. conjuncts = [p \in Nodes |-> Body(conjuncts, p)]
  BY <1>4 DEF Nodes
<1>6. \A p \in Nodes : Conjuncts(p) = conjuncts[p]
  BY DEF Conjuncts, Body
<1> HIDE DEF conjuncts
<1>7. \A p \in Nodes : conjuncts[p] = Body(conjuncts, p)
  BY <1>5
<1>8. ASSUME NEW p \in Nodes
      PROVE  ToSet(OverParts(conjuncts, p)) = {Conjuncts(p.parts[i]) : i \in DOMAIN p.parts}
  BY <1>6, PartsAreNodes, OverPartsFacts
<1> QED
  BY <1>6, <1>7, <1>8 DEF Body

\* The fragment of a predicate, by those of its parts.
LEMMA FragmentDefined ==
  ASSUME NEW ts
  PROVE  \A p \in Nodes : Fragment(p, ts) =
    FragmentFrom(p, ts, [i \in DOMAIN p.parts |-> Fragment(p.parts[i], ts)])
<1> DEFINE Body(f, p) == FragmentFrom(p, ts, OverParts(f, p))
           Fits(h, f) == f = [p \in NodesUpTo[h] |-> Body(f, p)]
           Good == {h \in 0 .. Depth : \E f : Fits(h, f)}
           fragment == CHOOSE f : f = [p \in Nodes |-> Body(f, p)]
<1>0. Depth \in Nat /\ 0 \in 0 .. Depth
  BY DepthAssumption DEF DepthAssumption
<1>1. \A f, g, p : OverParts(g, p) = OverParts(f, p) => Body(g, p) = Body(f, p)
  OBVIOUS
<1> HIDE DEF Body
<1>2. 0 \in Good
  <2> DEFINE g == [p \in NodesUpTo[0] |-> Body(<<>>, p)]
  <2>1. \A p \in NodesUpTo[0] : OverParts(g, p) = OverParts(<<>>, p)
    BY <1>0, PartsAreLower DEF OverParts
  <2>2. Fits(0, g)
    BY <1>1, <2>1
  <2> HIDE DEF Fits
  <2> QED
    BY <1>0, <2>2
<1>3. ASSUME NEW h \in 1 .. Depth, h - 1 \in Good PROVE h \in Good
  <2>1. PICK f : Fits(h - 1, f)
    <3> HIDE DEF Fits
    <3> QED BY <1>3
  <2> DEFINE g == [p \in NodesUpTo[h] |-> Body(f, p)]
  <2>2. h \in 0 .. Depth /\ \A p \in NodesUpTo[h - 1] : p \in NodesUpTo[h] /\ g[p] = f[p]
    BY <1>0, <2>1, HeightsGrowByOne
  <2>3. \A p \in NodesUpTo[h] : OverParts(g, p) = OverParts(f, p)
    <3> HIDE DEF g
    <3> QED BY <2>2, PartsAreLower DEF OverParts
  <2>4. Fits(h, g)
    BY <1>1, <2>3
  <2> HIDE DEF Fits
  <2> QED
    BY <2>2, <2>4
<1>4. \E f : Fits(Depth, f)
  <2>1. \A h \in 0 .. Depth : h \in Good
    <3> HIDE DEF Good
    <3> QED
      BY <1>0, <1>2, <1>3, SetInduction
  <2> HIDE DEF Fits
  <2> QED
    BY <1>0, <2>1
<1>5. fragment = [p \in Nodes |-> Body(fragment, p)]
  BY <1>4 DEF Nodes
<1>6. \A p \in Nodes : Fragment(p, ts) = fragment[p]
  BY DEF Fragment, Body
<1> HIDE DEF fragment
<1>7. \A p \in Nodes : fragment[p] = Body(fragment, p)
  BY <1>5
<1>8. ASSUME NEW p \in Nodes
      PROVE  OverParts(fragment, p) = [i \in DOMAIN p.parts |-> Fragment(p.parts[i], ts)]
  BY <1>6, PartsAreNodes DEF OverParts
<1> QED
  BY <1>6, <1>7, <1>8 DEF Body

\* What infer_between_predicates makes of a predicate, by what it makes of its parts.
LEMMA WithBetweenDefined ==
  \A p \in Nodes : WithBetween(p) =
    BetweenFrom(p, [i \in DOMAIN p.parts |-> WithBetween(p.parts[i])])
<1> DEFINE Body(f, p) == BetweenFrom(p, OverParts(f, p))
           Fits(h, f) == f = [p \in NodesUpTo[h] |-> Body(f, p)]
           Good == {h \in 0 .. Depth : \E f : Fits(h, f)}
           rewritten == CHOOSE f : f = [p \in Nodes |-> Body(f, p)]
<1>0. Depth \in Nat /\ 0 \in 0 .. Depth
  BY DepthAssumption DEF DepthAssumption
<1>1. \A f, g, p : OverParts(g, p) = OverParts(f, p) => Body(g, p) = Body(f, p)
  OBVIOUS
<1> HIDE DEF Body
<1>2. 0 \in Good
  <2> DEFINE g == [p \in NodesUpTo[0] |-> Body(<<>>, p)]
  <2>1. \A p \in NodesUpTo[0] : OverParts(g, p) = OverParts(<<>>, p)
    BY <1>0, PartsAreLower DEF OverParts
  <2>2. Fits(0, g)
    BY <1>1, <2>1
  <2> HIDE DEF Fits
  <2> QED
    BY <1>0, <2>2
<1>3. ASSUME NEW h \in 1 .. Depth, h - 1 \in Good PROVE h \in Good
  <2>1. PICK f : Fits(h - 1, f)
    <3> HIDE DEF Fits
    <3> QED BY <1>3
  <2> DEFINE g == [p \in NodesUpTo[h] |-> Body(f, p)]
  <2>2. h \in 0 .. Depth /\ \A p \in NodesUpTo[h - 1] : p \in NodesUpTo[h] /\ g[p] = f[p]
    BY <1>0, <2>1, HeightsGrowByOne
  <2>3. \A p \in NodesUpTo[h] : OverParts(g, p) = OverParts(f, p)
    <3> HIDE DEF g
    <3> QED BY <2>2, PartsAreLower DEF OverParts
  <2>4. Fits(h, g)
    BY <1>1, <2>3
  <2> HIDE DEF Fits
  <2> QED
    BY <2>2, <2>4
<1>4. \E f : Fits(Depth, f)
  <2>1. \A h \in 0 .. Depth : h \in Good
    <3> HIDE DEF Good
    <3> QED
      BY <1>0, <1>2, <1>3, SetInduction
  <2> HIDE DEF Fits
  <2> QED
    BY <1>0, <2>1
<1>5. rewritten = [p \in Nodes |-> Body(rewritten, p)]
  BY <1>4 DEF Nodes
<1>6. \A p \in Nodes : WithBetween(p) = rewritten[p]
  BY DEF WithBetween, Body
<1> HIDE DEF rewritten
<1>7. \A p \in Nodes : rewritten[p] = Body(rewritten, p)
  BY <1>5
<1>8. ASSUME NEW p \in Nodes
      PROVE  OverParts(rewritten, p) = [i \in DOMAIN p.parts |-> WithBetween(p.parts[i])]
  BY <1>6, PartsAreNodes DEF OverParts
<1> QED
  BY <1>6, <1>7, <1>8 DEF Body

\* What is below the casts of an expression.
LEMMA UnwrappedDefined ==
  \A e \in Nodes : Unwrapped(e) =
    IF e.kind = "cast" THEN [i \in DOMAIN e.parts |-> Unwrapped(e.parts[i])][1] ELSE e
<1> DEFINE Body(f, e) == IF e.kind = "cast" THEN OverParts(f, e)[1] ELSE e
           Fits(h, f) == f = [e \in NodesUpTo[h] |-> Body(f, e)]
           Good == {h \in 0 .. Depth : \E f : Fits(h, f)}
           unwrapped == CHOOSE f : f = [e \in Nodes |-> Body(f, e)]
<1>0. Depth \in Nat /\ 0 \in 0 .. Depth
  BY DepthAssumption DEF DepthAssumption
<1>1. \A f, g, e : OverParts(g, e) = OverParts(f, e) => Body(g, e) = Body(f, e)
  OBVIOUS
<1> HIDE DEF Body
<1>2. 0 \in Good
  <2> DEFINE g == [e \in NodesUpTo[0] |-> Body(<<>>, e)]
  <2>1. \A e \in NodesUpTo[0] : OverParts(g, e) = OverParts(<<>>, e)
    BY <1>0, PartsAreLower DEF OverParts
  <2>2. Fits(0, g)
    BY <1>1, <2>1
  <2> HIDE DEF Fits
  <2> QED
    BY <1>0, <2>2
<1>3. ASSUME NEW h \in 1 .. Depth, h - 1 \in Good PROVE h \in Good
  <2>1. PICK f : Fits(h - 1, f)
    <3> HIDE DEF Fits
    <3> QED BY <1>3
  <2> DEFINE g == [e \in NodesUpTo[h] |-> Body(f, e)]
  <2>2. h \in 0 .. Depth /\ \A e \in NodesUpTo[h - 1] : e \in NodesUpTo[h] /\ g[e] = f[e]
    BY <1>0, <2>1, HeightsGrowByOne
  <2>3. \A e \in NodesUpTo[h] : OverParts(g, e) = OverParts(f, e)
    <3> HIDE DEF g
    <3> QED BY <2>2, PartsAreLower DEF OverParts
  <2>4. Fits(h, g)
    BY <1>1, <2>3
  <2> HIDE DEF Fits
  <2> QED
    BY <2>2, <2>4
<1>4. \E f : Fits(Depth, f)
  <2>1. \A h \in 0 .. Depth : h \in Good
    <3> HIDE DEF Good
    <3> QED
      BY <1>0, <1>2, <1>3, SetInduction
  <2> HIDE DEF Fits
  <2> QED
    BY <1>0, <2>1
<1>5. unwrapped = [e \in Nodes |-> Body(unwrapped, e)]
  BY <1>4 DEF Nodes
<1>6. \A e \in Nodes : Unwrapped(e) = unwrapped[e]
  BY DEF Unwrapped, Body
<1> HIDE DEF unwrapped
<1>7. \A e \in Nodes : unwrapped[e] = Body(unwrapped, e)
  BY <1>5
<1>8. ASSUME NEW e \in Nodes
      PROVE  OverParts(unwrapped, e) = [i \in DOMAIN e.parts |-> Unwrapped(e.parts[i])]
  BY <1>6, PartsAreNodes DEF OverParts
<1> QED
  BY <1>6, <1>7, <1>8 DEF Body

\* The nodes of a hierarchy, by those below the parts of its root.
LEMMA HierarchyDefined ==
  \A n \in Nodes : Hierarchy(n) =
    {n} \union UNION {Hierarchy(n.parts[i]) : i \in DOMAIN n.parts}
<1> DEFINE Body(f, n) == { n } \union UNION ToSet(OverParts(f, n))
           Fits(h, f) == f = [n \in NodesUpTo[h] |-> Body(f, n)]
           Good == {h \in 0 .. Depth : \E f : Fits(h, f)}
           hierarchy == CHOOSE f : f = [n \in Nodes |-> Body(f, n)]
<1>0. Depth \in Nat /\ 0 \in 0 .. Depth
  BY DepthAssumption DEF DepthAssumption
<1>1. \A f, g, n : OverParts(g, n) = OverParts(f, n) => Body(g, n) = Body(f, n)
  OBVIOUS
<1> HIDE DEF Body
<1>2. 0 \in Good
  <2> DEFINE g == [n \in NodesUpTo[0] |-> Body(<<>>, n)]
  <2>1. \A n \in NodesUpTo[0] : OverParts(g, n) = OverParts(<<>>, n)
    BY <1>0, PartsAreLower DEF OverParts
  <2>2. Fits(0, g)
    BY <1>1, <2>1
  <2> HIDE DEF Fits
  <2> QED
    BY <1>0, <2>2
<1>3. ASSUME NEW h \in 1 .. Depth, h - 1 \in Good PROVE h \in Good
  <2>1. PICK f : Fits(h - 1, f)
    <3> HIDE DEF Fits
    <3> QED BY <1>3
  <2> DEFINE g == [n \in NodesUpTo[h] |-> Body(f, n)]
  <2>2. h \in 0 .. Depth /\ \A n \in NodesUpTo[h - 1] : n \in NodesUpTo[h] /\ g[n] = f[n]
    BY <1>0, <2>1, HeightsGrowByOne
  <2>3. \A n \in NodesUpTo[h] : OverParts(g, n) = OverParts(f, n)
    <3> HIDE DEF g
    <3> QED BY <2>2, PartsAreLower DEF OverParts
  <2>4. Fits(h, g)
    BY <1>1, <2>3
  <2> HIDE DEF Fits
  <2> QED
    BY <2>2, <2>4
<1>4. \E f : Fits(Depth, f)
  <2>1. \A h \in 0 .. Depth : h \in Good
    <3> HIDE DEF Good
    <3> QED
      BY <1>0, <1>2, <1>3, SetInduction
  <2> HIDE DEF Fits
  <2> QED
    BY <1>0, <2>1
<1>5. hierarchy = [n \in Nodes |-> Body(hierarchy, n)]
  BY <1>4 DEF Nodes
<1>6. \A n \in Nodes : Hierarchy(n) = hierarchy[n]
  BY DEF Hierarchy, Body
<1> HIDE DEF hierarchy
<1>7. \A n \in Nodes : hierarchy[n] = Body(hierarchy, n)
  BY <1>5
<1>8. ASSUME NEW n \in Nodes
      PROVE  ToSet(OverParts(hierarchy, n)) = {Hierarchy(n.parts[i]) : i \in DOMAIN n.parts}
  BY <1>6, PartsAreNodes, OverPartsFacts
<1> QED
  BY <1>6, <1>7, <1>8 DEF Body

-------------------------------------------------------------------------------
(* Sequences, sets and truth values. *)

\* SetToSeq lists the elements of a finite set once each.
LEMMA SetToSeqFacts ==
  ASSUME NEW S, IsFiniteSet(S)
  PROVE  /\ Cardinality(S) \in Nat /\ Len(SetToSeq(S)) = Cardinality(S)
         /\ SetToSeq(S) \in Seq(S) /\ DOMAIN SetToSeq(S) = 1 .. Cardinality(S)
         /\ ToSet(SetToSeq(S)) = S
         /\ \A i, j \in 1 .. Cardinality(S) : SetToSeq(S)[i] = SetToSeq(S)[j] => i = j
<1> DEFINE n == Cardinality(S)
           seq == SetToSeq(S)
<1>1. n \in Nat /\ ExistsBijection(1 .. n, S)
  BY FS_CardinalityType
<1>2. \E f \in [1 .. n -> S] : IsInjective(f)
  BY <1>1 DEF ExistsBijection, Bijection, Injection, IsInjective
<1>3. seq \in [1 .. n -> S] /\ IsInjective(seq)
  BY <1>2 DEF SetToSeq
<1> HIDE DEF seq
<1>4. seq \in Seq(S) /\ Len(seq) = n
  <2>1. seq \in Seq(S)
    BY <1>1, <1>3, SeqDef
  <2> QED
    BY <1>1, <1>3, <2>1, LenProperties
<1>5. \A i, j \in 1 .. n : seq[i] = seq[j] => i = j
  BY <1>3 DEF IsInjective
<1>6. seq \in Injection(1 .. n, S)
  BY <1>3, <1>5 DEF Injection, IsInjective
<1>7. IsFiniteSet(1 .. n) /\ Cardinality(1 .. n) = n
  BY <1>1, FS_Interval
<1>8. seq \in Surjection(1 .. n, S)
  BY <1>6, <1>7, FS_Injection
<1>9. ToSet(seq) = S
  BY <1>3, <1>8 DEF ToSet, Surjection
<1> QED
  BY <1>1, <1>3, <1>4, <1>5, <1>9 DEF seq

\* FlattenSeq has the elements of the sequences it concatenates.
LEMMA FlattenSeqFacts ==
  ASSUME NEW T, NEW s \in Seq(Seq(T))
  PROVE  /\ FlattenSeq(s) \in Seq(T)
         /\ ToSet(FlattenSeq(s)) = UNION {ToSet(s[i]) : i \in DOMAIN s}
         /\ Len(s) = 1 => FlattenSeq(s) = s[1]
<1> DEFINE n == Len(s)
           Body(f, i) == IF i = 1 THEN s[i] ELSE f[i - 1] \o s[i]
           Fits(k, f) == /\ f = [i \in 1 .. k |-> Body(f, i)]
                         /\ \A i \in 1 .. k : /\ f[i] \in Seq(T)
                                              /\ ToSet(f[i]) = UNION {ToSet(s[j]) : j \in 1 .. i}
           Good == {k \in 0 .. n : \E f : Fits(k, f)}
           flatten == CHOOSE f : f = [i \in 1 .. n |-> Body(f, i)]
<1>1. n \in Nat /\ DOMAIN s = 1 .. n /\ \A i \in 1 .. n : s[i] \in Seq(T)
  BY LenProperties, ElementOfSeq
<1>2. 0 \in Good
  <2>1. Fits(0, <<>>)
    BY <1>1
  <2> HIDE DEF Fits
  <2> QED
    BY <1>1, <2>1
<1>3. ASSUME NEW k \in 1 .. n, k - 1 \in Good PROVE k \in Good
  <2>1. PICK f : Fits(k - 1, f)
    <3> HIDE DEF Fits
    <3> QED BY <1>3
  <2> DEFINE g == [i \in 1 .. k |-> Body(f, i)]
  <2>2. \A i \in 1 .. k - 1 : i \in 1 .. k /\ g[i] = f[i]
    <3>1. \A i \in 1 .. k - 1 : i \in 1 .. k
      BY <1>1
    <3> HIDE DEF Body
    <3> QED BY <2>1, <3>1
  <2>3. k \in 0 .. n /\ k \in Nat /\ k \in 1 .. k /\ g[k] = Body(f, k) /\ DOMAIN g = 1 .. k
        /\ \A i \in 1 .. k : i \in 1 .. n /\ (i # 1 => i - 1 \in 1 .. k - 1) /\ (i # k => i \in 1 .. k - 1)
    BY <1>1
  <2>4. \A i \in 1 .. k : Body(g, i) = Body(f, i)
    <3> HIDE DEF g
    <3> QED BY <2>2, <2>3
  <2>5. g = [i \in 1 .. k |-> Body(g, i)]
    BY <2>4
  <2>6. g[k] \in Seq(T) /\ ToSet(g[k]) = UNION {ToSet(s[j]) : j \in 1 .. k}
    <3>1. CASE k = 1
      <4>1. {ToSet(s[j]) : j \in 1 .. 1} = {ToSet(s[1])}
        OBVIOUS
      <4> HIDE DEF g
      <4> QED
        BY <1>1, <2>3, <3>1, <4>1
    <3>2. CASE k # 1
      <4>1. k - 1 \in 1 .. k - 1
        BY <2>3, <3>2
      <4>2. f[k - 1] \in Seq(T) /\ ToSet(f[k - 1]) = UNION {ToSet(s[j]) : j \in 1 .. k - 1}
        BY <2>1, <4>1
      <4>3. g[k] = f[k - 1] \o s[k] /\ s[k] \in Seq(T)
        BY <1>1, <2>3, <3>2
      <4> HIDE DEF g
      <4>4. g[k] \in Seq(T)
        BY <4>2, <4>3, ConcatProperties
      <4>5. Range(g[k]) = Range(f[k - 1]) \union Range(s[k])
        BY <4>2, <4>3, RangeConcatenation
      <4>6. ToSet(g[k]) = ToSet(f[k - 1]) \union ToSet(s[k])
        BY <4>5 DEF Range, ToSet
      <4>7. \A j : j \in 1 .. k <=> j \in 1 .. k - 1 \/ j = k
        BY <2>3
      <4>8. UNION {ToSet(s[j]) : j \in 1 .. k} = (UNION {ToSet(s[j]) : j \in 1 .. k - 1}) \union ToSet(s[k])
        BY <4>7
      <4> QED
        BY <4>2, <4>4, <4>6, <4>8
    <3> QED
      BY <3>1, <3>2
  <2>7. Fits(k, g)
    <3> HIDE DEF g, Body
    <3> QED BY <2>1, <2>2, <2>3, <2>5, <2>6
  <2> HIDE DEF Fits
  <2> QED
    BY <2>3, <2>7
<1>4. \A k \in 0 .. n : k \in Good
  <2> HIDE DEF Good
  <2> QED
    BY <1>1, <1>2, <1>3, SetInduction
<1>5. PICK f : Fits(n, f)
  <2> HIDE DEF Fits
  <2> QED BY <1>1, <1>4
<1>6. CASE n = 0
  BY <1>1, <1>6, EmptySeq DEF FlattenSeq, ToSet
<1>7. CASE n # 0
  <2>1. \E f1 : f1 = [i \in 1 .. n |-> Body(f1, i)]
    BY <1>5
  <2>2. flatten = [i \in 1 .. n |-> Body(flatten, i)]
    <3> HIDE DEF Body
    <3> QED BY <2>1
  <2>3. FlattenSeq(s) = flatten[n]
    BY <1>7 DEF FlattenSeq
  <2> HIDE DEF flatten
  <2> DEFINE Same == {i \in 0 .. n : i # 0 => flatten[i] = f[i]}
  <2>4. 0 \in Same
    BY <1>1
  <2>5. ASSUME NEW i \in 1 .. n, i - 1 \in Same PROVE i \in Same
    <3>0. i \in 0 .. n /\ (i # 1 => i - 1 # 0)
      BY <1>1
    <3>1. flatten[i] = Body(flatten, i) /\ f[i] = Body(f, i)
      <4> HIDE DEF Body
      <4> QED BY <1>5, <2>2
    <3>2. Body(flatten, i) = Body(f, i)
      BY <2>5, <3>0
    <3> HIDE DEF Body
    <3> QED BY <3>0, <3>1, <3>2
  <2>6. \A i \in 0 .. n : i \in Same
    <3> HIDE DEF Same
    <3> QED BY <1>1, <2>4, <2>5, SetInduction
  <2>7. n \in 0 .. n /\ n \in 1 .. n
    BY <1>1, <1>7
  <2>8. FlattenSeq(s) = f[n]
    BY <1>7, <2>3, <2>6, <2>7
  <2>9. n = 1 => f[n] = s[1]
    BY <1>5, <2>7
  <2> QED
    BY <1>1, <1>5, <2>7, <2>8, <2>9
<1> QED
  BY <1>6, <1>7

-------------------------------------------------------------------------------
(* Nodes that can be constructed. *)

Sound(n) ==
  n \in Nodes /\ \A m \in Hierarchy(n) : Constructed(m) /\ (m.kind = "column" => m \in Columns)

\* A node is sound if it is constructed from sound parts.
LEMMA SoundByParts ==
  ASSUME NEW n \in Nodes
  PROVE  Sound(n) <=> /\ Constructed(n) /\ (n.kind = "column" => n \in Columns)
                      /\ \A i \in DOMAIN n.parts : Sound(n.parts[i])
<1>1. Hierarchy(n) = {n} \union UNION {Hierarchy(n.parts[i]) : i \in DOMAIN n.parts}
  BY HierarchyDefined
<1>2. \A i \in DOMAIN n.parts : n.parts[i] \in Nodes
  BY PartsAreNodes
<1> QED
  BY <1>1, <1>2 DEF Sound

\* What a constructor is given.
LEMMA ConstructedFacts ==
  ASSUME NEW n, Constructed(n)
  PROVE  /\ n.kind \in {"column", "value"} => n.parts = <<>>
         /\ n.kind = "column" => n = ColumnOf(n.table, n.name)
         /\ n.kind = "value" => n = Static(n.value)
         /\ n.kind \notin {"column", "value"} =>
              /\ n = Node(n.kind, n.operator, n.parts) /\ n.operator \in OperatorsOf(n.kind)
              /\ \/ n.kind \in {"cast", "unary", "not"} /\ Len(n.parts) = 1
                 \/ n.kind \in {"math", "binary"} /\ Len(n.parts) = 2
                 \/ n.kind = "between" /\ Len(n.parts) = 3
                 \/ n.kind \in {"in", "and", "or"} /\ Len(n.parts) >= 2
              /\ \A i \in DOMAIN n.parts : 
                   n.parts[i].kind \in IF n.kind \in Compounds THEN PredicateKinds ELSE ExpressionKinds
<1>1. CASE n = ColumnOf(n.table, n.name)
  BY <1>1 DEF ColumnOf, Node
<1>2. CASE n = Static(n.value)
  BY <1>2 DEF Static, Node
<1>3. CASE n # ColumnOf(n.table, n.name) /\ n # Static(n.value)
  BY <1>3 DEF Constructed, ToSet
<1> QED
  BY <1>1, <1>2, <1>3

\* What is known of a sound node: how many parts of which kind it has.
LEMMA SoundFacts ==
  ASSUME NEW n, Sound(n)
  PROVE  /\ n \in Nodes
         /\ DOMAIN n.parts = 1 .. Len(n.parts) /\ Len(n.parts) \in Nat
         /\ \A i \in DOMAIN n.parts : Sound(n.parts[i])
         /\ n.kind \in ExpressionKinds \union PredicateKinds
         /\ n.kind \in {"cast", "unary", "not"} => Len(n.parts) = 1
         /\ n.kind \in {"math", "binary"} => Len(n.parts) = 2
         /\ n.kind = "between" => Len(n.parts) = 3
         /\ n.kind \in {"in", "and", "or"} => Len(n.parts) >= 2
         /\ n.kind \in PredicateKinds => n = Node(n.kind, n.operator, n.parts) /\ n.operator \in OperatorsOf(n.kind)
         /\ n.kind \in Compounds => \A i \in DOMAIN n.parts : n.parts[i].kind \in PredicateKinds
         /\ n.kind \in PredicateKinds \ Compounds => \A i \in DOMAIN n.parts : n.parts[i].kind \in ExpressionKinds
         /\ n.kind \in {"cast", "math"} => \A i \in DOMAIN n.parts : n.parts[i].kind \in ExpressionKinds
<1>1. n \in Nodes
  BY DEF Sound
<1>2. Constructed(n) /\ \A i \in DOMAIN n.parts : Sound(n.parts[i])
  BY <1>1, SoundByParts
<1>3. DOMAIN n.parts = 1 .. Len(n.parts) /\ Len(n.parts) \in Nat
  BY <1>1, PartsAreNodes
<1>4. CASE n.kind = "column" \/ n.kind = "value"
  BY <1>1, <1>2, <1>3, <1>4 DEF ExpressionKinds, PredicateKinds, Compounds
<1>5. CASE n.kind \notin {"column", "value"}
  BY <1>1, <1>2, <1>3, <1>5, ConstructedFacts DEF ExpressionKinds, PredicateKinds, Compounds
<1> QED
  BY <1>4, <1>5

\* A sound column belongs to a table of the query.
LEMMA SoundColumns ==
  ASSUME NEW n, Sound(n), n.kind = "column"
  PROVE  n \in Columns /\ n.table \in Tables /\ n.parts = <<>>
BY SoundByParts, ConstructedFacts, ColumnsAssumption DEF Sound, ColumnsAssumption

\* The columns of a sound node are columns.
LEMMA ColumnsAreSound ==
  ASSUME NEW n, Sound(n)
  PROVE  ColumnsOf(n) \subseteq {c \in Columns : c.kind = "column" /\ Sound(c)}
<1> DEFINE S == {m \in Nodes : Sound(m) => ColumnsOf(m) \subseteq {c \in Columns : c.kind = "column" /\ Sound(c)}}
<1>1. ASSUME NEW m \in Nodes, \A i \in DOMAIN m.parts : m.parts[i] \in S PROVE m \in S
  <2>1. CASE m.kind = "column"
    BY <2>1, ColumnsOfDefined, SoundColumns
  <2>2. CASE m.kind # "column"
    BY <1>1, <2>2, ColumnsOfDefined, SoundFacts
  <2> QED BY <2>1, <2>2
<1>2. \A m \in Nodes : m \in S
  <2> HIDE DEF S
  <2> QED BY <1>1, NodeInduction
<1> QED
  BY <1>2 DEF Sound

\* The image of a finite set is finite.
LEMMA FiniteImage ==
  ASSUME NEW D, IsFiniteSet(D), NEW f, DOMAIN f = D
  PROVE  IsFiniteSet({f[x] : x \in D})
<1>1. [x \in D |-> f[x]] \in Surjection(D, {f[x] : x \in D})
  BY DEF Surjection
<1> QED
  BY <1>1, FS_Surjection

\* A node has finitely many parts.
LEMMA PartsAreFinite == ASSUME NEW n \in Nodes PROVE IsFiniteSet(DOMAIN n.parts)
<1>1. DOMAIN n.parts = 1 .. Len(n.parts) /\ 1 \in Int /\ Len(n.parts) \in Int
  BY PartsAreNodes
<1> QED
  BY <1>1, FS_Interval

\* A node refers to finitely many columns.
LEMMA ColumnsAreFinite ==
  ASSUME NEW n \in Nodes
  PROVE  IsFiniteSet(ColumnsOf(n))
<1> DEFINE S == {m \in Nodes : IsFiniteSet(ColumnsOf(m))}
<1>1. ASSUME NEW m \in Nodes, \A i \in DOMAIN m.parts : m.parts[i] \in S PROVE m \in S
  <2>1. CASE m.kind = "column"
    BY <2>1, ColumnsOfDefined, FS_Singleton
  <2>2. CASE m.kind # "column"
    <3> DEFINE f == [i \in DOMAIN m.parts |-> ColumnsOf(m.parts[i])]
               C == {f[i] : i \in DOMAIN m.parts}
    <3>1. IsFiniteSet(C)
      BY PartsAreFinite, FiniteImage
    <3>2. C = {ColumnsOf(m.parts[i]) : i \in DOMAIN m.parts}
      OBVIOUS
    <3>3. \A T \in C : IsFiniteSet(T)
      BY <1>1, <3>2
    <3>4. IsFiniteSet(UNION C)
      BY <3>1, <3>3, FS_UNION
    <3> HIDE DEF C
    <3> QED BY <2>2, <3>2, <3>4, ColumnsOfDefined
  <2> QED BY <2>1, <2>2
<1>2. \A m \in Nodes : m \in S
  <2> HIDE DEF S
  <2> QED BY <1>1, NodeInduction
<1> QED
  BY <1>2

-------------------------------------------------------------------------------
(* The meaning of predicates. *)

Truths == {False, Unknown, True}

\* The least and the greatest of some truth values are among them.
LEMMA LeastTruth ==
  ASSUME NEW S \in SUBSET Truths, S # {}
  PROVE  /\ Min(S) \in S /\ \A x \in S : Min(S) <= x
         /\ Max(S) \in S /\ \A x \in S : x <= Max(S)
<1> USE DEF Truths, False, Unknown, True
<1>1. \E x \in S : \A y \in S : x <= y
  <2>1. CASE 0 \in S  BY <2>1
  <2>2. CASE 0 \notin S /\ 1 \in S  BY <2>2
  <2>3. CASE 0 \notin S /\ 1 \notin S
    <3>1. \A x \in S : x = 2
      BY <2>3
    <3>2. PICK x \in S : TRUE
      OBVIOUS
    <3> QED BY <3>1, <3>2
  <2> QED BY <2>1, <2>2, <2>3
<1>2. \E x \in S : \A y \in S : x >= y
  <2>1. CASE 2 \in S  BY <2>1
  <2>2. CASE 2 \notin S /\ 1 \in S  BY <2>2
  <2>3. CASE 2 \notin S /\ 1 \notin S
    <3>1. \A x \in S : x = 0
      BY <2>3
    <3>2. PICK x \in S : TRUE
      OBVIOUS
    <3> QED BY <3>1, <3>2
  <2> QED BY <2>1, <2>2, <2>3
<1>3. Min(S) \in S /\ \A x \in S : Min(S) <= x
  BY <1>1 DEF Min
<1>4. Max(S) \in S /\ \A x \in S : Max(S) >= x
  BY <1>2 DEF Max
<1> QED
  BY <1>3, <1>4

\* Comparisons are true, false or unknown.
LEMMA ComparisonType == \A operator, v, w : Compare(operator, v, w) \in Truths
BY DEF Compare, Truths

\* Negations are true, false or unknown, and true if what they negate is false.
LEMMA NegationType == \A t \in Truths : Negation(t) \in Truths /\ (Negation(t) = True <=> t = False)
BY DEF Negation, Truths, True, False, Unknown

\* A row of the right columns gives an expression a number or NULL.
LEMMA ValueType ==
  ASSUME NEW row \in Rows, NEW e, Sound(e), e.kind \in ExpressionKinds
  PROVE  /\ Evaluate(e, row) \in Int \union {Null}
         /\ e.kind = "column" => Evaluate(e, row) = row[e]
<1> DEFINE S == {n \in Nodes : Sound(n) /\ n.kind \in ExpressionKinds =>
                    Evaluate(n, row) \in Int \union {Null}}
           Value(n) == [i \in DOMAIN n.parts |-> Evaluate(n.parts[i], row)]
<1>0. \A c \in Columns : row[c] \in Int \union {Null}
  BY ValuesAssumption DEF Rows, ValuesAssumption
<1>1. \A n \in Nodes : Evaluate(n, row) = Computed(n, row, Value(n))
  BY EvaluateDefined
<1>2. ASSUME NEW n \in Nodes, \A i \in DOMAIN n.parts : n.parts[i] \in S, Sound(n), n.kind \in ExpressionKinds
      PROVE  Evaluate(n, row) \in Int \union {Null}
  <2>1. CASE n.kind = "column"
    BY <1>0, <1>1, <1>2, <2>1, SoundColumns DEF Computed
  <2>2. CASE n.kind = "value"
    <3>1. n.value \in Int \union {Null}
      BY NodeFields, DepthAssumption DEF Nodes, DepthAssumption
    <3>2. Evaluate(n, row) = n.value
      BY <1>1, <2>2 DEF Computed
    <3> QED BY <3>1, <3>2
  <2>3. CASE n.kind = "cast" \/ n.kind = "math"
    <3> DEFINE operands == Value(n)
    <3>1. 1 \in DOMAIN n.parts /\ Len(n.parts) \in DOMAIN n.parts /\ DOMAIN operands = DOMAIN n.parts
      BY <1>2, <2>3, SoundFacts
    <3>2. Len(operands) = Len(n.parts)
      BY <1>2, SoundFacts
    <3>3. \A i \in DOMAIN n.parts : operands[i] \in Int \union {Null}
      BY <1>2, <2>3, SoundFacts
    <3>4. Evaluate(n, row) = Computed(n, row, operands)
      BY <1>1
    <3> HIDE DEF operands
    <3>5. Computed(n, row, operands) =
            IF Null \in {operands[1], operands[Len(operands)]} THEN Null
            ELSE IF n.kind = "cast" THEN 2 * (operands[1] \div 2)
            ELSE operands[1] + operands[Len(operands)]
      BY <2>3 DEF Computed
    <3> QED BY <3>1, <3>2, <3>3, <3>4, <3>5
  <2> QED
    BY <1>2, <2>1, <2>2, <2>3 DEF ExpressionKinds
<1>3. \A n \in Nodes : n \in S
  <2>1. \A n \in Nodes : (\A i \in DOMAIN n.parts : n.parts[i] \in S) => n \in S
    BY <1>2
  <2> HIDE DEF S
  <2> QED BY <2>1, NodeInduction
<1>4. e \in Nodes
  BY DEF Sound
<1>5. e.kind = "column" => Evaluate(e, row) = row[e]
  BY <1>1, <1>4 DEF Computed
<1> QED
  BY <1>3, <1>4, <1>5

\* The truth of a predicate by its kind.
LEMMA TruthByKind ==
  ASSUME NEW row, NEW p \in Nodes
  PROVE  /\ p.kind = "and" => Truth(p, row) = Min({Truth(p.parts[i], row) : i \in DOMAIN p.parts})
         /\ p.kind = "or" => Truth(p, row) = Max({Truth(p.parts[i], row) : i \in DOMAIN p.parts})
         /\ p.kind = "not" /\ 1 \in DOMAIN p.parts => Truth(p, row) = Negation(Truth(p.parts[1], row))
         /\ p.kind \notin Compounds =>
              Truth(p, row) = BaseTruth(p, [i \in DOMAIN p.parts |-> Evaluate(p.parts[i], row)])
<1> DEFINE children == [i \in DOMAIN p.parts |-> Truth(p.parts[i], row)]
<1>1. Truth(p, row) = TruthFrom(p, row, children)
  BY TruthDefined
<1>2. ToSet(children) = {Truth(p.parts[i], row) : i \in DOMAIN p.parts}
  BY DEF ToSet
<1>3. 1 \in DOMAIN p.parts => children[1] = Truth(p.parts[1], row)
  OBVIOUS
<1> HIDE DEF children
<1>4. /\ p.kind = "and" => TruthFrom(p, row, children) = Min(ToSet(children))
      /\ p.kind = "or" => TruthFrom(p, row, children) = Max(ToSet(children))
      /\ p.kind = "not" => TruthFrom(p, row, children) = Negation(children[1])
      /\ p.kind \notin Compounds => 
           TruthFrom(p, row, children) = BaseTruth(p, [i \in DOMAIN p.parts |-> Evaluate(p.parts[i], row)])
  BY DEF TruthFrom, Compounds
<1> QED
  BY <1>1, <1>2, <1>3, <1>4

\* A base predicate is true, false or unknown, whatever its operands.
LEMMA BaseTruthType ==
  ASSUME NEW p, Sound(p), p.kind \in PredicateKinds \ Compounds, NEW operands,
         DOMAIN operands = DOMAIN p.parts, Len(operands) = Len(p.parts)
  PROVE  BaseTruth(p, operands) \in Truths
<1>1. CASE p.kind = "binary"
  BY <1>1, ComparisonType DEF BaseTruth
<1>2. CASE p.kind = "between"
  <2> DEFINE S == {Compare(">=", operands[1], operands[2]), Compare("<=", operands[1], operands[3])}
  <2>1. S \in SUBSET Truths /\ S # {}
    BY ComparisonType
  <2>2. BaseTruth(p, operands) = Min(S)
    BY <1>2 DEF BaseTruth
  <2> HIDE DEF S
  <2> QED BY <2>1, <2>2, LeastTruth
<1>3. CASE p.kind = "in"
  <2> DEFINE S == {Compare("=", operands[1], operands[i]) : i \in 2 .. Len(operands)}
  <2>1. 2 \in 2 .. Len(operands)
    BY <1>3, SoundFacts
  <2>2. S \in SUBSET Truths /\ S # {}
    BY <2>1, ComparisonType
  <2>3. BaseTruth(p, operands) = IF p.operator = "IN" THEN Max(S) ELSE Negation(Max(S))
    BY <1>3 DEF BaseTruth
  <2> HIDE DEF S
  <2> QED BY <2>2, <2>3, LeastTruth, NegationType
<1>4. CASE p.kind = "unary"
  BY <1>4 DEF BaseTruth, Truths
<1> QED
  BY <1>1, <1>2, <1>3, <1>4 DEF PredicateKinds, Compounds

\* A predicate is true, false or unknown.
LEMMA TruthType ==
  ASSUME NEW row, NEW p, Sound(p), p.kind \in PredicateKinds
  PROVE  Truth(p, row) \in Truths
<1> DEFINE S == {n \in Nodes : Sound(n) /\ n.kind \in PredicateKinds => Truth(n, row) \in Truths}
<1>1. ASSUME NEW n \in Nodes, \A i \in DOMAIN n.parts : n.parts[i] \in S, Sound(n), n.kind \in PredicateKinds
      PROVE  Truth(n, row) \in Truths
  <2>1. CASE n.kind \in Compounds
    <3> DEFINE T == {Truth(n.parts[i], row) : i \in DOMAIN n.parts}
    <3>1. \A i \in DOMAIN n.parts : Truth(n.parts[i], row) \in Truths
      BY <1>1, <2>1, SoundFacts
    <3>2. 1 \in DOMAIN n.parts
      BY <1>1, <2>1, SoundFacts DEF Compounds
    <3>3. T \in SUBSET Truths /\ T # {}
      BY <3>1, <3>2
    <3>4. /\ n.kind = "and" => Truth(n, row) = Min(T)
          /\ n.kind = "or" => Truth(n, row) = Max(T)
          /\ n.kind = "not" => Truth(n, row) = Negation(Truth(n.parts[1], row))
      BY <3>2, TruthByKind
    <3> HIDE DEF T
    <3> QED
      BY <2>1, <3>1, <3>2, <3>3, <3>4, LeastTruth, NegationType DEF Compounds
  <2>2. CASE n.kind \notin Compounds
    <3> DEFINE operands == [i \in DOMAIN n.parts |-> Evaluate(n.parts[i], row)]
    <3>1. DOMAIN operands = DOMAIN n.parts /\ Len(operands) = Len(n.parts)
      BY <1>1, SoundFacts
    <3>2. Truth(n, row) = BaseTruth(n, operands)
      BY <2>2, TruthByKind
    <3> HIDE DEF operands
    <3> QED
      BY <1>1, <2>2, <3>1, <3>2, BaseTruthType
  <2> QED BY <2>1, <2>2
<1>2. \A n \in Nodes : n \in S
  <2>1. \A n \in Nodes : (\A i \in DOMAIN n.parts : n.parts[i] \in S) => n \in S
    BY <1>1
  <2> HIDE DEF S
  <2> QED BY <2>1, NodeInduction
<1> QED
  BY <1>2 DEF Sound

-------------------------------------------------------------------------------
(* Conjunctions. *)

Predicate(p) == Sound(p) /\ p.kind \in PredicateKinds

\* Whatever the height, a node's parts are one below.
LEMMA HeightOfNodes == Depth \in 0 .. Depth /\ Depth - 1 \in 0 .. Depth /\ Nodes = NodesUpTo[Depth]
BY DepthAssumption DEF DepthAssumption, Nodes

\* The conjuncts of a predicate are finitely many predicates, none of them a conjunction.
LEMMA ConjunctsFacts ==
  ASSUME NEW p, Predicate(p)
  PROVE  /\ IsFiniteSet(Conjuncts(p)) /\ Conjuncts(p) # {}
         /\ \A c \in Conjuncts(p) : Predicate(c) /\ c.kind # "and"
         /\ p.kind # "and" => Conjuncts(p) = {p}
         /\ \A h \in 0 .. Depth : p \in NodesUpTo[h] => Conjuncts(p) \subseteq NodesUpTo[h]
<1> DEFINE Fine(n) == /\ IsFiniteSet(Conjuncts(n)) /\ Conjuncts(n) # {}
                      /\ \A c \in Conjuncts(n) : Predicate(c) /\ c.kind # "and"
                      /\ \A h \in 0 .. Depth : n \in NodesUpTo[h] => Conjuncts(n) \subseteq NodesUpTo[h]
           S == {n \in Nodes : Predicate(n) => Fine(n)}
<1>1. ASSUME NEW n \in Nodes, \A i \in DOMAIN n.parts : n.parts[i] \in S, Predicate(n)
      PROVE  Fine(n)
  <2>1. CASE n.kind = "and"
    <3> DEFINE f == [i \in DOMAIN n.parts |-> Conjuncts(n.parts[i])]
               C == {f[i] : i \in DOMAIN n.parts}
    <3>1. IsFiniteSet(C)
      BY PartsAreFinite, FiniteImage
    <3>2. C = {Conjuncts(n.parts[i]) : i \in DOMAIN n.parts}
      OBVIOUS
    <3>3. Conjuncts(n) = UNION C
      BY <2>1, <3>2, ConjunctsDefined
    <3>4. \A i \in DOMAIN n.parts : Fine(n.parts[i]) 
      <4>1. \A i \in DOMAIN n.parts : Predicate(n.parts[i]) /\ n.parts[i] \in S
        BY <1>1, <2>1, SoundFacts DEF Compounds, Predicate
      <4> QED BY <4>1
    <3>5. 1 \in DOMAIN n.parts
      BY <1>1, <2>1, SoundFacts DEF Predicate
    <3> HIDE DEF C
    <3>6. \A T \in C : IsFiniteSet(T)
      BY <3>2, <3>4
    <3>7. IsFiniteSet(Conjuncts(n))
      BY <3>1, <3>3, <3>6, FS_UNION
    <3>8. Conjuncts(n) # {} /\ \A c \in Conjuncts(n) : Predicate(c) /\ c.kind # "and"
      BY <3>2, <3>3, <3>4, <3>5
    <3>9. ASSUME NEW h \in 0 .. Depth, n \in NodesUpTo[h] PROVE Conjuncts(n) \subseteq NodesUpTo[h]
      <4>1. \A i \in DOMAIN n.parts : n.parts[i] \in NodesUpTo[h]
        <5>1. \A i \in DOMAIN n.parts : h # 0 /\ h - 1 \in 0 .. Depth /\ n.parts[i] \in NodesUpTo[h - 1]
          BY <3>9, PartsAreLower
        <5>2. h \in 1 .. Depth
          BY <3>5, <5>1
        <5>3. NodesUpTo[h - 1] \subseteq NodesUpTo[h]
          BY <5>2, HeightsGrowByOne
        <5> QED BY <5>1, <5>3
      <4> QED BY <3>2, <3>3, <3>4, <4>1
    <3> HIDE DEF Predicate
    <3> QED BY <3>7, <3>8, <3>9
  <2>2. CASE n.kind # "and"
    <3>1. Conjuncts(n) = {n}
      BY <2>2, ConjunctsDefined
    <3> QED BY <1>1, <2>2, <3>1, FS_Singleton
  <2> QED BY <2>1, <2>2
<1>2. \A n \in Nodes : n \in S
  <2>1. \A n \in Nodes : (\A i \in DOMAIN n.parts : n.parts[i] \in S) => n \in S
    <3> HIDE DEF Fine
    <3> QED BY <1>1
  <2> HIDE DEF S
  <2> QED BY <2>1, NodeInduction
<1>3. p \in Nodes
  BY DEF Predicate, Sound
<1>4. p.kind # "and" => Conjuncts(p) = {p}
  BY <1>3, ConjunctsDefined
<1> QED
  BY <1>2, <1>3, <1>4

\* A conjunction is true if its parts are.
LEMMA LeastIsTrue ==
  ASSUME NEW D, D # {}, NEW f, \A i \in D : f[i] \in Truths
  PROVE  /\ Min({f[i] : i \in D}) \in Truths
         /\ Min({f[i] : i \in D}) = True <=> \A i \in D : f[i] = True
<1> DEFINE T == {f[i] : i \in D}
<1>1. T \in SUBSET Truths /\ T # {}
  OBVIOUS
<1>2. Min(T) \in T /\ \A x \in T : Min(T) <= x
  <2> HIDE DEF T
  <2> QED BY <1>1, LeastTruth
<1>3. \A x \in Truths : True <= x <=> x = True
  BY DEF Truths, True, False, Unknown
<1> QED BY <1>1, <1>2, <1>3

\* A conjunction keeps the rows that all its parts keep.
LEMMA AndKeeps ==
  ASSUME NEW p, Predicate(p), p.kind = "and", NEW row
  PROVE  Keeps(p, row) <=> \A i \in DOMAIN p.parts : Keeps(p.parts[i], row)
<1> DEFINE f == [i \in DOMAIN p.parts |-> Truth(p.parts[i], row)]
<1>1. p \in Nodes /\ 1 \in DOMAIN p.parts /\ \A i \in DOMAIN p.parts : Predicate(p.parts[i])
  BY SoundFacts DEF Predicate, Compounds
<1>2. \A i \in DOMAIN p.parts : f[i] \in Truths
  BY <1>1, TruthType DEF Predicate
<1>3. {f[i] : i \in DOMAIN p.parts} = {Truth(p.parts[i], row) : i \in DOMAIN p.parts}
  OBVIOUS
<1>4. Truth(p, row) = Min({f[i] : i \in DOMAIN p.parts})
  BY <1>1, <1>3, TruthByKind
<1>5. Truth(p, row) = True <=> \A i \in DOMAIN p.parts : f[i] = True
  <2>1. DOMAIN p.parts # {}
    BY <1>1
  <2> HIDE DEF f
  <2>2. Min({f[i] : i \in DOMAIN p.parts}) = True <=> \A i \in DOMAIN p.parts : f[i] = True
    BY <1>2, <2>1, LeastIsTrue, Zenon
  <2> QED BY <1>4, <2>2
<1> QED BY <1>5 DEF Keeps

\* WHERE keeps the rows that all conjuncts keep.
LEMMA KeepsConjuncts ==
  ASSUME NEW row, NEW p, Predicate(p)
  PROVE  Keeps(p, row) <=> \A c \in Conjuncts(p) : Keeps(c, row)
<1> DEFINE S == {n \in Nodes : Predicate(n) => (Keeps(n, row) <=> \A c \in Conjuncts(n) : Keeps(c, row))}
<1>1. ASSUME NEW n \in Nodes, \A i \in DOMAIN n.parts : n.parts[i] \in S, Predicate(n)
      PROVE  Keeps(n, row) <=> \A c \in Conjuncts(n) : Keeps(c, row)
  <2>1. CASE n.kind = "and"
    <3>1. \A i \in DOMAIN n.parts : Predicate(n.parts[i])
      BY <1>1, <2>1, SoundFacts DEF Predicate, Compounds
    <3>2. Conjuncts(n) = UNION {Conjuncts(n.parts[i]) : i \in DOMAIN n.parts}
      BY <2>1, ConjunctsDefined
    <3>3. Keeps(n, row) <=> \A i \in DOMAIN n.parts : Keeps(n.parts[i], row)
      BY <1>1, <2>1, AndKeeps
    <3> QED BY <1>1, <3>1, <3>2, <3>3
  <2>2. CASE n.kind # "and"
    BY <1>1, <2>2, ConjunctsFacts
  <2> QED BY <2>1, <2>2
<1>2. \A n \in Nodes : n \in S
  <2>1. \A n \in Nodes : (\A i \in DOMAIN n.parts : n.parts[i] \in S) => n \in S
    BY <1>1
  <2> HIDE DEF S
  <2> QED BY <2>1, NodeInduction
<1> QED
  BY <1>2 DEF Predicate, Sound

\* A compound predicate of sound parts is sound; AND and OR of one part are that part.
LEMMA CompoundFacts ==
  ASSUME NEW h \in 1 .. Depth, NEW kind \in Compounds, NEW s \in Seq(NodesUpTo[h - 1]),
         \A i \in DOMAIN s : Predicate(s[i]), Len(s) # 0, kind = "not" => Len(s) = 1,
         NEW p, p = Compound(kind, s)
  PROVE  /\ Predicate(p) /\ p \in NodesUpTo[h]
         /\ (Len(s) = 1 /\ kind # "not") => p = s[1]
         /\ ~(Len(s) = 1 /\ kind # "not") => (p = Node(kind, Blank, s) /\ p.kind = kind /\ p.parts = s)
<1>0. DOMAIN s = 1 .. Len(s) /\ Len(s) \in Nat
  BY LenProperties
<1>1. CASE Len(s) = 1 /\ kind # "not"
  <2>1. Compound(kind, s) = s[1] /\ 1 \in DOMAIN s
    BY <1>0, <1>1 DEF Compound
  <2>2. s[1] \in NodesUpTo[h]
    BY <1>0, <2>1, ElementOfSeq, HeightsGrowByOne
  <2> QED BY <1>1, <2>1, <2>2
<1>2. CASE ~(Len(s) = 1 /\ kind # "not")
  <2> DEFINE q == Node(kind, Blank, s)
  <2>1. p = q
    BY <1>2 DEF Compound
  <2>2. q.kind = kind /\ q.parts = s /\ q.operator = Blank /\ q = Node(q.kind, q.operator, q.parts)
    BY DEF Node
  <2>3. /\ kind \in NodeNames /\ Blank \in OperatorsOf(kind) /\ Blank \in NodeNames
        /\ Null \in Int \union {Null}
    BY DEF Compounds, Kinds, PredicateKinds, OperatorsOf, NodeNames
  <2>4. q \in NodesUpTo[h]
    BY <2>3, IsNode DEF Node, NodeNames
  <2> HIDE DEF q
  <2>5. q \in Nodes
    BY <2>4, HeightsAreNodes
  <2>6. q.operator \in OperatorsOf(q.kind)
    BY <2>2 DEF OperatorsOf, Compounds
  <2>7. \/ q.kind = "not" /\ Len(q.parts) = 1
        \/ q.kind \in {"and", "or"} /\ Len(q.parts) >= 2
    <3>1. Len(s) = 1 \/ Len(s) >= 2
      BY <1>0
    <3> QED BY <1>2, <2>2, <3>1 DEF Compounds
  <2>8. \A part \in ToSet(q.parts) : part.kind \in PredicateKinds
    BY <2>2 DEF ToSet, Predicate
  <2>9. Constructed(q)
    BY <2>2, <2>6, <2>7, <2>8 DEF Constructed
  <2>10. q.kind # "column" /\ q.kind \in PredicateKinds
    BY <2>2 DEF Compounds, PredicateKinds
  <2>11. \A i \in DOMAIN q.parts : Sound(q.parts[i])
    BY <2>2 DEF Predicate
  <2>12. Sound(q)
    BY <2>5, <2>9, <2>10, <2>11, SoundByParts
  <2> QED BY <1>2, <2>1, <2>2, <2>4, <2>10, <2>12 DEF Predicate, q
<1> QED BY <1>1, <1>2

-------------------------------------------------------------------------------
(* Base predicates that are made by rewriting. *)

\* A pair is a sequence of two.
LEMMA PairFacts ==
  ASSUME NEW S, NEW a \in S, NEW b \in S, NEW t, t = << a, b >>
  PROVE  t \in Seq(S) /\ Len(t) = 2 /\ DOMAIN t = 1 .. 2 /\ t[1] = a /\ t[2] = b
OBVIOUS

\* A triple is a sequence of three.
LEMMA TripleFacts ==
  ASSUME NEW S, NEW a \in S, NEW b \in S, NEW c \in S, NEW t, t = << a, b, c >>
  PROVE  t \in Seq(S) /\ Len(t) = 3 /\ DOMAIN t = 1 .. 3 /\ t[1] = a /\ t[2] = b /\ t[3] = c
OBVIOUS

\* A base predicate of sound expressions is sound.
LEMMA BasePredicateIsSound ==
  ASSUME NEW h \in 1 .. Depth, NEW kind \in {"binary", "between"}, NEW operator \in OperatorsOf(kind),
         NEW s \in Seq(NodesUpTo[h - 1]), Len(s) = IF kind = "binary" THEN 2 ELSE 3,
         \A i \in DOMAIN s : Sound(s[i]) /\ s[i].kind \in ExpressionKinds
  PROVE  LET p == Node(kind, operator, s)
         IN /\ Predicate(p) /\ p \in NodesUpTo[h]
            /\ p.kind = kind /\ p.operator = operator /\ p.parts = s
<1> DEFINE p == Node(kind, operator, s)
<1>1. p.kind = kind /\ p.operator = operator /\ p.parts = s /\ p = Node(p.kind, p.operator, p.parts)
  BY DEF Node
<1>2. kind \in Kinds /\ kind \in PredicateKinds /\ kind \notin Compounds /\ kind # "column"
  BY DEF Kinds, PredicateKinds, Compounds
<1>3. p \in NodesUpTo[h]
  BY <1>2, IsNode DEF Node, NodeNames
<1> HIDE DEF p
<1>4. \A part \in ToSet(p.parts) : part.kind \in ExpressionKinds
  BY <1>1 DEF ToSet
<1>5. \/ p.kind = "binary" /\ Len(p.parts) = 2
      \/ p.kind = "between" /\ Len(p.parts) = 3
  BY <1>1
<1>6. Constructed(p)
  BY <1>1, <1>2, <1>4, <1>5 DEF Constructed
<1>7. Sound(p)
  BY <1>1, <1>2, <1>3, <1>6, HeightsAreNodes, SoundByParts
<1> QED
  BY <1>1, <1>2, <1>3, <1>7 DEF Predicate, p

\* A comparison that is made of two expressions.
LEMMA BinaryFacts ==
  ASSUME NEW h \in 1 .. Depth, NEW operator \in OperatorsOf("binary"),
         NEW a \in NodesUpTo[h - 1], NEW b \in NodesUpTo[h - 1],
         Sound(a), Sound(b), a.kind \in ExpressionKinds, b.kind \in ExpressionKinds,
         NEW p, p = Binary(operator, a, b)
  PROVE  /\ Predicate(p) /\ p \in NodesUpTo[h]
         /\ p.kind = "binary" /\ p.operator = operator /\ p.parts = << a, b >>
         /\ \A row : Truth(p, row) = Compare(operator, Evaluate(a, row), Evaluate(b, row))
<1> DEFINE s == << a, b >>
<1>1. s \in Seq(NodesUpTo[h - 1]) /\ Len(s) = 2 /\ DOMAIN s = 1 .. 2 /\ s[1] = a /\ s[2] = b
  BY PairFacts
<1>2. p = Node("binary", operator, s)
  BY DEF Binary
<1> HIDE DEF s
<1>3. \A i \in DOMAIN s : i = 1 \/ i = 2
  BY <1>1
<1>4. \A i \in DOMAIN s : Sound(s[i]) /\ s[i].kind \in ExpressionKinds
  BY <1>1, <1>3
<1>5. Predicate(p) /\ p \in NodesUpTo[h] /\ p.kind = "binary" /\ p.operator = operator /\ p.parts = s
  BY <1>1, <1>2, <1>4, BasePredicateIsSound
<1>6. ASSUME NEW row PROVE Truth(p, row) = Compare(operator, Evaluate(a, row), Evaluate(b, row))
  <2> DEFINE operands == [i \in DOMAIN p.parts |-> Evaluate(p.parts[i], row)]
  <2>1. p \in Nodes /\ p.kind \notin Compounds
    BY <1>5 DEF Predicate, Sound, Compounds
  <2>2. Truth(p, row) = BaseTruth(p, operands)
    BY <2>1, TruthByKind
  <2>3. operands[1] = Evaluate(a, row) /\ operands[2] = Evaluate(b, row)
    BY <1>1, <1>5
  <2> HIDE DEF operands
  <2>4. BaseTruth(p, operands) = Compare(p.operator, operands[1], operands[2])
    BY <1>5 DEF BaseTruth
  <2> QED BY <1>5, <2>2, <2>3, <2>4
<1> QED
  BY <1>5, <1>6 DEF s

\* A BETWEEN that is made of three expressions says what two comparisons say.
LEMMA BetweenFacts ==
  ASSUME NEW h \in 1 .. Depth,
         NEW a \in NodesUpTo[h - 1], NEW b \in NodesUpTo[h - 1], NEW c \in NodesUpTo[h - 1],
         Sound(a), Sound(b), Sound(c),
         a.kind \in ExpressionKinds, b.kind \in ExpressionKinds, c.kind \in ExpressionKinds,
         NEW p, p = Between(a, b, c)
  PROVE  /\ Predicate(p) /\ p \in NodesUpTo[h] /\ p.kind = "between" /\ p.operator = "BETWEEN"
         /\ \A row : LET above == Compare(">=", Evaluate(a, row), Evaluate(b, row))
                        below == Compare("<=", Evaluate(a, row), Evaluate(c, row))
                    IN /\ Truth(p, row) = above \/ Truth(p, row) = below
                       /\ Truth(p, row) <= above /\ Truth(p, row) <= below
<1> DEFINE s == << a, b, c >>
<1>1. s \in Seq(NodesUpTo[h - 1]) /\ Len(s) = 3 /\ DOMAIN s = 1 .. 3 /\ s[1] = a /\ s[2] = b /\ s[3] = c
  BY TripleFacts
<1>2. p = Node("between", "BETWEEN", s)
  BY DEF Between
<1> HIDE DEF s
<1>3. \A i \in DOMAIN s : i = 1 \/ i = 2 \/ i = 3
  BY <1>1
<1>4. \A i \in DOMAIN s : Sound(s[i]) /\ s[i].kind \in ExpressionKinds
  BY <1>1, <1>3
<1>5. "BETWEEN" \in OperatorsOf("between")
  BY DEF OperatorsOf
<1>6. Predicate(p) /\ p \in NodesUpTo[h] /\ p.kind = "between" /\ p.operator = "BETWEEN" /\ p.parts = s
  BY <1>1, <1>2, <1>4, <1>5, BasePredicateIsSound
<1>7. ASSUME NEW row
      PROVE  LET above == Compare(">=", Evaluate(a, row), Evaluate(b, row))
                 below == Compare("<=", Evaluate(a, row), Evaluate(c, row))
             IN /\ Truth(p, row) = above \/ Truth(p, row) = below
                /\ Truth(p, row) <= above /\ Truth(p, row) <= below
  <2> DEFINE operands == [i \in DOMAIN p.parts |-> Evaluate(p.parts[i], row)]
             above == Compare(">=", Evaluate(a, row), Evaluate(b, row))
             below == Compare("<=", Evaluate(a, row), Evaluate(c, row))
  <2>1. p \in Nodes /\ p.kind \notin Compounds
    BY <1>6 DEF Predicate, Sound, Compounds
  <2>2. Truth(p, row) = BaseTruth(p, operands)
    BY <2>1, TruthByKind
  <2>3. operands[1] = Evaluate(a, row) /\ operands[2] = Evaluate(b, row) /\ operands[3] = Evaluate(c, row)
    BY <1>1, <1>6
  <2> HIDE DEF operands
  <2>4. BaseTruth(p, operands) = Min({Compare(">=", operands[1], operands[2]), Compare("<=", operands[1], operands[3])})
    BY <1>6 DEF BaseTruth
  <2>5. Truth(p, row) = Min({above, below})
    BY <2>2, <2>3, <2>4
  <2>6. above \in Truths /\ below \in Truths
    BY ComparisonType
  <2> HIDE DEF above, below
  <2>7. {above, below} \in SUBSET Truths /\ {above, below} # {}
    BY <2>6
  <2>8. Min({above, below}) \in {above, below} /\ \A x \in {above, below} : Min({above, below}) <= x
    BY <2>7, LeastTruth
  <2>9. /\ Truth(p, row) = above \/ Truth(p, row) = below
        /\ Truth(p, row) <= above /\ Truth(p, row) <= below
    BY <2>5, <2>8
  <2> QED BY <2>9 DEF above, below
<1> QED
  BY <1>6, <1>7

\* A binary predicate compares its two parts.
LEMMA BinaryTruth ==
  ASSUME NEW p, Predicate(p), p.kind = "binary", NEW row
  PROVE  /\ DOMAIN p.parts = 1 .. 2 /\ Len(p.parts) = 2 /\ p.parts = << p.parts[1], p.parts[2] >>
         /\ Sound(p.parts[1]) /\ Sound(p.parts[2])
         /\ p.parts[1].kind \in ExpressionKinds /\ p.parts[2].kind \in ExpressionKinds
         /\ p.operator \in OperatorsOf("binary") /\ p = Binary(p.operator, p.parts[1], p.parts[2])
         /\ Truth(p, row) = Compare(p.operator, Evaluate(p.parts[1], row), Evaluate(p.parts[2], row))
<1> DEFINE operands == [i \in DOMAIN p.parts |-> Evaluate(p.parts[i], row)]
<1>1. p.kind \notin Compounds
  BY DEF Compounds
<1>2. /\ p \in Nodes /\ Len(p.parts) = 2 /\ DOMAIN p.parts = 1 .. 2
      /\ \A i \in DOMAIN p.parts : Sound(p.parts[i]) /\ p.parts[i].kind \in ExpressionKinds
      /\ p = Node(p.kind, p.operator, p.parts) /\ p.operator \in OperatorsOf("binary")
  BY <1>1, SoundFacts DEF Predicate
<1>3. Truth(p, row) = BaseTruth(p, operands)
  BY <1>1, <1>2, TruthByKind
<1>4. operands[1] = Evaluate(p.parts[1], row) /\ operands[2] = Evaluate(p.parts[2], row)
  BY <1>2
<1> HIDE DEF operands
<1>5. BaseTruth(p, operands) = Compare(p.operator, operands[1], operands[2])
  BY DEF BaseTruth
<1>6. p.parts = << p.parts[1], p.parts[2] >>
  <2>1. p.parts \in Seq(Nodes)
    BY <1>2, PartsAreNodes, NodeFields, HeightOfNodes, HeightsAreNodes, SeqMonotonic
  <2> QED
    BY <1>2, <2>1
<1>7. p = Binary(p.operator, p.parts[1], p.parts[2])
  BY <1>2, <1>6 DEF Binary
<1> QED
  BY <1>2, <1>3, <1>4, <1>5, <1>6, <1>7

-------------------------------------------------------------------------------
(* infer_between_predicates. *)

BoundAt(s, i) == CHOOSE b \in BoundsOf(s[i]) : TRUE
Bounding(s) == {i \in DOMAIN s : BoundsOf(s[i]) # {}}
Repeats(s, j, i) == /\ j < i /\ BoundAt(s, j).column = BoundAt(s, i).column
                    /\ BoundAt(s, j).upper = BoundAt(s, i).upper
First(s) == {i \in Bounding(s) : \A j \in Bounding(s) : ~Repeats(s, j, i)}
Candidates(s) == {BoundAt(s, i) : i \in First(s)}
Blocked(s) == {BoundAt(s, i).column : i \in Bounding(s) \ First(s)}
BoundPairs(s) ==
  {pair \in {c \in Candidates(s) : ~c.upper} \X {c \in Candidates(s) : c.upper} :
     pair[1].column = pair[2].column /\ pair[1].column \notin Blocked(s)}
Single(s) == {c \in Candidates(s) : \A pair \in BoundPairs(s) : c \notin ToSet(pair)}
Added(s) ==
  {Between(pair[1].column, pair[1].value, pair[2].value) : pair \in BoundPairs(s)}
  \union {Bounded(b) : b \in Single(s)}
Kept(s) == [i \in DOMAIN s |-> IF i \in First(s) THEN <<>> ELSE << s[i] >>]

\* BetweenBounds, by the definitions above.
LEMMA BetweenBoundsParts ==
  ASSUME NEW s
  PROVE  BetweenBounds(s) = Compound("and", FlattenSeq(Kept(s)) \o SetToSeq(Added(s)))
BY DEF BetweenBounds, BoundAt, Bounding, Repeats, First, Candidates, Blocked, BoundPairs, Single, Added, Kept

\* A comparison with operands of a sound row.
LEMMA ComparisonsReverse ==
  ASSUME NEW v \in Int \union {Null}, NEW w \in Int \union {Null}
  PROVE  /\ Compare("<=", v, w) = Compare(">=", w, v)
         /\ Compare(">=", v, w) = Compare("<=", w, v)
         /\ Compare("<", v, w) = Compare(">", w, v)
         /\ Compare(">", v, w) = Compare("<", w, v)
         /\ Compare("=", v, w) = Compare("=", w, v)
         /\ Compare("<>", v, w) = Compare("<>", w, v)
<1>1. CASE v = Null \/ w = Null
  BY <1>1 DEF Compare
<1>2. CASE v # Null /\ w # Null
  BY <1>2 DEF Compare
<1> QED BY <1>1, <1>2

\* A bound says what the predicate it was taken from says.
LEMMA BoundFacts ==
  ASSUME NEW g \in 0 .. Depth, NEW p \in NodesUpTo[g], Predicate(p), NEW b \in BoundsOf(p)
  PROVE  /\ g \in 1 .. Depth /\ b.column \in NodesUpTo[g - 1] /\ b.value \in NodesUpTo[g - 1]
         /\ Sound(b.column) /\ Sound(b.value)
         /\ b.column.kind \in ExpressionKinds /\ b.value.kind \in ExpressionKinds
         /\ p.kind = "binary" /\ p.operator \in {"<=", ">="}
         /\ \A row \in Rows : Truth(p, row) =
              Compare(IF b.upper THEN "<=" ELSE ">=", Evaluate(b.column, row), Evaluate(b.value, row))
<1>1. p.kind = "binary" /\ p.operator \in {"<=", ">="}
  BY DEF BoundsOf
<1>2. PICK i \in 1 .. 2 : b = [column |-> p.parts[i], upper |-> (i = 1) = (p.operator = "<="),
                                value |-> p.parts[3 - i]]
  BY <1>1 DEF BoundsOf
<1>3. /\ DOMAIN p.parts = 1 .. 2 /\ Sound(p.parts[1]) /\ Sound(p.parts[2])
      /\ p.parts[1].kind \in ExpressionKinds /\ p.parts[2].kind \in ExpressionKinds
      /\ \A row : Truth(p, row) = Compare(p.operator, Evaluate(p.parts[1], row), Evaluate(p.parts[2], row))
  BY <1>1, BinaryTruth
<1>4. /\ g # 0 /\ g - 1 \in 0 .. Depth /\ p.parts[1] \in NodesUpTo[g - 1] /\ p.parts[2] \in NodesUpTo[g - 1]
  BY <1>3, PartsAreLower
<1>5. g \in 1 .. Depth
  BY <1>4
<1>6. \A row \in Rows : /\ Evaluate(p.parts[1], row) \in Int \union {Null}
                        /\ Evaluate(p.parts[2], row) \in Int \union {Null}
  BY <1>3, ValueType
<1>7. CASE i = 1
  <2>1. b.column = p.parts[1] /\ b.value = p.parts[2] /\ b.upper = ((1 = 1) = (p.operator = "<="))
    BY <1>2, <1>7, 3 - 1 = 2, Zenon
  <2>2. b.upper <=> p.operator = "<="
    BY <2>1, Zenon
  <2> QED BY <1>1, <1>3, <1>4, <1>5, <2>1, <2>2
<1>8. CASE i = 2
  <2>1. b.column = p.parts[2] /\ b.value = p.parts[1] /\ b.upper = ((2 = 1) = (p.operator = "<="))
    BY <1>2, <1>8, 3 - 2 = 1, Zenon
  <2>3. 2 # 1
    OBVIOUS
  <2>4. b.upper <=> p.operator # "<="
    BY <2>1, <2>3, Zenon
  <2>2. ASSUME NEW row \in Rows
        PROVE  Truth(p, row) = Compare(IF b.upper THEN "<=" ELSE ">=", Evaluate(b.column, row), Evaluate(b.value, row))
    <3> DEFINE v == Evaluate(p.parts[1], row)
               w == Evaluate(p.parts[2], row)
    <3>1. v \in Int \union {Null} /\ w \in Int \union {Null}
      BY <1>6
    <3>2. Truth(p, row) = Compare(p.operator, v, w)
      BY <1>3
    <3>3. Evaluate(b.column, row) = w /\ Evaluate(b.value, row) = v
      BY <2>1
    <3> HIDE DEF v, w
    <3> QED BY <1>1, <2>1, <2>4, <3>1, <3>2, <3>3, ComparisonsReverse
  <2> QED BY <1>1, <1>3, <1>4, <1>5, <2>1, <2>2, <2>4
<1> QED BY <1>7, <1>8

\* What a bound becomes by itself is the predicate it was taken from, in meaning.
LEMMA BoundedFacts ==
  ASSUME NEW g \in 0 .. Depth, NEW p \in NodesUpTo[g], Predicate(p), NEW b \in BoundsOf(p)
  PROVE  /\ Predicate(Bounded(b)) /\ Bounded(b) \in NodesUpTo[g]
         /\ Bounded(b).kind = "binary" /\ Bounded(b).operator # "="
         /\ \A row \in Rows : Truth(Bounded(b), row) = Truth(p, row)
<1> DEFINE op == IF b.upper THEN "<=" ELSE ">="
<1>1. op \in OperatorsOf("binary") /\ op # "="
  BY DEF OperatorsOf
<1>2. Bounded(b) = Binary(op, b.column, b.value)
  BY DEF Bounded
<1>3. \A row \in Rows : Truth(p, row) = Compare(op, Evaluate(b.column, row), Evaluate(b.value, row))
  BY BoundFacts
<1>4. /\ g \in 1 .. Depth /\ b.column \in NodesUpTo[g - 1] /\ b.value \in NodesUpTo[g - 1]
      /\ Sound(b.column) /\ Sound(b.value)
      /\ b.column.kind \in ExpressionKinds /\ b.value.kind \in ExpressionKinds
  BY BoundFacts
<1> HIDE DEF op
<1> QED BY <1>1, <1>2, <1>3, <1>4, BinaryFacts

\* BETWEEN says what its two bounds say.
LEMMA PairedFacts ==
  ASSUME NEW g \in 0 .. Depth, NEW p \in NodesUpTo[g], Predicate(p), NEW q \in NodesUpTo[g], Predicate(q),
         NEW l \in BoundsOf(p), NEW u \in BoundsOf(q), l.column = u.column, ~l.upper, u.upper,
         NEW b, b = Between(l.column, l.value, u.value)
  PROVE  /\ Predicate(b) /\ b \in NodesUpTo[g] /\ b.kind = "between" /\ b.operator # "="
         /\ \A row \in Rows : /\ Truth(b, row) = Truth(p, row) \/ Truth(b, row) = Truth(q, row)
                              /\ Truth(b, row) <= Truth(p, row) /\ Truth(b, row) <= Truth(q, row)
<1>1. /\ g \in 1 .. Depth /\ l.column \in NodesUpTo[g - 1] /\ l.value \in NodesUpTo[g - 1]
      /\ Sound(l.column) /\ Sound(l.value)
      /\ l.column.kind \in ExpressionKinds /\ l.value.kind \in ExpressionKinds
      /\ \A row \in Rows : Truth(p, row) = Compare(">=", Evaluate(l.column, row), Evaluate(l.value, row))
  BY BoundFacts, Zenon
<1>2. /\ u.value \in NodesUpTo[g - 1] /\ Sound(u.value) /\ u.value.kind \in ExpressionKinds
      /\ \A row \in Rows : Truth(q, row) = Compare("<=", Evaluate(u.column, row), Evaluate(u.value, row))
  BY BoundFacts, Zenon
<1> DEFINE c == l.column
           v == l.value
           w == u.value
<1>3. u.column = c
  OBVIOUS
<1>4. /\ g \in 1 .. Depth /\ c \in NodesUpTo[g - 1] /\ v \in NodesUpTo[g - 1] /\ w \in NodesUpTo[g - 1]
      /\ Sound(c) /\ Sound(v) /\ Sound(w)
      /\ c.kind \in ExpressionKinds /\ v.kind \in ExpressionKinds /\ w.kind \in ExpressionKinds
      /\ b = Between(c, v, w)
  BY <1>1, <1>2
<1>5. ASSUME NEW row \in Rows
      PROVE  /\ Truth(p, row) = Compare(">=", Evaluate(c, row), Evaluate(v, row))
             /\ Truth(q, row) = Compare("<=", Evaluate(c, row), Evaluate(w, row))
  BY <1>1, <1>2, <1>3
<1> HIDE DEF c, v, w
<1>6. /\ Predicate(b) /\ b \in NodesUpTo[g] /\ b.kind = "between" /\ b.operator = "BETWEEN"
      /\ \A row : LET above == Compare(">=", Evaluate(c, row), Evaluate(v, row))
                     below == Compare("<=", Evaluate(c, row), Evaluate(w, row))
                 IN /\ Truth(b, row) = above \/ Truth(b, row) = below
                    /\ Truth(b, row) <= above /\ Truth(b, row) <= below
  BY <1>4, BetweenFacts
<1>7. ASSUME NEW row \in Rows
      PROVE  /\ Truth(b, row) = Truth(p, row) \/ Truth(b, row) = Truth(q, row)
             /\ Truth(b, row) <= Truth(p, row) /\ Truth(b, row) <= Truth(q, row)
  BY <1>5, <1>6
<1> QED
  BY <1>6, <1>7

-------------------------------------------------------------------------------
(* Conjunctions that infer_between_predicates rewrites. *)

\* The conditions that AND is made of, of a certain height.
PredicatesOf(s, g) ==
  s \in Seq(NodesUpTo[g]) /\ Len(s) # 0 /\ \A i \in DOMAIN s : Predicate(s[i])

\* Such parts are finitely many nodes.
LEMMA PredicatesOfFacts ==
  ASSUME NEW h \in 1 .. Depth, NEW s, PredicatesOf(s, h - 1)
  PROVE  /\ h - 1 \in 0 .. Depth /\ DOMAIN s = 1 .. Len(s) /\ Len(s) \in Nat /\ IsFiniteSet(DOMAIN s)
         /\ DOMAIN s # {} /\ \A i \in DOMAIN s : s[i] \in NodesUpTo[h - 1] /\ Predicate(s[i])
<1>1. h - 1 \in 0 .. Depth
  BY DepthAssumption DEF DepthAssumption
<1>2. DOMAIN s = 1 .. Len(s) /\ Len(s) \in Nat /\ Len(s) # 0
  BY LenProperties DEF PredicatesOf
<1>3. Len(s) \in Int
  BY <1>2
<1>4. IsFiniteSet(DOMAIN s)
  BY <1>2, <1>3, FS_Interval
<1> QED BY <1>1, <1>2, <1>4, ElementOfSeq DEF PredicatesOf

\* What is added comes from the bounds of the parts.
LEMMA AddedFacts ==
  ASSUME NEW h \in 1 .. Depth, NEW s, PredicatesOf(s, h - 1), NEW x \in Added(s)
  PROVE  /\ Predicate(x) /\ x \in NodesUpTo[h - 1] /\ x.kind # "and" /\ x.operator # "="
         /\ \A row \in Rows : \E i \in DOMAIN s : Truth(x, row) = Truth(s[i], row)
<1>0. \A c \in Candidates(s) : \E i \in DOMAIN s : c \in BoundsOf(s[i])
  BY DEF Candidates, First, Bounding, BoundAt
<1>1. CASE \E c \in Single(s) : x = Bounded(c)
  <2>1. PICK c \in Single(s) : x = Bounded(c)
    BY <1>1
  <2>2. PICK i \in DOMAIN s : c \in BoundsOf(s[i])
    BY <1>0, <2>1 DEF Single
  <2>3. h - 1 \in 0 .. Depth /\ s[i] \in NodesUpTo[h - 1] /\ Predicate(s[i])
    BY PredicatesOfFacts
  <2>4. /\ Predicate(x) /\ x \in NodesUpTo[h - 1] /\ x.kind = "binary" /\ x.operator # "="
        /\ \A row \in Rows : Truth(x, row) = Truth(s[i], row)
    BY <2>1, <2>2, <2>3, BoundedFacts, Zenon
  <2> QED BY <2>4
<1>2. CASE \E pair \in BoundPairs(s) : x = Between(pair[1].column, pair[1].value, pair[2].value)
  <2>1. PICK pair \in BoundPairs(s) : x = Between(pair[1].column, pair[1].value, pair[2].value)
    BY <1>2
  <2> DEFINE l == pair[1]
             u == pair[2]
  <2>2. l \in Candidates(s) /\ u \in Candidates(s) /\ ~l.upper /\ u.upper /\ l.column = u.column
    BY DEF BoundPairs
  <2>3. x = Between(l.column, l.value, u.value)
    BY <2>1
  <2> HIDE DEF l, u
  <2>4. PICK i \in DOMAIN s, j \in DOMAIN s : l \in BoundsOf(s[i]) /\ u \in BoundsOf(s[j])
    BY <1>0, <2>2
  <2>5. /\ h - 1 \in 0 .. Depth /\ s[i] \in NodesUpTo[h - 1] /\ Predicate(s[i])
        /\ s[j] \in NodesUpTo[h - 1] /\ Predicate(s[j])
    BY PredicatesOfFacts
  <2>6. /\ Predicate(x) /\ x \in NodesUpTo[h - 1] /\ x.kind = "between" /\ x.operator # "="
        /\ \A row \in Rows : Truth(x, row) = Truth(s[i], row) \/ Truth(x, row) = Truth(s[j], row)
    BY <2>2, <2>3, <2>4, <2>5, PairedFacts
  <2> QED BY <2>6
<1> QED
  BY <1>1, <1>2 DEF Added

\* No bound is lost: what is added for it is at most as true.
LEMMA NoBoundIsLost ==
  ASSUME NEW h \in 1 .. Depth, NEW s, PredicatesOf(s, h - 1), NEW i \in First(s)
  PROVE  \E x \in Added(s) : \A row \in Rows : Truth(x, row) <= Truth(s[i], row)
<1> DEFINE b == BoundAt(s, i)
<1>0. \A c \in Candidates(s) : \E j \in DOMAIN s : c \in BoundsOf(s[j])
  BY DEF Candidates, First, Bounding, BoundAt
<1>1. b \in BoundsOf(s[i]) /\ b \in Candidates(s) /\ i \in DOMAIN s
  BY DEF Candidates, First, Bounding, BoundAt
<1>2. h - 1 \in 0 .. Depth /\ \A j \in DOMAIN s : s[j] \in NodesUpTo[h - 1] /\ Predicate(s[j])
  BY PredicatesOfFacts
<1> HIDE DEF b
<1>3. CASE b \in Single(s)
  <2> DEFINE x == Bounded(b)
  <2>1. x \in Added(s)
    BY <1>3 DEF Added
  <2>2. \A row \in Rows : Truth(x, row) = Truth(s[i], row)
    BY <1>1, <1>2, BoundedFacts, Zenon
  <2>3. \A row \in Rows : Truth(s[i], row) \in Int
    BY <1>1, <1>2, TruthType DEF Predicate, Truths, True, False, Unknown
  <2> HIDE DEF x
  <2>4. \A row \in Rows : Truth(x, row) <= Truth(s[i], row)
    BY <2>2, <2>3
  <2> QED BY <2>1, <2>4
<1>4. CASE b \notin Single(s)
  <2>1. PICK pair \in BoundPairs(s) : b \in ToSet(pair)
    BY <1>1, <1>4 DEF Single
  <2>2. pair = << pair[1], pair[2] >> /\ DOMAIN pair = 1 .. 2
    BY DEF BoundPairs
  <2>3. b = pair[1] \/ b = pair[2]
    BY <2>1, <2>2 DEF ToSet
  <2> DEFINE l == pair[1]
             u == pair[2]
             x == Between(l.column, l.value, u.value)
  <2>4. l \in Candidates(s) /\ u \in Candidates(s) /\ ~l.upper /\ u.upper /\ l.column = u.column
    BY DEF BoundPairs
  <2>5. x \in Added(s)
    BY DEF Added
  <2>6. b = l \/ b = u
    BY <2>3
  <2> HIDE DEF l, u
  <2>7. PICK j \in DOMAIN s, k \in DOMAIN s : l \in BoundsOf(s[j]) /\ u \in BoundsOf(s[k]) /\ i \in {j, k}
    <3>1. CASE b = l
      <4>1. PICK k \in DOMAIN s : u \in BoundsOf(s[k])
        BY <1>0, <2>4
      <4> QED BY <1>1, <3>1, <4>1
    <3>2. CASE b = u
      <4>1. PICK j \in DOMAIN s : l \in BoundsOf(s[j])
        BY <1>0, <2>4
      <4> QED BY <1>1, <3>2, <4>1
    <3> QED BY <2>6, <3>1, <3>2
  <2>8. x = Between(l.column, l.value, u.value)
    OBVIOUS
  <2> HIDE DEF x
  <2>9. /\ s[j] \in NodesUpTo[h - 1] /\ Predicate(s[j])
        /\ s[k] \in NodesUpTo[h - 1] /\ Predicate(s[k])
    BY <1>2
  <2>10. \A row \in Rows : Truth(x, row) <= Truth(s[j], row) /\ Truth(x, row) <= Truth(s[k], row)
    BY <1>2, <2>4, <2>7, <2>8, <2>9, PairedFacts
  <2> QED BY <2>5, <2>7, <2>10
<1> QED BY <1>3, <1>4

\* Finitely many predicates are added.
LEMMA AddedIsFinite ==
  ASSUME NEW s, IsFiniteSet(DOMAIN s)
  PROVE  IsFiniteSet(Added(s))
<1>1. IsFiniteSet(First(s))
  BY FS_Subset DEF First, Bounding
<1>2. IsFiniteSet(Candidates(s))
  <2> DEFINE f == [i \in First(s) |-> BoundAt(s, i)]
  <2>1. IsFiniteSet({f[i] : i \in First(s)})
    BY <1>1, FiniteImage
  <2>2. {f[i] : i \in First(s)} = Candidates(s)
    BY DEF Candidates
  <2> QED BY <2>1, <2>2
<1>3. IsFiniteSet(BoundPairs(s))
  <2> DEFINE C == Candidates(s)
  <2>1. IsFiniteSet(C \X C)
    BY <1>2, FS_Product
  <2>2. BoundPairs(s) \in SUBSET (C \X C)
    BY DEF BoundPairs
  <2> QED BY <2>1, <2>2, FS_Subset
<1>4. IsFiniteSet(Single(s))
  BY <1>2, FS_Subset DEF Single
<1>5. IsFiniteSet({Between(pair[1].column, pair[1].value, pair[2].value) : pair \in BoundPairs(s)})
  <2> DEFINE f == [pair \in BoundPairs(s) |-> Between(pair[1].column, pair[1].value, pair[2].value)]
  <2>1. IsFiniteSet({f[pair] : pair \in BoundPairs(s)})
    BY <1>3, FiniteImage
  <2> QED BY <2>1
<1>6. IsFiniteSet({Bounded(b) : b \in Single(s)})
  <2> DEFINE f == [b \in Single(s) |-> Bounded(b)]
  <2>1. IsFiniteSet({f[b] : b \in Single(s)})
    BY <1>4, FiniteImage
  <2> QED BY <2>1
<1> QED
  BY <1>5, <1>6, FS_Union DEF Added

\* A concatenation has the elements of both sequences.
LEMMA ConcatenationFacts ==
  ASSUME NEW T, NEW s \in Seq(T), NEW t \in Seq(T)
  PROVE  /\ s \o t \in Seq(T) /\ ToSet(s \o t) = ToSet(s) \union ToSet(t)
         /\ Len(s \o t) = Len(s) + Len(t)
<1> DEFINE u == s \o t
<1>1. /\ u \in Seq(T) /\ Len(u) = Len(s) + Len(t) /\ Len(s) \in Nat /\ Len(t) \in Nat
      /\ DOMAIN u = 1 .. Len(u) /\ DOMAIN s = 1 .. Len(s) /\ DOMAIN t = 1 .. Len(t)
      /\ \A i \in 1 .. Len(u) : u[i] = IF i <= Len(s) THEN s[i] ELSE t[i - Len(s)]
  OBVIOUS
<1> HIDE DEF u
<1>2. \A i \in DOMAIN u : u[i] \in ToSet(s) \union ToSet(t)
  <2> SUFFICES ASSUME NEW i \in DOMAIN u PROVE u[i] \in ToSet(s) \union ToSet(t)
    OBVIOUS
  <2>1. CASE i <= Len(s)
    BY <1>1, <2>1 DEF ToSet
  <2>2. CASE ~(i <= Len(s))
    <3>1. i - Len(s) \in DOMAIN t /\ u[i] = t[i - Len(s)]
      BY <1>1, <2>2
    <3> QED BY <3>1 DEF ToSet
  <2> QED BY <2>1, <2>2
<1>3. \A i \in DOMAIN s : s[i] \in ToSet(u)
  <2> SUFFICES ASSUME NEW i \in DOMAIN s PROVE s[i] \in ToSet(u)
    OBVIOUS
  <2>1. i \in DOMAIN u /\ u[i] = s[i]
    BY <1>1
  <2> QED BY <2>1 DEF ToSet
<1>4. \A i \in DOMAIN t : t[i] \in ToSet(u)
  <2> SUFFICES ASSUME NEW i \in DOMAIN t PROVE t[i] \in ToSet(u)
    OBVIOUS
  <2>1. i + Len(s) \in DOMAIN u /\ u[i + Len(s)] = t[i]
    BY <1>1
  <2> QED BY <2>1 DEF ToSet
<1>5. ToSet(u) = ToSet(s) \union ToSet(t)
  BY <1>2, <1>3, <1>4 DEF ToSet
<1> QED
  BY <1>1, <1>5 DEF u

\* AND is as true as the least true of its parts, and they are its conjuncts.
LEMMA AndFacts ==
  ASSUME NEW h \in 1 .. Depth, NEW s, PredicatesOf(s, h - 1), NEW p, p = Compound("and", s)
  PROVE  /\ Predicate(p) /\ p \in NodesUpTo[h]
         /\ (\A i \in DOMAIN s : s[i].kind # "and") => Conjuncts(p) = ToSet(s)
         /\ \A row : /\ \A i \in DOMAIN s : Truth(p, row) <= Truth(s[i], row)
                     /\ \E i \in DOMAIN s : Truth(p, row) = Truth(s[i], row)
<1>1. /\ h - 1 \in 0 .. Depth /\ DOMAIN s = 1 .. Len(s) /\ Len(s) \in Nat /\ DOMAIN s # {}
      /\ s \in Seq(NodesUpTo[h - 1]) /\ Len(s) # 0 /\ \A i \in DOMAIN s : Predicate(s[i])
  BY PredicatesOfFacts DEF PredicatesOf
<1>2. /\ Predicate(p) /\ p \in NodesUpTo[h]
      /\ Len(s) = 1 => p = s[1]
      /\ Len(s) # 1 => p = Node("and", Blank, s) /\ p.kind = "and" /\ p.parts = s
  <2>1. "and" \in Compounds /\ "and" # "not"
    BY DEF Compounds
  <2>2. Predicate(p) /\ p \in NodesUpTo[h]
    BY <1>1, <2>1, CompoundFacts
  <2>3. Len(s) = 1 => p = s[1]
    BY DEF Compound
  <2>4. Len(s) # 1 => p = Node("and", Blank, s)
    BY DEF Compound
  <2>5. Node("and", Blank, s).kind = "and" /\ Node("and", Blank, s).parts = s
    BY DEF Node
  <2> QED BY <2>2, <2>3, <2>4, <2>5
<1>3. \A row : \A i \in DOMAIN s : Truth(s[i], row) \in Truths
  BY <1>1, TruthType DEF Predicate
<1>4. \A t \in Truths : t \in Int
  BY DEF Truths, True, False, Unknown
<1>5. CASE Len(s) = 1
  <2>1. DOMAIN s = {1} /\ 1 \in DOMAIN s /\ p = s[1]
    BY <1>1, <1>2, <1>5
  <2>2. ToSet(s) = {p}
    BY <2>1 DEF ToSet
  <2>3. p.kind # "and" => Conjuncts(p) = {p}
    BY <1>2, ConjunctsFacts
  <2>4. ASSUME NEW row
        PROVE  /\ \A i \in DOMAIN s : Truth(p, row) <= Truth(s[i], row)
               /\ \E i \in DOMAIN s : Truth(p, row) = Truth(s[i], row)
    BY <1>3, <1>4, <2>1
  <2> QED BY <1>2, <2>1, <2>2, <2>3, <2>4
<1>6. CASE Len(s) # 1
  <2>1. p \in Nodes /\ p.kind = "and" /\ p.parts = s
    BY <1>2, <1>6 DEF Predicate, Sound
  <2>2. ASSUME \A i \in DOMAIN s : s[i].kind # "and"
        PROVE  Conjuncts(p) = ToSet(s)
    <3>1. Conjuncts(p) = UNION {Conjuncts(s[i]) : i \in DOMAIN s}
      BY <2>1, ConjunctsDefined
    <3>2. \A i \in DOMAIN s : Conjuncts(s[i]) = {s[i]}
      BY <1>1, <2>2, ConjunctsFacts
    <3> QED BY <3>1, <3>2 DEF ToSet
  <2>3. ASSUME NEW row
        PROVE  /\ \A i \in DOMAIN s : Truth(p, row) <= Truth(s[i], row)
               /\ \E i \in DOMAIN s : Truth(p, row) = Truth(s[i], row)
    <3> DEFINE S == {Truth(s[i], row) : i \in DOMAIN s}
    <3>0. {Truth(p.parts[i], row) : i \in DOMAIN p.parts} = S
      BY <2>1
    <3>1. Truth(p, row) = Min(S)
      BY <2>1, <3>0, TruthByKind
    <3>2. S \in SUBSET Truths /\ S # {}
      BY <1>1, <1>3
    <3>3. Min(S) \in S /\ \A x \in S : Min(S) <= x
      <4> HIDE DEF S
      <4> QED BY <3>2, LeastTruth
    <3> QED BY <3>1, <3>3
  <2> QED BY <1>2, <2>2, <2>3
<1> QED BY <1>5, <1>6

\* The parts that infer_between_predicates leaves.
LEMMA KeptFacts ==
  ASSUME NEW h \in 1 .. Depth, NEW s, PredicatesOf(s, h - 1),
         NEW r, r = FlattenSeq(Kept(s)) \o SetToSeq(Added(s))
  PROVE  /\ PredicatesOf(r, h - 1)
         /\ ToSet(r) = {s[i] : i \in DOMAIN s \ First(s)} \union Added(s)
<1>1. /\ h - 1 \in 0 .. Depth /\ DOMAIN s = 1 .. Len(s) /\ Len(s) \in Nat /\ DOMAIN s # {}
      /\ IsFiniteSet(DOMAIN s)
      /\ \A i \in DOMAIN s : s[i] \in NodesUpTo[h - 1] /\ Predicate(s[i])
  BY PredicatesOfFacts
<1> DEFINE T == NodesUpTo[h - 1]
           k == Kept(s)
           f == FlattenSeq(k)
           a == SetToSeq(Added(s))
           Left == {s[i] : i \in DOMAIN s \ First(s)}
<1>2. DOMAIN k = DOMAIN s /\ \A i \in DOMAIN s : k[i] = IF i \in First(s) THEN <<>> ELSE << s[i] >>
  BY DEF Kept
<1>3. k \in Seq(Seq(T))
  <2>1. ASSUME NEW i \in DOMAIN s PROVE k[i] \in Seq(T)
    <3>1. s[i] \in T
      BY <1>1
    <3> HIDE DEF T, k
    <3>2. << s[i] >> \in Seq(T) /\ <<>> \in Seq(T)
      BY <3>1
    <3> QED BY <1>2, <3>2
  <2>2. k = [i \in DOMAIN s |-> k[i]]
    BY DEF Kept
  <2>3. k \in [1 .. Len(s) -> Seq(T)]
    <3> HIDE DEF T, k
    <3> QED BY <1>1, <2>1, <2>2
  <2> HIDE DEF k, T
  <2> QED BY <1>1, <2>3
<1>4. UNION {ToSet(k[i]) : i \in DOMAIN k} = Left
  <2>1. \A i \in DOMAIN s : ToSet(k[i]) = IF i \in First(s) THEN {} ELSE {s[i]}
    BY <1>2 DEF ToSet
  <2> HIDE DEF k
  <2> QED BY <1>2, <2>1
<1>5. f \in Seq(T) /\ ToSet(f) = Left
  <2>1. f \in Seq(T) /\ ToSet(f) = UNION {ToSet(k[i]) : i \in DOMAIN k}
    <3> HIDE DEF k
    <3> QED BY <1>3, FlattenSeqFacts
  <2> QED BY <1>4, <2>1
<1>6. \A x \in Added(s) : x \in T /\ Predicate(x)
  BY AddedFacts
<1>7. a \in Seq(T) /\ ToSet(a) = Added(s)
  <2>1. IsFiniteSet(Added(s))
    BY <1>1, AddedIsFinite
  <2>2. a \in Seq(Added(s)) /\ ToSet(a) = Added(s)
    BY <2>1, SetToSeqFacts
  <2>3. Added(s) \subseteq T
    BY <1>6
  <2> QED BY <2>2, <2>3, SeqMonotonic
<1>8. r = f \o a
  OBVIOUS
<1> HIDE DEF T, f, a
<1>9. r \in Seq(T) /\ ToSet(r) = Left \union Added(s)
  BY <1>5, <1>7, <1>8, ConcatenationFacts
<1>10. \A x \in ToSet(r) : Predicate(x)
  BY <1>1, <1>6, <1>9
<1>11. ToSet(r) # {}
  <2>1. PICK i \in DOMAIN s : TRUE
    BY <1>1
  <2>2. CASE i \in First(s)
    BY <2>2, <1>9, NoBoundIsLost
  <2>3. CASE i \notin First(s)
    BY <2>3, <1>9
  <2> QED BY <2>2, <2>3
<1>12. Len(r) # 0
  <2>1. DOMAIN r = 1 .. Len(r)
    BY <1>9
  <2> QED BY <1>11, <2>1 DEF ToSet
<1>13. \A i \in DOMAIN r : Predicate(r[i])
  BY <1>10 DEF ToSet
<1> QED
  BY <1>9, <1>12, <1>13 DEF PredicatesOf, T

\* infer_between_predicates keeps what an AND means, and its equalities.
LEMMA BetweenBoundsFacts ==
  ASSUME NEW h \in 1 .. Depth, NEW s, PredicatesOf(s, h - 1), NEW b, b = BetweenBounds(s)
  PROVE  /\ Predicate(b) /\ b \in NodesUpTo[h]
         /\ (\A i \in DOMAIN s : s[i].kind # "and") =>
              /\ Conjuncts(b) \subseteq NodesUpTo[h - 1]
              /\ {c \in Conjuncts(b) : c.operator = "="} = {c \in ToSet(s) : c.operator = "="}
         /\ \A row \in Rows : /\ \A i \in DOMAIN s : Truth(b, row) <= Truth(s[i], row)
                              /\ \E i \in DOMAIN s : Truth(b, row) = Truth(s[i], row)
<1> DEFINE r == FlattenSeq(Kept(s)) \o SetToSeq(Added(s))
           Left == {s[i] : i \in DOMAIN s \ First(s)}
<1>1. b = Compound("and", r)
  BY BetweenBoundsParts
<1>2. PredicatesOf(r, h - 1) /\ ToSet(r) = Left \union Added(s)
  BY KeptFacts
<1> HIDE DEF r
<1>3. /\ Predicate(b) /\ b \in NodesUpTo[h]
      /\ (\A i \in DOMAIN r : r[i].kind # "and") => Conjuncts(b) = ToSet(r)
      /\ \A row : /\ \A i \in DOMAIN r : Truth(b, row) <= Truth(r[i], row)
                  /\ \E i \in DOMAIN r : Truth(b, row) = Truth(r[i], row)
  BY <1>1, <1>2, AndFacts
<1>4. \A row : /\ \A x \in ToSet(r) : Truth(b, row) <= Truth(x, row)
               /\ \E x \in ToSet(r) : Truth(b, row) = Truth(x, row)
  BY <1>3 DEF ToSet
<1>5. \A row : \A x : Predicate(x) => Truth(x, row) \in Int
  BY TruthType DEF Predicate, Truths, True, False, Unknown
<1>6. \A i \in DOMAIN s : s[i] \in NodesUpTo[h - 1] /\ Predicate(s[i])
  BY PredicatesOfFacts
<1>7. \A x \in Added(s) : /\ Predicate(x) /\ x \in NodesUpTo[h - 1] /\ x.kind # "and" /\ x.operator # "="
                          /\ \A row \in Rows : \E i \in DOMAIN s : Truth(x, row) = Truth(s[i], row)
  BY AddedFacts
<1>8. ASSUME \A i \in DOMAIN s : s[i].kind # "and"
      PROVE  /\ Conjuncts(b) \subseteq NodesUpTo[h - 1]
             /\ {c \in Conjuncts(b) : c.operator = "="} = {c \in ToSet(s) : c.operator = "="}
  <2>1. Conjuncts(b) = Left \union Added(s)
    BY <1>2, <1>3, <1>7, <1>8 DEF ToSet
  <2>2. \A i \in First(s) : s[i].operator # "="
    <3> SUFFICES ASSUME NEW i \in First(s) PROVE s[i].operator # "="
      OBVIOUS
    <3>1. BoundsOf(s[i]) # {}
      BY DEF First, Bounding
    <3> QED BY <3>1 DEF BoundsOf
  <2>3. First(s) \subseteq DOMAIN s
    BY DEF First, Bounding
  <2>4. Conjuncts(b) \subseteq NodesUpTo[h - 1]
    BY <1>6, <1>7, <2>1
  <2>5. ASSUME NEW c, c.operator = "=" PROVE c \in Conjuncts(b) <=> c \in ToSet(s)
    BY <1>7, <2>1, <2>2, <2>5 DEF ToSet
  <2>6. {c \in Conjuncts(b) : c.operator = "="} = {c \in ToSet(s) : c.operator = "="}
    BY <2>5
  <2> QED BY <2>4, <2>6
<1>9. ASSUME NEW row \in Rows
      PROVE  /\ \A i \in DOMAIN s : Truth(b, row) <= Truth(s[i], row)
             /\ \E i \in DOMAIN s : Truth(b, row) = Truth(s[i], row)
  <2>1. ASSUME NEW i \in DOMAIN s PROVE Truth(b, row) <= Truth(s[i], row)
    <3>1. CASE i \in First(s)
      <4>1. PICK x \in Added(s) : Truth(x, row) <= Truth(s[i], row)
        BY <3>1, NoBoundIsLost
      <4>2. Truth(b, row) <= Truth(x, row)
        BY <1>2, <1>4
      <4>3. Truth(b, row) \in Int /\ Truth(x, row) \in Int /\ Truth(s[i], row) \in Int
        BY <1>3, <1>5, <1>6, <1>7
      <4> QED BY <4>1, <4>2, <4>3
    <3>2. CASE i \notin First(s)
      BY <1>2, <1>4, <3>2
    <3> QED BY <3>1, <3>2
  <2>2. \E i \in DOMAIN s : Truth(b, row) = Truth(s[i], row)
    <3>1. PICK x \in ToSet(r) : Truth(b, row) = Truth(x, row)
      BY <1>4
    <3>2. CASE x \in Added(s)
      BY <1>7, <3>1, <3>2
    <3>3. CASE x \in Left
      BY <3>1, <3>3
    <3> QED BY <1>2, <3>2, <3>3
  <2> QED BY <2>1, <2>2
<1> QED
  BY <1>3, <1>8, <1>9

\* AND, OR and NOT, and what they are made of.
LEMMA CompoundParts ==
  ASSUME NEW p, Predicate(p), p.kind \in Compounds
  PROVE  /\ p = Node(p.kind, Blank, p.parts) /\ p.operator = Blank
         /\ DOMAIN p.parts = 1 .. Len(p.parts) /\ Len(p.parts) \in Nat /\ 1 \in DOMAIN p.parts
         /\ p.kind = "not" => Len(p.parts) = 1
         /\ p.kind # "not" => Len(p.parts) >= 2 /\ p = Compound(p.kind, p.parts)
         /\ \A i \in DOMAIN p.parts : Predicate(p.parts[i])
         /\ \A h \in 0 .. Depth : p \in NodesUpTo[h] =>
              h \in 1 .. Depth /\ p.parts \in Seq(NodesUpTo[h - 1]) /\ PredicatesOf(p.parts, h - 1)
<1>0. p = Node(p.kind, p.operator, p.parts)
  BY SoundFacts DEF Predicate
<1>1. /\ DOMAIN p.parts = 1 .. Len(p.parts) /\ Len(p.parts) \in Nat
      /\ p.operator \in OperatorsOf(p.kind)
      /\ \A i \in DOMAIN p.parts : Sound(p.parts[i]) /\ p.parts[i].kind \in PredicateKinds
      /\ p.kind = "not" => Len(p.parts) = 1
      /\ p.kind \in {"and", "or"} => Len(p.parts) >= 2
  BY SoundFacts DEF Predicate
<1>2. p.operator = Blank /\ (p.kind # "not" => Len(p.parts) >= 2)
  BY <1>1 DEF Compounds, OperatorsOf
<1>3. 1 \in DOMAIN p.parts /\ Len(p.parts) # 0
  <2>1. Len(p.parts) >= 1
    BY <1>1, <1>2
  <2> QED BY <1>1, <2>1
<1>4. p.kind # "not" => p = Compound(p.kind, p.parts)
  <2>1. p.kind # "not" => Len(p.parts) # 1
    BY <1>1, <1>2
  <2>2. p.kind # "not" => Compound(p.kind, p.parts) = Node(p.kind, Blank, p.parts)
    BY <2>1 DEF Compound
  <2> QED BY <1>0, <1>2, <2>2
<1>5. ASSUME NEW h \in 0 .. Depth, p \in NodesUpTo[h]
      PROVE  h \in 1 .. Depth /\ p.parts \in Seq(NodesUpTo[h - 1]) /\ PredicatesOf(p.parts, h - 1)
  <2>1. h # 0
    BY <1>3, <1>5, PartsAreLower
  <2>2. p.parts \in Seq(NodesUpTo[h - 1])
    BY <1>5, <2>1, NodeFields
  <2> QED BY <1>1, <1>3, <2>1, <2>2 DEF PredicatesOf, Predicate
<1> QED BY <1>0, <1>1, <1>2, <1>3, <1>4, <1>5 DEF Predicate

\* A condition without its bounds, but with BETWEEN, is the same condition.
BetweenKept(p) ==
  /\ Predicate(WithBetween(p))
  /\ \A h \in 0 .. Depth : p \in NodesUpTo[h] => WithBetween(p) \in NodesUpTo[h]
  /\ \A row \in Rows : Truth(WithBetween(p), row) = Truth(p, row)
  /\ p.kind # "and" => WithBetween(p).kind = p.kind /\ WithBetween(p).operator = p.operator

\* infer_between_predicates on a conjunction keeps what is said of its parts.
LEMMA WithBetweenOfAnd ==
  ASSUME NEW p, Predicate(p), p.kind = "and"
  PROVE  WithBetween(p) = BetweenBounds(p.parts) /\ BetweenKept(p)
<1> DEFINE b == BetweenBounds(p.parts)
<1>0. p \in Nodes
  BY DEF Predicate, Sound
<1>1. WithBetween(p) = b
  BY <1>0, WithBetweenDefined DEF BetweenFrom
<1>2. /\ p = Compound("and", p.parts)
      /\ \A h \in 0 .. Depth : p \in NodesUpTo[h] => h \in 1 .. Depth /\ PredicatesOf(p.parts, h - 1)
  BY CompoundParts DEF Compounds
<1> HIDE DEF b
<1>3. ASSUME NEW h \in 0 .. Depth, p \in NodesUpTo[h]
      PROVE  /\ Predicate(b) /\ b \in NodesUpTo[h]
             /\ \A row \in Rows : Truth(b, row) = Truth(p, row)
  <2> DEFINE s == p.parts
  <2>1. h \in 1 .. Depth /\ PredicatesOf(s, h - 1) /\ p = Compound("and", s) /\ b = BetweenBounds(s)
    BY <1>2, <1>3 DEF b
  <2> HIDE DEF s
  <2>2. /\ Predicate(b) /\ b \in NodesUpTo[h]
        /\ \A row \in Rows : /\ \A i \in DOMAIN s : Truth(b, row) <= Truth(s[i], row)
                             /\ \E i \in DOMAIN s : Truth(b, row) = Truth(s[i], row)
    BY <2>1, BetweenBoundsFacts
  <2>3. \A row : /\ \A i \in DOMAIN s : Truth(p, row) <= Truth(s[i], row)
                 /\ \E i \in DOMAIN s : Truth(p, row) = Truth(s[i], row)
    BY <2>1, AndFacts
  <2>4. \A row : Truth(b, row) \in Int /\ Truth(p, row) \in Int
    BY <2>2, TruthType DEF Predicate, Truths, True, False, Unknown
  <2>5. ASSUME NEW row \in Rows PROVE Truth(b, row) = Truth(p, row)
    <3>1. Truth(b, row) <= Truth(p, row)
      BY <2>2, <2>3
    <3>2. Truth(p, row) <= Truth(b, row)
      BY <2>2, <2>3
    <3> QED BY <2>4, <3>1, <3>2
  <2> QED BY <2>2, <2>5
<1>4. p \in NodesUpTo[Depth] /\ Depth \in 0 .. Depth
  BY <1>0, HeightOfNodes
<1> QED
  BY <1>1, <1>3, <1>4 DEF BetweenKept, b

\* infer_between_predicates on OR and NOT keeps what is said of their parts.
LEMMA WithBetweenOfOrAndNot ==
  ASSUME NEW p, Predicate(p), p.kind \in {"or", "not"}, \A i \in DOMAIN p.parts : BetweenKept(p.parts[i])
  PROVE  BetweenKept(p)
<1> DEFINE s == [i \in DOMAIN p.parts |-> WithBetween(p.parts[i])]
           q == WithBetween(p)
<1>0. p \in Nodes
  BY DEF Predicate, Sound
<1>1. q = Compound(p.kind, s)
  BY <1>0, WithBetweenDefined DEF BetweenFrom
<1>2. /\ p.kind \in Compounds /\ p.operator = Blank /\ Len(p.parts) # 0
      /\ DOMAIN p.parts = 1 .. Len(p.parts) /\ Len(p.parts) \in Nat /\ 1 \in DOMAIN p.parts
      /\ p.kind = "not" => Len(p.parts) = 1
      /\ p.kind # "not" => Len(p.parts) >= 2
      /\ \A h \in 0 .. Depth : p \in NodesUpTo[h] =>
           h \in 1 .. Depth /\ PredicatesOf(p.parts, h - 1)
  BY CompoundParts DEF Compounds
<1>3. DOMAIN s = DOMAIN p.parts /\ \A i \in DOMAIN p.parts : s[i] = WithBetween(p.parts[i])
  OBVIOUS
<1>4. s = [i \in 1 .. Len(p.parts) |-> s[i]]
  BY <1>2
<1> HIDE DEF s, q
<1>5. ASSUME NEW h \in 1 .. Depth, p \in NodesUpTo[h]
      PROVE  s \in Seq(NodesUpTo[h - 1]) /\ Len(s) = Len(p.parts)
  <2>1. /\ h \in 0 .. Depth /\ h - 1 \in 0 .. Depth
        /\ \A i \in DOMAIN p.parts : p.parts[i] \in NodesUpTo[h - 1]
    BY <1>2, <1>5, PredicatesOfFacts
  <2>2. \A i \in 1 .. Len(p.parts) : s[i] \in NodesUpTo[h - 1]
    BY <1>2, <1>3, <2>1 DEF BetweenKept
  <2> DEFINE n == Len(p.parts)
             T == NodesUpTo[h - 1]
  <2>3. n \in Nat /\ s = [i \in 1 .. n |-> s[i]] /\ \A i \in 1 .. n : s[i] \in T
    BY <1>2, <1>4, <2>2
  <2> HIDE DEF n, T
  <2>4. s \in Seq(T) /\ Len(s) = n
    BY <2>3
  <2> QED BY <2>4 DEF n, T
<1>6. \A i \in DOMAIN s : Predicate(s[i])
  BY <1>3 DEF BetweenKept
<1>7. ASSUME NEW h \in 0 .. Depth, p \in NodesUpTo[h]
      PROVE  Predicate(q) /\ q \in NodesUpTo[h] /\ Len(s) = Len(p.parts)
  <2>1. h \in 1 .. Depth
    BY <1>2, <1>7
  <2>2. s \in Seq(NodesUpTo[h - 1]) /\ Len(s) = Len(p.parts)
    BY <1>5, <1>7, <2>1
  <2>3. Len(s) # 0 /\ (p.kind = "not" => Len(s) = 1)
    BY <1>2, <2>2
  <2> QED BY <1>1, <1>2, <1>6, <2>1, <2>2, <2>3, CompoundFacts
<1>8. p \in NodesUpTo[Depth] /\ Depth \in 0 .. Depth
  BY <1>0, HeightOfNodes
<1>9. Predicate(q) /\ Len(s) = Len(p.parts)
  BY <1>7, <1>8
<1>10. q = Node(p.kind, Blank, s)
  BY <1>1, <1>2, <1>9 DEF Compound
<1>11. q.kind = p.kind /\ q.operator = p.operator /\ q.parts = s /\ q \in Nodes
  BY <1>2, <1>9, <1>10 DEF Node, Predicate, Sound
<1>12. ASSUME NEW row \in Rows PROVE Truth(q, row) = Truth(p, row)
  <2>1. \A i \in DOMAIN p.parts : Truth(s[i], row) = Truth(p.parts[i], row)
    BY <1>3 DEF BetweenKept
  <2>2. {Truth(q.parts[i], row) : i \in DOMAIN q.parts} = {Truth(p.parts[i], row) : i \in DOMAIN p.parts}
    BY <1>3, <1>11, <2>1
  <2>3. CASE p.kind = "or"
    BY <1>0, <1>11, <2>2, <2>3, TruthByKind
  <2>4. CASE p.kind = "not"
    <3>1. Truth(q, row) = Negation(Truth(q.parts[1], row))
      BY <1>2, <1>3, <1>11, <2>4, TruthByKind
    <3>2. Truth(p, row) = Negation(Truth(p.parts[1], row))
      BY <1>0, <1>2, <2>4, TruthByKind
    <3> QED BY <1>2, <1>11, <2>1, <3>1, <3>2
  <2> QED BY <2>3, <2>4
<1> QED
  BY <1>7, <1>9, <1>11, <1>12 DEF BetweenKept, q

\* infer_between_predicates keeps the truth of every predicate and makes none higher.
LEMMA WithBetweenFacts == ASSUME NEW p, Predicate(p) PROVE BetweenKept(p)
<1> DEFINE S == {n \in Nodes : Predicate(n) => BetweenKept(n)}
<1>1. ASSUME NEW n \in Nodes, \A i \in DOMAIN n.parts : n.parts[i] \in S, Predicate(n)
      PROVE  BetweenKept(n)
  <2>1. CASE n.kind = "and"
    BY <1>1, <2>1, WithBetweenOfAnd
  <2>2. CASE n.kind \in {"or", "not"}
    <3>1. \A i \in DOMAIN n.parts : Predicate(n.parts[i])
      BY <1>1, <2>2, CompoundParts DEF Compounds
    <3> QED BY <1>1, <2>2, <3>1, WithBetweenOfOrAndNot
  <2>3. CASE n.kind \notin {"and", "or", "not"}
    <3>1. WithBetween(n) = n
      BY <2>3, WithBetweenDefined DEF BetweenFrom
    <3> QED BY <1>1, <3>1 DEF BetweenKept
  <2> QED BY <2>1, <2>2, <2>3
<1>2. \A n \in Nodes : n \in S
  <2>1. \A n \in Nodes : (\A i \in DOMAIN n.parts : n.parts[i] \in S) => n \in S
    BY <1>1
  <2> HIDE DEF S
  <2> QED BY <2>1, NodeInduction
<1> QED
  BY <1>2 DEF Predicate, Sound

\* A condition to which a conjunction can be added.
Good(p) == Predicate(p) /\ Conjuncts(p) \subseteq NodesUpTo[Depth - 1]

EqualitiesIn(p) == {c \in Conjuncts(p) : c.operator = "="}

\* The conjunction of a set of conjuncts.
LEMMA AndOfFacts ==
  ASSUME NEW S, IsFiniteSet(S), S # {},
         \A x \in S : Predicate(x) /\ x.kind # "and" /\ x \in NodesUpTo[Depth - 1],
         NEW p, p = AndOf(S)
  PROVE  /\ Good(p) /\ Conjuncts(p) = S
         /\ p.kind = "and" => \A i \in DOMAIN p.parts : p.parts[i].kind # "and"
         /\ \A row : Keeps(p, row) <=> \A x \in S : Keeps(x, row)
<1> DEFINE s == SetToSeq(S)
<1>1. s \in Seq(S) /\ ToSet(s) = S /\ DOMAIN s = 1 .. Len(s) /\ Len(s) \in Nat
  BY SetToSeqFacts
<1>2. p = Compound("and", s)
  BY DEF AndOf
<1> HIDE DEF s
<1>3. Depth \in 1 .. Depth
  BY DepthAssumption DEF DepthAssumption
<1>4. \A i \in DOMAIN s : s[i] \in S
  BY <1>1 DEF ToSet
<1>5. PredicatesOf(s, Depth - 1)
  <2>1. s \in Seq(NodesUpTo[Depth - 1])
    <3>1. S \subseteq NodesUpTo[Depth - 1]
      OBVIOUS
    <3> QED BY <1>1, <3>1, SeqMonotonic
  <2>2. Len(s) # 0
    BY <1>1 DEF ToSet
  <2> QED BY <1>4, <2>1, <2>2 DEF PredicatesOf
<1>6. \A i \in DOMAIN s : s[i].kind # "and"
  BY <1>4
<1>7. Predicate(p) /\ Conjuncts(p) = S
  BY <1>1, <1>2, <1>3, <1>5, <1>6, AndFacts
<1>8. Good(p)
  BY <1>7 DEF Good
<1>9. ASSUME p.kind = "and" PROVE \A i \in DOMAIN p.parts : p.parts[i].kind # "and"
  <2>1. CASE Len(s) = 1
    <3>1. p = s[1] /\ 1 \in DOMAIN s
      BY <1>1, <1>2, <2>1 DEF Compound
    <3> QED BY <1>6, <1>9, <3>1
  <2>2. CASE Len(s) # 1
    <3>1. p = Node("and", Blank, s)
      BY <1>2, <2>2 DEF Compound
    <3>2. Node("and", Blank, s).parts = s
      BY DEF Node
    <3> QED BY <1>6, <3>1, <3>2
  <2> QED BY <2>1, <2>2
<1>10. \A row : Keeps(p, row) <=> \A x \in S : Keeps(x, row)
  BY <1>7, KeepsConjuncts
<1> QED BY <1>7, <1>8, <1>9, <1>10

\* flatten_and_predicate keeps the conjuncts, and so the rows.
LEMMA FlattenFacts ==
  ASSUME NEW p, Good(p), NEW f, f = Flatten(p)
  PROVE  /\ Good(f) /\ Conjuncts(f) = Conjuncts(p)
         /\ f.kind = "and" => \A i \in DOMAIN f.parts : f.parts[i].kind # "and"
         /\ \A row : Keeps(f, row) <=> Keeps(p, row)
<1>1. /\ IsFiniteSet(Conjuncts(p)) /\ Conjuncts(p) # {}
      /\ \A c \in Conjuncts(p) : Predicate(c) /\ c.kind # "and" /\ c \in NodesUpTo[Depth - 1]
  BY ConjunctsFacts DEF Good
<1>2. \A row : Keeps(p, row) <=> \A c \in Conjuncts(p) : Keeps(c, row)
  BY KeepsConjuncts DEF Good
<1>3. CASE p.kind = "and"
  <2>1. f = AndOf(Conjuncts(p))
    BY <1>3 DEF Flatten
  <2> QED BY <1>1, <1>2, <2>1, AndOfFacts
<1>4. CASE p.kind # "and"
  <2>1. f = p
    BY <1>4 DEF Flatten
  <2> QED BY <1>4, <2>1
<1> QED BY <1>3, <1>4

\* An equality is a binary predicate.
LEMMA EqualitiesAreBinary ==
  ASSUME NEW p, Predicate(p), p.operator = "="
  PROVE  p.kind = "binary"
<1>1. p.operator \in OperatorsOf(p.kind) /\ p.kind \in PredicateKinds
  BY SoundFacts DEF Predicate
<1> QED BY <1>1 DEF OperatorsOf, PredicateKinds, Compounds, Blank

\* infer_between_predicates keeps the equalities and the rows.
LEMMA InferBetweenFacts ==
  ASSUME NEW p, Good(p), NEW q, q = InferBetween(p)
  PROVE  /\ Good(q) /\ EqualitiesIn(q) = EqualitiesIn(p)
         /\ \A row \in Rows : Keeps(q, row) <=> Keeps(p, row)
<1> DEFINE f == Flatten(p)
<1>1. q = WithBetween(f)
  BY DEF InferBetween
<1>2. /\ Good(f) /\ Conjuncts(f) = Conjuncts(p)
      /\ f.kind = "and" => \A i \in DOMAIN f.parts : f.parts[i].kind # "and"
      /\ \A row : Keeps(f, row) <=> Keeps(p, row)
  BY FlattenFacts
<1> HIDE DEF f
<1>3. BetweenKept(f) /\ Predicate(f)
  BY <1>2, WithBetweenFacts DEF Good
<1>4. \A row \in Rows : Keeps(q, row) <=> Keeps(p, row)
  BY <1>1, <1>2, <1>3 DEF BetweenKept, Keeps
<1>5. f \in NodesUpTo[Depth] /\ Depth \in 0 .. Depth /\ Depth \in 1 .. Depth /\ Depth - 1 \in 0 .. Depth
  BY <1>3, HeightOfNodes, DepthAssumption DEF Predicate, Sound, DepthAssumption
<1>6. CASE f.kind = "and"
  <2> DEFINE s == f.parts
  <2>1. q = BetweenBounds(s)
    BY <1>1, <1>3, <1>6, WithBetweenOfAnd
  <2>2. PredicatesOf(s, Depth - 1) /\ \A i \in DOMAIN s : s[i].kind # "and"
    BY <1>2, <1>3, <1>5, <1>6, CompoundParts DEF Compounds
  <2>3. ToSet(s) = Conjuncts(f)
    <3>1. f = Compound("and", s)
      BY <1>3, <1>6, CompoundParts DEF Compounds
    <3> HIDE DEF s
    <3> QED BY <1>5, <2>2, <3>1, AndFacts
  <2> HIDE DEF s
  <2>4. /\ Predicate(q) /\ Conjuncts(q) \subseteq NodesUpTo[Depth - 1]
        /\ {c \in Conjuncts(q) : c.operator = "="} = {c \in ToSet(s) : c.operator = "="}
    BY <1>5, <2>1, <2>2, BetweenBoundsFacts
  <2> QED BY <1>2, <1>4, <2>3, <2>4 DEF Good, EqualitiesIn
<1>7. CASE f.kind # "and"
  <2>1. Conjuncts(f) = {f} /\ f \in NodesUpTo[Depth - 1]
    BY <1>2, <1>3, <1>7, ConjunctsFacts DEF Good
  <2>2. /\ Predicate(q) /\ q \in NodesUpTo[Depth - 1] /\ q.kind = f.kind /\ q.operator = f.operator
    BY <1>1, <1>3, <1>5, <1>7, <2>1 DEF BetweenKept
  <2>3. Conjuncts(q) = {q}
    BY <1>7, <2>2, ConjunctsFacts
  <2>4. f.operator = "=" => q = f
    <3>1. f.operator = "=" => f.kind = "binary"
      BY <1>3, EqualitiesAreBinary
    <3>2. f.kind = "binary" => q = f
      BY <1>1, <1>3, WithBetweenDefined DEF BetweenFrom, Predicate, Sound
    <3> QED BY <3>1, <3>2
  <2>5. EqualitiesIn(q) = EqualitiesIn(p)
    BY <1>2, <2>1, <2>2, <2>3, <2>4 DEF EqualitiesIn
  <2> QED BY <1>4, <2>2, <2>3, <2>5 DEF Good
<1> QED BY <1>6, <1>7

-------------------------------------------------------------------------------
(* add_ec_predicates. *)

\* No edge leaves the set.
IsClosed(edges, S) == \A e \in edges : e \intersect S # {} => e \subseteq S

\* An equivalence class is the least closed set around an edge.
LEMMA ClassFacts ==
  ASSUME NEW edges, NEW e \in edges, NEW C, C = EquivalenceClass(edges, e)
  PROVE  /\ C \in SUBSET UNION edges /\ e \subseteq C /\ IsClosed(edges, C)
         /\ \A S \in SUBSET UNION edges : e \subseteq S /\ IsClosed(edges, S) => C \subseteq S
<1> DEFINE U == UNION edges
           sets == {S \in SUBSET U : e \subseteq S /\ IsClosed(edges, S)}
<1>1. C = {c \in U : \A S \in sets : c \in S}
  BY DEF EquivalenceClass, IsClosed
<1>2. C \in SUBSET U /\ e \subseteq C
  BY <1>1
<1>3. ASSUME NEW f \in edges, f \intersect C # {} PROVE f \subseteq C
  <2>1. PICK c : c \in f /\ c \in C
    BY <1>3
  <2>2. \A S \in sets : f \subseteq S
    BY <1>1, <2>1 DEF IsClosed
  <2> QED BY <1>1, <2>2
<1> QED
  BY <1>1, <1>2, <1>3 DEF IsClosed

\* Columns are in one class only.
LEMMA ClassesAreDisjoint ==
  ASSUME NEW edges, NEW e \in edges, NEW f \in edges,
         EquivalenceClass(edges, e) \intersect EquivalenceClass(edges, f) # {}
  PROVE  EquivalenceClass(edges, f) \subseteq EquivalenceClass(edges, e)
<1> DEFINE C == EquivalenceClass(edges, e)
           D == EquivalenceClass(edges, f)
           U == UNION edges
<1>1. C \in SUBSET U /\ IsClosed(edges, C)
  BY ClassFacts
<1>2. \A S \in SUBSET U : f \subseteq S /\ IsClosed(edges, S) => D \subseteq S
  BY ClassFacts
<1> HIDE DEF C, D
<1>3. IsClosed(edges, U \ C)
  BY <1>1 DEF IsClosed
<1>4. CASE f \intersect C = {}
  <2>1. f \subseteq U \ C
    BY <1>4
  <2>2. D \subseteq U \ C
    BY <1>2, <1>3, <2>1
  <2> QED BY <2>2 DEF C, D
<1>5. CASE f \intersect C # {}
  <2>1. f \subseteq C
    BY <1>1, <1>5 DEF IsClosed
  <2>2. D \subseteq C
    BY <1>1, <1>2, <2>1
  <2> QED BY <2>2 DEF C, D
<1> QED BY <1>4, <1>5

\* A column in any number of casts.
LEMMA UnwrappedColumns ==
  ASSUME NEW e, Sound(e), Unwrapped(e).kind = "column"
  PROVE  ColumnsOf(e) = {Unwrapped(e)} /\ Unwrapped(e) \in Columns /\ Sound(Unwrapped(e))
<1> DEFINE Fine(n) == ColumnsOf(n) = {Unwrapped(n)} /\ Unwrapped(n) \in Columns /\ Sound(Unwrapped(n))
           S == {n \in Nodes : Sound(n) /\ Unwrapped(n).kind = "column" => Fine(n)}
<1>1. ASSUME NEW n \in Nodes, \A i \in DOMAIN n.parts : n.parts[i] \in S, Sound(n), Unwrapped(n).kind = "column"
      PROVE  Fine(n)
  <2>1. CASE n.kind = "cast"
    <3>1. Len(n.parts) = 1 /\ DOMAIN n.parts = 1 .. Len(n.parts) /\ \A i \in DOMAIN n.parts : Sound(n.parts[i])
      BY <1>1, <2>1, SoundFacts
    <3>2. DOMAIN n.parts = {1} /\ 1 \in DOMAIN n.parts
      BY <3>1
    <3>3. Unwrapped(n) = Unwrapped(n.parts[1])
      BY <2>1, <3>2, UnwrappedDefined
    <3>4. ColumnsOf(n) = UNION {ColumnsOf(n.parts[i]) : i \in DOMAIN n.parts}
      BY <2>1, ColumnsOfDefined
    <3>5. ColumnsOf(n) = ColumnsOf(n.parts[1])
      BY <3>2, <3>4
    <3>6. Fine(n.parts[1])
      BY <1>1, <3>1, <3>2, <3>3
    <3> QED BY <3>3, <3>5, <3>6
  <2>2. CASE n.kind # "cast"
    <3>1. Unwrapped(n) = n /\ n.kind = "column"
      BY <1>1, <2>2, UnwrappedDefined
    <3>2. ColumnsOf(n) = {n}
      BY <3>1, ColumnsOfDefined
    <3> QED BY <1>1, <3>1, <3>2, SoundColumns
  <2> QED BY <2>1, <2>2
<1>2. \A n \in Nodes : n \in S
  <2>1. \A n \in Nodes : (\A i \in DOMAIN n.parts : n.parts[i] \in S) => n \in S
    BY <1>1
  <2> HIDE DEF S
  <2> QED BY <2>1, NodeInduction
<1> QED
  BY <1>2 DEF Sound

\* The tables and columns of a binary predicate.
LEMMA BinaryColumns ==
  ASSUME NEW p, Predicate(p), p.kind = "binary"
  PROVE  /\ p \in Nodes /\ DOMAIN p.parts = {1, 2} /\ ToSet(p.parts) = {p.parts[1], p.parts[2]}
         /\ Sound(p.parts[1]) /\ Sound(p.parts[2])
         /\ ColumnsOf(p) = ColumnsOf(p.parts[1]) \union ColumnsOf(p.parts[2])
         /\ IsJoin(p) <=> IsBaseJoin(p)
<1>1. /\ p \in Nodes /\ p.kind \notin Compounds /\ p.kind # "column"
  BY DEF Predicate, Sound, Compounds
<1>2. DOMAIN p.parts = 1 .. 2 /\ Sound(p.parts[1]) /\ Sound(p.parts[2])
  BY BinaryTruth
<1>3. DOMAIN p.parts = {1, 2}
  BY <1>2
<1>4. ColumnsOf(p) = UNION {ColumnsOf(p.parts[i]) : i \in DOMAIN p.parts}
  BY <1>1, ColumnsOfDefined
<1>5. BasePredicates(p) = {p}
  BY <1>1, BasePredicatesDefined
<1> QED
  BY <1>1, <1>2, <1>3, <1>4, <1>5 DEF ToSet, IsJoin

\* A simple join compares two columns.
LEMMA SimpleJoinsAreEqualities ==
  ASSUME NEW root, Predicate(root), NEW p \in JoinsOf(root), IsSimpleJoin(p)
  PROVE  p \in ColumnEqualities(JoinsOf(root))
<1>1. Predicate(p) /\ p.kind = "binary" /\ p.operator = "=" /\ IsJoin(p)
  BY ConjunctsFacts DEF JoinsOf, IsSimpleJoin
<1> DEFINE a == p.parts[1]
           b == p.parts[2]
<1>2. /\ ToSet(p.parts) = {a, b} /\ Sound(a) /\ Sound(b) /\ IsBaseJoin(p)
      /\ ColumnsOf(p) = ColumnsOf(a) \union ColumnsOf(b)
  BY <1>1, BinaryColumns
<1>3. Unwrapped(a).kind = "column" /\ Unwrapped(b).kind = "column"
  BY <1>2 DEF IsSimpleJoin
<1> DEFINE c == Unwrapped(a)
           d == Unwrapped(b)
<1>5. ColumnsOf(a) = {c} /\ ColumnsOf(b) = {d}
  BY <1>2, <1>3, UnwrappedColumns
<1>6. TablesOf(a) = {c.table} /\ TablesOf(b) = {d.table}
  BY <1>5 DEF TablesOf
<1>7. Cardinality(TablesOf(a)) = 1 /\ Cardinality(TablesOf(b)) = 1
  BY <1>6, FS_Singleton
<1>8. TablesOf(a) # TablesOf(b)
  BY <1>1, <1>2, <1>7 DEF IsBaseJoin
<1>9. c # d
  BY <1>6, <1>8
<1>10. Cardinality(ColumnsOf(p)) = 2
  <2> HIDE DEF c, d
  <2>1. ColumnsOf(p) = {c} \union {d}
    BY <1>2, <1>5
  <2>2. IsFiniteSet({c}) /\ Cardinality({c}) = 1
    BY FS_Singleton
  <2>3. Cardinality({c} \union {d}) = 2
    BY <1>9, <2>2, FS_AddElement
  <2> QED BY <2>1, <2>3
<1> QED
  BY <1>1, <1>10 DEF ColumnEqualities

TwoColumns(C) == {pair \in SUBSET C : Cardinality(pair) = 2}

Joined(root, columns) == \E r \in EqualitiesIn(root) : ToSet(r.parts) = columns

\* Equal columns are compared directly.
EqualColumnsAreJoined(root) ==
  \A p, q \in ColumnEqualities(JoinsOf(root)) : ColumnsOf(p) \intersect ColumnsOf(q) # {} =>
    \A c, d \in ColumnsOf(p) \union ColumnsOf(q) : c # d => Joined(root, {c, d})

\* The equality that is added for two columns.
EqualityOf(pair) == Binary("=", SetToSeq(pair)[1], SetToSeq(pair)[2])

\* The two elements that SetToSeq lists of a pair are the pair.
LEMMA PairOfColumns ==
  ASSUME NEW pair, Cardinality(pair) = 2, IsFiniteSet(pair)
  PROVE  /\ SetToSeq(pair)[1] # SetToSeq(pair)[2]
         /\ pair = {SetToSeq(pair)[1], SetToSeq(pair)[2]}
<1> DEFINE s == SetToSeq(pair)
<1>1. /\ DOMAIN s = 1 .. 2 /\ ToSet(s) = pair
      /\ \A i, j \in 1 .. 2 : s[i] = s[j] => i = j
  BY SetToSeqFacts
<1> HIDE DEF s
<1>2. s[1] # s[2]
  BY <1>1
<1>3. pair = {s[1], s[2]}
  BY <1>1 DEF ToSet
<1> QED BY <1>2, <1>3 DEF s

\* Two different columns are a pair.
LEMMA TwoAreAPair == ASSUME NEW c, NEW d, c # d PROVE Cardinality({c, d}) = 2 /\ IsFiniteSet({c, d})
<1>1. IsFiniteSet({c}) /\ Cardinality({c}) = 1
  BY FS_Singleton
<1>2. {c, d} = {c} \union {d}
  OBVIOUS
<1> QED BY <1>1, <1>2, FS_AddElement

\* The equality of two columns joins exactly these and holds if both have one value.
LEMMA EqualityFacts ==
  ASSUME NEW pair \in SUBSET {c \in Columns : c.kind = "column" /\ Sound(c)},
         Cardinality(pair) = 2, IsFiniteSet(pair), NEW e, e = EqualityOf(pair)
  PROVE  /\ Predicate(e) /\ e \in NodesUpTo[Depth - 1] /\ e.kind = "binary" /\ e.operator = "="
         /\ ToSet(e.parts) = pair /\ \A side \in ToSet(e.parts) : side.kind = "column"
         /\ ColumnsOf(e) = pair
         /\ \A row \in Rows : Keeps(e, row) <=> \E v \in Int : \A c \in pair : row[c] = v
<1> DEFINE a == SetToSeq(pair)[1]
           b == SetToSeq(pair)[2]
<1>1. pair = {a, b}
  BY PairOfColumns
<1>2. e = Binary("=", a, b)
  BY DEF EqualityOf
<1> HIDE DEF a, b
<1>3. /\ a \in Columns /\ a.kind = "column" /\ Sound(a)
      /\ b \in Columns /\ b.kind = "column" /\ Sound(b)
  BY <1>1
<1>4. \A c \in Columns : Sound(c) /\ c.kind = "column" => c \in NodesUpTo[0]
  <2> SUFFICES ASSUME NEW c \in Columns, Sound(c), c.kind = "column" PROVE c \in NodesUpTo[0]
    OBVIOUS
  <2>1. c.parts = <<>> /\ c \in Nodes
    BY SoundColumns DEF Sound
  <2>2. NodesUpTo[0] = NodesOver({<<>>})
    BY NodesByHeight, DepthAssumption DEF DepthAssumption
  <2>3. c \in NodesUpTo[Depth] /\ Depth \in 0 .. Depth
    BY <2>1, HeightOfNodes
  <2>4. /\ c = [kind |-> c.kind, operator |-> c.operator, parts |-> c.parts,
                table |-> c.table, name |-> c.name, value |-> c.value]
        /\ c.kind \in NodeNames /\ c.operator \in NodeNames
        /\ c.table \in NodeNames /\ c.name \in NodeNames /\ c.value \in Int \union {Null}
    BY <2>3, NodeFields
  <2> QED BY <2>1, <2>2, <2>4 DEF NodesOver
<1>5. 0 \in 0 .. Depth /\ 1 \in 1 .. Depth /\ Depth - 1 \in 0 .. Depth /\ 1 \in 0 .. (Depth - 1) /\ 1 - 1 = 0
  BY DepthAssumption DEF DepthAssumption
<1>6. "=" \in OperatorsOf("binary") /\ a.kind \in ExpressionKinds /\ b.kind \in ExpressionKinds
  BY <1>3 DEF OperatorsOf, ExpressionKinds
<1>7. a \in NodesUpTo[1 - 1] /\ b \in NodesUpTo[1 - 1]
  BY <1>3, <1>4, <1>5
<1>8. /\ Predicate(e) /\ e \in NodesUpTo[1] /\ e.kind = "binary" /\ e.operator = "=" /\ e.parts = << a, b >>
      /\ \A row : Truth(e, row) = Compare("=", Evaluate(a, row), Evaluate(b, row))
  BY <1>2, <1>3, <1>5, <1>6, <1>7, BinaryFacts
<1>9. e \in NodesUpTo[Depth - 1]
  BY <1>5, <1>8, HeightsGrow
<1>10. e.parts[1] = a /\ e.parts[2] = b /\ ToSet(e.parts) = pair
  <2>1. e.parts[1] = a /\ e.parts[2] = b
    BY <1>8
  <2> QED BY <1>1, <1>8, <2>1, BinaryColumns
<1>11. ColumnsOf(e) = pair
  <2>1. ColumnsOf(a) = {a} /\ ColumnsOf(b) = {b}
    BY <1>3, ColumnsOfDefined DEF Sound
  <2> QED BY <1>1, <1>8, <1>10, <2>1, BinaryColumns
<1>12. ASSUME NEW row \in Rows
       PROVE  Keeps(e, row) <=> \E v \in Int : \A c \in pair : row[c] = v
  <2>1. /\ Evaluate(a, row) = row[a] /\ Evaluate(b, row) = row[b]
        /\ row[a] \in Int \union {Null} /\ row[b] \in Int \union {Null}
    BY <1>3, <1>6, ValueType
  <2>2. Keeps(e, row) <=> Compare("=", row[a], row[b]) = True
    BY <1>8, <2>1 DEF Keeps
  <2>3. Compare("=", row[a], row[b]) = True <=> row[a] = row[b] /\ row[a] # Null
    <3>1. Unknown # True /\ False # True
      BY DEF Unknown, True, False
    <3> QED BY <2>1, <3>1, NullAssumption DEF Compare, NullAssumption
  <2> QED BY <1>1, <2>1, <2>2, <2>3, NullAssumption DEF NullAssumption
<1> QED
  BY <1>1, <1>3, <1>8, <1>9, <1>10, <1>11, <1>12

EqualitiesOf(root) == ColumnEqualities(JoinsOf(root))
EdgesOf(root) == {ColumnsOf(p) : p \in EqualitiesOf(root)}
ClassOf(root, e) == EquivalenceClass(EdgesOf(root), e)
PairsOf(root) == UNION {TwoColumns(ClassOf(root, e)) : e \in EdgesOf(root)}
AddedBy(root) == {EqualityOf(pair) : pair \in PairsOf(root)}
LeftBy(root) == {p \in Conjuncts(root) : ~(p \in JoinsOf(root) /\ IsSimpleJoin(p))}

\* AddEc, by the definitions above.
LEMMA AddEcParts == ASSUME NEW root PROVE AddEc(root) = AndOf(AddedBy(root) \union LeftBy(root))
<1>1. EquivalenceClasses(JoinsOf(root)) = {ClassOf(root, e) : e \in EdgesOf(root)}
  BY DEF EquivalenceClasses, ClassOf, EdgesOf, EqualitiesOf
<1>2. ClassPredicates(EquivalenceClasses(JoinsOf(root))) = AddedBy(root)
  <2>1. UNION {kSubset(2, class) : class \in EquivalenceClasses(JoinsOf(root))} = PairsOf(root)
    BY <1>1 DEF PairsOf, kSubset, TwoColumns
  <2> QED BY <2>1 DEF ClassPredicates, AddedBy, EqualityOf
<1>3. {p \in JoinsOf(root) : ~IsSimpleJoin(p)} \union FiltersOf(root) = LeftBy(root)
  BY DEF LeftBy, JoinsOf, FiltersOf
<1> DEFINE N == {p \in JoinsOf(root) : ~IsSimpleJoin(p)}
           F == FiltersOf(root)
<1>4. AddEc(root) = AndOf((AddedBy(root) \union N) \union F)
  BY <1>2 DEF AddEc
<1>5. (AddedBy(root) \union N) \union F = AddedBy(root) \union LeftBy(root)
  BY <1>3
<1> QED BY <1>4, <1>5

\* Edges join two columns of the query.
LEMMA EdgesFacts ==
  ASSUME NEW root, Predicate(root)
  PROVE  /\ IsFiniteSet(EdgesOf(root)) /\ IsFiniteSet(UNION EdgesOf(root))
         /\ UNION EdgesOf(root) \in SUBSET {c \in Columns : c.kind = "column" /\ Sound(c)}
         /\ \A p \in EqualitiesOf(root) : /\ Predicate(p) /\ p.kind = "binary" /\ p.operator = "="
                                          /\ p \in Conjuncts(root) /\ ColumnsOf(p) \in EdgesOf(root)
<1>1. \A p \in EqualitiesOf(root) : /\ Predicate(p) /\ p.kind = "binary" /\ p.operator = "="
                                    /\ p \in Conjuncts(root) /\ ColumnsOf(p) \in EdgesOf(root)
  BY ConjunctsFacts DEF EqualitiesOf, ColumnEqualities, JoinsOf, EdgesOf
<1>2. IsFiniteSet(EqualitiesOf(root))
  <2>1. IsFiniteSet(Conjuncts(root)) /\ EqualitiesOf(root) \in SUBSET Conjuncts(root)
    BY <1>1, ConjunctsFacts
  <2> QED BY <2>1, FS_Subset
<1>3. IsFiniteSet(EdgesOf(root))
  <2> DEFINE f == [p \in EqualitiesOf(root) |-> ColumnsOf(p)]
  <2>1. IsFiniteSet({f[p] : p \in EqualitiesOf(root)})
    BY <1>2, FiniteImage
  <2>2. {f[p] : p \in EqualitiesOf(root)} = EdgesOf(root)
    BY DEF EdgesOf
  <2> QED BY <2>1, <2>2
<1>4. \A e \in EdgesOf(root) : IsFiniteSet(e) /\ e \subseteq {c \in Columns : c.kind = "column" /\ Sound(c)}
  BY <1>1, ColumnsAreFinite, ColumnsAreSound DEF EdgesOf, Predicate, Sound
<1>5. IsFiniteSet(UNION EdgesOf(root))
  BY <1>3, <1>4, FS_UNION
<1> QED BY <1>1, <1>3, <1>4, <1>5

\* The pairs that are compared are pairs of columns of the query.
LEMMA PairsFacts ==
  ASSUME NEW root, Predicate(root)
  PROVE  /\ IsFiniteSet(PairsOf(root))
         /\ \A pair \in PairsOf(root) :
              /\ pair \in SUBSET {c \in Columns : c.kind = "column" /\ Sound(c)}
              /\ Cardinality(pair) = 2 /\ IsFiniteSet(pair)
              /\ \E e \in EdgesOf(root) : pair \subseteq ClassOf(root, e)
<1> DEFINE U == UNION EdgesOf(root)
<1>1. \A e \in EdgesOf(root) : ClassOf(root, e) \in SUBSET U
  BY ClassFacts DEF ClassOf
<1>2. /\ IsFiniteSet(U) /\ U \in SUBSET {c \in Columns : c.kind = "column" /\ Sound(c)}
  BY EdgesFacts
<1> HIDE DEF U
<1>3. \A pair \in PairsOf(root) : /\ Cardinality(pair) = 2 /\ pair \in SUBSET U
                                  /\ \E e \in EdgesOf(root) : pair \subseteq ClassOf(root, e)
  BY <1>1 DEF PairsOf, TwoColumns
<1>4. IsFiniteSet(SUBSET U)
  BY <1>2, FS_SUBSET
<1>5. IsFiniteSet(PairsOf(root))
  <2>1. PairsOf(root) \in SUBSET SUBSET U
    BY <1>3
  <2> QED BY <1>4, <2>1, FS_Subset
<1>6. \A pair \in PairsOf(root) : IsFiniteSet(pair)
  BY <1>2, <1>3, FS_Subset
<1> QED BY <1>2, <1>3, <1>5, <1>6

\* The equalities that are added are predicates on two columns.
LEMMA AddedByFacts ==
  ASSUME NEW root, Predicate(root), NEW x \in AddedBy(root)
  PROVE  \E pair \in PairsOf(root) :
           /\ x = EqualityOf(pair)
           /\ Predicate(x) /\ x \in NodesUpTo[Depth - 1] /\ x.kind = "binary" /\ x.operator = "="
           /\ ToSet(x.parts) = pair /\ \A side \in ToSet(x.parts) : side.kind = "column"
           /\ ColumnsOf(x) = pair
           /\ \A row \in Rows : Keeps(x, row) <=> \E v \in Int : \A c \in pair : row[c] = v
<1>1. PICK pair \in PairsOf(root) : x = EqualityOf(pair)
  BY DEF AddedBy
<1>2. /\ pair \in SUBSET {c \in Columns : c.kind = "column" /\ Sound(c)}
      /\ Cardinality(pair) = 2 /\ IsFiniteSet(pair)
  BY PairsFacts
<1> QED BY <1>1, <1>2, EqualityFacts

\* What add_ec_predicates makes of a condition.
LEMMA AddEcFacts ==
  ASSUME NEW root, Good(root), NEW q, q = AddEc(root)
  PROVE  /\ Good(q) /\ Conjuncts(q) = AddedBy(root) \union LeftBy(root)
         /\ \A row : Keeps(q, row) <=> \A x \in Conjuncts(q) : Keeps(x, row)
<1> DEFINE S == AddedBy(root) \union LeftBy(root)
<1>0. Predicate(root) /\ Conjuncts(root) \subseteq NodesUpTo[Depth - 1]
  BY DEF Good
<1>1. q = AndOf(S)
  BY AddEcParts
<1>2. IsFiniteSet(AddedBy(root))
  <2> DEFINE f == [pair \in PairsOf(root) |-> EqualityOf(pair)]
  <2>0. IsFiniteSet(PairsOf(root))
    BY <1>0, PairsFacts
  <2>1. IsFiniteSet({f[pair] : pair \in PairsOf(root)})
    BY <2>0, FiniteImage
  <2>2. {f[pair] : pair \in PairsOf(root)} = AddedBy(root)
    BY DEF AddedBy
  <2> QED BY <2>1, <2>2
<1>3. IsFiniteSet(LeftBy(root))
  <2>1. IsFiniteSet(Conjuncts(root)) /\ LeftBy(root) \in SUBSET Conjuncts(root)
    BY <1>0, ConjunctsFacts DEF LeftBy
  <2> QED BY <2>1, FS_Subset
<1>4. IsFiniteSet(S)
  BY <1>2, <1>3, FS_Union
<1>5. ASSUME NEW x \in S PROVE Predicate(x) /\ x.kind # "and" /\ x \in NodesUpTo[Depth - 1]
  <2>1. CASE x \in AddedBy(root)
    BY <1>0, <2>1, AddedByFacts
  <2>2. CASE x \in LeftBy(root)
    BY <1>0, <2>2, ConjunctsFacts DEF LeftBy
  <2> QED BY <2>1, <2>2
<1>6. S # {}
  <2>1. PICK p \in Conjuncts(root) : TRUE
    BY <1>0, ConjunctsFacts
  <2>2. CASE p \in LeftBy(root)
    BY <2>2
  <2>3. CASE p \in JoinsOf(root) /\ IsSimpleJoin(p)
    <3>1. p \in EqualitiesOf(root)
      BY <1>0, <2>3, SimpleJoinsAreEqualities DEF EqualitiesOf
    <3>2. ColumnsOf(p) \in EdgesOf(root) /\ Cardinality(ColumnsOf(p)) = 2
      BY <3>1 DEF EdgesOf, EqualitiesOf, ColumnEqualities
    <3>3. ColumnsOf(p) \subseteq ClassOf(root, ColumnsOf(p))
      BY <3>2, ClassFacts DEF ClassOf
    <3>4. ColumnsOf(p) \in PairsOf(root)
      BY <3>2, <3>3 DEF PairsOf, TwoColumns
    <3> QED BY <3>4 DEF AddedBy
  <2> QED BY <2>1, <2>2, <2>3 DEF LeftBy
<1> HIDE DEF S
<1>7. /\ Good(q) /\ Conjuncts(q) = S
      /\ \A row : Keeps(q, row) <=> \A x \in S : Keeps(x, row)
  BY <1>1, <1>4, <1>5, <1>6, AndOfFacts
<1> QED BY <1>7 DEF S

\* Its equalities of columns are within the classes it was made from.
LEMMA AddEcEqualities ==
  ASSUME NEW root, Good(root), NEW p \in EqualitiesOf(AddEc(root))
  PROVE  /\ \E e \in EdgesOf(root) : ColumnsOf(p) \subseteq ClassOf(root, e)
         /\ p \in AddedBy(root) \/ p \in EqualitiesOf(root)
<1>0. Predicate(root)
  BY DEF Good
<1>1. p \in AddedBy(root) \union LeftBy(root)
  BY AddEcFacts DEF EqualitiesOf, ColumnEqualities, JoinsOf
<1>2. CASE p \in AddedBy(root)
  <2>1. PICK pair \in PairsOf(root) : ColumnsOf(p) = pair
    BY <1>0, <1>2, AddedByFacts
  <2> QED BY <1>0, <1>2, <2>1, PairsFacts
<1>3. CASE p \in LeftBy(root)
  <2>1. p \in EqualitiesOf(root)
    BY <1>3 DEF LeftBy, EqualitiesOf, ColumnEqualities, JoinsOf
  <2>2. ColumnsOf(p) \in EdgesOf(root)
    BY <2>1 DEF EdgesOf
  <2>3. ColumnsOf(p) \subseteq ClassOf(root, ColumnsOf(p))
    BY <2>2, ClassFacts DEF ClassOf
  <2> QED BY <2>1, <2>2, <2>3
<1> QED BY <1>1, <1>2, <1>3

\* After add_ec_predicates, columns that equal a third one are compared directly.
LEMMA AddEcJoinsEqualColumns ==
  ASSUME NEW root, Good(root)
  PROVE  EqualColumnsAreJoined(AddEc(root))
<1> SUFFICES ASSUME NEW p \in EqualitiesOf(AddEc(root)), NEW q \in EqualitiesOf(AddEc(root)),
                    ColumnsOf(p) \intersect ColumnsOf(q) # {},
                    NEW c \in ColumnsOf(p) \union ColumnsOf(q),
                    NEW d \in ColumnsOf(p) \union ColumnsOf(q), c # d
             PROVE  Joined(AddEc(root), {c, d})
  BY DEF EqualColumnsAreJoined, EqualitiesOf
<1>0. Predicate(root)
  BY DEF Good
<1>1. PICK e \in EdgesOf(root) : ColumnsOf(p) \subseteq ClassOf(root, e)
  BY AddEcEqualities
<1>2. PICK f \in EdgesOf(root) : ColumnsOf(q) \subseteq ClassOf(root, f)
  BY AddEcEqualities
<1>3. ClassOf(root, f) \subseteq ClassOf(root, e)
  <2>1. ClassOf(root, e) \intersect ClassOf(root, f) # {}
    BY <1>1, <1>2
  <2> QED BY <2>1, ClassesAreDisjoint DEF ClassOf
<1> DEFINE pair == {c, d}
           x == EqualityOf(pair)
<1>4. Cardinality(pair) = 2
  BY TwoAreAPair
<1>5. pair \subseteq ClassOf(root, e)
  BY <1>1, <1>2, <1>3
<1> HIDE DEF pair
<1>6. pair \in PairsOf(root)
  BY <1>4, <1>5 DEF PairsOf, TwoColumns
<1>7. x \in AddedBy(root)
  BY <1>6 DEF AddedBy
<1>8. /\ pair \in SUBSET {k \in Columns : k.kind = "column" /\ Sound(k)}
      /\ Cardinality(pair) = 2 /\ IsFiniteSet(pair)
  BY <1>0, <1>6, PairsFacts
<1>9. x.operator = "=" /\ ToSet(x.parts) = pair
  <2> HIDE DEF x
  <2> QED BY <1>8, EqualityFacts DEF x
<1>10. x \in EqualitiesIn(AddEc(root))
  BY <1>7, <1>9, AddEcFacts DEF EqualitiesIn
<1>11. Joined(AddEc(root), pair)
  BY <1>9, <1>10 DEF Joined
<1> QED BY <1>11 DEF pair

\* What was plain stays plain.
LEMMA AddEcIsPlain ==
  ASSUME NEW root, Good(root), PlainEqualities(root)
  PROVE  PlainEqualities(AddEc(root))
<1> SUFFICES ASSUME NEW p \in EqualitiesOf(AddEc(root))
             PROVE  \A side \in ToSet(p.parts) : side.kind = "column"
  BY DEF PlainEqualities, EqualitiesOf
<1>1. CASE p \in AddedBy(root)
  BY <1>1, AddedByFacts DEF Good
<1>2. CASE p \in EqualitiesOf(root)
  BY <1>2 DEF PlainEqualities, EqualitiesOf
<1> QED BY <1>1, <1>2, AddEcEqualities

\* A plain equality holds for a row that has one value in both columns.
LEMMA PlainEqualityKeeps ==
  ASSUME NEW p, Predicate(p), p.kind = "binary", p.operator = "=",
         \A side \in ToSet(p.parts) : side.kind = "column", NEW row \in Rows
  PROVE  Keeps(p, row) <=> \E v \in Int : \A c \in ColumnsOf(p) : row[c] = v
<1> DEFINE a == p.parts[1]
           b == p.parts[2]
<1>1. /\ ToSet(p.parts) = {a, b} /\ Sound(a) /\ Sound(b)
      /\ ColumnsOf(p) = ColumnsOf(a) \union ColumnsOf(b)
  BY BinaryColumns
<1>2. Truth(p, row) = Compare("=", Evaluate(a, row), Evaluate(b, row))
  BY BinaryTruth
<1> HIDE DEF a, b
<1>3. a.kind = "column" /\ b.kind = "column" /\ a.kind \in ExpressionKinds /\ b.kind \in ExpressionKinds
  BY <1>1 DEF ExpressionKinds
<1>4. ColumnsOf(p) = {a, b}
  <2>1. ColumnsOf(a) = {a} /\ ColumnsOf(b) = {b}
    BY <1>1, <1>3, ColumnsOfDefined DEF Sound
  <2> QED BY <1>1, <2>1
<1>5. /\ Evaluate(a, row) = row[a] /\ Evaluate(b, row) = row[b]
      /\ row[a] \in Int \union {Null} /\ row[b] \in Int \union {Null}
  BY <1>1, <1>3, ValueType
<1>6. Keeps(p, row) <=> Compare("=", row[a], row[b]) = True
  BY <1>2, <1>5 DEF Keeps
<1>7. Compare("=", row[a], row[b]) = True <=> row[a] = row[b] /\ row[a] # Null
  <2>1. Unknown # True /\ False # True
    BY DEF Unknown, True, False
  <2> QED BY <1>5, <2>1, NullAssumption DEF Compare, NullAssumption
<1> QED BY <1>4, <1>5, <1>6, <1>7, NullAssumption DEF NullAssumption

\* Where the equalities of a class hold, all its columns have the same value.
LEMMA ClassHasOneValue ==
  ASSUME NEW root, Good(root), PlainEqualities(root), NEW row \in Rows,
         \A p \in EqualitiesOf(root) : Keeps(p, row), NEW e \in EdgesOf(root)
  PROVE  \E v \in Int : \A c \in ClassOf(root, e) : row[c] = v
<1> DEFINE U == UNION EdgesOf(root)
           E == EdgesOf(root)
           C == ClassOf(root, e)
<1>1. \A f \in E : \E v \in Int : \A c \in f : row[c] = v
  <2> SUFFICES ASSUME NEW p \in EqualitiesOf(root)
               PROVE  \E v \in Int : \A c \in ColumnsOf(p) : row[c] = v
    BY DEF EdgesOf
  <2>1. Predicate(p) /\ p.kind = "binary" /\ p.operator = "=" /\ Keeps(p, row)
    BY EdgesFacts DEF Good
  <2>2. \A side \in ToSet(p.parts) : side.kind = "column"
    BY DEF PlainEqualities, EqualitiesOf
  <2> QED BY <2>1, <2>2, PlainEqualityKeeps
<1>2. e \in E /\ \A S \in SUBSET U : e \subseteq S /\ IsClosed(E, S) => C \subseteq S
  BY ClassFacts DEF ClassOf
<1> HIDE DEF E, C
<1>3. PICK v \in Int : \A c \in e : row[c] = v
  BY <1>1, <1>2
<1> DEFINE S == {c \in U : row[c] = v}
<1>4. e \subseteq S
  BY <1>2, <1>3 DEF E
<1>5. IsClosed(E, S)
  BY <1>1 DEF IsClosed, E
<1>6. C \subseteq S
  BY <1>2, <1>4, <1>5
<1>7. \A c \in C : row[c] = v
  BY <1>6
<1> QED BY <1>7 DEF C

\* add_ec_predicates leaves the meaning of a condition of plain equalities as it is.
LEMMA AddEcKeepsRows ==
  ASSUME NEW root, Good(root), PlainEqualities(root), NEW row \in Rows
  PROVE  Keeps(AddEc(root), row) <=> Keeps(root, row)
<1>0. Predicate(root)
  BY DEF Good
<1>1. Keeps(root, row) <=> \A c \in Conjuncts(root) : Keeps(c, row)
  BY <1>0, KeepsConjuncts
<1>2. /\ Conjuncts(AddEc(root)) = AddedBy(root) \union LeftBy(root)
      /\ Keeps(AddEc(root), row) <=> \A x \in Conjuncts(AddEc(root)) : Keeps(x, row)
  BY AddEcFacts
<1>3. ASSUME \A c \in Conjuncts(root) : Keeps(c, row), NEW x \in AddedBy(root)
      PROVE  Keeps(x, row)
  <2>1. PICK pair \in PairsOf(root) :
               Keeps(x, row) <=> \E v \in Int : \A c \in pair : row[c] = v
    BY <1>0, AddedByFacts
  <2>2. PICK e \in EdgesOf(root) : pair \subseteq ClassOf(root, e)
    BY <1>0, PairsFacts
  <2>3. \A p \in EqualitiesOf(root) : Keeps(p, row)
    BY <1>0, <1>3, EdgesFacts
  <2>4. \E v \in Int : \A c \in ClassOf(root, e) : row[c] = v
    BY <2>3, ClassHasOneValue
  <2> QED BY <2>1, <2>2, <2>4
<1>4. ASSUME \A x \in AddedBy(root) : Keeps(x, row), NEW p \in JoinsOf(root), IsSimpleJoin(p)
      PROVE  Keeps(p, row)
  <2>1. p \in EqualitiesOf(root)
    BY <1>0, <1>4, SimpleJoinsAreEqualities DEF EqualitiesOf
  <2>2. /\ Predicate(p) /\ p.kind = "binary" /\ p.operator = "=" /\ ColumnsOf(p) \in EdgesOf(root)
        /\ Cardinality(ColumnsOf(p)) = 2
    BY <1>0, <2>1, EdgesFacts DEF EqualitiesOf, ColumnEqualities
  <2>3. \A side \in ToSet(p.parts) : side.kind = "column"
    BY <2>1 DEF PlainEqualities, EqualitiesOf
  <2> DEFINE pair == ColumnsOf(p)
  <2>4. pair \subseteq ClassOf(root, pair)
    BY <2>2, ClassFacts DEF ClassOf
  <2>5. pair \in PairsOf(root)
    BY <2>2, <2>4 DEF PairsOf, TwoColumns
  <2>6. EqualityOf(pair) \in AddedBy(root)
    BY <2>5 DEF AddedBy
  <2>7. /\ pair \in SUBSET {c \in Columns : c.kind = "column" /\ Sound(c)}
        /\ Cardinality(pair) = 2 /\ IsFiniteSet(pair)
    BY <1>0, <2>5, PairsFacts
  <2>8. Keeps(p, row) <=> \E v \in Int : \A c \in pair : row[c] = v
    BY <2>2, <2>3, PlainEqualityKeeps
  <2> HIDE DEF pair
  <2> DEFINE x == EqualityOf(pair)
  <2>9. Keeps(x, row) <=> \E v \in Int : \A c \in pair : row[c] = v
    <3>1. x = EqualityOf(pair)
      OBVIOUS
    <3> HIDE DEF x
    <3> QED BY <2>7, <3>1, EqualityFacts
  <2> QED BY <1>4, <2>6, <2>8, <2>9
<1> QED
  <2>1. ASSUME Keeps(root, row) PROVE Keeps(AddEc(root), row)
    BY <1>1, <1>2, <1>3, <2>1 DEF LeftBy
  <2>2. ASSUME Keeps(AddEc(root), row) PROVE Keeps(root, row)
    <3>1. \A x \in AddedBy(root) \union LeftBy(root) : Keeps(x, row)
      BY <1>2, <2>2
    <3>2. ASSUME NEW p \in Conjuncts(root) PROVE Keeps(p, row)
      <4>1. CASE p \in LeftBy(root)
        BY <3>1, <4>1
      <4>2. CASE p \in JoinsOf(root) /\ IsSimpleJoin(p)
        BY <1>4, <3>1, <4>2
      <4> QED BY <4>1, <4>2 DEF LeftBy
    <3> QED BY <1>1, <3>2
  <2> QED BY <2>1, <2>2

-------------------------------------------------------------------------------
(* The rewrites of a query. *)

\* What a query says of its original condition.
Faithful(given, root) ==
  Good(root) /\ (PlainEqualities(given) => PlainEqualities(root) /\ SameMeaning(given, root))

\* The rewrites that keep the equalities keep what is said of them.
LEMMA EqualitiesDecide ==
  ASSUME NEW p, NEW q, EqualitiesIn(p) = EqualitiesIn(q)
  PROVE  /\ PlainEqualities(p) <=> PlainEqualities(q)
         /\ EqualColumnsAreJoined(p) <=> EqualColumnsAreJoined(q)
<1>1. \A r : EqualitiesOf(r) = {c \in EqualitiesIn(r) : IsJoin(c) /\ c.kind = "binary" /\ Cardinality(ColumnsOf(c)) = 2}
  BY DEF EqualitiesOf, ColumnEqualities, JoinsOf, EqualitiesIn
<1>2. EqualitiesOf(p) = EqualitiesOf(q)
  BY <1>1
<1>3. \A columns : Joined(p, columns) <=> Joined(q, columns)
  BY DEF Joined
<1> QED
  BY <1>2, <1>3 DEF PlainEqualities, EqualColumnsAreJoined, EqualitiesOf

\* flatten_and_predicate is faithful.
LEMMA FlattenIsFaithful ==
  ASSUME NEW given, NEW root, Faithful(given, root), NEW q, q = Flatten(root)
  PROVE  Faithful(given, q) /\ (EqualColumnsAreJoined(root) => EqualColumnsAreJoined(q))
<1>1. Good(q) /\ Conjuncts(q) = Conjuncts(root) /\ \A row : Keeps(q, row) <=> Keeps(root, row)
  BY FlattenFacts DEF Faithful
<1>2. EqualitiesIn(q) = EqualitiesIn(root)
  BY <1>1 DEF EqualitiesIn
<1> QED
  BY <1>1, <1>2, EqualitiesDecide DEF Faithful, SameMeaning

\* infer_between_predicates is faithful.
LEMMA InferBetweenIsFaithful ==
  ASSUME NEW given, NEW root, Faithful(given, root), NEW q, q = InferBetween(root)
  PROVE  Faithful(given, q) /\ (EqualColumnsAreJoined(root) => EqualColumnsAreJoined(q))
<1>1. /\ Good(q) /\ EqualitiesIn(q) = EqualitiesIn(root)
      /\ \A row \in Rows : Keeps(q, row) <=> Keeps(root, row)
  BY InferBetweenFacts DEF Faithful
<1> QED
  BY <1>1, EqualitiesDecide DEF Faithful, SameMeaning

\* add_ec_predicates is faithful and compares equal columns directly.
LEMMA AddEcIsFaithful ==
  ASSUME NEW given, NEW root, Faithful(given, root), NEW q, q = AddEc(root)
  PROVE  Faithful(given, q) /\ EqualColumnsAreJoined(q)
<1>1. Good(root) /\ Good(q)
  BY AddEcFacts DEF Faithful
<1>2. EqualColumnsAreJoined(q)
  BY <1>1, AddEcJoinsEqualColumns
<1>3. ASSUME PlainEqualities(given)
      PROVE  PlainEqualities(q) /\ SameMeaning(given, q)
  <2>1. PlainEqualities(root) /\ SameMeaning(given, root)
    BY <1>3 DEF Faithful
  <2>2. PlainEqualities(q)
    BY <1>1, <2>1, AddEcIsPlain
  <2>3. \A row \in Rows : Keeps(q, row) <=> Keeps(root, row)
    BY <1>1, <2>1, AddEcKeepsRows
  <2> QED BY <2>1, <2>2, <2>3 DEF SameMeaning
<1> QED
  BY <1>1, <1>2, <1>3 DEF Faithful

\* normalize_query is faithful and compares equal columns directly.
LEMMA NormalFormIsFaithful ==
  ASSUME NEW given, NEW root, Faithful(given, root), NEW q, q = NormalForm(root)
  PROVE  Faithful(given, q) /\ EqualColumnsAreJoined(q)
<1> DEFINE b == InferBetween(root)
           a == AddEc(b)
<1>1. q = Flatten(a)
  BY DEF NormalForm
<1>2. Faithful(given, b)
  BY InferBetweenIsFaithful
<1>3. a = AddEc(b)
  OBVIOUS
<1> HIDE DEF b, a
<1>4. Faithful(given, a) /\ EqualColumnsAreJoined(a)
  BY <1>2, <1>3, AddEcIsFaithful
<1> QED
  BY <1>1, <1>4, FlattenIsFaithful

\* A filter without casts says what its SimpleFilter says.
LEMMA ExactFiltersAreExact ==
  ASSUME NEW p, Predicate(p), IsExactFilter(p)
  PROVE  SameMeaning(p, SimpleFilter(p))
<1> DEFINE operands == [i \in DOMAIN p.parts |-> Unwrapped(p.parts[i])]
<1>1. /\ p.kind \in {"binary", "between", "in", "unary"} /\ p.operator # "NOT IN"
      /\ \A i \in DOMAIN p.parts : p.parts[i].kind # "cast"
  BY DEF IsExactFilter, IsSimpleFilter, ToSet
<1>2. p \in Nodes /\ p \in NodesUpTo[Depth] /\ Depth \in 0 .. Depth /\ Depth \in 1 .. Depth
  BY HeightOfNodes, DepthAssumption DEF Predicate, Sound, DepthAssumption
<1>3. \A i \in DOMAIN p.parts : Unwrapped(p.parts[i]) = p.parts[i]
  BY <1>1, <1>2, PartsAreNodes, UnwrappedDefined
<1>4. operands = p.parts
  <2>1. p.parts \in Seq(NodesUpTo[Depth - 1])
    BY <1>2, NodeFields
  <2>2. p.parts = [i \in DOMAIN p.parts |-> p.parts[i]]
    BY <2>1
  <2> QED BY <1>3, <2>2
<1> HIDE DEF operands
<1>5. CASE p.kind = "binary" /\ operands[2].kind = "column"
  <2> DEFINE a == p.parts[1]
             b == p.parts[2]
             q == Binary(Reversed[p.operator], b, a)
  <2>1. SimpleFilter(p) = q
    BY <1>4, <1>5 DEF SimpleFilter, operands
  <2>2. /\ DOMAIN p.parts = 1 .. 2 /\ Sound(a) /\ Sound(b)
        /\ a.kind \in ExpressionKinds /\ b.kind \in ExpressionKinds
        /\ p.operator \in OperatorsOf("binary")
        /\ \A row : Truth(p, row) = Compare(p.operator, Evaluate(a, row), Evaluate(b, row))
    BY <1>5, BinaryTruth
  <2>3. a \in NodesUpTo[Depth - 1] /\ b \in NodesUpTo[Depth - 1]
    BY <1>2, <2>2, PartsAreLower
  <2>4. p.operator \in {"=", "<>", "<", ">", "<=", ">="}
    BY <2>2 DEF OperatorsOf
  <2> DEFINE o == p.operator
             r == Reversed[o]
  <2>5. /\ r \in OperatorsOf("binary")
        /\ \/ o = "<" /\ r = ">"
           \/ o = ">" /\ r = "<"
           \/ o = "<=" /\ r = ">="
           \/ o = ">=" /\ r = "<="
           \/ o \in {"=", "<>"} /\ r = o
    BY <2>4 DEF Reversed, OperatorsOf
  <2> HIDE DEF a, b, o, r
  <2>6. q = Binary(r, b, a)
    BY DEF r, o
  <2> HIDE DEF q
  <2>7. \A row : Truth(q, row) = Compare(r, Evaluate(b, row), Evaluate(a, row))
    BY <1>2, <2>2, <2>3, <2>5, <2>6, BinaryFacts
  <2>8. ASSUME NEW row \in Rows PROVE Truth(q, row) = Truth(p, row)
    <3>1. Evaluate(a, row) \in Int \union {Null} /\ Evaluate(b, row) \in Int \union {Null}
      BY <2>2, ValueType
    <3>2. Truth(p, row) = Compare(o, Evaluate(a, row), Evaluate(b, row))
      BY <2>2 DEF o
    <3> DEFINE v == Evaluate(a, row)
               w == Evaluate(b, row)
    <3>3. /\ v \in Int \union {Null} /\ w \in Int \union {Null}
          /\ Truth(p, row) = Compare(o, v, w) /\ Truth(q, row) = Compare(r, w, v)
      BY <2>7, <3>1, <3>2
    <3> HIDE DEF v, w
    <3> QED BY <2>5, <3>3, ComparisonsReverse
  <2> QED BY <2>1, <2>8 DEF SameMeaning, Keeps
<1>6. CASE ~(p.kind = "binary" /\ operands[2].kind = "column")
  <2>1. SimpleFilter(p) = [p EXCEPT !.parts = operands, !.operator = IF p.kind = "in" THEN "IN" ELSE @]
    BY <1>6 DEF SimpleFilter, operands
  <2>2. (IF p.kind = "in" THEN "IN" ELSE p.operator) = p.operator
    <3>1. p.operator \in OperatorsOf(p.kind)
      BY <1>1, SoundFacts DEF Predicate
    <3> QED BY <1>1, <3>1 DEF OperatorsOf
  <2>3. p = [kind |-> p.kind, operator |-> p.operator, parts |-> p.parts,
             table |-> p.table, name |-> p.name, value |-> p.value]
    BY <1>2, NodeFields
  <2>4. SimpleFilter(p) = p
    BY <1>4, <2>1, <2>2, <2>3
  <2> QED BY <2>4 DEF SameMeaning
<1> QED BY <1>5, <1>6

-------------------------------------------------------------------------------
(* Fragments. *)

\* A fragment is at most one predicate, of the given tables, no higher than what it is taken from.
FragmentFits(n, ts) ==
  LET f == Fragment(n, ts)
  IN /\ f # <<>> => f = << f[1] >> /\ Predicate(f[1]) /\ TablesOf(f[1]) \subseteq ts
     /\ \A h \in 0 .. Depth : n \in NodesUpTo[h] => f \in Seq(NodesUpTo[h])
     /\ TablesOf(n) \subseteq ts => f # <<>>

\* The parts of the fragment of a compound predicate.
FragmentParts(n, ts) == FlattenSeq([i \in DOMAIN n.parts |-> Fragment(n.parts[i], ts)])

\* The fragments of the parts of a compound predicate, if they fit.
LEMMA FragmentPartsFacts ==
  ASSUME NEW ts, NEW n, Predicate(n), n.kind \in Compounds,
         \A i \in DOMAIN n.parts : FragmentFits(n.parts[i], ts),
         NEW h \in 0 .. Depth, n \in NodesUpTo[h], NEW r, r = FragmentParts(n, ts)
  PROVE  /\ h \in 1 .. Depth /\ r \in Seq(NodesUpTo[h - 1])
         /\ ToSet(r) = UNION {ToSet(Fragment(n.parts[i], ts)) : i \in DOMAIN n.parts}
         /\ \A x \in ToSet(r) : Predicate(x) /\ TablesOf(x) \subseteq ts
         /\ r # <<>> => PredicatesOf(r, h - 1)
         /\ n.kind = "not" /\ r # <<>> => Len(r) = 1
<1> DEFINE s == [i \in DOMAIN n.parts |-> Fragment(n.parts[i], ts)]
           T == NodesUpTo[h - 1]
           k == Len(n.parts)
<1>1. /\ DOMAIN n.parts = 1 .. k /\ k \in Nat
      /\ n.kind = "not" => k = 1
      /\ h \in 1 .. Depth /\ PredicatesOf(n.parts, h - 1)
  BY CompoundParts
<1>2. h - 1 \in 0 .. Depth /\ \A i \in DOMAIN n.parts : n.parts[i] \in NodesUpTo[h - 1]
  BY <1>1, PredicatesOfFacts
<1>3. \A i \in DOMAIN n.parts : Fragment(n.parts[i], ts) \in Seq(T)
  BY <1>2 DEF FragmentFits
<1>4. DOMAIN s = 1 .. k /\ s = [i \in 1 .. k |-> s[i]] /\ \A i \in 1 .. k : s[i] \in Seq(T)
  BY <1>1, <1>3
<1>5. r = FlattenSeq(s)
  BY DEF FragmentParts
<1>6. {ToSet(s[i]) : i \in DOMAIN s} = {ToSet(Fragment(n.parts[i], ts)) : i \in DOMAIN n.parts}
  OBVIOUS
<1>7. \A i \in DOMAIN n.parts : s[i] = Fragment(n.parts[i], ts)
  OBVIOUS
<1> HIDE DEF s, T, k
<1>8. s \in Seq(Seq(T)) /\ Len(s) = k
  BY <1>1, <1>4
<1>9. /\ r \in Seq(T) /\ ToSet(r) = UNION {ToSet(s[i]) : i \in DOMAIN s}
      /\ Len(s) = 1 => r = s[1]
  BY <1>5, <1>8, FlattenSeqFacts
<1>10. ASSUME NEW x \in ToSet(r) PROVE Predicate(x) /\ TablesOf(x) \subseteq ts
  <2>1. PICK i \in DOMAIN n.parts : x \in ToSet(Fragment(n.parts[i], ts))
    BY <1>6, <1>9
  <2> DEFINE f == Fragment(n.parts[i], ts)
  <2>2. f = <<>> \/ (f = << f[1] >> /\ Predicate(f[1]) /\ TablesOf(f[1]) \subseteq ts)
    BY DEF FragmentFits
  <2>3. x \in ToSet(f)
    BY <2>1
  <2> HIDE DEF f
  <2>4. f # <<>>
    BY <2>3 DEF ToSet
  <2>5. DOMAIN << f[1] >> = {1} /\ << f[1] >>[1] = f[1]
    OBVIOUS
  <2>6. x = f[1]
    BY <2>2, <2>3, <2>4, <2>5 DEF ToSet
  <2> QED BY <2>2, <2>4, <2>6
<1>11. ASSUME r # <<>> PROVE PredicatesOf(r, h - 1)
  <2>1. Len(r) # 0
    BY <1>9, <1>11
  <2>2. \A i \in DOMAIN r : Predicate(r[i])
    BY <1>10 DEF ToSet
  <2> QED BY <1>9, <2>1, <2>2 DEF PredicatesOf, T
<1>12. ASSUME n.kind = "not", r # <<>> PROVE Len(r) = 1
  <2>1. r = s[1] /\ 1 \in DOMAIN n.parts
    BY <1>1, <1>8, <1>9, <1>12
  <2>2. r = Fragment(n.parts[1], ts)
    BY <1>7, <2>1
  <2>3. r = << r[1] >>
    BY <1>12, <2>1, <2>2 DEF FragmentFits
  <2>4. Len(<< r[1] >>) = 1
    OBVIOUS
  <2> QED BY <2>3, <2>4
<1> QED
  BY <1>1, <1>6, <1>9, <1>10, <1>11, <1>12 DEF T

\* The columns of AND, OR and NOT are those of their parts.
LEMMA ColumnsOfCompound ==
  ASSUME NEW p, Predicate(p), p.kind \in Compounds
  PROVE  ColumnsOf(p) = UNION {ColumnsOf(p.parts[i]) : i \in DOMAIN p.parts}
<1>1. p \in Nodes /\ p.kind # "column"
  BY DEF Predicate, Sound, Compounds
<1> QED BY <1>1, ColumnsOfDefined

\* The fragment of a compound predicate fits if those of its parts do.
LEMMA FragmentOfCompound ==
  ASSUME NEW ts, NEW n, Predicate(n), n.kind \in Compounds,
         \A i \in DOMAIN n.parts : FragmentFits(n.parts[i], ts)
  PROVE  FragmentFits(n, ts)
<1> DEFINE r == FragmentParts(n, ts)
           f == Fragment(n, ts)
           c == Compound(n.kind, r)
<1>0. n \in NodesUpTo[Depth] /\ Depth \in 0 .. Depth /\ n \in Nodes
  BY HeightOfNodes DEF Predicate, Sound
<1>1. f = IF r = <<>> THEN <<>> ELSE << c >>
  BY <1>0, FragmentDefined DEF FragmentFrom, FragmentParts
<1>2. ASSUME NEW h \in 0 .. Depth, n \in NodesUpTo[h]
      PROVE  /\ h \in 1 .. Depth /\ r \in Seq(NodesUpTo[h - 1])
             /\ ToSet(r) = UNION {ToSet(Fragment(n.parts[i], ts)) : i \in DOMAIN n.parts}
             /\ \A x \in ToSet(r) : Predicate(x) /\ TablesOf(x) \subseteq ts
             /\ r # <<>> => PredicatesOf(r, h - 1)
             /\ n.kind = "not" /\ r # <<>> => Len(r) = 1
  <2>1. r = FragmentParts(n, ts)
    OBVIOUS
  <2> HIDE DEF r
  <2> QED BY <1>2, <2>1, FragmentPartsFacts
<1>3. ASSUME NEW h \in 0 .. Depth, n \in NodesUpTo[h], r # <<>>
      PROVE  Predicate(c) /\ c \in NodesUpTo[h]
  <2>1. /\ h \in 1 .. Depth /\ r \in Seq(NodesUpTo[h - 1]) /\ Len(r) # 0
        /\ \A i \in DOMAIN r : Predicate(r[i])
        /\ n.kind = "not" => Len(r) = 1
    BY <1>2, <1>3 DEF PredicatesOf
  <2>2. c = Compound(n.kind, r)
    OBVIOUS
  <2> HIDE DEF r, c
  <2> QED BY <2>1, <2>2, CompoundFacts
<1>4. ASSUME r # <<>> PROVE TablesOf(c) \subseteq ts
  <2>1. /\ \A x \in ToSet(r) : Predicate(x) /\ TablesOf(x) \subseteq ts
        /\ r \in Seq(NodesUpTo[Depth - 1]) /\ Len(r) # 0
    BY <1>0, <1>2, <1>4 DEF PredicatesOf
  <2>2. Predicate(c)
    BY <1>0, <1>3, <1>4
  <2> HIDE DEF r
  <2>3. CASE Len(r) = 1 /\ n.kind # "not"
    <3>1. c = r[1] /\ 1 \in DOMAIN r
      BY <2>1, <2>3 DEF Compound
    <3> QED BY <2>1, <3>1 DEF ToSet
  <2>4. CASE ~(Len(r) = 1 /\ n.kind # "not")
    <3>1. c = Node(n.kind, Blank, r)
      BY <2>4 DEF Compound
    <3>2. Node(n.kind, Blank, r).kind = n.kind /\ Node(n.kind, Blank, r).parts = r
      BY DEF Node
    <3>3. c.kind \in Compounds /\ c.parts = r
      BY <3>1, <3>2
    <3> HIDE DEF c
    <3>4. ColumnsOf(c) = UNION {ColumnsOf(c.parts[i]) : i \in DOMAIN c.parts}
      BY <2>2, <3>3, ColumnsOfCompound
    <3>5. \A k \in ColumnsOf(c) : \E x \in ToSet(r) : k \in ColumnsOf(x)
      BY <3>3, <3>4 DEF ToSet
    <3> QED BY <2>1, <3>5 DEF TablesOf
  <2> QED BY <2>3, <2>4
<1>5. ASSUME TablesOf(n) \subseteq ts PROVE r # <<>>
  <2>1. 1 \in DOMAIN n.parts /\ ColumnsOf(n) = UNION {ColumnsOf(n.parts[i]) : i \in DOMAIN n.parts}
    BY CompoundParts, ColumnsOfCompound
  <2>2. TablesOf(n.parts[1]) \subseteq ts
    BY <1>5, <2>1 DEF TablesOf
  <2>3. Fragment(n.parts[1], ts) # <<>> /\ \E x : Fragment(n.parts[1], ts) = << x >>
    BY <2>1, <2>2 DEF FragmentFits
  <2>4. PICK x : Fragment(n.parts[1], ts) = << x >>
    BY <2>3
  <2>5. x \in ToSet(Fragment(n.parts[1], ts))
    BY <2>4 DEF ToSet
  <2>6. x \in ToSet(r)
    BY <1>0, <1>2, <2>1, <2>5
  <2> QED BY <2>6 DEF ToSet
<1>6. ASSUME NEW h \in 0 .. Depth, n \in NodesUpTo[h] PROVE f \in Seq(NodesUpTo[h])
  <2>1. CASE r = <<>>
    BY <1>1, <2>1
  <2>2. CASE r # <<>>
    <3> DEFINE T == NodesUpTo[h]
    <3>1. f = << c >> /\ c \in T
      BY <1>1, <1>3, <1>6, <2>2
    <3> HIDE DEF f, c, T
    <3>2. f \in Seq(T)
      BY <3>1
    <3> QED BY <3>2 DEF T
  <2> QED BY <2>1, <2>2
<1>7. f # <<>> => f = << f[1] >> /\ Predicate(f[1]) /\ TablesOf(f[1]) \subseteq ts
  <2> SUFFICES ASSUME f # <<>> PROVE f = << f[1] >> /\ Predicate(f[1]) /\ TablesOf(f[1]) \subseteq ts
    OBVIOUS
  <2>1. r # <<>> /\ f = << c >>
    BY <1>1
  <2>2. Predicate(c) /\ TablesOf(c) \subseteq ts
    BY <1>0, <1>3, <1>4, <2>1
  <2> HIDE DEF f, c
  <2>3. f[1] = c
    BY <2>1
  <2> QED BY <2>1, <2>2, <2>3
<1>8. TablesOf(n) \subseteq ts => f # <<>>
  BY <1>1, <1>5
<1> QED
  BY <1>6, <1>7, <1>8 DEF FragmentFits

\* The fragment of any predicate fits.
LEMMA FragmentFacts == ASSUME NEW ts, NEW p, Predicate(p) PROVE FragmentFits(p, ts)
<1> DEFINE S == {n \in Nodes : Predicate(n) => FragmentFits(n, ts)}
<1>1. ASSUME NEW n \in Nodes, \A i \in DOMAIN n.parts : n.parts[i] \in S, Predicate(n)
      PROVE  FragmentFits(n, ts)
  <2>1. CASE n.kind \in Compounds
    <3>1. \A i \in DOMAIN n.parts : Predicate(n.parts[i])
      BY <1>1, <2>1, CompoundParts
    <3> QED BY <1>1, <2>1, <3>1, FragmentOfCompound
  <2>2. CASE n.kind \notin Compounds
    <3> DEFINE f == Fragment(n, ts)
    <3>1. f = IF TablesOf(n) \subseteq ts THEN << n >> ELSE <<>>
      BY <2>2, FragmentDefined DEF FragmentFrom
    <3> HIDE DEF f
    <3>2. f # <<>> => f = << f[1] >> /\ f[1] = n /\ TablesOf(n) \subseteq ts
      BY <3>1
    <3>3. TablesOf(n) \subseteq ts => f # <<>>
      BY <3>1
    <3>4. \A h \in 0 .. Depth : n \in NodesUpTo[h] => f \in Seq(NodesUpTo[h])
      <4> SUFFICES ASSUME NEW h \in 0 .. Depth, n \in NodesUpTo[h] PROVE f \in Seq(NodesUpTo[h])
        OBVIOUS
      <4> DEFINE T == NodesUpTo[h]
      <4>1. n \in T
        OBVIOUS
      <4> HIDE DEF T
      <4>2. f \in Seq(T)
        BY <3>1, <4>1
      <4> QED BY <4>2 DEF T
    <3> QED BY <1>1, <3>2, <3>3, <3>4 DEF FragmentFits, f
  <2> QED BY <2>1, <2>2
<1>2. \A n \in Nodes : n \in S
  <2>1. \A n \in Nodes : (\A i \in DOMAIN n.parts : n.parts[i] \in S) => n \in S
    BY <1>1
  <2> HIDE DEF S
  <2> QED BY <2>1, NodeInduction
<1> QED
  BY <1>2 DEF Predicate, Sound

\* The fragment of a conjunction says what those of its parts say.
LEMMA FragmentOfAnd ==
  ASSUME NEW ts, NEW n, Predicate(n), n.kind = "and", NEW row
  PROVE  (\A x \in ToSet(Fragment(n, ts)) : Keeps(x, row)) <=>
           \A i \in DOMAIN n.parts : \A x \in ToSet(Fragment(n.parts[i], ts)) : Keeps(x, row)
<1> DEFINE r == FragmentParts(n, ts)
           f == Fragment(n, ts)
           c == Compound("and", r)
<1>0. n \in NodesUpTo[Depth] /\ Depth \in 0 .. Depth /\ n \in Nodes /\ n.kind \in Compounds
  BY HeightOfNodes DEF Predicate, Sound, Compounds
<1>1. f = IF r = <<>> THEN <<>> ELSE << c >>
  BY <1>0, FragmentDefined DEF FragmentFrom, FragmentParts
<1>2. \A i \in DOMAIN n.parts : FragmentFits(n.parts[i], ts)
  BY <1>0, CompoundParts, FragmentFacts
<1>3. /\ Depth \in 1 .. Depth
      /\ ToSet(r) = UNION {ToSet(Fragment(n.parts[i], ts)) : i \in DOMAIN n.parts}
      /\ r # <<>> => PredicatesOf(r, Depth - 1)
  <2>1. r = FragmentParts(n, ts)
    OBVIOUS
  <2> HIDE DEF r
  <2> QED BY <1>0, <1>2, <2>1, FragmentPartsFacts
<1>4. (\A i \in DOMAIN n.parts : \A x \in ToSet(Fragment(n.parts[i], ts)) : Keeps(x, row)) <=>
        \A x \in ToSet(r) : Keeps(x, row)
  <2> HIDE DEF r
  <2> QED BY <1>3
<1>5. CASE r = <<>>
  <2>1. ToSet(f) = {} /\ ToSet(r) = {}
    BY <1>1, <1>5 DEF ToSet
  <2> HIDE DEF f, r
  <2> QED BY <1>4, <2>1 DEF f
<1>6. CASE r # <<>>
  <2>1. ToSet(f) = {c}
    <3>1. f = << c >>
      BY <1>1, <1>6
    <3> HIDE DEF f, c
    <3> QED BY <3>1 DEF ToSet
  <2>2. PredicatesOf(r, Depth - 1) /\ c = Compound("and", r)
    BY <1>3, <1>6
  <2> HIDE DEF f, r, c
  <2>3. \A w : /\ \A i \in DOMAIN r : Truth(c, w) <= Truth(r[i], w)
               /\ \E i \in DOMAIN r : Truth(c, w) = Truth(r[i], w)
    BY <1>3, <2>2, AndFacts
  <2>4. \A i \in DOMAIN r : Truth(r[i], row) \in Truths
    BY <2>2, TruthType DEF PredicatesOf, Predicate
  <2>5. Keeps(c, row) <=> \A i \in DOMAIN r : Keeps(r[i], row)
    BY <2>3, <2>4 DEF Keeps, Truths, True, False, Unknown
  <2>6. (\A x \in ToSet(r) : Keeps(x, row)) <=> \A i \in DOMAIN r : Keeps(r[i], row)
    BY DEF ToSet
  <2> QED BY <1>4, <2>1, <2>5, <2>6 DEF f
<1> QED BY <1>5, <1>6

\* The fragment of a hierarchy, if no OR or NOT is taken apart, says what those of its
\* conjuncts say that refer to the given tables only.
LEMMA FragmentKeeps ==
  ASSUME NEW ts, NEW row, NEW p, Predicate(p),
         \A c \in Conjuncts(p) : Fragment(c, ts) \in {<<>>, << c >>}
  PROVE  (\A x \in ToSet(Fragment(p, ts)) : Keeps(x, row)) <=>
           \A c \in Conjuncts(p) : TablesOf(c) \subseteq ts => Keeps(c, row)
<1> DEFINE Exact(n) == \A c \in Conjuncts(n) : Fragment(c, ts) \in {<<>>, << c >>}
           Says(n) == (\A x \in ToSet(Fragment(n, ts)) : Keeps(x, row)) <=>
                        \A c \in Conjuncts(n) : TablesOf(c) \subseteq ts => Keeps(c, row)
           S == {n \in Nodes : Predicate(n) /\ Exact(n) => Says(n)}
<1>1. ASSUME NEW n \in Nodes, \A i \in DOMAIN n.parts : n.parts[i] \in S, Predicate(n), Exact(n)
      PROVE  Says(n)
  <2>1. CASE n.kind = "and"
    <3>1. \A i \in DOMAIN n.parts : Predicate(n.parts[i])
      BY <1>1, <2>1, CompoundParts DEF Compounds
    <3>2. Conjuncts(n) = UNION {Conjuncts(n.parts[i]) : i \in DOMAIN n.parts}
      BY <2>1, ConjunctsDefined
    <3>3. \A i \in DOMAIN n.parts : Exact(n.parts[i])
      BY <1>1, <3>2
    <3>4. \A i \in DOMAIN n.parts : Says(n.parts[i])
      BY <1>1, <3>1, <3>3
    <3>5. (\A x \in ToSet(Fragment(n, ts)) : Keeps(x, row)) <=>
            \A i \in DOMAIN n.parts : \A x \in ToSet(Fragment(n.parts[i], ts)) : Keeps(x, row)
      BY <1>1, <2>1, FragmentOfAnd
    <3>6. (\A c \in Conjuncts(n) : TablesOf(c) \subseteq ts => Keeps(c, row)) <=>
            \A i \in DOMAIN n.parts : \A c \in Conjuncts(n.parts[i]) :
              TablesOf(c) \subseteq ts => Keeps(c, row)
      BY <3>2
    <3> QED BY <3>4, <3>5, <3>6
  <2>2. CASE n.kind # "and"
    <3> DEFINE f == Fragment(n, ts)
    <3>1. Conjuncts(n) = {n}
      BY <1>1, <2>2, ConjunctsFacts
    <3>2. f \in {<<>>, << n >>}
      BY <1>1, <3>1
    <3>3. /\ f # <<>> => f = << f[1] >> /\ TablesOf(f[1]) \subseteq ts
          /\ TablesOf(n) \subseteq ts => f # <<>>
      BY <1>1, FragmentFacts DEF FragmentFits
    <3> HIDE DEF f
    <3>4. CASE f = <<>>
      <4>1. ToSet(f) = {}
        BY <3>4 DEF ToSet
      <4> QED BY <3>1, <3>3, <3>4, <4>1 DEF f
    <3>5. CASE f # <<>>
      <4>1. f = << n >> /\ f[1] = n
        BY <3>2, <3>5
      <4>2. ToSet(f) = {n} /\ TablesOf(n) \subseteq ts
        BY <3>3, <3>5, <4>1 DEF ToSet
      <4> QED BY <3>1, <4>2 DEF f
    <3> QED BY <3>4, <3>5
  <2> QED BY <2>1, <2>2
<1>2. \A n \in Nodes : n \in S
  <2>1. \A n \in Nodes : (\A i \in DOMAIN n.parts : n.parts[i] \in S) => n \in S
    BY <1>1
  <2> HIDE DEF S
  <2> QED BY <2>1, NodeInduction
<1> QED
  BY <1>2 DEF Predicate, Sound

-------------------------------------------------------------------------------
(* What the PredicateTree is told of a predicate. *)

\* The base predicates below a predicate are base predicates of its columns.
LEMMA BasePredicatesFacts ==
  ASSUME NEW p, Predicate(p)
  PROVE  \A b \in BasePredicates(p) :
           /\ Predicate(b) /\ b.kind \notin Compounds /\ 1 \in DOMAIN b.parts
           /\ ColumnsOf(b) \subseteq ColumnsOf(p)
<1> DEFINE Fits(n) == \A b \in BasePredicates(n) :
                        /\ Predicate(b) /\ b.kind \notin Compounds /\ 1 \in DOMAIN b.parts
                        /\ ColumnsOf(b) \subseteq ColumnsOf(n)
           S == {n \in Nodes : Predicate(n) => Fits(n)}
<1>1. ASSUME NEW n \in Nodes, \A i \in DOMAIN n.parts : n.parts[i] \in S, Predicate(n)
      PROVE  Fits(n)
  <2>1. CASE n.kind \in Compounds
    <3>1. BasePredicates(n) = UNION {BasePredicates(n.parts[i]) : i \in DOMAIN n.parts}
      BY <2>1, BasePredicatesDefined
    <3>2. \A i \in DOMAIN n.parts : ColumnsOf(n.parts[i]) \subseteq ColumnsOf(n)
      BY <1>1, <2>1, ColumnsOfCompound
    <3>3. \A i \in DOMAIN n.parts : Fits(n.parts[i])
      BY <1>1, <2>1, CompoundParts
    <3> QED BY <3>1, <3>2, <3>3
  <2>2. CASE n.kind \notin Compounds
    <3>1. BasePredicates(n) = {n}
      BY <2>2, BasePredicatesDefined
    <3>2. /\ n.kind \in {"binary", "between", "in", "unary"} /\ Sound(n)
      BY <1>1, <2>2 DEF Predicate, PredicateKinds
    <3> DEFINE k == Len(n.parts)
    <3>3. /\ k \in Nat /\ DOMAIN n.parts = 1 .. k
          /\ k = 2 \/ k = 3 \/ k >= 2 \/ k = 1
      BY <3>2, SoundFacts
    <3> HIDE DEF k
    <3>4. 1 \in DOMAIN n.parts
      BY <3>3
    <3> QED BY <1>1, <2>2, <3>1, <3>4
  <2> QED BY <2>1, <2>2
<1>2. \A n \in Nodes : n \in S
  <2>1. \A n \in Nodes : (\A i \in DOMAIN n.parts : n.parts[i] \in S) => n \in S
    BY <1>1
  <2> HIDE DEF S
  <2> QED BY <2>1, NodeInduction
<1> QED
  BY <1>2 DEF Predicate, Sound

\* Join partners are pairs of tables of the predicate.
LEMMA PartnersArePairs ==
  ASSUME NEW p, Predicate(p)
  PROVE  /\ TablesOf(p) \subseteq Tables
         /\ JoinPartners(p) \subseteq Pairs /\ UNION JoinPartners(p) \subseteq TablesOf(p)
<1>1. \A c \in ColumnsOf(p) : c.table \in Tables
  BY ColumnsAreSound, SoundColumns DEF Predicate
<1>2. ASSUME NEW b \in BasePredicates(p), NEW pair \in BasePartners(b)
      PROVE  pair \in Pairs /\ pair \subseteq TablesOf(p)
  <2> DEFINE own == IF b.kind = "binary" THEN ColumnsOf(b) ELSE ColumnsOf(b.parts[1])
  <2>1. /\ Predicate(b) /\ b.kind \notin Compounds /\ 1 \in DOMAIN b.parts
        /\ ColumnsOf(b) \subseteq ColumnsOf(p)
    BY <1>2, BasePredicatesFacts
  <2>2. ColumnsOf(b.parts[1]) \subseteq ColumnsOf(b)
    <3>1. b \in Nodes /\ b.kind # "column"
      BY <2>1 DEF Predicate, Sound, PredicateKinds, Compounds
    <3> QED BY <2>1, <3>1, ColumnsOfDefined
  <2>3. own \subseteq ColumnsOf(b)
    BY <2>2
  <2>4. pair \in {{c.table, d.table} : c \in own, d \in ColumnsOf(b)} \ {{c.table} : c \in own}
    BY <1>2 DEF BasePartners, JoinPairsOf
  <2> HIDE DEF own
  <2>5. PICK c \in own, d \in ColumnsOf(b) : pair = {c.table, d.table}
    BY <2>4
  <2>6. pair # {c.table}
    BY <2>4
  <2>7. c \in ColumnsOf(p) /\ d \in ColumnsOf(p)
    BY <2>1, <2>3
  <2>8. c.table # d.table
    BY <2>5, <2>6
  <2> QED BY <1>1, <2>5, <2>7, <2>8 DEF Pairs, TablesOf
<1>3. TablesOf(p) \subseteq Tables
  BY <1>1 DEF TablesOf
<1> QED
  BY <1>2, <1>3 DEF JoinPartners

\* The predicates of any condition are as PredicateTree expects them.
LEMMA QueriesAreWellFormed ==
  ASSUME NEW root, Predicate(root)
  PROVE  WellFormed(QueryOf(root))
<1> SUFFICES ASSUME NEW p \in Conjuncts(root), NEW c, c = Conjunct(p)
             PROVE  /\ c.tables \subseteq Tables /\ c.partners \subseteq Pairs
                    /\ UNION c.partners \subseteq c.tables
                    /\ c.join \in BOOLEAN /\ c.raises \in BOOLEAN
  BY DEF WellFormed, QueryOf
<1>1. Predicate(p)
  BY ConjunctsFacts
<1>2. /\ c.tables = TablesOf(p) /\ c.partners = IF IsJoin(p) THEN JoinPartners(p) ELSE {}
      /\ c.join = IsJoin(p) /\ c.raises = (IsJoin(p) /\ RaisesNoJoin(p))
  BY DEF Conjunct
<1>3. c.join \in BOOLEAN /\ c.raises \in BOOLEAN
  BY <1>2 DEF IsJoin
<1> QED
  BY <1>1, <1>2, <1>3, PartnersArePairs

-------------------------------------------------------------------------------
(* The invariant of planning. *)

\* The predicates to plan with are those of a condition that keeps the rows of the one given.
PlanInv ==
  /\ Inv
  /\ query = QueryOf(query.root)
  /\ Faithful(original, query.root)
  /\ closed \in BOOLEAN /\ (closed => EqualColumnsAreJoined(query.root))

\* What Init knows of a condition.
LEMMA ConditionsAreGood ==
  ASSUME NEW q \in Queries
  PROVE  q = QueryOf(q.root) /\ Good(q.root) /\ Faithful(q.root, q.root)
<1>1. /\ q = QueryOf(q.root) /\ Legal(q.root)
      /\ Conjuncts(q.root) \subseteq NodesUpTo[Depth - 1]
  BY ConditionsAssumption DEF ConditionsAssumption
<1>2. Good(q.root)
  BY <1>1 DEF Legal, Good, Predicate, Sound
<1> QED
  BY <1>1, <1>2 DEF Faithful, SameMeaning

\* The original condition is faithful to itself.
LEMMA PlanInitEstablishes == PlanInit => PlanInv
<1> SUFFICES ASSUME PlanInit PROVE PlanInv
  OBVIOUS
<1>1. Inv /\ query \in Queries /\ original = query.root /\ closed = FALSE
  BY InitEstablishes DEF PlanInit, Init
<1> QED
  BY <1>1, ConditionsAreGood DEF PlanInv

\* A rewrite to a condition that is faithful as well.
LEMMA RewritePreserves ==
  ASSUME PlanInv, NEW root, Rewrite(root), Faithful(original, root), closed' \in BOOLEAN,
         closed' => EqualColumnsAreJoined(root)
  PROVE  PlanInv'
<1>1. /\ query' = QueryOf(root) /\ intermediates = {} /\ intermediates' = {}
      /\ order' = order /\ raised' = raised /\ original' = original
  BY DEF Rewrite
<1>2. query'.root = root
  BY <1>1 DEF QueryOf
<1>3. Inv'
  <2>1. WellFormed(query')
    BY <1>1, QueriesAreWellFormed DEF Faithful, Good
  <2>2. order' \in Orders /\ raised' \in BOOLEAN
    BY <1>1 DEF PlanInv, Inv, TypeOK
  <2>3. TypeOK'
    BY <1>1, <2>1, <2>2 DEF TypeOK, WellFormed
  <2> QED
    BY <1>1, <2>3 DEF Inv, SimplePredicatesAreApplied, IntermediatesAreConnected
<1>4. (query = QueryOf(query.root))'
  BY <1>1, <1>2
<1>5. Faithful(original, query.root)'
  BY <1>1, <1>2 DEF Faithful, SameMeaning, PlainEqualities, Good
<1>6. (closed \in BOOLEAN)' /\ (closed => EqualColumnsAreJoined(query.root))'
  BY <1>2 DEF EqualColumnsAreJoined, Joined
<1> QED
  BY <1>3, <1>4, <1>5, <1>6 DEF PlanInv

\* Steps that do not touch the query, or its original condition.
LEMMA QueryIsKept ==
  ASSUME PlanInv, Inv', query' = query, original' = original, closed' = closed
  PROVE  PlanInv'
<1>1. (query = QueryOf(query.root))'
  BY DEF PlanInv
<1>2. Faithful(original, query.root)'
  BY DEF PlanInv, Faithful, SameMeaning, PlainEqualities, Good
<1>3. (closed \in BOOLEAN)' /\ (closed => EqualColumnsAreJoined(query.root))'
  BY DEF PlanInv, EqualColumnsAreJoined, Joined
<1> QED
  BY <1>1, <1>2, <1>3 DEF PlanInv

\* Failing leaves the parts of a plan as they are.
LEMMA UnchangedPreserves ==
  ASSUME Inv, query' = query, order' = order, intermediates' = intermediates, raised' \in BOOLEAN
  PROVE  Inv'
<1>1. TypeOK' /\ SimplePredicatesAreApplied'
  BY DEF Inv, TypeOK, WellFormed, SimplePredicatesAreApplied, Simple
<1>2. IntermediatesAreConnected'
  BY DEF Inv, IntermediatesAreConnected, Connected, Adjacent, Neighbours, Joins, PartnersOf
<1> QED
  BY <1>1, <1>2 DEF Inv

\* The steps of building a plan.
LEMMA NextPreserves == ASSUME Inv, Next PROVE Inv'
<1>1. CASE \E t \in Tables : Scan(t)
  BY <1>1, ScanPreserves
<1>2. CASE \E l, r \in intermediates : Join(l, r)
  BY <1>2, JoinPreserves
<1>3. CASE \E l, r \in intermediates : JoinRaises(l, r)
  BY <1>3, UnchangedPreserves DEF JoinRaises
<1> QED
  BY <1>1, <1>2, <1>3 DEF Next

\* Every rewrite and every step of building a plan keeps the invariant.
LEMMA PlanStepPreserves == ASSUME PlanInv, [PlanNext]_planVars PROVE PlanInv'
<1>0. Faithful(original, query.root)
  BY DEF PlanInv
<1>1. CASE InferBetweenPredicates
  <2> DEFINE root == InferBetween(query.root)
  <2>1. Rewrite(root) /\ closed' = closed /\ root = InferBetween(query.root)
    BY <1>1 DEF InferBetweenPredicates
  <2> HIDE DEF root
  <2>2. Faithful(original, root) /\ (EqualColumnsAreJoined(query.root) => EqualColumnsAreJoined(root))
    BY <1>0, <2>1, InferBetweenIsFaithful
  <2> QED BY <2>1, <2>2, RewritePreserves DEF PlanInv
<1>2. CASE FlattenAndPredicate
  <2> DEFINE root == Flatten(query.root)
  <2>1. Rewrite(root) /\ closed' = closed /\ root = Flatten(query.root)
    BY <1>2 DEF FlattenAndPredicate
  <2> HIDE DEF root
  <2>2. Faithful(original, root) /\ (EqualColumnsAreJoined(query.root) => EqualColumnsAreJoined(root))
    BY <1>0, <2>1, FlattenIsFaithful
  <2> QED BY <2>1, <2>2, RewritePreserves DEF PlanInv
<1>3. CASE AddEcPredicates
  <2> DEFINE root == AddEc(query.root)
  <2>1. Rewrite(root) /\ closed' = TRUE /\ root = AddEc(query.root)
    BY <1>3 DEF AddEcPredicates
  <2> HIDE DEF root
  <2>2. Faithful(original, root) /\ EqualColumnsAreJoined(root)
    BY <1>0, <2>1, AddEcIsFaithful
  <2> QED BY <2>1, <2>2, RewritePreserves
<1>4. CASE NormalizeQuery
  <2> DEFINE root == NormalForm(query.root)
  <2>1. Rewrite(root) /\ closed' = TRUE /\ root = NormalForm(query.root)
    BY <1>4 DEF NormalizeQuery
  <2> HIDE DEF root
  <2>2. Faithful(original, root) /\ EqualColumnsAreJoined(root)
    BY <1>0, <2>1, NormalFormIsFaithful
  <2> QED BY <2>1, <2>2, RewritePreserves
<1>5. CASE AddEcRaises
  <2>1. /\ query' = query /\ order' = order /\ intermediates' = intermediates /\ raised' = TRUE
        /\ original' = original /\ closed' = closed
    BY <1>5 DEF AddEcRaises
  <2>2. Inv'
    BY <2>1, UnchangedPreserves DEF PlanInv
  <2> QED BY <2>1, <2>2, QueryIsKept
<1>6. CASE Plan
  <2>1. Next /\ original' = original /\ closed' = closed
    BY <1>6 DEF Plan
  <2>2. query' = query
    BY <2>1 DEF Next, Scan, Join, JoinRaises
  <2>3. Inv'
    BY <2>1, NextPreserves DEF PlanInv
  <2> QED BY <2>1, <2>2, <2>3, QueryIsKept
<1>7. CASE UNCHANGED planVars
  <2>1. /\ query' = query /\ order' = order /\ intermediates' = intermediates /\ raised' = raised
        /\ original' = original /\ closed' = closed
    BY <1>7 DEF planVars
  <2>2. raised' \in BOOLEAN
    BY <2>1 DEF PlanInv, Inv, TypeOK
  <2>3. Inv'
    BY <2>1, <2>2, UnchangedPreserves DEF PlanInv
  <2> QED BY <2>1, <2>3, QueryIsKept
<1> QED
  BY <1>1, <1>2, <1>3, <1>4, <1>5, <1>6, <1>7 DEF PlanNext

-------------------------------------------------------------------------------
(* The theorems. *)

\* The inductive invariant: in whatever order a condition is rewritten, the predicates to plan
\* with are sound, keep the rows of the condition as it was given, and compare equal columns
\* directly once add_ec_predicates has run; plans apply them as PlansAreSound says.
THEOREM PlanningIsSound == PlanSpec => []PlanInv
BY PlanInitEstablishes, PlanStepPreserves, PTL DEF PlanSpec

\* infer_between_predicates, add_ec_predicates, flatten_and_predicate and normalize_query, in
\* any order and number, keep the result of any query, and SimpleFilters mean their filters.
THEOREM RewritesAreSound == PlanSpec => []RewritesKeepRows
<1>1. ASSUME PlanInv PROVE RewritesKeepRows
  <2>1. \A p \in FiltersOf(query.root) : Predicate(p)
    BY <1>1, ConjunctsFacts DEF PlanInv, Faithful, Good, FiltersOf
  <2>2. \A p \in FiltersOf(query.root) : IsExactFilter(p) => SameMeaning(p, SimpleFilter(p))
    BY <2>1, ExactFiltersAreExact
  <2>3. PlainEqualities(original) => SameMeaning(original, query.root)
    BY <1>1 DEF PlanInv, Faithful
  <2> QED BY <2>2, <2>3 DEF RewritesKeepRows
<1> QED BY <1>1, PlanningIsSound, PTL

\* Columns that equal a third one are compared directly after add_ec_predicates, and later
\* rewrites keep this.
THEOREM EquivalencesAreClosed == PlanSpec => []EquivalentColumnsAreJoined
<1>1. ASSUME PlanInv PROVE EquivalentColumnsAreJoined
  <2>1. closed => EqualColumnsAreJoined(query.root)
    BY <1>1 DEF PlanInv
  <2>2. \A columns : Joined(query.root, columns) =>
                       \E r \in Conjuncts(query.root) : r.operator = "=" /\ ToSet(r.parts) = columns
    BY DEF Joined, EqualitiesIn
  <2> QED BY <2>1, <2>2 DEF EquivalentColumnsAreJoined, EqualColumnsAreJoined
<1> QED BY <1>1, PlanningIsSound, PTL

\* The predicates that a plan has applied, if all are simple: those of its tables.
LEMMA AppliedPredicates ==
  ASSUME PlanInv, NEW i \in intermediates, \A c \in query.predicates : Simple(c), NEW row
  PROVE  (\A c \in i.applied : Keeps(c.predicate, row)) <=>
           \A p \in Conjuncts(query.root) : TablesOf(p) \subseteq i.tables => Keeps(p, row)
<1>1. query.predicates = {Conjunct(p) : p \in Conjuncts(query.root)}
  <2>1. QueryOf(query.root).predicates = {Conjunct(p) : p \in Conjuncts(query.root)}
    BY DEF QueryOf
  <2> QED BY <2>1 DEF PlanInv
<1>2. \A p : Conjunct(p).predicate = p /\ Conjunct(p).tables = TablesOf(p)
  BY DEF Conjunct
<1>3. /\ i.applied \subseteq query.predicates
      /\ \A c \in query.predicates : c \in i.applied <=> c.tables \subseteq i.tables
  BY DEF PlanInv, Inv, TypeOK, SimplePredicatesAreApplied
<1>4. i.applied = {c \in query.predicates : c.tables \subseteq i.tables}
  BY <1>3
<1>5. ASSUME \A c \in i.applied : Keeps(c.predicate, row),
             NEW p \in Conjuncts(query.root), TablesOf(p) \subseteq i.tables
      PROVE  Keeps(p, row)
  <2>1. Conjunct(p) \in i.applied
    BY <1>1, <1>2, <1>4, <1>5
  <2> QED BY <1>2, <1>5, <2>1
<1>6. ASSUME \A p \in Conjuncts(query.root) : TablesOf(p) \subseteq i.tables => Keeps(p, row),
             NEW c \in i.applied
      PROVE  Keeps(c.predicate, row)
  <2>1. c \in query.predicates /\ c.tables \subseteq i.tables
    BY <1>4, <1>6
  <2>2. PICK p \in Conjuncts(query.root) : c = Conjunct(p)
    BY <1>1, <2>1
  <2> QED BY <1>2, <1>6, <2>1, <2>2
<1> QED BY <1>5, <1>6

\* The plan of any tables of a query of simple predicates applies what extract_query_fragment
\* finds for these tables.
THEOREM FragmentsAreWhatPlansApply == PlanSpec => []PlansMatchFragments
<1>1. ASSUME PlanInv PROVE PlansMatchFragments
  <2> SUFFICES ASSUME NEW i \in intermediates,
                      \A c \in query.predicates : Simple(c) /\ ~Broken(c.predicate, i.tables),
                      NEW row \in Rows
               PROVE  (\A c \in i.applied : Keeps(c.predicate, row)) <=>
                        \A p \in ToSet(Fragment(query.root, i.tables)) : Keeps(p, row)
    BY DEF PlansMatchFragments
  <2>1. \A p \in Conjuncts(query.root) : Fragment(p, i.tables) \in {<<>>, << p >>}
    <3>1. \A p \in Conjuncts(query.root) : Conjunct(p) \in query.predicates
      <4>1. QueryOf(query.root).predicates = {Conjunct(p) : p \in Conjuncts(query.root)}
        BY DEF QueryOf
      <4> QED BY <1>1, <4>1 DEF PlanInv
    <3>2. \A p : Conjunct(p).predicate = p
      BY DEF Conjunct
    <3> QED BY <3>1, <3>2 DEF Broken
  <2>2. Predicate(query.root)
    BY <1>1 DEF PlanInv, Faithful, Good
  <2>3. (\A x \in ToSet(Fragment(query.root, i.tables)) : Keeps(x, row)) <=>
          \A c \in Conjuncts(query.root) : TablesOf(c) \subseteq i.tables => Keeps(c, row)
    BY <2>1, <2>2, FragmentKeeps
  <2> QED BY <1>1, <2>3, AppliedPredicates
<1> QED BY <1>1, PlanningIsSound, PTL

\* A complete plan of simple predicates keeps exactly the rows of the query as it was given.
THEOREM PlansAreEquivalentToTheQuery == PlanSpec => []PlansReturnTheQuery
<1>1. ASSUME PlanInv PROVE PlansReturnTheQuery
  <2> SUFFICES ASSUME NEW i \in intermediates, i.tables = Tables, PlainEqualities(original),
                      \A c \in query.predicates : Simple(c), NEW row \in Rows
               PROVE  (\A c \in i.applied : Keeps(c.predicate, row)) <=> Keeps(original, row)
    BY DEF PlansReturnTheQuery
  <2>1. Predicate(query.root) /\ (Keeps(original, row) <=> Keeps(query.root, row))
    BY <1>1 DEF PlanInv, Faithful, Good, SameMeaning
  <2>2. \A p \in Conjuncts(query.root) : TablesOf(p) \subseteq i.tables
    BY <2>1, ConjunctsFacts, PartnersArePairs
  <2> QED BY <1>1, <2>1, <2>2, AppliedPredicates, KeepsConjuncts
<1> QED BY <1>1, PlanningIsSound, PTL

\* Each simple predicate of a rewritten query, too, is applied exactly where its tables are.
THEOREM RewrittenPredicatesAreApplied == PlanSpec => []SimplePredicatesAreApplied
BY PlanningIsSound, PTL DEF PlanInv, Inv
===============================================================================
