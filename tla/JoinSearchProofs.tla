---------------------------- MODULE JoinSearchProofs ----------------------------
(***************************************************************************)
(* PostgresDynProg and DynamicProgrammingEnumerator for any number of      *)
(* tables, any join graph and any costs: the paths are trees over their    *)
(* relations, the plan is within one percent of the optimum, and where the *)
(* textbook enumerator has no other plans, its own is not much better.     *)
(*                                                                         *)
(* The argument has four parts.  Pruning: a list keeps a path of least     *)
(* rank for all that were offered to it, and only scans have more than one *)
(* rank per cost, so only they lose a percent.  The cost model: prices     *)
(* grow with the costs of the inputs, and a percent of the inputs is a     *)
(* percent of the join at most.  The levels: each connected set is found   *)
(* on its level and each of its splits is offered to it in both            *)
(* directions.  The reference: Optimum, a recursive function, is the least *)
(* of the costs it is defined by.                                          *)
(***************************************************************************)
EXTENDS JoinSearch, FiniteSetTheorems, SequenceTheorems, WellFoundedInduction, TLAPS

-------------------------------------------------------------------------------
(* The invariant. *)

Operator == ScanOperator \union JoinMethod \union {"gather"}
AnyPath == [op : Operator, sort : SUBSET Tables, cost : Nat \union {Infinite},
            workers : Nat, parts : SUBSET SUBSET Tables]

\* The intermediates of a plan that joins S.
TreeOver(qry, S, parts) ==
  /\ parts \subseteq (SUBSET S) \ {{}}
  /\ S \in parts /\ \A t \in S : {t} \in parts
  /\ IsFiniteSet(parts) /\ Cardinality(parts) = 2 * Cardinality(S) - 1
  /\ \A part \in parts : Cardinality(part) > 1 =>
       \E outer \in parts : /\ outer # part /\ part \ outer \in parts
                            /\ outer \subseteq part
                            /\ JoinsBetween(qry, outer, part \ outer) # {}

\* The legal paths over S that cost at least so much.  Only scans are sorted.
PathsOver(qry, S, least) ==
  {path \in AnyPath : /\ path.cost # Infinite
                      /\ least # Infinite /\ least <= path.cost
                      /\ Cardinality(S) > 1 => path.sort = {}
                      /\ TreeOver(qry, S, path.parts)}

ListOf(P) == {list \in [offers : Seq(P), kept : SUBSET Nat] : list.kept \subseteq 1 .. Len(list.offers)}

Regular(qry, S) == Optimum(qry)[S].regular
Partial(qry, S) == Optimum(qry)[S].partial

RelOf(qry, S) == [pathlist : ListOf(PathsOver(qry, S, Regular(qry, S))),
                  partial_paths : ListOf(PathsOver(qry, S, Partial(qry, S))),
                  cheapest_path : Nat, cheapest_partial_path : Nat]

\* A sorted path counts one percent less than an unsorted one.
Rank(path) == IF path.sort = {} THEN 101 * path.cost ELSE 100 * path.cost
Covers(list, rank) == \E i \in list.kept : Rank(list.offers[i]) <= rank
CoversCost(list, cost) == cost # Infinite => Covers(list, 101 * cost)

\* At most one percent above the optimum.
Near(cost, best) == best # Infinite /\ best <= cost /\ 100 * cost <= 101 * best

Closed(qry, S, rel) ==
  /\ rel.cheapest_path = Cheapest(rel.pathlist)
  /\ rel.cheapest_partial_path = Cheapest(rel.partial_paths)
  /\ rel.cheapest_path # None
  /\ Near(CheapestOf(rel).cost, Regular(qry, S))
  /\ IF rel.cheapest_partial_path = None THEN Partial(qry, S) = Infinite
     ELSE Near(CheapestPartialOf(rel).cost, Partial(qry, S))

\* Both joins of the inputs have been put to the test.
Tried(qry, S, rel, outer, inner) ==
  \A m \in Methods(qry) \ {"merge"} :
    /\ CoversCost(rel.pathlist, Price(qry, m, S, CheapestOf(outer).cost, CheapestOf(inner).cost))
    /\ m # "mat" /\ outer.cheapest_partial_path # None =>
         CoversCost(rel.partial_paths,
                    Price(qry, m, S, CheapestPartialOf(outer).cost, CheapestOf(inner).cost))

Found(k) == Range(levels[k])

Open == CASE pc \in {"base", "finish"} -> Range(pending)
          [] pc \in {"join", "no_path"} -> Found(level)
          [] OTHER -> {}

Cost == Nat \union {Infinite}

\* What a query has to be like to be planned.
IsQuery(qry) ==
  /\ qry.joins \subseteq {e \in SUBSET Tables : Cardinality(e) = 2}
  /\ qry.cost \in [ScanOperator -> [Tables -> Cost]]
  /\ qry.rows \in [SUBSET Tables -> Nat] /\ qry.workers \in [Tables -> Nat]
  /\ qry.scan_ops \subseteq ScanOperator /\ qry.join_ops \subseteq JoinOperator
  /\ {qry.memoize, qry.materialize, qry.pg} \subseteq BOOLEAN

Types ==
  /\ IsQuery(q)
  /\ pc \in {"base", "level", "join", "finish", "done", "no_path", "no_rel"}
  /\ level \in 1 .. N
  /\ levels \in [1 .. N -> Seq(SUBSET Tables)]
  /\ pending \in Seq(SUBSET Tables) /\ pairs \in Seq((SUBSET Tables) \X (SUBSET Tables))
  /\ DOMAIN rels \subseteq SUBSET Tables
  /\ \A S \in DOMAIN rels : rels[S] \in RelOf(q, S)

\* The intermediates of a level are connected sets of its size.
Connected == \A k \in 1 .. N : \A S \in Found(k) : Cardinality(S) = k /\ JoinsTables(q, S)

\* No intermediate is entered twice.
Distinct == \A k \in 1 .. N : \A i, j \in DOMAIN levels[k] : levels[k][i] = levels[k][j] => i = j

\* Every connected set is found on its level.
AllFound ==
  \A k \in 1 .. N : k < level \/ (k = level /\ pc # "join") =>
    \A S \in SUBSET Tables : Cardinality(S) = k /\ JoinsTables(q, S) => S \in Found(k)

Place ==
  /\ pc = "base" => level = 1
  /\ pc \in {"join", "finish"} => level > 1
  /\ pc \in {"base", "finish"} => pending # << >> /\ Range(pending) \subseteq Found(level)
  /\ pc \in {"join", "finish"} => Found(level) \subseteq DOMAIN rels
  /\ \A k \in 1 .. N : k > level => levels[k] = << >>

Finished == \A k \in 1 .. N : \A S \in Found(k) \ Open : S \in DOMAIN rels /\ Closed(q, S, rels[S])

\* The pairs of a level are joins of smaller intermediates ...
PairsJoin ==
  pc = "join" => \A i \in DOMAIN pairs : \E m \in 1 .. level - 1 :
    /\ pairs[i][1] \in Found(m) /\ pairs[i][2] \in Found(level - m)
    /\ Joinable(pairs[i][1], pairs[i][2])

\* ... and each join of smaller intermediates is still to come or has been tried.
PairsTried ==
  pc \in {"join", "finish"} =>
    \A m \in 1 .. level - 1 : \A a \in Found(m), b \in Found(level - m) : Joinable(a, b) =>
      \/ pc = "join" /\ (<< a, b >> \in Range(pairs) \/ << b, a >> \in Range(pairs))
      \/ /\ a \union b \in Found(level)
         /\ Tried(q, a \union b, rels[a \union b], rels[a], rels[b])

Outcome ==
  /\ pc = "no_path" => \E S \in (SUBSET Tables) \ {{}} : /\ JoinsTables(q, S)
                                                         /\ Regular(q, S) = Infinite
  /\ pc \in {"done", "no_rel"} => level = N
  /\ pc = "no_rel" => Found(N) = {}
  /\ pc = "done" /\ ~q.pg => plan.cost \in Nat /\ Near(plan.cost, Regular(q, Tables))

IInv == Types /\ Connected /\ Distinct /\ AllFound /\ Place /\ Finished /\ PairsJoin /\ PairsTried /\ Outcome
-------------------------------------------------------------------------------
(* Induction over the natural numbers, by a least counterexample. *)

Less == {p \in Nat \X Nat : p[1] < p[2]}

\* The order of the natural numbers is well-founded.
LEMMA LessIsWellFounded == IsWellFoundedOn(Less, Nat)
  BY NatLessThanWellFounded, Zenon DEF OpToRel, Less

LEMMA LeastNat == ASSUME NEW T, T \subseteq Nat, T # {} PROVE \E n \in T : \A m \in T : n <= m
<1>1. PICK x \in T : \A y \in T : << y, x >> \notin Less
  BY LessIsWellFounded, WFMin
<1>2. ASSUME NEW y \in T PROVE x <= y
  <2>1. ~(y < x)
    BY <1>1 DEF Less
  <2> QED
    BY <2>1
<1> QED
  BY <1>2

\* Induction over 0 .. m, for the set of the numbers that have a property.
LEMMA SetInduction ==
  ASSUME NEW m \in Nat, NEW S, 0 \in S, \A k \in 1 .. m : k - 1 \in S => k \in S
  PROVE  \A k \in 0 .. m : k \in S
<1> DEFINE Bad == {k \in 0 .. m : k \notin S}
<1>1. ASSUME Bad # {} PROVE FALSE
  <2>1. PICK k \in Bad : \A j \in Bad : k <= j
    <3>1. Bad \subseteq Nat
      OBVIOUS
    <3> HIDE DEF Bad
    <3> QED
      BY <1>1, <3>1, LeastNat
  <2>2. k \in 1 .. m
    BY <2>1
  <2>3. k - 1 \in 0 .. m /\ k - 1 \notin Bad
    BY <2>1, <2>2
  <2> QED
    BY <2>1, <2>2, <2>3
<1> QED
  BY <1>1

Steps(m, T) == [1 .. m -> [T -> T]]
Recursion(m, T, base, step) ==
  {f \in [0 .. m -> T] : f[0] = base /\ \A n \in 1 .. m : f[n] = step[n][f[n - 1]]}

\* A function that is defined by recursion over 0 .. m exists.
LEMMA RecursionExists ==
  ASSUME NEW m \in Nat, NEW T, NEW base \in T, NEW step \in Steps(m, T)
  PROVE  Recursion(m, T, base, step) # {}
<1> DEFINE Fits(k, f) == f \in [0 .. k -> T] /\ f[0] = base /\ \A n \in 1 .. k : f[n] = step[n][f[n - 1]]
           Good == {k \in 0 .. m : \E f : Fits(k, f)}
<1> USE DEF Steps
<1>1. 0 \in Good
  <2>1. Fits(0, [n \in 0 .. 0 |-> base]) /\ 0 \in 0 .. m
    OBVIOUS
  <2> HIDE DEF Fits
  <2> QED
    BY <2>1
<1>2. ASSUME NEW k \in 1 .. m, k - 1 \in Good PROVE k \in Good
  <2>1. PICK f : Fits(k - 1, f)
    <3> HIDE DEF Fits
    <3> QED
      BY <1>2
  <2> DEFINE g == [n \in 0 .. k |-> IF n = k THEN step[k][f[k - 1]] ELSE f[n]]
  <2>2. k \in 0 .. m /\ k \in 0 .. k /\ 0 \in 0 .. k /\ \A n \in 0 .. k - 1 : n \in 0 .. k
    OBVIOUS
  <2>3. g \in [0 .. k -> T]
    <3>1. step[k][f[k - 1]] \in T /\ \A n \in 0 .. k : n # k => n \in 0 .. k - 1
      BY <2>1
    <3> QED
      BY <2>1, <3>1
  <2>4. g[0] = base /\ g[k] = step[k][f[k - 1]] /\ \A n \in 0 .. k - 1 : g[n] = f[n]
    BY <2>1, <2>2
  <2>5. \A n \in 1 .. k : g[n] = step[n][g[n - 1]]
    <3>1. \A n \in 1 .. k : n = k \/ n \in 1 .. k - 1
      OBVIOUS
    <3>2. \A n \in 1 .. k : n - 1 \in 0 .. k - 1
      OBVIOUS
    <3>3. \A n \in 1 .. k - 1 : n \in 0 .. k - 1
      OBVIOUS
    <3> HIDE DEF g
    <3> QED
      BY <2>1, <2>4, <3>1, <3>2, <3>3
  <2>6. Fits(k, g)
    <3> HIDE DEF g
    <3> QED
      BY <2>3, <2>4, <2>5
  <2> HIDE DEF Fits, g
  <2> QED
    BY <2>2, <2>6
<1>3. PICK f : Fits(m, f)
  <2>1. \A k \in 0 .. m : k \in Good
    <3> HIDE DEF Good
    <3> QED
      BY <1>1, <1>2, SetInduction
  <2>2. m \in Good
    BY <2>1
  <2> HIDE DEF Fits
  <2> QED
    BY <2>2
<1> QED
  BY <1>3 DEF Recursion
-------------------------------------------------------------------------------
(* Path lists. *)

LEMMA MinIsLeast ==
  ASSUME NEW S \in SUBSET Nat, S # {}
  PROVE  Min(S) \in S /\ \A n \in S : Min(S) <= n
BY LeastNat DEF Min

LEMMA MinOfOne == ASSUME NEW t PROVE Min({t}) = t
BY DEF Min

LEMMA EmptyListType == ASSUME NEW P PROVE EmptyList \in ListOf(P)
BY DEF EmptyList, ListOf

LEMMA ListFacts ==
  ASSUME NEW P, NEW list \in ListOf(P)
  PROVE  /\ list = [offers |-> list.offers, kept |-> list.kept]
         /\ list.offers \in Seq(P) /\ Len(list.offers) \in Nat
         /\ DOMAIN list.offers = 1 .. Len(list.offers)
         /\ list.kept \subseteq 1 .. Len(list.offers) /\ list.kept \subseteq Nat
         /\ \A i \in list.kept : list.offers[i] \in P
<1>1. /\ list = [offers |-> list.offers, kept |-> list.kept]
      /\ list.offers \in Seq(P)
      /\ list.kept \subseteq 1 .. Len(list.offers)
  BY DEF ListOf
<1>2. Len(list.offers) \in Nat /\ DOMAIN list.offers = 1 .. Len(list.offers)
  BY <1>1, LenProperties
<1>3. \A i \in 1 .. Len(list.offers) : list.offers[i] \in P /\ i \in Nat
  BY <1>1, <1>2, ElementOfSeq
<1> QED BY <1>1, <1>2, <1>3

\* The test of a path adds it to the history and keeps the list well-formed.
LEMMA StandardAddPathType ==
  ASSUME NEW P, NEW list \in ListOf(P), NEW new \in P
  PROVE  LET result == StandardAddPath(list, new)
             n == Len(list.offers) + 1
         IN
           /\ result \in ListOf(P)
           /\ result.offers[n] = new
           /\ \A i \in list.kept : result.offers[i] = list.offers[i]
<1> DEFINE result == StandardAddPath(list, new)
           n == Len(list.offers) + 1
<1>1. /\ list.offers \in Seq(P) /\ list.kept \subseteq 1 .. Len(list.offers)
      /\ Len(list.offers) \in Nat
  BY ListFacts
<1>2. /\ result = [offers |-> result.offers, kept |-> result.kept]
      /\ result.offers = Append(list.offers, new)
      /\ result.kept \subseteq list.kept \union {n}
  BY DEF StandardAddPath
<1> HIDE DEF result
<1>3. /\ result.offers \in Seq(P) /\ Len(result.offers) = n
      /\ result.offers[n] = new
      /\ \A i \in 1 .. Len(list.offers) : result.offers[i] = list.offers[i]
  BY <1>1, <1>2, AppendProperties
<1>4. result.kept \subseteq 1 .. Len(result.offers) /\ result.kept \in SUBSET Nat
  BY <1>1, <1>2, <1>3
<1>5. result \in ListOf(P)
  BY <1>2, <1>3, <1>4 DEF ListOf
<1> QED BY <1>1, <1>3, <1>5 DEF result

\* AddPath rejects what the cost model calls illegal and tests the rest.
LEMMA AddPathType ==
  ASSUME NEW P, NEW list \in ListOf(P), NEW path, path.cost # Infinite => path \in P
  PROVE  AddPath(list, path) \in ListOf(P)
BY StandardAddPathType DEF AddPath

\* One path replaces another only if its rank is not higher.
LEMMA DominanceIsRank ==
  ASSUME NEW new, NEW old, new.cost \in Nat, old.cost \in Nat, Subsumes(new.sort, old.sort)
  PROVE  /\ Dominates(new, old) => Rank(new) <= Rank(old)
         /\ ~Dominates(new, old) => Rank(old) <= Rank(new)
<1>2. CASE old.sort = {} /\ new.sort = {}
  BY <1>2 DEF Dominates, SameSorting, Rank
<1>3. CASE old.sort = {} /\ new.sort # {}
  <2>1. ~SameSorting(new.sort, old.sort)
    BY <1>3 DEF SameSorting
  <2> QED BY <1>3, <2>1 DEF Dominates, Rank
<1>4. CASE old.sort # {}
  <2>1. new.sort \intersect old.sort # {} /\ new.sort # {}
    BY <1>4 DEF Subsumes
  <2>2. SameSorting(new.sort, old.sort)
    BY <2>1 DEF SameSorting
  <2> QED BY <1>4, <2>1, <2>2 DEF Dominates, Rank
<1> QED BY <1>2, <1>3, <1>4

\* Whatever a test evicts or discards, a path of at most the same rank is kept.
LEMMA StandardAddPathCovers ==
  ASSUME NEW P, \A p \in P : p.cost \in Nat, NEW list \in ListOf(P), NEW new \in P
  PROVE  /\ Covers(StandardAddPath(list, new), Rank(new))
         /\ \A rank \in Nat : Covers(list, rank) => Covers(StandardAddPath(list, new), rank)
<1> DEFINE result == StandardAddPath(list, new)
           winners == Winners(list, new)
           n == Len(list.offers) + 1
<1>1. /\ list.kept \subseteq 1 .. Len(list.offers) /\ list.kept \subseteq Nat
      /\ Len(list.offers) \in Nat
      /\ \A i \in list.kept : list.offers[i] \in P
  BY ListFacts
<1>2. /\ result \in ListOf(P) /\ result.offers[n] = new
      /\ \A i \in list.kept : result.offers[i] = list.offers[i]
  BY StandardAddPathType
<1>3. \A p \in P : Rank(p) \in Nat
  BY DEF Rank
<1>4. winners \subseteq list.kept /\ winners \in SUBSET Nat
  BY <1>1 DEF Winners
<1>5. /\ result.kept = {i \in list.kept : \/ ~Subsumes(new.sort, list.offers[i].sort)
                                          \/ winners # {} /\ i >= Min(winners)}
                       \union (IF winners = {} THEN {n} ELSE {})
  BY DEF StandardAddPath
<1> HIDE DEF result
<1>6. \E j \in result.kept : Rank(result.offers[j]) <= Rank(new)
  <2>1. CASE winners = {}
    BY <2>1, <1>2, <1>3, <1>5
  <2>2. CASE winners # {}
    <3> DEFINE first == Min(winners)
    <3>1. first \in winners /\ first \in list.kept /\ first \in Nat
      BY <1>4, <2>2, MinIsLeast
    <3>2. first \in result.kept
      <4>1. first >= first
        BY <3>1
      <4> HIDE DEF winners
      <4> QED BY <3>1, <4>1, <2>2, <1>5
    <3>3. Subsumes(new.sort, list.offers[first].sort) /\ ~Dominates(new, list.offers[first])
      BY <3>1 DEF Winners
    <3>4. Rank(list.offers[first]) <= Rank(new)
      BY <3>1, <3>3, <1>1, DominanceIsRank
    <3> QED BY <3>1, <3>2, <3>4, <1>2
  <2> QED BY <2>1, <2>2
<1>7. ASSUME NEW i \in list.kept
      PROVE  \E j \in result.kept : Rank(result.offers[j]) <= Rank(list.offers[i])
  <2>1. list.offers[i] \in P /\ i \in Nat
    BY <1>1
  <2>2. CASE i \in result.kept
    BY <2>1, <2>2, <1>2, <1>3
  <2>3. CASE i \notin result.kept
    <3>1. Subsumes(new.sort, list.offers[i].sort)
      BY <2>3, <1>5
    <3>2. i \notin winners
      <4>1. CASE winners = {}
        BY <4>1
      <4>2. CASE winners # {}
        <5>1. ~(i >= Min(winners))
          BY <4>2, <2>3, <1>5
        <5>2. \A k \in winners : Min(winners) <= k /\ k \in Nat /\ Min(winners) \in Nat
          BY <1>4, <4>2, MinIsLeast
        <5> HIDE DEF winners
        <5> QED BY <5>1, <5>2
      <4> QED BY <4>1, <4>2
    <3>3. Dominates(new, list.offers[i])
      BY <3>1, <3>2 DEF Winners
    <3>4. Rank(new) <= Rank(list.offers[i])
      BY <3>1, <3>3, <2>1, DominanceIsRank
    <3>5. PICK j \in result.kept : Rank(result.offers[j]) <= Rank(new)
      BY <1>6
    <3>6. result.offers[j] \in P
      BY <1>2, ListFacts
    <3>7. /\ Rank(result.offers[j]) \in Nat /\ Rank(new) \in Nat
          /\ Rank(list.offers[i]) \in Nat
      BY <3>6, <2>1, <1>3
    <3>8. Rank(result.offers[j]) <= Rank(list.offers[i])
      BY <3>4, <3>5, <3>7
    <3> QED BY <3>8
  <2> QED BY <2>2, <2>3
<1>8. ASSUME NEW rank \in Nat, Covers(list, rank) PROVE Covers(result, rank)
  <2>1. PICK i \in list.kept : Rank(list.offers[i]) <= rank
    BY <1>8 DEF Covers
  <2>2. PICK j \in result.kept : Rank(result.offers[j]) <= Rank(list.offers[i])
    BY <1>7
  <2>3. result.offers[j] \in P /\ list.offers[i] \in P
    BY <1>1, <1>2, ListFacts
  <2>4. Rank(result.offers[j]) \in Nat /\ Rank(list.offers[i]) \in Nat
    BY <1>3, <2>3
  <2>5. Rank(result.offers[j]) <= rank
    BY <2>1, <2>2, <2>4
  <2> QED BY <2>5 DEF Covers
<1>9. Covers(result, Rank(new))
  BY <1>6 DEF Covers
<1> QED BY <1>8, <1>9 DEF result

LEMMA AddPathCovers ==
  ASSUME NEW P, \A p \in P : p.cost \in Nat, NEW list \in ListOf(P),
         NEW path, path.cost # Infinite => path \in P
  PROVE  /\ path.cost # Infinite => Covers(AddPath(list, path), Rank(path))
         /\ \A rank \in Nat : Covers(list, rank) => Covers(AddPath(list, path), rank)
BY StandardAddPathCovers DEF AddPath

\* What the head of the sorted list is.
LEMMA CheapestIsLeast ==
  ASSUME NEW P, \A p \in P : p.cost \in Nat, NEW list \in ListOf(P), list.kept # {}
  PROVE  /\ Cheapest(list) \in list.kept /\ Cheapest(list) # None
         /\ \A j \in list.kept : list.offers[Cheapest(list)].cost <= list.offers[j].cost
<1> DEFINE cost(i) == list.offers[i].cost
           costs == {cost(i) : i \in list.kept}
<1>1. list.kept \subseteq Nat /\ 0 \notin list.kept /\ \A i \in list.kept : cost(i) \in Nat
  BY ListFacts
<1>2. costs \in SUBSET Nat /\ costs # {}
  BY <1>1
<1>3. PICK least \in costs : \A c \in costs : least <= c
  <2> HIDE DEF costs
  <2> QED BY <1>2, LeastNat
<1> DEFINE heads == {i \in list.kept : cost(i) = least}
<1>4. heads \in SUBSET Nat /\ heads # {}
  BY <1>1, <1>3
<1> HIDE DEF heads
<1>5. PICK head \in heads : \A i \in heads : head <= i
  BY <1>4, LeastNat
<1>6. \A j \in list.kept : \/ cost(head) < cost(j)
                           \/ cost(head) = cost(j) /\ head <= j
  <2>1. TAKE j \in list.kept
  <2>2. cost(head) = least /\ least <= cost(j) /\ cost(j) \in Nat /\ least \in Nat
    BY <1>1, <1>3, <1>5 DEF heads
  <2>3. CASE cost(j) = least
    <3>1. j \in heads
      BY <2>3 DEF heads
    <3> QED BY <3>1, <2>2, <2>3, <1>5
  <2>4. CASE cost(j) # least
    BY <2>2, <2>4
  <2> QED BY <2>3, <2>4
<1>7. head \in list.kept
  BY <1>5 DEF heads
<1>8. /\ Cheapest(list) \in list.kept
      /\ \A j \in list.kept : \/ cost(Cheapest(list)) < cost(j)
                              \/ cost(Cheapest(list)) = cost(j) /\ Cheapest(list) <= j
  BY <1>6, <1>7 DEF Cheapest
<1> QED BY <1>8, <1>1 DEF None
-------------------------------------------------------------------------------
(* Gathering. *)

\* GatheredUpTo is the function its recursion says.
LEMMA GatheredUpToIsDefined ==
  ASSUME NEW P, NEW R, NEW rel, rel.pathlist \in ListOf(P), rel.partial_paths \in ListOf(R),
         \A path \in R : GatherPath(path).cost # Infinite => GatherPath(path) \in P
  PROVE  LET f == GatheredUpTo(rel)
             partial == rel.partial_paths
         IN
           /\ f[0] = rel.pathlist
           /\ \A i \in 1 .. Len(partial.offers) :
                f[i] = IF i \in partial.kept THEN AddPath(f[i - 1], GatherPath(partial.offers[i]))
                       ELSE f[i - 1]
<1> DEFINE offers == rel.partial_paths.offers
           kept == rel.partial_paths.kept
           m == Len(offers)
           base == rel.pathlist
           T == ListOf(P)
           one(i, list) == IF i \in kept THEN AddPath(list, GatherPath(offers[i])) ELSE list
           step == [i \in 1 .. m |-> [list \in T |-> one(i, list)]]
           Rec(f) == f = [i \in 0 .. m |-> IF i = 0 THEN base ELSE one(i, f[i - 1])]
<1>1. m \in Nat /\ base \in T /\ \A i \in kept : offers[i] \in R
  BY ListFacts
<1>2. ASSUME NEW i \in 1 .. m, NEW list \in T PROVE one(i, list) \in T
  <2>1. CASE i \in kept
    <3>1. GatherPath(offers[i]).cost # Infinite => GatherPath(offers[i]) \in P
      BY <1>1, <2>1
    <3> QED BY <2>1, <3>1, AddPathType
  <2>2. CASE i \notin kept
    BY <2>2
  <2> QED BY <2>1, <2>2
<1> HIDE DEF m, T, base, one
<1>3. step \in Steps(m, T)
  BY <1>2 DEF Steps
<1>4. PICK f : f \in Recursion(m, T, base, step)
  <2> HIDE DEF step
  <2> QED BY <1>1, <1>3, RecursionExists
<1>5. f \in [0 .. m -> T] /\ f[0] = base /\ \A i \in 1 .. m : f[i] = step[i][f[i - 1]]
  <2> HIDE DEF step
  <2> QED BY <1>4 DEF Recursion
<1>6. \A i \in 1 .. m : f[i] = one(i, f[i - 1])
  <2>1. \A i \in 1 .. m : f[i - 1] \in T
    BY <1>1, <1>5
  <2> QED BY <1>5, <2>1
<1> HIDE DEF step
<1>7. Rec(f)
  <2>1. \A i \in 0 .. m : i # 0 => i \in 1 .. m
    BY <1>1
  <2>2. \A i \in 0 .. m : f[i] = IF i = 0 THEN base ELSE one(i, f[i - 1])
    BY <1>5, <1>6, <2>1
  <2> QED BY <1>5, <2>2
<1> DEFINE g == GatheredUpTo(rel)
<1>8. Rec(g)
  <2>1. Rec(CHOOSE h : Rec(h))
    <3> HIDE DEF Rec
    <3> QED BY <1>7
  <2>2. g = CHOOSE h : Rec(h)
    BY DEF GatheredUpTo, one, base, m
  <2> HIDE DEF g
  <2> QED BY <2>1, <2>2
<1> HIDE DEF g
<1>9. g[0] = base /\ \A i \in 1 .. m : g[i] = one(i, g[i - 1])
  <2> DEFINE h == [i \in 0 .. m |-> IF i = 0 THEN base ELSE one(i, g[i - 1])]
  <2>1. g = h
    BY <1>8
  <2>2. \A i \in 0 .. m : h[i] = IF i = 0 THEN base ELSE one(i, g[i - 1])
    OBVIOUS
  <2>3. 0 \in 0 .. m /\ \A i \in 1 .. m : i \in 0 .. m /\ i # 0
    BY <1>1
  <2> HIDE DEF h
  <2> QED BY <2>1, <2>2, <2>3
<1> QED BY <1>9 DEF g, one, base, m

\* Gathering offers every partial path and loses nothing that was in the list.
LEMMA GatherCovers ==
  ASSUME NEW P, \A p \in P : p.cost \in Nat, NEW R, NEW rel,
         rel.pathlist \in ListOf(P), rel.partial_paths \in ListOf(R),
         \A path \in R : GatherPath(path).cost # Infinite => GatherPath(path) \in P
  PROVE  LET gathered == GatheredUpTo(rel)[Len(rel.partial_paths.offers)]
             partial == rel.partial_paths
         IN
           /\ gathered \in ListOf(P)
           /\ \A rank \in Nat : Covers(rel.pathlist, rank) => Covers(gathered, rank)
           /\ \A i \in partial.kept : GatherPath(partial.offers[i]).cost # Infinite =>
                Covers(gathered, Rank(GatherPath(partial.offers[i])))
<1> DEFINE f == GatheredUpTo(rel)
           offers == rel.partial_paths.offers
           kept == rel.partial_paths.kept
           m == Len(offers)
           gather(i) == GatherPath(offers[i])
           Good == {i \in 0 .. m :
                      /\ f[i] \in ListOf(P)
                      /\ \A rank \in Nat : Covers(rel.pathlist, rank) => Covers(f[i], rank)
                      /\ \A k \in kept : k <= i /\ gather(k).cost # Infinite =>
                           Covers(f[i], Rank(gather(k)))}
<1>1. /\ m \in Nat /\ \A i \in kept : gather(i).cost # Infinite => gather(i) \in P
      /\ kept \subseteq 1 .. m
  BY ListFacts
<1>2. /\ f[0] = rel.pathlist
      /\ \A i \in 1 .. m : f[i] = IF i \in kept THEN AddPath(f[i - 1], gather(i)) ELSE f[i - 1]
  BY GatheredUpToIsDefined
<1>3. \A p \in P : Rank(p) \in Nat
  BY DEF Rank
<1> HIDE DEF f, offers, kept, m, gather
<1>4. 0 \in Good
  <2>1. \A k \in kept : ~(k <= 0)
    BY <1>1
  <2>2. 0 \in 0 .. m /\ f[0] \in ListOf(P)
    BY <1>1, <1>2 DEF m
  <2>3. \A rank \in Nat : Covers(rel.pathlist, rank) => Covers(f[0], rank)
    BY <1>2
  <2> QED BY <2>1, <2>2, <2>3
<1>5. ASSUME NEW i \in 1 .. m, i - 1 \in Good PROVE i \in Good
  <2>1. i \in 0 .. m /\ i - 1 \in 0 .. m /\ \A k \in kept : k <= i => k = i \/ k <= i - 1
    BY <1>1
  <2>2. /\ f[i - 1] \in ListOf(P)
        /\ \A rank \in Nat : Covers(rel.pathlist, rank) => Covers(f[i - 1], rank)
        /\ \A k \in kept : k <= i - 1 /\ gather(k).cost # Infinite => Covers(f[i - 1], Rank(gather(k)))
    BY <1>5
  <2>3. CASE i \notin kept
    BY <2>1, <2>2, <2>3, <1>2
  <2>4. CASE i \in kept
    <3>1. f[i] = AddPath(f[i - 1], gather(i)) /\ (gather(i).cost # Infinite => gather(i) \in P)
      BY <2>4, <1>1, <1>2
    <3>2. /\ f[i] \in ListOf(P)
          /\ gather(i).cost # Infinite => Covers(f[i], Rank(gather(i)))
          /\ \A rank \in Nat : Covers(f[i - 1], rank) => Covers(f[i], rank)
      BY <2>2, <3>1, AddPathType, AddPathCovers
    <3>3. ASSUME NEW k \in kept, k <= i, gather(k).cost # Infinite
          PROVE  Covers(f[i], Rank(gather(k)))
      <4>1. CASE k = i
        BY <3>2, <3>3, <4>1
      <4>2. CASE k # i
        <5>1. Covers(f[i - 1], Rank(gather(k)))
          BY <2>1, <2>2, <3>3, <4>2
        <5>2. Rank(gather(k)) \in Nat
          BY <1>1, <1>3, <3>3
        <5> QED BY <3>2, <5>1, <5>2
      <4> QED BY <4>1, <4>2
    <3> QED BY <2>1, <2>2, <3>2, <3>3
  <2> QED BY <2>3, <2>4
<1>6. m \in Good
  <2>1. \A i \in 0 .. m : i \in Good
    <3> HIDE DEF Good
    <3> QED BY <1>1, <1>4, <1>5, SetInduction
  <2>2. m \in 0 .. m
    BY <1>1
  <2> HIDE DEF Good
  <2> QED BY <2>1, <2>2
<1>7. \A k \in kept : k <= m
  BY <1>1
<1>8. /\ f[m] \in ListOf(P)
      /\ \A rank \in Nat : Covers(rel.pathlist, rank) => Covers(f[m], rank)
      /\ \A k \in kept : gather(k).cost # Infinite => Covers(f[m], Rank(gather(k)))
  BY <1>6, <1>7
<1> QED BY <1>8 DEF f, m, offers, kept, gather

-------------------------------------------------------------------------------
(* The pairs of a level. *)

\* A concatenation has the elements of the sequences it is made of.
LEMMA FlattenSeqElements ==
  ASSUME NEW S, NEW seqs \in Seq(Seq(S))
  PROVE  /\ FlattenSeq(seqs) \in Seq(S)
         /\ \A i \in 1 .. Len(seqs) : \A j \in 1 .. Len(seqs[i]) :
              \E n \in 1 .. Len(FlattenSeq(seqs)) : FlattenSeq(seqs)[n] = seqs[i][j]
<1> DEFINE m == Len(seqs)
           T == Seq(S)
           base == << >>
           one(i, s) == IF i = 1 THEN seqs[i] ELSE s \o seqs[i]
           step == [i \in 1 .. m |-> [s \in T |-> one(i, s)]]
           Rec(f) == f = [i \in 1 .. m |-> one(i, f[i - 1])]
<1>1. m \in Nat /\ base \in T /\ \A i \in 1 .. m : seqs[i] \in T
  BY LenProperties, ElementOfSeq
<1>2. CASE m = 0
  <2>1. FlattenSeq(seqs) = seqs /\ seqs = << >>
    BY <1>2, EmptySeq DEF FlattenSeq
  <2>2. 1 .. Len(seqs) = {}
    BY <1>2
  <2> QED BY <1>1, <2>1, <2>2
<1>3. CASE m # 0
  <2>1. \A i \in 1 .. m : \A s \in T : one(i, s) \in T
    BY <1>1, ConcatProperties
  <2> HIDE DEF m, T, base, one
  <2>2. step \in Steps(m, T)
    BY <2>1 DEF Steps
  <2>3. PICK f : f \in Recursion(m, T, base, step)
    <3> HIDE DEF step
    <3> QED BY <1>1, <2>2, RecursionExists
  <2>4. f \in [0 .. m -> T] /\ f[0] = base /\ \A i \in 1 .. m : f[i] = step[i][f[i - 1]]
    <3> HIDE DEF step
    <3> QED BY <2>3 DEF Recursion
  <2>5. \A i \in 1 .. m : f[i] = one(i, f[i - 1])
    <3>1. \A i \in 1 .. m : f[i - 1] \in T
      BY <1>1, <2>4
    <3> QED BY <2>4, <3>1
  <2> DEFINE g == [i \in 1 .. m |-> f[i]]
  <2>6. Rec(g)
    <3>1. ASSUME NEW i \in 1 .. m PROVE one(i, f[i - 1]) = one(i, g[i - 1])
      <4>1. CASE i = 1
        BY <4>1 DEF one
      <4>2. CASE i # 1
        <5>1. i - 1 \in 1 .. m
          BY <1>1, <4>2
        <5>2. g[i - 1] = f[i - 1]
          BY <5>1
        <5> HIDE DEF g
        <5> QED BY <5>2
      <4> QED BY <4>1, <4>2
    <3>2. \A i \in 1 .. m : f[i] = one(i, g[i - 1])
      <4> HIDE DEF g
      <4> QED BY <2>5, <3>1
    <3>3. g = [i \in 1 .. m |-> one(i, g[i - 1])]
      BY <3>2
    <3> QED BY <3>3
  <2> DEFINE flat == CHOOSE h : Rec(h)
  <2>7. Rec(flat)
    <3> HIDE DEF Rec, g
    <3> QED BY <2>6
  <2>8. FlattenSeq(seqs) = flat[m]
    BY <1>3 DEF FlattenSeq, one, m
  <2> HIDE DEF flat
  <2>9. \A i \in 1 .. m : flat[i] = one(i, flat[i - 1])
    <3> DEFINE h == [i \in 1 .. m |-> one(i, flat[i - 1])]
    <3>1. flat = h
      BY <2>7
    <3>2. \A i \in 1 .. m : h[i] = one(i, flat[i - 1])
      OBVIOUS
    <3> HIDE DEF h
    <3> QED BY <3>1, <3>2
  <2> DEFINE Holds(i) == \A k \in 1 .. i : \A j \in 1 .. Len(seqs[k]) :
                           \E n \in 1 .. Len(flat[i]) : flat[i][n] = seqs[k][j]
             Good == {i \in 0 .. m : i # 0 => flat[i] \in T /\ Holds(i)}
  <2>10. 0 \in Good
    BY <1>1
  <2>11. ASSUME NEW i \in 1 .. m, i - 1 \in Good PROVE i \in Good
    <3>1. i \in 0 .. m /\ i \in Nat
      BY <1>1
    <3>2. CASE i = 1
      <4>1. flat[i] = seqs[i]
        BY <2>9, <3>2 DEF one
      <4>2. \A k \in 1 .. i : k = i
        BY <3>2
      <4> QED BY <1>1, <3>1, <4>1, <4>2
    <3>3. CASE i # 1
      <4> DEFINE a == flat[i - 1]
                 b == seqs[i]
      <4>1. a \in T /\ Holds(i - 1) /\ b \in T /\ flat[i] = a \o b
        <5>1. i - 1 # 0
          BY <3>1, <3>3
        <5>2. flat[i - 1] \in T /\ Holds(i - 1)
          <6> HIDE DEF Holds
          <6> QED BY <2>11, <5>1
        <5>3. flat[i] = flat[i - 1] \o seqs[i]
          BY <2>9, <3>3 DEF one
        <5> QED BY <1>1, <5>2, <5>3
      <4>2. a \in Seq(S) /\ b \in Seq(S)
        BY <4>1 DEF T
      <4> HIDE DEF a, b
      <4>3. /\ a \o b \in Seq(S) /\ Len(a \o b) = Len(a) + Len(b)
            /\ Len(a) \in Nat /\ Len(b) \in Nat
            /\ \A n \in 1 .. Len(a) + Len(b) :
                 (a \o b)[n] = IF n <= Len(a) THEN a[n] ELSE b[n - Len(a)]
        BY <4>2, ConcatProperties, LenProperties
      <4>4. \A n \in 1 .. Len(a) : n \in 1 .. Len(a) + Len(b) /\ n <= Len(a)
        BY <4>3
      <4>5. \A n \in 1 .. Len(b) : /\ Len(a) + n \in 1 .. Len(a) + Len(b) /\ ~(Len(a) + n <= Len(a))
                                   /\ (Len(a) + n) - Len(a) = n
        BY <4>3
      <4>6. ASSUME NEW k \in 1 .. i, NEW j \in 1 .. Len(seqs[k])
            PROVE  \E n \in 1 .. Len(flat[i]) : flat[i][n] = seqs[k][j]
        <5>1. CASE k = i
          <6>1. (a \o b)[Len(a) + j] = seqs[k][j] /\ Len(a) + j \in 1 .. Len(a \o b)
            BY <5>1, <4>3, <4>5 DEF b
          <6> QED BY <4>1, <6>1
        <5>2. CASE k # i
          <6>1. k \in 1 .. i - 1
            BY <3>1, <5>2
          <6>2. PICK n \in 1 .. Len(a) : a[n] = seqs[k][j]
            BY <4>1, <6>1 DEF a
          <6>3. (a \o b)[n] = seqs[k][j] /\ n \in 1 .. Len(a \o b)
            BY <6>2, <4>3, <4>4
          <6> QED BY <4>1, <6>3
        <5> QED BY <5>1, <5>2
      <4>7. Holds(i) /\ flat[i] \in T
        BY <4>1, <4>3, <4>6 DEF T
      <4> HIDE DEF Holds
      <4> QED BY <3>1, <4>7
    <3> QED BY <3>2, <3>3
  <2>12. m \in Good
    <3>1. \A i \in 0 .. m : i \in Good
      <4> HIDE DEF Good
      <4> QED BY <1>1, <2>10, <2>11, SetInduction
    <3> QED BY <1>1, <3>1
  <2>13. flat[m] \in T /\ Holds(m)
    <3> HIDE DEF Holds
    <3> QED BY <1>3, <2>12
  <2> QED BY <2>8, <2>13 DEF T, m
<1> QED BY <1>2, <1>3
-------------------------------------------------------------------------------
(* Costs. *)

LEMMA QueriesAreTyped == \A qry \in Queries : IsQuery(qry)
<1>1. SUFFICES ASSUME NEW qry \in Queries PROVE IsQuery(qry)
  OBVIOUS
<1>2. qry \in Query
  BY QueriesAssumption
<1>. QED BY <1>2 DEF Query, IsQuery, Cost

LEMMA QueryType ==
  ASSUME NEW qry, IsQuery(qry)
  PROVE  /\ qry.joins \subseteq {e \in SUBSET Tables : Cardinality(e) = 2}
         /\ qry.cost \in [ScanOperator -> [Tables -> Cost]]
         /\ qry.rows \in [SUBSET Tables -> Nat] /\ qry.workers \in [Tables -> Nat]
         /\ qry.scan_ops \subseteq ScanOperator /\ qry.join_ops \subseteq JoinOperator
         /\ {qry.memoize, qry.materialize, qry.pg} \subseteq BOOLEAN
BY DEF IsQuery

LEMMA LinearGrows ==
  ASSUME NEW a \in Nat, NEW b \in Nat, NEW c \in Nat, NEW d \in Nat, NEW y \in Nat, NEW k \in {1, 2, 3}
  PROVE  /\ a + k * b + y \in Nat
         /\ a <= c /\ b <= d => a + k * b + y <= c + k * d + y
         /\ 100 * a <= 101 * c /\ 100 * b <= 101 * d => 100 * (a + k * b + y) <= 101 * (c + k * d + y)
<1>1. CASE k = 1
  BY <1>1
<1>2. CASE k = 2
  BY <1>2
<1>3. CASE k = 3
  BY <1>3
<1> QED
  BY <1>1, <1>2, <1>3

LinearPrice(qry, m, S) ==
  \E k \in {1, 2, 3} : \E y \in Nat : \A c, d \in Nat :
    Price(qry, m, S, c, d) = IF << m, S >> \in qry.illegal THEN Infinite ELSE c + k * d + y

LEMMA PriceIsLinear ==
  ASSUME NEW qry, IsQuery(qry), NEW m \in JoinMethod, NEW S \in SUBSET Tables
  PROVE  LinearPrice(qry, m, S)
<1> USE DEF LinearPrice
<1> DEFINE r == qry.rows[S]
<1>1. r \in Nat /\ 2 * r \in Nat /\ 3 * r \in Nat /\ r + 320 \in Nat
  BY QueryType
<1>2. \A c, d \in Nat : Infinite \notin {c, d} /\ 1 * d = d
  BY DEF Infinite
<1> HIDE DEF r
<1>3. CASE m = "nlj"
  <2>1. \A c, d \in Nat : Price(qry, m, S, c, d) = IF << m, S >> \in qry.illegal THEN Infinite ELSE c + 3 * d + r
    BY <1>2, <1>3 DEF Price, r
  <2> QED
    BY <1>1, <2>1
<1>4. CASE m = "memo"
  <2>1. \A c, d \in Nat : Price(qry, m, S, c, d) = IF << m, S >> \in qry.illegal THEN Infinite ELSE c + 2 * d + 2 * r
    BY <1>2, <1>4 DEF Price, r
  <2> QED
    BY <1>1, <2>1
<1>5. CASE m = "mat"
  <2>1. \A c, d \in Nat : Price(qry, m, S, c, d) = IF << m, S >> \in qry.illegal THEN Infinite ELSE c + 1 * d + (r + 320)
    BY <1>2, <1>5 DEF Price, r
  <2> QED
    BY <1>1, <2>1
<1>6. CASE m = "merge"
  <2>1. \A c, d \in Nat : Price(qry, m, S, c, d) = IF << m, S >> \in qry.illegal THEN Infinite ELSE c + 1 * d + 2 * r
    BY <1>2, <1>6 DEF Price, r
  <2> QED
    BY <1>1, <2>1
<1>7. CASE m = "hash"
  <2>1. \A c, d \in Nat : Price(qry, m, S, c, d) = IF << m, S >> \in qry.illegal THEN Infinite ELSE c + 1 * d + 3 * r
    BY <1>2, <1>7 DEF Price, r
  <2> QED
    BY <1>1, <2>1
<1> QED
  BY <1>3, <1>4, <1>5, <1>6, <1>7 DEF JoinMethod, JoinOperator

\* The cost model grows with the costs of the inputs, by no more than they do, and what
\* is legal does not depend on them.
LEMMA PriceGrows ==
  ASSUME NEW qry, IsQuery(qry), NEW m \in JoinMethod, NEW S \in SUBSET Tables,
         NEW a \in Nat, NEW b \in Nat
  PROVE  /\ Price(qry, m, S, a, b) \in Cost
         /\ Price(qry, m, S, a, b) = Infinite <=> << m, S >> \in qry.illegal
         /\ \A c, d \in Nat : << m, S >> \notin qry.illegal =>
              /\ a <= c /\ b <= d => Price(qry, m, S, a, b) <= Price(qry, m, S, c, d)
              /\ 100 * a <= 101 * c /\ 100 * b <= 101 * d =>
                   100 * Price(qry, m, S, a, b) <= 101 * Price(qry, m, S, c, d)
<1>1. PICK k \in {1, 2, 3} : \E y \in Nat : \A c, d \in Nat :
        Price(qry, m, S, c, d) = IF << m, S >> \in qry.illegal THEN Infinite ELSE c + k * d + y
  <2>1. LinearPrice(qry, m, S)
    BY PriceIsLinear
  <2> QED
    BY <2>1 DEF LinearPrice
<1>2. PICK y \in Nat : \A c, d \in Nat :
        Price(qry, m, S, c, d) = IF << m, S >> \in qry.illegal THEN Infinite ELSE c + k * d + y
  BY <1>1
<1> DEFINE value(c, d) == c + k * d + y
<1>3. \A c, d \in Nat : Price(qry, m, S, c, d) = IF << m, S >> \in qry.illegal THEN Infinite ELSE value(c, d)
  BY <1>2
<1>4. value(a, b) \in Nat
  BY LinearGrows
<1>5. value(a, b) # Infinite
  <2> HIDE DEF value
  <2> QED
    BY <1>4 DEF Infinite
<1>6. ASSUME NEW c \in Nat, NEW d \in Nat
      PROVE  /\ a <= c /\ b <= d => value(a, b) <= value(c, d)
             /\ 100 * a <= 101 * c /\ 100 * b <= 101 * d => 100 * value(a, b) <= 101 * value(c, d)
  BY LinearGrows
<1> HIDE DEF value
<1> QED
  BY <1>3, <1>4, <1>5, <1>6 DEF Cost

LEMMA PriceOfIllegal ==
  ASSUME NEW qry, NEW m, NEW S, NEW a, NEW b
  PROVE  /\ Price(qry, m, S, Infinite, b) = Infinite
         /\ Price(qry, m, S, a, Infinite) = Infinite
         /\ << m, S >> \in qry.illegal => Price(qry, m, S, a, b) = Infinite
BY DEF Price

LEMMA PriceType ==
  ASSUME NEW qry, IsQuery(qry), NEW m \in JoinMethod, NEW S \in SUBSET Tables,
         NEW a \in Cost, NEW b \in Cost
  PROVE  Price(qry, m, S, a, b) \in Cost
<1>1. CASE a = Infinite \/ b = Infinite
  <2>1. Price(qry, m, S, a, b) = Infinite
    BY <1>1, PriceOfIllegal
  <2> QED
    BY <2>1 DEF Cost
<1>2. CASE a \in Nat /\ b \in Nat
  BY <1>2, PriceGrows
<1> QED
  BY <1>1, <1>2 DEF Cost

LEMMA GatherPriceGrows ==
  /\ GatherPrice(Infinite) = Infinite
  /\ \A a \in Nat : GatherPrice(a) \in Nat /\ GatherPrice(a) # Infinite
  /\ \A a, b \in Nat : /\ a <= b => GatherPrice(a) <= GatherPrice(b)
                       /\ 100 * a <= 101 * b => 100 * GatherPrice(a) <= 101 * GatherPrice(b)
<1>1. GatherPrice(Infinite) = Infinite
  BY DEF GatherPrice
<1>2. \A a \in Nat : GatherPrice(a) = (a \div 2) + 64
  BY DEF GatherPrice, Infinite
<1>3. \A a \in Nat : a \div 2 \in Nat /\ 2 * (a \div 2) <= a /\ a <= 2 * (a \div 2) + 1
  OBVIOUS
<1>4. \A a \in Nat : GatherPrice(a) \in Nat /\ GatherPrice(a) # Infinite
  BY <1>2, <1>3 DEF Infinite
<1>5. ASSUME NEW a \in Nat, NEW b \in Nat
      PROVE  /\ a <= b => GatherPrice(a) <= GatherPrice(b)
             /\ 100 * a <= 101 * b => 100 * GatherPrice(a) <= 101 * GatherPrice(b)
  <2> DEFINE x == a \div 2
             y == b \div 2
  <2>1. x \in Nat /\ y \in Nat /\ 2 * x <= a /\ a <= 2 * x + 1 /\ 2 * y <= b /\ b <= 2 * y + 1
    BY <1>3
  <2>2. GatherPrice(a) = x + 64 /\ GatherPrice(b) = y + 64
    BY <1>2
  <2> HIDE DEF x, y
  <2>3. a <= b => x <= y
    BY <2>1
  <2>4. 100 * a <= 101 * b => 100 * x <= 101 * y + 64
    BY <2>1
  <2> QED
    BY <2>1, <2>2, <2>3, <2>4
<1> QED BY <1>1, <1>4, <1>5

\* The cheapest finite cost.
LEMMA CheaperIsLeast ==
  ASSUME NEW costs \in SUBSET Cost
  PROVE  /\ Cheaper(costs) \in Cost
         /\ Cheaper(costs) = Infinite <=> \A c \in costs : c = Infinite
         /\ Cheaper(costs) # Infinite => Cheaper(costs) \in costs
         /\ \A c \in costs : c # Infinite => Cheaper(costs) <= c
<1>1. CASE costs \subseteq {Infinite}
  <2>1. Cheaper(costs) = Infinite /\ \A c \in costs : c = Infinite
    BY <1>1 DEF Cheaper
  <2> QED BY <2>1 DEF Cost
<1>2. CASE ~(costs \subseteq {Infinite})
  <2> DEFINE finite == costs \ {Infinite}
  <2>1. finite \in SUBSET Nat /\ finite # {} /\ Infinite \notin Nat
    BY <1>2 DEF Cost, Infinite
  <2>2. Cheaper(costs) = Min(finite)
    BY <1>2 DEF Cheaper
  <2> HIDE DEF finite
  <2>3. Min(finite) \in finite /\ \A c \in finite : Min(finite) <= c
    BY <2>1, MinIsLeast
  <2> QED BY <1>2, <2>1, <2>2, <2>3 DEF finite, Cost
<1> QED BY <1>1, <1>2

-------------------------------------------------------------------------------
(* The reference. *)

Best == [partial : Cost, regular : Cost]

LEMMA MethodType == ASSUME NEW qry PROVE Methods(qry) \subseteq JoinMethod
BY DEF Methods

LEMMA SplitType ==
  ASSUME NEW qry, NEW S \in SUBSET Tables, NEW o \in Splits(qry, S)
  PROVE  /\ o \in SUBSET S /\ o \in SUBSET Tables /\ o # {} /\ o # S
         /\ S \ o \in SUBSET S /\ S \ o \in SUBSET Tables /\ S \ o # {} /\ S \ o # S
<1>1. o \in SUBSET S /\ o # {} /\ o # S
  BY DEF Splits
<1>2. S \ o \in SUBSET S /\ o \in SUBSET Tables /\ S \ o \in SUBSET Tables
  BY <1>1
<1>3. S \ o # {} /\ S \ o # S
  <2>1. (\E t : t \in o) /\ (\E t : t \in S /\ t \notin o)
    BY <1>1
  <2> QED
    BY <1>1, <2>1
<1> QED
  BY <1>1, <1>2, <1>3

LEMMA SubsetsAreFinite ==
  ASSUME NEW S \in SUBSET Tables
  PROVE  IsFiniteSet(S) /\ Cardinality(S) \in Nat /\ Cardinality(S) <= N
BY FS_Subset, FS_CardinalityType, TablesAssumption DEF N

LEMMA OneTable ==
  ASSUME NEW S \in SUBSET Tables, Cardinality(S) = 1
  PROVE  Min(S) \in S /\ Min(S) \in Tables /\ \A t \in S : t = Min(S)
<1>1. PICK t : S = {t}
  BY FS_Singleton, SubsetsAreFinite
<1>2. Min(S) = t
  BY <1>1, MinOfOne, Zenon
<1> QED
  BY <1>1, <1>2

\* The elements of the sets of costs.
LEMMA RegularOfTable ==
  ASSUME NEW qry, NEW S \in SUBSET Tables, Cardinality(S) = 1, NEW best
  PROVE  \A x : x \in RegularCosts(qry, S, best) <=> \E op \in ScansOf(qry, Min(S)) : x = qry.cost[op][Min(S)]
BY OneTable DEF RegularCosts

LEMMA PartialOfTable ==
  ASSUME NEW qry, NEW S, Cardinality(S) = 1, NEW best
  PROVE  PartialCosts(qry, S, best) = IF qry.workers[Min(S)] > 0 THEN RegularCosts(qry, S, best) ELSE {}
BY DEF PartialCosts

LEMMA RegularOfJoin ==
  ASSUME NEW qry, NEW S, Cardinality(S) # 1, NEW best
  PROVE  /\ \A x \in RegularCosts(qry, S, best) : \E m \in Methods(qry) : \E o \in Splits(qry, S) :
              m # "merge" /\ x = JoinCost(qry, m, S, o, best)
         /\ \A m \in Methods(qry) : \A o \in Splits(qry, S) : m # "merge" =>
              JoinCost(qry, m, S, o, best) \in RegularCosts(qry, S, best)
<1>1. ASSUME NEW x \in RegularCosts(qry, S, best)
      PROVE  \E m \in Methods(qry) : \E o \in Splits(qry, S) : m # "merge" /\ x = JoinCost(qry, m, S, o, best)
  BY DEF RegularCosts
<1>2. ASSUME NEW m \in Methods(qry), NEW o \in Splits(qry, S), m # "merge"
      PROVE  JoinCost(qry, m, S, o, best) \in RegularCosts(qry, S, best)
  BY <1>2 DEF RegularCosts
<1> QED
  BY <1>1, <1>2

LEMMA PartialOfJoin ==
  ASSUME NEW qry, NEW S, Cardinality(S) # 1, NEW best
  PROVE  /\ \A x \in PartialCosts(qry, S, best) : \E m \in Methods(qry) : \E o \in Splits(qry, S) :
              m # "merge" /\ m # "mat" /\ x = PartialJoinCost(qry, m, S, o, best)
         /\ \A m \in Methods(qry) : \A o \in Splits(qry, S) : m # "merge" /\ m # "mat" =>
              PartialJoinCost(qry, m, S, o, best) \in PartialCosts(qry, S, best)
<1>1. ASSUME NEW x \in PartialCosts(qry, S, best)
      PROVE  \E m \in Methods(qry) : \E o \in Splits(qry, S) : m # "merge" /\ m # "mat" /\ x = PartialJoinCost(qry, m, S, o, best)
  BY DEF PartialCosts
<1>2. ASSUME NEW m \in Methods(qry), NEW o \in Splits(qry, S), m # "merge" /\ m # "mat"
      PROVE  PartialJoinCost(qry, m, S, o, best) \in PartialCosts(qry, S, best)
  BY <1>2 DEF PartialCosts
<1> QED
  BY <1>1, <1>2

TypedInputs(qry, S, best) == \A o \in Splits(qry, S) : best[o] \in Best /\ best[S \ o] \in Best

LEMMA BestOfType ==
  ASSUME NEW qry, IsQuery(qry), NEW S \in SUBSET Tables, NEW best, TypedInputs(qry, S, best)
  PROVE  /\ RegularCosts(qry, S, best) \subseteq Cost /\ PartialCosts(qry, S, best) \subseteq Cost
         /\ BestOf(qry, S, best) \in Best
<1> DEFINE Typed == RegularCosts(qry, S, best) \subseteq Cost /\ PartialCosts(qry, S, best) \subseteq Cost
<1>1. ASSUME Cardinality(S) = 1 PROVE Typed
  <2>1. Min(S) \in Tables
    BY <1>1, OneTable
  <2>2. ASSUME NEW op \in ScansOf(qry, Min(S)) PROVE qry.cost[op][Min(S)] \in Cost
    <3>1. op \in ScanOperator
      BY QueryType DEF ScansOf
    <3> QED
      BY <2>1, <3>1, QueryType
  <2>3. \A x \in RegularCosts(qry, S, best) : x \in Cost
    BY <1>1, <2>2, RegularOfTable
  <2>4. PartialCosts(qry, S, best) \in {{}, RegularCosts(qry, S, best)}
    BY <1>1, PartialOfTable
  <2> QED
    BY <2>3, <2>4
<1>2. ASSUME Cardinality(S) # 1 PROVE Typed
  <2>1. ASSUME NEW m \in Methods(qry), NEW o \in Splits(qry, S)
        PROVE  JoinCost(qry, m, S, o, best) \in Cost /\ PartialJoinCost(qry, m, S, o, best) \in Cost
    <3>1. best[o].regular \in Cost /\ best[o].partial \in Cost /\ best[S \ o].regular \in Cost
      BY DEF Best, TypedInputs
    <3>2. m \in JoinMethod
      BY MethodType
    <3> QED
      BY <3>1, <3>2, PriceType DEF JoinCost, PartialJoinCost
  <2>2. ASSUME NEW x \in RegularCosts(qry, S, best) PROVE x \in Cost
    <3>1. PICK m \in Methods(qry) : \E o \in Splits(qry, S) : m # "merge" /\ x = JoinCost(qry, m, S, o, best)
      BY <1>2, RegularOfJoin
    <3>2. PICK o \in Splits(qry, S) : x = JoinCost(qry, m, S, o, best)
      BY <3>1
    <3> QED
      BY <2>1, <3>2
  <2>3. ASSUME NEW x \in PartialCosts(qry, S, best) PROVE x \in Cost
    <3>1. PICK m \in Methods(qry) : \E o \in Splits(qry, S) : m # "merge" /\ m # "mat" /\ x = PartialJoinCost(qry, m, S, o, best)
      BY <1>2, PartialOfJoin
    <3>2. PICK o \in Splits(qry, S) : x = PartialJoinCost(qry, m, S, o, best)
      BY <3>1
    <3> QED
      BY <2>1, <3>2
  <2> QED
    BY <2>2, <2>3
<1>3. BestOf(qry, S, best) \in Best
  <2> DEFINE partial == Cheaper(PartialCosts(qry, S, best))
             regular == Cheaper(RegularCosts(qry, S, best) \union {GatherPrice(partial)})
  <2>1. partial \in Cost
    BY <1>1, <1>2, CheaperIsLeast
  <2>2. GatherPrice(partial) \in Cost
    BY <2>1, GatherPriceGrows DEF Cost
  <2>3. regular \in Cost
    <3>1. RegularCosts(qry, S, best) \union {GatherPrice(partial)} \in SUBSET Cost
      BY <1>1, <1>2, <2>2
    <3> QED
      BY <3>1, CheaperIsLeast
  <2>4. BestOf(qry, S, best) = [partial |-> partial, regular |-> regular]
    BY DEF BestOf
  <2> HIDE DEF partial, regular
  <2> QED BY <2>1, <2>3, <2>4 DEF Best
<1> QED BY <1>1, <1>2, <1>3

LEMMA SizesAreLess == \A S \in SUBSET Tables : Cardinality(S) < N + 1
<1>1. N \in Nat
  BY FS_CardinalityType, TablesAssumption DEF N
<1> QED
  BY <1>1, SubsetsAreFinite

LEMMA SmallerSubset ==
  ASSUME NEW S \in SUBSET Tables, NEW T \in SUBSET S, T # S
  PROVE  Cardinality(T) < Cardinality(S)
<1>1. IsFiniteSet(S) /\ Cardinality(S) \in Nat /\ Cardinality(T) \in Nat
  BY SubsetsAreFinite
<1>2. Cardinality(T) <= Cardinality(S) /\ Cardinality(S) # Cardinality(T)
  BY <1>1, FS_Subset
<1> QED BY <1>1, <1>2

Inputs(qry, S, best) == [s \in UNION {{o, S \ o} : o \in Splits(qry, S)} |-> best[s]]

SameInputs(qry, S, best, other) ==
  \A o \in Splits(qry, S) : best[o] = other[o] /\ best[S \ o] = other[S \ o]

LEMMA SameInputsSameCosts ==
  ASSUME NEW qry, NEW S, Cardinality(S) # 1, NEW best, NEW other, SameInputs(qry, S, best, other)
  PROVE  /\ RegularCosts(qry, S, best) \subseteq RegularCosts(qry, S, other)
         /\ PartialCosts(qry, S, best) \subseteq PartialCosts(qry, S, other)
<1>1. \A m, o : o \in Splits(qry, S) => /\ JoinCost(qry, m, S, o, best) = JoinCost(qry, m, S, o, other)
                                        /\ PartialJoinCost(qry, m, S, o, best) = PartialJoinCost(qry, m, S, o, other)
  BY DEF JoinCost, PartialJoinCost, SameInputs
<1>2. ASSUME NEW x \in RegularCosts(qry, S, best) PROVE x \in RegularCosts(qry, S, other)
  <2>1. PICK m \in Methods(qry) : \E o \in Splits(qry, S) : m # "merge" /\ x = JoinCost(qry, m, S, o, best)
    BY RegularOfJoin
  <2>2. PICK o \in Splits(qry, S) : m # "merge" /\ x = JoinCost(qry, m, S, o, best)
    BY <2>1
  <2>3. JoinCost(qry, m, S, o, other) \in RegularCosts(qry, S, other)
    BY <2>2, RegularOfJoin
  <2> QED
    BY <1>1, <2>2, <2>3
<1>3. ASSUME NEW x \in PartialCosts(qry, S, best) PROVE x \in PartialCosts(qry, S, other)
  <2>1. PICK m \in Methods(qry) : \E o \in Splits(qry, S) :
          m # "merge" /\ m # "mat" /\ x = PartialJoinCost(qry, m, S, o, best)
    BY PartialOfJoin
  <2>2. PICK o \in Splits(qry, S) : m # "merge" /\ m # "mat" /\ x = PartialJoinCost(qry, m, S, o, best)
    BY <2>1
  <2>3. PartialJoinCost(qry, m, S, o, other) \in PartialCosts(qry, S, other)
    BY <2>2, PartialOfJoin
  <2> QED
    BY <1>1, <2>2, <2>3
<1> QED
  BY <1>2, <1>3

LEMMA InputsAreTheBest ==
  ASSUME NEW qry, IsQuery(qry), NEW S \in SUBSET Tables, NEW best
  PROVE  /\ RegularCosts(qry, S, Inputs(qry, S, best)) = RegularCosts(qry, S, best)
         /\ PartialCosts(qry, S, Inputs(qry, S, best)) = PartialCosts(qry, S, best)
         /\ BestOf(qry, S, Inputs(qry, S, best)) = BestOf(qry, S, best)
<1>1. \A o \in Splits(qry, S) : Inputs(qry, S, best)[o] = best[o] /\ Inputs(qry, S, best)[S \ o] = best[S \ o]
  <2> DEFINE All == UNION {{o, S \ o} : o \in Splits(qry, S)}
  <2>1. \A o \in Splits(qry, S) : o \in All /\ S \ o \in All
    OBVIOUS
  <2>2. Inputs(qry, S, best) = [s \in All |-> best[s]]
    BY DEF Inputs
  <2> HIDE DEF All
  <2> QED
    BY <2>1, <2>2
<1> DEFINE mine == Inputs(qry, S, best)
<1> HIDE DEF mine
<1>2. CASE Cardinality(S) = 1
  <2>1. ASSUME NEW x PROVE x \in RegularCosts(qry, S, mine) <=> x \in RegularCosts(qry, S, best)
    BY <1>2, RegularOfTable
  <2>2. RegularCosts(qry, S, mine) = RegularCosts(qry, S, best)
    BY <2>1
  <2>3. PartialCosts(qry, S, mine) = PartialCosts(qry, S, best)
    BY <1>2, <2>2, PartialOfTable
  <2> QED
    BY <2>2, <2>3 DEF BestOf, mine
<1>3. CASE Cardinality(S) # 1
  <2>1. SameInputs(qry, S, mine, best) /\ SameInputs(qry, S, best, mine)
    BY <1>1 DEF mine, SameInputs
  <2>2. /\ RegularCosts(qry, S, mine) \subseteq RegularCosts(qry, S, best)
        /\ PartialCosts(qry, S, mine) \subseteq PartialCosts(qry, S, best)
    BY <1>3, <2>1, SameInputsSameCosts
  <2>3. /\ RegularCosts(qry, S, best) \subseteq RegularCosts(qry, S, mine)
        /\ PartialCosts(qry, S, best) \subseteq PartialCosts(qry, S, mine)
    BY <1>3, <2>1, SameInputsSameCosts
  <2>4. /\ RegularCosts(qry, S, mine) = RegularCosts(qry, S, best)
        /\ PartialCosts(qry, S, mine) = PartialCosts(qry, S, best)
    BY <2>2, <2>3
  <2> QED
    BY <2>4 DEF BestOf, mine
<1> QED
  BY <1>2, <1>3

\* Optimum is the function its recursion says.
LEMMA OptimumIsDefined ==
  ASSUME NEW qry, IsQuery(qry)
  PROVE  /\ Optimum(qry) \in [SUBSET Tables -> Best]
         /\ \A S \in SUBSET Tables : Optimum(qry)[S] = BestOf(qry, S, Optimum(qry))
<1> DEFINE All == SUBSET Tables
           T == [All -> Best]
           next(best) == [S \in All |-> BestOf(qry, S, Inputs(qry, S, best))]
           m == N + 1
           step == [k \in 1 .. m |-> [best \in T |-> next(best)]]
           base == [S \in All |-> [partial |-> 0, regular |-> 0]]
           Rec(f) == f = next(f)
<1>1. m \in Nat /\ base \in T
  <2>1. N \in Nat
    BY FS_CardinalityType, TablesAssumption DEF N
  <2>2. [partial |-> 0, regular |-> 0] \in Best
    BY DEF Best, Cost
  <2> QED BY <2>1, <2>2
<1>2. ASSUME NEW best \in T PROVE next(best) \in T
  <2>1. ASSUME NEW S \in All PROVE BestOf(qry, S, Inputs(qry, S, best)) \in Best
    <3>1. TypedInputs(qry, S, best)
      BY SplitType DEF TypedInputs
    <3> QED BY <3>1, BestOfType, InputsAreTheBest
  <2> QED BY <2>1
<1>3. step \in Steps(m, T)
  <2> HIDE DEF m, T, next
  <2> QED BY <1>2 DEF Steps
<1>4. PICK f : f \in Recursion(m, T, base, step)
  <2> HIDE DEF m, T, step, base
  <2> QED BY <1>1, <1>3, RecursionExists
<1>5. f \in [0 .. m -> T] /\ f[0] = base /\ \A k \in 1 .. m : f[k] = next(f[k - 1])
  <2>1. f \in [0 .. m -> T] /\ f[0] = base /\ \A k \in 1 .. m : f[k] = step[k][f[k - 1]]
    <3> HIDE DEF step, m, T, base
    <3> QED BY <1>4 DEF Recursion
  <2> HIDE DEF m, T, base, next
  <2>2. \A k \in 1 .. m : f[k - 1] \in T
    BY <1>1, <2>1
  <2> QED BY <2>1, <2>2
<1> DEFINE Stable == {k \in 0 .. m : \A S \in All : Cardinality(S) < k => next(f[k])[S] = f[k][S]}
<1>6. 0 \in Stable
  <2>1. \A S \in All : ~(Cardinality(S) < 0)
    BY SubsetsAreFinite
  <2> QED BY <1>1, <2>1
<1>7. ASSUME NEW k \in 1 .. m, k - 1 \in Stable PROVE k \in Stable
  <2>1. k \in 0 .. m /\ k - 1 \in 0 .. m
    BY <1>1
  <2>2. ASSUME NEW S \in All, Cardinality(S) < k PROVE next(f[k])[S] = f[k][S]
    <3>1. ASSUME NEW s \in SUBSET S, s # S PROVE f[k][s] = f[k - 1][s]
      <4>1. Cardinality(s) < k - 1 /\ s \in All
        BY <2>1, <2>2, <3>1, SmallerSubset, SubsetsAreFinite
      <4>2. next(f[k - 1])[s] = f[k - 1][s]
        <5> HIDE DEF next
        <5> QED BY <1>7, <4>1
      <4> QED BY <1>5, <4>2
    <3>2. Inputs(qry, S, f[k]) = Inputs(qry, S, f[k - 1])
      <4>1. \A s \in UNION {{o, S \ o} : o \in Splits(qry, S)} : f[k][s] = f[k - 1][s]
        BY <3>1, SplitType
      <4> QED BY <4>1 DEF Inputs
    <3>3. next(f[k])[S] = next(f[k - 1])[S]
      BY <3>2
    <3> HIDE DEF next
    <3> QED BY <1>5, <3>3
  <2> HIDE DEF next, m, All
  <2> QED BY <2>1, <2>2
<1>8. m \in Stable
  <2>1. \A k \in 0 .. m : k \in Stable
    <3> HIDE DEF Stable, m
    <3> QED BY <1>1, <1>6, <1>7, SetInduction
  <2>2. m \in 0 .. m
    BY <1>1
  <2> HIDE DEF Stable, m
  <2> QED BY <2>1, <2>2
<1>9. Rec(f[m])
  <2>1. \A S \in All : next(f[m])[S] = f[m][S]
    <3>1. \A S \in All : Cardinality(S) < m
      BY SizesAreLess
    <3> HIDE DEF next, m, All
    <3> QED
      BY <1>8, <3>1
  <2>2. f[m] \in T /\ next(f[m]) \in T
    <3>1. m \in 0 .. m
      BY <1>1
    <3> HIDE DEF next, m, T
    <3> QED BY <1>2, <1>5, <3>1
  <2> HIDE DEF next, m, All
  <2> QED BY <2>1, <2>2
<1> DEFINE g == Optimum(qry)
<1>10. Rec(g)
  <2>1. Rec(CHOOSE h : Rec(h))
    <3> HIDE DEF Rec, m
    <3> QED BY <1>9
  <2>2. g = CHOOSE h : Rec(h)
    BY DEF Optimum, Inputs
  <2> HIDE DEF g
  <2> QED BY <2>1, <2>2
<1> HIDE DEF g
<1>11. \A S \in All : g[S] = BestOf(qry, S, g)
  <2>1. \A S \in All : g[S] = BestOf(qry, S, Inputs(qry, S, g))
    <3> DEFINE h == next(g)
    <3>1. \A S \in All : h[S] = BestOf(qry, S, Inputs(qry, S, g))
      OBVIOUS
    <3>2. g = h
      BY <1>10
    <3> HIDE DEF h
    <3> QED BY <3>1, <3>2
  <2> QED BY <2>1, InputsAreTheBest
<1>12. g \in [All -> Best]
  <2> DEFINE Typed == {k \in 0 .. m : \A S \in All : Cardinality(S) < k => g[S] \in Best}
  <2>1. 0 \in Typed
    <3>1. \A S \in All : ~(Cardinality(S) < 0)
      BY SubsetsAreFinite
    <3> QED BY <1>1, <3>1
  <2>2. ASSUME NEW k \in 1 .. m, k - 1 \in Typed PROVE k \in Typed
    <3>1. k \in 0 .. m /\ k - 1 \in 0 .. m
      BY <1>1
    <3>2. ASSUME NEW S \in All, Cardinality(S) < k PROVE g[S] \in Best
      <4>1. ASSUME NEW s \in SUBSET S, s # S PROVE g[s] \in Best
        <5>1. Cardinality(s) < k - 1 /\ s \in All
          BY <3>1, <3>2, <4>1, SmallerSubset, SubsetsAreFinite
        <5> QED BY <2>2, <5>1
      <4>2. TypedInputs(qry, S, g)
        BY <4>1, SplitType DEF TypedInputs
      <4> QED BY <4>2, <1>11, BestOfType
    <3> HIDE DEF m, All
    <3> QED BY <3>1, <3>2
  <2>3. \A k \in 0 .. m : k \in Typed
    <3> HIDE DEF Typed, m
    <3> QED BY <1>1, <2>1, <2>2, SetInduction
  <2>4. m \in Typed
    <3>1. m \in 0 .. m
      BY <1>1
    <3> HIDE DEF Typed, m
    <3> QED BY <2>3, <3>1
  <2>5. \A S \in All : Cardinality(S) < m
    BY SizesAreLess
  <2>6. \A S \in All : g[S] \in Best
    <3> HIDE DEF m, All
    <3> QED BY <2>4, <2>5
  <2>7. g = next(g)
    BY <1>10
  <2>8. DOMAIN g = All
    <3> DEFINE h == next(g)
    <3>1. DOMAIN h = All
      OBVIOUS
    <3>2. g = h
      BY <2>7
    <3> HIDE DEF h
    <3> QED BY <3>1, <3>2
  <2>9. g = [S \in All |-> g[S]]
    <3> DEFINE h == next(g)
    <3>1. h = [S \in All |-> h[S]]
      OBVIOUS
    <3>2. g = h
      BY <2>7
    <3> HIDE DEF h
    <3> QED BY <3>1, <3>2
  <2> HIDE DEF All
  <2> QED BY <2>6, <2>9
<1> QED BY <1>11, <1>12 DEF g
\* What the reference is the least of.
LEMMA OptimumIsLeast ==
  ASSUME NEW qry, IsQuery(qry), NEW S \in SUBSET Tables
  PROVE  LET best == Optimum(qry)
             regular == best[S].regular
             partial == best[S].partial
         IN
           /\ regular \in Cost /\ partial \in Cost
           /\ \A c \in RegularCosts(qry, S, best) : c # Infinite => regular # Infinite /\ regular <= c
           /\ GatherPrice(partial) # Infinite => regular # Infinite /\ regular <= GatherPrice(partial)
           /\ regular # Infinite => regular \in RegularCosts(qry, S, best) \/ regular = GatherPrice(partial)
           /\ \A c \in PartialCosts(qry, S, best) : c # Infinite => partial # Infinite /\ partial <= c
           /\ partial # Infinite => partial \in PartialCosts(qry, S, best)
<1> DEFINE best == Optimum(qry)
           regulars == RegularCosts(qry, S, best)
           partials == PartialCosts(qry, S, best)
           partial == Cheaper(partials)
           all == regulars \union {GatherPrice(partial)}
<1>1. best \in [SUBSET Tables -> Best] /\ best[S] = BestOf(qry, S, best)
  BY OptimumIsDefined
<1> HIDE DEF best
<1>2. TypedInputs(qry, S, best)
  BY <1>1, SplitType DEF TypedInputs
<1>3. regulars \subseteq Cost /\ partials \subseteq Cost
  BY <1>2, BestOfType
<1>4. best[S].partial = partial /\ best[S].regular = Cheaper(all)
  BY <1>1 DEF BestOf
<1> HIDE DEF regulars, partials
<1>5. /\ partial \in Cost
      /\ \A c \in partials : c # Infinite => partial # Infinite /\ partial <= c
      /\ partial # Infinite => partial \in partials
  BY <1>3, CheaperIsLeast
<1> HIDE DEF partial
<1>6. GatherPrice(partial) \in Cost
  BY <1>5, GatherPriceGrows DEF Cost
<1>7. all \subseteq Cost /\ regulars \subseteq all /\ GatherPrice(partial) \in all
      /\ \A c \in all : c \in regulars \/ c = GatherPrice(partial)
  BY <1>3, <1>6
<1> HIDE DEF all
<1>8. /\ Cheaper(all) \in Cost
      /\ \A c \in all : c # Infinite => Cheaper(all) # Infinite /\ Cheaper(all) <= c
      /\ Cheaper(all) # Infinite => Cheaper(all) \in all
  BY <1>7, CheaperIsLeast
<1>9. /\ \A c \in regulars : c # Infinite => Cheaper(all) # Infinite /\ Cheaper(all) <= c
      /\ GatherPrice(partial) # Infinite => Cheaper(all) # Infinite /\ Cheaper(all) <= GatherPrice(partial)
      /\ Cheaper(all) # Infinite => Cheaper(all) \in regulars \/ Cheaper(all) = GatherPrice(partial)
  BY <1>7, <1>8
<1> QED
  BY <1>4, <1>5, <1>8, <1>9 DEF best, regulars, partials

-------------------------------------------------------------------------------
(* The join graph. *)

LEMMA EndsOfJoin ==
  ASSUME NEW qry, NEW a, NEW b
  PROVE  JoinsBetween(qry, a, b) # {} <=> \E e \in qry.joins : \E x \in a, y \in b : e = {x, y}
BY DEF JoinsBetween

LEMMA JoinsAreSymmetric ==
  ASSUME NEW qry, NEW a, NEW b, JoinsBetween(qry, a, b) # {}
  PROVE  JoinsBetween(qry, b, a) # {}
<1>1. PICK e \in qry.joins : \E x \in a, y \in b : e = {x, y}
  BY EndsOfJoin
<1>2. PICK x \in a : \E y \in b : e = {x, y}
  BY <1>1
<1>3. PICK y \in b : e = {x, y}
  BY <1>2
<1>4. {x, y} = {y, x}
  OBVIOUS
<1>5. e = {y, x}
  BY <1>3, <1>4
<1> QED
  BY <1>5, EndsOfJoin

LEMMA JoinsGrow ==
  ASSUME NEW qry, NEW a, NEW b, NEW c, NEW d, a \subseteq c, b \subseteq d, JoinsBetween(qry, a, b) # {}
  PROVE  JoinsBetween(qry, c, d) # {}
<1>1. PICK e \in qry.joins : \E x \in a, y \in b : e = {x, y}
  BY EndsOfJoin
<1>2. \E x \in c, y \in d : e = {x, y}
  BY <1>1
<1> QED
  BY <1>2, EndsOfJoin

\* Two connected sets with a join between them are a connected set.
LEMMA UnionIsConnected ==
  ASSUME NEW qry, NEW a, NEW b, JoinsTables(qry, a), JoinsTables(qry, b), JoinsBetween(qry, a, b) # {}
  PROVE  JoinsTables(qry, a \union b)
<1> DEFINE all == a \union b
<1>1. ASSUME NEW part \in (SUBSET all) \ {{}, all} PROVE JoinsBetween(qry, part, all \ part) # {}
  <2>1. \A c \in {a, b} : JoinsTables(qry, c) /\ c \subseteq all
    OBVIOUS
  \* a part that cuts one of the sets is left by a join of it
  <2>2. ASSUME NEW c \in {a, b}, part \intersect c # {}, part \intersect c # c
        PROVE  JoinsBetween(qry, part, all \ part) # {}
    <3>1. part \intersect c \in (SUBSET c) \ {{}, c}
      BY <2>2
    <3>2. JoinsBetween(qry, part \intersect c, c \ (part \intersect c)) # {}
      BY <2>1, <3>1 DEF JoinsTables
    <3>3. c \ (part \intersect c) \subseteq all \ part /\ part \intersect c \subseteq part
      OBVIOUS
    <3> QED
      BY <3>2, <3>3, JoinsGrow
  <2>3. CASE \E c \in {a, b} : part \intersect c # {} /\ part \intersect c # c
    BY <2>2, <2>3
  \* any other part is one of them, and the join between them leaves it
  <2>4. CASE \A c \in {a, b} : part \intersect c = {} \/ part \intersect c = c
    <3>1. \/ a \subseteq part /\ b \subseteq all \ part
          \/ b \subseteq part /\ a \subseteq all \ part
      BY <2>4
    <3>2. JoinsBetween(qry, a, b) # {} /\ JoinsBetween(qry, b, a) # {}
      BY JoinsAreSymmetric
    <3> QED
      BY <3>1, <3>2, JoinsGrow
  <2> QED
    BY <2>3, <2>4
<1> QED
  BY <1>1 DEF JoinsTables

LEMMA TableIsConnected == ASSUME NEW qry, NEW t PROVE JoinsTables(qry, {t})
<1>1. (SUBSET {t}) \ {{}, {t}} = {}
  OBVIOUS
<1> QED
  BY <1>1 DEF JoinsTables

LEMMA GreatestNat ==
  ASSUME NEW m \in Nat, NEW T, T \subseteq 0 .. m, T # {}
  PROVE  \E n \in T : \A k \in T : k <= n
<1> DEFINE rest == {m - k : k \in T}
<1>1. rest \in SUBSET Nat /\ rest # {}
  <2>1. \A k \in T : m - k \in Nat
    OBVIOUS
  <2>2. \A r \in rest : r \in Nat
    BY <2>1
  <2>3. PICK k \in T : TRUE
    OBVIOUS
  <2>4. m - k \in rest
    BY <2>3
  <2> QED
    BY <2>2, <2>4
<1>2. PICK r \in rest : \A s \in rest : r <= s
  <2> HIDE DEF rest
  <2> QED
    BY <1>1, LeastNat
<1>3. PICK n \in T : r = m - n
  BY <1>2
<1>4. ASSUME NEW k \in T PROVE k <= n
  <2>1. m - k \in rest
    OBVIOUS
  <2>2. m - n <= m - k
    BY <1>2, <1>3, <2>1
  <2> QED
    BY <2>2
<1> QED
  BY <1>4

\* A connected set of several tables is a connected set and one more table.
LEMMA ConnectedSetsSplit ==
  ASSUME NEW qry, NEW S \in SUBSET Tables, Cardinality(S) > 1, JoinsTables(qry, S)
  PROVE  \E o \in Splits(qry, S) : TRUE
<1> DEFINE proper == {o \in (SUBSET S) \ {{}, S} : JoinsTables(qry, o)}
           sizes == {Cardinality(o) : o \in proper}
<1>1. \A o \in SUBSET S : o \in SUBSET Tables
  OBVIOUS
<1>2. Cardinality({}) = 0 /\ \A t : Cardinality({t}) = 1
  BY FS_EmptySet, FS_Singleton
<1>3. PICK t \in S : TRUE
  BY <1>2
<1>4. {t} \in proper
  <2>1. {t} # S
    BY <1>2
  <2> QED
    BY <1>3, <2>1, TableIsConnected
<1>5. N \in Nat /\ sizes \subseteq 0 .. N /\ sizes # {}
  <2>1. N \in Nat
    BY FS_CardinalityType, TablesAssumption DEF N
  <2>2. ASSUME NEW o \in proper PROVE Cardinality(o) \in 0 .. N
    BY <2>1, <1>1, SubsetsAreFinite
  <2> QED
    BY <2>1, <2>2, <1>4
<1>6. PICK n \in sizes : \A k \in sizes : k <= n
  <2> HIDE DEF sizes
  <2> QED
    BY <1>5, GreatestNat
<1>7. PICK o \in proper : \A p \in proper : Cardinality(p) <= Cardinality(o)
  BY <1>6
<1>8. JoinsBetween(qry, o, S \ o) # {} /\ o \in SUBSET S /\ o # {} /\ o # S /\ JoinsTables(qry, o)
  BY <1>7 DEF JoinsTables
<1>9. PICK e \in qry.joins : \E x \in o, y \in S \ o : e = {x, y}
  BY <1>8, EndsOfJoin
<1>10. PICK y \in S \ o : \E x \in o : e = {x, y}
  BY <1>9
<1>11. JoinsBetween(qry, o, {y}) # {}
  BY <1>10, EndsOfJoin
<1>12. JoinsTables(qry, o \union {y})
  BY <1>8, <1>11, TableIsConnected, UnionIsConnected
<1>13. o \union {y} = S
  <2> SUFFICES ASSUME o \union {y} # S PROVE FALSE
    OBVIOUS
  <2>1. o \union {y} \in proper
    BY <1>8, <1>10, <1>12
  <2>2. Cardinality(o \union {y}) <= Cardinality(o)
    BY <1>7, <2>1
  <2>3. o \in SUBSET (o \union {y}) /\ o # o \union {y} /\ o \union {y} \in SUBSET Tables
    BY <1>8, <1>10
  <2>4. Cardinality(o) < Cardinality(o \union {y})
    BY <2>3, SmallerSubset
  <2>5. Cardinality(o) \in Nat /\ Cardinality(o \union {y}) \in Nat
    BY <2>3, SubsetsAreFinite
  <2> QED
    BY <2>2, <2>4, <2>5
<1>14. S \ o = {y}
  BY <1>10, <1>13
<1>15. JoinsTables(qry, S \ o)
  <2>1. \A part \in SUBSET (S \ o) : part = {} \/ part = S \ o
    BY <1>14
  <2> QED
    BY <2>1 DEF JoinsTables
<1>16. o \in Splits(qry, S)
  BY <1>8, <1>15 DEF Splits
<1> QED
  BY <1>16

\* What the searches compare with: scans, joins of the best inputs, and a gather.
LEMMA ScanIsAChoice ==
  ASSUME NEW qry, IsQuery(qry), NEW S \in SUBSET Tables, Cardinality(S) = 1,
         NEW op \in ScansOf(qry, Min(S)), qry.cost[op][Min(S)] # Infinite
  PROVE  LET cost == qry.cost[op][Min(S)] IN
           /\ Regular(qry, S) # Infinite /\ Regular(qry, S) <= cost
           /\ qry.workers[Min(S)] > 0 => Partial(qry, S) # Infinite /\ Partial(qry, S) <= cost
<1> DEFINE best == Optimum(qry)
           cost == qry.cost[op][Min(S)]
<1>1. cost \in RegularCosts(qry, S, best)
  BY RegularOfTable
<1>2. qry.workers[Min(S)] > 0 => cost \in PartialCosts(qry, S, best)
  BY <1>1, PartialOfTable
<1> HIDE DEF best, cost
<1>3. /\ best[S].regular # Infinite /\ best[S].regular <= cost
      /\ qry.workers[Min(S)] > 0 => best[S].partial # Infinite /\ best[S].partial <= cost
  BY <1>1, <1>2, OptimumIsLeast DEF best, cost
<1> QED
  BY <1>3 DEF Regular, Partial, best, cost

LEMMA JoinIsAChoice ==
  ASSUME NEW qry, IsQuery(qry), NEW S \in SUBSET Tables, Cardinality(S) # 1, NEW o \in Splits(qry, S),
         NEW m \in Methods(qry), m # "merge"
  PROVE  LET regular == Price(qry, m, S, Regular(qry, o), Regular(qry, S \ o))
             partial == Price(qry, m, S, Partial(qry, o), Regular(qry, S \ o))
         IN
           /\ regular # Infinite => Regular(qry, S) # Infinite /\ Regular(qry, S) <= regular
           /\ m # "mat" /\ partial # Infinite => Partial(qry, S) # Infinite /\ Partial(qry, S) <= partial
<1> DEFINE best == Optimum(qry)
           regular == JoinCost(qry, m, S, o, best)
           partial == PartialJoinCost(qry, m, S, o, best)
<1>1. regular \in RegularCosts(qry, S, best)
  BY RegularOfJoin
<1>2. m # "mat" => partial \in PartialCosts(qry, S, best)
  BY PartialOfJoin
<1> HIDE DEF best, regular, partial
<1>3. /\ regular # Infinite => best[S].regular # Infinite /\ best[S].regular <= regular
      /\ m # "mat" /\ partial # Infinite => best[S].partial # Infinite /\ best[S].partial <= partial
  BY <1>1, <1>2, OptimumIsLeast DEF best
<1> QED
  BY <1>3 DEF Regular, Partial, JoinCost, PartialJoinCost, best, regular, partial

LEMMA OptimumType ==
  ASSUME NEW qry, IsQuery(qry), NEW S \in SUBSET Tables
  PROVE  /\ Regular(qry, S) \in Cost /\ Partial(qry, S) \in Cost
         /\ GatherPrice(Partial(qry, S)) # Infinite =>
              Regular(qry, S) # Infinite /\ Regular(qry, S) <= GatherPrice(Partial(qry, S))
BY OptimumIsLeast DEF Regular, Partial

LEMMA BestOfTable ==
  ASSUME NEW qry, IsQuery(qry), NEW S \in SUBSET Tables, Cardinality(S) = 1
  PROVE  LET regular == Regular(qry, S)
             partial == Partial(qry, S)
             t == Min(S)
         IN
           /\ regular # Infinite => \/ \E op \in ScansOf(qry, t) : regular = qry.cost[op][t]
                                    \/ regular = GatherPrice(partial)
           /\ partial # Infinite => /\ qry.workers[t] > 0
                                    /\ \E op \in ScansOf(qry, t) : partial = qry.cost[op][t]
<1> DEFINE best == Optimum(qry)
           regulars == RegularCosts(qry, S, best)
           partials == PartialCosts(qry, S, best)
           t == Min(S)
<1>1. \A x \in regulars : \E op \in ScansOf(qry, t) : x = qry.cost[op][t]
  <2> HIDE DEF best
  <2>1. \A x : x \in RegularCosts(qry, S, best) <=> \E op \in ScansOf(qry, Min(S)) : x = qry.cost[op][Min(S)]
    BY OneTable DEF RegularCosts
  <2> QED
    BY <2>1
<1>2. partials = IF qry.workers[t] > 0 THEN regulars ELSE {}
  BY PartialOfTable
<1> HIDE DEF best, regulars, partials
<1>3. /\ Regular(qry, S) # Infinite => \/ Regular(qry, S) \in regulars
                                       \/ Regular(qry, S) = GatherPrice(Partial(qry, S))
      /\ Partial(qry, S) # Infinite => Partial(qry, S) \in partials
  BY OptimumIsLeast DEF best, regulars, partials, Regular, Partial
<1> HIDE DEF t
<1> QED
  BY <1>1, <1>2, <1>3 DEF t

LEMMA BestOfJoin ==
  ASSUME NEW qry, IsQuery(qry), NEW S \in SUBSET Tables, Cardinality(S) # 1
  PROVE  LET regular == Regular(qry, S)
             partial == Partial(qry, S)
         IN
           /\ regular # Infinite =>
                \/ \E m \in Methods(qry) : \E o \in Splits(qry, S) :
                     m # "merge" /\ regular = Price(qry, m, S, Regular(qry, o), Regular(qry, S \ o))
                \/ regular = GatherPrice(partial)
           /\ partial # Infinite =>
                \E m \in Methods(qry) : \E o \in Splits(qry, S) :
                  /\ m # "merge" /\ m # "mat"
                  /\ partial = Price(qry, m, S, Partial(qry, o), Regular(qry, S \ o))
<1> DEFINE best == Optimum(qry)
           regulars == RegularCosts(qry, S, best)
           partials == PartialCosts(qry, S, best)
<1>1. \A x \in regulars : \E m \in Methods(qry) : \E o \in Splits(qry, S) :
        m # "merge" /\ x = JoinCost(qry, m, S, o, best)
  BY RegularOfJoin
<1>2. \A x \in partials : \E m \in Methods(qry) : \E o \in Splits(qry, S) :
        m # "merge" /\ m # "mat" /\ x = PartialJoinCost(qry, m, S, o, best)
  BY PartialOfJoin
<1>3. /\ Regular(qry, S) # Infinite => \/ Regular(qry, S) \in regulars
                                       \/ Regular(qry, S) = GatherPrice(Partial(qry, S))
      /\ Partial(qry, S) # Infinite => Partial(qry, S) \in partials
  BY OptimumIsLeast DEF Regular, Partial
<1>4. \A m, o : /\ JoinCost(qry, m, S, o, best) = Price(qry, m, S, Regular(qry, o), Regular(qry, S \ o))
                /\ PartialJoinCost(qry, m, S, o, best) = Price(qry, m, S, Partial(qry, o), Regular(qry, S \ o))
  BY DEF JoinCost, PartialJoinCost, Regular, Partial
<1> HIDE DEF best, regulars, partials
<1>5. ASSUME Regular(qry, S) \in regulars
      PROVE  \E m \in Methods(qry) : \E o \in Splits(qry, S) :
               m # "merge" /\ Regular(qry, S) = Price(qry, m, S, Regular(qry, o), Regular(qry, S \ o))
  <2>1. PICK m \in Methods(qry) : \E o \in Splits(qry, S) :
          m # "merge" /\ Regular(qry, S) = JoinCost(qry, m, S, o, best)
    BY <1>1, <1>5
  <2>2. PICK o \in Splits(qry, S) : m # "merge" /\ Regular(qry, S) = JoinCost(qry, m, S, o, best)
    BY <2>1
  <2> QED
    BY <2>2, <1>4
<1>6. ASSUME Partial(qry, S) \in partials
      PROVE  \E m \in Methods(qry) : \E o \in Splits(qry, S) :
               /\ m # "merge" /\ m # "mat"
               /\ Partial(qry, S) = Price(qry, m, S, Partial(qry, o), Regular(qry, S \ o))
  <2>1. PICK m \in Methods(qry) : \E o \in Splits(qry, S) :
          m # "merge" /\ m # "mat" /\ Partial(qry, S) = PartialJoinCost(qry, m, S, o, best)
    BY <1>2, <1>6
  <2>2. PICK o \in Splits(qry, S) : m # "merge" /\ m # "mat" /\ Partial(qry, S) = PartialJoinCost(qry, m, S, o, best)
    BY <2>1
  <2> QED
    BY <2>2, <1>4
<1> QED
  BY <1>3, <1>5, <1>6

-------------------------------------------------------------------------------
(* Trees and paths. *)

LEMMA TreeOfTable ==
  ASSUME NEW qry, NEW S \in SUBSET Tables, Cardinality(S) = 1
  PROVE  TreeOver(qry, S, {{Min(S)}})
<1> DEFINE t == Min(S)
           parts == {{t}}
<1>1. S = {t}
  BY OneTable
<1> HIDE DEF t
<1>2. Cardinality({t}) = 1 /\ Cardinality(parts) = 1 /\ IsFiniteSet(parts)
  BY FS_Singleton
<1>3. parts \subseteq (SUBSET S) \ {{}} /\ S \in parts
  BY <1>1
<1>4. \A x \in S : {x} \in parts
  <2>1. \A x \in S : x = t
    BY <1>1
  <2>2. {t} \in parts
    OBVIOUS
  <2> HIDE DEF parts
  <2> QED
    BY <2>1, <2>2, Zenon
<1> HIDE DEF parts
<1>6. \A part \in parts : ~(Cardinality(part) > 1)
  <2>1. \A part \in parts : Cardinality(part) = 1
    BY <1>2, Zenon DEF parts
  <2> QED
    BY <2>1
<1>7. TreeOver(qry, S, parts)
  BY <1>2, <1>3, <1>4, <1>6 DEF TreeOver
<1> QED
  BY <1>7 DEF parts, t

LEMMA PartsOfTree ==
  ASSUME NEW qry, NEW S, NEW parts, TreeOver(qry, S, parts)
  PROVE  /\ \A part \in parts : part \subseteq S /\ part # {}
         /\ S \in parts
         /\ \A t \in S : {t} \in parts
         /\ IsFiniteSet(parts) /\ Cardinality(parts) = 2 * Cardinality(S) - 1
BY DEF TreeOver

LEMMA JoinOfTrees ==
  ASSUME NEW qry, NEW a \in SUBSET Tables, NEW b \in SUBSET Tables, a \intersect b = {},
         JoinsBetween(qry, a, b) # {},
         NEW as, NEW bs, TreeOver(qry, a, as), TreeOver(qry, b, bs)
  PROVE  TreeOver(qry, a \union b, as \union bs \union {a \union b})
<1> DEFINE S == a \union b
           both == as \union bs
           parts == both \union {S}
<1>1. /\ \A part \in as : part \subseteq a /\ part # {}
      /\ a \in as
      /\ \A t \in a : {t} \in as
      /\ IsFiniteSet(as) /\ Cardinality(as) = 2 * Cardinality(a) - 1
  BY PartsOfTree
<1>2. /\ \A part \in bs : part \subseteq b /\ part # {}
      /\ b \in bs
      /\ \A t \in b : {t} \in bs
      /\ IsFiniteSet(bs) /\ Cardinality(bs) = 2 * Cardinality(b) - 1
  BY PartsOfTree
<1>3. a # {} /\ b # {}
  BY <1>1, <1>2
<1>4. parts \subseteq (SUBSET S) \ {{}}
  <2>1. \A part \in as : part \in (SUBSET S) \ {{}}
    BY <1>1
  <2>2. \A part \in bs : part \in (SUBSET S) \ {{}}
    BY <1>2
  <2>3. S \in (SUBSET S) \ {{}}
    BY <1>3
  <2> HIDE DEF S
  <2> QED
    BY <2>1, <2>2, <2>3
<1>5. S \in parts /\ \A t \in S : {t} \in parts
  <2>1. ASSUME NEW t \in S PROVE {t} \in parts
    <3>1. CASE t \in a
      BY <1>1, <3>1
    <3>2. CASE t \in b
      BY <1>2, <3>2
    <3> QED
      BY <3>1, <3>2
  <2>2. S \in parts
    OBVIOUS
  <2> HIDE DEF S, both, parts
  <2> QED
    BY <2>1, <2>2, Zenon
<1>6. IsFiniteSet(parts) /\ Cardinality(parts) = 2 * Cardinality(S) - 1
  <2>1. ASSUME NEW part \in as, part \in bs PROVE FALSE
    <3>1. part \subseteq a /\ part \subseteq b /\ part # {}
      BY <1>1, <1>2, <2>1, Zenon
    <3> QED
      BY <3>1
  <2>2. as \intersect bs = {}
    BY <2>1
  <2>3. S \notin both
    <3>1. ~(S \subseteq a) /\ ~(S \subseteq b)
      BY <1>3
    <3> HIDE DEF S
    <3> QED
      BY <1>1, <1>2, <3>1
  <2>4. /\ IsFiniteSet(a) /\ IsFiniteSet(b) /\ Cardinality(a) \in Nat /\ Cardinality(b) \in Nat
        /\ Cardinality({}) = 0
    BY SubsetsAreFinite, FS_EmptySet
  <2>5. Cardinality(as) \in Nat /\ Cardinality(bs) \in Nat
    BY <1>1, <1>2, FS_CardinalityType
  <2>6. Cardinality(S) = Cardinality(a) + Cardinality(b) - Cardinality(a \intersect b)
    BY <2>4, FS_Union
  <2>7. Cardinality(S) = Cardinality(a) + Cardinality(b)
    <3>1. Cardinality(a \intersect b) = 0
      BY <2>4
    <3> QED
      BY <2>4, <2>6, <3>1
  <2>8. IsFiniteSet(both) /\ Cardinality(both) = Cardinality(as) + Cardinality(bs) - Cardinality(as \intersect bs)
    BY <1>1, <1>2, FS_Union
  <2>9. Cardinality(as \intersect bs) = 0
    BY <2>2, <2>4
  <2> HIDE DEF S, both
  <2>10. IsFiniteSet(parts) /\ Cardinality(parts) = Cardinality(both) + 1
    BY <2>3, <2>8, FS_AddElement
  <2>11. Cardinality(parts) = 2 * Cardinality(S) - 1
    BY <1>1, <1>2, <2>4, <2>5, <2>7, <2>8, <2>9, <2>10
  <2> QED
    BY <2>10, <2>11
<1>7. ASSUME NEW part \in parts, Cardinality(part) > 1
      PROVE  \E outer \in parts : /\ outer # part /\ part \ outer \in parts
                                  /\ outer \subseteq part
                                  /\ JoinsBetween(qry, outer, part \ outer) # {}
  <2>1. CASE part \in as
    <3>1. PICK outer \in as : /\ outer # part /\ part \ outer \in as
                              /\ outer \subseteq part
                              /\ JoinsBetween(qry, outer, part \ outer) # {}
      BY <1>7, <2>1 DEF TreeOver
    <3> QED
      BY <3>1
  <2>2. CASE part \in bs
    <3>1. PICK outer \in bs : /\ outer # part /\ part \ outer \in bs
                              /\ outer \subseteq part
                              /\ JoinsBetween(qry, outer, part \ outer) # {}
      BY <1>7, <2>2 DEF TreeOver
    <3> QED
      BY <3>1
  <2>3. CASE part = S
    <3>1. S \ a = b /\ a # S /\ a \subseteq S
      BY <1>3
    <3> HIDE DEF S
    <3>2. a \in parts /\ b \in parts
      BY <1>1, <1>2
    <3> HIDE DEF both
    <3>3. JoinsBetween(qry, a, S \ a) # {} /\ S \ a \in parts
      BY <3>1, <3>2, Zenon
    <3> QED
      BY <2>3, <3>1, <3>2, <3>3
  <2> QED
    BY <2>1, <2>2, <2>3
<1> QED
  BY <1>4, <1>5, <1>6, <1>7 DEF TreeOver

LEMMA PathFacts ==
  ASSUME NEW qry, NEW S, NEW least, NEW path \in PathsOver(qry, S, least)
  PROVE  /\ path \in AnyPath /\ path.cost \in Nat /\ path.cost # Infinite
         /\ least # Infinite /\ least <= path.cost
         /\ Cardinality(S) > 1 => path.sort = {}
         /\ TreeOver(qry, S, path.parts)
<1>1. path \in AnyPath /\ path.cost # Infinite
  BY DEF PathsOver
<1>2. path.cost \in Nat
  BY <1>1 DEF AnyPath
<1> QED
  BY <1>1, <1>2 DEF PathsOver

LEMMA ScanPathType ==
  ASSUME IsQuery(q), NEW S \in SUBSET Tables, Cardinality(S) = 1, NEW op \in ScansOf(q, Min(S)),
         ScanPath(op, Min(S)).cost # Infinite
  PROVE  LET path == ScanPath(op, Min(S)) IN
           /\ path \in PathsOver(q, S, Regular(q, S))
           /\ path.workers > 0 => path \in PathsOver(q, S, Partial(q, S))
<1> DEFINE t == Min(S)
           path == ScanPath(op, t)
<1>1. t \in Tables
  BY OneTable
<1>2. op \in ScanOperator
  BY QueryType DEF ScansOf
<1>3. TreeOver(q, S, {{t}})
  BY TreeOfTable
<1>4. /\ Regular(q, S) # Infinite /\ Regular(q, S) <= path.cost
      /\ path.workers > 0 => Partial(q, S) # Infinite /\ Partial(q, S) <= path.cost
  <2>1. path.cost = q.cost[op][t] /\ path.workers = q.workers[t]
    BY DEF ScanPath
  <2> QED
    BY <2>1, ScanIsAChoice
<1> HIDE DEF t
<1>5. path \in AnyPath
  <2>1. q.cost[op][t] \in Cost /\ q.workers[t] \in Nat
    BY <1>1, <1>2, QueryType
  <2>2. {t} \in SUBSET Tables /\ {{t}} \in SUBSET SUBSET Tables
    BY <1>1
  <2>3. (IF op \in {"index", "index_only"} THEN {t} ELSE {}) \in SUBSET Tables
    BY <2>2
  <2> QED
    BY <1>2, <2>1, <2>2, <2>3 DEF ScanPath, AnyPath, Operator, Cost
<1>6. path.parts = {{t}} /\ path.cost # Infinite
  BY DEF ScanPath, t
<1>7. TreeOver(q, S, path.parts)
  BY <1>3, <1>6
<1>8. ~(Cardinality(S) > 1) /\ path.cost # Infinite
  BY <1>6
<1> HIDE DEF path
<1>9. \A least : least # Infinite /\ least <= path.cost => path \in PathsOver(q, S, least)
  BY <1>5, <1>7, <1>8 DEF PathsOver
<1> QED
  BY <1>4, <1>9 DEF path, t

LEMMA JoinPathType ==
  ASSUME IsQuery(q), NEW a \in SUBSET Tables, NEW b \in SUBSET Tables, a \intersect b = {},
         JoinsBetween(q, a, b) # {}, NEW m \in JoinMethod,
         NEW x, NEW y, NEW outer \in PathsOver(q, a, x), NEW inner \in PathsOver(q, b, y),
         NEW least, Price(q, m, a \union b, x, y) # Infinite =>
                      least # Infinite /\ least <= Price(q, m, a \union b, x, y),
         x \in Cost, y \in Cost, least \in Cost,
         JoinPath(m, a \union b, outer, inner).cost # Infinite
  PROVE  JoinPath(m, a \union b, outer, inner) \in PathsOver(q, a \union b, least)
<1> DEFINE S == a \union b
           path == JoinPath(m, S, outer, inner)
<1>1. S \in SUBSET Tables
  OBVIOUS
<1>2. /\ outer \in AnyPath /\ outer.cost \in Nat /\ x # Infinite /\ x <= outer.cost
      /\ TreeOver(q, a, outer.parts)
  BY PathFacts
<1>3. /\ inner \in AnyPath /\ inner.cost \in Nat /\ y # Infinite /\ y <= inner.cost
      /\ TreeOver(q, b, inner.parts)
  BY PathFacts
<1>4. TreeOver(q, S, outer.parts \union inner.parts \union {S})
  BY <1>2, <1>3, JoinOfTrees
<1>5. path.cost = Price(q, m, S, outer.cost, inner.cost)
  BY DEF JoinPath
<1>6. path.parts = outer.parts \union inner.parts \union {S}
  BY DEF JoinPath
<1>7. TreeOver(q, S, path.parts)
  BY <1>4, <1>6, Zenon
<1>8. path.sort = {} /\ path.cost # Infinite
  BY DEF JoinPath
<1> HIDE DEF S
<1>9. least # Infinite /\ least <= path.cost
  <2>1. x \in Nat /\ y \in Nat
    BY <1>2, <1>3 DEF Cost
  <2>2. << m, S >> \notin q.illegal
    BY <1>1, <1>2, <1>3, <1>5, <1>8, PriceGrows
  <2>3. Price(q, m, S, x, y) # Infinite /\ Price(q, m, S, x, y) <= Price(q, m, S, outer.cost, inner.cost)
    BY <2>1, <2>2, <1>1, <1>2, <1>3, PriceGrows
  <2>4. least # Infinite /\ least <= Price(q, m, S, x, y)
    BY <2>3 DEF S
  <2>5. Price(q, m, S, x, y) \in Cost /\ Price(q, m, S, outer.cost, inner.cost) \in Cost
    BY <2>1, <1>1, <1>2, <1>3, PriceGrows
  <2>6. Price(q, m, S, x, y) \in Nat /\ Price(q, m, S, outer.cost, inner.cost) \in Nat /\ least \in Nat
    BY <2>3, <2>4, <2>5, <1>5, <1>8 DEF Cost
  <2> QED
    BY <2>3, <2>4, <2>6, <1>5
<1>10. path \in AnyPath
  <2>1. Price(q, m, S, outer.cost, inner.cost) \in Cost
    BY <1>1, <1>2, <1>3, PriceGrows
  <2>2. outer.workers \in Nat /\ outer.parts \in SUBSET SUBSET Tables /\ inner.parts \in SUBSET SUBSET Tables
    BY <1>2, <1>3 DEF AnyPath
  <2>3. outer.parts \union inner.parts \union {S} \in SUBSET SUBSET Tables
    BY <1>1, <2>2
  <2>4. Price(q, m, S, outer.cost, inner.cost) \in Nat \union {Infinite}
    BY <2>1 DEF Cost
  <2>5. m \in Operator
    BY DEF Operator
  <2> QED
    BY <2>2, <2>3, <2>4, <2>5 DEF JoinPath, AnyPath
<1> HIDE DEF path
<1>11. path \in PathsOver(q, S, least)
  BY <1>7, <1>8, <1>9, <1>10 DEF PathsOver
<1> QED
  BY <1>11 DEF path, S

LEMMA SidesAreSplits ==
  ASSUME NEW qry, NEW a \in SUBSET Tables, NEW b \in SUBSET Tables, a \intersect b = {}, a # {}, b # {},
         JoinsTables(qry, a), JoinsTables(qry, b), JoinsBetween(qry, a, b) # {}
  PROVE  /\ a \in Splits(qry, a \union b) /\ (a \union b) \ a = b
         /\ Cardinality(a \union b) # 1
<1> DEFINE S == a \union b
<1>1. S \ a = b /\ a # S /\ a \subseteq S /\ b # S /\ b \subseteq S
  OBVIOUS
<1>2. S \in SUBSET Tables
  OBVIOUS
<1> HIDE DEF S
<1>3. a \in (SUBSET S) \ {{}, S}
  BY <1>1
<1>4. JoinsTables(qry, S \ a) /\ JoinsBetween(qry, a, S \ a) # {}
  BY <1>1, Zenon
<1>5. a \in Splits(qry, S)
  BY <1>3, <1>4 DEF Splits
<1>6. Cardinality(S) # 1
  <2>1. Cardinality(S) = 1 => \A t \in S : t = Min(S)
    BY <1>2, OneTable
  <2>2. PICK s \in a : TRUE
    OBVIOUS
  <2>3. PICK t \in b : TRUE
    OBVIOUS
  <2>4. s # t /\ s \in S /\ t \in S
    BY <2>2, <2>3, <1>1
  <2> QED
    BY <2>1, <2>4
<1> QED
  BY <1>1, <1>5, <1>6 DEF S

-------------------------------------------------------------------------------
(* Path lists that are close to an optimum. *)

\* A scan of the optimal cost has been put to the test, or a join within one percent.
Reaches(S, list, best) ==
  best # Infinite => \E c \in Nat : /\ c <= best \/ Cardinality(S) > 1
                                    /\ 100 * c <= 101 * best
                                    /\ Covers(list, 101 * c)

Keeps(old, new) == \A rank \in Nat : Covers(old, rank) => Covers(new, rank)

LEMMA ReachesIsKept ==
  ASSUME NEW S, NEW old, NEW new, Keeps(old, new), NEW best, Reaches(S, old, best)
  PROVE  Reaches(S, new, best)
<1>1. ASSUME best # Infinite
      PROVE  \E c \in Nat : /\ c <= best \/ Cardinality(S) > 1
                            /\ 100 * c <= 101 * best
                            /\ Covers(new, 101 * c)
  <2>1. PICK c \in Nat : /\ c <= best \/ Cardinality(S) > 1
                         /\ 100 * c <= 101 * best
                         /\ Covers(old, 101 * c)
    BY <1>1 DEF Reaches
  <2>2. 101 * c \in Nat
    OBVIOUS
  <2>3. Covers(new, 101 * c)
    BY <2>1, <2>2 DEF Keeps
  <2> QED
    BY <2>1, <2>3
<1> QED
  BY <1>1 DEF Reaches

LEMMA PathCosts == \A qry, S, least : \A path \in PathsOver(qry, S, least) : path.cost \in Nat
BY PathFacts

LEMMA CheapestIsNear ==
  ASSUME NEW qry, NEW S, NEW best \in Nat, best # Infinite,
         NEW list \in ListOf(PathsOver(qry, S, best)), Reaches(S, list, best)
  PROVE  /\ list.kept # {} /\ Cheapest(list) # None
         /\ Near(list.offers[Cheapest(list)].cost, best)
<1>1. PICK c \in Nat : /\ c <= best \/ Cardinality(S) > 1
                       /\ 100 * c <= 101 * best
                       /\ Covers(list, 101 * c)
  BY DEF Reaches
<1>2. PICK i \in list.kept : Rank(list.offers[i]) <= 101 * c
  BY <1>1 DEF Covers
<1> DEFINE path == list.offers[i]
           cheapest == list.offers[Cheapest(list)]
<1>3. path \in PathsOver(qry, S, best)
  BY ListFacts
<1>4. /\ Cheapest(list) \in list.kept /\ Cheapest(list) # None
      /\ cheapest.cost <= path.cost
  BY CheapestIsLeast, PathCosts, <1>2
<1>5. cheapest \in PathsOver(qry, S, best)
  BY <1>4, ListFacts
<1>6. /\ path.cost \in Nat /\ cheapest.cost \in Nat /\ best <= cheapest.cost
      /\ Cardinality(S) > 1 => path.sort = {}
  BY <1>3, <1>5, PathFacts
<1>7. Rank(path) <= 101 * c
  BY <1>2
<1> HIDE DEF path, cheapest
<1>8. 100 * path.cost <= 101 * best
  <2>1. CASE Cardinality(S) > 1
    <3>1. 101 * path.cost <= 101 * c
      BY <1>6, <1>7, <2>1 DEF Rank
    <3> QED
      BY <3>1, <1>1, <1>6
  <2>2. CASE c <= best
    <3>1. 100 * path.cost <= 101 * c
      BY <1>6, <1>7 DEF Rank
    <3> QED
      BY <3>1, <2>2, <1>6
  <2> QED
    BY <1>1, <2>1, <2>2
<1>9. 100 * cheapest.cost <= 101 * best
  BY <1>4, <1>6, <1>8
<1> QED
  BY <1>2, <1>4, <1>6, <1>9 DEF Near, cheapest

\* A list of paths over what cannot be computed is empty.
LEMMA NoPathNoCost ==
  ASSUME NEW qry, NEW S, NEW list \in ListOf(PathsOver(qry, S, Infinite))
  PROVE  list.kept = {}
<1>1. \A i \in list.kept : list.offers[i] \in PathsOver(qry, S, Infinite)
  BY ListFacts
<1>2. \A path : path \notin PathsOver(qry, S, Infinite)
  BY PathFacts
<1> QED
  BY <1>1, <1>2

LEMMA GatherPathType ==
  ASSUME IsQuery(q), NEW S \in SUBSET Tables, NEW path \in PathsOver(q, S, Partial(q, S))
  PROVE  GatherPath(path) \in PathsOver(q, S, Regular(q, S))
<1> DEFINE new == GatherPath(path)
           partial == Partial(q, S)
           regular == Regular(q, S)
<1>1. /\ path \in AnyPath /\ path.cost \in Nat /\ partial # Infinite /\ partial <= path.cost
      /\ Cardinality(S) > 1 => path.sort = {}
      /\ TreeOver(q, S, path.parts)
  BY PathFacts
<1>2. /\ regular \in Cost /\ partial \in Cost
      /\ GatherPrice(partial) # Infinite => regular # Infinite /\ regular <= GatherPrice(partial)
  BY OptimumType
<1> HIDE DEF partial, regular
<1>3. partial \in Nat
  BY <1>1, <1>2 DEF Cost
<1>4. /\ GatherPrice(path.cost) \in Nat /\ GatherPrice(path.cost) # Infinite
      /\ GatherPrice(partial) \in Nat /\ GatherPrice(partial) # Infinite
      /\ GatherPrice(partial) <= GatherPrice(path.cost)
  BY <1>1, <1>3, GatherPriceGrows
<1>5. regular # Infinite /\ regular \in Nat /\ regular <= GatherPrice(path.cost)
  BY <1>2, <1>4 DEF Cost
<1>6. "gather" \in Operator /\ GatherPrice(path.cost) \in Nat \union {Infinite}
  BY <1>4 DEF Operator
<1>7. new \in AnyPath
  BY <1>1, <1>6 DEF GatherPath, AnyPath
<1>8. new.sort = path.sort /\ new.cost = GatherPrice(path.cost) /\ new.parts = path.parts
  BY <1>1 DEF GatherPath, AnyPath
<1> HIDE DEF new
<1>10. TreeOver(q, S, new.parts)
  BY <1>1, <1>8
<1>11. new \in PathsOver(q, S, regular)
  BY <1>1, <1>4, <1>5, <1>7, <1>8, <1>10 DEF PathsOver
<1> QED
  BY <1>11 DEF new, regular

\* Gathering the partial paths makes up for a regular path that is best gathered.
LEMMA GatheredReaches ==
  ASSUME IsQuery(q), NEW S \in SUBSET Tables, NEW rel \in RelOf(q, S),
         Reaches(S, rel.partial_paths, Partial(q, S))
  PROVE  LET gathered == GatheredUpTo(rel)[Len(rel.partial_paths.offers)] IN
           /\ gathered \in ListOf(PathsOver(q, S, Regular(q, S)))
           /\ Keeps(rel.pathlist, gathered)
           /\ Reaches(S, gathered, GatherPrice(Partial(q, S)))
<1> DEFINE gathered == GatheredUpTo(rel)[Len(rel.partial_paths.offers)]
           list == rel.partial_paths
           best == Partial(q, S)
           P == PathsOver(q, S, Regular(q, S))
           R == PathsOver(q, S, Partial(q, S))
<1>1. rel.pathlist \in ListOf(P) /\ list \in ListOf(R)
  BY DEF RelOf
<1>2. \A p \in P : p.cost \in Nat
  BY PathCosts
<1>3. \A path \in R : GatherPath(path) \in P
  BY GatherPathType
<1>4. \A path \in R : GatherPath(path).cost # Infinite
  BY <1>3, PathFacts
<1>5. best \in Cost
  BY OptimumType
<1> HIDE DEF P, R
<1>6. /\ gathered \in ListOf(P)
      /\ \A rank \in Nat : Covers(rel.pathlist, rank) => Covers(gathered, rank)
      /\ \A i \in list.kept : GatherPath(list.offers[i]).cost # Infinite =>
           Covers(gathered, Rank(GatherPath(list.offers[i])))
  BY <1>1, <1>2, <1>3, GatherCovers
<1> HIDE DEF gathered
<1>7. ASSUME GatherPrice(best) # Infinite
      PROVE  \E c \in Nat : /\ c <= GatherPrice(best) \/ Cardinality(S) > 1
                            /\ 100 * c <= 101 * GatherPrice(best)
                            /\ Covers(gathered, 101 * c)
  <2>1. best # Infinite /\ best \in Nat
    BY <1>5, <1>7, GatherPriceGrows DEF Cost
  <2>2. PICK c \in Nat : /\ c <= best \/ Cardinality(S) > 1
                         /\ 100 * c <= 101 * best
                         /\ Covers(list, 101 * c)
    BY <2>1 DEF Reaches
  <2>3. PICK i \in list.kept : Rank(list.offers[i]) <= 101 * c
    BY <2>2 DEF Covers
  <2> DEFINE path == list.offers[i]
  <2>4. path \in R
    BY <1>1, ListFacts
  <2>5. path.cost \in Nat
    BY <2>4, PathCosts DEF R
  <2>6. Covers(gathered, Rank(GatherPath(path)))
    BY <1>4, <1>6, <2>4
  <2>7. GatherPath(path).sort = path.sort /\ GatherPath(path).cost = GatherPrice(path.cost)
    <3>1. path \in AnyPath
      BY <2>4, PathFacts DEF R
    <3> HIDE DEF path
    <3> QED
      BY <3>1 DEF GatherPath, AnyPath
  <2>8. Rank(path) <= 101 * c
    BY <2>3
  <2> HIDE DEF path
  <2>9. Rank(GatherPath(path)) \in Nat /\ Rank(GatherPath(path)) <= 101 * GatherPrice(c)
    <3>1. GatherPrice(c) \in Nat /\ GatherPrice(path.cost) \in Nat
      BY <2>5, GatherPriceGrows
    <3>2. CASE path.sort = {}
      <4>1. path.cost <= c
        BY <2>5, <2>8, <3>2 DEF Rank
      <4>2. GatherPrice(path.cost) <= GatherPrice(c)
        BY <2>5, <4>1, GatherPriceGrows
      <4> QED
        BY <2>7, <3>1, <3>2, <4>2 DEF Rank
    <3>3. CASE path.sort # {}
      <4>1. 100 * path.cost <= 101 * c
        BY <2>5, <2>8, <3>3 DEF Rank
      <4>2. 100 * GatherPrice(path.cost) <= 101 * GatherPrice(c)
        BY <2>5, <4>1, GatherPriceGrows
      <4> QED
        BY <2>7, <3>1, <3>3, <4>2 DEF Rank
    <3> QED
      BY <3>2, <3>3
  <2>10. GatherPrice(c) \in Nat
    BY GatherPriceGrows
  <2>11. Covers(gathered, 101 * GatherPrice(c))
    <3>1. PICK j \in gathered.kept : Rank(gathered.offers[j]) <= Rank(GatherPath(path))
      BY <2>6 DEF Covers
    <3>2. gathered.offers[j] \in P
      BY <1>6, ListFacts
    <3>3. gathered.offers[j].cost \in Nat
      BY <1>2, <3>2
    <3>4. Rank(gathered.offers[j]) \in Nat
      BY <3>3 DEF Rank
    <3>5. Rank(gathered.offers[j]) <= 101 * GatherPrice(c)
      BY <2>9, <2>10, <3>1, <3>4
    <3> QED
      BY <3>5 DEF Covers
  <2>12. /\ c <= best => GatherPrice(c) <= GatherPrice(best)
         /\ 100 * GatherPrice(c) <= 101 * GatherPrice(best)
    BY <2>1, <2>2, GatherPriceGrows
  <2> QED
    BY <2>2, <2>10, <2>11, <2>12
<1>8. Reaches(S, gathered, GatherPrice(best))
  BY <1>7 DEF Reaches
<1> QED
  BY <1>6, <1>8 DEF gathered, P, Keeps

Completed(rel) == WithCheapest(GenerateGatherPaths(rel))

\* What Complete leaves behind.
LEMMA CompletedRel ==
  ASSUME IsQuery(q), NEW S \in SUBSET Tables, NEW rel \in RelOf(q, S),
         Reaches(S, rel.partial_paths, Partial(q, S)),
         Regular(q, S) # GatherPrice(Partial(q, S)) => Reaches(S, rel.pathlist, Regular(q, S))
  PROVE  /\ Completed(rel) \in RelOf(q, S)
         /\ Keeps(rel.pathlist, Completed(rel).pathlist)
         /\ Completed(rel).partial_paths = rel.partial_paths
         /\ Completed(rel).pathlist = GenerateGatherPaths(rel).pathlist
         /\ Completed(rel).pathlist.kept = {} => Regular(q, S) = Infinite
         /\ Completed(rel).pathlist.kept # {} => Closed(q, S, Completed(rel))
<1> DEFINE gathered == GatheredUpTo(rel)[Len(rel.partial_paths.offers)]
           partial == rel.partial_paths
           regularBest == Regular(q, S)
           partialBest == Partial(q, S)
           done == Completed(rel)
<1>1. /\ gathered \in ListOf(PathsOver(q, S, regularBest))
      /\ Keeps(rel.pathlist, gathered)
      /\ Reaches(S, gathered, GatherPrice(partialBest))
  BY GatheredReaches
<1>2. partial \in ListOf(PathsOver(q, S, partialBest))
  BY DEF RelOf
<1>3. Reaches(S, gathered, regularBest)
  BY <1>1, ReachesIsKept
<1>4. regularBest \in Cost /\ partialBest \in Cost
  BY OptimumType
<1>5. /\ done.pathlist = gathered /\ done.partial_paths = partial
      /\ done.cheapest_path = Cheapest(gathered) /\ done.cheapest_partial_path = Cheapest(partial)
      /\ GenerateGatherPaths(rel).pathlist = gathered
  BY DEF Completed, WithCheapest, GenerateGatherPaths, RelOf
<1> HIDE DEF gathered, partial, regularBest, partialBest, done
<1>6. \A qry, T, best : \A list \in ListOf(PathsOver(qry, T, best)) :
        Cheapest(list) \in Nat /\ (list.kept = {} => Cheapest(list) = None)
  <2>1. SUFFICES ASSUME NEW qry, NEW T, NEW best, NEW list \in ListOf(PathsOver(qry, T, best))
                 PROVE  Cheapest(list) \in Nat /\ (list.kept = {} => Cheapest(list) = None)
    OBVIOUS
  <2>2. CASE list.kept = {}
    BY <2>2 DEF Cheapest, None
  <2>3. CASE list.kept # {}
    <3>1. Cheapest(list) \in list.kept
      BY <2>3, CheapestIsLeast, PathCosts
    <3>2. list.kept \subseteq Nat
      BY ListFacts
    <3> QED
      BY <2>3, <3>1, <3>2
  <2> QED
    BY <2>2, <2>3
<1>7. done \in RelOf(q, S)
  <2>1. gathered \in ListOf(PathsOver(q, S, Regular(q, S)))
    BY <1>1 DEF regularBest
  <2>2. Cheapest(gathered) \in Nat /\ Cheapest(partial) \in Nat
    BY <1>1, <1>2, <1>6
  <2>3. done = [[rel EXCEPT !.pathlist = gathered]
                  EXCEPT !.cheapest_path = Cheapest(gathered), !.cheapest_partial_path = Cheapest(partial)]
    BY DEF done, Completed, WithCheapest, GenerateGatherPaths, gathered, partial, RelOf
  <2>4. [rel EXCEPT !.pathlist = gathered] \in RelOf(q, S)
    BY <2>1 DEF RelOf
  <2> QED
    BY <2>2, <2>3, <2>4 DEF RelOf
<1>8. ASSUME gathered.kept = {} PROVE regularBest = Infinite
  <2>1. ASSUME regularBest # Infinite PROVE FALSE
    <3>1. regularBest \in Nat
      BY <1>4, <2>1 DEF Cost
    <3> QED
      BY <1>1, <1>3, <1>8, <2>1, <3>1, CheapestIsNear
  <2> QED
    BY <2>1
<1>9. ASSUME gathered.kept # {} PROVE Closed(q, S, done)
  <2>1. regularBest # Infinite
    BY <1>1, <1>9, NoPathNoCost
  <2>2. regularBest \in Nat
    BY <1>4, <2>1 DEF Cost
  <2>3. Cheapest(gathered) # None /\ Near(gathered.offers[Cheapest(gathered)].cost, regularBest)
    BY <1>1, <1>3, <2>1, <2>2, CheapestIsNear
  <2>4. CASE partialBest = Infinite
    <3>1. Cheapest(partial) = None
      BY <1>2, <1>6, <2>4, NoPathNoCost
    <3> QED
      BY <1>5, <2>3, <2>4, <3>1 DEF Closed, CheapestOf, regularBest, partialBest
  <2>5. CASE partialBest # Infinite
    <3>1. partialBest \in Nat
      BY <1>4, <2>5 DEF Cost
    <3>2. Reaches(S, partial, partialBest)
      BY DEF partial, partialBest
    <3>3. Cheapest(partial) # None /\ Near(partial.offers[Cheapest(partial)].cost, partialBest)
      BY <1>2, <2>5, <3>1, <3>2, CheapestIsNear
    <3> QED
      BY <1>5, <2>3, <3>3 DEF Closed, CheapestOf, CheapestPartialOf, regularBest, partialBest
  <2> QED
    BY <2>4, <2>5
<1> QED
  BY <1>1, <1>5, <1>7, <1>8, <1>9 DEF partial, regularBest, done

-------------------------------------------------------------------------------
(* Offering paths to a relation. *)

KeepsAll(old, new) == Keeps(old.pathlist, new.pathlist) /\ Keeps(old.partial_paths, new.partial_paths)

LEMMA KeepingIsAnOrder ==
  /\ \A rel : KeepsAll(rel, rel)
  /\ \A rel1, rel2, rel3 : KeepsAll(rel1, rel2) /\ KeepsAll(rel2, rel3) => KeepsAll(rel1, rel3)
BY DEF KeepsAll, Keeps

LEMMA NewRelType == ASSUME NEW qry, NEW S PROVE NewRel \in RelOf(qry, S)
<1>1. \A P : EmptyList \in ListOf(P)
  BY EmptyListType
<1> QED
  BY <1>1 DEF NewRel, RelOf, None

LEMMA OfferRegular ==
  ASSUME NEW qry, NEW S, NEW rel \in RelOf(qry, S),
         NEW path, path.cost # Infinite => path \in PathsOver(qry, S, Regular(qry, S))
  PROVE  LET new == [rel EXCEPT !.pathlist = AddPath(@, path)] IN
           /\ new \in RelOf(qry, S) /\ KeepsAll(rel, new)
           /\ path.cost # Infinite => Covers(new.pathlist, Rank(path))
<1> DEFINE P == PathsOver(qry, S, Regular(qry, S))
           new == [rel EXCEPT !.pathlist = AddPath(@, path)]
           list == rel.pathlist
<1>1. list \in ListOf(P) /\ \A p \in P : p.cost \in Nat
  BY PathCosts DEF RelOf
<1>2. new.pathlist = AddPath(list, path) /\ new.partial_paths = rel.partial_paths
  BY DEF RelOf
<1> HIDE DEF list
<1>3. AddPath(list, path) \in ListOf(P)
  <2> HIDE DEF P
  <2> QED
    BY <1>1, AddPathType DEF P
<1>4. new \in RelOf(qry, S)
  BY <1>3 DEF RelOf, list
<1> HIDE DEF new
<1>5. /\ path.cost # Infinite => Covers(AddPath(list, path), Rank(path))
      /\ \A rank \in Nat : Covers(list, rank) => Covers(AddPath(list, path), rank)
  <2>1. path.cost # Infinite => path \in P
    OBVIOUS
  <2> HIDE DEF P
  <2> QED
    BY <1>1, <2>1, AddPathCovers
<1>6. Keeps(rel.pathlist, new.pathlist) /\ Keeps(rel.partial_paths, new.partial_paths)
  BY <1>2, <1>5 DEF Keeps, list
<1> QED
  BY <1>2, <1>4, <1>5, <1>6 DEF KeepsAll, new

LEMMA OfferPartial ==
  ASSUME NEW qry, NEW S, NEW rel \in RelOf(qry, S),
         NEW path, path.cost # Infinite => path \in PathsOver(qry, S, Partial(qry, S))
  PROVE  LET new == [rel EXCEPT !.partial_paths = AddPath(@, path)] IN
           /\ new \in RelOf(qry, S) /\ KeepsAll(rel, new)
           /\ path.cost # Infinite => Covers(new.partial_paths, Rank(path))
<1> DEFINE P == PathsOver(qry, S, Partial(qry, S))
           new == [rel EXCEPT !.partial_paths = AddPath(@, path)]
           list == rel.partial_paths
<1>1. list \in ListOf(P) /\ \A p \in P : p.cost \in Nat
  BY PathCosts DEF RelOf
<1>2. new.partial_paths = AddPath(list, path) /\ new.pathlist = rel.pathlist
  BY DEF RelOf
<1> HIDE DEF list
<1>3. AddPath(list, path) \in ListOf(P)
  <2> HIDE DEF P
  <2> QED
    BY <1>1, AddPathType DEF P
<1>4. new \in RelOf(qry, S)
  BY <1>3 DEF RelOf, list
<1> HIDE DEF new
<1>5. /\ path.cost # Infinite => Covers(AddPath(list, path), Rank(path))
      /\ \A rank \in Nat : Covers(list, rank) => Covers(AddPath(list, path), rank)
  <2>1. path.cost # Infinite => path \in P
    OBVIOUS
  <2> HIDE DEF P
  <2> QED
    BY <1>1, <2>1, AddPathCovers
<1>6. Keeps(rel.pathlist, new.pathlist) /\ Keeps(rel.partial_paths, new.partial_paths)
  BY <1>2, <1>5 DEF Keeps, list
<1> QED
  BY <1>2, <1>4, <1>5, <1>6 DEF KeepsAll, new

\* A scan of the table has been put to the test if it is legal.
ScanTried(S, rel, op) ==
  LET cost == q.cost[op][Min(S)] IN
  op \in ScansOf(q, Min(S)) /\ cost # Infinite =>
    /\ Covers(rel.pathlist, 101 * cost)
    /\ q.workers[Min(S)] > 0 => Covers(rel.partial_paths, 101 * cost)

LEMMA ScanStaysTried ==
  ASSUME IsQuery(q), NEW S \in SUBSET Tables, Cardinality(S) = 1, NEW op,
         NEW old, NEW new, KeepsAll(old, new), ScanTried(S, old, op)
  PROVE  ScanTried(S, new, op)
<1> DEFINE cost == q.cost[op][Min(S)]
<1>1. ASSUME op \in ScansOf(q, Min(S)), cost # Infinite
      PROVE  /\ Covers(new.pathlist, 101 * cost)
             /\ q.workers[Min(S)] > 0 => Covers(new.partial_paths, 101 * cost)
  <2>1. op \in ScanOperator /\ Min(S) \in Tables
    BY <1>1, OneTable, QueryType DEF ScansOf
  <2>2. cost \in Cost
    BY <2>1, QueryType
  <2>3. /\ Covers(old.pathlist, 101 * cost)
        /\ q.workers[Min(S)] > 0 => Covers(old.partial_paths, 101 * cost)
    BY <1>1 DEF ScanTried
  <2> HIDE DEF cost
  <2>4. 101 * cost \in Nat
    BY <1>1, <2>2 DEF Cost
  <2> QED
    BY <2>3, <2>4 DEF KeepsAll, Keeps
<1> QED
  BY <1>1 DEF ScanTried

LEMMA CoversMore ==
  ASSUME NEW qry, NEW S, NEW least, NEW list \in ListOf(PathsOver(qry, S, least)),
         NEW low \in Nat, NEW high \in Nat, low <= high, Covers(list, low)
  PROVE  Covers(list, high)
<1>1. PICK i \in list.kept : Rank(list.offers[i]) <= low
  BY DEF Covers
<1>2. list.offers[i].cost \in Nat
  BY ListFacts, PathCosts
<1>3. Rank(list.offers[i]) \in Nat
  BY <1>2 DEF Rank
<1>4. Rank(list.offers[i]) <= high
  BY <1>1, <1>3
<1> QED
  BY <1>4 DEF Covers

LEMMA AddScanOfTries ==
  ASSUME IsQuery(q), NEW S \in SUBSET Tables, Cardinality(S) = 1, NEW op,
         NEW rel \in RelOf(q, S)
  PROVE  LET new == AddScanOf(rel, op, Min(S)) IN
           new \in RelOf(q, S) /\ KeepsAll(rel, new) /\ ScanTried(S, new, op)
<1> DEFINE t == Min(S)
           path == ScanPath(op, t)
           new == AddScanOf(rel, op, t)
<1>1. CASE op \notin ScansOf(q, t)
  <2>1. new = rel
    BY <1>1 DEF AddScanOf
  <2> QED
    BY <1>1, <2>1, KeepingIsAnOrder DEF ScanTried
<1>2. CASE op \in ScansOf(q, t)
  <2> DEFINE first == [rel EXCEPT !.pathlist = AddPath(@, path)]
             second == [first EXCEPT !.partial_paths = AddPath(@, path)]
  <2>1. op \in ScanOperator /\ t \in Tables
    BY <1>2, OneTable, QueryType DEF ScansOf
  <2>2. path.cost = q.cost[op][t] /\ path.workers = q.workers[t] /\ path.cost \in Cost /\ path.workers \in Nat
    BY <2>1, QueryType DEF ScanPath
  <2>3. path.cost # Infinite => /\ path \in PathsOver(q, S, Regular(q, S))
                                /\ path.workers > 0 => path \in PathsOver(q, S, Partial(q, S))
    BY <1>2, ScanPathType
  <2>4. new = IF path.workers > 0 THEN second ELSE first
    BY <1>2 DEF AddScanOf, AddScan, RelOf
  <2> HIDE DEF t, path, new
  <2>5. /\ first \in RelOf(q, S) /\ KeepsAll(rel, first)
        /\ path.cost # Infinite => Covers(first.pathlist, Rank(path))
    BY <2>3, OfferRegular
  <2> HIDE DEF first
  <2>6. path.workers > 0 =>
          /\ second \in RelOf(q, S) /\ KeepsAll(first, second)
          /\ path.cost # Infinite => Covers(second.partial_paths, Rank(path))
    BY <2>3, <2>5, OfferPartial
  <2> HIDE DEF second
  <2>7. new \in RelOf(q, S) /\ KeepsAll(rel, new) /\ KeepsAll(first, new)
    BY <2>4, <2>5, <2>6, KeepingIsAnOrder
  <2>8. ASSUME path.cost # Infinite
        PROVE  /\ Covers(new.pathlist, 101 * path.cost)
               /\ path.workers > 0 => Covers(new.partial_paths, 101 * path.cost)
    <3>1. path.cost \in Nat
      BY <2>2, <2>8 DEF Cost
    <3>2. Rank(path) \in Nat /\ Rank(path) <= 101 * path.cost /\ 101 * path.cost \in Nat
      BY <3>1 DEF Rank
    <3>3. Covers(new.pathlist, Rank(path))
      BY <2>5, <2>7, <2>8, <3>2 DEF KeepsAll, Keeps
    <3>4. path.workers > 0 => Covers(new.partial_paths, Rank(path))
      BY <2>4, <2>6, <2>8
    <3>5. new.pathlist \in ListOf(PathsOver(q, S, Regular(q, S))) /\ new.partial_paths \in ListOf(PathsOver(q, S, Partial(q, S)))
      BY <2>7 DEF RelOf
    <3> QED
      BY <3>2, <3>3, <3>4, <3>5, CoversMore
  <2>9. ScanTried(S, new, op)
    BY <2>2, <2>8 DEF ScanTried, t
  <2> QED
    BY <2>7, <2>9 DEF new, t
<1> QED
  BY <1>1, <1>2

\* The base relation of a table is ready to be completed.
LEMMA BasePaths ==
  ASSUME IsQuery(q), NEW S \in SUBSET Tables, Cardinality(S) = 1
  PROVE  LET rel == AddBasePaths(NewRel, Min(S)) IN
           /\ rel \in RelOf(q, S)
           /\ Reaches(S, rel.partial_paths, Partial(q, S))
           /\ Regular(q, S) # GatherPrice(Partial(q, S)) => Reaches(S, rel.pathlist, Regular(q, S))
<1> DEFINE t == Min(S)
           seq == AddScanOf(NewRel, "seq", t)
           index == AddScanOf(seq, "index", t)
           index_only == AddScanOf(index, "index_only", t)
           rel == AddScanOf(index_only, "bitmap", t)
<1>1. AddBasePaths(NewRel, t) = rel
  BY DEF AddBasePaths
<1>2. seq \in RelOf(q, S) /\ ScanTried(S, seq, "seq")
  BY NewRelType, AddScanOfTries
<1> HIDE DEF seq
<1>3. index \in RelOf(q, S) /\ KeepsAll(seq, index) /\ ScanTried(S, index, "index")
  BY <1>2, AddScanOfTries
<1> HIDE DEF index
<1>4. index_only \in RelOf(q, S) /\ KeepsAll(index, index_only) /\ ScanTried(S, index_only, "index_only")
  BY <1>3, AddScanOfTries
<1> HIDE DEF index_only
<1>5. rel \in RelOf(q, S) /\ KeepsAll(index_only, rel) /\ ScanTried(S, rel, "bitmap")
  BY <1>4, AddScanOfTries
<1> HIDE DEF rel
<1>6. KeepsAll(index, rel) /\ KeepsAll(seq, rel)
  BY <1>3, <1>4, <1>5, KeepingIsAnOrder
<1>7. \A op \in ScanOperator : ScanTried(S, rel, op)
  BY <1>2, <1>3, <1>4, <1>5, <1>6, ScanStaysTried DEF ScanOperator
<1>8. ScansOf(q, t) \subseteq ScanOperator
  BY QueryType DEF ScansOf
<1>9. t \in Tables
  BY OneTable
<1>10. Reaches(S, rel.partial_paths, Partial(q, S))
  <2>1. ASSUME Partial(q, S) # Infinite
        PROVE  \E c \in Nat : /\ c <= Partial(q, S) \/ Cardinality(S) > 1
                              /\ 100 * c <= 101 * Partial(q, S)
                              /\ Covers(rel.partial_paths, 101 * c)
    <3>1. PICK op \in ScansOf(q, t) : Partial(q, S) = q.cost[op][t] /\ q.workers[t] > 0
      BY <2>1, BestOfTable
    <3>2. Partial(q, S) \in Nat
      BY <2>1, OptimumType DEF Cost
    <3>3. Covers(rel.partial_paths, 101 * Partial(q, S))
      BY <1>7, <1>8, <2>1, <3>1 DEF ScanTried
    <3> QED
      BY <3>2, <3>3
  <2> QED
    BY <2>1 DEF Reaches
<1>11. ASSUME Regular(q, S) # GatherPrice(Partial(q, S)) PROVE Reaches(S, rel.pathlist, Regular(q, S))
  <2>1. ASSUME Regular(q, S) # Infinite
        PROVE  \E c \in Nat : /\ c <= Regular(q, S) \/ Cardinality(S) > 1
                              /\ 100 * c <= 101 * Regular(q, S)
                              /\ Covers(rel.pathlist, 101 * c)
    <3>1. PICK op \in ScansOf(q, t) : Regular(q, S) = q.cost[op][t]
      BY <1>11, <2>1, BestOfTable
    <3>2. Regular(q, S) \in Nat
      BY <2>1, OptimumType DEF Cost
    <3>3. Covers(rel.pathlist, 101 * Regular(q, S))
      BY <1>7, <1>8, <2>1, <3>1 DEF ScanTried
    <3> QED
      BY <3>2, <3>3
  <2> QED
    BY <2>1 DEF Reaches
<1> QED
  BY <1>1, <1>5, <1>10, <1>11

-------------------------------------------------------------------------------
(* Joining two relations. *)

\* Two relations that are ready to be joined.
JoinInputs(a, b, outer, inner) ==
  /\ IsQuery(q) /\ a \in SUBSET Tables /\ b \in SUBSET Tables /\ a \intersect b = {}
  /\ a # {} /\ b # {} /\ JoinsTables(q, a) /\ JoinsTables(q, b) /\ JoinsBetween(q, a, b) # {}
  /\ outer \in RelOf(q, a) /\ inner \in RelOf(q, b)
  /\ Closed(q, a, outer) /\ Closed(q, b, inner)

JoinedCost(m, S, outer, inner) == Price(q, m, S, CheapestOf(outer).cost, CheapestOf(inner).cost)
PartialJoinedCost(m, S, outer, inner) == Price(q, m, S, CheapestPartialOf(outer).cost, CheapestOf(inner).cost)

LEMMA CheapestPaths ==
  ASSUME NEW qry, NEW S, NEW rel \in RelOf(qry, S), Closed(qry, S, rel)
  PROVE  /\ CheapestOf(rel) \in PathsOver(qry, S, Regular(qry, S))
         /\ rel.cheapest_partial_path # None => CheapestPartialOf(rel) \in PathsOver(qry, S, Partial(qry, S))
<1>1. \A least : \A list \in ListOf(PathsOver(qry, S, least)) :
        Cheapest(list) # None => list.offers[Cheapest(list)] \in PathsOver(qry, S, least)
  <2>1. SUFFICES ASSUME NEW least, NEW list \in ListOf(PathsOver(qry, S, least)), Cheapest(list) # None
                 PROVE  list.offers[Cheapest(list)] \in PathsOver(qry, S, least)
    OBVIOUS
  <2>2. list.kept # {}
    BY <2>1 DEF Cheapest
  <2>3. Cheapest(list) \in list.kept
    BY <2>2, CheapestIsLeast, PathCosts
  <2> QED
    BY <2>3, ListFacts
<1>2. /\ rel.pathlist \in ListOf(PathsOver(qry, S, Regular(qry, S)))
      /\ rel.partial_paths \in ListOf(PathsOver(qry, S, Partial(qry, S)))
  BY DEF RelOf
<1>3. /\ rel.cheapest_path = Cheapest(rel.pathlist) /\ rel.cheapest_path # None
      /\ rel.cheapest_partial_path = Cheapest(rel.partial_paths)
  BY DEF Closed
<1> QED
  BY <1>1, <1>2, <1>3 DEF CheapestOf, CheapestPartialOf

LEMMA JoinTypes ==
  ASSUME NEW a, NEW b, NEW outer, NEW inner, JoinInputs(a, b, outer, inner), NEW m \in Methods(q), m # "merge"
  PROVE  LET regular == JoinPath(m, a \union b, CheapestOf(outer), CheapestOf(inner))
             partial == JoinPath(m, a \union b, CheapestPartialOf(outer), CheapestOf(inner))
         IN
           /\ regular.cost # Infinite => regular \in PathsOver(q, a \union b, Regular(q, a \union b))
           /\ m # "mat" /\ outer.cheapest_partial_path # None /\ partial.cost # Infinite =>
                partial \in PathsOver(q, a \union b, Partial(q, a \union b))
<1> DEFINE S == a \union b
<1>1. /\ IsQuery(q) /\ a \in SUBSET Tables /\ b \in SUBSET Tables /\ a \intersect b = {}
      /\ a # {} /\ b # {} /\ JoinsTables(q, a) /\ JoinsTables(q, b) /\ JoinsBetween(q, a, b) # {}
  BY DEF JoinInputs
<1>2. /\ CheapestOf(outer) \in PathsOver(q, a, Regular(q, a))
      /\ outer.cheapest_partial_path # None => CheapestPartialOf(outer) \in PathsOver(q, a, Partial(q, a))
      /\ CheapestOf(inner) \in PathsOver(q, b, Regular(q, b))
  BY CheapestPaths DEF JoinInputs
<1>3. S \in SUBSET Tables /\ a \in Splits(q, S) /\ S \ a = b /\ Cardinality(S) # 1
  BY <1>1, SidesAreSplits
<1>4. /\ Regular(q, S) \in Cost /\ Partial(q, S) \in Cost /\ Regular(q, a) \in Cost
      /\ Partial(q, a) \in Cost /\ Regular(q, b) \in Cost
  BY <1>1, <1>3, OptimumType
<1>5. m \in JoinMethod
  BY MethodType
<1> DEFINE regular == Price(q, m, S, Regular(q, a), Regular(q, b))
           partial == Price(q, m, S, Partial(q, a), Regular(q, b))
<1>6. /\ regular # Infinite => Regular(q, S) # Infinite /\ Regular(q, S) <= regular
      /\ m # "mat" /\ partial # Infinite => Partial(q, S) # Infinite /\ Partial(q, S) <= partial
  <2> HIDE DEF S
  <2>1. LET x == Price(q, m, S, Regular(q, a), Regular(q, S \ a))
            y == Price(q, m, S, Partial(q, a), Regular(q, S \ a))
        IN
          /\ x # Infinite => Regular(q, S) # Infinite /\ Regular(q, S) <= x
          /\ m # "mat" /\ y # Infinite => Partial(q, S) # Infinite /\ Partial(q, S) <= y
    BY <1>1, <1>3, JoinIsAChoice
  <2> QED
    BY <2>1, <1>3, Zenon
<1>7. JoinPath(m, S, CheapestOf(outer), CheapestOf(inner)).cost # Infinite =>
        JoinPath(m, S, CheapestOf(outer), CheapestOf(inner)) \in PathsOver(q, S, Regular(q, S))
  BY <1>1, <1>2, <1>4, <1>5, <1>6, JoinPathType
<1>8. ASSUME m # "mat", outer.cheapest_partial_path # None,
             JoinPath(m, S, CheapestPartialOf(outer), CheapestOf(inner)).cost # Infinite
      PROVE  JoinPath(m, S, CheapestPartialOf(outer), CheapestOf(inner)) \in PathsOver(q, S, Partial(q, S))
  BY <1>1, <1>2, <1>4, <1>5, <1>6, <1>8, JoinPathType
<1> QED
  BY <1>7, <1>8

LEMMA JoinedCostType ==
  ASSUME NEW a, NEW b, NEW outer, NEW inner, JoinInputs(a, b, outer, inner), NEW m \in Methods(q)
  PROVE  /\ JoinedCost(m, a \union b, outer, inner) \in Cost
         /\ outer.cheapest_partial_path # None => PartialJoinedCost(m, a \union b, outer, inner) \in Cost
<1>1. IsQuery(q) /\ a \union b \in SUBSET Tables
  BY DEF JoinInputs
<1>2. /\ CheapestOf(outer) \in PathsOver(q, a, Regular(q, a))
      /\ outer.cheapest_partial_path # None => CheapestPartialOf(outer) \in PathsOver(q, a, Partial(q, a))
      /\ CheapestOf(inner) \in PathsOver(q, b, Regular(q, b))
  BY CheapestPaths DEF JoinInputs
<1>3. /\ CheapestOf(outer).cost \in Cost /\ CheapestOf(inner).cost \in Cost
      /\ outer.cheapest_partial_path # None => CheapestPartialOf(outer).cost \in Cost
  BY <1>2, PathCosts DEF Cost
<1>4. m \in JoinMethod
  BY MethodType
<1> QED
  BY <1>1, <1>3, <1>4, PriceType DEF JoinedCost, PartialJoinedCost

\* The joins by one method that have been put to the test.
RegularTried(m, S, rel, outer, inner) == CoversCost(rel.pathlist, JoinedCost(m, S, outer, inner))
PartialTried(m, S, rel, outer, inner) ==
  outer.cheapest_partial_path # None => CoversCost(rel.partial_paths, PartialJoinedCost(m, S, outer, inner))

LEMMA TriedIsByMethod ==
  ASSUME NEW S, NEW rel, NEW outer, NEW inner
  PROVE  Tried(q, S, rel, outer, inner) <=>
           \A m \in Methods(q) \ {"merge"} : /\ RegularTried(m, S, rel, outer, inner)
                                             /\ m # "mat" => PartialTried(m, S, rel, outer, inner)
BY DEF Tried, RegularTried, PartialTried, JoinedCost, PartialJoinedCost

LEMMA CoveredCostIsKept ==
  ASSUME NEW old, NEW new, Keeps(old, new), NEW cost \in Cost, CoversCost(old, cost)
  PROVE  CoversCost(new, cost)
<1>1. ASSUME cost # Infinite PROVE Covers(new, 101 * cost)
  <2>1. 101 * cost \in Nat
    BY <1>1 DEF Cost
  <2> QED
    BY <1>1, <2>1 DEF CoversCost, Keeps
<1> QED
  BY <1>1 DEF CoversCost

LEMMA JoinStaysTried ==
  ASSUME NEW a, NEW b, NEW outer, NEW inner, JoinInputs(a, b, outer, inner), NEW m \in Methods(q),
         NEW old, NEW new, KeepsAll(old, new)
  PROVE  /\ RegularTried(m, a \union b, old, outer, inner) => RegularTried(m, a \union b, new, outer, inner)
         /\ PartialTried(m, a \union b, old, outer, inner) => PartialTried(m, a \union b, new, outer, inner)
<1>1. Keeps(old.pathlist, new.pathlist) /\ Keeps(old.partial_paths, new.partial_paths)
  BY DEF KeepsAll
<1>2. /\ JoinedCost(m, a \union b, outer, inner) \in Cost
      /\ outer.cheapest_partial_path # None => PartialJoinedCost(m, a \union b, outer, inner) \in Cost
  BY JoinedCostType
<1> QED
  BY <1>1, <1>2, CoveredCostIsKept DEF RegularTried, PartialTried

LEMMA AddRegularJoinTries ==
  ASSUME NEW a, NEW b, NEW outer, NEW inner, JoinInputs(a, b, outer, inner), NEW m \in Methods(q), m # "merge",
         NEW rel \in RelOf(q, a \union b)
  PROVE  LET new == AddRegularJoin(rel, m, a \union b, outer, inner) IN
           /\ new \in RelOf(q, a \union b) /\ KeepsAll(rel, new)
           /\ RegularTried(m, a \union b, new, outer, inner)
<1> DEFINE S == a \union b
           path == JoinPath(m, S, CheapestOf(outer), CheapestOf(inner))
           new == AddRegularJoin(rel, m, S, outer, inner)
<1>1. new = [rel EXCEPT !.pathlist = AddPath(@, path)]
  BY DEF AddRegularJoin
<1>2. path.cost # Infinite => path \in PathsOver(q, S, Regular(q, S))
  BY JoinTypes
<1>3. path.cost = JoinedCost(m, S, outer, inner) /\ path.sort = {}
  BY DEF JoinPath, JoinedCost
<1> HIDE DEF S, path, new
<1>4. /\ new \in RelOf(q, S) /\ KeepsAll(rel, new)
      /\ path.cost # Infinite => Covers(new.pathlist, Rank(path))
  BY <1>1, <1>2, OfferRegular DEF S
<1>5. Rank(path) = 101 * path.cost
  BY <1>3 DEF Rank
<1>6. RegularTried(m, S, new, outer, inner)
  BY <1>3, <1>4, <1>5 DEF RegularTried, CoversCost
<1> QED
  BY <1>4, <1>6 DEF S, new

LEMMA AddPartialJoinTries ==
  ASSUME NEW a, NEW b, NEW outer, NEW inner, JoinInputs(a, b, outer, inner), NEW m \in Methods(q),
         m # "merge", m # "mat", NEW rel \in RelOf(q, a \union b)
  PROVE  LET new == AddPartialJoin(rel, m, a \union b, outer, inner) IN
           /\ new \in RelOf(q, a \union b) /\ KeepsAll(rel, new)
           /\ PartialTried(m, a \union b, new, outer, inner)
<1> DEFINE S == a \union b
           path == JoinPath(m, S, CheapestPartialOf(outer), CheapestOf(inner))
           new == AddPartialJoin(rel, m, S, outer, inner)
<1>1. CASE outer.cheapest_partial_path = None
  <2>1. new = rel
    BY <1>1 DEF AddPartialJoin
  <2> QED
    BY <1>1, <2>1, KeepingIsAnOrder DEF PartialTried
<1>2. CASE outer.cheapest_partial_path # None
  <2>1. new = [rel EXCEPT !.partial_paths = AddPath(@, path)]
    BY <1>2 DEF AddPartialJoin
  <2>2. path.cost # Infinite => path \in PathsOver(q, S, Partial(q, S))
    BY <1>2, JoinTypes
  <2>3. path.cost = PartialJoinedCost(m, S, outer, inner) /\ path.sort = {}
    BY DEF JoinPath, PartialJoinedCost
  <2> HIDE DEF S, path, new
  <2>4. /\ new \in RelOf(q, S) /\ KeepsAll(rel, new)
        /\ path.cost # Infinite => Covers(new.partial_paths, Rank(path))
    BY <2>1, <2>2, OfferPartial DEF S
  <2>5. Rank(path) = 101 * path.cost
    BY <2>3 DEF Rank
  <2>6. PartialTried(m, S, new, outer, inner)
    BY <2>3, <2>4, <2>5 DEF PartialTried, CoversCost
  <2> QED
    BY <2>4, <2>6 DEF S, new
<1> QED
  BY <1>1, <1>2

\* A relation moves on: it keeps what it covers.
Onward(S, old, new) == new \in RelOf(q, S) /\ KeepsAll(old, new)

LEMMA MatchUnsortedOuterTries ==
  ASSUME NEW a, NEW b, NEW outer, NEW inner, JoinInputs(a, b, outer, inner), "nlj" \in q.join_ops,
         NEW rel \in RelOf(q, a \union b)
  PROVE  LET new == MatchUnsortedOuter(rel, a \union b, outer, inner)
             S == a \union b
         IN
           /\ Onward(S, rel, new)
           /\ RegularTried("nlj", S, new, outer, inner) /\ PartialTried("nlj", S, new, outer, inner)
           /\ q.memoize => RegularTried("memo", S, new, outer, inner) /\ PartialTried("memo", S, new, outer, inner)
           /\ q.materialize => RegularTried("mat", S, new, outer, inner)
<1> DEFINE S == a \union b
           nlj == AddRegularJoin(rel, "nlj", S, outer, inner)
           memo == IF q.memoize THEN AddRegularJoin(nlj, "memo", S, outer, inner) ELSE nlj
           mat == IF q.materialize THEN AddRegularJoin(memo, "mat", S, outer, inner) ELSE memo
           partial == AddPartialJoin(mat, "nlj", S, outer, inner)
           new == IF q.memoize THEN AddPartialJoin(partial, "memo", S, outer, inner) ELSE partial
<1>1. MatchUnsortedOuter(rel, S, outer, inner) = new
  BY DEF MatchUnsortedOuter
<1>2. /\ "nlj" \in Methods(q)
      /\ q.memoize => "memo" \in Methods(q)
      /\ q.materialize => "mat" \in Methods(q)
  BY DEF Methods, JoinMethod, JoinOperator
<1>3. Onward(S, rel, nlj) /\ RegularTried("nlj", S, nlj, outer, inner)
  BY <1>2, AddRegularJoinTries DEF Onward
<1> HIDE DEF nlj
<1>4. Onward(S, nlj, memo) /\ (q.memoize => RegularTried("memo", S, memo, outer, inner))
  <2>1. CASE q.memoize
    BY <1>2, <1>3, <2>1, AddRegularJoinTries DEF Onward
  <2>2. CASE ~q.memoize
    BY <1>3, <2>2, KeepingIsAnOrder DEF Onward
  <2> QED
    BY <2>1, <2>2
<1> HIDE DEF memo
<1>5. Onward(S, memo, mat) /\ (q.materialize => RegularTried("mat", S, mat, outer, inner))
  <2>1. CASE q.materialize
    BY <1>2, <1>4, <2>1, AddRegularJoinTries DEF Onward
  <2>2. CASE ~q.materialize
    BY <1>4, <2>2, KeepingIsAnOrder DEF Onward
  <2> QED
    BY <2>1, <2>2
<1> HIDE DEF mat
<1>6. Onward(S, mat, partial) /\ PartialTried("nlj", S, partial, outer, inner)
  BY <1>2, <1>5, AddPartialJoinTries DEF Onward
<1> HIDE DEF partial
<1>7. Onward(S, partial, new) /\ (q.memoize => PartialTried("memo", S, new, outer, inner))
  <2>1. CASE q.memoize
    BY <1>2, <1>6, <2>1, AddPartialJoinTries DEF Onward
  <2>2. CASE ~q.memoize
    BY <1>6, <2>2, KeepingIsAnOrder DEF Onward
  <2> QED
    BY <2>1, <2>2
<1> HIDE DEF new
<1>8. /\ KeepsAll(partial, new) /\ KeepsAll(mat, new) /\ KeepsAll(memo, new) /\ KeepsAll(nlj, new)
      /\ KeepsAll(rel, new)
  BY <1>3, <1>4, <1>5, <1>6, <1>7, KeepingIsAnOrder DEF Onward
<1>9. RegularTried("nlj", S, new, outer, inner) /\ PartialTried("nlj", S, new, outer, inner)
  BY <1>2, <1>3, <1>6, <1>8, JoinStaysTried
<1>10. q.memoize => RegularTried("memo", S, new, outer, inner)
  BY <1>2, <1>4, <1>8, JoinStaysTried
<1>11. q.materialize => RegularTried("mat", S, new, outer, inner)
  BY <1>2, <1>5, <1>8, JoinStaysTried
<1> QED
  BY <1>1, <1>7, <1>8, <1>9, <1>10, <1>11 DEF Onward

LEMMA HashInnerOuterTries ==
  ASSUME NEW a, NEW b, NEW outer, NEW inner, JoinInputs(a, b, outer, inner), "hash" \in q.join_ops,
         NEW rel \in RelOf(q, a \union b)
  PROVE  LET new == HashInnerOuter(rel, a \union b, outer, inner)
             S == a \union b
         IN
           /\ Onward(S, rel, new)
           /\ RegularTried("hash", S, new, outer, inner) /\ PartialTried("hash", S, new, outer, inner)
<1> DEFINE S == a \union b
           regular == AddRegularJoin(rel, "hash", S, outer, inner)
           new == AddPartialJoin(regular, "hash", S, outer, inner)
<1>1. HashInnerOuter(rel, S, outer, inner) = new
  BY DEF HashInnerOuter
<1>2. "hash" \in Methods(q)
  BY DEF Methods, JoinMethod, JoinOperator
<1>3. Onward(S, rel, regular) /\ RegularTried("hash", S, regular, outer, inner)
  BY <1>2, AddRegularJoinTries DEF Onward
<1> HIDE DEF regular
<1>4. Onward(S, regular, new) /\ PartialTried("hash", S, new, outer, inner)
  BY <1>2, <1>3, AddPartialJoinTries DEF Onward
<1> HIDE DEF new
<1>5. RegularTried("hash", S, new, outer, inner)
  BY <1>2, <1>3, <1>4, JoinStaysTried DEF Onward
<1> QED
  BY <1>1, <1>3, <1>4, <1>5, KeepingIsAnOrder DEF Onward

\* No merge join is ever built: a join column has one partner, not two.
LEMMA SortInnerOuterDoesNothing ==
  ASSUME NEW rel, NEW S, NEW outer, NEW inner
  PROVE  SortInnerOuter(rel, S, outer, inner) = rel
BY DEF SortInnerOuter, JoinPartners

LEMMA AddPathsTries ==
  ASSUME NEW a, NEW b, NEW outer, NEW inner, JoinInputs(a, b, outer, inner),
         NEW rel \in RelOf(q, a \union b)
  PROVE  LET new == AddPathsToJoinrel(rel, a \union b, outer, inner) IN
           Onward(a \union b, rel, new) /\ Tried(q, a \union b, new, outer, inner)
<1> DEFINE S == a \union b
           nlj == IF "nlj" \in q.join_ops THEN MatchUnsortedOuter(rel, S, outer, inner) ELSE rel
           merge == IF "merge" \in q.join_ops THEN SortInnerOuter(nlj, S, outer, inner) ELSE nlj
           new == IF "hash" \in q.join_ops THEN HashInnerOuter(merge, S, outer, inner) ELSE merge
<1>1. AddPathsToJoinrel(rel, S, outer, inner) = new
  BY DEF AddPathsToJoinrel
<1>2. merge = nlj
  BY SortInnerOuterDoesNothing
<1>3. /\ Onward(S, rel, nlj)
      /\ "nlj" \in q.join_ops =>
           /\ RegularTried("nlj", S, nlj, outer, inner) /\ PartialTried("nlj", S, nlj, outer, inner)
           /\ q.memoize => RegularTried("memo", S, nlj, outer, inner) /\ PartialTried("memo", S, nlj, outer, inner)
           /\ q.materialize => RegularTried("mat", S, nlj, outer, inner)
  <2>1. CASE "nlj" \in q.join_ops
    BY <2>1, MatchUnsortedOuterTries
  <2>2. CASE "nlj" \notin q.join_ops
    BY <2>2, KeepingIsAnOrder DEF Onward
  <2> QED
    BY <2>1, <2>2
<1> HIDE DEF nlj
<1>4. /\ Onward(S, nlj, new)
      /\ "hash" \in q.join_ops => RegularTried("hash", S, new, outer, inner) /\ PartialTried("hash", S, new, outer, inner)
  <2>1. CASE "hash" \in q.join_ops
    BY <1>2, <1>3, <2>1, HashInnerOuterTries DEF Onward
  <2>2. CASE "hash" \notin q.join_ops
    BY <1>2, <1>3, <2>2, KeepingIsAnOrder DEF Onward
  <2> QED
    BY <2>1, <2>2
<1> HIDE DEF new, merge
<1>5. KeepsAll(nlj, new)
  BY <1>4 DEF Onward
<1>6. \A m \in Methods(q) : /\ m # "merge" => m \in {"nlj", "memo", "mat", "hash"}
                            /\ m \in {"nlj", "memo", "mat"} => "nlj" \in q.join_ops
                            /\ m = "hash" => "hash" \in q.join_ops
                            /\ m = "memo" => q.memoize
                            /\ m = "mat" => q.materialize
  BY DEF Methods, JoinMethod, JoinOperator
<1>7. ASSUME NEW m \in Methods(q), m # "merge"
      PROVE  RegularTried(m, S, new, outer, inner) /\ (m # "mat" => PartialTried(m, S, new, outer, inner))
  <2>1. CASE m = "hash"
    BY <1>4, <1>6, <2>1
  <2>2. CASE m \in {"nlj", "memo", "mat"}
    <3>1. RegularTried(m, S, nlj, outer, inner) /\ (m # "mat" => PartialTried(m, S, nlj, outer, inner))
      BY <1>3, <1>6, <2>2
    <3> QED
      BY <1>5, <3>1, JoinStaysTried
  <2> QED
    BY <1>6, <1>7, <2>1, <2>2
<1>8. Tried(q, S, new, outer, inner)
  BY <1>7, TriedIsByMethod
<1> QED
  BY <1>1, <1>3, <1>4, <1>8, KeepingIsAnOrder DEF Onward

LEMMA TriedIsKept ==
  ASSUME NEW a, NEW b, NEW outer, NEW inner, JoinInputs(a, b, outer, inner),
         NEW old, NEW new, KeepsAll(old, new), Tried(q, a \union b, old, outer, inner)
  PROVE  Tried(q, a \union b, new, outer, inner)
<1>1. \A m \in Methods(q) \ {"merge"} : /\ RegularTried(m, a \union b, old, outer, inner)
                                        /\ m # "mat" => PartialTried(m, a \union b, old, outer, inner)
  BY TriedIsByMethod
<1>2. \A m \in Methods(q) \ {"merge"} : /\ RegularTried(m, a \union b, new, outer, inner)
                                        /\ m # "mat" => PartialTried(m, a \union b, new, outer, inner)
  BY <1>1, JoinStaysTried
<1> QED
  BY <1>2, TriedIsByMethod

-------------------------------------------------------------------------------
(* A relation all joins of which have been put to the test is close to the optimum. *)

LEMMA JoinIsNear ==
  ASSUME NEW a, NEW b, NEW outer, NEW inner, JoinInputs(a, b, outer, inner), NEW m \in Methods(q),
         NEW S \in SUBSET Tables
  PROVE  LET regular == Price(q, m, S, Regular(q, a), Regular(q, b))
             partial == Price(q, m, S, Partial(q, a), Regular(q, b))
             c == JoinedCost(m, S, outer, inner)
             d == PartialJoinedCost(m, S, outer, inner)
         IN
           /\ regular # Infinite => c \in Nat /\ c # Infinite /\ 100 * c <= 101 * regular
           /\ partial # Infinite => /\ outer.cheapest_partial_path # None
                                    /\ d \in Nat /\ d # Infinite /\ 100 * d <= 101 * partial
<1> DEFINE x == CheapestOf(outer).cost
           y == CheapestOf(inner).cost
           z == CheapestPartialOf(outer).cost
<1>1. /\ IsQuery(q) /\ a \in SUBSET Tables /\ b \in SUBSET Tables
      /\ outer \in RelOf(q, a) /\ inner \in RelOf(q, b)
      /\ Closed(q, a, outer) /\ Closed(q, b, inner)
  BY DEF JoinInputs
<1>2. m \in JoinMethod
  BY MethodType
<1>3. /\ Regular(q, a) \in Nat /\ x \in Nat /\ 100 * x <= 101 * Regular(q, a)
      /\ Regular(q, b) \in Nat /\ y \in Nat /\ 100 * y <= 101 * Regular(q, b)
  <2>1. Near(x, Regular(q, a)) /\ Near(y, Regular(q, b))
    BY <1>1 DEF Closed
  <2>2. Regular(q, a) \in Cost /\ Regular(q, b) \in Cost
    BY <1>1, OptimumType
  <2>3. x \in Nat /\ y \in Nat
    BY <1>1, CheapestPaths, PathCosts
  <2> QED
    BY <2>1, <2>2, <2>3 DEF Near, Cost
<1>4. ASSUME Partial(q, a) # Infinite
      PROVE  /\ outer.cheapest_partial_path # None
             /\ Partial(q, a) \in Nat /\ z \in Nat /\ 100 * z <= 101 * Partial(q, a)
  <2>1. outer.cheapest_partial_path # None /\ Near(z, Partial(q, a))
    BY <1>1, <1>4 DEF Closed
  <2>2. Partial(q, a) \in Cost
    BY <1>1, OptimumType
  <2>3. z \in Nat
    BY <1>1, <2>1, CheapestPaths, PathCosts
  <2> QED
    BY <2>1, <2>2, <2>3 DEF Near, Cost
<1> HIDE DEF x, y, z
<1>5. ASSUME NEW v \in Nat, NEW w \in Nat, 100 * w <= 101 * v, Price(q, m, S, v, Regular(q, b)) # Infinite
      PROVE  LET c == Price(q, m, S, w, y) IN
               c \in Nat /\ c # Infinite /\ 100 * c <= 101 * Price(q, m, S, v, Regular(q, b))
  <2>1. << m, S >> \notin q.illegal
    BY <1>1, <1>2, <1>3, <1>5, PriceGrows
  <2>2. Price(q, m, S, w, y) \in Cost /\ Price(q, m, S, w, y) # Infinite
    BY <1>1, <1>2, <1>3, <2>1, PriceGrows
  <2>3. 100 * Price(q, m, S, w, y) <= 101 * Price(q, m, S, v, Regular(q, b))
    BY <1>1, <1>2, <1>3, <1>5, <2>1, PriceGrows
  <2> QED
    BY <2>2, <2>3 DEF Cost
<1>6. Price(q, m, S, Partial(q, a), Regular(q, b)) # Infinite => Partial(q, a) # Infinite
  BY PriceOfIllegal
<1> QED
  BY <1>3, <1>4, <1>5, <1>6 DEF JoinedCost, PartialJoinedCost, x, y, z

SplitsTried(S, rel) ==
  \A o \in Splits(q, S) : JoinInputs(o, S \ o, rels[o], rels[S \ o]) /\ Tried(q, S, rel, rels[o], rels[S \ o])

LEMMA JoinedPaths ==
  ASSUME IsQuery(q), NEW S \in SUBSET Tables, Cardinality(S) > 1, NEW rel, SplitsTried(S, rel)
  PROVE  /\ Reaches(S, rel.partial_paths, Partial(q, S))
         /\ Regular(q, S) # GatherPrice(Partial(q, S)) => Reaches(S, rel.pathlist, Regular(q, S))
<1>1. Cardinality(S) # 1
  OBVIOUS
<1>2. ASSUME Partial(q, S) # Infinite
      PROVE  \E c \in Nat : /\ c <= Partial(q, S) \/ Cardinality(S) > 1
                            /\ 100 * c <= 101 * Partial(q, S)
                            /\ Covers(rel.partial_paths, 101 * c)
  <2>1. PICK m \in Methods(q) : \E o \in Splits(q, S) :
          /\ m # "merge" /\ m # "mat"
          /\ Partial(q, S) = Price(q, m, S, Partial(q, o), Regular(q, S \ o))
    BY <1>1, <1>2, BestOfJoin
  <2>2. PICK o \in Splits(q, S) :
          /\ m # "merge" /\ m # "mat"
          /\ Partial(q, S) = Price(q, m, S, Partial(q, o), Regular(q, S \ o))
    BY <2>1
  <2> DEFINE rest == S \ o
             outer == rels[o]
             inner == rels[rest]
             c == PartialJoinedCost(m, S, outer, inner)
  <2>3. JoinInputs(o, rest, outer, inner) /\ Tried(q, S, rel, outer, inner)
    BY DEF SplitsTried
  <2>4. Partial(q, S) = Price(q, m, S, Partial(q, o), Regular(q, rest))
    BY <2>2
  <2> HIDE DEF rest, outer, inner
  <2>5. /\ outer.cheapest_partial_path # None
        /\ c \in Nat /\ c # Infinite /\ 100 * c <= 101 * Partial(q, S)
    BY <1>2, <2>3, <2>4, JoinIsNear
  <2>6. PartialTried(m, S, rel, outer, inner)
    BY <2>2, <2>3, TriedIsByMethod
  <2>7. Covers(rel.partial_paths, 101 * c)
    BY <2>5, <2>6 DEF PartialTried, CoversCost
  <2> QED
    BY <2>5, <2>7
<1>3. ASSUME Regular(q, S) # GatherPrice(Partial(q, S)), Regular(q, S) # Infinite
      PROVE  \E c \in Nat : /\ c <= Regular(q, S) \/ Cardinality(S) > 1
                            /\ 100 * c <= 101 * Regular(q, S)
                            /\ Covers(rel.pathlist, 101 * c)
  <2>1. PICK m \in Methods(q) : \E o \in Splits(q, S) :
          m # "merge" /\ Regular(q, S) = Price(q, m, S, Regular(q, o), Regular(q, S \ o))
    BY <1>1, <1>3, BestOfJoin
  <2>2. PICK o \in Splits(q, S) :
          m # "merge" /\ Regular(q, S) = Price(q, m, S, Regular(q, o), Regular(q, S \ o))
    BY <2>1
  <2> DEFINE rest == S \ o
             outer == rels[o]
             inner == rels[rest]
             c == JoinedCost(m, S, outer, inner)
  <2>3. JoinInputs(o, rest, outer, inner) /\ Tried(q, S, rel, outer, inner)
    BY DEF SplitsTried
  <2>4. Regular(q, S) = Price(q, m, S, Regular(q, o), Regular(q, rest))
    BY <2>2
  <2> HIDE DEF rest, outer, inner
  <2>5. c \in Nat /\ c # Infinite /\ 100 * c <= 101 * Regular(q, S)
    BY <1>3, <2>3, <2>4, JoinIsNear
  <2>6. RegularTried(m, S, rel, outer, inner)
    BY <2>2, <2>3, TriedIsByMethod
  <2>7. Covers(rel.pathlist, 101 * c)
    BY <2>5, <2>6 DEF RegularTried, CoversCost
  <2> QED
    BY <2>5, <2>7
<1> QED
  BY <1>2, <1>3 DEF Reaches

-------------------------------------------------------------------------------
(* The pairs of a level. *)

LEMMA JoinableIsSymmetric ==
  ASSUME NEW a, NEW b, Joinable(a, b)
  PROVE  Joinable(b, a)
<1>1. b \intersect a = {}
  BY DEF Joinable
<1> QED
  BY <1>1, JoinsAreSymmetric DEF Joinable

LEMMA RangeElements ==
  ASSUME NEW T, NEW s \in Seq(T)
  PROVE  /\ \A x \in Range(s) : x \in T /\ \E i \in 1 .. Len(s) : x = s[i]
         /\ \A i \in 1 .. Len(s) : s[i] \in Range(s)
<1>1. DOMAIN s = 1 .. Len(s)
  OBVIOUS
<1>2. \A i \in 1 .. Len(s) : s[i] \in T
  OBVIOUS
<1>3. \A x \in Range(s) : \E i \in DOMAIN s : x = s[i]
  BY Zenon DEF Range
<1>4. \A i \in DOMAIN s : s[i] \in Range(s)
  BY Zenon DEF Range
<1>5. ASSUME NEW x \in Range(s) PROVE x \in T /\ \E i \in 1 .. Len(s) : x = s[i]
  <2>1. PICK i \in DOMAIN s : x = s[i]
    BY <1>3
  <2>2. i \in 1 .. Len(s)
    BY <1>1
  <2> QED
    BY <1>2, <2>1, <2>2
<1>6. ASSUME NEW i \in 1 .. Len(s) PROVE s[i] \in Range(s)
  BY <1>1, <1>4
<1> QED
  BY <1>5, <1>6

LEMMA NothingInEmpty == \A x : x \notin Range(<< >>)
BY DEF Range

LEMMA ConcatRanges ==
  ASSUME NEW T, NEW s \in Seq(T), NEW t \in Seq(T)
  PROVE  /\ s \o t \in Seq(T)
         /\ \A x \in Range(s) : x \in Range(s \o t)
         /\ \A x \in Range(t) : x \in Range(s \o t)
<1>1. s \o t \in Seq(T) /\ Len(s \o t) = Len(s) + Len(t) /\ Len(s) \in Nat /\ Len(t) \in Nat
  OBVIOUS
<1>2. /\ \A i \in 1 .. Len(s) : (s \o t)[i] = s[i]
      /\ \A i \in 1 .. Len(t) : (s \o t)[Len(s) + i] = t[i]
  OBVIOUS
<1>3. ASSUME NEW x \in Range(s) PROVE x \in Range(s \o t)
  <2>1. PICK i \in 1 .. Len(s) : x = s[i]
    BY RangeElements
  <2>2. i \in 1 .. Len(s \o t)
    BY <1>1
  <2> QED
    BY <1>1, <1>2, <2>1, <2>2, RangeElements
<1>4. ASSUME NEW x \in Range(t) PROVE x \in Range(s \o t)
  <2>1. PICK i \in 1 .. Len(t) : x = t[i]
    BY RangeElements
  <2>2. Len(s) + i \in 1 .. Len(s \o t)
    BY <1>1
  <2> QED
    BY <1>1, <1>2, <2>1, <2>2, RangeElements
<1> QED
  BY <1>1, <1>3, <1>4

PairsFrom(first, second) == {p \in (SUBSET Tables) \X (SUBSET Tables) :
                               p[1] \in Range(first) /\ p[2] \in Range(second) /\ Joinable(p[1], p[2])}

LEMMA JoinablePairsAreAll ==
  ASSUME NEW first \in Seq(SUBSET Tables), NEW second \in Seq(SUBSET Tables)
  PROVE  /\ JoinablePairs(first, second) \in Seq(PairsFrom(first, second))
         /\ \A a \in Range(first), b \in Range(second) :
              Joinable(a, b) => << a, b >> \in Range(JoinablePairs(first, second))
<1> DEFINE T == PairsFrom(first, second)
           Pair(i, j) == IF Joinable(first[i], second[j]) THEN << << first[i], second[j] >> >> ELSE << >>
           Row(i) == [j \in DOMAIN second |-> Pair(i, j)]
           rows == [i \in DOMAIN first |-> FlattenSeq(Row(i))]
           all == FlattenSeq(rows)
<1>1. JoinablePairs(first, second) = all
  BY DEF JoinablePairs
<1>2. DOMAIN first = 1 .. Len(first) /\ DOMAIN second = 1 .. Len(second) /\ Len(first) \in Nat /\ Len(second) \in Nat
  OBVIOUS
<1>3. ASSUME NEW i \in 1 .. Len(first), NEW j \in 1 .. Len(second) PROVE Pair(i, j) \in Seq(T)
  <2>1. first[i] \in SUBSET Tables /\ second[j] \in SUBSET Tables
    OBVIOUS
  <2>2. first[i] \in Range(first) /\ second[j] \in Range(second)
    BY <1>2 DEF Range
  <2>3. Joinable(first[i], second[j]) => << first[i], second[j] >> \in T
    BY <2>1, <2>2 DEF PairsFrom
  <2> HIDE DEF T
  <2> QED
    BY <2>3
<1>4. ASSUME NEW i \in 1 .. Len(first)
      PROVE  /\ Row(i) \in Seq(Seq(T)) /\ Len(Row(i)) = Len(second)
             /\ \A j \in 1 .. Len(second) : Row(i)[j] = Pair(i, j)
  <2> HIDE DEF Pair, T
  <2>1. Row(i) \in [1 .. Len(second) -> Seq(T)]
    BY <1>2, <1>3
  <2> QED
    BY <1>2, <2>1
<1> HIDE DEF Row, Pair, T
<1>5. ASSUME NEW i \in 1 .. Len(first) PROVE FlattenSeq(Row(i)) \in Seq(T)
  BY <1>4, FlattenSeqElements
<1>6. /\ rows \in Seq(Seq(T)) /\ Len(rows) = Len(first)
      /\ \A i \in 1 .. Len(first) : rows[i] = FlattenSeq(Row(i))
  <2>1. rows \in [1 .. Len(first) -> Seq(T)]
    BY <1>2, <1>5
  <2> QED
    BY <1>2, <2>1
<1> HIDE DEF rows
<1>7. all \in Seq(T)
  BY <1>6, FlattenSeqElements
<1>8. ASSUME NEW a \in Range(first), NEW b \in Range(second), Joinable(a, b)
      PROVE  << a, b >> \in Range(all)
  <2>1. PICK i \in 1 .. Len(first) : a = first[i]
    BY RangeElements, Zenon
  <2>2. PICK j \in 1 .. Len(second) : b = second[j]
    BY RangeElements, Zenon
  <2>3. Row(i)[j] = << << a, b >> >>
    BY <1>4, <1>8, <2>1, <2>2 DEF Pair
  <2>4. Len(Row(i)[j]) = 1 /\ Row(i)[j][1] = << a, b >>
    BY <2>3
  <2>5. PICK n \in 1 .. Len(FlattenSeq(Row(i))) : FlattenSeq(Row(i))[n] = << a, b >>
    <3>1. 1 \in 1 .. Len(Row(i)[j])
      BY <2>4
    <3>2. \E n \in 1 .. Len(FlattenSeq(Row(i))) : FlattenSeq(Row(i))[n] = Row(i)[j][1]
      BY <1>4, <3>1, FlattenSeqElements
    <3> QED
      BY <2>4, <3>2
  <2>6. \E k \in 1 .. Len(all) : all[k] = rows[i][n]
    <3>1. rows[i] = FlattenSeq(Row(i))
      BY <1>6
    <3>2. n \in 1 .. Len(rows[i])
      BY <3>1
    <3> HIDE DEF all
    <3>3. \A k \in 1 .. Len(rows) : \A l \in 1 .. Len(rows[k]) : \E o \in 1 .. Len(all) : all[o] = rows[k][l]
      BY <1>6, FlattenSeqElements DEF all
    <3>4. i \in 1 .. Len(rows)
      BY <1>6
    <3> QED
      BY <3>2, <3>3, <3>4, Zenon
  <2>7. rows[i][n] = << a, b >>
    BY <1>6, <2>5
  <2> HIDE DEF all
  <2>8. PICK k \in 1 .. Len(all) : all[k] = << a, b >>
    BY <2>6, <2>7
  <2>9. all[k] \in Range(all)
    BY <1>7, RangeElements, Zenon
  <2> QED
    BY <2>8, <2>9, Zenon
<1> QED
  BY <1>1, <1>7, <1>8 DEF T

\* The joins of two smaller intermediates that make one of size k.
JoinsOfLevel(k) ==
  {p \in (SUBSET Tables) \X (SUBSET Tables) :
     \E m \in 1 .. k - 1 : p[1] \in Found(m) /\ p[2] \in Found(k - m) /\ Joinable(p[1], p[2])}

LEMMA PairsOfLevelAreAll ==
  ASSUME levels \in [1 .. N -> Seq(SUBSET Tables)], NEW k \in 2 .. N, N \in Nat
  PROVE  /\ PairsOfLevel(k) \in Seq(JoinsOfLevel(k))
         /\ \A m \in 1 .. k - 1 : \A a \in Found(m), b \in Found(k - m) :
              Joinable(a, b) => \/ << a, b >> \in Range(PairsOfLevel(k))
                                \/ << b, a >> \in Range(PairsOfLevel(k))
<1> DEFINE T == JoinsOfLevel(k)
           h == (k \div 2) - 1
           Bushy(i) == IF k - (i + 1) < 2 THEN << >> ELSE JoinablePairs(levels[i + 1], levels[k - (i + 1)])
           bushy == [i \in 1 .. h |-> Bushy(i)]
           leftdeep == JoinablePairs(levels[k - 1], levels[1])
           all == leftdeep \o FlattenSeq(bushy)
<1>1. PairsOfLevel(k) = all
  BY DEF PairsOfLevel
<1>2. k \in Nat /\ k >= 2 /\ h \in Nat /\ 2 * h + 2 <= k /\ k <= 2 * h + 3
  BY DEF h
<1> HIDE DEF h
<1>3. \A m \in 1 .. k - 1 : levels[m] \in Seq(SUBSET Tables)
  BY <1>2
<1>4. ASSUME NEW m \in 1 .. k - 1
      PROVE  /\ JoinablePairs(levels[m], levels[k - m]) \in Seq(T)
             /\ \A a \in Found(m), b \in Found(k - m) : Joinable(a, b) =>
                  << a, b >> \in Range(JoinablePairs(levels[m], levels[k - m]))
  <2> DEFINE first == levels[m]
             second == levels[k - m]
             found == JoinablePairs(first, second)
  <2>1. k - m \in 1 .. k - 1
    BY <1>2
  <2>2. first \in Seq(SUBSET Tables) /\ second \in Seq(SUBSET Tables)
    BY <1>3, <2>1
  <2>3. PairsFrom(first, second) \subseteq T
    BY DEF PairsFrom, JoinsOfLevel, Found
  <2> HIDE DEF first, second, T
  <2>4. /\ found \in Seq(PairsFrom(first, second))
        /\ \A a \in Range(first), b \in Range(second) : Joinable(a, b) => << a, b >> \in Range(found)
    BY <2>2, JoinablePairsAreAll
  <2> HIDE DEF found
  <2>5. found \in Seq(T)
    BY <2>3, <2>4
  <2> QED
    BY <2>4, <2>5 DEF Found, found, first, second
<1>5. leftdeep \in Seq(T)
  <2>1. k - 1 \in 1 .. k - 1 /\ k - (k - 1) = 1
    BY <1>2
  <2> HIDE DEF T
  <2> QED
    BY <1>4, <2>1
<1>6. \A i \in 1 .. h : /\ i + 1 \in 1 .. k - 1 /\ ~(k - (i + 1) < 2)
                       /\ Bushy(i) = JoinablePairs(levels[i + 1], levels[k - (i + 1)])
  BY <1>2
<1> HIDE DEF T, leftdeep, Bushy
<1>7. \A i \in 1 .. h : Bushy(i) \in Seq(T)
  BY <1>4, <1>6
<1>8. bushy \in Seq(Seq(T)) /\ Len(bushy) = h /\ \A i \in 1 .. h : bushy[i] = Bushy(i)
  <2>1. bushy \in [1 .. h -> Seq(T)]
    BY <1>7
  <2> QED
    BY <1>2, <2>1
<1> HIDE DEF bushy
<1>9. /\ FlattenSeq(bushy) \in Seq(T)
      /\ \A i \in 1 .. h : \A j \in 1 .. Len(bushy[i]) :
           \E n \in 1 .. Len(FlattenSeq(bushy)) : FlattenSeq(bushy)[n] = bushy[i][j]
  <2>1. /\ FlattenSeq(bushy) \in Seq(T)
        /\ \A i \in 1 .. Len(bushy) : \A j \in 1 .. Len(bushy[i]) :
             \E n \in 1 .. Len(FlattenSeq(bushy)) : FlattenSeq(bushy)[n] = bushy[i][j]
    BY <1>8, FlattenSeqElements
  <2>2. Len(bushy) = h
    BY <1>8
  <2> QED
    BY <2>1, <2>2, Zenon
<1>10. all \in Seq(T) /\ (\A x \in Range(leftdeep) : x \in Range(all))
       /\ \A x \in Range(FlattenSeq(bushy)) : x \in Range(all)
  BY <1>5, <1>9, ConcatRanges
<1> HIDE DEF all
<1>11. ASSUME NEW i \in 1 .. h, NEW x \in Range(Bushy(i)) PROVE x \in Range(all)
  <2>1. PICK j \in 1 .. Len(Bushy(i)) : x = Bushy(i)[j]
    BY <1>7, <1>11, RangeElements
  <2>2. PICK n \in 1 .. Len(FlattenSeq(bushy)) : FlattenSeq(bushy)[n] = x
    BY <1>8, <1>9, <2>1
  <2>3. FlattenSeq(bushy)[n] \in Range(FlattenSeq(bushy))
    BY <1>9, RangeElements
  <2> QED
    BY <1>10, <2>2, <2>3
<1>12. ASSUME NEW m \in 1 .. k - 1, NEW a \in Found(m), NEW b \in Found(k - m), Joinable(a, b)
       PROVE  << a, b >> \in Range(all) \/ << b, a >> \in Range(all)
  <2>1. /\ << a, b >> \in Range(JoinablePairs(levels[m], levels[k - m]))
        /\ << b, a >> \in Range(JoinablePairs(levels[k - m], levels[m]))
    <3>1. k - m \in 1 .. k - 1 /\ k - (k - m) = m
      BY <1>2
    <3>2. Joinable(b, a)
      BY <1>12, JoinableIsSymmetric
    <3> QED
      BY <1>4, <1>12, <3>1, <3>2
  <2>2. CASE m = k - 1
    <3>1. k - m = 1
      BY <1>2, <2>2
    <3> QED
      BY <1>10, <2>1, <2>2, <3>1 DEF leftdeep
  <2>3. CASE m = 1
    BY <1>10, <2>1, <2>3 DEF leftdeep
  <2>4. CASE m - 1 \in 1 .. h
    <3>1. Bushy(m - 1) = JoinablePairs(levels[m], levels[k - m])
      <4>1. (m - 1) + 1 = m
        OBVIOUS
      <4> QED
        BY <1>6, <2>4, <4>1
    <3> QED
      BY <1>11, <2>1, <2>4, <3>1
  <2>5. CASE k - m - 1 \in 1 .. h
    <3>1. Bushy(k - m - 1) = JoinablePairs(levels[k - m], levels[m])
      <4>1. (k - m - 1) + 1 = k - m /\ k - ((k - m - 1) + 1) = m
        BY <1>2
      <4> QED
        BY <1>6, <2>5, <4>1
    <3> QED
      BY <1>11, <2>1, <2>5, <3>1
  <2>6. m = k - 1 \/ m = 1 \/ m - 1 \in 1 .. h \/ k - m - 1 \in 1 .. h
    BY <1>2
  <2> QED
    BY <2>2, <2>3, <2>4, <2>5, <2>6
<1> QED
  BY <1>1, <1>10, <1>12 DEF T

-------------------------------------------------------------------------------
(* What the invariant says of the relations that are ready. *)

LEMMA TablesAreCounted ==
  /\ N \in Nat /\ N >= 1 /\ Tables = 1 .. N /\ Tables \in SUBSET Tables
  /\ \A S \in SUBSET Tables : Cardinality(S) = N => S = Tables
<1>1. IsFiniteSet(Tables) /\ Tables # {} /\ Tables = 1 .. N /\ N \in Nat
  BY TablesAssumption, FS_CardinalityType DEF N
<1>2. N # 0
  BY <1>1, FS_EmptySet DEF N
<1>3. ASSUME NEW S \in SUBSET Tables, Cardinality(S) = N PROVE S = Tables
  BY <1>1, <1>3, FS_Subset DEF N
<1> QED
  BY <1>1, <1>2, <1>3

LEMMA SetsOfLevel ==
  ASSUME Types, Connected, NEW k \in 1 .. N, NEW S \in Found(k)
  PROVE  S \in SUBSET Tables /\ Cardinality(S) = k /\ S # {} /\ JoinsTables(q, S)
<1>1. levels[k] \in Seq(SUBSET Tables)
  BY DEF Types
<1>2. S \in SUBSET Tables
  BY <1>1, RangeElements, Zenon DEF Found
<1>3. Cardinality(S) = k /\ JoinsTables(q, S)
  BY DEF Connected
<1>4. S # {}
  BY <1>3, FS_EmptySet
<1> QED
  BY <1>2, <1>3, <1>4

LEMMA SmallerRelsAreReady ==
  ASSUME IInv, pc \in {"join", "finish"}, NEW m \in 1 .. level - 1, NEW S \in Found(m)
  PROVE  S \in DOMAIN rels /\ rels[S] \in RelOf(q, S) /\ Closed(q, S, rels[S])
<1>1. Types /\ Connected /\ Place /\ Finished
  BY DEF IInv
<1>2. level \in 1 .. N /\ N \in Nat
  BY <1>1, TablesAreCounted DEF Types
<1>3. m \in 1 .. N /\ m # level
  BY <1>2
<1>4. Cardinality(S) = m
  BY <1>1, <1>3, SetsOfLevel
<1>5. S \notin Found(level)
  BY <1>1, <1>2, <1>3, <1>4, SetsOfLevel
<1>6. S \notin Open
  <2>1. CASE pc = "finish"
    BY <1>1, <1>5, <2>1 DEF Open, Place
  <2>2. CASE pc = "join"
    BY <1>5, <2>2 DEF Open
  <2> QED
    BY <2>1, <2>2
<1>7. S \in DOMAIN rels /\ Closed(q, S, rels[S])
  BY <1>1, <1>3, <1>6 DEF Finished
<1> QED
  BY <1>1, <1>7 DEF Types

LEMMA DisjointUnion ==
  ASSUME NEW a \in SUBSET Tables, NEW b \in SUBSET Tables, a \intersect b = {}
  PROVE  Cardinality(a \union b) = Cardinality(a) + Cardinality(b)
<1>1. /\ IsFiniteSet(a) /\ IsFiniteSet(b) /\ Cardinality(a) \in Nat /\ Cardinality(b) \in Nat
      /\ Cardinality(a \intersect b) = 0
  BY SubsetsAreFinite, FS_EmptySet
<1>2. Cardinality(a \union b) = Cardinality(a) + Cardinality(b) - Cardinality(a \intersect b)
  BY <1>1, FS_Union
<1> QED
  BY <1>1, <1>2

LEMMA PairsAreReady ==
  ASSUME IInv, pc \in {"join", "finish"}, NEW m \in 1 .. level - 1,
         NEW a \in Found(m), NEW b \in Found(level - m), Joinable(a, b)
  PROVE  /\ JoinInputs(a, b, rels[a], rels[b]) /\ JoinInputs(b, a, rels[b], rels[a])
         /\ a \union b \in SUBSET Tables /\ Cardinality(a \union b) = level
         /\ JoinsTables(q, a \union b)
<1>1. Types /\ Connected
  BY DEF IInv
<1>2. level \in 1 .. N /\ N \in Nat /\ IsQuery(q)
  BY <1>1, TablesAreCounted DEF Types
<1>3. m \in 1 .. N /\ level - m \in 1 .. N /\ level - m \in 1 .. level - 1 /\ m + (level - m) = level
  BY <1>2
<1>4. /\ a \in SUBSET Tables /\ Cardinality(a) = m /\ a # {} /\ JoinsTables(q, a)
      /\ b \in SUBSET Tables /\ Cardinality(b) = level - m /\ b # {} /\ JoinsTables(q, b)
  BY <1>1, <1>3, SetsOfLevel
<1>5. /\ rels[a] \in RelOf(q, a) /\ Closed(q, a, rels[a])
      /\ rels[b] \in RelOf(q, b) /\ Closed(q, b, rels[b])
  BY <1>3, SmallerRelsAreReady
<1>6. /\ a \intersect b = {} /\ b \intersect a = {}
      /\ JoinsBetween(q, a, b) # {} /\ JoinsBetween(q, b, a) # {}
  BY JoinableIsSymmetric DEF Joinable
<1>7. JoinInputs(a, b, rels[a], rels[b]) /\ JoinInputs(b, a, rels[b], rels[a])
  BY <1>2, <1>4, <1>5, <1>6 DEF JoinInputs
<1>8. Cardinality(a \union b) = level
  BY <1>3, <1>4, <1>6, DisjointUnion
<1>9. JoinsTables(q, a \union b)
  BY <1>4, <1>6, UnionIsConnected
<1>10. a \union b \in SUBSET Tables
  BY <1>4
<1> QED
  BY <1>7, <1>8, <1>9, <1>10

\* The two sides of a split of an intermediate of this level have been found.
LEMMA SidesAreFound ==
  ASSUME IInv, pc \in {"join", "finish"}, NEW S \in SUBSET Tables, Cardinality(S) = level,
         NEW o \in Splits(q, S)
  PROVE  \E m \in 1 .. level - 1 :
           o \in Found(m) /\ S \ o \in Found(level - m) /\ Joinable(o, S \ o) /\ o \union (S \ o) = S
<1> DEFINE rest == S \ o
<1>1. Types /\ AllFound
  BY DEF IInv
<1>2. level \in 1 .. N /\ N \in Nat
  BY <1>1, TablesAreCounted DEF Types
<1>3. /\ o \in SUBSET S /\ o \in SUBSET Tables /\ o # {} /\ o # S
      /\ rest \in SUBSET S /\ rest \in SUBSET Tables /\ rest # {} /\ rest # S
  BY SplitType
<1>4. JoinsTables(q, o) /\ JoinsTables(q, rest) /\ JoinsBetween(q, o, rest) # {}
  BY DEF Splits
<1>5. o \intersect rest = {} /\ o \union rest = S
  BY <1>3
<1>6. Cardinality(S) = Cardinality(o) + Cardinality(rest)
  <2> HIDE DEF rest
  <2>1. Cardinality(o \union rest) = Cardinality(o) + Cardinality(rest)
    BY <1>3, <1>5, DisjointUnion
  <2> QED
    BY <1>5, <2>1, Zenon
<1> HIDE DEF rest
<1>7. /\ Cardinality(o) \in Nat /\ Cardinality(rest) \in Nat
      /\ Cardinality(o) < level /\ Cardinality(rest) < level
  BY <1>3, SubsetsAreFinite, SmallerSubset
<1>8. Cardinality(o) \in 1 .. level - 1 /\ Cardinality(rest) = level - Cardinality(o)
  BY <1>2, <1>6, <1>7
<1>9. o \in Found(Cardinality(o)) /\ rest \in Found(Cardinality(rest))
  <2>1. Cardinality(o) \in 1 .. N /\ Cardinality(rest) \in 1 .. N
    BY <1>2, <1>7, <1>8
  <2> QED
    BY <1>1, <1>3, <1>4, <1>7, <2>1 DEF AllFound
<1>10. Joinable(o, rest)
  BY <1>4, <1>5 DEF Joinable
<1>11. rest \in Found(level - Cardinality(o))
  BY <1>8, <1>9
<1> QED
  BY <1>5, <1>8, <1>9, <1>10, <1>11 DEF rest

-------------------------------------------------------------------------------
(* The steps. *)

\* A finished join relation is close to the optimum, for all its joins have been tried.
LEMMA JoinRelsReach ==
  ASSUME IInv, pc = "finish", NEW S \in Found(level)
  PROVE  /\ Reaches(S, rels[S].partial_paths, Partial(q, S))
         /\ Regular(q, S) # GatherPrice(Partial(q, S)) => Reaches(S, rels[S].pathlist, Regular(q, S))
<1>1. Types /\ Connected /\ Place /\ PairsTried
  BY DEF IInv
<1>2. level \in 1 .. N /\ level > 1 /\ IsQuery(q) /\ N \in Nat
  BY <1>1, TablesAreCounted DEF Types, Place
<1>3. S \in SUBSET Tables /\ Cardinality(S) = level
  BY <1>1, <1>2, SetsOfLevel
<1>4. ASSUME NEW o \in Splits(q, S)
      PROVE  JoinInputs(o, S \ o, rels[o], rels[S \ o]) /\ Tried(q, S, rels[S], rels[o], rels[S \ o])
  <2> DEFINE rest == S \ o
  <2>1. PICK m \in 1 .. level - 1 :
          o \in Found(m) /\ rest \in Found(level - m) /\ Joinable(o, rest) /\ o \union rest = S
    BY <1>3, SidesAreFound
  <2> HIDE DEF rest
  <2>2. JoinInputs(o, rest, rels[o], rels[rest])
    BY <2>1, PairsAreReady
  <2>3. Tried(q, o \union rest, rels[o \union rest], rels[o], rels[rest])
    BY <1>1, <2>1 DEF PairsTried
  <2>4. Tried(q, S, rels[S], rels[o], rels[rest])
    BY <2>1, <2>3, Zenon
  <2> QED
    BY <2>2, <2>4 DEF rest
<1>5. SplitsTried(S, rels[S])
  BY <1>4 DEF SplitsTried
<1> QED
  BY <1>2, <1>3, <1>5, JoinedPaths

LEMMA PendingFacts ==
  ASSUME Types, Connected, Place, pc \in {"base", "finish"}
  PROVE  /\ Head(pending) \in Found(level) /\ Head(pending) \in SUBSET Tables
         /\ Cardinality(Head(pending)) = level
         /\ Tail(pending) \in Seq(SUBSET Tables)
         /\ Range(Tail(pending)) \subseteq Range(pending)
         /\ \A S \in Range(pending) : S = Head(pending) \/ S \in Range(Tail(pending))
         /\ Len(pending) = 1 <=> Tail(pending) = << >>
<1>1. /\ pending \in Seq(SUBSET Tables) /\ pending # << >> /\ Range(pending) \subseteq Found(level)
      /\ level \in 1 .. N
  BY DEF Types, Place
<1>2. /\ Len(pending) \in Nat /\ Len(pending) >= 1
      /\ Head(pending) = pending[1] /\ Tail(pending) \in Seq(SUBSET Tables)
      /\ Len(Tail(pending)) = Len(pending) - 1
      /\ \A i \in 1 .. Len(pending) - 1 : Tail(pending)[i] = pending[i + 1]
  BY <1>1
<1>3. \A i \in 1 .. Len(pending) : pending[i] \in Range(pending)
  BY <1>1, RangeElements, Zenon
<1>4. Head(pending) \in Range(pending)
  BY <1>2, <1>3
<1>5. ASSUME NEW S \in Range(Tail(pending)) PROVE S \in Range(pending)
  <2> DEFINE tail == Tail(pending)
  <2>0. tail \in Seq(SUBSET Tables) /\ S \in Range(tail)
    BY <1>2
  <2> HIDE DEF tail
  <2>1. PICK i \in 1 .. Len(tail) : S = tail[i]
    BY <2>0, RangeElements, Zenon
  <2> USE DEF tail
  <2>2. i \in 1 .. Len(pending) - 1
    BY <1>2, <2>1
  <2>3. i + 1 \in 1 .. Len(pending)
    BY <1>2, <2>2
  <2>4. S = pending[i + 1]
    BY <1>2, <2>1, <2>2
  <2> QED
    BY <1>3, <2>3, <2>4
<1>6. ASSUME NEW S \in Range(pending) PROVE S = Head(pending) \/ S \in Range(Tail(pending))
  <2>1. PICK i \in 1 .. Len(pending) : S = pending[i]
    BY <1>1, RangeElements, Zenon
  <2>2. CASE i = 1
    BY <1>2, <2>1, <2>2
  <2>3. CASE i # 1
    <3>1. i - 1 \in 1 .. Len(Tail(pending)) /\ S = Tail(pending)[i - 1]
      BY <1>2, <2>1, <2>3
    <3>2. Tail(pending)[i - 1] \in Range(Tail(pending))
      BY <1>2, <3>1, RangeElements, Zenon
    <3> QED
      BY <3>1, <3>2
  <2> QED
    BY <2>2, <2>3
<1>7. Len(pending) = 1 <=> Tail(pending) = << >>
  BY <1>2
<1>8. Head(pending) \in SUBSET Tables /\ Cardinality(Head(pending)) = level
  BY <1>1, <1>4, SetsOfLevel
<1> QED
  BY <1>1, <1>2, <1>4, <1>5, <1>6, <1>7, <1>8

LEMMA CompleteStep ==
  ASSUME IInv, pc \in {"base", "finish"}, NEW S, S = Head(pending), NEW rel \in RelOf(q, S),
         pc = "finish" => rel = rels[S],
         Reaches(S, rel.partial_paths, Partial(q, S)),
         Regular(q, S) # GatherPrice(Partial(q, S)) => Reaches(S, rel.pathlist, Regular(q, S)),
         Complete(S, rel)
  PROVE  IInv'
<1> DEFINE new == Completed(rel)
<1>1. /\ Types /\ Connected /\ Distinct /\ AllFound /\ Place /\ Finished /\ PairsJoin /\ PairsTried /\ Outcome
  BY DEF IInv
<1>2. /\ S \in Found(level) /\ S \in SUBSET Tables /\ Cardinality(S) = level
      /\ Tail(pending) \in Seq(SUBSET Tables)
      /\ Range(Tail(pending)) \subseteq Range(pending)
      /\ \A T \in Range(pending) : T = S \/ T \in Range(Tail(pending))
      /\ Len(pending) = 1 <=> Tail(pending) = << >>
  BY <1>1, PendingFacts
<1>3. IsQuery(q) /\ level \in 1 .. N /\ N \in Nat
  BY <1>1, TablesAreCounted DEF Types
<1>4. /\ new \in RelOf(q, S)
      /\ Keeps(rel.pathlist, new.pathlist) /\ new.partial_paths = rel.partial_paths
      /\ new.pathlist = GenerateGatherPaths(rel).pathlist
      /\ new.pathlist.kept = {} => Regular(q, S) = Infinite
      /\ new.pathlist.kept # {} => Closed(q, S, new)
  BY <1>2, <1>3, CompletedRel
<1>5. /\ rels' = WithRel(S, new)
      /\ pc' = IF new.pathlist.kept = {} THEN "no_path" ELSE IF Len(pending) = 1 THEN "level" ELSE pc
      /\ pending' = Tail(pending)
      /\ q' = q /\ level' = level /\ pairs' = pairs /\ levels' = levels /\ plan' = plan
  BY <1>4 DEF Complete, Completed
<1> HIDE DEF new
<1>6. /\ DOMAIN rels' = DOMAIN rels \union {S}
      /\ rels'[S] = new
      /\ \A T \in DOMAIN rels : T # S => rels'[T] = rels[T]
  BY <1>5 DEF WithRel
<1>7. \A k : Found(k)' = Found(k)
  BY <1>5 DEF Found
<1>8. Types'
  <2>1. pc' \in {"base", "level", "join", "finish", "done", "no_path", "no_rel"}
    BY <1>1, <1>5 DEF Types
  <2>2. DOMAIN rels' \subseteq SUBSET Tables
    BY <1>1, <1>2, <1>6 DEF Types
  <2>3. ASSUME NEW T \in DOMAIN rels' PROVE rels'[T] \in RelOf(q, T)
    <3>1. CASE T = S
      BY <1>4, <1>6, <3>1
    <3>2. CASE T # S
      BY <1>1, <1>6, <3>2 DEF Types
    <3> QED
      BY <3>1, <3>2
  <2> QED
    BY <1>1, <1>2, <1>3, <1>5, <2>1, <2>2, <2>3 DEF Types
<1>9. Connected' /\ Distinct'
  BY <1>1, <1>5, <1>7 DEF Connected, Distinct
<1>10. AllFound'
  BY <1>1, <1>5, <1>7 DEF AllFound
<1>11. Place'
  BY <1>1, <1>2, <1>3, <1>5, <1>6, <1>7 DEF Place
<1>12. Finished'
  <2>1. SUFFICES ASSUME NEW k \in 1 .. N, NEW T \in Found(k), T \notin Open'
                 PROVE  T \in DOMAIN rels' /\ Closed(q, T, rels'[T])
    BY <1>5, <1>7 DEF Finished
  <2>2. CASE T = S
    <3>1. pc' # "no_path"
      BY <1>2, <1>7, <1>5, <2>1, <2>2 DEF Open
    <3> QED
      BY <1>4, <1>5, <1>6, <2>2, <3>1
  <2>3. CASE T # S
    <3>1. T \notin Open
      <4>1. SUFFICES ASSUME T \in Range(pending) PROVE FALSE
        BY DEF Open
      <4>2. T \in Range(Tail(pending)) /\ T \in Found(level)
        BY <1>1, <1>2, <2>3, <4>1 DEF Place
      <4>3. Tail(pending) # << >>
        BY <4>2, NothingInEmpty
      <4>4. pc' \in {"no_path", "base", "finish"}
        BY <1>2, <1>5, <4>3
      <4> QED
        BY <1>5, <1>7, <2>1, <4>2, <4>4 DEF Open
    <3>2. T \in DOMAIN rels /\ Closed(q, T, rels[T])
      BY <1>1, <2>1, <3>1 DEF Finished
    <3> QED
      BY <1>6, <2>3, <3>2
  <2> QED
    BY <2>2, <2>3
<1>13. PairsJoin'
  BY <1>5 DEF PairsJoin
<1>14. PairsTried'
  <2>1. SUFFICES ASSUME pc' = "finish", NEW m \in 1 .. level - 1, NEW a \in Found(m), NEW b \in Found(level - m),
                        Joinable(a, b)
                 PROVE  /\ a \union b \in Found(level)
                        /\ Tried(q, a \union b, rels'[a \union b], rels'[a], rels'[b])
    <3>1. pc' # "join"
      BY <1>5
    <3> QED
      BY <1>5, <1>7, <3>1 DEF PairsTried, Joinable
  <2>2. pc = "finish"
    BY <1>5, <2>1
  <2>3. a \union b \in Found(level) /\ Tried(q, a \union b, rels[a \union b], rels[a], rels[b])
    BY <1>1, <2>1, <2>2 DEF PairsTried
  <2>4. m \in 1 .. N /\ level - m \in 1 .. N /\ m # level /\ level - m # level
    BY <1>3
  <2>5. a # S /\ b # S
    BY <1>1, <1>2, <2>4, SetsOfLevel
  <2>6. a \in DOMAIN rels /\ b \in DOMAIN rels
    <3>1. level - m \in 1 .. level - 1
      BY <1>3
    <3> QED
      BY <2>1, <2>2, <3>1, SmallerRelsAreReady
  <2>7. rels'[a] = rels[a] /\ rels'[b] = rels[b]
    BY <1>6, <2>5, <2>6
  <2>8. JoinInputs(a, b, rels[a], rels[b])
    BY <2>1, <2>2, PairsAreReady
  <2>9. CASE a \union b = S
    <3>1. rels[a \union b] = rel /\ rels'[a \union b] = new
      BY <1>6, <2>2, <2>9
    <3>2. KeepsAll(rel, new)
      BY <1>4 DEF KeepsAll, Keeps
    <3> QED
      BY <2>3, <2>7, <2>8, <3>1, <3>2, TriedIsKept
  <2>10. CASE a \union b # S
    <3>1. a \union b \in DOMAIN rels
      BY <1>1, <2>2, <2>3 DEF Place
    <3> QED
      BY <1>6, <2>3, <2>7, <2>10, <3>1
  <2> QED
    BY <2>9, <2>10
<1>15. Outcome'
  <2>1. S # {} /\ JoinsTables(q, S)
    BY <1>1, <1>2, <1>3, SetsOfLevel
  <2>2. pc' = "no_path" => Regular(q, S) = Infinite
    BY <1>4, <1>5
  <2>3. pc' \notin {"done", "no_rel"}
    BY <1>5
  <2> QED
    BY <1>2, <1>5, <2>1, <2>2, <2>3 DEF Outcome
<1> QED
  BY <1>8, <1>9, <1>10, <1>11, <1>12, <1>13, <1>14, <1>15 DEF IInv

LEMMA SetBaseRelPathlistStep == ASSUME IInv, SetBaseRelPathlist PROVE IInv'
<1> DEFINE S == Head(pending)
           rel == AddBasePaths(NewRel, Min(S))
<1>1. Types /\ Connected /\ Place /\ pc = "base" /\ Complete(S, rel)
  BY DEF IInv, SetBaseRelPathlist
<1>2. level = 1 /\ IsQuery(q)
  BY <1>1 DEF Place, Types
<1>3. S \in SUBSET Tables /\ Cardinality(S) = 1
  BY <1>1, <1>2, PendingFacts
<1>4. /\ rel \in RelOf(q, S)
      /\ Reaches(S, rel.partial_paths, Partial(q, S))
      /\ Regular(q, S) # GatherPrice(Partial(q, S)) => Reaches(S, rel.pathlist, Regular(q, S))
  BY <1>2, <1>3, BasePaths
<1> HIDE DEF rel
<1> QED
  BY <1>1, <1>4, CompleteStep

LEMMA FinishRelStep == ASSUME IInv, FinishRel PROVE IInv'
<1> DEFINE S == Head(pending)
           rel == rels[S]
<1>1. Types /\ Connected /\ Place /\ pc = "finish" /\ Complete(S, rel)
  BY DEF IInv, FinishRel
<1>2. S \in Found(level)
  BY <1>1, PendingFacts
<1>3. rel \in RelOf(q, S)
  BY <1>1, <1>2 DEF Place, Types
<1>4. /\ Reaches(S, rel.partial_paths, Partial(q, S))
      /\ Regular(q, S) # GatherPrice(Partial(q, S)) => Reaches(S, rel.pathlist, Regular(q, S))
  BY <1>1, <1>2, JoinRelsReach
<1> QED
  BY <1>1, <1>3, <1>4, CompleteStep

LEMMA JoinSearchOneLevelStep == ASSUME IInv, JoinSearchOneLevel PROVE IInv'
<1>1. /\ Types /\ Connected /\ Distinct /\ AllFound /\ Place /\ Finished /\ PairsJoin /\ PairsTried /\ Outcome
  BY DEF IInv
<1>2. /\ pc = "level" /\ level < N /\ level' = level + 1 /\ pairs' = PairsOfLevel(level + 1) /\ pc' = "join"
      /\ q' = q /\ pending' = pending /\ levels' = levels /\ rels' = rels /\ plan' = plan
  BY DEF JoinSearchOneLevel
<1> DEFINE k == level + 1
<1>3. level \in 1 .. N /\ N \in Nat /\ IsQuery(q)
  BY <1>1, TablesAreCounted DEF Types
<1>4. k \in 2 .. N /\ k - 1 = level
  BY <1>2, <1>3
<1>5. \A m : Found(m)' = Found(m)
  BY <1>2 DEF Found
<1>6. levels \in [1 .. N -> Seq(SUBSET Tables)]
  BY <1>1 DEF Types
<1>7. level' = k /\ pairs' = PairsOfLevel(k)
  BY <1>2
<1> HIDE DEF k
<1>8. /\ PairsOfLevel(k) \in Seq(JoinsOfLevel(k))
      /\ \A m \in 1 .. k - 1 : \A a \in Found(m), b \in Found(k - m) :
           Joinable(a, b) => \/ << a, b >> \in Range(PairsOfLevel(k))
                             \/ << b, a >> \in Range(PairsOfLevel(k))
  BY <1>3, <1>4, <1>6, PairsOfLevelAreAll
<1>9. pairs' \in Seq((SUBSET Tables) \X (SUBSET Tables))
  <2>1. JoinsOfLevel(k) \subseteq (SUBSET Tables) \X (SUBSET Tables)
    BY DEF JoinsOfLevel
  <2> QED
    BY <1>7, <1>8, <2>1
<1>10. Types'
  BY <1>1, <1>2, <1>4, <1>7, <1>9 DEF Types
<1>11. Connected' /\ Distinct'
  BY <1>1, <1>2, <1>5 DEF Connected, Distinct
<1>12. AllFound'
  <2>1. \A n \in 1 .. N : n < k => n < level \/ n = level
    BY <1>3, <1>4
  <2> QED
    BY <1>1, <1>2, <1>5, <1>7, <2>1 DEF AllFound
<1>13. Place'
  <2>1. k > 1 /\ k > level /\ k \in 1 .. N
    BY <1>3, <1>4
  <2>2. \A n \in 1 .. N : n > k => n > level
    BY <1>3, <1>4
  <2>3. levels[k] = << >>
    BY <1>1, <2>1 DEF Place
  <2>4. Found(k) \subseteq DOMAIN rels
    BY <2>3, NothingInEmpty DEF Found
  <2> QED
    BY <1>1, <1>2, <1>5, <1>7, <2>1, <2>2, <2>4 DEF Place
<1>14. Finished'
  <2>1. Open = {}
    BY <1>2 DEF Open
  <2> QED
    BY <1>1, <1>2, <1>5, <2>1 DEF Finished
<1>15. PairsJoin'
  <2>1. ASSUME NEW i \in DOMAIN pairs'
        PROVE  \E m \in 1 .. k - 1 : /\ pairs'[i][1] \in Found(m) /\ pairs'[i][2] \in Found(k - m)
                                     /\ Joinable(pairs'[i][1], pairs'[i][2])
    <3>1. pairs'[i] \in JoinsOfLevel(k)
      BY <1>7, <1>8, <2>1
    <3> QED
      BY <3>1 DEF JoinsOfLevel
  <2>2. \A a, b : Joinable(a, b)' = Joinable(a, b)
    BY <1>2 DEF Joinable
  <2> QED
    BY <1>5, <1>7, <2>1, <2>2 DEF PairsJoin
<1>16. PairsTried'
  <2>1. \A a, b : Joinable(a, b)' = Joinable(a, b)
    BY <1>2 DEF Joinable
  <2> QED
    BY <1>2, <1>5, <1>7, <1>8, <2>1 DEF PairsTried
<1>17. Outcome'
  BY <1>2 DEF Outcome
<1> QED
  BY <1>10, <1>11, <1>12, <1>13, <1>14, <1>15, <1>16, <1>17 DEF IInv

\* A level is complete when its pairs are used up: a connected set has a split, the
\* two sides of it were found, and they have been joined.
LEMMA LevelIsComplete ==
  ASSUME IInv, pc = "join", pairs = << >>, NEW S \in SUBSET Tables, Cardinality(S) = level, JoinsTables(q, S)
  PROVE  S \in Found(level)
<1>1. Types /\ Place /\ PairsTried
  BY DEF IInv
<1>2. level > 1
  BY <1>1 DEF Place
<1>3. PICK o \in Splits(q, S) : TRUE
  BY <1>2, ConnectedSetsSplit
<1>4. PICK m \in 1 .. level - 1 :
        o \in Found(m) /\ S \ o \in Found(level - m) /\ Joinable(o, S \ o) /\ o \union (S \ o) = S
  BY SidesAreFound
<1> DEFINE rest == S \ o
<1>5. o \in Found(m) /\ rest \in Found(level - m) /\ Joinable(o, rest) /\ o \union rest = S
  BY <1>4
<1> HIDE DEF rest
<1>6. << o, rest >> \notin Range(pairs) /\ << rest, o >> \notin Range(pairs)
  BY NothingInEmpty
<1>7. o \union rest \in Found(level)
  BY <1>1, <1>5, <1>6 DEF PairsTried
<1> QED
  BY <1>5, <1>7, Zenon

LEMMA EndOfLevelStep == ASSUME IInv, EndOfLevel PROVE IInv'
<1>1. /\ Types /\ Connected /\ Distinct /\ AllFound /\ Place /\ Finished /\ PairsJoin /\ PairsTried /\ Outcome
  BY DEF IInv
<1>2. /\ pc = "join" /\ pairs = << >> /\ pending' = levels[level]
      /\ pc' = IF levels[level] = << >> THEN "level" ELSE "finish"
      /\ q' = q /\ level' = level /\ pairs' = pairs /\ levels' = levels /\ rels' = rels /\ plan' = plan
  BY DEF EndOfLevel
<1>3. level \in 1 .. N /\ N \in Nat /\ IsQuery(q) /\ level > 1
  BY <1>1, <1>2, TablesAreCounted DEF Types, Place
<1>4. \A m : Found(m)' = Found(m)
  BY <1>2 DEF Found
<1>5. pending' \in Seq(SUBSET Tables) /\ Range(pending') = Found(level)
  BY <1>1, <1>2, <1>3 DEF Types, Found
<1>6. Types'
  BY <1>1, <1>2, <1>5 DEF Types
<1>7. Connected' /\ Distinct'
  BY <1>1, <1>2, <1>4 DEF Connected, Distinct
<1>8. AllFound'
  <2>1. \A S \in SUBSET Tables : Cardinality(S) = level /\ JoinsTables(q, S) => S \in Found(level)
    BY <1>2, LevelIsComplete
  <2> QED
    BY <1>1, <1>2, <1>4, <2>1 DEF AllFound
<1>9. Place'
  BY <1>1, <1>2, <1>3, <1>4, <1>5 DEF Place
<1>10. Finished'
  <2>1. Open = Found(level)
    BY <1>2 DEF Open
  <2>2. Open' = Found(level)
    <3>1. CASE levels[level] = << >>
      <4>1. \A S : S \notin Found(level)
        BY <3>1, NothingInEmpty DEF Found
      <4>2. Open' = {}
        BY <1>2, <3>1 DEF Open
      <4> QED
        BY <4>1, <4>2
    <3>2. CASE levels[level] # << >>
      BY <1>2, <1>5, <3>2 DEF Open
    <3> QED
      BY <3>1, <3>2
  <2> QED
    BY <1>1, <1>2, <1>4, <2>1, <2>2 DEF Finished
<1>11. PairsJoin'
  BY <1>2 DEF PairsJoin
<1>12. PairsTried'
  <2>1. \A x : x \notin Range(pairs)
    BY <1>2, NothingInEmpty
  <2>2. \A a, b : Joinable(a, b)' = Joinable(a, b)
    BY <1>2 DEF Joinable
  <2>3. \A m \in 1 .. level - 1 : \A a \in Found(m), b \in Found(level - m) : Joinable(a, b) =>
          /\ a \union b \in Found(level)
          /\ Tried(q, a \union b, rels[a \union b], rels[a], rels[b])
    BY <1>1, <1>2, <2>1 DEF PairsTried
  <2> QED
    BY <1>2, <1>4, <2>2, <2>3 DEF PairsTried
<1>13. Outcome'
  BY <1>2 DEF Outcome
<1> QED
  BY <1>6, <1>7, <1>8, <1>9, <1>10, <1>11, <1>12, <1>13 DEF IInv

LEMMA AddPathsTriesFor ==
  ASSUME NEW a, NEW b, NEW outer, NEW inner, JoinInputs(a, b, outer, inner),
         NEW S, S = a \union b, NEW rel \in RelOf(q, S)
  PROVE  LET new == AddPathsToJoinrel(rel, S, outer, inner) IN
           Onward(S, rel, new) /\ Tried(q, S, new, outer, inner)
<1>1. rel \in RelOf(q, a \union b)
  BY Zenon
<1>2. LET new == AddPathsToJoinrel(rel, a \union b, outer, inner) IN
        Onward(a \union b, rel, new) /\ Tried(q, a \union b, new, outer, inner)
  BY <1>1, AddPathsTries
<1> QED
  BY <1>2, Zenon

LEMMA TriedIsKeptFor ==
  ASSUME NEW a, NEW b, NEW outer, NEW inner, JoinInputs(a, b, outer, inner),
         NEW S, S = a \union b,
         NEW old, NEW new, KeepsAll(old, new), Tried(q, S, old, outer, inner)
  PROVE  Tried(q, S, new, outer, inner)
<1>1. Tried(q, a \union b, old, outer, inner)
  BY Zenon
<1>2. Tried(q, a \union b, new, outer, inner)
  BY <1>1, TriedIsKept
<1> QED
  BY <1>2, Zenon

LEMMA AppendedLevel ==
  ASSUME NEW s \in Seq(SUBSET Tables), NEW S \in SUBSET Tables
  PROVE  /\ Append(s, S) \in Seq(SUBSET Tables)
         /\ \A T : T \in Range(Append(s, S)) <=> T \in Range(s) \/ T = S
<1> DEFINE new == Append(s, S)
<1>1. /\ new \in Seq(SUBSET Tables) /\ Len(s) \in Nat /\ Len(new) = Len(s) + 1
      /\ new[Len(s) + 1] = S
      /\ \A i \in 1 .. Len(s) : new[i] = s[i]
  OBVIOUS
<1> HIDE DEF new
<1>2. /\ \A i \in 1 .. Len(new) : new[i] \in Range(new)
      /\ \A i \in 1 .. Len(s) : s[i] \in Range(s)
      /\ \A T \in Range(new) : \E i \in 1 .. Len(new) : T = new[i]
      /\ \A T \in Range(s) : \E i \in 1 .. Len(s) : T = s[i]
  BY <1>1, RangeElements
<1>3. \A i : i \in 1 .. Len(new) <=> i \in 1 .. Len(s) \/ i = Len(s) + 1
  BY <1>1
<1>4. ASSUME NEW T \in Range(new) PROVE T \in Range(s) \/ T = S
  BY <1>1, <1>2, <1>3
<1>5. ASSUME NEW T \in Range(s) PROVE T \in Range(new)
  BY <1>1, <1>2, <1>3
<1>6. S \in Range(new)
  BY <1>1, <1>2, <1>3
<1> QED
  BY <1>1, <1>4, <1>5, <1>6 DEF new

LEMMA FoundRelAdds ==
  ASSUME Types, NEW S \in SUBSET Tables, levels' = FoundRel(S)
  PROVE  /\ levels' \in [1 .. N -> Seq(SUBSET Tables)]
         /\ \A T : T \in Range(levels'[level]) <=> T \in Found(level) \/ T = S
         /\ \A k \in 1 .. N : k # level => levels'[k] = levels[k]
<1>1. level \in 1 .. N /\ levels \in [1 .. N -> Seq(SUBSET Tables)]
  BY DEF Types
<1>2. CASE S \in Range(levels[level])
  <2>1. levels' = levels
    BY <1>2 DEF FoundRel
  <2> QED
    BY <1>1, <1>2, <2>1 DEF Found
<1>3. CASE S \notin Range(levels[level])
  <2>1. levels' = [levels EXCEPT ![level] = Append(@, S)]
    BY <1>3 DEF FoundRel
  <2>2. levels'[level] = Append(levels[level], S)
    BY <1>1, <2>1
  <2>3. levels[level] \in Seq(SUBSET Tables)
    BY <1>1
  <2> DEFINE old == levels[level]
             new == Append(old, S)
  <2>4. new \in Seq(SUBSET Tables) /\ \A T : T \in Range(new) <=> T \in Range(old) \/ T = S
    BY <2>3, AppendedLevel
  <2>5. levels' \in [1 .. N -> Seq(SUBSET Tables)]
    BY <1>1, <2>1, <2>4
  <2>6. \A k \in 1 .. N : k # level => levels'[k] = levels[k]
    BY <1>1, <2>1
  <2>7. \A T : T \in Range(levels'[level]) <=> T \in Range(old) \/ T = S
    BY <2>2, <2>4, Zenon
  <2> QED
    BY <2>5, <2>6, <2>7 DEF Found
<1> QED
  BY <1>2, <1>3

LEMMA JoinPairStep == ASSUME IInv, JoinPair PROVE IInv'
<1>1. /\ Types /\ Connected /\ Distinct /\ AllFound /\ Place /\ Finished /\ PairsJoin /\ PairsTried /\ Outcome
  BY DEF IInv
<1> DEFINE a == Head(pairs)[1]
           b == Head(pairs)[2]
           S == a \union b
           rel == IF S \in Range(levels[level]) THEN rels[S] ELSE NewRel
           first == AddPathsToJoinrel(rel, S, rels[a], rels[b])
           new == AddPathsToJoinrel(first, S, rels[b], rels[a])
           FoundThen(k) == Range(levels'[k])
<1>2. /\ pc = "join" /\ pairs # << >> /\ levels' = FoundRel(S)
      /\ rels' = WithRel(S, new)
      /\ pairs' = Tail(pairs)
      /\ q' = q /\ pc' = pc /\ level' = level /\ pending' = pending /\ plan' = plan
  BY DEF JoinPair, JoinBothWays
<1>3. level \in 1 .. N /\ N \in Nat /\ IsQuery(q) /\ level > 1
  BY <1>1, <1>2, TablesAreCounted DEF Types, Place
<1>4. /\ pairs \in Seq((SUBSET Tables) \X (SUBSET Tables))
      /\ Len(pairs) \in Nat /\ Len(pairs) >= 1 /\ Head(pairs) = pairs[1]
      /\ pairs' \in Seq((SUBSET Tables) \X (SUBSET Tables)) /\ Len(pairs') = Len(pairs) - 1
      /\ \A i \in 1 .. Len(pairs) - 1 : pairs'[i] = pairs[i + 1]
  BY <1>1, <1>2 DEF Types
<1>5. PICK m \in 1 .. level - 1 : a \in Found(m) /\ b \in Found(level - m) /\ Joinable(a, b)
  <2>1. 1 \in DOMAIN pairs
    BY <1>4
  <2> QED
    BY <1>1, <1>2, <1>4, <2>1 DEF PairsJoin
<1>6. /\ JoinInputs(a, b, rels[a], rels[b]) /\ JoinInputs(b, a, rels[b], rels[a])
      /\ S \in SUBSET Tables /\ Cardinality(S) = level /\ JoinsTables(q, S)
  BY <1>2, <1>5, PairsAreReady
<1>7. S = b \union a
  OBVIOUS
<1> HIDE DEF a, b
<1>8. rel \in RelOf(q, S) /\ (S \in Found(level) => S \in DOMAIN rels /\ rel = rels[S])
  <2> HIDE DEF S
  <2>1. CASE S \in Found(level)
    BY <1>1, <1>2, <2>1 DEF Place, Types, Found
  <2>2. CASE S \notin Found(level)
    BY <2>2, NewRelType DEF Found
  <2> QED
    BY <2>1, <2>2
<1> HIDE DEF rel
<1>9. Onward(S, rel, first) /\ Tried(q, S, first, rels[a], rels[b])
  BY <1>6, <1>8, AddPathsTries
<1> HIDE DEF first
<1>10. Onward(S, first, new) /\ Tried(q, S, new, rels[b], rels[a])
  <2>1. first \in RelOf(q, S)
    BY <1>9 DEF Onward
  <2> HIDE DEF S
  <2> QED
    BY <1>6, <1>7, <2>1, AddPathsTriesFor
<1> HIDE DEF new
<1>11. Tried(q, S, new, rels[a], rels[b])
  <2>1. KeepsAll(first, new)
    BY <1>10 DEF Onward
  <2> QED
    BY <1>6, <1>9, <2>1, TriedIsKept
<1>12. new \in RelOf(q, S) /\ KeepsAll(rel, new)
  BY <1>9, <1>10, KeepingIsAnOrder DEF Onward
<1>13. /\ levels' \in [1 .. N -> Seq(SUBSET Tables)]
       /\ \A T : T \in FoundThen(level) <=> T \in Found(level) \/ T = S
       /\ \A k \in 1 .. N : k # level => levels'[k] = levels[k] /\ FoundThen(k) = Found(k)
  <2> HIDE DEF S
  <2>1. /\ levels' \in [1 .. N -> Seq(SUBSET Tables)]
        /\ \A T : T \in Range(levels'[level]) <=> T \in Found(level) \/ T = S
        /\ \A k \in 1 .. N : k # level => levels'[k] = levels[k]
    BY <1>1, <1>2, <1>6, FoundRelAdds
  <2> QED
    BY <1>2, <2>1 DEF Found
<1>14. /\ DOMAIN rels' = DOMAIN rels \union {S}
       /\ rels'[S] = new
       /\ \A T \in DOMAIN rels : T # S => rels'[T] = rels[T]
  BY <1>2 DEF WithRel
<1>15. \A x, y : Joinable(x, y)' = Joinable(x, y)
  BY <1>2 DEF Joinable
<1>16. ASSUME NEW k \in 1 .. level - 1
       PROVE  /\ k \in 1 .. N /\ k # level /\ level - k \in 1 .. level - 1 /\ FoundThen(k) = Found(k)
              /\ \A T \in Found(k) : T # S /\ T \in DOMAIN rels /\ rels'[T] = rels[T]
  <2>1. k \in 1 .. N /\ k # level /\ level - k \in 1 .. level - 1
    BY <1>3
  <2>2. FoundThen(k) = Found(k)
    BY <1>13, <2>1
  <2>3. ASSUME NEW T \in Found(k) PROVE T # S /\ T \in DOMAIN rels /\ rels'[T] = rels[T]
    <3>1. Cardinality(T) = k
      BY <1>1, <2>1, SetsOfLevel
    <3>2. T # S
      BY <1>6, <2>1, <3>1
    <3>3. T \in DOMAIN rels
      BY <1>2, SmallerRelsAreReady
    <3> QED
      BY <1>14, <3>2, <3>3
  <2> QED
    BY <2>1, <2>2, <2>3
<1> HIDE DEF S
<1>17. Types'
  <2>1. DOMAIN rels' \subseteq SUBSET Tables
    BY <1>1, <1>6, <1>14 DEF Types
  <2>2. ASSUME NEW T \in DOMAIN rels' PROVE rels'[T] \in RelOf(q, T)
    <3>1. CASE T = S
      BY <1>12, <1>14, <3>1
    <3>2. CASE T # S
      BY <1>1, <1>14, <3>2 DEF Types
    <3> QED
      BY <3>1, <3>2
  <2> QED
    BY <1>1, <1>2, <1>3, <1>4, <1>13, <2>1, <2>2 DEF Types
<1>18. Connected'
  <2>1. ASSUME NEW k \in 1 .. N, NEW T, T \in FoundThen(k) PROVE Cardinality(T) = k /\ JoinsTables(q, T)
    <3>1. CASE k = level
      BY <1>1, <1>6, <1>13, <2>1, <3>1 DEF Connected
    <3>2. CASE k # level
      BY <1>1, <1>13, <2>1, <3>2 DEF Connected
    <3> QED
      BY <3>1, <3>2
  <2> QED
    BY <1>2, <2>1 DEF Connected, Found
<1>19. Distinct'
  <2>1. SUFFICES ASSUME NEW k \in 1 .. N, NEW i \in DOMAIN levels'[k], NEW j \in DOMAIN levels'[k],
                        levels'[k][i] = levels'[k][j]
                 PROVE  i = j
    BY DEF Distinct
  <2>2. CASE levels'[k] = levels[k]
    BY <1>1, <2>1, <2>2 DEF Distinct
  <2>3. CASE levels'[k] # levels[k]
    <3> DEFINE old == levels[level]
    <3>1. k = level /\ S \notin Range(old) /\ levels' = [levels EXCEPT ![level] = Append(@, S)]
      BY <1>2, <1>13, <2>3 DEF FoundRel
    <3>2. old \in Seq(SUBSET Tables)
      BY <1>1, <1>3 DEF Types
    <3>3. levels'[k] = Append(old, S)
      BY <1>1, <1>3, <3>1 DEF Types
    <3>4. \A x, y \in DOMAIN old : old[x] = old[y] => x = y
      BY <1>1, <1>3 DEF Distinct
    <3>5. \A x \in 1 .. Len(old) : old[x] # S
      BY <3>1, <3>2, RangeElements
    <3> HIDE DEF old
    <3>6. /\ DOMAIN levels'[k] = 1 .. Len(old) + 1 /\ DOMAIN old = 1 .. Len(old) /\ Len(old) \in Nat
          /\ levels'[k][Len(old) + 1] = S
          /\ \A x \in 1 .. Len(old) : levels'[k][x] = old[x]
      BY <1>6, <3>2, <3>3
    <3> QED
      BY <2>1, <3>4, <3>5, <3>6
  <2> QED
    BY <2>2, <2>3
<1>20. AllFound'
  <2>1. SUFFICES ASSUME NEW k \in 1 .. N, k < level, NEW T \in SUBSET Tables, Cardinality(T) = k, JoinsTables(q, T)
                 PROVE  T \in FoundThen(k)
    BY <1>2 DEF AllFound, Found
  <2>2. k # level
    BY <1>3, <2>1
  <2>3. T \in Found(k)
    BY <1>1, <2>1 DEF AllFound
  <2> QED
    BY <1>13, <2>2, <2>3
<1>21. Place'
  <2>1. FoundThen(level) \subseteq DOMAIN rels'
    BY <1>1, <1>2, <1>13, <1>14 DEF Place
  <2>2. ASSUME NEW k \in 1 .. N, k > level PROVE levels'[k] = << >>
    <3>1. k # level /\ levels[k] = << >>
      BY <1>1, <1>3, <2>2 DEF Place
    <3> QED
      BY <1>13, <3>1
  <2> QED
    BY <1>2, <1>3, <2>1, <2>2 DEF Place, Found
<1>22. Finished'
  <2>1. SUFFICES ASSUME NEW k \in 1 .. N, NEW T, T \in FoundThen(k), T \notin FoundThen(level)
                 PROVE  T \in DOMAIN rels' /\ Closed(q, T, rels'[T])
    BY <1>2 DEF Finished, Open, Found
  <2>2. k # level /\ T # S /\ T \notin Found(level)
    BY <1>13, <2>1
  <2>3. T \in Found(k) /\ T \notin Open
    BY <1>2, <1>13, <2>1, <2>2 DEF Open
  <2>4. T \in DOMAIN rels /\ Closed(q, T, rels[T])
    BY <1>1, <2>3 DEF Finished
  <2> QED
    BY <1>14, <2>2, <2>4
<1>23. PairsJoin'
  <2>1. ASSUME NEW i \in DOMAIN pairs'
        PROVE  \E n \in 1 .. level - 1 : /\ pairs'[i][1] \in FoundThen(n) /\ pairs'[i][2] \in FoundThen(level - n)
                                         /\ Joinable(pairs'[i][1], pairs'[i][2])
    <3>1. i + 1 \in DOMAIN pairs /\ pairs'[i] = pairs[i + 1]
      BY <1>4, <2>1
    <3>2. PICK n \in 1 .. level - 1 : /\ pairs'[i][1] \in Found(n) /\ pairs'[i][2] \in Found(level - n)
                                      /\ Joinable(pairs'[i][1], pairs'[i][2])
      BY <1>1, <1>2, <3>1 DEF PairsJoin
    <3>3. FoundThen(n) = Found(n) /\ FoundThen(level - n) = Found(level - n)
      BY <1>16
    <3> QED
      BY <3>2, <3>3
  <2> QED
    BY <1>2, <1>15, <2>1 DEF PairsJoin, Found
<1>24. PairsTried'
  <2>1. ASSUME NEW n \in 1 .. level - 1, NEW x \in Found(n), NEW y \in Found(level - n), Joinable(x, y),
               << x, y >> \notin Range(pairs'), << y, x >> \notin Range(pairs')
        PROVE  x \union y \in FoundThen(level) /\ Tried(q, x \union y, rels'[x \union y], rels'[x], rels'[y])
    <3>1. rels'[x] = rels[x] /\ rels'[y] = rels[y]
      BY <1>16
    <3>2. JoinInputs(x, y, rels[x], rels[y])
      BY <1>2, <2>1, PairsAreReady
    <3>3. CASE << x, y >> \in Range(pairs) \/ << y, x >> \in Range(pairs)
      <4>1. ASSUME NEW p \in Range(pairs), p \notin Range(pairs') PROVE p = pairs[1]
        <5>1. PICK i \in 1 .. Len(pairs) : p = pairs[i]
          BY <1>4, RangeElements
        <5>2. ASSUME i # 1 PROVE FALSE
          <6>1. i - 1 \in 1 .. Len(pairs') /\ pairs'[i - 1] = p
            BY <1>4, <5>1, <5>2
          <6> QED
            BY <1>4, <4>1, <6>1, RangeElements
        <5> QED
          BY <5>1, <5>2
      <4>2. << x, y >> = pairs[1] \/ << y, x >> = pairs[1]
        BY <2>1, <3>3, <4>1
      <4>3. (x = a /\ y = b) \/ (x = b /\ y = a)
        BY <1>4, <4>2 DEF a, b
      <4>4. x \union y = S /\ Tried(q, S, new, rels[x], rels[y])
        BY <1>7, <1>10, <1>11, <4>3 DEF S
      <4>5. rels'[S] = new /\ S \in FoundThen(level)
        BY <1>13, <1>14
      <4> QED
        BY <3>1, <4>4, <4>5, Zenon
    <3>4. CASE << x, y >> \notin Range(pairs) /\ << y, x >> \notin Range(pairs)
      <4>1. x \union y \in Found(level) /\ Tried(q, x \union y, rels[x \union y], rels[x], rels[y])
        BY <1>1, <1>2, <2>1, <3>4 DEF PairsTried
      <4>2. x \union y \in FoundThen(level) /\ x \union y \in DOMAIN rels
        BY <1>1, <1>2, <1>13, <4>1 DEF Place
      <4>3. CASE x \union y = S
        <5>1. Tried(q, S, rels[S], rels[x], rels[y]) /\ S \in Found(level)
          BY <4>1, <4>3, Zenon
        <5>2. Tried(q, S, rel, rels[x], rels[y])
          BY <1>8, <5>1
        <5>3. Tried(q, S, new, rels[x], rels[y])
          BY <1>12, <3>2, <4>3, <5>2, TriedIsKeptFor
        <5>4. Tried(q, S, rels'[S], rels'[x], rels'[y])
          BY <1>14, <3>1, <5>3
        <5> QED
          BY <4>2, <4>3, <5>4, Zenon
      <4>4. CASE x \union y # S
        <5>1. rels'[x \union y] = rels[x \union y]
          BY <1>14, <4>2, <4>4
        <5> QED
          BY <3>1, <4>1, <4>2, <5>1
      <4> QED
        BY <4>3, <4>4
    <3> QED
      BY <3>3, <3>4
  <2>2. \A n \in 1 .. level - 1 : FoundThen(n) = Found(n) /\ FoundThen(level - n) = Found(level - n)
    BY <1>16
  <2> QED
    BY <1>2, <1>15, <2>1, <2>2 DEF PairsTried, Found
<1>25. Outcome'
  BY <1>2 DEF Outcome
<1> QED
  BY <1>17, <1>18, <1>19, <1>20, <1>21, <1>22, <1>23, <1>24, <1>25 DEF IInv

-------------------------------------------------------------------------------
(* The end of the search, the initial states, and the theorems. *)

\* The last level holds nothing but the set of all tables, and that only once.
LEMMA LastLevel ==
  ASSUME Types, Connected, Distinct
  PROVE  /\ \A S \in Found(N) : S = Tables
         /\ Len(levels[N]) \in Nat
         /\ Len(levels[N]) # 1 => Found(N) = {}
         /\ Len(levels[N]) = 1 => levels[N][1] = Tables /\ Tables \in Found(N)
<1> DEFINE last == levels[N]
<1>1. N \in 1 .. N
  BY TablesAreCounted
<1>2. last \in Seq(SUBSET Tables)
  BY <1>1 DEF Types
<1>3. \A i, j \in DOMAIN last : last[i] = last[j] => i = j
  BY <1>1 DEF Distinct
<1>4. Found(N) = Range(last)
  BY DEF Found
<1>5. \A S \in Range(last) : S = Tables
  BY <1>1, <1>4, SetsOfLevel, TablesAreCounted
<1> HIDE DEF last
<1>6. /\ \A i \in 1 .. Len(last) : last[i] \in Range(last)
      /\ \A S \in Range(last) : \E i \in 1 .. Len(last) : S = last[i]
  BY <1>2, RangeElements
<1>7. Len(last) \in Nat /\ DOMAIN last = 1 .. Len(last)
  BY <1>2
<1>8. Len(last) <= 1
  <2>1. SUFFICES ASSUME 1 \in 1 .. Len(last), 2 \in 1 .. Len(last) PROVE FALSE
    BY <1>7
  <2>2. last[1] = last[2]
    BY <1>5, <1>6, <2>1
  <2> QED
    BY <1>3, <1>7, <2>1, <2>2
<1>9. Len(last) # 1 => Range(last) = {}
  BY <1>6, <1>7, <1>8
<1>10. Len(last) = 1 => last[1] = Tables /\ Tables \in Range(last)
  BY <1>5, <1>6, <1>7
<1> QED
  BY <1>4, <1>5, <1>7, <1>9, <1>10 DEF last

\* The steps that end the search leave the relations alone.
LEMMA LastStep ==
  ASSUME IInv, pc = "level", level = N, pc' \in {"done", "no_rel"},
         UNCHANGED << q, level, pairs, pending, levels, rels >>,
         pc' = "no_rel" => Found(N) = {},
         pc' = "done" /\ ~q.pg => plan'.cost \in Nat /\ Near(plan'.cost, Regular(q, Tables))
  PROVE  IInv'
<1>1. /\ Types /\ Connected /\ Distinct /\ AllFound /\ Place /\ Finished /\ PairsJoin /\ PairsTried /\ Outcome
  BY DEF IInv
<1>2. \A k : Found(k)' = Found(k)
  BY DEF Found
<1>3. Types'
  BY <1>1 DEF Types
<1>4. Connected' /\ Distinct'
  BY <1>1, <1>2 DEF Connected, Distinct
<1>5. AllFound'
  BY <1>1, <1>2 DEF AllFound
<1>6. Place'
  BY <1>1, <1>2 DEF Place
<1>7. Finished'
  BY <1>1, <1>2 DEF Finished, Open
<1>8. PairsJoin' /\ PairsTried'
  BY DEF PairsJoin, PairsTried
<1>9. Outcome'
  BY <1>2 DEF Outcome
<1> QED
  BY <1>3, <1>4, <1>5, <1>6, <1>7, <1>8, <1>9 DEF IInv

LEMMA NoFinalRelStep == ASSUME IInv, NoFinalRel PROVE IInv'
<1>1. Types /\ Connected /\ Distinct
  BY DEF IInv
<1>2. Found(N) = {}
  BY <1>1, LastLevel DEF NoFinalRel
<1> QED
  BY <1>2, LastStep DEF NoFinalRel

LEMMA SelectPlanStep == ASSUME IInv, SelectPlan PROVE IInv'
<1>1. Types /\ Connected /\ Distinct /\ Finished /\ pc = "level"
  BY DEF IInv, SelectPlan
<1>2. levels[N][1] = Tables /\ Tables \in Found(N) /\ N \in 1 .. N
  BY <1>1, LastLevel, TablesAreCounted DEF SelectPlan
<1>3. Closed(q, Tables, rels[Tables])
  BY <1>1, <1>2 DEF Finished, Open
<1>4. plan' = CheapestOf(rels[Tables]) /\ Near(plan'.cost, Regular(q, Tables))
  BY <1>2, <1>3 DEF Closed, SelectPlan, Final
<1>5. rels[Tables] \in RelOf(q, Tables)
  BY <1>1, <1>2 DEF Types, Finished, Open
<1>6. plan'.cost \in Nat
  BY <1>3, <1>4, <1>5, CheapestPaths DEF PathsOver, AnyPath
<1> QED
  BY <1>4, <1>6, LastStep DEF SelectPlan

LEMMA SelectPlanByDatabaseStep == ASSUME IInv, SelectPlanByDatabase PROVE IInv'
BY LastStep DEF SelectPlanByDatabase

LEMMA EndedStep == ASSUME IInv, UNCHANGED vars PROVE IInv'
<1>1. /\ Types /\ Connected /\ Distinct /\ AllFound /\ Place /\ Finished /\ PairsJoin /\ PairsTried /\ Outcome
  BY DEF IInv
<1>2. /\ q' = q /\ pc' = pc /\ level' = level /\ pairs' = pairs /\ pending' = pending /\ levels' = levels
      /\ rels' = rels /\ plan' = plan
  BY DEF vars
<1>3. \A k : Found(k)' = Found(k)
  BY <1>2 DEF Found
<1>4. Open' = Open
  BY <1>2, <1>3 DEF Open
<1>5. \A x, y : Joinable(x, y)' = Joinable(x, y)
  BY <1>2 DEF Joinable
<1>6. Types' /\ Connected' /\ Distinct'
  BY <1>1, <1>2, <1>3 DEF Types, Connected, Distinct
<1>7. AllFound' /\ Place'
  BY <1>1, <1>2, <1>3 DEF AllFound, Place
<1>8. Finished'
  BY <1>1, <1>2, <1>3, <1>4 DEF Finished
<1>9. PairsJoin'
  BY <1>1, <1>2, <1>3, <1>5 DEF PairsJoin
<1>10. PairsTried'
  BY <1>1, <1>2, <1>3, <1>5 DEF PairsTried
<1>11. Outcome'
  BY <1>1, <1>2, <1>3 DEF Outcome
<1> QED
  BY <1>6, <1>7, <1>8, <1>9, <1>10, <1>11 DEF IInv

LEMMA InitStep == ASSUME Init PROVE IInv
<1>1. /\ IsQuery(q) /\ pc = "base" /\ level = 1 /\ pairs = << >> /\ rels = << >>
      /\ pending = [t \in 1 .. N |-> {t}]
      /\ levels = [k \in 1 .. N |-> IF k = 1 THEN pending ELSE << >>]
  BY QueriesAreTyped DEF Init
<1>2. N \in Nat /\ N >= 1 /\ Tables = 1 .. N
  BY TablesAreCounted
<1>3. /\ pending \in Seq(SUBSET Tables) /\ Len(pending) = N
      /\ \A t \in 1 .. N : pending[t] = {t}
  BY <1>1, <1>2
<1>4. levels[1] = pending /\ \A k \in 1 .. N : k # 1 => levels[k] = << >>
  BY <1>1, <1>2
<1>5. \A k \in 1 .. N : k # 1 => Found(k) = {}
  BY <1>4, NothingInEmpty DEF Found
<1>6. /\ \A t \in 1 .. N : {t} \in Found(1)
      /\ \A S \in Found(1) : \E t \in 1 .. N : S = {t}
  <2>1. Found(1) = Range(pending)
    BY <1>4 DEF Found
  <2>2. /\ \A i \in 1 .. Len(pending) : pending[i] \in Range(pending)
        /\ \A S \in Range(pending) : \E i \in 1 .. Len(pending) : S = pending[i]
    BY <1>3, RangeElements
  <2>3. ASSUME NEW t \in 1 .. N PROVE {t} \in Found(1)
    BY <1>3, <2>1, <2>2, <2>3, Zenon
  <2>4. ASSUME NEW S \in Found(1) PROVE \E t \in 1 .. N : S = {t}
    <3>1. PICK i \in 1 .. Len(pending) : S = pending[i]
      BY <2>1, <2>2, <2>4
    <3>2. i \in 1 .. N /\ S = {i}
      BY <1>3, <3>1, Zenon
    <3> QED
      BY <3>2, Zenon
  <2> QED
    BY <2>3, <2>4
<1>7. Open = Found(1)
  BY <1>1, <1>4 DEF Open, Found
<1>8. DOMAIN rels = {}
  BY <1>1
<1>9. Types
  <2>1. levels \in [1 .. N -> Seq(SUBSET Tables)]
    <3>1. \A k \in 1 .. N : (IF k = 1 THEN pending ELSE << >>) \in Seq(SUBSET Tables)
      BY <1>3
    <3> QED
      BY <1>1, <3>1, Zenon
  <2>2. 1 \in 1 .. N
    BY <1>2
  <2>3. pairs \in Seq((SUBSET Tables) \X (SUBSET Tables))
    BY <1>1
  <2>4. DOMAIN rels \subseteq SUBSET Tables /\ \A S \in DOMAIN rels : rels[S] \in RelOf(q, S)
    BY <1>8
  <2> QED
    BY <1>1, <1>3, <2>1, <2>2, <2>3, <2>4 DEF Types
<1>10. Connected
  <2>1. ASSUME NEW k \in 1 .. N, NEW S \in Found(k) PROVE Cardinality(S) = k /\ JoinsTables(q, S)
    <3>1. k = 1
      BY <1>5, <2>1
    <3>2. PICK t \in 1 .. N : S = {t}
      BY <1>6, <2>1, <3>1
    <3>3. Cardinality({t}) = 1 /\ JoinsTables(q, {t})
      BY FS_Singleton, TableIsConnected
    <3> QED
      BY <3>1, <3>2, <3>3, Zenon
  <2> QED
    BY <2>1 DEF Connected
<1>11. Distinct
  <2>1. ASSUME NEW i \in 1 .. N, NEW j \in 1 .. N, pending[i] = pending[j] PROVE i = j
    <3>1. {i} = {j}
      BY <1>3, <2>1, Zenon
    <3> QED
      BY <3>1, Zenon
  <2>2. DOMAIN pending = 1 .. N /\ DOMAIN << >> = {}
    BY <1>1
  <2>3. ASSUME NEW k \in 1 .. N, NEW i \in DOMAIN levels[k], NEW j \in DOMAIN levels[k],
               levels[k][i] = levels[k][j]
        PROVE  i = j
    BY <1>4, <2>1, <2>2, <2>3
  <2> QED
    BY <2>3 DEF Distinct
<1>12. AllFound
  <2>1. ASSUME NEW S \in SUBSET Tables, Cardinality(S) = 1 PROVE S \in Found(1)
    <3>1. Min(S) \in S /\ Min(S) \in Tables /\ \A t \in S : t = Min(S)
      BY <2>1, OneTable
    <3>2. S = {Min(S)}
      BY <3>1, Zenon
    <3>3. {Min(S)} \in Found(1)
      BY <1>2, <1>6, <3>1
    <3> QED
      BY <3>2, <3>3, Zenon
  <2>2. ASSUME NEW k \in 1 .. N, k < level \/ k = level PROVE k = 1
    BY <1>1, <2>2
  <2> QED
    BY <1>1, <2>1, <2>2 DEF AllFound
<1>13. Place
  <2>1. pending # << >> /\ Range(pending) \subseteq Found(1)
    BY <1>2, <1>3, <1>4 DEF Found
  <2>2. \A k \in 1 .. N : k > 1 => levels[k] = << >>
    BY <1>4
  <2> QED
    BY <1>1, <2>1, <2>2 DEF Place
<1>14. Finished
  BY <1>5, <1>7 DEF Finished
<1>15. PairsJoin /\ PairsTried /\ Outcome
  BY <1>1 DEF PairsJoin, PairsTried, Outcome
<1> QED
  BY <1>9, <1>10, <1>11, <1>12, <1>13, <1>14, <1>15 DEF IInv

\* The states of PostgresDynProg: every level holds the connected sets of its size, each
\* once; the relations that are ready have a cheapest path that is at most one percent
\* above the optimum; and each pair of smaller relations that can be joined is still to
\* come or has been offered in both directions.
THEOREM SearchInvariant == Spec => []IInv
<1>1. Init => IInv
  BY InitStep
<1>2. ASSUME IInv, [Next]_vars PROVE IInv'
  <2>1. CASE SetBaseRelPathlist
    BY <1>2, <2>1, SetBaseRelPathlistStep
  <2>2. CASE JoinSearchOneLevel
    BY <1>2, <2>2, JoinSearchOneLevelStep
  <2>3. CASE JoinPair
    BY <1>2, <2>3, JoinPairStep
  <2>4. CASE EndOfLevel
    BY <1>2, <2>4, EndOfLevelStep
  <2>5. CASE FinishRel
    BY <1>2, <2>5, FinishRelStep
  <2>6. CASE NoFinalRel
    BY <1>2, <2>6, NoFinalRelStep
  <2>7. CASE SelectPlan
    BY <1>2, <2>7, SelectPlanStep
  <2>8. CASE SelectPlanByDatabase
    BY <1>2, <2>8, SelectPlanByDatabaseStep
  <2>9. CASE UNCHANGED vars
    BY <1>2, <2>9, EndedStep
  <2> QED
    BY <1>2, <2>1, <2>2, <2>3, <2>4, <2>5, <2>6, <2>7, <2>8, <2>9 DEF Next, Ended
<1> QED
  BY <1>1, <1>2, PTL DEF Spec

\* A list of legal paths keeps trees.
LEMMA KeptPathsAreTrees ==
  ASSUME NEW S, NEW least, NEW list \in ListOf(PathsOver(q, S, least)), NEW path \in Kept(list)
  PROVE  TreeOver(q, S, path.parts)
<1>1. list.offers \in Seq(PathsOver(q, S, least)) /\ list.kept \subseteq 1 .. Len(list.offers)
  BY DEF ListOf
<1>2. PICK i \in list.kept : path = list.offers[i]
  BY DEF Kept
<1>3. path \in PathsOver(q, S, least)
  BY <1>1, <1>2
<1> QED
  BY <1>3 DEF PathsOver

\* Every path in a path list is a tree over its relation: however the pairs of a level, the
\* two directions of a join and the pruning interact, no path joins a table twice, leaves
\* one out or contains a cross product.
THEOREM EveryPathIsATree == Spec => []PathsAreTrees
<1>1. ASSUME IInv PROVE PathsAreTrees
  <2>1. Types
    BY <1>1 DEF IInv
  <2>2. ASSUME NEW S \in DOMAIN rels, NEW path \in Kept(rels[S].pathlist) \union Kept(rels[S].partial_paths)
        PROVE  TreeOver(q, S, path.parts)
    <3>1. /\ rels[S].pathlist \in ListOf(PathsOver(q, S, Regular(q, S)))
          /\ rels[S].partial_paths \in ListOf(PathsOver(q, S, Partial(q, S)))
      BY <2>1 DEF Types, RelOf
    <3> QED
      BY <3>1, KeptPathsAreTrees
  <2> SUFFICES ASSUME NEW S \in DOMAIN rels,
                      NEW path \in Kept(rels[S].pathlist) \union Kept(rels[S].partial_paths)
               PROVE  /\ S \in path.parts /\ \A t \in S : {t} \in path.parts
                      /\ Cardinality(path.parts) = 2 * Cardinality(S) - 1
                      /\ \A part \in path.parts : Cardinality(part) > 1 =>
                           \E outer \in path.parts : /\ outer # part /\ part \ outer \in path.parts
                                                     /\ outer \subseteq part
                                                     /\ JoinsBetween(q, outer, part \ outer) # {}
    BY DEF PathsAreTrees
  <2> DEFINE parts == path.parts
  <2>3. TreeOver(q, S, parts)
    BY <2>2
  <2> HIDE DEF parts
  <2>4. S \in parts /\ (\A t \in S : {t} \in parts) /\ Cardinality(parts) = 2 * Cardinality(S) - 1
    BY <2>3 DEF TreeOver
  <2>5. \A part \in parts : Cardinality(part) > 1 =>
          \E outer \in parts : /\ outer # part /\ part \ outer \in parts
                               /\ outer \subseteq part
                               /\ JoinsBetween(q, outer, part \ outer) # {}
    BY <2>3, Zenon DEF TreeOver
  <2> QED
    BY <2>4, <2>5, Zenon DEF parts
<1> QED
  BY <1>1, SearchInvariant, PTL

\* The dynamic programming search finds a plan at most one percent above the cheapest one
\* of the whole plan space: the fuzzy pruning of add_path, which is repeated on every level,
\* does not add up.  It fails only if there is nothing to find: no join of all tables
\* without a cross product, or a connected part of the query without a legal path.
THEOREM PlanIsAlmostTheBest == Spec => []PlanIsNearlyOptimal
<1>1. ASSUME IInv PROVE PlanIsNearlyOptimal
  <2>1. Types /\ AllFound /\ Outcome
    BY <1>1 DEF IInv
  <2>2. N \in 1 .. N /\ Tables \in SUBSET Tables /\ Cardinality(Tables) = N
    BY TablesAreCounted DEF N
  <2>3. ASSUME pc = "done", ~q.pg PROVE Near(plan.cost, Optimum(q)[Tables].regular)
    BY <2>1, <2>3 DEF Outcome, Regular
  <2>4. ASSUME pc = "no_rel" PROVE ~JoinsTables(q, Tables)
    BY <2>1, <2>2, <2>4 DEF Outcome, AllFound
  <2>5. ASSUME pc = "no_path"
        PROVE  \E S \in (SUBSET Tables) \ {{}} : JoinsTables(q, S) /\ Optimum(q)[S].regular = Infinite
    BY <2>1, <2>5 DEF Outcome, Regular
  <2> QED
    BY <2>3, <2>4, <2>5 DEF PlanIsNearlyOptimal, Near
<1> QED
  BY <1>1, SearchInvariant, PTL

-------------------------------------------------------------------------------
(* The table of the textbook enumerator. *)

\* A legal plan of a set is a join of two parts, down to the tables.
LEMMA LegalIsConnected ==
  ASSUME NEW qry, IsQuery(qry), NEW S \in SUBSET Tables, Regular(qry, S) # Infinite
  PROVE  JoinsTables(qry, S)
<1>1. CASE Cardinality(S) = 1
  <2>1. S = {Min(S)}
    <3>1. Min(S) \in S /\ \A t \in S : t = Min(S)
      BY <1>1, OneTable
    <3> QED
      BY <3>1, Zenon
  <2>2. JoinsTables(qry, {Min(S)})
    BY TableIsConnected
  <2> QED
    BY <2>1, <2>2, Zenon
<1>2. CASE Cardinality(S) # 1
  <2>1. Regular(qry, S) = GatherPrice(Partial(qry, S)) => Partial(qry, S) # Infinite
    BY GatherPriceGrows
  <2>2. PICK o \in Splits(qry, S) : TRUE
    BY <1>2, <2>1, BestOfJoin
  <2>3. /\ JoinsTables(qry, o) /\ JoinsTables(qry, S \ o) /\ JoinsBetween(qry, o, S \ o) # {}
        /\ o \subseteq S
    BY DEF Splits
  <2>4. JoinsTables(qry, o \union (S \ o))
    BY <2>3, UnionIsConnected
  <2>5. o \union (S \ o) = S
    BY <2>3
  <2> QED
    BY <2>4, <2>5, Zenon
<1> QED
  BY <1>1, <1>2

\* What the textbook enumerator is compared on.
Plain(qry) == /\ ~qry.memoize /\ ~qry.materialize /\ "merge" \notin qry.join_ops
              /\ \A t \in Tables : qry.workers[t] = 0

LEMMA PlainMethods ==
  ASSUME NEW qry, IsQuery(qry), Plain(qry)
  PROVE  /\ \A m \in Methods(qry) : m \in qry.join_ops /\ m # "merge" /\ m # "mat"
         /\ qry.join_ops \subseteq Methods(qry)
<1>1. qry.join_ops \subseteq JoinOperator
  BY QueryType
<1> QED
  BY <1>1 DEF Plain, Methods, JoinMethod, JoinOperator

\* Without workers there are no partial plans.
LEMMA NoPartialPlans ==
  ASSUME NEW qry, IsQuery(qry), Plain(qry)
  PROVE  \A S \in SUBSET Tables : Partial(qry, S) = Infinite
<1> DEFINE m == N + 1
           Sequential == {k \in 0 .. m : \A S \in SUBSET Tables : Cardinality(S) < k => Partial(qry, S) = Infinite}
<1>1. m \in Nat
  BY TablesAreCounted
<1>2. 0 \in Sequential
  <2>1. \A S \in SUBSET Tables : ~(Cardinality(S) < 0)
    BY SubsetsAreFinite
  <2> QED
    BY <1>1, <2>1
<1>3. ASSUME NEW k \in 1 .. m, k - 1 \in Sequential PROVE k \in Sequential
  <2>1. k \in 0 .. m
    BY <1>1
  <2>2. ASSUME NEW S \in SUBSET Tables, Cardinality(S) < k PROVE Partial(qry, S) = Infinite
    <3>1. CASE Cardinality(S) = 1
      <4>1. qry.workers[Min(S)] = 0
        BY <3>1, OneTable DEF Plain
      <4> QED
        BY <3>1, <4>1, BestOfTable
    <3>2. CASE Cardinality(S) # 1
      <4>1. SUFFICES ASSUME Partial(qry, S) # Infinite PROVE FALSE
        OBVIOUS
      <4>2. PICK n \in Methods(qry), o \in Splits(qry, S) :
              Partial(qry, S) = Price(qry, n, S, Partial(qry, o), Regular(qry, S \ o))
        BY <3>2, <4>1, BestOfJoin
      <4>3. o \in SUBSET Tables /\ Cardinality(o) < k - 1
        <5>1. o \in SUBSET S /\ o \in SUBSET Tables /\ o # S
          BY SplitType
        <5>2. Cardinality(o) < Cardinality(S) /\ Cardinality(o) \in Nat /\ Cardinality(S) \in Nat
          BY <5>1, SmallerSubset, SubsetsAreFinite
        <5> QED
          BY <1>1, <2>2, <5>1, <5>2
      <4>4. Partial(qry, o) = Infinite
        BY <1>3, <4>3
      <4>5. Price(qry, n, S, Partial(qry, o), Regular(qry, S \ o)) = Infinite
        BY <4>4, PriceOfIllegal
      <4> QED
        BY <4>1, <4>2, <4>5
    <3> QED
      BY <3>1, <3>2
  <2> QED
    BY <2>1, <2>2
<1>4. \A k \in 0 .. m : k \in Sequential
  <2> HIDE DEF Sequential, m
  <2> QED
    BY <1>1, <1>2, <1>3, SetInduction
<1>5. m \in Sequential
  <2>1. m \in 0 .. m
    BY <1>1
  <2> HIDE DEF Sequential, m
  <2> QED
    BY <1>4, <2>1
<1>6. \A S \in SUBSET Tables : Cardinality(S) < m
  BY SizesAreLess
<1> HIDE DEF m
<1> QED
  BY <1>5, <1>6

\* The least of a set of costs, by what it is the least of.
LEMMA LeastCost ==
  ASSUME NEW costs \in SUBSET Cost, NEW least \in Cost,
         \A c \in costs : c # Infinite => least # Infinite /\ least <= c,
         least # Infinite => least \in costs
  PROVE  Cheaper(costs) = least
<1>1. Cheaper(costs) \in Cost
  BY CheaperIsLeast
<1>2. CASE least = Infinite
  BY <1>2, CheaperIsLeast
<1>3. CASE least # Infinite
  <2>1. Cheaper(costs) # Infinite /\ Cheaper(costs) <= least /\ Cheaper(costs) \in costs
    BY <1>3, CheaperIsLeast
  <2>2. least <= Cheaper(costs)
    BY <2>1
  <2> QED
    BY <1>1, <1>3, <2>1, <2>2 DEF Cost
<1> QED
  BY <1>2, <1>3

\* The entries of the base tables.
LEMMA BaseEntries ==
  ASSUME NEW qry, IsQuery(qry), Plain(qry), NEW S \in SUBSET Tables, Cardinality(S) = 1
  PROVE  Cheaper({qry.cost[op][Min(S)] : op \in ScansOf(qry, Min(S))}) = Regular(qry, S)
<1> DEFINE costs == {qry.cost[op][Min(S)] : op \in ScansOf(qry, Min(S))}
<1>1. Min(S) \in Tables /\ qry.cost \in [ScanOperator -> [Tables -> Cost]] /\ qry.scan_ops \subseteq ScanOperator
  BY OneTable, QueryType
<1>2. costs \in SUBSET Cost
  BY <1>1 DEF ScansOf
<1>3. Regular(qry, S) \in Cost /\ Partial(qry, S) = Infinite /\ GatherPrice(Partial(qry, S)) = Infinite
  BY OptimumType, NoPartialPlans, GatherPriceGrows
<1>4. ASSUME NEW c \in costs, c # Infinite PROVE Regular(qry, S) # Infinite /\ Regular(qry, S) <= c
  BY <1>4, ScanIsAChoice
<1>5. Regular(qry, S) # Infinite => Regular(qry, S) \in costs
  BY <1>3, BestOfTable
<1> HIDE DEF costs
<1>6. Cheaper(costs) = Regular(qry, S)
  BY <1>2, <1>3, <1>4, <1>5, LeastCost
<1> QED
  BY <1>6 DEF costs

\* A table that holds the optimum of all smaller connected sets.
HoldsOptimum(qry, k, dp_table) ==
  /\ \A S : S \in DOMAIN dp_table <=> /\ S \in SUBSET Tables /\ Cardinality(S) \in 1 .. k
                                      /\ JoinsTables(qry, S)
  /\ \A S \in DOMAIN dp_table : dp_table[S] = Regular(qry, S)

LEMMA JoinEntries ==
  ASSUME NEW qry, IsQuery(qry), Plain(qry), NEW k \in Nat, NEW dp_table, HoldsOptimum(qry, k, dp_table),
         NEW S \in SUBSET Tables, Cardinality(S) = k + 1, k # 0, JoinsTables(qry, S)
  PROVE  CheapestPath(qry, S, dp_table) = Regular(qry, S)
<1> DEFINE outers == {outer \in (SUBSET S) \ {{}, S} : {outer, S \ outer} \subseteq DOMAIN dp_table}
           price(op, outer) == Price(qry, op, S, dp_table[outer], dp_table[S \ outer])
           costs == {price(op, outer) : op \in qry.join_ops, outer \in outers}
<1>1. outers = Splits(qry, S)
  <2>1. ASSUME NEW o \in outers PROVE o \in Splits(qry, S)
    <3>1. o \in (SUBSET S) \ {{}, S} /\ o \in DOMAIN dp_table /\ S \ o \in DOMAIN dp_table
      OBVIOUS
    <3>2. JoinsTables(qry, o) /\ JoinsTables(qry, S \ o)
      BY <3>1 DEF HoldsOptimum
    <3>3. JoinsBetween(qry, o, S \ o) # {}
      BY <3>1 DEF JoinsTables
    <3> QED
      BY <3>1, <3>2, <3>3 DEF Splits
  <2>2. ASSUME NEW o \in Splits(qry, S) PROVE o \in outers
    <3>1. /\ o \in SUBSET S /\ o \in SUBSET Tables /\ o # {} /\ o # S
          /\ S \ o \in SUBSET S /\ S \ o \in SUBSET Tables /\ S \ o # {} /\ S \ o # S
          /\ JoinsTables(qry, o) /\ JoinsTables(qry, S \ o)
      BY SplitType DEF Splits
    <3>2. ASSUME NEW p \in SUBSET S, p # {}, p # S PROVE Cardinality(p) \in 1 .. k
      <4>1. p \in SUBSET Tables
        OBVIOUS
      <4>2. IsFiniteSet(p) /\ Cardinality(p) \in Nat /\ Cardinality(S) \in Nat
        BY <4>1, SubsetsAreFinite
      <4>3. Cardinality(p) < Cardinality(S)
        BY <3>2, SmallerSubset
      <4>4. Cardinality(p) # 0
        BY <3>2, <4>2, FS_EmptySet
      <4> QED
        BY <4>2, <4>3, <4>4
    <3>3. o \in DOMAIN dp_table /\ S \ o \in DOMAIN dp_table
      BY <3>1, <3>2 DEF HoldsOptimum
    <3> QED
      BY <3>1, <3>3
  <2> HIDE DEF outers
  <2> QED
    BY <2>1, <2>2
<1>2. \A o \in outers : dp_table[o] = Regular(qry, o) /\ dp_table[S \ o] = Regular(qry, S \ o)
  BY DEF HoldsOptimum
<1>3. CheapestPath(qry, S, dp_table) = Cheaper(costs)
  BY DEF CheapestPath
<1> HIDE DEF outers
<1>4. /\ \A m \in Methods(qry) : m \in qry.join_ops /\ m # "merge" /\ m # "mat"
      /\ qry.join_ops \subseteq Methods(qry) /\ Methods(qry) \subseteq JoinMethod
  BY PlainMethods, MethodType
<1>5. ASSUME NEW c \in costs
      PROVE  \E m \in Methods(qry) : \E o \in Splits(qry, S) :
               c = Price(qry, m, S, Regular(qry, o), Regular(qry, S \ o))
  <2>1. PICK m \in qry.join_ops, o \in outers : c = Price(qry, m, S, dp_table[o], dp_table[S \ o])
    OBVIOUS
  <2>2. m \in Methods(qry) /\ o \in Splits(qry, S)
    BY <1>1, <1>4
  <2>3. dp_table[o] = Regular(qry, o) /\ dp_table[S \ o] = Regular(qry, S \ o)
    BY <1>2, <2>1
  <2> HIDE DEF costs
  <2>4. c = Price(qry, m, S, Regular(qry, o), Regular(qry, S \ o))
    BY <2>1, <2>3
  <2> QED
    BY <2>2, <2>4, Zenon
<1>6. ASSUME NEW m \in Methods(qry), NEW o \in Splits(qry, S)
      PROVE  Price(qry, m, S, Regular(qry, o), Regular(qry, S \ o)) \in costs
  <2>1. m \in qry.join_ops /\ o \in outers
    BY <1>1, <1>4
  <2>2. price(m, o) \in costs
    <3> HIDE DEF price
    <3> QED
      BY <2>1
  <2> HIDE DEF costs
  <2>3. dp_table[o] = Regular(qry, o) /\ dp_table[S \ o] = Regular(qry, S \ o)
    BY <1>2, <2>1
  <2> QED
    BY <2>2, <2>3
<1>7. Regular(qry, S) \in Cost /\ Partial(qry, S) = Infinite /\ GatherPrice(Partial(qry, S)) = Infinite
  BY OptimumType, NoPartialPlans, GatherPriceGrows
<1>8. Cardinality(S) # 1
  OBVIOUS
<1> HIDE DEF costs
<1>9. costs \in SUBSET Cost
  <2>1. ASSUME NEW c \in costs PROVE c \in Cost
    <3>1. PICK m \in Methods(qry), o \in Splits(qry, S) :
            c = Price(qry, m, S, Regular(qry, o), Regular(qry, S \ o))
      BY <1>5
    <3>2. Regular(qry, o) \in Cost /\ Regular(qry, S \ o) \in Cost
      BY SplitType, OptimumType
    <3> QED
      BY <1>4, <3>1, <3>2, PriceType
  <2> QED
    BY <2>1
<1>10. ASSUME NEW c \in costs, c # Infinite PROVE Regular(qry, S) # Infinite /\ Regular(qry, S) <= c
  <2>1. PICK m \in Methods(qry), o \in Splits(qry, S) :
          c = Price(qry, m, S, Regular(qry, o), Regular(qry, S \ o))
    BY <1>5
  <2> QED
    BY <1>4, <1>8, <1>10, <2>1, JoinIsAChoice
<1>11. Regular(qry, S) # Infinite => Regular(qry, S) \in costs
  BY <1>6, <1>7, <1>8, BestOfJoin
<1> QED
  BY <1>3, <1>7, <1>9, <1>10, <1>11, LeastCost

LEMMA NextEntries ==
  ASSUME NEW qry, IsQuery(qry), Plain(qry), NEW k \in 2 .. N, NEW dp_table, HoldsOptimum(qry, k - 1, dp_table)
  PROVE  HoldsOptimum(qry, k, BuildLevel(qry, k, dp_table))
<1> DEFINE found == {S \in kSubset(k, Tables) : JoinsTables(qry, S)}
           next == [S \in found \union DOMAIN dp_table |->
                      IF S \in found THEN CheapestPath(qry, S, dp_table) ELSE dp_table[S]]
<1>1. BuildLevel(qry, k, dp_table) = next
  BY DEF BuildLevel
<1>2. \A S : S \in found <=> S \in SUBSET Tables /\ Cardinality(S) = k /\ JoinsTables(qry, S)
  BY DEF kSubset
<1> HIDE DEF found
<1>3. DOMAIN next = found \union DOMAIN dp_table
  OBVIOUS
<1>4. /\ \A S \in found : next[S] = CheapestPath(qry, S, dp_table)
      /\ \A S \in DOMAIN dp_table : S \notin found => next[S] = dp_table[S]
  OBVIOUS
<1> HIDE DEF next
<1>5. k \in Nat /\ k - 1 \in Nat /\ k - 1 # 0 /\ (k - 1) + 1 = k
      /\ \A n : n \in 1 .. k <=> n \in 1 .. k - 1 \/ n = k
  BY TablesAreCounted
<1>6. ASSUME NEW S
      PROVE  S \in DOMAIN next <=> S \in SUBSET Tables /\ Cardinality(S) \in 1 .. k /\ JoinsTables(qry, S)
  BY <1>2, <1>3, <1>5 DEF HoldsOptimum
<1>7. ASSUME NEW S \in DOMAIN next PROVE next[S] = Regular(qry, S)
  <2>1. CASE S \in found
    <3>1. S \in SUBSET Tables /\ Cardinality(S) = (k - 1) + 1 /\ JoinsTables(qry, S)
      BY <1>2, <1>5, <2>1
    <3>2. CheapestPath(qry, S, dp_table) = Regular(qry, S)
      BY <1>5, <3>1, JoinEntries
    <3> QED
      BY <1>4, <2>1, <3>2
  <2>2. CASE S \notin found
    BY <1>3, <1>4, <2>2 DEF HoldsOptimum
  <2> QED
    BY <2>1, <2>2
<1> QED
  BY <1>1, <1>6, <1>7 DEF HoldsOptimum

LEMMA FirstEntries ==
  ASSUME NEW qry, IsQuery(qry), Plain(qry)
  PROVE  HoldsOptimum(qry, 1, BaseAccessPaths(qry))
<1> DEFINE base == [S \in {{t} : t \in Tables} |-> Cheaper({qry.cost[op][Min(S)] : op \in ScansOf(qry, Min(S))})]
           singles == {{t} : t \in Tables}
<1>1. BaseAccessPaths(qry) = base /\ DOMAIN base = singles
  BY DEF BaseAccessPaths
<1>2. ASSUME NEW S \in singles PROVE S \in SUBSET Tables /\ Cardinality(S) = 1 /\ JoinsTables(qry, S)
  <2>1. PICK t \in Tables : S = {t}
    OBVIOUS
  <2>2. Cardinality({t}) = 1 /\ JoinsTables(qry, {t}) /\ {t} \in SUBSET Tables
    BY FS_Singleton, TableIsConnected
  <2> QED
    BY <2>1, <2>2, Zenon
<1>3. ASSUME NEW S \in SUBSET Tables, Cardinality(S) = 1 PROVE S \in singles
  <2>1. Min(S) \in S /\ Min(S) \in Tables /\ \A t \in S : t = Min(S)
    BY <1>3, OneTable
  <2>2. S = {Min(S)}
    BY <2>1, Zenon
  <2> QED
    BY <2>1, <2>2, Zenon
<1>4. ASSUME NEW S \in singles PROVE base[S] = Regular(qry, S)
  <2>1. base[S] = Cheaper({qry.cost[op][Min(S)] : op \in ScansOf(qry, Min(S))})
    OBVIOUS
  <2> HIDE DEF base, singles
  <2> QED
    BY <1>2, <2>1, BaseEntries
<1>5. \A n : n \in 1 .. 1 <=> n = 1
  OBVIOUS
<1> HIDE DEF base, singles
<1>6. \A S : S \in DOMAIN base <=> S \in SUBSET Tables /\ Cardinality(S) \in 1 .. 1 /\ JoinsTables(qry, S)
  BY <1>1, <1>2, <1>3, <1>5
<1> QED
  BY <1>1, <1>4, <1>6 DEF HoldsOptimum

LEMMA OptimumIsTheTable ==
  ASSUME NEW qry, NEW k, NEW f, HoldsOptimum(qry, k, f), f = [S \in DOMAIN f |-> f[S]]
  PROVE  f = [S \in {R \in SUBSET Tables : Cardinality(R) \in 1 .. k /\ JoinsTables(qry, R)} |-> Regular(qry, S)]
<1> DEFINE All == {R \in SUBSET Tables : Cardinality(R) \in 1 .. k /\ JoinsTables(qry, R)}
           g == [S \in All |-> Regular(qry, S)]
<1>1. \A S : S \in DOMAIN f <=> S \in All
  BY DEF HoldsOptimum
<1>2. \A S \in DOMAIN f : f[S] = Regular(qry, S)
  BY DEF HoldsOptimum
<1> HIDE DEF All
<1>3. DOMAIN f = All
  BY <1>1
<1>4. f = g
  BY <1>2, <1>3
<1> QED
  BY <1>4 DEF All

\* The recursion of DPTable has a solution, and each solution holds the optimum.
LEMMA TableIsOptimal ==
  ASSUME NEW qry, IsQuery(qry), Plain(qry)
  PROVE  HoldsOptimum(qry, N, DPTable(qry))
<1> DEFINE next(h) == [k \in 1 .. N |-> IF k = 1 THEN BaseAccessPaths(qry)
                                        ELSE BuildLevel(qry, k, h[k - 1])]
           Rec(h) == h = next(h)
           best(k) == [S \in {R \in SUBSET Tables : Cardinality(R) \in 1 .. k /\ JoinsTables(qry, R)} |-> Regular(qry, S)]
           f == [k \in 1 .. N |-> best(k)]
<1>1. N \in Nat /\ N \in 1 .. N /\ 1 \in 1 .. N
  BY TablesAreCounted
<1>2. \A k : HoldsOptimum(qry, k, best(k))
  BY DEF HoldsOptimum
<1>3. BaseAccessPaths(qry) = best(1)
  <2>1. BaseAccessPaths(qry) = [S \in DOMAIN BaseAccessPaths(qry) |-> BaseAccessPaths(qry)[S]]
    BY DEF BaseAccessPaths
  <2> QED
    BY <2>1, FirstEntries, OptimumIsTheTable
<1> HIDE DEF best
<1>4. ASSUME NEW k \in 2 .. N PROVE BuildLevel(qry, k, best(k - 1)) = best(k)
  <2> DEFINE table == BuildLevel(qry, k, best(k - 1))
  <2>1. table = [S \in DOMAIN table |-> table[S]]
    BY DEF BuildLevel
  <2>2. HoldsOptimum(qry, k, table)
    BY <1>2, NextEntries
  <2> HIDE DEF table
  <2>3. table = best(k)
    BY <2>1, <2>2, OptimumIsTheTable DEF best
  <2> QED
    BY <2>3 DEF table
<1>5. Rec(f)
  <2>1. ASSUME NEW k \in 1 .. N
        PROVE  f[k] = IF k = 1 THEN BaseAccessPaths(qry) ELSE BuildLevel(qry, k, f[k - 1])
    <3>1. f[k] = best(k)
      OBVIOUS
    <3>2. CASE k = 1
      BY <1>3, <3>1, <3>2
    <3>3. CASE k # 1
      <4>1. k \in 2 .. N /\ k - 1 \in 1 .. N
        BY <1>1, <3>3
      <4>2. f[k - 1] = best(k - 1)
        BY <4>1
      <4> HIDE DEF f
      <4> QED
        BY <1>4, <3>1, <3>3, <4>1, <4>2
    <3> QED
      BY <3>2, <3>3
  <2>2. f = [k \in 1 .. N |-> f[k]]
    OBVIOUS
  <2> HIDE DEF f
  <2> QED
    BY <2>1, <2>2
<1> DEFINE g == CHOOSE h : Rec(h)
<1>6. Rec(g)
  <2> HIDE DEF Rec, f
  <2> QED
    BY <1>5
<1>7. DPTable(qry) = g[N]
  BY DEF DPTable, N
<1> HIDE DEF g, f
<1>8. /\ g[1] = BaseAccessPaths(qry)
      /\ \A k \in 2 .. N : g[k] = BuildLevel(qry, k, g[k - 1])
  <2> DEFINE h == next(g)
  <2>1. /\ h[1] = BaseAccessPaths(qry)
        /\ \A k \in 1 .. N : k # 1 => h[k] = BuildLevel(qry, k, g[k - 1])
    BY <1>1
  <2>2. g = h
    BY <1>6
  <2>3. \A k \in 2 .. N : k \in 1 .. N /\ k # 1
    BY <1>1
  <2> HIDE DEF h
  <2> QED
    BY <2>1, <2>2, <2>3
<1> HIDE DEF next, Rec
<1> DEFINE Good == {k \in 0 .. N : k = 0 \/ HoldsOptimum(qry, k, g[k])}
<1>9. 0 \in Good
  BY <1>1
<1>10. ASSUME NEW k \in 1 .. N, k - 1 \in Good PROVE k \in Good
  <2>1. CASE k = 1
    BY <1>1, <1>8, <2>1, FirstEntries
  <2>2. CASE k # 1
    <3>1. k \in 2 .. N /\ k - 1 # 0 /\ k \in 0 .. N
      BY <1>1, <2>2
    <3>2. HoldsOptimum(qry, k - 1, g[k - 1])
      BY <1>10, <3>1
    <3>3. HoldsOptimum(qry, k, BuildLevel(qry, k, g[k - 1]))
      BY <3>1, <3>2, NextEntries
    <3> QED
      BY <1>8, <3>1, <3>3
  <2> QED
    BY <2>1, <2>2
<1>11. \A k \in 0 .. N : k \in Good
  <2> HIDE DEF Good
  <2> QED
    BY <1>1, <1>9, <1>10, SetInduction
<1> QED
  BY <1>1, <1>7, <1>11

-------------------------------------------------------------------------------
(* Two queries, one of which can be planned in more ways. *)

\* Whatever scans, joins and methods qry has, more has as well, and at the same costs.
Wider(qry, more) ==
  /\ qry.joins \subseteq more.joins /\ Methods(qry) \subseteq Methods(more)
  /\ qry.cost = more.cost /\ qry.rows = more.rows /\ qry.illegal = more.illegal
  /\ \A t \in Tables : ScansOf(qry, t) \subseteq ScansOf(more, t)

LEMMA WiderPrice ==
  ASSUME NEW qry, NEW more, Wider(qry, more), NEW m, NEW S, NEW outer, NEW inner
  PROVE  Price(qry, m, S, outer, inner) = Price(more, m, S, outer, inner)
BY DEF Wider, Price

LEMMA WiderSplits ==
  ASSUME NEW qry, NEW more, Wider(qry, more), NEW S
  PROVE  Splits(qry, S) \subseteq Splits(more, S)
<1>1. \A a, b : JoinsBetween(qry, a, b) \subseteq JoinsBetween(more, a, b)
  BY DEF Wider, JoinsBetween
<1>2. \A R : JoinsTables(qry, R) => JoinsTables(more, R)
  BY <1>1 DEF JoinsTables
<1>. QED BY <1>1, <1>2 DEF Splits

\* A plan of qry that uses no workers is a plan of more.
LEMMA WiderIsCheaper ==
  ASSUME NEW qry, IsQuery(qry), NEW more, IsQuery(more), Plain(qry), Wider(qry, more)
  PROVE  \A S \in SUBSET Tables : Regular(qry, S) # Infinite =>
           Regular(more, S) # Infinite /\ Regular(more, S) <= Regular(qry, S)
<1> DEFINE m == N + 1
           below(S) == Regular(qry, S) # Infinite =>
                         Regular(more, S) # Infinite /\ Regular(more, S) <= Regular(qry, S)
           Cheaper2 == {k \in 0 .. m : \A S \in SUBSET Tables : Cardinality(S) < k => below(S)}
<1>1. m \in Nat
  BY TablesAreCounted
<1>2. 0 \in Cheaper2
  <2>1. \A S \in SUBSET Tables : ~(Cardinality(S) < 0)
    BY SubsetsAreFinite
  <2> QED
    BY <1>1, <2>1
<1>3. ASSUME NEW k \in 1 .. m, k - 1 \in Cheaper2 PROVE k \in Cheaper2
  <2>1. k \in 0 .. m
    BY <1>1
  <2>2. ASSUME NEW S \in SUBSET Tables, Cardinality(S) < k, Regular(qry, S) # Infinite
        PROVE  Regular(more, S) # Infinite /\ Regular(more, S) <= Regular(qry, S)
    <3>1. GatherPrice(Partial(qry, S)) = Infinite
      BY NoPartialPlans, GatherPriceGrows
    <3>2. CASE Cardinality(S) = 1
      <4>1. PICK op \in ScansOf(qry, Min(S)) : Regular(qry, S) = qry.cost[op][Min(S)]
        BY <2>2, <3>1, <3>2, BestOfTable
      <4>2. op \in ScansOf(more, Min(S)) /\ more.cost = qry.cost
        BY <3>2, <4>1, OneTable DEF Wider
      <4> QED
        BY <2>2, <3>2, <4>1, <4>2, ScanIsAChoice
    <3>3. CASE Cardinality(S) # 1
      <4>1. PICK n \in Methods(qry), o \in Splits(qry, S) :
              Regular(qry, S) = Price(qry, n, S, Regular(qry, o), Regular(qry, S \ o))
        BY <2>2, <3>1, <3>3, BestOfJoin
      <4>2. n \in Methods(more) /\ o \in Splits(more, S) /\ n # "merge" /\ n # "mat"
        BY WiderSplits, PlainMethods DEF Wider
      <4>3. /\ o \in SUBSET Tables /\ S \ o \in SUBSET Tables
            /\ Cardinality(o) < k - 1 /\ Cardinality(S \ o) < k - 1
        <5>1. o \in SUBSET S /\ o \in SUBSET Tables /\ o # S /\ o # {}
          BY SplitType
        <5>2. S \ o \in SUBSET S /\ S \ o \in SUBSET Tables /\ S \ o # S
          BY <5>1
        <5>3. /\ Cardinality(o) < Cardinality(S) /\ Cardinality(S \ o) < Cardinality(S)
              /\ Cardinality(o) \in Nat /\ Cardinality(S \ o) \in Nat /\ Cardinality(S) \in Nat
          BY <5>1, <5>2, SmallerSubset, SubsetsAreFinite
        <5> QED
          BY <1>1, <2>2, <5>1, <5>2, <5>3
      <4>4. Regular(qry, o) # Infinite /\ Regular(qry, S \ o) # Infinite
        BY <2>2, <4>1, PriceOfIllegal
      <4>5. below(o) /\ below(S \ o)
        BY <1>3, <4>3
      <4> HIDE DEF Cheaper2
      <4>6. /\ Regular(more, o) # Infinite /\ Regular(more, o) <= Regular(qry, o)
            /\ Regular(more, S \ o) # Infinite /\ Regular(more, S \ o) <= Regular(qry, S \ o)
        BY <4>4, <4>5
      <4>7. {Regular(qry, o), Regular(qry, S \ o), Regular(more, o), Regular(more, S \ o)} \subseteq Cost
        BY <4>3, OptimumType
      <4>8. /\ Price(more, n, S, Regular(qry, o), Regular(qry, S \ o)) = Regular(qry, S)
            /\ Price(more, n, S, Regular(more, o), Regular(more, S \ o)) # Infinite
            /\ Price(more, n, S, Regular(more, o), Regular(more, S \ o)) <= Regular(qry, S)
        <5>1. n \in JoinMethod /\ Price(more, n, S, Regular(qry, o), Regular(qry, S \ o)) = Regular(qry, S)
          BY <4>1, <4>2, WiderPrice, MethodType
        <5>2. << n, S >> \notin more.illegal
          BY <2>2, <5>1, PriceOfIllegal
        <5>3. /\ Regular(qry, o) \in Nat /\ Regular(qry, S \ o) \in Nat
              /\ Regular(more, o) \in Nat /\ Regular(more, S \ o) \in Nat
          BY <4>4, <4>6, <4>7 DEF Cost
        <5> QED
          BY <4>6, <5>1, <5>2, <5>3, PriceGrows
      <4>9. /\ Regular(more, S) # Infinite
            /\ Regular(more, S) <= Price(more, n, S, Regular(more, o), Regular(more, S \ o))
        BY <3>3, <4>2, <4>8, JoinIsAChoice
      <4>10. /\ Regular(more, S) \in Cost /\ Regular(qry, S) \in Cost
             /\ Price(more, n, S, Regular(more, o), Regular(more, S \ o)) \in Cost
        BY <4>2, <4>7, OptimumType, PriceType, MethodType
      <4> QED
        BY <2>2, <4>8, <4>9, <4>10 DEF Cost
    <3> QED
      BY <3>2, <3>3
  <2> QED
    BY <2>1, <2>2
<1>4. \A k \in 0 .. m : k \in Cheaper2
  <2> HIDE DEF Cheaper2, m
  <2> QED
    BY <1>1, <1>2, <1>3, SetInduction
<1>5. m \in Cheaper2
  <2>1. m \in 0 .. m
    BY <1>1
  <2> HIDE DEF Cheaper2, m
  <2> QED
    BY <1>4, <2>1
<1>6. \A S \in SUBSET Tables : Cardinality(S) < m
  BY SizesAreLess
<1> HIDE DEF m, below
<1>7. \A S \in SUBSET Tables : below(S)
  BY <1>5, <1>6
<1> QED
  BY <1>7 DEF below

-------------------------------------------------------------------------------
(* A query as it is written. *)

LEMMA WrittenFields ==
  ASSUME NEW qry \in Queries
  PROVE  LET w == AsWritten(qry) IN
         /\ w.joins = StatedJoins(qry.predicates)
         /\ w.cost = qry.cost /\ w.rows = qry.rows /\ w.illegal = qry.illegal
         /\ w.scan_ops = qry.scan_ops /\ w.join_ops = qry.join_ops /\ w.pg = qry.pg
         /\ w.memoize = FALSE /\ w.materialize = FALSE /\ w.workers = [t \in Tables |-> 0]
BY QueriesAssumption DEF AsWritten, Query

\* The two columns and the two tables of a stated join.
HasTwoColumns(qry, p) ==
  \E c, d \in UNION qry.predicates : /\ p = {c, d} /\ TablesOf(p) = {c[1], d[1]}
                                    /\ c[1] \in Tables /\ d[1] \in Tables

LEMMA StatedPredicate ==
  ASSUME NEW qry \in Queries, NEW p \in qry.predicates
  PROVE  /\ Cardinality(TablesOf(p)) = 2 /\ TablesOf(p) \in StatedJoins(qry.predicates)
         /\ HasTwoColumns(qry, p)
<1>2. PICK c, d \in Tables \X ColumnNames : p = {c, d} /\ c[1] # d[1]
  BY QueriesAssumption
<1>3. TablesOf(p) = {c[1], d[1]}
  BY <1>2 DEF TablesOf
<1>4. Cardinality(TablesOf(p)) = 2
  <2>1. TablesOf(p) = {c[1]} \union {d[1]} /\ d[1] \notin {c[1]}
    BY <1>2, <1>3
  <2>2. IsFiniteSet({c[1]}) /\ Cardinality({c[1]}) = 1
    BY FS_Singleton
  <2>. QED BY <2>1, <2>2, FS_AddElement
<1>5. TablesOf(p) \in StatedJoins(qry.predicates)
  BY DEF StatedJoins
<1>6. c \in UNION qry.predicates /\ d \in UNION qry.predicates
  BY <1>2
<1>7. c[1] \in Tables /\ d[1] \in Tables
  BY <1>2
<1>. QED BY <1>2, <1>3, <1>4, <1>5, <1>6, <1>7 DEF HasTwoColumns

\* The expansion keeps the joins that are stated ...
LEMMA StatedIsExpanded ==
  ASSUME NEW qry \in Queries
  PROVE  StatedJoins(qry.predicates) \subseteq qry.joins
<1>1. qry.joins = ExpandedJoins(qry.predicates)
  BY QueriesAssumption
<1>2. ASSUME NEW p \in qry.predicates PROVE TablesOf(p) \in ExpandedJoins(qry.predicates)
  <2>0. HasTwoColumns(qry, p)
    BY StatedPredicate
  <2>1. PICK c, d \in UNION qry.predicates : /\ p = {c, d} /\ TablesOf(p) = {c[1], d[1]}
                                             /\ c[1] \in Tables /\ d[1] \in Tables
    BY <2>0 DEF HasTwoColumns
  <2>2. Equivalent(qry.predicates, c, d)
    BY <2>1 DEF Equivalent
  <2>3. TablesOf(p) \in SUBSET Tables /\ Cardinality(TablesOf(p)) = 2
    BY <2>1, StatedPredicate
  <2>. QED BY <2>1, <2>2, <2>3 DEF ExpandedJoins, kSubset
<1>. QED BY <1>1, <1>2 DEF StatedJoins

\* ... and connects nothing that was apart: a part of the tables that no stated join leaves
\* holds the columns of each class as a whole or not at all.
LEMMA ExpansionKeepsParts ==
  ASSUME NEW qry \in Queries, NEW part \in SUBSET Tables,
         JoinsBetween(AsWritten(qry), part, Tables \ part) = {}
  PROVE  JoinsBetween(qry, part, Tables \ part) = {}
<1> DEFINE columns == {c \in UNION qry.predicates : c[1] \in part}
<1>1. qry.joins = ExpandedJoins(qry.predicates) /\ AsWritten(qry).joins = StatedJoins(qry.predicates)
  BY QueriesAssumption, WrittenFields
<1>2. ASSUME NEW p \in qry.predicates PROVE p \subseteq columns \/ p \intersect columns = {}
  <2>0. HasTwoColumns(qry, p)
    BY StatedPredicate
  <2>1. PICK c, d \in UNION qry.predicates : /\ p = {c, d} /\ TablesOf(p) = {c[1], d[1]}
                                             /\ c[1] \in Tables /\ d[1] \in Tables
    BY <2>0 DEF HasTwoColumns
  <2>2. TablesOf(p) \in AsWritten(qry).joins
    BY <1>1, StatedPredicate
  <2>3. ASSUME NEW a \in part, NEW b \in Tables \ part, TablesOf(p) = {a, b} PROVE FALSE
    BY <2>2, <2>3 DEF JoinsBetween
  <2>4. {c[1], d[1]} = {d[1], c[1]}
    OBVIOUS
  <2>5. c[1] \in part <=> d[1] \in part
    BY <2>1, <2>3, <2>4
  <2>. QED BY <2>1, <2>5
<1>3. ASSUME NEW e \in JoinsBetween(qry, part, Tables \ part) PROVE FALSE
  <2>1. PICK a \in part, b \in Tables \ part : e = {a, b} /\ e \in ExpandedJoins(qry.predicates)
    BY <1>1 DEF JoinsBetween
  <2>2. PICK c, d \in UNION qry.predicates : e = {c[1], d[1]} /\ Equivalent(qry.predicates, c, d)
    BY <2>1 DEF ExpandedJoins
  <2>3. columns \in SUBSET (UNION qry.predicates) /\ (UNION qry.predicates) \ columns \in SUBSET (UNION qry.predicates)
    OBVIOUS
  <2>4. \A p \in qry.predicates : LET rest == (UNION qry.predicates) \ columns IN
          p \subseteq rest \/ p \intersect rest = {}
    BY <1>2
  <2> HIDE DEF columns
  <2>5. (c \in columns => d \in columns)
        /\ (c \in (UNION qry.predicates) \ columns => d \in (UNION qry.predicates) \ columns)
    BY <1>2, <2>2, <2>3, <2>4 DEF Equivalent
  <2> USE DEF columns
  <2>6. c[1] \in part <=> d[1] \in part
    BY <2>5
  <2>. QED BY <2>1, <2>2, <2>6
<1>. QED BY <1>3

LEMMA WrittenIsConnected ==
  ASSUME NEW qry \in Queries, JoinsTables(qry, Tables)
  PROVE  JoinsTables(AsWritten(qry), Tables)
BY ExpansionKeepsParts DEF JoinsTables

LEMMA WrittenIsAQuery ==
  ASSUME NEW qry \in Queries
  PROVE  IsQuery(AsWritten(qry))
<1> DEFINE w == AsWritten(qry)
<1>1. /\ w.joins = StatedJoins(qry.predicates)
      /\ w.cost = qry.cost /\ w.rows = qry.rows
      /\ w.scan_ops = qry.scan_ops /\ w.join_ops = qry.join_ops /\ w.pg = qry.pg
      /\ w.memoize = FALSE /\ w.materialize = FALSE /\ w.workers = [t \in Tables |-> 0]
  BY WrittenFields
<1>2. IsQuery(qry) /\ StatedJoins(qry.predicates) \subseteq qry.joins
  BY StatedIsExpanded, QueriesAreTyped
<1>3. w.joins \subseteq {e \in SUBSET Tables : Cardinality(e) = 2}
  BY <1>1, <1>2 DEF IsQuery
<1>4. w.workers \in [Tables -> Nat] /\ {w.memoize, w.materialize, w.pg} \subseteq BOOLEAN
  <2>1. qry.pg \in BOOLEAN
    BY <1>2 DEF IsQuery
  <2>2. [t \in Tables |-> 0] \in [Tables -> Nat]
    OBVIOUS
  <2> HIDE DEF w
  <2>. QED BY <1>1, <2>1, <2>2
<1>5. /\ w.cost \in [ScanOperator -> [Tables -> Cost]] /\ w.rows \in [SUBSET Tables -> Nat]
      /\ w.scan_ops \subseteq ScanOperator /\ w.join_ops \subseteq JoinOperator
  BY <1>1, <1>2 DEF IsQuery
<1> HIDE DEF w
<1>6. IsQuery(w)
  BY <1>3, <1>4, <1>5 DEF IsQuery
<1>. QED BY <1>6 DEF w

-------------------------------------------------------------------------------
(* The two enumerators. *)

LEMMA QueryIsGiven == Spec => [](q \in Queries)
<1>1. Init => q \in Queries
  BY DEF Init
<1>2. q \in Queries /\ [Next]_vars => (q \in Queries)'
  BY DEF Next, vars, SetBaseRelPathlist, JoinSearchOneLevel, JoinPair, EndOfLevel, FinishRel, Complete,
     NoFinalRel, SelectPlan, SelectPlanByDatabase, Ended
<1>. QED BY <1>1, <1>2, PTL DEF Spec

\* PostgresDynProg joins along equivalence classes, with inner variants and with workers, and
\* has every plan of DynamicProgrammingEnumerator unless there are merge joins or scans that a
\* star allows: its plan costs at most one percent more than that of the other enumerator,
\* which looks for the query as it is written; where both have the same plans, neither does
\* better than by this percent.
THEOREM NeverWorseThanTextbook == Spec => []NotWorseThanTextbook
<1>1. ASSUME IInv, q \in Queries PROVE NotWorseThanTextbook
  <2> DEFINE written == AsWritten(q)
  <2>1. SUFFICES ASSUME pc = "done", ~q.pg, "merge" \notin q.join_ops,
                        \A t \in Tables : ScansOf(written, t) \subseteq ScansOf(q, t)
                 PROVE  /\ FinalPlanCost(q) # Infinite => 100 * plan.cost <= 101 * FinalPlanCost(q)
                        /\ SamePlans => FinalPlanCost(q) # Infinite /\ FinalPlanCost(q) <= plan.cost
    BY DEF NotWorseThanTextbook
  <2>2. IsQuery(q) /\ IsQuery(written)
    BY <1>1, QueriesAreTyped, WrittenIsAQuery
  <2>3. Near(plan.cost, Regular(q, Tables))
    BY <1>1, <2>1 DEF IInv, Outcome
  <2>4. N \in 1 .. N /\ Tables \in SUBSET Tables /\ Cardinality(Tables) = N
    BY TablesAreCounted DEF N
  <2>5. JoinsTables(q, Tables)
    BY <2>2, <2>3, <2>4, LegalIsConnected DEF Near
  <2>6. /\ written.joins = StatedJoins(q.predicates)
        /\ written.cost = q.cost /\ written.rows = q.rows /\ written.illegal = q.illegal
        /\ written.join_ops = q.join_ops /\ ~written.memoize /\ ~written.materialize
        /\ \A t \in Tables : written.workers[t] = 0
    BY <1>1, WrittenFields
  <2>7. JoinsTables(written, Tables)
    BY <1>1, <2>5, WrittenIsConnected
  <2>8. FinalPlanCost(q) = DPTable(written)[Tables]
    BY DEF FinalPlanCost
  <2> HIDE DEF written
  <2>9. Plain(written)
    BY <2>1, <2>6 DEF Plain
  <2>10. FinalPlanCost(q) = Regular(written, Tables)
    <3>1. HoldsOptimum(written, N, DPTable(written))
      BY <2>2, <2>9, TableIsOptimal
    <3> QED
      BY <2>4, <2>7, <2>8, <3>1 DEF HoldsOptimum
  <2>11. Methods(written) \subseteq Methods(q)
    BY <2>6 DEF Methods
  <2>12. Wider(written, q)
    BY <1>1, <2>1, <2>6, <2>11, StatedIsExpanded DEF Wider
  <2>13. Regular(written, Tables) # Infinite => Regular(q, Tables) <= Regular(written, Tables)
    BY <2>2, <2>4, <2>9, <2>12, WiderIsCheaper
  <2>14. ASSUME SamePlans PROVE Regular(written, Tables) # Infinite /\ Regular(written, Tables) <= Regular(q, Tables)
    <3>1. Plain(q) /\ q.joins = written.joins /\ \A t \in Tables : ScansOf(q, t) = ScansOf(written, t)
      BY <2>1, <2>6, <2>14 DEF Plain, SamePlans, SameScans, written
    <3>2. Methods(q) \subseteq Methods(written)
      BY <2>1, <2>6, <3>1 DEF Methods, Plain
    <3>3. Wider(q, written)
      BY <2>6, <3>1, <3>2 DEF Wider
    <3>4. Regular(q, Tables) # Infinite
      BY <2>3 DEF Near
    <3> QED
      BY <2>2, <2>4, <3>1, <3>3, <3>4, WiderIsCheaper
  <2>15. Regular(q, Tables) \in Cost /\ Regular(written, Tables) \in Cost
    BY <2>2, <2>4, OptimumType
  <2>16. /\ Regular(q, Tables) \in Nat /\ Regular(q, Tables) <= plan.cost
         /\ 100 * plan.cost <= 101 * Regular(q, Tables)
    BY <2>3, <2>15 DEF Near, Cost
  <2>17. plan.cost \in Nat
    BY <1>1, <2>1 DEF IInv, Outcome
  <2>18. FinalPlanCost(q) # Infinite => 100 * plan.cost <= 101 * FinalPlanCost(q)
    <3>1. SUFFICES ASSUME Regular(written, Tables) # Infinite
                   PROVE  100 * plan.cost <= 101 * Regular(written, Tables)
      BY <2>10
    <3>2. Regular(written, Tables) \in Nat /\ Regular(q, Tables) <= Regular(written, Tables)
      BY <2>13, <2>15, <3>1 DEF Cost
    <3> QED
      BY <2>16, <2>17, <3>2
  <2>19. ASSUME SamePlans PROVE FinalPlanCost(q) # Infinite /\ FinalPlanCost(q) <= plan.cost
    <3>1. Regular(written, Tables) \in Nat /\ Regular(written, Tables) # Infinite
          /\ Regular(written, Tables) <= Regular(q, Tables)
      BY <2>14, <2>15, <2>19 DEF Cost
    <3> QED
      BY <2>10, <2>16, <2>17, <3>1
  <2> QED
    BY <2>18, <2>19
<1> QED
  BY <1>1, SearchInvariant, QueryIsGiven, PTL
===============================================================================
