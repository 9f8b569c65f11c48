----------------------------- MODULE AddPathProofs -----------------------------
(***************************************************************************)
(* The pruning of AddPath for all sort keys and costs and for any number   *)
(* of offers: what the lists hold, and that pruning loses at most one      *)
(* percent however many paths replace one another.                         *)
(***************************************************************************)
EXTENDS AddPath, SequenceTheorems, WellFoundedInduction, TLAPS

\* Every nonempty set of naturals has a least element.
LEMMA LeastNatural ==
  ASSUME NEW S \in SUBSET Nat, S # {}
  PROVE  \E m \in S : \A n \in S : m <= n
<1>1. \A x, y \in Nat : x < y => << x, y >> \in OpToRel(<, Nat)
  BY DEF OpToRel
<1>2. PICK m \in S : \A n \in S : ~(<< n, m >> \in OpToRel(<, Nat))
  BY WFMin, NatLessThanWellFounded
<1>3. \A n \in S : ~(n < m)
  BY <1>1, <1>2
<1>4. \A n \in S : m <= n
  BY <1>3
<1> QED BY <1>4

\* Min of the scan that stops at the first better path is what it should be.
LEMMA MinIsLeast ==
  ASSUME NEW S \in SUBSET Nat, S # {}
  PROVE  Min(S) \in S /\ \A n \in S : Min(S) <= n
BY LeastNatural DEF Min

LEMMA PathTypes ==
  /\ \A p \in LegalPath : p \in Path /\ p.cost \in Nat /\ p.cost # Infinite
  /\ \A p \in Path : p.cost # Infinite => p \in LegalPath
<1>1. ASSUME NEW p \in LegalPath
      PROVE  p \in Path /\ p.cost \in Nat /\ p.cost # Infinite
  <2>1. p.cost \in Costs /\ p.sort \in SortKeys \union {{}}
    BY <1>1 DEF LegalPath
  <2>2. p = [sort |-> p.sort, cost |-> p.cost]
    BY <1>1 DEF LegalPath
  <2>3. p \in Path
    BY <2>1, <2>2 DEF Path
  <2>4. p.cost \in Nat
    BY <2>1, CostAssumption DEF CostAssumption
  <2>5. p.cost # -1
    BY <2>4
  <2> QED BY <2>3, <2>4, <2>5 DEF Infinite
<1>2. ASSUME NEW p \in Path, p.cost # Infinite
      PROVE  p \in LegalPath
  <2>1. p = [sort |-> p.sort, cost |-> p.cost]
    BY <1>2 DEF Path
  <2>2. p.cost \in Costs /\ p.sort \in SortKeys \union {{}}
    BY <1>2 DEF Path
  <2> QED BY <2>1, <2>2 DEF LegalPath
<1> QED BY <1>1, <1>2

LEMMA EmptyListType == IsList(EmptyList)
BY DEF IsList, EmptyList

\* The test of a path keeps the list well-formed and adds the path to the history.
LEMMA StandardAddPathType ==
  ASSUME NEW list, IsList(list), NEW new \in LegalPath
  PROVE  LET result == StandardAddPath(list, new) IN
           /\ IsList(result)
           /\ result.offers = Append(list.offers, new)
<1> DEFINE result == StandardAddPath(list, new)
<1>1. /\ list.offers \in Seq(LegalPath) /\ list.kept \subseteq 1 .. Len(list.offers)
  BY DEF IsList
<1>2. /\ result = [offers |-> result.offers, kept |-> result.kept]
      /\ result.offers = Append(list.offers, new)
      /\ result.kept \subseteq list.kept \union {Len(list.offers) + 1}
  BY DEF StandardAddPath, result
<1>3. result.offers \in Seq(LegalPath) /\ Len(result.offers) = Len(list.offers) + 1
  BY <1>1, <1>2
<1>4. result.kept \subseteq 1 .. Len(result.offers)
  BY <1>1, <1>2, <1>3
<1> QED BY <1>2, <1>3, <1>4 DEF IsList

\* One path replaces another only if its potential is not higher.
LEMMA DominanceIsPotential ==
  ASSUME NEW new \in LegalPath, NEW old \in LegalPath, Subsumes(new.sort, old.sort)
  PROVE  /\ Dominates(new, old) => Potential(new) <= Potential(old)
         /\ ~Dominates(new, old) => Potential(old) <= Potential(new)
<1>1. new.cost \in Nat /\ old.cost \in Nat
  BY PathTypes
<1>2. CASE old.sort = {} /\ new.sort = {}
  BY <1>1, <1>2 DEF Dominates, SameSorting, Potential
<1>3. CASE old.sort = {} /\ new.sort # {}
  <2>1. ~SameSorting(new.sort, old.sort)
    BY <1>3 DEF SameSorting
  <2> QED BY <1>1, <1>3, <2>1 DEF Dominates, Potential
<1>4. CASE old.sort # {}
  <2>1. new.sort \intersect old.sort # {} /\ new.sort # {}
    BY <1>4 DEF Subsumes
  <2>2. SameSorting(new.sort, old.sort)
    BY <2>1 DEF SameSorting
  <2> QED BY <1>1, <1>4, <2>1, <2>2 DEF Dominates, Potential
<1> QED BY <1>2, <1>3, <1>4
\* Pruning a list never loses potential: whatever it evicts or discards, a path of
\* at most the same potential is kept.
LEMMA StandardAddPathKeepsPotential ==
  ASSUME NEW list, IsList(list), PotentialKept(list), NEW new \in LegalPath
  PROVE  PotentialKept(StandardAddPath(list, new))
<1> DEFINE result == StandardAddPath(list, new)
           winners == Winners(list, new)
           n == Len(list.offers) + 1
<1>1. /\ list.offers \in Seq(LegalPath)
      /\ list.kept \subseteq 1 .. Len(list.offers)
      /\ \A i \in DOMAIN list.offers : list.offers[i] \in LegalPath
  BY DEF IsList
<1>2. /\ DOMAIN result.offers = 1 .. n
      /\ result.offers[n] = new
      /\ \A i \in DOMAIN list.offers : result.offers[i] = list.offers[i]
      /\ DOMAIN list.offers = 1 .. Len(list.offers)
      /\ Len(list.offers) \in Nat
  <2>1. result.offers = Append(list.offers, new)
    BY StandardAddPathType
  <2> QED BY <1>1, <2>1
<1> HIDE DEF result
<1>0. IsList(result) /\ \A j \in result.kept : j \in 1 .. n /\ result.offers[j] \in LegalPath
  <2>1. IsList(result)
    BY StandardAddPathType DEF result
  <2>2. result.offers \in Seq(LegalPath) /\ result.kept \subseteq DOMAIN result.offers
    BY <2>1, <1>2 DEF IsList
  <2> QED BY <2>1, <2>2, <1>2
<1>3. \A p \in LegalPath : Potential(p) \in Nat
  BY PathTypes DEF Potential
<1>4. winners \subseteq list.kept /\ winners \in SUBSET Nat
  BY <1>1, <1>2 DEF Winners
<1>5. \E j \in result.kept : Potential(result.offers[j]) <= Potential(new)
  <2>1. CASE winners = {}
    <3>1. n \in result.kept
      BY <2>1 DEF StandardAddPath, result
    <3> QED BY <3>1, <1>2, <1>3
  <2>2. CASE winners # {}
    <3> DEFINE first == Min(winners)
    <3>1. first \in winners /\ first \in list.kept /\ first \in DOMAIN list.offers
      BY <1>1, <1>2, <1>4, <2>2, MinIsLeast
    <3>2. first \in result.kept
      <4>1. first >= first
        BY <3>1, <1>4
      <4> HIDE DEF first
      <4> QED BY <3>1, <4>1, <2>2 DEF StandardAddPath, result, first
    <3>3. Subsumes(new.sort, list.offers[first].sort) /\ ~Dominates(new, list.offers[first])
      BY <3>1 DEF Winners
    <3>4. Potential(list.offers[first]) <= Potential(new)
      BY <3>1, <3>3, <1>1, DominanceIsPotential
    <3> QED BY <3>1, <3>2, <3>4, <1>2
  <2> QED BY <2>1, <2>2
<1>6. ASSUME NEW i \in list.kept
      PROVE  \E j \in result.kept : Potential(result.offers[j]) <= Potential(list.offers[i])
  <2>1. i \in DOMAIN list.offers /\ list.offers[i] \in LegalPath
    BY <1>1, <1>2
  <2>2. CASE i \in result.kept
    BY <2>1, <2>2, <1>2, <1>3
  <2>3. CASE i \notin result.kept
    <3>1. Subsumes(new.sort, list.offers[i].sort)
      BY <2>3 DEF StandardAddPath, result
    <3>2. i \notin winners
      <4>1. CASE winners = {}
        BY <4>1
      <4>2. CASE winners # {}
        <5>1. ~(i >= Min(winners))
          BY <4>2, <2>3 DEF StandardAddPath, result
        <5>2. \A k \in winners : Min(winners) <= k /\ k \in Nat /\ Min(winners) \in Nat
          BY <1>4, <4>2, MinIsLeast
        <5> QED BY <5>1, <5>2
      <4> QED BY <4>1, <4>2
    <3>3. Dominates(new, list.offers[i])
      BY <3>1, <3>2 DEF Winners
    <3>4. Potential(new) <= Potential(list.offers[i])
      BY <3>1, <3>3, <2>1, DominanceIsPotential
    <3>5. PICK j \in result.kept : Potential(result.offers[j]) <= Potential(new)
      BY <1>5
    <3>6. j \in 1 .. n /\ result.offers[j] \in LegalPath
      BY <1>0
    <3>7. Potential(result.offers[j]) <= Potential(list.offers[i])
      <4>1. /\ Potential(result.offers[j]) \in Nat /\ Potential(new) \in Nat
            /\ Potential(list.offers[i]) \in Nat
        BY <3>6, <2>1, <1>3
      <4> QED BY <4>1, <3>4, <3>5
    <3> QED BY <3>7
  <2> QED BY <2>2, <2>3
<1>7. ASSUME NEW i \in DOMAIN list.offers
      PROVE  \E j \in result.kept : Potential(result.offers[j]) <= Potential(result.offers[i])
  <2>1. PICK k \in list.kept : Potential(list.offers[k]) <= Potential(list.offers[i])
    BY DEF PotentialKept
  <2>2. PICK j \in result.kept : Potential(result.offers[j]) <= Potential(list.offers[k])
    BY <1>6
  <2>3. /\ Potential(list.offers[k]) \in Nat /\ Potential(list.offers[i]) \in Nat
        /\ Potential(result.offers[j]) \in Nat
    <3>1. k \in DOMAIN list.offers
      BY <1>1, <1>2
    <3>2. j \in 1 .. n /\ result.offers[j] \in LegalPath
      BY <1>0
    <3> QED BY <3>1, <3>2, <1>1, <1>3
  <2>4. Potential(result.offers[j]) <= Potential(list.offers[i])
    BY <2>1, <2>2, <2>3
  <2> QED BY <2>4, <1>2
<1>8. ASSUME NEW i \in DOMAIN result.offers
      PROVE  \E j \in result.kept : Potential(result.offers[j]) <= Potential(result.offers[i])
  <2>1. CASE i = n
    BY <2>1, <1>2, <1>5
  <2>2. CASE i # n
    <3>1. i \in DOMAIN list.offers
      BY <2>2, <1>2
    <3> QED BY <3>1, <1>7
  <2> QED BY <2>1, <2>2
<1> QED BY <1>8 DEF PotentialKept, result
\* A path that is kept twice for the same sorting would have met itself.
LEMMA StandardAddPathKeepsSortingsApart ==
  ASSUME NEW list, IsList(list), SortingsDiffer(list), NEW new \in LegalPath
  PROVE  SortingsDiffer(StandardAddPath(list, new))
<1> DEFINE result == StandardAddPath(list, new)
           n == Len(list.offers) + 1
<1>1. /\ list.kept \subseteq 1 .. Len(list.offers) /\ Len(list.offers) \in Nat
      /\ result.offers = Append(list.offers, new)
      /\ result.offers[n] = new
      /\ \A i \in list.kept : result.offers[i] = list.offers[i] /\ i # n
  <2>1. /\ list.offers \in Seq(LegalPath) /\ list.kept \subseteq 1 .. Len(list.offers)
    BY DEF IsList
  <2>2. result.offers = Append(list.offers, new)
    BY StandardAddPathType
  <2> QED BY <2>1, <2>2
<1>2. result.kept \subseteq list.kept \union {n}
  BY DEF StandardAddPath
<1>3. n \in result.kept => \A i \in result.kept \ {n} : ~Subsumes(new.sort, list.offers[i].sort)
  <2>1. SUFFICES ASSUME n \in result.kept
                 PROVE  \A i \in result.kept \ {n} : ~Subsumes(new.sort, list.offers[i].sort)
    OBVIOUS
  <2>2. n \notin list.kept
    BY <1>1
  <2>3. Winners(list, new) = {}
    BY <2>1, <2>2 DEF StandardAddPath
  <2> QED BY <2>3 DEF StandardAddPath
<1>4. \A s, t : SameSorting(s, t) => Subsumes(s, t) /\ Subsumes(t, s) /\ SameSorting(t, s)
  BY DEF SameSorting, Subsumes
<1> HIDE DEF result
<1>5. ASSUME NEW i \in result.kept, NEW j \in result.kept, i # j,
             SameSorting(result.offers[i].sort, result.offers[j].sort)
      PROVE  FALSE
  <2>1. CASE i # n /\ j # n
    BY <2>1, <1>1, <1>2, <1>5 DEF SortingsDiffer
  <2>2. CASE i = n
    <3>1. j \in result.kept \ {n} /\ j \in list.kept
      BY <2>2, <1>2, <1>5
    <3> QED BY <3>1, <2>2, <1>1, <1>3, <1>4, <1>5
  <2>3. CASE j = n
    <3>1. i \in result.kept \ {n} /\ i \in list.kept
      BY <2>3, <1>2, <1>5
    <3> QED BY <3>1, <2>3, <1>1, <1>3, <1>4, <1>5
  <2> QED BY <2>1, <2>2, <2>3
<1> QED BY <1>5 DEF SortingsDiffer, result

\* What the head of the sorted list is.
LEMMA CheapestIsLeast ==
  ASSUME NEW list, IsList(list), list.kept # {}
  PROVE  /\ Cheapest(list) \in list.kept
         /\ \A j \in list.kept : list.offers[Cheapest(list)].cost <= list.offers[j].cost
<1> DEFINE cost(i) == list.offers[i].cost
           costs == {cost(i) : i \in list.kept}
<1>1. list.kept \subseteq Nat /\ \A i \in list.kept : cost(i) \in Nat
  <2>1. \A i \in list.kept : i \in Nat /\ list.offers[i] \in LegalPath
    BY DEF IsList
  <2> QED BY <2>1, PathTypes
<1>2. costs \in SUBSET Nat /\ costs # {}
  BY <1>1
<1>3. PICK least \in costs : \A c \in costs : least <= c
  BY <1>2, LeastNatural
<1> DEFINE heads == {i \in list.kept : cost(i) = least}
<1>4. heads \in SUBSET Nat /\ heads # {}
  BY <1>1, <1>3
<1> HIDE DEF heads
<1>5. PICK head \in heads : \A i \in heads : head <= i
  BY <1>4, LeastNatural
<1>6. \A j \in list.kept : \/ cost(head) < cost(j)
                           \/ cost(head) = cost(j) /\ head <= j
  <2>1. TAKE j \in list.kept
  <2>2. cost(head) = least /\ least <= cost(j) /\ cost(j) \in Nat /\ least \in Nat
    BY <1>1, <1>3, <1>5 DEF heads
  <2>3. CASE cost(j) = least
    <3>1. j \in heads
      BY <2>3 DEF heads
    <3> QED BY <3>1, <2>2, <2>3, <1>5
  <2>4. CASE cost(j) # least
    BY <2>2, <2>4
  <2> QED BY <2>3, <2>4
<1>7. head \in list.kept
  BY <1>5 DEF heads
<1>8. /\ Cheapest(list) \in list.kept
      /\ \A j \in list.kept : \/ cost(Cheapest(list)) < cost(j)
                              \/ cost(Cheapest(list)) = cost(j) /\ Cheapest(list) <= j
  BY <1>6, <1>7 DEF Cheapest
<1> QED BY <1>8, <1>1
-------------------------------------------------------------------------------

\* AddPath rejects what the cost model calls illegal and tests the rest.
LEMMA AddPathKeepsLists ==
  ASSUME NEW list, NEW path \in Path,
         IsList(list), PotentialKept(list), SortingsDiffer(list)
  PROVE  LET result == AddPath(list, path) IN
           IsList(result) /\ PotentialKept(result) /\ SortingsDiffer(result)
<1>1. CASE path.cost = Infinite
  BY <1>1 DEF AddPath
<1>2. CASE path.cost # Infinite
  <2>1. path \in LegalPath
    BY <1>2, PathTypes
  <2>2. AddPath(list, path) = StandardAddPath(list, path)
    BY <1>2 DEF AddPath
  <2> QED BY <2>1, <2>2, StandardAddPathType, StandardAddPathKeepsPotential,
             StandardAddPathKeepsSortingsApart
<1> QED BY <1>1, <1>2

LEMMA InitIndInv == Init => IndInv
<1> SUFFICES ASSUME Init PROVE IndInv
  OBVIOUS
<1>1. EmptyList.kept = {} /\ DOMAIN EmptyList.offers = {}
  BY DEF EmptyList
<1>2. TypeOK
  BY EmptyListType, <1>1 DEF Init, TypeOK
<1>3. PhaseOK
  BY DEF Init, PhaseOK
<1>4. PotentialKept(EmptyList) /\ SortingsDiffer(EmptyList)
  BY <1>1 DEF PotentialKept, SortingsDiffer
<1> QED BY <1>2, <1>3, <1>4 DEF Init, IndInv, OnePathPerSorting

LEMMA NextIndInv == IndInv /\ [Next]_vars => IndInv'
<1> SUFFICES ASSUME IndInv, [Next]_vars PROVE IndInv'
  OBVIOUS
<1> USE DEF IndInv
<1>1. ASSUME NEW path \in Path, OfferRegular(path) PROVE IndInv'
  <2>1. IsList(pathlist') /\ PotentialKept(pathlist') /\ SortingsDiffer(pathlist')
    BY <1>1, AddPathKeepsLists DEF OfferRegular, TypeOK, OnePathPerSorting
  <2>2. TypeOK' /\ PhaseOK'
    BY <1>1, <2>1 DEF OfferRegular, TypeOK, PhaseOK
  <2> QED BY <1>1, <2>1, <2>2 DEF OfferRegular, OnePathPerSorting
<1>2. ASSUME NEW path \in Path, OfferPartial(path) PROVE IndInv'
  <2>1. IsList(partial_paths') /\ PotentialKept(partial_paths') /\ SortingsDiffer(partial_paths')
    BY <1>2, AddPathKeepsLists DEF OfferPartial, TypeOK, OnePathPerSorting
  <2>2. TypeOK' /\ PhaseOK'
    BY <1>2, <2>1 DEF OfferPartial, TypeOK, PhaseOK
  <2> QED BY <1>2, <2>1, <2>2 DEF OfferPartial, OnePathPerSorting
<1>3. CASE StartGather
  <2>1. TypeOK' /\ PhaseOK'
    BY <1>3 DEF StartGather, TypeOK, PhaseOK
  <2> QED BY <1>3, <2>1 DEF StartGather, OnePathPerSorting
<1>4. ASSUME NEW cost \in Costs \union {Infinite}, Gather(cost) PROVE IndInv'
  <2> DEFINE next == Min(ungathered)
             gathered == [partial_paths.offers[next] EXCEPT !.cost = cost]
  <2>1. next \in ungathered /\ next \in partial_paths.kept
    <3>1. ungathered \in SUBSET Nat /\ ungathered # {}
      BY <1>4 DEF Gather, TypeOK, IsList
    <3> QED BY <3>1, MinIsLeast DEF TypeOK
  <2>2. partial_paths.offers[next] \in LegalPath
    BY <2>1 DEF TypeOK, IsList
  <2>3. gathered \in Path
    BY <2>2 DEF LegalPath, Path
  <2>4. pathlist' = AddPath(pathlist, gathered)
    BY <1>4 DEF Gather
  <2>5. IsList(pathlist') /\ PotentialKept(pathlist') /\ SortingsDiffer(pathlist')
    BY <2>3, <2>4, AddPathKeepsLists DEF TypeOK, OnePathPerSorting
  <2>6. TypeOK' /\ PhaseOK'
    BY <1>4, <2>5 DEF Gather, TypeOK, PhaseOK
  <2> QED BY <1>4, <2>5, <2>6 DEF Gather, OnePathPerSorting
<1>5. CASE SetCheapest
  <2>1. Cheapest(pathlist) \in pathlist.kept \union {None}
    BY CheapestIsLeast DEF TypeOK, Cheapest
  <2>2. Cheapest(partial_paths) \in partial_paths.kept \union {None}
    BY CheapestIsLeast DEF TypeOK, Cheapest
  <2>3. TypeOK' /\ PhaseOK'
    BY <1>5, <2>1, <2>2 DEF SetCheapest, TypeOK, PhaseOK
  <2> QED BY <1>5, <2>3 DEF SetCheapest, OnePathPerSorting
<1>6. CASE UNCHANGED vars
  BY <1>6 DEF vars, TypeOK, PhaseOK, OnePathPerSorting
<1> QED BY <1>1, <1>2, <1>3, <1>4, <1>5, <1>6 DEF Next, Ended

THEOREM Invariance == Spec => []IndInv
BY InitIndInv, NextIndInv, PTL DEF Spec

\* The lists only ever hold legal paths that were offered to them.
THEOREM TypeCorrect == Spec => []TypeOK
<1>1. IndInv => TypeOK
  BY DEF IndInv
<1> QED BY Invariance, <1>1, PTL

\* No two paths of a list have the same sorting.
THEOREM NoUselessPath == Spec => []OnePathPerSorting
<1>1. IndInv => OnePathPerSorting
  BY DEF IndInv
<1> QED BY Invariance, <1>1, PTL

LEMMA PotentialBoundsCost ==
  ASSUME NEW list, IsList(list), PotentialKept(list)
  PROVE  NearlyCheapestIn(list)
<1>1. ASSUME NEW i \in DOMAIN list.offers
      PROVE  \E j \in list.kept : 100 * list.offers[j].cost <= 101 * list.offers[i].cost
  <2>1. PICK j \in list.kept : Potential(list.offers[j]) <= Potential(list.offers[i])
    BY DEF PotentialKept
  <2>2. list.offers[i] \in LegalPath /\ list.offers[j] \in LegalPath
    BY DEF IsList
  <2>3. list.offers[i].cost \in Nat /\ list.offers[j].cost \in Nat
    BY <2>2, PathTypes
  <2>4. 100 * list.offers[j].cost <= Potential(list.offers[j])
    BY <2>3 DEF Potential
  <2>5. Potential(list.offers[i]) <= 101 * list.offers[i].cost
    BY <2>3 DEF Potential
  <2>6. Potential(list.offers[j]) \in Nat /\ Potential(list.offers[i]) \in Nat
    BY <2>3 DEF Potential
  <2> QED BY <2>1, <2>3, <2>4, <2>5, <2>6
<1> QED BY <1>1 DEF NearlyCheapestIn

\* However often paths replace one another, at most one percent is lost.
THEOREM PruningLosesOnePercent == Spec => []NearlyCheapestKept
<1>1. IndInv => NearlyCheapestKept
  BY PotentialBoundsCost DEF IndInv, TypeOK, NearlyCheapestKept
<1> QED BY Invariance, <1>1, PTL

\* What set_cheapest selects is at most one percent above every offer; it fails
\* only if there was none.
THEOREM CheapestIsGood == Spec => []CheapestIsNearlyOptimal
<1>1. ASSUME IndInv PROVE CheapestIsNearlyOptimal
  <2>1. IsList(pathlist) /\ IsList(partial_paths)
        /\ NearlyCheapestIn(pathlist) /\ NearlyCheapestIn(partial_paths)
    BY <1>1, PotentialBoundsCost DEF IndInv, TypeOK
  <2>2. \A list : IsList(list) /\ NearlyCheapestIn(list) /\ list.kept = {} => list.offers = << >>
    <3>1. SUFFICES ASSUME NEW list, IsList(list), NearlyCheapestIn(list), list.kept = {}
                   PROVE  list.offers = << >>
      OBVIOUS
    <3>2. list.offers \in Seq(LegalPath) /\ DOMAIN list.offers = {}
      BY <3>1 DEF IsList, NearlyCheapestIn
    <3> DEFINE offers == list.offers
    <3>3. offers \in Seq(LegalPath) /\ DOMAIN offers = {}
      BY <3>2
    <3> HIDE DEF offers
    <3>4. Len(offers) \in Nat /\ DOMAIN offers = 1 .. Len(offers)
      BY <3>3
    <3>5. 1 \notin 1 .. Len(offers)
      BY <3>3, <3>4
    <3>6. offers = << >>
      BY <3>3, <3>4, <3>5, EmptySeq
    <3> QED BY <3>6 DEF offers
  <2>3. ASSUME phase = "done"
        PROVE  /\ cheapest_path \in pathlist.kept
               /\ \A i \in DOMAIN pathlist.offers :
                    100 * pathlist.offers[cheapest_path].cost <= 101 * pathlist.offers[i].cost
    <3>1. /\ cheapest_path \in pathlist.kept
          /\ \A j \in pathlist.kept :
               pathlist.offers[cheapest_path].cost <= pathlist.offers[j].cost
      BY <1>1, <2>1, <2>3, CheapestIsLeast DEF IndInv, PhaseOK
    <3>2. ASSUME NEW i \in DOMAIN pathlist.offers
          PROVE  100 * pathlist.offers[cheapest_path].cost <= 101 * pathlist.offers[i].cost
      <4>1. PICK j \in pathlist.kept :
              100 * pathlist.offers[j].cost <= 101 * pathlist.offers[i].cost
        BY <2>1 DEF NearlyCheapestIn
      <4>2. /\ pathlist.offers[i] \in LegalPath /\ pathlist.offers[j] \in LegalPath
            /\ pathlist.offers[cheapest_path] \in LegalPath
        BY <2>1, <3>1 DEF IsList
      <4>3. /\ pathlist.offers[i].cost \in Nat /\ pathlist.offers[j].cost \in Nat
            /\ pathlist.offers[cheapest_path].cost \in Nat
        BY <4>2, PathTypes
      <4> QED BY <3>1, <4>1, <4>3
    <3> QED BY <3>1, <3>2
  <2>4. ASSUME phase = "done"
        PROVE  (cheapest_partial_path = None) <=> (partial_paths.offers = << >>)
    <3>1. cheapest_partial_path = Cheapest(partial_paths)
      BY <1>1, <2>4 DEF IndInv, PhaseOK
    <3>2. CASE partial_paths.kept = {}
      BY <3>1, <3>2, <2>1, <2>2 DEF Cheapest
    <3>3. CASE partial_paths.kept # {}
      <4>1. cheapest_partial_path \in partial_paths.kept
        BY <3>1, <3>3, <2>1, CheapestIsLeast
      <4>2. cheapest_partial_path # None /\ partial_paths.offers # << >>
        BY <4>1, <2>1 DEF IsList, None
      <4> QED BY <4>2
    <3> QED BY <3>2, <3>3
  <2>5. phase = "no_path" => pathlist.offers = << >>
    BY <1>1, <2>1, <2>2 DEF IndInv, PhaseOK
  <2> QED BY <2>3, <2>4, <2>5 DEF CheapestIsNearlyOptimal
<1> QED BY Invariance, <1>1, PTL
LEMMA EvictionOfSortedPath ==
  ASSUME NEW list, IsList(list), NEW path \in Path,
         NEW i \in list.kept, i \notin AddPath(list, path).kept, list.offers[i].sort # {}
  PROVE  /\ SameSorting(Last(AddPath(list, path).offers).sort, list.offers[i].sort)
         /\ Last(AddPath(list, path).offers).cost < list.offers[i].cost
<1>1. path.cost # Infinite /\ AddPath(list, path) = StandardAddPath(list, path)
  BY DEF AddPath
<1>2. path \in LegalPath
  BY <1>1, PathTypes
<1>3. AddPath(list, path).offers = Append(list.offers, path) /\ list.offers \in Seq(LegalPath)
  BY <1>1, <1>2, StandardAddPathType DEF IsList
<1>4. Last(AddPath(list, path).offers) = path
  BY <1>2, <1>3 DEF Last
<1>5. Subsumes(path.sort, list.offers[i].sort) /\ Dominates(path, list.offers[i])
  <2>1. Subsumes(path.sort, list.offers[i].sort)
    BY <1>1 DEF StandardAddPath
  <2>2. i \notin Winners(list, path)
    <3>1. CASE Winners(list, path) = {}
      BY <3>1
    <3>2. CASE Winners(list, path) # {}
      <4>1. ~(i >= Min(Winners(list, path)))
        BY <1>1, <3>2 DEF StandardAddPath
      <4>2. Winners(list, path) \in SUBSET Nat
        BY DEF Winners, IsList
      <4>3. \A k \in Winners(list, path) :
              Min(Winners(list, path)) <= k /\ k \in Nat /\ Min(Winners(list, path)) \in Nat
        BY <4>2, <3>2, MinIsLeast
      <4> QED BY <4>1, <4>3
    <3> QED BY <3>1, <3>2
  <2> QED BY <2>1, <2>2 DEF Winners
<1>6. SameSorting(path.sort, list.offers[i].sort)
  BY <1>5 DEF Subsumes, SameSorting
<1>7. path.cost < list.offers[i].cost
  BY <1>5, <1>6 DEF Dominates
<1> QED BY <1>4, <1>6, <1>7

\* A sorted path leaves the list only for a cheaper path of its order.
THEOREM SortedPathsStay == Spec => SortedPathsAreOnlyUnderbid
<1> DEFINE Underbid ==
      \A i \in pathlist.kept \ pathlist'.kept :
        LET old == pathlist.offers[i]
            new == Last(pathlist'.offers)
        IN old.sort # {} => SameSorting(new.sort, old.sort) /\ new.cost < old.cost
<1>1. ASSUME IndInv, [Next]_vars PROVE [Underbid]_vars
  <2>1. IsList(pathlist) /\ IsList(partial_paths)
    BY <1>1 DEF IndInv, TypeOK
  <2>2. ASSUME NEW path \in Path, pathlist' = AddPath(pathlist, path) PROVE Underbid
    BY <2>1, <2>2, EvictionOfSortedPath
  <2>3. ASSUME NEW path \in Path, OfferRegular(path) PROVE Underbid
    BY <2>2, <2>3 DEF OfferRegular
  <2>4. ASSUME NEW path \in Path, OfferPartial(path) PROVE Underbid
    BY <2>4 DEF OfferPartial
  <2>5. CASE StartGather
    BY <2>5 DEF StartGather
  <2>6. ASSUME NEW cost \in Costs \union {Infinite}, Gather(cost) PROVE Underbid
    <3> DEFINE next == Min(ungathered)
               gathered == [partial_paths.offers[next] EXCEPT !.cost = cost]
    <3>1. ungathered \in SUBSET Nat /\ ungathered # {}
      BY <1>1, <2>6 DEF IndInv, Gather, TypeOK, IsList
    <3>2. next \in partial_paths.kept
      BY <1>1, <3>1, MinIsLeast DEF IndInv, TypeOK
    <3>3. partial_paths.offers[next] \in LegalPath
      BY <2>1, <3>2 DEF IsList
    <3>4. gathered \in Path
      BY <3>3 DEF LegalPath, Path
    <3>5. pathlist' = AddPath(pathlist, gathered)
      BY <2>6 DEF Gather
    <3> QED BY <2>2, <3>4, <3>5
  <2>7. CASE SetCheapest
    BY <2>7 DEF SetCheapest
  <2>8. CASE UNCHANGED vars
    BY <2>8 DEF vars
  <2> QED BY <1>1, <2>3, <2>4, <2>5, <2>6, <2>7, <2>8 DEF Next, Ended
<1> QED BY Invariance, <1>1, PTL DEF Spec, SortedPathsAreOnlyUnderbid
===============================================================================
