------------------------------ MODULE JoinSearch ------------------------------
(***************************************************************************)
(* PostgresDynProg.generate_execution_plan (opt/_dynprog.py): the access   *)
(* paths of the base relations, the search level by level, the gathering   *)
(* of partial paths and the choice of the plan.  The order in which paths  *)
(* meet the path lists is the order of the code's loops.                   *)
(*                                                                         *)
(* The tree of a path is given by the intermediates it computes.           *)
(***************************************************************************)
EXTENDS TextbookDP

VARIABLES
  q,        \* the query and the settings
  pc,       \* "base", "level", "join", "finish", "done", "no_path" (LogicError),
            \* "no_rel" (AssertionError: nothing joins all tables)
  level,    \* the size of the intermediates that are built
  pairs,    \* pairs of relations this level has still to join
  pending,  \* relations of this level whose paths are not complete
  levels,   \* join_rel_level: the intermediates of each size in the order they were found
  rels,     \* the RelOptInfo of each intermediate
  plan      \* the result

vars == << q, pc, level, pairs, pending, levels, rels, plan >>

N == Cardinality(Tables)
NoPlan == [cost |-> Infinite, parts |-> {}]

NewRel == [pathlist |-> EmptyList, partial_paths |-> EmptyList,
           cheapest_path |-> None, cheapest_partial_path |-> None]

CheapestOf(rel) == rel.pathlist.offers[rel.cheapest_path]
CheapestPartialOf(rel) == rel.partial_paths.offers[rel.cheapest_partial_path]

-------------------------------------------------------------------------------
(* Paths. *)

ScanPath(op, t) ==
  [op |-> op, sort |-> IF op \in {"index", "index_only"} THEN {t} ELSE {},
   cost |-> q.cost[op][t], workers |-> q.workers[t], parts |-> {{t}}]

JoinPath(method, rel, outer, inner) ==
  [op |-> method, sort |-> {}, cost |-> Price(q, method, rel, outer.cost, inner.cost),
   workers |-> outer.workers, parts |-> outer.parts \union inner.parts \union {rel}]

AddScan(rel, path) ==
  [rel EXCEPT !.pathlist = AddPath(@, path),
              !.partial_paths = IF path.workers > 0 THEN AddPath(@, path) ELSE @]

AddScanOf(rel, op, t) == IF op \in ScansOf(q, t) THEN AddScan(rel, ScanPath(op, t)) ELSE rel

\* Sequential scan, the index scans, then the bitmap scan.
AddBasePaths(rel, t) ==
  LET seq == AddScanOf(rel, "seq", t)
      index == AddScanOf(seq, "index", t)
      index_only == AddScanOf(index, "index_only", t)
  IN AddScanOf(index_only, "bitmap", t)

AddRegularJoin(rel, method, S, outer, inner) ==
  [rel EXCEPT !.pathlist = AddPath(@, JoinPath(method, S, CheapestOf(outer), CheapestOf(inner)))]

AddPartialJoin(rel, method, S, outer, inner) ==
  IF outer.cheapest_partial_path = None THEN rel
  ELSE [rel EXCEPT !.partial_paths =
          AddPath(@, JoinPath(method, S, CheapestPartialOf(outer), CheapestOf(inner)))]

\* One memoized variant stands for the one per join partner: they differ in the cache
\* key only.  A materialized inner path is not tried with a partial outer one.
MatchUnsortedOuter(rel, S, outer, inner) ==
  LET nlj == AddRegularJoin(rel, "nlj", S, outer, inner)
      memo == IF q.memoize THEN AddRegularJoin(nlj, "memo", S, outer, inner) ELSE nlj
      mat == IF q.materialize THEN AddRegularJoin(memo, "mat", S, outer, inner) ELSE memo
      partial == AddPartialJoin(mat, "nlj", S, outer, inner)
  IN IF q.memoize THEN AddPartialJoin(partial, "memo", S, outer, inner) ELSE partial

HashInnerOuter(rel, S, outer, inner) ==
  AddPartialJoin(AddRegularJoin(rel, "hash", S, outer, inner), "hash", S, outer, inner)

\* len(join_key.join_partners()): an equi-join of two columns has one pair of partners.
JoinPartners(predicate) == 1

\* _extract_join_columns gives no columns unless there are two partners, and without
\* columns the join key is skipped.
SortInnerOuter(rel, S, outer, inner) ==
  LET keys == {key \in JoinsBetween(q, UNION CheapestOf(outer).parts, UNION CheapestOf(inner).parts) :
                 JoinPartners(key) = 2}
  IN IF keys = {} THEN rel ELSE AddRegularJoin(rel, "merge", S, outer, inner)

AddPathsToJoinrel(rel, S, outer, inner) ==
  LET nlj == IF "nlj" \in q.join_ops THEN MatchUnsortedOuter(rel, S, outer, inner) ELSE rel
      merge == IF "merge" \in q.join_ops THEN SortInnerOuter(nlj, S, outer, inner) ELSE nlj
  IN IF "hash" \in q.join_ops THEN HashInnerOuter(merge, S, outer, inner) ELSE merge

GatherPath(path) == [path EXCEPT !.op = "gather", !.cost = GatherPrice(@)]

\* The path list after the first partial paths have been visited.
GatheredUpTo(rel) ==
  LET list[i \in 0 .. Len(rel.partial_paths.offers)] ==
        IF i = 0 THEN rel.pathlist
        ELSE IF i \in rel.partial_paths.kept
        THEN AddPath(list[i - 1], GatherPath(rel.partial_paths.offers[i]))
        ELSE list[i - 1]
  IN list

\* Every partial path is offered to the path list as a gathered one, in list order.
GenerateGatherPaths(rel) ==
  [rel EXCEPT !.pathlist = GatheredUpTo(rel)[Len(rel.partial_paths.offers)]]

WithCheapest(rel) ==
  [rel EXCEPT !.cheapest_path = Cheapest(rel.pathlist),
              !.cheapest_partial_path = Cheapest(rel.partial_paths)]

-------------------------------------------------------------------------------
(* The search. *)

Init ==
  /\ q \in Queries
  /\ pc = "base" /\ level = 1
  /\ pairs = << >>
  /\ pending = [t \in 1 .. N |-> {t}]
  /\ levels = [k \in 1 .. N |-> IF k = 1 THEN pending ELSE << >>]
  /\ rels = << >>
  /\ plan = NoPlan

WithRel(S, rel) == [T \in DOMAIN rels \union {S} |-> IF T = S THEN rel ELSE rels[T]]

\* _set_cheapest raises if the relation has no path.
Complete(S, rel) ==
  LET gathered == GenerateGatherPaths(rel) IN
  /\ rels' = WithRel(S, WithCheapest(gathered))
  /\ pc' = IF gathered.pathlist.kept = {} THEN "no_path"
           ELSE IF Len(pending) = 1 THEN "level" ELSE pc
  /\ pending' = Tail(pending)
  /\ UNCHANGED << q, level, pairs, levels, plan >>

SetBaseRelPathlist ==
  /\ pc = "base"
  /\ LET S == Head(pending) IN Complete(S, AddBasePaths(NewRel, Min(S)))

FinishRel ==
  /\ pc = "finish"
  /\ LET S == Head(pending) IN Complete(S, rels[S])

Joinable(rel1, rel2) == /\ rel1 \intersect rel2 = {}
                        /\ JoinsBetween(q, rel1, rel2) # {}

\* What is joined already or would be a cross product is skipped.
JoinablePairs(first, second) ==
  FlattenSeq([i \in DOMAIN first |->
    FlattenSeq([j \in DOMAIN second |->
      IF Joinable(first[i], second[j]) THEN << << first[i], second[j] >> >> ELSE << >>])])

\* Left-deep joins first, then bushy ones.
PairsOfLevel(k) ==
  LET bushy == [i \in 1 .. (k \div 2) - 1 |->
                  IF k - (i + 1) < 2 THEN << >>
                  ELSE JoinablePairs(levels[i + 1], levels[k - (i + 1)])]
  IN JoinablePairs(levels[k - 1], levels[1]) \o FlattenSeq(bushy)

JoinSearchOneLevel ==
  /\ pc = "level" /\ level < N
  /\ level' = level + 1
  /\ pairs' = PairsOfLevel(level + 1)
  /\ pc' = "join"
  /\ UNCHANGED << q, pending, levels, rels, plan >>

\* _build_join_rel enters a relation into its level when it first comes up.
FoundRel(S) == IF S \in Range(levels[level]) THEN levels
               ELSE [levels EXCEPT ![level] = Append(@, S)]

\* Variant: the second join direction is forgotten.
JoinOneWay(rel, S, rel1, rel2) == AddPathsToJoinrel(rel, S, rels[rel1], rels[rel2])

\* Variant: the other direction joins the inner relation with itself.
JoinInnerTwice(rel, S, rel1, rel2) ==
  AddPathsToJoinrel(AddPathsToJoinrel(rel, S, rels[rel1], rels[rel2]), S, rels[rel2], rels[rel2])

JoinBothWays(rel, S, rel1, rel2) ==
  AddPathsToJoinrel(AddPathsToJoinrel(rel, S, rels[rel1], rels[rel2]), S, rels[rel2], rels[rel1])

JoinPair ==
  /\ pc = "join" /\ pairs # << >>
  /\ LET rel1 == Head(pairs)[1]
         rel2 == Head(pairs)[2]
         S == rel1 \union rel2
         rel == IF S \in Range(levels[level]) THEN rels[S] ELSE NewRel
     IN /\ levels' = FoundRel(S)
        /\ rels' = WithRel(S, JoinBothWays(rel, S, rel1, rel2))
  /\ pairs' = Tail(pairs)
  /\ UNCHANGED << q, pc, level, pending, plan >>

\* A level without relations has nothing to finish.
EndOfLevel ==
  /\ pc = "join" /\ pairs = << >>
  /\ pending' = levels[level]
  /\ pc' = IF levels[level] = << >> THEN "level" ELSE "finish"
  /\ UNCHANGED << q, level, pairs, levels, rels, plan >>

\* The assertion that the last level holds a single relation.
NoFinalRel ==
  /\ pc = "level" /\ level = N /\ Len(levels[N]) # 1
  /\ pc' = "no_rel"
  /\ UNCHANGED << q, level, pairs, pending, levels, rels, plan >>

Final == rels[levels[N][1]]

SelectPlan ==
  /\ pc = "level" /\ level = N /\ Len(levels[N]) = 1 /\ ~q.pg
  /\ plan' = CheapestOf(Final)
  /\ pc' = "done"
  /\ UNCHANGED << q, level, pairs, pending, levels, rels >>

\* With the database's own cost model every path and every pseudo-gathered partial
\* path is priced once more as a complete plan; any of them may be the cheapest.
SelectPlanByDatabase ==
  /\ pc = "level" /\ level = N /\ Len(levels[N]) = 1 /\ q.pg
  /\ \E path \in Kept(Final.pathlist) \union Kept(Final.partial_paths) : plan' = path
  /\ pc' = "done"
  /\ UNCHANGED << q, level, pairs, pending, levels, rels >>

Ended == pc \in {"done", "no_path", "no_rel"} /\ UNCHANGED vars

Next == \/ SetBaseRelPathlist \/ JoinSearchOneLevel \/ JoinPair \/ EndOfLevel \/ FinishRel
        \/ NoFinalRel \/ SelectPlan \/ SelectPlanByDatabase \/ Ended

Spec == Init /\ [][Next]_vars
-------------------------------------------------------------------------------
(* Properties. *)

\* Every path is a tree over its relation: each intermediate of more than one table is
\* the join of two disjoint intermediates with a join predicate between them.
PathsAreTrees ==
  \A S \in DOMAIN rels : \A path \in Kept(rels[S].pathlist) \union Kept(rels[S].partial_paths) :
    /\ S \in path.parts /\ \A t \in S : {t} \in path.parts
    /\ Cardinality(path.parts) = 2 * Cardinality(S) - 1
    /\ \A part \in path.parts : Cardinality(part) > 1 =>
         \E outer \in path.parts : /\ outer # part /\ part \ outer \in path.parts
                                   /\ outer \subseteq part
                                   /\ JoinsBetween(q, outer, part \ outer) # {}

\* The plan costs at most one percent more than the cheapest plan there is: pruning
\* path lists at every level does not lose more than pruning a single one.  The search
\* fails only if no plan exists: for the whole query, or for a connected part of it.
PlanIsNearlyOptimal ==
  /\ (pc = "done" /\ ~q.pg) =>
       LET best == Optimum(q)[Tables].regular
       IN best # Infinite /\ best <= plan.cost /\ 100 * plan.cost <= 101 * best
  /\ pc = "no_rel" => ~JoinsTables(q, Tables)
  /\ pc = "no_path" => \E S \in (SUBSET Tables) \ {{}} : /\ JoinsTables(q, S)
                                                       /\ Optimum(q)[S].regular = Infinite

\* PostgresDynProg expands the query's equivalence classes and DynamicProgrammingEnumerator
\* does not; it combines paths in more ways, but never merges, and it ignores what a star
\* selects.  Without merge joins, and where the star brings no scan, each plan of the
\* textbook enumerator is one of its plans, so that its own costs one percent more at most.
\* They agree where it has no other plans: nothing to expand, no inner variants, no workers.
SameScans == \A t \in Tables : ScansOf(AsWritten(q), t) = ScansOf(q, t)
SamePlans == /\ q.joins = StatedJoins(q.predicates) /\ SameScans
             /\ ~q.memoize /\ ~q.materialize /\ \A t \in Tables : q.workers[t] = 0

NotWorseThanTextbook ==
  /\ pc = "done" /\ ~q.pg /\ "merge" \notin q.join_ops
  /\ \A t \in Tables : ScansOf(AsWritten(q), t) \subseteq ScansOf(q, t)
  => LET cost == FinalPlanCost(q)
     IN /\ cost # Infinite => 100 * plan.cost <= 101 * cost
        /\ SamePlans => cost # Infinite /\ cost <= plan.cost
===============================================================================
