------------------------------- MODULE PathList -------------------------------
(***************************************************************************)
(* The path lists of RelOptInfo (opt/_dynprog.py) and the pruning rule of  *)
(* PostgresDynProg.standard_add_path.                                      *)
(*                                                                         *)
(* A list only ever loses elements and gains new ones at its end, so it is *)
(* given by the sequence of all paths that were put to the test and the    *)
(* set of the positions that are still in the list; the order of the list  *)
(* is the order of the positions.                                          *)
(*                                                                         *)
(* A path has at least a cost and a sort key.  The sort key is the         *)
(* equivalence class of columns that a single SortKey stands for, {} for   *)
(* an unsorted path: no operator of the enumerator creates a longer key.   *)
(***************************************************************************)
EXTENDS Integers, SequencesExt, FiniteSetsExt

Infinite == -1  \* math.inf: the cost model's answer for an illegal plan

None == 0       \* no position: cheapest_path is not set

EmptyList == [offers |-> << >>, kept |-> {}]

Kept(list) == {list.offers[i] : i \in list.kept}

\* Variant: sort orders do not count.
SubsumesAlways(sorting, other) == sorting = sorting /\ other = other

Subsumes(sorting, other) == \/ other = {}
                            \/ sorting \intersect other # {}

SameSorting(sorting, other) == \/ sorting = {} /\ other = {}
                               \/ sorting \intersect other # {}

\* The comparison of costs allows one percent to a path that is better sorted.
Dominates(new, old) ==
  IF SameSorting(new.sort, old.sort) THEN new.cost < old.cost
  ELSE 100 * new.cost <= 101 * old.cost

\* The old paths that discard the new one.
Winners(list, new) ==
  {i \in list.kept : /\ Subsumes(new.sort, list.offers[i].sort)
                     /\ ~Dominates(new, list.offers[i])}

\* The scan stops at the first old path that is better: everything from there on
\* stays, dominated paths before it are gone.
StandardAddPath(list, new) ==
  LET winners == Winners(list, new)
      untouched == {i \in list.kept : \/ ~Subsumes(new.sort, list.offers[i].sort)
                                      \/ winners # {} /\ i >= Min(winners)}
  IN [offers |-> Append(list.offers, new),
      kept |-> untouched \union (IF winners = {} THEN {Len(list.offers) + 1} ELSE {})]

AddPath(list, path) == IF path.cost = Infinite THEN list ELSE StandardAddPath(list, path)

\* The head of the list after the stable sort by cost.
Cheapest(list) ==
  IF list.kept = {} THEN None
  ELSE CHOOSE i \in list.kept :
         \A j \in list.kept : \/ list.offers[i].cost < list.offers[j].cost
                              \/ list.offers[i].cost = list.offers[j].cost /\ i <= j
===============================================================================
