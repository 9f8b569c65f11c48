-------------------------------- MODULE AddPath --------------------------------
(***************************************************************************)
(* One relation of the Postgres-style enumerator (opt/_dynprog.py): paths  *)
(* are added to its list and to its partial list in any order, then every  *)
(* partial path is gathered into a regular one and the cheapest paths are  *)
(* determined.  Which paths are offered and what the cost model says of a  *)
(* gathered path is arbitrary here; module JoinSearch creates the paths    *)
(* the way the enumerator does.                                            *)
(***************************************************************************)
EXTENDS PathList

CONSTANTS
  SortKeys,   \* the equivalence classes of columns a path may be sorted by
  Costs,      \* finite costs
  MaxOffers,         \* bound: paths offered to the pathlist
  MaxPartialOffers   \* bound: paths offered to the partial list

ASSUME SortKeyAssumption == \A key \in SortKeys : key # {} /\ IsFiniteSet(key)
ASSUME CostAssumption == Costs \subseteq Nat
ASSUME MaxOffersAssumption == {MaxOffers, MaxPartialOffers} \subseteq Nat

Path == [sort : SortKeys \union {{}}, cost : Costs \union {Infinite}]
LegalPath == [sort : SortKeys \union {{}}, cost : Costs]

VARIABLES
  phase,                  \* "collect", "gather", "done" or "no_path" (LogicError)
  pathlist,               \* RelOptInfo.pathlist
  partial_paths,          \* RelOptInfo.partial_paths
  ungathered,             \* partial paths the gather loop has still to visit
  cheapest_path,          \* position in pathlist
  cheapest_partial_path   \* position in partial_paths

vars == << phase, pathlist, partial_paths, ungathered, cheapest_path, cheapest_partial_path >>

IsList(list) == /\ list = [offers |-> list.offers, kept |-> list.kept]
                /\ list.offers \in Seq(LegalPath)
                /\ list.kept \subseteq 1 .. Len(list.offers)

\* The lists hold legal paths that were offered, the cheapest are positions in them.
TypeOK ==
  /\ phase \in {"collect", "gather", "done", "no_path"}
  /\ IsList(pathlist) /\ IsList(partial_paths)
  /\ ungathered \subseteq partial_paths.kept
  /\ cheapest_path \in pathlist.kept \union {None}
  /\ cheapest_partial_path \in partial_paths.kept \union {None}

Init ==
  /\ phase = "collect"
  /\ pathlist = EmptyList /\ partial_paths = EmptyList
  /\ ungathered = {}
  /\ cheapest_path = None /\ cheapest_partial_path = None

OfferRegular(path) ==
  /\ phase = "collect" /\ Len(pathlist.offers) < MaxOffers
  /\ pathlist' = AddPath(pathlist, path)
  /\ UNCHANGED << phase, partial_paths, ungathered, cheapest_path, cheapest_partial_path >>

OfferPartial(path) ==
  /\ phase = "collect" /\ Len(partial_paths.offers) < MaxPartialOffers
  /\ partial_paths' = AddPath(partial_paths, path)
  /\ UNCHANGED << phase, pathlist, ungathered, cheapest_path, cheapest_partial_path >>

StartGather ==
  /\ phase = "collect"
  /\ phase' = "gather" /\ ungathered' = partial_paths.kept
  /\ UNCHANGED << pathlist, partial_paths, cheapest_path, cheapest_partial_path >>

\* Variant: gathering consumes the partial path.
GatherConsuming(cost) ==
  /\ phase = "gather" /\ ungathered # {}
  /\ LET next == Min(ungathered) IN
       /\ ungathered' = ungathered \ {next}
       /\ pathlist' = AddPath(pathlist, [partial_paths.offers[next] EXCEPT !.cost = cost])
       /\ partial_paths' = [partial_paths EXCEPT !.kept = @ \ {next}]
  /\ UNCHANGED << phase, cheapest_path, cheapest_partial_path >>

\* The gathered path keeps the sort keys of the partial one; its cost is the cost
\* model's.  The partial path stays in its list.
Gather(cost) ==
  /\ phase = "gather" /\ ungathered # {}
  /\ LET next == Min(ungathered) IN
       /\ ungathered' = ungathered \ {next}
       /\ pathlist' = AddPath(pathlist, [partial_paths.offers[next] EXCEPT !.cost = cost])
  /\ UNCHANGED << phase, partial_paths, cheapest_path, cheapest_partial_path >>

SetCheapest ==
  /\ phase = "gather" /\ ungathered = {}
  /\ phase' = IF pathlist.kept = {} THEN "no_path" ELSE "done"
  /\ cheapest_path' = Cheapest(pathlist)
  /\ cheapest_partial_path' = IF pathlist.kept = {} THEN None ELSE Cheapest(partial_paths)
  /\ UNCHANGED << pathlist, partial_paths, ungathered >>

Ended == phase \in {"done", "no_path"} /\ UNCHANGED vars

Next ==
  \/ \E path \in Path : OfferRegular(path) \/ OfferPartial(path)
  \/ StartGather
  \/ \E cost \in Costs \union {Infinite} : Gather(cost)
  \/ SetCheapest
  \/ Ended

Spec == Init /\ [][Next]_vars

-------------------------------------------------------------------------------
(* Properties. *)

\* What each phase has done to the list of ungathered paths and the cheapest ones.
PhaseOK ==
  /\ phase = "collect" => ungathered = {}
  /\ phase \in {"collect", "gather"} => cheapest_path = None /\ cheapest_partial_path = None
  /\ phase = "no_path" => pathlist.kept = {}
  /\ phase = "done" => /\ pathlist.kept # {}
                       /\ cheapest_path = Cheapest(pathlist)
                       /\ cheapest_partial_path = Cheapest(partial_paths)

\* A sorted path counts one percent less than an unsorted one: the potential that
\* pruning never loses.
Potential(path) == IF path.sort = {} THEN 101 * path.cost ELSE 100 * path.cost

PotentialKept(list) ==
  \A i \in DOMAIN list.offers : \E j \in list.kept :
    Potential(list.offers[j]) <= Potential(list.offers[i])

NearlyCheapestIn(list) ==
  \A i \in DOMAIN list.offers : \E j \in list.kept :
    100 * list.offers[j].cost <= 101 * list.offers[i].cost

\* Evictions do not add up.  However many paths have replaced one another, some
\* path in the list is at most one percent more expensive than the cheapest path
\* ever offered, although each single eviction may already cost one percent.
NearlyCheapestKept == NearlyCheapestIn(pathlist) /\ NearlyCheapestIn(partial_paths)

\* The cheapest path is set exactly if some legal path was offered or gathered, it
\* is in the list, and it is at most one percent above the cheapest of all offers.
CheapestIsNearlyOptimal ==
  /\ phase = "no_path" => pathlist.offers = << >>
  /\ phase = "done" =>
       /\ cheapest_path \in pathlist.kept
       /\ \A i \in DOMAIN pathlist.offers :
            100 * pathlist.offers[cheapest_path].cost <= 101 * pathlist.offers[i].cost
       /\ (cheapest_partial_path = None) <=> (partial_paths.offers = << >>)

SortingsDiffer(list) ==
  \A i, j \in list.kept : i # j => ~SameSorting(list.offers[i].sort, list.offers[j].sort)

\* A list never holds two paths of the same sorting: one of them would be useless.
OnePathPerSorting == SortingsDiffer(pathlist) /\ SortingsDiffer(partial_paths)

\* The inductive invariant of AddPathProofs.
IndInv == /\ TypeOK /\ PhaseOK
          /\ PotentialKept(pathlist) /\ PotentialKept(partial_paths)
          /\ OnePathPerSorting

\* A sorted path leaves the list only when a strictly cheaper path of the same
\* order is offered: cheap unsorted paths never cost a later merge join its input.
SortedPathsAreOnlyUnderbid ==
  [][\A i \in pathlist.kept \ pathlist'.kept :
       LET old == pathlist.offers[i]
           new == Last(pathlist'.offers)
       IN old.sort # {} => SameSorting(new.sort, old.sort) /\ new.cost < old.cost]_vars

===============================================================================
