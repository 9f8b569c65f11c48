--------------------------------- MODULE PlanNodes ---------------------------------
(***************************************************************************)
(* Query plans (class QueryPlan of _qep.py) with the parameters, estimates *)
(* and measurements of their nodes, and their conversion to and from join  *)
(* trees, operators and parameters (_hints.py, opt/_helpers.py).           *)
(*                                                                         *)
(* Filter predicates and lookup keys are abstracted to the tables they     *)
(* mention.  None as a result stands for None or for the exception the     *)
(* code raises, as the comment of the operator says.                       *)
(***************************************************************************)
EXTENDS JoinTrees

\* PlanParams, PlanEstimates and PlanMeasures are fields of the node.
QueryPlan(type, op, children) ==
  [type |-> type, op |-> op, children |-> children,
   table |-> None, filter |-> {}, lookup |-> {}, workers |-> 0,
   est |-> Unknown, cost |-> Unknown, act |-> Unknown, time |-> Unknown,
   subplan |-> None]

IsJoin(n) == n.op \in JoinOperators
IsScan(n) == n.op \in ScanOperators
IsAuxiliary(n) == ~IsJoin(n) /\ ~IsScan(n)

Outer(n) == n.children[1]
Inner(n) == n.children[2]

IsAnalyze(n) == n.act # Unknown \/ n.time # Unknown

-------------------------------------------------------------------------------
(* Walking a plan. *)

\* PlanParams.tables: those a node mentions itself.
OwnTables(n) == n.filter \union n.lookup \union ({n.table} \ {None})

\* A subplan with a name also counts as a (virtual) table of this name.
RECURSIVE PlanTables(_)
PlanTables(n) ==
  OwnTables(n)
    \union UNION {PlanTables(n.children[i]) : i \in DOMAIN n.children}
    \union (IF n.subplan = None THEN {} ELSE PlanTables(n.subplan.root) \union ({n.subplan.target} \ {None}))

Concat(seqs) ==
  LET upTo[i \in 0..Len(seqs)] == IF i = 0 THEN << >> ELSE upTo[i - 1] \o seqs[i]
  IN upTo[Len(seqs)]

\* iternodes: children first, without the subplans.
RECURSIVE IterNodes(_)
IterNodes(n) ==
  Append(Concat([i \in DOMAIN n.children |-> IterNodes(n.children[i])]), n)

\* find_all_nodes: the node first, subplans included.
RECURSIVE AllNodes(_)
AllNodes(n) ==
  << n >> \o Concat([i \in DOMAIN n.children |-> AllNodes(n.children[i])])
          \o (IF n.subplan = None THEN << >> ELSE AllNodes(n.subplan.root))

\* find_first_node in the direction "outer", which looks at the inner child first; a
\* subplan only counts below a node of two children.
FindFirstNode(n, Matches(_)) ==
  LET RECURSIVE go(_)
      go(m) ==
        IF Matches(m) THEN m
        ELSE IF m.children = << >> THEN None
        ELSE IF Len(m.children) = 1 THEN go(m.children[1])
        ELSE LET candidates == << go(Inner(m)), go(Outer(m)) >>
             IN CASE candidates[1] # None -> candidates[1]
                  [] candidates[1] = None /\ candidates[2] # None -> candidates[2]
                  [] candidates = << None, None >> ->
                       IF m.subplan = None THEN None ELSE go(m.subplan.root)
  IN go(n)

HasJoin(n) == FindFirstNode(n, IsJoin) # None

\* lookup: the topmost node over exactly these tables.
RECURSIVE Lookup(_, _)
Lookup(n, ts) ==
  IF ts = PlanTables(n) THEN n
  ELSE IF ~(ts \subseteq PlanTables(n)) THEN None
  ELSE LET found == SelectSeq([i \in DOMAIN n.children |-> Lookup(n.children[i], ts)],
                              LAMBDA m : m # None)
       IN IF found = << >> THEN None ELSE found[1]

RECURSIVE PlanDepth(_)
PlanDepth(n) ==
  1 + (IF n.children = << >> THEN 0
       ELSE LET depths == {PlanDepth(n.children[i]) : i \in DOMAIN n.children}
            IN CHOOSE d \in depths : \A e \in depths : e <= d)

RECURSIVE FetchBaseTable(_)
FetchBaseTable(n) ==
  CASE IsScan(n) -> n.table
    [] IsAuxiliary(n) /\ Len(n.children) = 1 -> FetchBaseTable(n.children[1])
    [] OTHER -> None

RECURSIVE OutermostScan(_)
OutermostScan(n) ==
  IF IsScan(n) THEN n
  ELSE IF n.children = << >> THEN None ELSE OutermostScan(Outer(n))

RECURSIVE IsScanBranch(_)
IsScanBranch(n) == IsScan(n) \/ (Len(n.children) = 1 /\ IsScanBranch(n.children[1]))

IsBasePlanJoin(n) == IsJoin(n) /\ \A i \in DOMAIN n.children : IsScanBranch(n.children[i])

\* The shape predicates look through nodes of one child at the topmost join and judge
\* a plan by that join; on any other node they raise an error (None).
AtTopJoin(n, OfScan, OfJoin(_)) ==
  LET RECURSIVE go(_)
      go(m) == IF IsScan(m) THEN OfScan
               ELSE IF Len(m.children) = 1 THEN go(m.children[1])
               ELSE IF IsJoin(m) THEN OfJoin(m) ELSE None
  IN go(n)

IsLinear(n) == AtTopJoin(n, TRUE, LAMBDA j : ~HasJoin(Outer(j)) \/ ~HasJoin(Inner(j)))
IsBushy(n) == AtTopJoin(n, FALSE, LAMBDA j : HasJoin(Outer(j)) /\ HasJoin(Inner(j)))

RECURSIVE IsLeftDeep(_)
IsLeftDeep(n) == AtTopJoin(n, TRUE, LAMBDA j : ~HasJoin(Inner(j)) /\ IsLeftDeep(Outer(j)))

RECURSIVE IsRightDeep(_)
IsRightDeep(n) == AtTopJoin(n, TRUE, LAMBDA j : ~HasJoin(Outer(j)) /\ IsRightDeep(Inner(j)))

IsZigzag(n) == IsScan(n) \/ (IsLinear(n) /\ ~IsLeftDeep(n) /\ ~IsRightDeep(n))

-------------------------------------------------------------------------------
(* Numbers. *)

RECURSIVE COut(_, _)
COut(n, auxiliaries) ==
  IF ~IsAnalyze(n) THEN Unknown
  ELSE LET own == IF auxiliaries \/ ~IsAuxiliary(n) THEN n.act ELSE 0
           upTo[i \in 0..Len(n.children)] ==
             IF i = 0 THEN own ELSE Plus(upTo[i - 1], COut(n.children[i], auxiliaries))
       IN upTo[Len(n.children)]

-------------------------------------------------------------------------------
(* Changed copies. *)

\* A change of every node, also of those in subplans.
MapNodes(n, Changed(_)) ==
  LET RECURSIVE go(_)
      go(m) == [Changed(m) EXCEPT !.children = [i \in DOMAIN @ |-> go(@[i])],
                                  !.subplan = IF @ = None THEN None ELSE [@ EXCEPT !.root = go(m.subplan.root)]]
  IN go(n)

Parallelize(n, workers) == [n EXCEPT !.workers = workers]

WithEstimates(n, card, cost, keepMeasures) ==
  LET measured == [n EXCEPT !.est = IF card = None THEN @ ELSE card,
                            !.cost = IF cost = None THEN @ ELSE cost]
  IN IF keepMeasures THEN measured ELSE [measured EXCEPT !.act = Unknown, !.time = Unknown]

\* The measurements become the estimates where there is one and are gone afterwards;
\* without a cost estimator the cost of these nodes is unknown.
WithActualCard(n) ==
  MapNodes(n, LAMBDA m :
    [m EXCEPT !.est = IF IsValid(m.act) THEN m.act ELSE @,
              !.cost = IF IsValid(m.act) THEN Unknown ELSE @,
              !.act = Unknown, !.time = Unknown])

WithCardAsCost(n) ==
  MapNodes(n, LAMBDA m : [m EXCEPT !.cost = IF m.est = Unknown THEN @ ELSE m.est])

WithRuntimeAsCost(n) ==
  MapNodes(n, LAMBDA m : [m EXCEPT !.cost = IF m.time = Unknown THEN @ ELSE m.time])

\* Without recursive the children stay, a subplan is scaled all the same.
ScaleCardinality(n, factor, kind, recursive) ==
  LET scaled(m) == [m EXCEPT !.est = IF kind = "actual" THEN @ ELSE Times(factor, @),
                             !.act = IF kind = "estimated" THEN @ ELSE Times(factor, @)]
      RECURSIVE root(_)
      root(m) == [scaled(m) EXCEPT !.subplan =
                    IF @ = None THEN None ELSE [@ EXCEPT !.root = root(m.subplan.root)]]
  IN IF recursive THEN MapNodes(n, scaled) ELSE root(n)

\* Variant: scans keep what is below them.
RECURSIVE CanonicalKeepingBelowScans(_)
CanonicalKeepingBelowScans(n) ==
  IF IsAuxiliary(n) THEN IF n.children = << >> THEN n ELSE CanonicalKeepingBelowScans(n.children[1])
  ELSE [n EXCEPT !.children = [i \in DOMAIN @ |-> CanonicalKeepingBelowScans(@[i])]]

\* canonical: joins and scans only.  The subplan of an auxiliary node is lost, what is
\* below a scan too.
RECURSIVE Canonical(_)
Canonical(n) ==
  IF IsAuxiliary(n) THEN Canonical(n.children[1])
  ELSE [n EXCEPT !.children = IF IsScan(n) THEN << >> ELSE [i \in DOMAIN @ |-> Canonical(@[i])],
                 !.subplan = IF @ = None THEN None ELSE [@ EXCEPT !.root = Canonical(n.subplan.root)]]
===============================================================================
