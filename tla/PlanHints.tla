--------------------------------- MODULE PlanHints ---------------------------------
(***************************************************************************)
(* What an optimizer may decide about parts of a plan (_hints.py):         *)
(* operators for scans, joins and intermediate results                     *)
(* (PhysicalOperatorAssignment) and cardinalities, workers and settings    *)
(* (PlanParameterization).  Dictionaries are functions on the keys they    *)
(* hold; an intermediate is the set of its tables.                         *)
(***************************************************************************)
EXTENDS Cardinalities, Sequences, FiniteSets, TLC

CONSTANTS
  Tables,
  None      \* Python's None; also the missing number of workers, which is NaN in the code

ASSUME HintsAssumption == None \notin Tables /\ None \notin Nat

ScanOperators == {"SeqScan", "IdxScan", "IdxOnlyScan", "BitmapScan"}
JoinOperators == {"NestLoop", "HashJoin", "MergeJoin"}
IntermediateOperators == {"Sort", "Memoize", "Materialize"}

Empty == [key \in {} |-> None]

\* dict.get and item assignment.
Get(f, key, default) == IF key \in DOMAIN f THEN f[key] ELSE default
Put(f, key, value) == (key :> value) @@ f

-------------------------------------------------------------------------------
(* Assignments of a single operator.  A directional join knows its sides. *)

ScanAssignment(op, t, workers) == [op |-> op, table |-> t, workers |-> workers]

JoinAssignment(op, ts, workers) ==
  [op |-> op, join |-> ts, outer |-> {}, inner |-> {}, workers |-> workers]

DirectionalJoinAssignment(op, inner, outer, workers) ==
  [op |-> op, join |-> inner \union outer, outer |-> outer, inner |-> inner, workers |-> workers]

-------------------------------------------------------------------------------
(* PhysicalOperatorAssignment. *)

NoOperators == [global |-> Empty, scans |-> Empty, joins |-> Empty, intermediates |-> Empty]

\* __bool__
HasOperators(a) ==
  DOMAIN a.global # {} \/ DOMAIN a.scans # {} \/ DOMAIN a.joins # {} \/ DOMAIN a.intermediates # {}

\* get: a scan for a single table, a join for several.
AssignedTo(a, ts) ==
  CASE Cardinality(ts) = 1 -> Get(a.scans, CHOOSE t \in ts : TRUE, None)
    [] Cardinality(ts) > 1 -> Get(a.joins, ts, None)
    [] OTHER -> None

SetScanOperator(a, scan) == [a EXCEPT !.scans = Put(@, scan.table, scan)]
SetJoinOperator(a, join) == [a EXCEPT !.joins = Put(@, join.join, join)]
SetIntermediateOperator(a, op, ts) == [a EXCEPT !.intermediates = Put(@, ts, op)]

Without(f, op) == [key \in {k \in DOMAIN f : f[k] # op} |-> f[key]]

\* set_operator_enabled_globally.  When fine-grained choices are to be overwritten the
\* code compares the assignments of scans and joins, which are objects, with the
\* operator itself: they are never equal and stay.
SetGlobally(a, op, enabled, overwrite) ==
  LET set == [a EXCEPT !.global = Put(@, op, enabled)]
  IN IF overwrite /\ ~enabled /\ op \in IntermediateOperators
       THEN [set EXCEPT !.intermediates = Without(@, op)]
       ELSE set

\* merge_with: the other assignment wins.
MergeOperators(a, b) ==
  [global |-> b.global @@ a.global, scans |-> b.scans @@ a.scans, joins |-> b.joins @@ a.joins,
   intermediates |-> b.intermediates @@ a.intermediates]

\* integrate_workers_from: workers for which an operator is known go to the operator,
\* the operator and the sides of the join are kept.
IntegrateWorkers(a, params) ==
  [a EXCEPT !.scans = [t \in DOMAIN @ |->
                         [@[t] EXCEPT !.workers = Get(params.workers, {t}, a.scans[t].workers)]],
            !.joins = [ts \in DOMAIN @ |->
                         [@[ts] EXCEPT !.workers = Get(params.workers, ts, a.joins[ts].workers)]]]

-------------------------------------------------------------------------------
(* PlanParameterization. *)

NoParameters == [cards |-> Empty, workers |-> Empty, settings |-> Empty, mode |-> None]

AddCardinality(p, ts, card) == [p EXCEPT !.cards = Put(@, ts, card)]
SetWorkers(p, ts, workers) == [p EXCEPT !.workers = Put(@, ts, workers)]
SetSystemSetting(p, setting, value) == [p EXCEPT !.settings = Put(@, setting, value)]
SetExecutionMode(p, mode) == [p EXCEPT !.mode = mode]

\* Variant: the own parameters win.
MergeParametersOwnFirst(p, q) ==
  [cards |-> p.cards @@ q.cards, workers |-> p.workers @@ q.workers,
   settings |-> p.settings @@ q.settings, mode |-> None]

\* merge_with: the other parameters win; the execution mode of both is lost.
MergeParameters(p, q) ==
  [cards |-> q.cards @@ p.cards, workers |-> q.workers @@ p.workers,
   settings |-> q.settings @@ p.settings, mode |-> None]

===============================================================================
