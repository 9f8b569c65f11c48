------------------------------ MODULE MCPipelines ------------------------------
(***************************************************************************)
(* Stages as the repository defines them: the defaults demand their hint   *)
(* types, the random operator selection an operator that only Postgres     *)
(* offers, and some add a query check the documented way (merge_with).     *)
(***************************************************************************)
EXTENDS Pipelines

\* SupportedHintCheck: all of them share a name.
HintCheck(hints) == [name |-> "database-check", hints |-> hints, rejects |-> {}]
CrossProducts == [name |-> "cross-product", hints |-> {}, rejects |-> {"cross_product"}]
Subqueries == [name |-> "subquery", hints |-> {}, rejects |-> {"subquery"}]

Stage(name, check_, hooks) == [name |-> name, check |-> check_, hooks |-> hooks]

JoinOrderer == Stage("join_order", AtomicCheck(HintCheck({"join_order"})), "none")
PickyJoinOrderer ==
  Stage("picky_join_order",
        MergeWith(AtomicCheck(HintCheck({"join_order"})), AtomicCheck(CrossProducts)), "none")
Operators == Stage("operators", AtomicCheck(HintCheck({"operator"})), "none")
RandomOperators == Stage("random_operators", AtomicCheck(HintCheck({"bitmap_scan"})), "none")
Estimator == Stage("estimator", AtomicCheck(HintCheck({"cardinality"})), "self")
Parameters == Stage("parameters", AtomicCheck(Subqueries), "none")
CostModel == Stage("cost", EmptyPreCheck, "self")
DynProg == Stage("dynprog", CompoundCheck({CrossProducts, Subqueries}), "cost")
Enumerator == Stage("enumerator", AtomicCheck(HintCheck({"join_order", "bitmap_scan"})), "estimator")
Complete == Stage("complete", AtomicCheck(HintCheck({"join_order", "operator"})), "none")
RandomPlans == Stage("random_plans", CompoundCheck({CrossProducts, HintCheck({"bitmap_scan"})}), "none")
BitmapPlans == Stage("bitmap_plans", AtomicCheck(HintCheck({"bitmap_scan"})), "none")
Step == Stage("step", AtomicCheck(HintCheck({"join_order", "operator"})), "none")
BitmapStep == Stage("bitmap_step", AtomicCheck(HintCheck({"bitmap_scan"})), "none")

MCStagesFor ==
  [join_order |-> {JoinOrderer, PickyJoinOrderer},
   operators |-> {Operators, RandomOperators},
   parameters |-> {Estimator, Parameters},
   estimator |-> {Estimator}, cost |-> {CostModel}, enumerator |-> {DynProg, Enumerator},
   algorithm |-> {Complete, RandomPlans, BitmapPlans},
   step |-> {Step, BitmapStep}]

MCDefaultFor == [estimator |-> Estimator, cost |-> CostModel, enumerator |-> DynProg]
MCChecksOfUsers == {AtomicCheck(Subqueries)}
MCSupported ==
  [postgres |-> {"join_order", "operator", "cardinality", "bitmap_scan"},
   duckdb |-> {"join_order", "operator", "cardinality"}]
MCQueries == {"plain", "cross_product", "subquery"}
===============================================================================
