------------------------------- MODULE Pipelines -------------------------------
(***************************************************************************)
(* The configuration protocol of the four optimization pipelines           *)
(* (_pipelines.py): setting up stages, choosing the database, building and *)
(* optimizing, in any order a caller may choose.                           *)
(*                                                                         *)
(*   "multi"        MultiStageOptimizationPipeline                         *)
(*   "textbook"     TextBookOptimizationPipeline                           *)
(*   "integrated"   IntegratedOptimizationPipeline                         *)
(*   "incremental"  IncrementalOptimizationPipeline                        *)
(*                                                                         *)
(* A stage has a pre-check.  Estimators and cost models are initialized    *)
(* for a query before they are asked about it, and cleaned up after it; a  *)
(* call asks the stages one by one, and each of these steps may raise.     *)
(***************************************************************************)
EXTENDS PreChecks

CONSTANTS
  StagesFor,      \* the stages that exist for each slot of a pipeline
  DefaultFor,     \* the stages a textbook pipeline starts with
  ChecksOfUsers,  \* checks that may be set up for all queries
  Supported,      \* the hints that each database supports
  Queries,
  MaxSteps        \* bound on the optimization steps of an incremental pipeline

\* hooks: which slot an enumerator initializes first, "self" for an estimator
NoStage == [name |-> "none", check |-> EmptyPreCheck, hooks |-> "none"]
AllStages == (UNION {StagesFor[s] : s \in DOMAIN StagesFor})
               \union {DefaultFor[s] : s \in DOMAIN DefaultFor} \union {NoStage}
Atoms == UNION ({stage.check.atoms : stage \in AllStages} \union {c.atoms : c \in ChecksOfUsers})

ASSUME SlotsAssumption ==
  /\ {"join_order", "operators", "parameters", "estimator", "cost", "enumerator",
      "algorithm", "step"} \subseteq DOMAIN StagesFor
  /\ {"estimator", "cost", "enumerator"} \subseteq DOMAIN DefaultFor
  /\ MaxSteps \in Nat

\* Two query checks of one name check the same: it is up to the authors of custom checks
\* to name them apart.  Hint checks share a name but reject no query.
ASSUME NamesTellQueries == \A a, b \in Atoms : a.name = b.name => a.rejects = b.rejects

VARIABLES
  kind, target_db,
  slots,     \* the selected stages
  steps,     \* _optimization_steps
  check,     \* _pre_check, _support_check
  built,     \* _build
  at,        \* next step of the call that optimizes a query, 0 outside of one
  state,     \* the query each stage object is initialized for
  result,    \* what the last call did, or the query that is being optimized
  user_check, \* the last check that was set up for all queries
  approved   \* configuration at the last successful build

vars == << kind, target_db, slots, steps, check, built, at, state, result, user_check, approved >>

Databases == DOMAIN Supported
NoQuery == "none"
Did(what) == [what |-> what, query |-> NoQuery]

Slots(k) == CASE k = "multi" -> {"join_order", "operators", "parameters"}
              [] k = "textbook" -> {"estimator", "cost", "enumerator"}
              [] k \in {"integrated", "incremental"} -> {"algorithm"}
Kinds == {"multi", "textbook", "integrated", "incremental"}

\* stages()
Stages == {slots[s] : s \in DOMAIN slots} \union Range(steps)

Configuration == << target_db, slots, user_check >>

Init ==
  /\ kind \in Kinds /\ target_db \in Databases
  /\ slots = [s \in Slots(kind) |-> IF kind = "textbook" THEN DefaultFor[s] ELSE NoStage]
  /\ steps = << >>
  /\ check = EmptyPreCheck /\ user_check = EmptyPreCheck
  /\ built = FALSE
  /\ at = 0 /\ state = [stage \in AllStages |-> NoQuery]
  /\ result = Did("ok") /\ approved = << >>

-------------------------------------------------------------------------------
(* Configuration. *)

\* Variant: a built pipeline stays built.
SetupKeepingBuild(slot, stage) ==
  /\ kind # "incremental" /\ slot \in DOMAIN slots
  /\ slots' = [slots EXCEPT ![slot] = stage]
  /\ result' = Did("ok")
  /\ UNCHANGED << kind, target_db, steps, check, built, at, state, user_check, approved >>

\* The integrated pipeline does not have to be built again for another algorithm.
Setup(slot, stage) ==
  /\ kind # "incremental" /\ slot \in DOMAIN slots
  /\ slots' = [slots EXCEPT ![slot] = stage]
  /\ built' = (built /\ kind = "integrated")
  /\ result' = Did("ok")
  /\ UNCHANGED << kind, target_db, steps, check, at, state, user_check, approved >>

SetupQuerySupportCheck(c) ==
  /\ kind = "multi"
  /\ check' = c /\ user_check' = c
  /\ built' = FALSE
  /\ result' = Did("ok")
  /\ UNCHANGED << kind, target_db, slots, steps, at, state, approved >>

\* Settings may leave out stages (NoStage) and the check (the empty one); what they
\* leave out stays as it is.
LoadSettings(settings, c) ==
  /\ kind = "multi"
  /\ slots' = [s \in DOMAIN slots |-> IF settings[s] = NoStage THEN slots[s] ELSE settings[s]]
  /\ IF c = EmptyPreCheck THEN UNCHANGED << check, user_check >>
     ELSE check' = c /\ user_check' = c
  /\ built' = FALSE
  /\ result' = Did("ok")
  /\ UNCHANGED << kind, target_db, steps, at, state, approved >>

SetTargetDb(db) ==
  /\ kind \in {"multi", "integrated"}
  /\ target_db' = db
  /\ built' = FALSE
  /\ result' = Did("ok")
  /\ UNCHANGED << kind, slots, steps, check, at, state, user_check, approved >>

\* _ensure_pipeline_integrity
Integrity(db, stages) == \A stage \in stages : SupportsSystem(stage.check, Supported[db])

SwitchTargetDb(db) ==
  /\ kind = "incremental"
  /\ IF Integrity(db, Stages) THEN target_db' = db /\ result' = Did("ok")
     ELSE result' = Did("unsupported_system") /\ UNCHANGED target_db
  /\ UNCHANGED << kind, slots, steps, check, built, at, state, user_check, approved >>

\* Removing the generator checks the one that is removed once more.
SetInitialPlanGenerator(stage) ==
  /\ kind = "incremental"
  /\ LET generator == IF stage = NoStage THEN slots["algorithm"] ELSE stage
     IN IF Integrity(target_db, {generator} \union Range(steps))
        THEN slots' = [slots EXCEPT !["algorithm"] = stage] /\ result' = Did("ok")
        ELSE result' = Did("unsupported_system") /\ UNCHANGED slots
  /\ UNCHANGED << kind, target_db, steps, check, built, at, state, user_check, approved >>

AddOptimizationStep(step) ==
  /\ kind = "incremental" /\ Len(steps) < MaxSteps
  /\ IF Integrity(target_db, Stages \union {step})
     THEN steps' = Append(steps, step) /\ result' = Did("ok")
     ELSE result' = Did("unsupported_system") /\ UNCHANGED steps
  /\ UNCHANGED << kind, target_db, slots, check, built, at, state, user_check, approved >>

-------------------------------------------------------------------------------
(* Building. *)

\* A pipeline that was built before and fails to build again stays built.  The
\* integrated pipeline names no context to ensure_all_passed and so raises a StateError.
Built(merged) ==
  /\ IF SupportsSystem(merged, Supported[target_db])
     THEN built' = TRUE /\ approved' = Configuration /\ result' = Did("ok")
     ELSE /\ result' = Did(IF kind = "integrated" THEN "state_error" ELSE "unsupported_system")
          /\ UNCHANGED << built, approved >>
  /\ UNCHANGED << kind, target_db, slots, steps, at, state, user_check >>

\* Variant: the check of the parameterization is forgotten.
MultiStageChecksShort ==
  << check, slots["join_order"].check, slots["operators"].check >>

\* The merge starts from the outcome of the last one.
MultiStageChecks ==
  << check, slots["join_order"].check, slots["operators"].check, slots["parameters"].check >>

BuildMultiStage ==
  /\ kind = "multi"
  /\ \E merged \in MergeChecks(MultiStageChecks) : check' = merged /\ Built(merged)

BuildTextBook ==
  /\ kind = "textbook"
  /\ \E merged \in MergeChecks(<< slots["estimator"].check, slots["cost"].check,
                                  slots["enumerator"].check >>) :
       check' = merged /\ Built(merged)

BuildIntegrated ==
  /\ kind = "integrated" /\ slots["algorithm"] # NoStage
  /\ Built(slots["algorithm"].check)
  /\ UNCHANGED check

BuildWithoutAlgorithm ==
  /\ kind = "integrated" /\ slots["algorithm"] = NoStage
  /\ result' = Did("not_built")
  /\ UNCHANGED << kind, target_db, slots, steps, check, built, at, state, user_check, approved >>

-------------------------------------------------------------------------------
(* Optimizing. *)

Ready == built \/ kind = "incremental"

OptimizeUnbuilt ==
  /\ ~Ready
  /\ result' = Did("not_built")
  /\ UNCHANGED << kind, target_db, slots, steps, check, built, at, state, user_check, approved >>

\* The staged pipelines ask the check they merged, the others the stages they have now.
Accepts(query) ==
  IF kind \in {"multi", "textbook"} THEN SupportsQuery(check, query)
  ELSE \A stage \in Stages : SupportsQuery(stage.check, query)

RejectQuery(query) ==
  /\ Ready /\ ~Accepts(query)
  /\ result' = [what |-> IF kind = "integrated" THEN "state_error" ELSE "unsupported_query",
                query |-> query]
  /\ UNCHANGED << kind, target_db, slots, steps, check, built, at, state, user_check, approved >>

Initialize(slot) == [op |-> "initialize", slots |-> {slot}]
Ask(asked) == [op |-> "ask", slots |-> asked]
Cleanup(slot) == [op |-> "cleanup", slots |-> {slot}]

\* The stages a call asks, one after the other, and the hooks around them.  Enumerators
\* initialize cost model and estimator, in the order of their own, and ask both throughout.
Script ==
  CASE kind = "multi" ->
         << Ask({"join_order"}), Ask({"operators"}),
            Initialize("parameters"), Ask({"parameters"}), Cleanup("parameters"), Ask({}) >>
    [] kind = "textbook" ->
         LET first == IF slots["enumerator"].hooks = "cost" THEN "cost" ELSE "estimator"
             second == IF first = "cost" THEN "estimator" ELSE "cost"
         IN << Initialize(first), Initialize(second), Ask({"enumerator", "cost", "estimator"}),
               Cleanup("cost"), Cleanup("estimator"), Ask({}) >>
    [] OTHER -> << Ask({"algorithm"}), Ask({}) >>

\* Variant: a stage that has a query is not initialized again.
AfterIfUnset(step, query) ==
  [stage \in AllStages |->
     IF stage.hooks = "self" /\ \E slot \in step.slots : slots[slot] = stage
     THEN CASE step.op = "initialize" -> IF state[stage] = NoQuery THEN query ELSE state[stage]
            [] step.op = "cleanup" -> NoQuery
            [] OTHER -> state[stage]
     ELSE state[stage]]

\* What a step does to the stages: initialize stores the query, cleanup removes it.
After(step, query) ==
  [stage \in AllStages |->
     IF stage.hooks = "self" /\ \E slot \in step.slots : slots[slot] = stage
     THEN CASE step.op = "initialize" -> query
            [] step.op = "cleanup" -> NoQuery
            [] OTHER -> state[stage]
     ELSE state[stage]]

Optimize(query) ==
  /\ Ready /\ Accepts(query)
  /\ at' = 1
  /\ result' = [what |-> "optimizing", query |-> query]
  /\ UNCHANGED << kind, target_db, slots, steps, check, built, state, user_check, approved >>

\* The last step is the hinting service of the database.
Perform ==
  /\ at # 0
  /\ state' = After(Script[at], result.query)
  /\ IF at < Len(Script) THEN at' = at + 1 /\ UNCHANGED result
     ELSE at' = 0 /\ result' = [result EXCEPT !.what = "plan"]
  /\ UNCHANGED << kind, target_db, slots, steps, check, built, user_check, approved >>

\* Whatever raises ends the call: the hooks are not in a try block, what was initialized
\* by then is not cleaned up, and the step itself may have been done or not.
StepRaises ==
  /\ at # 0
  /\ state' \in {state, After(Script[at], result.query)}
  /\ at' = 0
  /\ result' = [result EXCEPT !.what = "failed"]
  /\ UNCHANGED << kind, target_db, slots, steps, check, built, user_check, approved >>

SetupAny == \E slot \in DOMAIN slots : \E stage \in StagesFor[slot] : Setup(slot, stage)
LoadAny == \E join_order \in StagesFor["join_order"] \union {NoStage},
              operators \in StagesFor["operators"] \union {NoStage},
              parameters \in StagesFor["parameters"] \union {NoStage},
              c \in ChecksOfUsers \union {EmptyPreCheck} :
             LoadSettings([join_order |-> join_order, operators |-> operators,
                           parameters |-> parameters], c)

Configure ==
  \/ SetupAny \/ LoadAny
  \/ \E c \in ChecksOfUsers : SetupQuerySupportCheck(c)
  \/ \E db \in Databases : SetTargetDb(db) \/ SwitchTargetDb(db)
  \/ \E stage \in StagesFor["algorithm"] \union {NoStage} : SetInitialPlanGenerator(stage)
  \/ \E step \in StagesFor["step"] : AddOptimizationStep(step)
  \/ BuildMultiStage \/ BuildTextBook \/ BuildIntegrated \/ BuildWithoutAlgorithm

\* The caller waits for a query to be optimized before it does anything else.
Next ==
  \/ at = 0 /\ (Configure \/ OptimizeUnbuilt)
  \/ at = 0 /\ \E query \in Queries : RejectQuery(query) \/ Optimize(query)
  \/ Perform \/ StepRaises

Spec == Init /\ [][Next]_vars
-------------------------------------------------------------------------------
(* Properties. *)

\* Whatever is reconfigured between builds and queries, no query reaches a stage whose
\* pre-check rejects it, and none that the user's own check rejects is optimized.
PlansRespectStages ==
  result.what \in {"optimizing", "plan"} =>
    /\ \A stage \in Stages : SupportsQuery(stage.check, result.query)
    /\ SupportsQuery(user_check, result.query)

\* "Setting a new algorithm requires the pipeline to be build again": the multi-stage and
\* the textbook pipeline plan queries only in the configuration of the last build.
PlansComeFromBuiltConfiguration ==
  (result.what \in {"optimizing", "plan"} /\ kind \in {"multi", "textbook"}) =>
    approved = Configuration

\* Each setter of the incremental pipeline keeps all its stages fit for its database.
IncrementalStagesFit ==
  kind = "incremental" =>
    \A stage \in Stages : SupportsSystem(stage.check, Supported[target_db])

\* An estimator or cost model that is asked about a query is initialized for this one,
\* whatever queries failed before and left their state in it, and whichever pipeline
\* settings and enumerators came in between (initialize, cleanup of the staged pipelines).
AskedStagesKnowTheQuery ==
  at # 0 /\ Script[at].op = "ask" =>
    \A slot \in Script[at].slots \intersect {"parameters", "estimator", "cost"} :
      slots[slot].hooks = "self" => state[slots[slot]] = result.query

\* A call that returns a plan leaves no query behind in a stage it initialized, not even
\* one of an earlier call that failed.
PlansLeaveNoQueryBehind ==
  result.what = "plan" =>
    \A i \in 1 .. Len(Script) : Script[i].op = "initialize" =>
      \A slot \in Script[i].slots : slots[slot].hooks = "self" => state[slots[slot]] = NoQuery

\* Stages know a query exactly while they are asked about it, unless a call fails.
StagesFollowTheQuery == AskedStagesKnowTheQuery /\ PlansLeaveNoQueryBehind
===============================================================================
