---------------------------- MODULE PipelinesProofs ----------------------------
(***************************************************************************)
(* Proofs about Pipelines.  The invariant relates the merged check to the  *)
(* stages by the names of their atomic checks: a built pipeline's check    *)
(* has, for each atomic check of a selected stage, one of the same name;   *)
(* which one it is merge_checks leaves open.                               *)
(***************************************************************************)
EXTENDS Pipelines, SequenceTheorems, TLAPS

Staged == kind \in {"multi", "textbook"}
Covers(c, d) == \A atom \in d.atoms : \E mine \in c.atoms : mine.name = atom.name

TypeInv ==
  /\ kind \in Kinds /\ target_db \in Databases
  /\ slots \in [Slots(kind) -> AllStages]
  /\ steps \in Seq(AllStages)
  /\ kind # "incremental" => steps = << >>
  /\ built \in BOOLEAN

CheckInv ==
  /\ check.atoms \subseteq Atoms /\ user_check.atoms \subseteq Atoms
  /\ kind = "multi" => Covers(check, user_check)
  /\ kind # "multi" => user_check = EmptyPreCheck

BuildInv ==
  built /\ Staged => /\ approved = Configuration
                     /\ \A stage \in Stages : Covers(check, stage.check)

IndInv == TypeInv /\ CheckInv /\ BuildInv

-------------------------------------------------------------------------------
\* Stages come from the catalogue, and so do their checks.
LEMMA StagesKnown ==
  ASSUME TypeInv
  PROVE  Stages \subseteq AllStages /\ \A stage \in Stages : stage.check.atoms \subseteq Atoms
<1>1. \A s \in DOMAIN slots : slots[s] \in AllStages
  BY DEF TypeInv
<1>2. \A i \in DOMAIN steps : steps[i] \in AllStages
  BY DEF TypeInv
<1>3. Stages \subseteq AllStages
  BY <1>1, <1>2 DEF Stages, Range
<1>. QED BY <1>3 DEF Atoms

\* merge_checks keeps an atomic check of each name and invents none.
LEMMA MergeCovers ==
  ASSUME NEW checks, NEW merged \in MergeChecks(checks)
  PROVE  /\ \A i \in DOMAIN checks : Covers(merged, checks[i])
         /\ merged.atoms \subseteq UNION {checks[j].atoms : j \in DOMAIN checks}
<1>. DEFINE all == UNION {checks[j].atoms : j \in DOMAIN checks}
            names == {atom.name : atom \in all}
<1>1. PICK f \in [names -> all] :
        /\ \A n \in names : f[n] \in Survivors(checks, n)
        /\ merged = [compound |-> Cardinality(names) > 1, atoms |-> Range(f)]
  BY DEF MergeChecks
<1>2. \A n \in names : f[n].name = n
  BY <1>1 DEF Survivors
<1>3. merged.atoms = {f[n] : n \in names}
  BY <1>1 DEF Range
<1>4. ASSUME NEW i \in DOMAIN checks, NEW atom \in checks[i].atoms
      PROVE  \E mine \in merged.atoms : mine.name = atom.name
  <2>1. atom.name \in names
    OBVIOUS
  <2>. QED BY <2>1, <1>2, <1>3
<1>. QED BY <1>1, <1>3, <1>4 DEF Covers

\* A check that has the names of another one rejects all queries the other one rejects.
LEMMA CoversRejects ==
  ASSUME NEW c, NEW d, c.atoms \subseteq Atoms, d.atoms \subseteq Atoms, Covers(c, d),
         NEW query, SupportsQuery(c, query)
  PROVE  SupportsQuery(d, query)
BY NamesTellQueries DEF NamesTellQueries, Covers, SupportsQuery
-------------------------------------------------------------------------------
LEMMA InitInv == Init => IndInv
<1>. SUFFICES ASSUME Init PROVE IndInv
  OBVIOUS
<1>1. slots \in [Slots(kind) -> AllStages]
  <2>1. CASE kind = "textbook"
    <3>1. Slots(kind) = {"estimator", "cost", "enumerator"}
      BY <2>1 DEF Slots
    <3>2. Slots(kind) \subseteq DOMAIN DefaultFor
      BY <3>1, SlotsAssumption DEF SlotsAssumption
    <3>3. \A s \in Slots(kind) : DefaultFor[s] \in AllStages
      BY <3>2 DEF AllStages
    <3>4. slots = [s \in Slots(kind) |-> DefaultFor[s]]
      BY <2>1 DEF Init
    <3>. QED BY <3>3, <3>4
  <2>2. CASE kind # "textbook"
    <3>1. slots = [s \in Slots(kind) |-> NoStage]
      BY <2>2 DEF Init
    <3>2. NoStage \in AllStages
      BY DEF AllStages
    <3>. QED BY <3>1, <3>2
  <2>. QED BY <2>1, <2>2
<1>2. TypeInv
  BY <1>1, EmptySeq DEF Init, TypeInv
<1>3. CheckInv
  BY DEF Init, CheckInv, Covers, EmptyPreCheck
<1>4. BuildInv
  BY DEF Init, BuildInv
<1>. QED BY <1>2, <1>3, <1>4 DEF IndInv

\* Setting up stages keeps the types; a built staged pipeline is no longer built.
LEMMA SetupInv ==
  ASSUME IndInv, NEW slot \in DOMAIN slots, NEW stage \in AllStages, Setup(slot, stage)
  PROVE  IndInv'
<1>1. TypeInv'
  BY DEF IndInv, TypeInv, Setup
<1>2. CheckInv'
  BY DEF IndInv, CheckInv, Setup, Covers
<1>3. BuildInv'
  BY DEF BuildInv, Staged, Setup
<1>. QED BY <1>1, <1>2, <1>3 DEF IndInv

LEMMA BuiltInv ==
  ASSUME IndInv, Staged, NEW checks, NEW merged \in MergeChecks(checks),
         Built(merged), check' = merged,
         UNION {checks[i].atoms : i \in DOMAIN checks} \subseteq Atoms,
         kind = "multi" => \E i \in DOMAIN checks : Covers(checks[i], user_check),
         \A stage \in Stages : \E i \in DOMAIN checks : checks[i] = stage.check
  PROVE  IndInv'
<1>1. TypeInv'
  <2>1. built' = TRUE \/ built' = built
    BY DEF Built
  <2>2. built \in BOOLEAN
    BY DEF IndInv, TypeInv
  <2>3. built' \in BOOLEAN
    BY <2>1, <2>2, Zenon
  <2>4. UNCHANGED << kind, target_db, slots, steps >>
    BY DEF Built
  <2>5. /\ kind' \in Kinds /\ target_db' \in Databases
        /\ slots' \in [Slots(kind') -> AllStages]
        /\ steps' \in Seq(AllStages)
        /\ kind' # "incremental" => steps' = << >>
    BY <2>4 DEF IndInv, TypeInv
  <2>. QED BY <2>3, <2>5, Zenon DEF TypeInv
<1>2. merged.atoms \subseteq Atoms /\ \A i \in DOMAIN checks : Covers(merged, checks[i])
  BY MergeCovers
<1>3. CheckInv'
  <2>1. kind = "multi" => Covers(merged, user_check)
    BY <1>2 DEF Covers
  <2>. QED BY <2>1, <1>2 DEF IndInv, CheckInv, Built, Covers
<1>4. \A stage \in Stages : Covers(merged, stage.check)
  BY <1>2
<1>5. Stages' = Stages /\ kind' = kind
  BY DEF Built, Stages
<1>6. BuildInv'
  <2>1. CASE built'
    <3>1. approved' = Configuration'
      BY <2>1 DEF Built, Configuration, IndInv, BuildInv, Staged
    <3>. QED BY <3>1, <1>4, <1>5 DEF BuildInv, Covers
  <2>. QED BY <2>1 DEF BuildInv
<1>. QED BY <1>1, <1>3, <1>6 DEF IndInv

\* Calls and steps that change at most the result and the state of the stages.
LEMMA UnchangedInv ==
  ASSUME IndInv, UNCHANGED << kind, target_db, slots, steps, check, built, user_check, approved >>
  PROVE  IndInv'
<1>1. TypeInv' /\ CheckInv'
  BY DEF IndInv, TypeInv, CheckInv, Covers
<1>2. Stages' = Stages /\ Configuration' = Configuration
  BY DEF Stages, Configuration
<1>3. BuildInv'
  BY <1>2 DEF IndInv, BuildInv, Staged, Covers
<1>. QED BY <1>1, <1>3 DEF IndInv

\* Reconfigurations of the multi-stage pipeline: the stages are known ones, the check is
\* the user's, and it is not built any more.
LEMMA ReconfiguredInv ==
  ASSUME IndInv, kind = "multi", UNCHANGED << kind, steps, approved >>, built' = FALSE,
         target_db' \in Databases, slots' \in [Slots(kind) -> AllStages],
         \/ UNCHANGED << check, user_check >>
         \/ check' = user_check' /\ \E c \in ChecksOfUsers : check' = c
  PROVE  IndInv'
<1>1. TypeInv'
  BY DEF IndInv, TypeInv
<1>2. CheckInv'
  <2>1. CASE UNCHANGED << check, user_check >>
    BY <2>1 DEF IndInv, CheckInv, Covers
  <2>2. CASE check' = user_check' /\ \E c \in ChecksOfUsers : check' = c
    <3>1. check'.atoms \subseteq Atoms
      BY <2>2 DEF Atoms
    <3>. QED BY <2>2, <3>1 DEF CheckInv, Covers
  <2>. QED BY <2>1, <2>2
<1>3. BuildInv'
  BY DEF BuildInv
<1>. QED BY <1>1, <1>2, <1>3 DEF IndInv

\* Any action keeps the invariant of an incremental pipeline if its stages are known.
LEMMA IncrementalInv ==
  ASSUME IndInv, kind = "incremental", UNCHANGED << kind, check, built, user_check >>,
         target_db' \in Databases, slots' \in [Slots(kind) -> AllStages],
         steps' \in Seq(AllStages)
  PROVE  IndInv'
<1>1. TypeInv'
  BY DEF IndInv, TypeInv
<1>2. CheckInv'
  BY DEF IndInv, CheckInv, Covers
<1>3. BuildInv'
  BY DEF BuildInv, Staged
<1>. QED BY <1>1, <1>2, <1>3 DEF IndInv
LEMMA CatalogueKnown ==
  /\ \A s \in DOMAIN StagesFor : StagesFor[s] \subseteq AllStages
  /\ NoStage \in AllStages
BY DEF AllStages

LEMMA SlotsKnown ==
  ASSUME TypeInv, NEW slot \in DOMAIN slots, NEW stage \in StagesFor[slot]
  PROVE  stage \in AllStages
<1>1. slot \in Slots(kind) /\ kind \in Kinds
  BY DEF TypeInv
<1>2. slot \in DOMAIN StagesFor
  BY <1>1, SlotsAssumption DEF SlotsAssumption, Slots, Kinds
<1>. QED BY <1>2, CatalogueKnown

LEMMA BuildMultiStageInv ==
  ASSUME IndInv, BuildMultiStage
  PROVE  IndInv'
<1>. DEFINE checks == MultiStageChecks
<1>1. PICK merged \in MergeChecks(checks) : check' = merged /\ Built(merged)
  BY DEF BuildMultiStage
<1>2. kind = "multi" /\ TypeInv /\ CheckInv
  BY DEF BuildMultiStage, IndInv
<1>3. DOMAIN slots = {"join_order", "operators", "parameters"} /\ Range(steps) = {}
  BY <1>2 DEF TypeInv, Slots, Range
<1>4. Stages = {slots["join_order"], slots["operators"], slots["parameters"]}
  BY <1>3 DEF Stages
<1>5. /\ DOMAIN checks = 1 .. 4
      /\ checks[1] = check /\ checks[2] = slots["join_order"].check
      /\ checks[3] = slots["operators"].check /\ checks[4] = slots["parameters"].check
  BY DEF MultiStageChecks
<1>6. UNION {checks[i].atoms : i \in DOMAIN checks} \subseteq Atoms
  <2>1. \A i \in 1 .. 4 : checks[i].atoms \subseteq Atoms
    BY <1>2, <1>4, <1>5, StagesKnown DEF CheckInv
  <2>. QED BY <2>1, <1>5
<1>7. \E i \in DOMAIN checks : Covers(checks[i], user_check)
  BY <1>2, <1>5 DEF CheckInv
<1>8. \A stage \in Stages : \E i \in DOMAIN checks : checks[i] = stage.check
  BY <1>4, <1>5
<1>. HIDE DEF checks
<1>. QED BY <1>1, <1>2, <1>6, <1>7, <1>8, BuiltInv DEF Staged

LEMMA BuildTextBookInv ==
  ASSUME IndInv, BuildTextBook
  PROVE  IndInv'
<1>. DEFINE checks == << slots["estimator"].check, slots["cost"].check, slots["enumerator"].check >>
<1>1. PICK merged \in MergeChecks(checks) : check' = merged /\ Built(merged)
  BY DEF BuildTextBook
<1>2. kind = "textbook" /\ TypeInv
  BY DEF BuildTextBook, IndInv
<1>3. DOMAIN slots = {"estimator", "cost", "enumerator"} /\ Range(steps) = {}
  BY <1>2 DEF TypeInv, Slots, Range
<1>4. Stages = {slots["estimator"], slots["cost"], slots["enumerator"]}
  BY <1>3 DEF Stages
<1>5. /\ DOMAIN checks = 1 .. 3
      /\ checks[1] = slots["estimator"].check /\ checks[2] = slots["cost"].check
      /\ checks[3] = slots["enumerator"].check
  OBVIOUS
<1>6. UNION {checks[i].atoms : i \in DOMAIN checks} \subseteq Atoms
  <2>1. \A i \in 1 .. 3 : checks[i].atoms \subseteq Atoms
    BY <1>2, <1>4, <1>5, StagesKnown
  <2>. QED BY <2>1, <1>5
<1>7. \A stage \in Stages : \E i \in DOMAIN checks : checks[i] = stage.check
  BY <1>4, <1>5
<1>. HIDE DEF checks
<1>. QED BY <1>1, <1>2, <1>6, <1>7, BuiltInv DEF Staged

LEMMA StepInv == IndInv /\ [Next]_vars => IndInv'
<1>. SUFFICES ASSUME IndInv, [Next]_vars PROVE IndInv'
  OBVIOUS
<1>. USE DEF Did
<1>1. TypeInv /\ {"algorithm", "step"} \subseteq DOMAIN StagesFor
  BY SlotsAssumption DEF IndInv, SlotsAssumption
<1>2. ASSUME SetupAny PROVE IndInv'
  BY <1>1, <1>2, SetupInv, SlotsKnown DEF SetupAny
<1>3. ASSUME LoadAny PROVE IndInv'
  <2>1. PICK j \in StagesFor["join_order"] \union {NoStage},
             o \in StagesFor["operators"] \union {NoStage},
             p \in StagesFor["parameters"] \union {NoStage},
             c \in ChecksOfUsers \union {EmptyPreCheck} :
          LoadSettings([join_order |-> j, operators |-> o, parameters |-> p], c)
    BY <1>3 DEF LoadAny
  <2>2. j \in AllStages /\ o \in AllStages /\ p \in AllStages
    BY CatalogueKnown, SlotsAssumption DEF SlotsAssumption
  <2>3. kind = "multi" /\ slots \in [{"join_order", "operators", "parameters"} -> AllStages]
    BY <2>1, <1>1 DEF LoadSettings, TypeInv, Slots
  <2>4. slots' \in [Slots(kind) -> AllStages]
    BY <2>1, <2>2, <2>3 DEF LoadSettings, Slots
  <2>5. \/ UNCHANGED << check, user_check >>
        \/ check' = user_check' /\ \E d \in ChecksOfUsers : check' = d
    BY <2>1 DEF LoadSettings
  <2>6. target_db' \in Databases
    BY <2>1, <1>1 DEF LoadSettings, TypeInv
  <2>. QED BY <2>1, <2>3, <2>4, <2>5, <2>6, ReconfiguredInv DEF LoadSettings
<1>4. ASSUME NEW c \in ChecksOfUsers, SetupQuerySupportCheck(c) PROVE IndInv'
  BY <1>1, <1>4, ReconfiguredInv DEF SetupQuerySupportCheck, TypeInv
<1>5. ASSUME NEW db \in Databases, SetTargetDb(db) PROVE IndInv'
  <2>1. TypeInv'
    BY <1>1, <1>5 DEF SetTargetDb, TypeInv
  <2>2. CheckInv'
    BY <1>5 DEF SetTargetDb, IndInv, CheckInv, Covers
  <2>3. BuildInv'
    BY <1>5 DEF SetTargetDb, BuildInv
  <2>. QED BY <2>1, <2>2, <2>3 DEF IndInv
<1>6. ASSUME NEW db \in Databases, SwitchTargetDb(db) PROVE IndInv'
  BY <1>1, <1>6, IncrementalInv DEF SwitchTargetDb, TypeInv
<1>7. ASSUME NEW stage \in StagesFor["algorithm"] \union {NoStage}, SetInitialPlanGenerator(stage)
      PROVE  IndInv'
  <2>1. stage \in AllStages
    BY <1>1, CatalogueKnown
  <2>2. slots' \in [Slots(kind) -> AllStages]
    BY <1>1, <1>7, <2>1 DEF SetInitialPlanGenerator, TypeInv
  <2>. QED BY <1>1, <1>7, <2>2, IncrementalInv DEF SetInitialPlanGenerator, TypeInv
<1>8. ASSUME NEW step \in StagesFor["step"], AddOptimizationStep(step) PROVE IndInv'
  <2>1. step \in AllStages
    BY <1>1, CatalogueKnown
  <2>2. steps' \in Seq(AllStages)
    BY <1>1, <1>8, <2>1, AppendProperties DEF AddOptimizationStep, TypeInv
  <2>. QED BY <1>1, <1>8, <2>2, IncrementalInv DEF AddOptimizationStep, TypeInv
<1>9. ASSUME BuildIntegrated PROVE IndInv'
  <2>1. built' = TRUE \/ built' = built
    BY <1>9 DEF BuildIntegrated, Built
  <2>2. built' \in BOOLEAN
    BY <1>1, <2>1, Zenon DEF TypeInv
  <2>3. UNCHANGED << kind, target_db, slots, steps, check, user_check >> /\ kind = "integrated"
    BY <1>9 DEF BuildIntegrated, Built
  <2>4. /\ kind' \in Kinds /\ target_db' \in Databases
        /\ slots' \in [Slots(kind') -> AllStages]
        /\ steps' \in Seq(AllStages)
        /\ kind' # "incremental" => steps' = << >>
    BY <1>1, <2>3 DEF TypeInv
  <2>5. TypeInv'
    BY <2>2, <2>4, Zenon DEF TypeInv
  <2>6. CheckInv'
    BY <2>3 DEF IndInv, CheckInv, Covers
  <2>7. BuildInv'
    BY <2>3 DEF BuildInv, Staged
  <2>. QED BY <2>5, <2>6, <2>7 DEF IndInv
<1>10. ASSUME BuildWithoutAlgorithm \/ OptimizeUnbuilt \/ Perform \/ StepRaises PROVE IndInv'
  BY <1>10, UnchangedInv DEF BuildWithoutAlgorithm, OptimizeUnbuilt, Perform, StepRaises
<1>11. ASSUME NEW query \in Queries, RejectQuery(query) \/ Optimize(query)
       PROVE  IndInv'
  BY <1>11, UnchangedInv DEF RejectQuery, Optimize
<1>12. ASSUME UNCHANGED vars PROVE IndInv'
  BY <1>12, UnchangedInv DEF vars
<1>. QED BY <1>2, <1>3, <1>4, <1>5, <1>6, <1>7, <1>8, <1>9, <1>10, <1>11, <1>12,
            BuildMultiStageInv, BuildTextBookInv DEF Next, Configure

\* The inductive invariant holds for every catalogue of stages, databases and checks.
THEOREM Invariance == Spec => []IndInv
BY InitInv, StepInv, PTL DEF Spec
-------------------------------------------------------------------------------
(* What is planned. *)

LEMMA OptimizeRespectsStages ==
  ASSUME IndInv, NEW query, Optimize(query)
  PROVE  PlansRespectStages' /\ PlansComeFromBuiltConfiguration'
<1>1. TypeInv /\ CheckInv /\ BuildInv
  BY DEF IndInv
<1>2. /\ Stages' = Stages /\ user_check' = user_check /\ result'.query = query
      /\ Configuration' = Configuration /\ approved' = approved /\ kind' = kind
      /\ Accepts(query) /\ Ready
  BY DEF Optimize, Stages, Configuration
<1>3. CASE Staged
  <2>1. built /\ SupportsQuery(check, query)
    BY <1>2, <1>3 DEF Staged, Ready, Accepts
  <2>2. \A stage \in Stages : SupportsQuery(stage.check, query)
    BY <1>1, <1>3, <2>1, StagesKnown, CoversRejects DEF BuildInv, CheckInv
  <2>3. SupportsQuery(user_check, query)
    <3>1. CASE kind = "multi"
      BY <1>1, <2>1, <3>1, CoversRejects DEF CheckInv
    <3>2. CASE kind # "multi"
      BY <1>1, <3>2 DEF CheckInv, SupportsQuery, EmptyPreCheck
    <3>. QED BY <3>1, <3>2
  <2>4. approved = Configuration
    BY <1>1, <1>3, <2>1 DEF BuildInv
  <2>. QED BY <1>2, <2>2, <2>3, <2>4 DEF PlansRespectStages, PlansComeFromBuiltConfiguration
<1>4. CASE ~Staged
  <2>1. \A stage \in Stages : SupportsQuery(stage.check, query)
    BY <1>2, <1>4 DEF Staged, Accepts
  <2>2. SupportsQuery(user_check, query)
    BY <1>1, <1>4 DEF CheckInv, Staged, SupportsQuery, EmptyPreCheck
  <2>. QED BY <1>2, <1>4, <2>1, <2>2 DEF Staged, PlansRespectStages, PlansComeFromBuiltConfiguration
<1>. QED BY <1>3, <1>4

\* What calls do
Outcomes == {"ok", "unsupported_system", "state_error", "not_built", "unsupported_query",
             "optimizing", "plan", "failed"}
Results == [what : Outcomes, query : Queries \union {NoQuery}]

\* A call that did something else gave no plan.
LEMMA DidIsNoPlan ==
  ASSUME NEW what \in Outcomes, what \notin {"optimizing", "plan"}, NEW query \in Queries \union {NoQuery},
         result' = [what |-> what, query |-> query]
  PROVE  result'.what \notin {"optimizing", "plan"}
         /\ result' \in Results
BY DEF Results

\* The other calls neither plan nor start to, and change nothing in the middle of a call.
LEMMA OtherCallsPlanNothing ==
  ASSUME (at = 0 /\ (Configure \/ OptimizeUnbuilt)) \/ \E query \in Queries : at = 0 /\ RejectQuery(query)
  PROVE  result'.what \notin {"optimizing", "plan"} /\ at' = 0
         /\ result' \in Results
<1>. USE DEF Outcomes
<1>. DEFINE Goal == at' = at /\ \E what \in Outcomes \ {"optimizing", "plan"} : result' = Did(what)
<1>1. ASSUME SetupAny \/ LoadAny \/ \E c \in ChecksOfUsers : SetupQuerySupportCheck(c)
      PROVE  Goal
  <2>1. result' = Did("ok") /\ at' = at
    BY <1>1 DEF SetupAny, LoadAny, Setup, LoadSettings, SetupQuerySupportCheck
  <2>. QED BY <2>1
<1>2. ASSUME NEW db, SetTargetDb(db) \/ SwitchTargetDb(db) PROVE Goal
  BY <1>2 DEF SetTargetDb, SwitchTargetDb
<1>3. ASSUME NEW stage, SetInitialPlanGenerator(stage) \/ AddOptimizationStep(stage)
      PROVE  Goal
  BY <1>3 DEF SetInitialPlanGenerator, AddOptimizationStep
<1>4. ASSUME NEW merged, Built(merged) PROVE Goal
  BY <1>4 DEF Built
<1>5. ASSUME BuildMultiStage \/ BuildTextBook \/ BuildIntegrated PROVE Goal
  BY <1>4, <1>5 DEF BuildMultiStage, BuildTextBook, BuildIntegrated
<1>6. ASSUME BuildWithoutAlgorithm \/ OptimizeUnbuilt PROVE Goal
  BY <1>6 DEF BuildWithoutAlgorithm, OptimizeUnbuilt
<1>7. CASE at = 0 /\ (Configure \/ OptimizeUnbuilt)
  <2>1. Goal
    BY <1>1, <1>2, <1>3, <1>5, <1>6, <1>7 DEF Configure
  <2>2. PICK what \in Outcomes \ {"optimizing", "plan"} : result' = [what |-> what, query |-> NoQuery]
    BY <2>1 DEF Did
  <2>. QED BY <1>7, <2>1, <2>2, DidIsNoPlan
<1>8. ASSUME NEW query \in Queries, at = 0, RejectQuery(query)
      PROVE  result'.what \notin {"optimizing", "plan"} /\ at' = 0
             /\ result' \in Results
  <2>1. PICK what \in {"state_error", "unsupported_query"} : result' = [what |-> what, query |-> query]
    BY <1>8 DEF RejectQuery
  <2>2. at' = 0
    BY <1>8 DEF RejectQuery
  <2>. QED BY <2>1, <2>2, DidIsNoPlan
<1>. QED BY <1>7, <1>8

\* A call is at one of its steps as long as the query is being optimized.
BusyInv ==
  /\ result \in Results
  /\ at # 0 => result.what = "optimizing"

PlanInv == BusyInv /\ PlansRespectStages /\ PlansComeFromBuiltConfiguration

LEMMA PlanStep == IndInv /\ PlanInv /\ [Next]_vars => PlanInv'
<1>. SUFFICES ASSUME IndInv, PlanInv, [Next]_vars PROVE PlanInv'
  OBVIOUS
<1>. USE DEF PlanInv
<1>1. CASE UNCHANGED vars
  BY <1>1 DEF vars, BusyInv, PlansRespectStages, PlansComeFromBuiltConfiguration, Stages, Configuration
<1>2. ASSUME NEW query \in Queries, Optimize(query) PROVE PlanInv'
  <2>1. BusyInv'
    BY <1>2 DEF Optimize, BusyInv, Results, Outcomes
  <2>. QED BY <1>2, <2>1, OptimizeRespectsStages
<1>3. CASE (at = 0 /\ (Configure \/ OptimizeUnbuilt)) \/ \E query \in Queries : at = 0 /\ RejectQuery(query)
  BY <1>3, OtherCallsPlanNothing DEF BusyInv, PlansRespectStages, PlansComeFromBuiltConfiguration
<1>4. CASE Perform \/ StepRaises
  <2>1. /\ at # 0 /\ result.what = "optimizing"
        /\ UNCHANGED << kind, target_db, slots, steps, user_check, approved >>
        /\ \/ result' = result
           \/ result' = [result EXCEPT !.what = "plan"] /\ at' = 0
           \/ result' = [result EXCEPT !.what = "failed"] /\ at' = 0
    BY <1>4 DEF Perform, StepRaises, BusyInv, Results, Outcomes
  <2>2. result'.query = result.query /\ BusyInv'
    BY <2>1 DEF BusyInv, Results, Outcomes
  <2>3. Stages' = Stages /\ Configuration' = Configuration
    BY <2>1 DEF Stages, Configuration
  <2>. QED BY <2>1, <2>2, <2>3 DEF PlansRespectStages, PlansComeFromBuiltConfiguration
<1>. QED BY <1>1, <1>2, <1>3, <1>4 DEF Next

LEMMA PlanInit == Init => PlanInv
BY DEF Init, Did, Results, Outcomes, PlanInv, BusyInv, PlansRespectStages, PlansComeFromBuiltConfiguration

\* No sequence of set-ups, builds and queries gets a query to a stage that rejects it,
\* as long as query checks of one name are the same check.
THEOREM QueriesFitStages == Spec => []PlansRespectStages
<1>1. PlanInv => PlansRespectStages
  BY DEF PlanInv
<1>. QED BY <1>1, PlanInit, PlanStep, Invariance, PTL DEF Spec

\* The staged pipelines plan only in the configuration that was built last.
THEOREM PlansNeedBuild == Spec => []PlansComeFromBuiltConfiguration
<1>1. PlanInv => PlansComeFromBuiltConfiguration
  BY DEF PlanInv
<1>. QED BY <1>1, PlanInit, PlanStep, Invariance, PTL DEF Spec
-------------------------------------------------------------------------------
(* The incremental pipeline. *)

LEMMA FitStep == IndInv /\ IncrementalStagesFit /\ [Next]_vars => IncrementalStagesFit'
<1>. SUFFICES ASSUME IndInv, IncrementalStagesFit, [Next]_vars, kind' = "incremental"
              PROVE  \A stage \in Stages' : SupportsSystem(stage.check, Supported[target_db'])
  BY DEF IncrementalStagesFit
<1>1. TypeInv
  BY DEF IndInv
<1>2. ASSUME UNCHANGED << kind, target_db, slots, steps >>
      PROVE  \A stage \in Stages' : SupportsSystem(stage.check, Supported[target_db'])
  BY <1>2 DEF IncrementalStagesFit, Stages
<1>3. ASSUME NEW db \in Databases, SwitchTargetDb(db)
      PROVE  \A stage \in Stages' : SupportsSystem(stage.check, Supported[target_db'])
  <2>1. CASE Integrity(db, Stages)
    BY <1>3, <2>1 DEF SwitchTargetDb, Integrity, Stages
  <2>2. CASE ~Integrity(db, Stages)
    BY <1>2, <1>3, <2>2 DEF SwitchTargetDb
  <2>. QED BY <2>1, <2>2
<1>4. ASSUME NEW stage \in StagesFor["algorithm"] \union {NoStage}, SetInitialPlanGenerator(stage)
      PROVE  \A s \in Stages' : SupportsSystem(s.check, Supported[target_db'])
  <2>. DEFINE generator == IF stage = NoStage THEN slots["algorithm"] ELSE stage
  <2>1. kind = "incremental" /\ steps' = steps /\ target_db' = target_db
    BY <1>4 DEF SetInitialPlanGenerator
  <2>2. CASE Integrity(target_db, {generator} \union Range(steps))
    <3>1. slots' = [slots EXCEPT !["algorithm"] = stage] /\ DOMAIN slots = {"algorithm"}
      BY <1>1, <1>4, <2>1, <2>2 DEF SetInitialPlanGenerator, TypeInv, Slots
    <3>2. Stages' = {stage} \union Range(steps)
      BY <2>1, <3>1 DEF Stages
    <3>3. SupportsSystem(stage.check, Supported[target_db])
      <4>1. CASE stage = NoStage
        BY <4>1 DEF NoStage, EmptyPreCheck, SupportsSystem
      <4>2. CASE stage # NoStage
        BY <2>2, <4>2 DEF Integrity
      <4>. QED BY <4>1, <4>2
    <3>. QED BY <2>1, <2>2, <3>2, <3>3 DEF Integrity
  <2>3. CASE ~Integrity(target_db, {generator} \union Range(steps))
    BY <1>2, <1>4, <2>3 DEF SetInitialPlanGenerator
  <2>. QED BY <2>2, <2>3
<1>5. ASSUME NEW step \in StagesFor["step"], AddOptimizationStep(step)
      PROVE  \A s \in Stages' : SupportsSystem(s.check, Supported[target_db'])
  <2>1. slots' = slots /\ target_db' = target_db /\ steps \in Seq(AllStages)
    BY <1>1, <1>5 DEF AddOptimizationStep, TypeInv
  <2>2. CASE Integrity(target_db, Stages \union {step})
    <3>1. steps' = Append(steps, step)
      BY <1>5, <2>2 DEF AddOptimizationStep
    <3>2. Range(steps') \subseteq Range(steps) \union {step}
      BY <2>1, <3>1 DEF Range
    <3>3. Stages' \subseteq Stages \union {step}
      BY <2>1, <3>2 DEF Stages
    <3>. QED BY <2>1, <2>2, <3>3 DEF Integrity
  <2>3. CASE ~Integrity(target_db, Stages \union {step})
    BY <1>2, <1>5, <2>3 DEF AddOptimizationStep
  <2>. QED BY <2>2, <2>3
<1>6. ASSUME \/ SetupAny \/ LoadAny
             \/ \E c \in ChecksOfUsers : SetupQuerySupportCheck(c)
             \/ \E db \in Databases : SetTargetDb(db)
      PROVE  kind' # "incremental"
  BY <1>6 DEF SetupAny, LoadAny, Setup, LoadSettings, SetupQuerySupportCheck, SetTargetDb
<1>7. ASSUME BuildMultiStage \/ BuildTextBook \/ BuildIntegrated PROVE kind' # "incremental"
  BY <1>7 DEF BuildMultiStage, BuildTextBook, BuildIntegrated, Built
<1>8. ASSUME \/ BuildWithoutAlgorithm \/ OptimizeUnbuilt
             \/ \E query \in Queries : RejectQuery(query) \/ Optimize(query)
             \/ Perform \/ StepRaises \/ UNCHANGED vars
      PROVE  UNCHANGED << kind, target_db, slots, steps >>
  BY <1>8 DEF BuildWithoutAlgorithm, OptimizeUnbuilt, RejectQuery, Optimize, Perform, StepRaises, vars
<1>. QED BY <1>2, <1>3, <1>4, <1>5, <1>6, <1>7, <1>8 DEF Next, Configure

\* However stages are added, replaced and removed and the database is switched, each
\* stage of an incremental pipeline has passed its check against the current database.
THEOREM IncrementalFit == Spec => []IncrementalStagesFit
<1>1. Init => IncrementalStagesFit
  <2>. SUFFICES ASSUME Init, kind = "incremental" PROVE \A stage \in Stages : stage = NoStage
    BY DEF IncrementalStagesFit, NoStage, EmptyPreCheck, SupportsSystem
  <2>. QED BY DEF Init, Stages, Slots, Range
<1>. QED BY <1>1, FitStep, Invariance, PTL DEF Spec

-------------------------------------------------------------------------------
(* The hooks around the stages. *)

\* What was initialized is initialized until something is cleaned up, and the other way round.
HookInv ==
  /\ state \in [AllStages -> Queries \union {NoQuery}]
  /\ at # 0 => /\ at \in 1 .. Len(Script)
               /\ \A i \in 1 .. at - 1 : \A slot \in Script[i].slots \intersect DOMAIN slots :
                    slots[slot].hooks = "self" =>
                      /\ Script[i].op = "initialize" =>
                           \/ state[slots[slot]] = result.query
                           \/ \E j \in i + 1 .. at - 1 : Script[j].op = "cleanup"
                      /\ Script[i].op = "cleanup" =>
                           \/ state[slots[slot]] = NoQuery
                           \/ \E j \in i + 1 .. at - 1 : Script[j].op = "initialize"

\* The scripts, by their steps
LEMMA Scripts ==
  ASSUME TypeInv
  PROVE  /\ Len(Script) \in Nat \ {0} /\ Script[Len(Script)] = Ask({})
         /\ \A i \in 1 .. Len(Script) : \A slot \in Script[i].slots :
              /\ Script[i].op = "ask" /\ slot \in {"parameters", "estimator", "cost"} =>
                   \E k \in 1 .. i - 1 : /\ Script[k].op = "initialize" /\ slot \in Script[k].slots
                                         /\ \A j \in k + 1 .. i - 1 : Script[j].op # "cleanup"
              /\ Script[i].op = "initialize" =>
                   \E k \in 1 .. Len(Script) - 1 : /\ Script[k].op = "cleanup" /\ slot \in Script[k].slots
                                                   /\ \A j \in k + 1 .. Len(Script) : Script[j].op # "initialize"
         /\ \A i \in 1 .. Len(Script) : Script[i].op \in {"ask", "initialize", "cleanup"}
         /\ \A i \in 1 .. Len(Script) : Script[i].op # "ask" => Script[i].slots \subseteq DOMAIN slots
         /\ \A i \in 1 .. Len(Script) : Script[i].op = "ask" =>
              Script[i].slots \subseteq DOMAIN slots
<1>. USE DEF Initialize, Ask, Cleanup
<1>1. CASE kind = "multi"
  <2>1. Script = << Ask({"join_order"}), Ask({"operators"}),
                    Initialize("parameters"), Ask({"parameters"}), Cleanup("parameters"), Ask({}) >>
    BY <1>1 DEF Script
  <2>2. DOMAIN slots = {"join_order", "operators", "parameters"}
    BY <1>1 DEF TypeInv, Slots
  <2>. QED BY <2>1, <2>2
<1>2. CASE kind = "textbook"
  <2>1. PICK first, second \in {"cost", "estimator"} :
          /\ first # second
          /\ Script = << Initialize(first), Initialize(second), Ask({"enumerator", "cost", "estimator"}),
                         Cleanup("cost"), Cleanup("estimator"), Ask({}) >>
    BY <1>2 DEF Script
  <2>2. DOMAIN slots = {"estimator", "cost", "enumerator"}
    BY <1>2 DEF TypeInv, Slots
  <2>3. CASE first = "cost" /\ second = "estimator"
    BY <2>1, <2>2, <2>3
  <2>4. CASE first = "estimator" /\ second = "cost"
    BY <2>1, <2>2, <2>4
  <2>. QED BY <2>1, <2>3, <2>4
<1>3. CASE kind \in {"integrated", "incremental"}
  <2>1. Script = << Ask({"algorithm"}), Ask({}) >>
    BY <1>3 DEF Script
  <2>2. DOMAIN slots = {"algorithm"}
    BY <1>3 DEF TypeInv, Slots
  <2>. QED BY <2>1, <2>2
<1>. QED BY <1>1, <1>2, <1>3 DEF TypeInv, Kinds

LEMMA HookStep == IndInv /\ BusyInv /\ HookInv /\ [Next]_vars => HookInv'
<1>. SUFFICES ASSUME IndInv, BusyInv, HookInv, [Next]_vars PROVE HookInv'
  OBVIOUS
<1>1. TypeInv /\ Len(Script) \in Nat \ {0}
  BY Scripts DEF IndInv
<1>2. CASE UNCHANGED vars
  BY <1>2 DEF vars, HookInv, Script
<1>3. ASSUME NEW query \in Queries, Optimize(query) PROVE HookInv'
  <2>1. at' = 1 /\ state' = state /\ Script' = Script
    BY <1>3 DEF Optimize, Script
  <2>. QED BY <1>1, <2>1 DEF HookInv
<1>4. CASE (at = 0 /\ (Configure \/ OptimizeUnbuilt)) \/ \E query \in Queries : at = 0 /\ RejectQuery(query)
  <2>1. at' = 0
    BY <1>4, OtherCallsPlanNothing
  <2>2. state' = state
    BY <1>4 DEF Configure, OptimizeUnbuilt, RejectQuery, SetupAny, LoadAny, Setup, LoadSettings,
         SetupQuerySupportCheck, SetTargetDb, SwitchTargetDb, SetInitialPlanGenerator, AddOptimizationStep,
         BuildMultiStage, BuildTextBook, BuildIntegrated, BuildWithoutAlgorithm, Built
  <2>. QED BY <2>1, <2>2 DEF HookInv
<1>5. ASSUME at # 0
      PROVE  After(Script[at], result.query) \in [AllStages -> Queries \union {NoQuery}]
  <2>1. result.query \in Queries \union {NoQuery} /\ state \in [AllStages -> Queries \union {NoQuery}]
    BY DEF BusyInv, HookInv, Results
  <2>. QED BY <2>1 DEF After
<1>6. CASE StepRaises
  BY <1>5, <1>6 DEF StepRaises, HookInv
<1>7. CASE Perform
  <2>1. /\ at # 0 /\ state' = After(Script[at], result.query) /\ UNCHANGED << kind, slots >>
        /\ at \in 1 .. Len(Script) /\ state \in [AllStages -> Queries \union {NoQuery}]
    BY <1>7 DEF Perform, HookInv
  <2>2. Script' = Script
    BY <2>1 DEF Script
  <2>3. CASE at = Len(Script)
    BY <1>1, <1>5, <1>7, <2>1, <2>3 DEF Perform, HookInv
  <2>4. CASE at # Len(Script)
    <3>1. at' = at + 1 /\ result' = result /\ at + 1 \in 1 .. Len(Script)
      BY <1>1, <1>7, <2>1, <2>4 DEF Perform
    <3>2. ASSUME NEW i \in 1 .. at, NEW slot \in Script[i].slots \intersect DOMAIN slots,
                 slots[slot].hooks = "self"
          PROVE  /\ Script[i].op = "initialize" =>
                      \/ state'[slots[slot]] = result.query
                      \/ \E j \in i + 1 .. at : Script[j].op = "cleanup"
                 /\ Script[i].op = "cleanup" =>
                      \/ state'[slots[slot]] = NoQuery
                      \/ \E j \in i + 1 .. at : Script[j].op = "initialize"
      <4>0. slots[slot] \in AllStages
        BY <1>1 DEF TypeInv
      <4> DEFINE hit == \E s \in Script[at].slots : slots[s] = slots[slot]
      <4>1. state'[slots[slot]] = IF hit
                                  THEN CASE Script[at].op = "initialize" -> result.query
                                         [] Script[at].op = "cleanup" -> NoQuery
                                         [] OTHER -> state[slots[slot]]
                                  ELSE state[slots[slot]]
        BY <2>1, <3>2, <4>0 DEF After
      <4>2. CASE i = at
        <5>1. hit
          BY <4>2
        <5>. QED BY <4>1, <4>2, <5>1
      <4>3. CASE i # at
        <5>1. i \in 1 .. at - 1 /\ at \in i + 1 .. at /\ i + 1 .. at - 1 \subseteq i + 1 .. at
          BY <2>1, <4>3
        <5>2. /\ Script[i].op = "initialize" =>
                   \/ state[slots[slot]] = result.query
                   \/ \E j \in i + 1 .. at - 1 : Script[j].op = "cleanup"
              /\ Script[i].op = "cleanup" =>
                   \/ state[slots[slot]] = NoQuery
                   \/ \E j \in i + 1 .. at - 1 : Script[j].op = "initialize"
          BY <2>1, <3>2, <5>1 DEF HookInv
        <5>3. \/ state'[slots[slot]] = state[slots[slot]]
              \/ Script[at].op = "initialize" /\ state'[slots[slot]] = result.query
              \/ Script[at].op = "cleanup" /\ state'[slots[slot]] = NoQuery
          BY <4>1
        <5>. HIDE DEF hit
        <5>. QED BY <5>1, <5>2, <5>3
      <4>. QED BY <4>2, <4>3
    <3>3. at' - 1 = at
      BY <2>1, <3>1
    <3>4. slots' = slots /\ state' \in [AllStages -> Queries \union {NoQuery}]
      BY <1>5, <2>1
    <3>. QED BY <2>2, <3>1, <3>2, <3>3, <3>4 DEF HookInv
  <2>. QED BY <2>3, <2>4
<1>. QED BY <1>2, <1>3, <1>4, <1>6, <1>7 DEF Next

LEMMA HookInit == Init => HookInv
BY DEF Init, HookInv

\* Whatever queries failed before: a stage is asked only about the query it was initialized for.
THEOREM StagesKnowTheQuery == Spec => []AskedStagesKnowTheQuery
<1>1. IndInv /\ HookInv => AskedStagesKnowTheQuery
  <2>. SUFFICES ASSUME IndInv, HookInv, at # 0, Script[at].op = "ask",
                       NEW slot \in Script[at].slots \intersect {"parameters", "estimator", "cost"},
                       slots[slot].hooks = "self"
                PROVE  state[slots[slot]] = result.query
    BY DEF AskedStagesKnowTheQuery
  <2>1. TypeInv /\ at \in 1 .. Len(Script)
    BY DEF IndInv, HookInv
  <2>2. PICK k \in 1 .. at - 1 : /\ Script[k].op = "initialize" /\ slot \in Script[k].slots
                                 /\ \A j \in k + 1 .. at - 1 : Script[j].op # "cleanup"
    BY <2>1, Scripts
  <2>3. slot \in DOMAIN slots
    BY <2>1, Scripts
  <2>. QED BY <2>1, <2>2, <2>3 DEF HookInv
<1>2. PlanInv => BusyInv
  BY DEF PlanInv
<1>. QED BY <1>1, <1>2, PlanInit, PlanStep, HookInit, HookStep, Invariance, PTL DEF Spec

\* A plan leaves no query in the stages it was made with.
THEOREM NoQueryStaysBehind == Spec => []PlansLeaveNoQueryBehind
<1>1. Init => PlansLeaveNoQueryBehind
  BY DEF Init, Did, PlansLeaveNoQueryBehind
<1>2. IndInv /\ PlanInv /\ HookInv /\ PlansLeaveNoQueryBehind /\ [Next]_vars => PlansLeaveNoQueryBehind'
  <2>. SUFFICES ASSUME IndInv, PlanInv, HookInv, PlansLeaveNoQueryBehind, [Next]_vars, result'.what = "plan"
                PROVE  PlansLeaveNoQueryBehind'
    BY DEF PlansLeaveNoQueryBehind
  <2>0. BusyInv /\ TypeInv
    BY DEF PlanInv, IndInv
  <2>1. CASE UNCHANGED vars
    BY <2>1 DEF vars, PlansLeaveNoQueryBehind, Script
  <2>2. CASE (at = 0 /\ (Configure \/ OptimizeUnbuilt)) \/ \E query \in Queries : at = 0 /\ RejectQuery(query)
    BY <2>2, OtherCallsPlanNothing
  <2>3. CASE (\E query \in Queries : Optimize(query)) \/ StepRaises
    <3>1. result'.what \in {"optimizing", "failed"}
      BY <2>0, <2>3 DEF Optimize, StepRaises, BusyInv, Results
    <3>. QED BY <3>1
  <2>4. CASE Perform
    <3>1. at \in 1 .. Len(Script) /\ result.what = "optimizing" /\ Len(Script) \in Nat
      BY <2>0, <2>4, Scripts DEF Perform, BusyInv, HookInv
    <3>2. at = Len(Script) /\ state' = After(Script[at], result.query) /\ UNCHANGED << kind, slots >>
      BY <2>4, <3>1 DEF Perform
    <3>3. Script' = Script
      BY <3>2 DEF Script
    <3>4. state' = state
      <4>1. Script[at] = Ask({}) /\ state \in [AllStages -> Queries \union {NoQuery}]
        BY <2>0, <3>2, Scripts DEF HookInv
      <4>. QED BY <3>2, <4>1 DEF After, Ask
    <3>5. ASSUME NEW i \in 1 .. Len(Script), Script[i].op = "initialize", NEW slot \in Script[i].slots,
                 slots[slot].hooks = "self"
          PROVE  state[slots[slot]] = NoQuery
      <4>1. PICK k \in 1 .. Len(Script) - 1 : /\ Script[k].op = "cleanup" /\ slot \in Script[k].slots
                                              /\ \A j \in k + 1 .. Len(Script) : Script[j].op # "initialize"
        BY <2>0, <3>5, Scripts
      <4>2. slot \in DOMAIN slots /\ k \in 1 .. at - 1
        BY <2>0, <3>1, <3>2, <3>5, Scripts
      <4>3. \A j \in k + 1 .. at - 1 : Script[j].op # "initialize"
        BY <3>1, <3>2, <4>1
      <4>. QED BY <3>1, <3>5, <4>1, <4>2, <4>3 DEF HookInv
    <3>. QED BY <3>2, <3>3, <3>4, <3>5 DEF PlansLeaveNoQueryBehind
  <2>. QED BY <2>1, <2>2, <2>3, <2>4 DEF Next
<1>3. PlanInv => BusyInv
  BY DEF PlanInv
<1>. QED BY <1>1, <1>2, <1>3, PlanInit, PlanStep, HookInit, HookStep, Invariance, PTL DEF Spec

\* Stages know a query exactly while they are asked about it, whatever failed before.
THEOREM StagesFollow == Spec => []StagesFollowTheQuery
BY StagesKnowTheQuery, NoQueryStaysBehind, PTL DEF StagesFollowTheQuery
===============================================================================
