------------------------- MODULE SyncPlanningProofs -------------------------
(***************************************************************************)
(* Theorems of SyncPlanning, for every set of places, objects, filters and *)
(* configurations and every number of pipelines.                           *)
(***************************************************************************)
EXTENDS SyncPlanning, FiniteSetTheorems, TLAPS

-----------------------------------------------------------------------------
(* The inductive invariant *)

\* Quiet: nothing is planned, shown or run.
Quiet ==
  /\ plan = NoPlan
  /\ run_plan = NoRunPlan
  /\ delete_confirm = NoConfirm
  /\ execution = NoExecution

\* Alone: without overlap there is one stage at most, and no plan beside it.
Alone ==
  /\ overlapped => changed
  /\ ~ overlapped => /\ \A i, j \in inflight : i = j
                     /\ inflight # {} => Quiet

Current == BuildPlan(Listing(cfg.source, cfg.filter),
                     Listing(cfg.destination, cfg.filter), cfg)

\* InStep: a stage of an undisturbed pipeline works for the current configuration.
InStep ==
  ~ changed => \A j \in inflight :
    /\ j.stage = "source" => j.place = cfg.source /\ j.filter = cfg.filter
    /\ j.stage = "destination" =>
         /\ j.place = cfg.destination /\ j.filter = cfg.filter
         /\ source_snapshot = Listing(cfg.source, cfg.filter)
    /\ j.stage = "compare" => j.plan = Current

\* The count a share is taken of is the plan's, or the source counts as empty,
\* as it does after Reset.
CountedBy(p) ==
  p.some =>
    /\ scanned.destination = p.listed \/ scanned.source = 0
    /\ p.listed = 0 => p.deletes = {}

\* Counted: so it is for the plan that is shown and the one to come.
Counted ==
  ~ overlapped =>
    /\ \A j \in inflight : j.stage = "compare" => CountedBy(j.plan)
    /\ CountedBy(plan)
    /\ run_plan.deletes \in {plan.deletes, {}}

\* ConfirmSound: an open confirmation was made for the plan there is.
ConfirmSound ==
  delete_confirm.open /\ ~ overlapped =>
    /\ delete_confirm.planned_deletes = Cardinality(run_plan.deletes)
    /\ run_plan.deletes # {}
    /\ plan.some
    /\ plan.conflicts = {}
    /\ cfg.mode = "Sync"
    /\ Cardinality(run_plan.deletes) <= cfg.max_deletes
    /\ ~ delete_confirm.typed_required =>
         /\ 4 * Cardinality(run_plan.deletes) <= plan.listed
         /\ Cardinality(run_plan.deletes) <= TypedAbove

IInv ==
  /\ TypeOK
  /\ PlanningUnderWay
  /\ Alone
  /\ InStep
  /\ ReviewedIsCurrent
  /\ Counted
  /\ ConfirmSound
  /\ RunWithinGuardrails
  /\ BigDeletesTyped

-----------------------------------------------------------------------------
(* The operators plans are built with *)

\* PathsFinite: there are finitely many paths, and a set of paths has a size.
LEMMA PathsFinite ==
  ASSUME NEW S \in SUBSET Paths
  PROVE  IsFiniteSet(S) /\ Cardinality(S) \in Nat
<1> DEFINE f == [o \in Objects |-> o[1]]
<1>1. IsFiniteSet(Paths)
  <2>1. f \in Surjection(Objects, Paths)
    BY DEF Surjection, Paths, PathsOf
  <2> QED BY <2>1, ObjectsAssumption, FS_Surjection
<1> QED BY <1>1, FS_Subset, FS_CardinalityType

\* ListingType: a listing is a set of objects.
LEMMA ListingType ==
  ASSUME NEW place \in Places, NEW filter
  PROVE  Listing(place, filter) \in SUBSET Objects
BY HoldsAssumption DEF Listing

\* BuildPlanType: the comparison yields a plan, with no deletes in an empty place.
LEMMA BuildPlanType ==
  ASSUME NEW source \in SUBSET Objects, NEW destination \in SUBSET Objects, NEW c \in Config
  PROVE  /\ BuildPlan(source, destination, c) \in Plan
         /\ BuildPlan(source, destination, c).some
         /\ BuildPlan(source, destination, c).listed = Cardinality(destination)
         /\ BuildPlan(source, destination, c).listed = 0 =>
              BuildPlan(source, destination, c).deletes = {}
<1>1. PathsOf(source) \subseteq Paths /\ PathsOf(destination) \subseteq Paths
  BY DEF PathsOf, Paths
<1>2. PathsOf(source \ destination) \subseteq Paths
  BY DEF PathsOf, Paths
<1>3. IsFiniteSet(destination) /\ Cardinality(destination) \in Nat
  BY ObjectsAssumption, FS_Subset, FS_CardinalityType
<1>4. Cardinality(destination) = 0 => PathsOf(destination) = {}
  BY <1>3, FS_EmptySet DEF PathsOf
<1> QED BY <1>1, <1>2, <1>3, <1>4 DEF BuildPlan, Plan

\* PrepareRunPlanType: a run plan deletes what its plan deletes, or nothing.
LEMMA PrepareRunPlanType ==
  ASSUME NEW p \in Plan, NEW c \in Config
  PROVE  /\ PrepareRunPlan(p, c) \in RunPlan
         /\ PrepareRunPlan(p, c).deletes \in {p.deletes, {}}
<1>1. Nowhere \in Places
  BY DEF Places
<1> QED BY <1>1 DEF PrepareRunPlan, NoRunPlan, RunPlan, Plan, Config

\* NothingTypes: the absent plan, run plan, confirmation and execution are well formed.
LEMMA NothingTypes ==
  /\ NoPlan \in Plan /\ NoRunPlan \in RunPlan
  /\ NoConfirm \in DeleteConfirm /\ NoExecution \in Execution
<1>1. Nowhere \in Places
  BY DEF Places
<1>2. NoRunPlan \in RunPlan
  BY <1>1 DEF NoRunPlan, RunPlan
<1> QED BY <1>2 DEF NoPlan, Plan, NoConfirm, DeleteConfirm, NoExecution, Execution

-----------------------------------------------------------------------------
(* Steps *)

\* InitInv: the window as it is opened.
LEMMA InitInv == Init => IInv
<1> SUFFICES ASSUME Init PROVE IInv
  OBVIOUS
<1>1. cfg \in Config
  BY ObjectsAssumption, FS_CardinalityType DEF Init, DefaultConfig, Config, Places
<1>2. TypeOK
  BY <1>1, NothingTypes DEF Init, TypeOK
<1>3. Quiet
  BY DEF Init, Quiet
<1>4. PlanningUnderWay /\ Alone /\ InStep
  BY <1>3 DEF Init, PlanningUnderWay, Alone, InStep
<1>5. ReviewedIsCurrent /\ Counted /\ ConfirmSound /\ RunWithinGuardrails /\ BigDeletesTyped
  BY <1>3 DEF Init, Quiet, ReviewedIsCurrent, Counted, CountedBy, ConfirmSound,
              RunWithinGuardrails, BigDeletesTyped, NoPlan, NoRunPlan, NoConfirm, NoExecution
<1> QED BY <1>2, <1>4, <1>5 DEF IInv

\* Cleared: nothing planned, shown or run leaves nothing to go wrong.
LEMMA Cleared ==
  ASSUME Quiet'
  PROVE  /\ ReviewedIsCurrent' /\ ConfirmSound' /\ RunWithinGuardrails' /\ BigDeletesTyped'
         /\ CountedBy(plan)' /\ run_plan'.deletes = {}
         /\ plan' \in Plan /\ run_plan' \in RunPlan
         /\ delete_confirm' \in DeleteConfirm /\ execution' \in Execution
<1>1. ~ plan'.some /\ ~ run_plan'.some /\ ~ delete_confirm'.open /\ ~ execution'.plan.some
      /\ run_plan'.deletes = {}
  BY DEF Quiet, NoPlan, NoRunPlan, NoConfirm, NoExecution
<1>2. /\ plan' \in Plan /\ run_plan' \in RunPlan
      /\ delete_confirm' \in DeleteConfirm /\ execution' \in Execution
  BY NothingTypes DEF Quiet
<1>3. ReviewedIsCurrent'
  BY <1>1 DEF ReviewedIsCurrent
<1>4. ConfirmSound' /\ RunWithinGuardrails' /\ BigDeletesTyped' /\ CountedBy(plan)'
  BY <1>1 DEF ConfirmSound, RunWithinGuardrails, BigDeletesTyped, CountedBy
<1> QED BY <1>1, <1>2, <1>3, <1>4

\* OpenSyncInv: Reset under the stages of the old window.
LEMMA OpenSyncInv == IInv /\ OpenSync => IInv'
<1> SUFFICES ASSUME IInv, OpenSync PROVE IInv'
  OBVIOUS
<1>1. Quiet'
  BY DEF OpenSync, ClearSyncPlan, Quiet
<1>2. TypeOK'
  <2>1. cfg' \in Config
    BY ObjectsAssumption, FS_CardinalityType DEF OpenSync, DefaultConfig, Config, Places
  <2> QED BY <1>1, <2>1, Cleared DEF IInv, TypeOK, OpenSync, ClearSyncPlan
<1>3. PlanningUnderWay' /\ Alone'
  BY <1>1 DEF IInv, TypeOK, PlanningUnderWay, Alone, OpenSync, Quiet
<1>4. InStep'
  BY DEF InStep, OpenSync
<1>5. Counted'
  BY <1>1, Cleared DEF IInv, Counted, CountedBy, OpenSync, Quiet, NoPlan
<1> QED BY <1>1, <1>2, <1>3, <1>4, <1>5, Cleared DEF IInv

\* ChangeConfigInv: a field is edited.
LEMMA ChangeConfigInv ==
  ASSUME NEW c \in Configs
  PROVE  IInv /\ ChangeConfig(c) => IInv'
<1> SUFFICES ASSUME IInv, ChangeConfig(c) PROVE IInv'
  OBVIOUS
<1>1. Quiet'
  BY DEF ChangeConfig, ClearSyncPlan, Quiet
<1>2. TypeOK'
  BY <1>1, Cleared, ConfigsAssumption DEF IInv, TypeOK, ChangeConfig, ClearSyncPlan
<1>3. PlanningUnderWay' /\ Alone'
  BY <1>1 DEF IInv, TypeOK, PlanningUnderWay, Alone, ChangeConfig, Quiet
<1>4. InStep'
  BY DEF InStep, ChangeConfig
<1>5. Counted'
  BY <1>1, Cleared DEF IInv, Counted, CountedBy, ChangeConfig, Quiet, NoPlan
<1> QED BY <1>1, <1>2, <1>3, <1>4, <1>5, Cleared DEF IInv

\* StartSyncPlanInv: a pipeline starts, alone or over another one.
LEMMA StartSyncPlanInv == IInv /\ StartSyncPlan => IInv'
<1> SUFFICES ASSUME IInv, StartSyncPlan PROVE IInv'
  OBVIOUS
<1> DEFINE job == [nr |-> starts', stage |-> "source", place |-> cfg.source,
                   filter |-> cfg.filter, plan |-> NoPlan]
<1>1. Quiet'
  BY DEF StartSyncPlan, ClearSyncPlan, Quiet
<1>2. /\ inflight' = inflight \union {job} \/ (inflight' = inflight /\ running' = FALSE)
      /\ running' \in BOOLEAN
  BY DEF StartSyncPlan, StopPlanning
<1>3. TypeOK'
  <2>1. job \in Job
    BY NothingTypes DEF IInv, TypeOK, StartSyncPlan, Job, Stages, Config
  <2>2. inflight' \subseteq Job
    BY <1>2, <2>1 DEF IInv, TypeOK
  <2>3. /\ changed' \in BOOLEAN /\ overlapped' \in BOOLEAN /\ starts' \in Nat
        /\ source_snapshot' \subseteq Objects /\ cfg' \in Config
        /\ scanned' \in [source: Nat, destination: Nat]
    BY DEF IInv, TypeOK, StartSyncPlan, ClearSyncPlan
  <2> QED BY <1>1, <1>2, <2>2, <2>3, Cleared DEF TypeOK
<1>4. PlanningUnderWay'
  BY <1>2 DEF PlanningUnderWay
<1>5. Alone'
  BY <1>1, <1>2 DEF Alone, StartSyncPlan, Quiet
<1>6. InStep'
  <2>1. ~ changed' => inflight' \subseteq {job}
    BY <1>2 DEF StartSyncPlan
  <2>2. cfg' = cfg /\ job.stage = "source" /\ job.place = cfg.source /\ job.filter = cfg.filter
    BY DEF StartSyncPlan
  <2> HIDE DEF job
  <2> QED BY <2>1, <2>2 DEF InStep
<1>7. Counted'
  <2>1. ~ overlapped' => inflight' \subseteq {job}
    BY <1>2 DEF StartSyncPlan
  <2>2. job.stage = "source"
    OBVIOUS
  <2> HIDE DEF job
  <2> QED BY <1>1, <2>1, <2>2, Cleared DEF Counted, Quiet
<1> QED BY <1>1, <1>3, <1>4, <1>5, <1>6, <1>7, Cleared DEF IInv

\* Stage facts: the other stages are untouched; a step of a stage that is alone
\* finds nothing planned, shown or run.
LEMMA AloneIsQuiet ==
  ASSUME IInv, NEW j \in inflight, ~ overlapped
  PROVE  Quiet /\ inflight \ {j} = {}
BY DEF IInv, Alone

\* KeepsResults: a step that leaves plans, confirmation, execution and
\* configuration alone leaves what is said of them alone.
LEMMA KeepsResults ==
  ASSUME IInv, UNCHANGED <<cfg, results, history>>
  PROVE  /\ ReviewedIsCurrent' /\ ConfirmSound' /\ RunWithinGuardrails' /\ BigDeletesTyped'
<1>1. ReviewedIsCurrent'
  BY DEF IInv, ReviewedIsCurrent, results, history
<1>2. ConfirmSound' /\ RunWithinGuardrails' /\ BigDeletesTyped'
  BY DEF IInv, ConfirmSound, RunWithinGuardrails, BigDeletesTyped, results, history
<1> QED BY <1>1, <1>2

\* EnumerationFailedInv: a listing reports an error.
LEMMA EnumerationFailedInv ==
  ASSUME NEW j \in inflight
  PROVE  IInv /\ EnumerationFailed(j) => IInv'
<1> SUFFICES ASSUME IInv, EnumerationFailed(j) PROVE IInv'
  OBVIOUS
<1> USE DEF EnumerationFailed, StopPlanning
<1>1. TypeOK'
  BY DEF IInv, TypeOK, results, history
<1>2. PlanningUnderWay'
  BY DEF PlanningUnderWay
<1>3. Alone'
  BY DEF IInv, Alone, Quiet, results, history
<1>4. InStep'
  BY DEF IInv, InStep, Current, history
<1>5. Counted'
  BY DEF IInv, Counted, CountedBy, results, history
<1> QED BY <1>1, <1>2, <1>3, <1>4, <1>5, KeepsResults DEF IInv

\* SourceInv: the source is listed; the destination is next.
LEMMA SourceInv ==
  ASSUME NEW j \in inflight
  PROVE  IInv /\ SyncSourceEnumerated(j) => IInv'
<1> SUFFICES ASSUME IInv, SyncSourceEnumerated(j) PROVE IInv'
  OBVIOUS
<1> DEFINE job == [nr |-> j.nr, stage |-> "destination", place |-> cfg.destination,
                   filter |-> cfg.filter, plan |-> NoPlan]
<1>0. j \in Job /\ cfg \in Config /\ overlapped' = overlapped /\ changed' = changed
  BY DEF IInv, TypeOK, SyncSourceEnumerated, history
<1>1. \/ inflight' = (inflight \ {j}) \union {job} /\ running' = running
      \/ inflight' = inflight \ {j} /\ running' = FALSE
  BY DEF SyncSourceEnumerated, Enumerate, StopPlanning
<1>2. TypeOK'
  <2>1. job \in Job
    BY <1>0, NothingTypes DEF Job, Stages, Config
  <2>2. source_snapshot' \in SUBSET Objects
    BY <1>0, ListingType DEF SyncSourceEnumerated, Job
  <2>3. Cardinality(source_snapshot') \in Nat
    BY <2>2, ObjectsAssumption, FS_Subset, FS_CardinalityType
  <2>4. scanned' \in [source: Nat, destination: Nat]
    BY <2>3 DEF SyncSourceEnumerated, IInv, TypeOK
  <2>5. inflight' \subseteq Job /\ running' \in BOOLEAN
    BY <1>1, <2>1 DEF IInv, TypeOK
  <2> QED BY <2>2, <2>4, <2>5 DEF IInv, TypeOK, SyncSourceEnumerated, results, history
<1>3. PlanningUnderWay'
  BY <1>1 DEF PlanningUnderWay
<1>4. Alone'
  <2>1. ~ overlapped => Quiet' /\ inflight' \subseteq {job}
    BY <1>1, AloneIsQuiet DEF Quiet, SyncSourceEnumerated, results
  <2> QED BY <1>0, <2>1 DEF IInv, Alone
<1>5. InStep'
  <2>1. ~ changed => /\ inflight' \subseteq {job}
                     /\ source_snapshot' = Listing(cfg.source, cfg.filter)
    BY <1>1, AloneIsQuiet DEF IInv, InStep, Alone, SyncSourceEnumerated
  <2>2. cfg' = cfg
    BY DEF SyncSourceEnumerated
  <2> QED BY <1>0, <2>1, <2>2 DEF InStep
<1>6. Counted'
  <2>1. ~ overlapped => inflight' \subseteq {job} /\ plan' = NoPlan /\ run_plan' = NoRunPlan
    BY <1>1, AloneIsQuiet DEF Quiet, SyncSourceEnumerated, results
  <2> QED BY <1>0, <2>1 DEF Counted, CountedBy, NoPlan, NoRunPlan
<1> QED BY <1>2, <1>3, <1>4, <1>5, <1>6, KeepsResults DEF IInv, SyncSourceEnumerated

\* DestinationInv: the destination is listed; the comparison is next.
LEMMA DestinationInv ==
  ASSUME NEW j \in inflight
  PROVE  IInv /\ SyncDestinationEnumerated(j) => IInv'
<1> SUFFICES ASSUME IInv, SyncDestinationEnumerated(j) PROVE IInv'
  OBVIOUS
<1> DEFINE listing == Listing(j.place, j.filter)
           built   == BuildPlan(source_snapshot, listing, cfg)
           job     == [nr |-> j.nr, stage |-> "compare", place |-> j.place,
                       filter |-> j.filter, plan |-> built]
<1>0. j \in Job /\ cfg \in Config /\ overlapped' = overlapped /\ changed' = changed
      /\ cfg' = cfg
  BY DEF IInv, TypeOK, SyncDestinationEnumerated, history
<1>1. \/ inflight' = (inflight \ {j}) \union {job} /\ running' = running
      \/ inflight' = inflight \ {j} /\ running' = FALSE
  BY DEF SyncDestinationEnumerated, StopPlanning
<1>2. listing \in SUBSET Objects
  BY <1>0, ListingType DEF Job
<1>3. /\ built \in Plan /\ built.some /\ built.listed = Cardinality(listing)
      /\ built.listed = 0 => built.deletes = {}
  BY <1>0, <1>2, BuildPlanType DEF IInv, TypeOK
<1>4. scanned'.destination = Cardinality(listing) /\ scanned'.source = scanned.source
  BY DEF SyncDestinationEnumerated, IInv, TypeOK
<1>5. TypeOK'
  <2>1. job \in Job
    BY <1>0, <1>3 DEF Job, Stages
  <2>2. Cardinality(listing) \in Nat
    BY <1>2, ObjectsAssumption, FS_Subset, FS_CardinalityType
  <2>3. scanned' \in [source: Nat, destination: Nat]
    BY <2>2 DEF SyncDestinationEnumerated, IInv, TypeOK
  <2>4. inflight' \subseteq Job /\ running' \in BOOLEAN
    BY <1>1, <2>1 DEF IInv, TypeOK
  <2> QED BY <2>3, <2>4 DEF IInv, TypeOK, SyncDestinationEnumerated, results, history
<1>6. PlanningUnderWay'
  BY <1>1 DEF PlanningUnderWay
<1>7. Alone'
  <2>1. ~ overlapped => Quiet' /\ inflight' \subseteq {job}
    BY <1>1, AloneIsQuiet DEF Quiet, SyncDestinationEnumerated, results
  <2> QED BY <1>0, <2>1 DEF IInv, Alone
<1>8. InStep'
  <2>1. ~ changed => inflight' \subseteq {job} /\ built = Current
    BY <1>1, AloneIsQuiet DEF IInv, InStep, Alone, Current, SyncDestinationEnumerated
  <2>2. Current' = Current
    BY <1>0 DEF Current
  <2>3. job.stage = "compare" /\ job.plan = built
    OBVIOUS
  <2> QED BY <1>0, <2>1, <2>2, <2>3 DEF InStep
<1>9. Counted'
  <2>1. ~ overlapped => inflight' \subseteq {job} /\ plan' = NoPlan /\ run_plan' = NoRunPlan
    BY <1>1, AloneIsQuiet DEF Quiet, SyncDestinationEnumerated, results
  <2>2. job.plan = built
    OBVIOUS
  <2>3. built.some => /\ scanned'.destination = built.listed
                      /\ built.listed = 0 => built.deletes = {}
    BY <1>3, <1>4
  <2> HIDE DEF job, built
  <2> QED BY <1>0, <2>1, <2>2, <2>3 DEF Counted, CountedBy, NoPlan, NoRunPlan
<1> QED BY <1>5, <1>6, <1>7, <1>8, <1>9, KeepsResults DEF IInv, SyncDestinationEnumerated

\* PlanBuiltInv: a plan arrives.
LEMMA PlanBuiltInv ==
  ASSUME NEW j \in inflight
  PROVE  IInv /\ SyncPlanBuilt(j) => IInv'
<1> SUFFICES ASSUME IInv, SyncPlanBuilt(j) PROVE IInv'
  OBVIOUS
<1>0. /\ j \in Job /\ cfg \in Config /\ j.plan \in Plan /\ j.stage = "compare"
      /\ overlapped' = overlapped /\ changed' = changed /\ cfg' = cfg
  BY DEF IInv, TypeOK, SyncPlanBuilt, history, Job
<1>1. inflight' = inflight \ {j} /\ running' = FALSE
  BY DEF SyncPlanBuilt, StopPlanning
<1>2. plan' = j.plan /\ run_plan' = PrepareRunPlan(j.plan, cfg)
  BY DEF SyncPlanBuilt
<1>3. run_plan' \in RunPlan /\ run_plan'.deletes \in {j.plan.deletes, {}}
  BY <1>0, <1>2, PrepareRunPlanType
<1>4. ~ overlapped => /\ inflight' = {}
                      /\ ~ delete_confirm'.open /\ ~ execution'.plan.some
                      /\ scanned' = scanned
  <2>1. delete_confirm' = delete_confirm /\ execution' = execution /\ scanned' = scanned
    BY DEF SyncPlanBuilt
  <2> QED BY <1>1, <2>1, AloneIsQuiet
          DEF Quiet, NoConfirm, NoExecution, NoRunPlan
<1>5. TypeOK'
  BY <1>0, <1>1, <1>2, <1>3 DEF IInv, TypeOK, SyncPlanBuilt, history
<1>6. PlanningUnderWay'
  BY <1>1 DEF PlanningUnderWay
<1>7. Alone'
  BY <1>0, <1>4 DEF IInv, Alone
<1>8. ~ changed' => inflight' = {} /\ ~ overlapped
  BY <1>0, <1>4 DEF IInv, Alone
<1>9. InStep'
  BY <1>8 DEF InStep
<1>10. ReviewedIsCurrent'
  <2>1. ~ changed => j.plan = Current
    BY <1>0 DEF IInv, InStep
  <2>2. Current' = Current
    BY <1>0 DEF Current
  <2> QED BY <1>0, <1>2, <1>4, <1>8, <2>1, <2>2 DEF ReviewedIsCurrent, Current
<1>11. Counted'
  <2>1. ~ overlapped => CountedBy(j.plan)
    BY <1>0 DEF IInv, Counted
  <2>2. ~ overlapped => CountedBy(plan)'
    BY <1>2, <1>4, <2>1 DEF CountedBy
  <2> QED BY <1>0, <1>2, <1>3, <1>4, <2>2 DEF Counted
<1>12. ConfirmSound' /\ RunWithinGuardrails' /\ BigDeletesTyped'
  BY <1>0, <1>4 DEF ConfirmSound, RunWithinGuardrails, BigDeletesTyped
<1> QED BY <1>5, <1>6, <1>7, <1>9, <1>10, <1>11, <1>12 DEF IInv

\* NotQuiet: with something planned, shown or run, a pipeline that is not
\* overlapped has ended.
LEMMA NotQuiet ==
  ASSUME IInv,
         \/ run_plan.transfers # {} \/ run_plan.deletes # {}
         \/ delete_confirm.open \/ execution.running
  PROVE  ~ overlapped => inflight = {}
BY DEF IInv, Alone, Quiet, NoRunPlan, NoConfirm, NoExecution

\* RunKeeps: a step of the run, or of the dialog before it, leaves plans and
\* stages alone.
LEMMA RunKeeps ==
  ASSUME IInv, UNCHANGED <<cfg, running, source_snapshot, scanned, plan, run_plan,
                           inflight, history>>,
         ~ overlapped => inflight = {},
         delete_confirm' \in DeleteConfirm, execution' \in Execution
  PROVE  TypeOK' /\ PlanningUnderWay' /\ Alone' /\ InStep' /\ Counted'
<1> USE DEF history
<1>1. TypeOK'
  BY DEF IInv, TypeOK
<1>2. PlanningUnderWay'
  BY DEF IInv, PlanningUnderWay
<1>3. Alone'
  BY DEF IInv, Alone
<1>4. InStep'
  BY DEF IInv, InStep, Current
<1>5. Counted'
  BY DEF IInv, Counted, CountedBy
<1> QED BY <1>1, <1>2, <1>3, <1>4, <1>5

\* RunTypes: what a start puts into the execution is one, of the plan there is.
LEMMA RunTypes ==
  ASSUME IInv, NEW typed \in BOOLEAN, Run(typed)
  PROVE  /\ execution' \in Execution
         /\ execution'.plan = run_plan /\ execution'.typed = typed
BY DEF IInv, TypeOK, Run, Execution

\* StartSyncCopyInv: a copy starts.
LEMMA StartSyncCopyInv == IInv /\ StartSyncCopy => IInv'
<1> SUFFICES ASSUME IInv, StartSyncCopy PROVE IInv'
  OBVIOUS
<1>1. /\ execution' \in Execution /\ execution'.plan = run_plan
      /\ delete_confirm' = delete_confirm /\ delete_confirm' \in DeleteConfirm
      /\ cfg' = cfg /\ cfg.mode = "Copy" /\ run_plan' = run_plan /\ plan' = plan
      /\ changed' = changed /\ overlapped' = overlapped
  BY RunTypes DEF StartSyncCopy, IInv, TypeOK, history
<1>2. TypeOK' /\ PlanningUnderWay' /\ Alone' /\ InStep' /\ Counted'
  BY <1>1, NotQuiet, RunKeeps DEF StartSyncCopy
<1>3. ReviewedIsCurrent'
  BY <1>1 DEF IInv, ReviewedIsCurrent
<1>4. ConfirmSound'
  BY <1>1 DEF IInv, ConfirmSound
<1>5. RunWithinGuardrails' /\ BigDeletesTyped'
  BY <1>1 DEF RunWithinGuardrails, BigDeletesTyped
<1> QED BY <1>2, <1>3, <1>4, <1>5 DEF IInv

\* StartSyncInv: a sync without deletes starts, or its confirmation opens.
LEMMA StartSyncInv == IInv /\ StartSync => IInv'
<1> SUFFICES ASSUME IInv, StartSync PROVE IInv'
  OBVIOUS
<1> DEFINE n == Cardinality(run_plan.deletes)
<1>1. /\ cfg' = cfg /\ run_plan' = run_plan /\ plan' = plan /\ scanned' = scanned
      /\ changed' = changed /\ overlapped' = overlapped
      /\ cfg.mode = "Sync" /\ plan.some /\ plan.conflicts = {}
      /\ run_plan.transfers # {} \/ run_plan.deletes # {}
      /\ n <= cfg.max_deletes
  BY DEF StartSync, WithinGuardrails, history
<1>2. /\ run_plan \in RunPlan /\ plan \in Plan /\ cfg \in Config
      /\ run_plan.deletes \in SUBSET Paths /\ plan.listed \in Nat /\ cfg.max_deletes \in Nat
      /\ scanned.source \in Nat /\ scanned.destination \in Nat
  BY DEF IInv, TypeOK, RunPlan, Plan, Config
<1>3. n \in Nat /\ (n = 0 <=> run_plan.deletes = {})
  BY <1>2, PathsFinite, FS_EmptySet
<1>4. /\ delete_confirm' \in DeleteConfirm /\ execution' \in Execution
      /\ run_plan.deletes = {} => /\ ~ delete_confirm'.open
                                 /\ execution'.plan = run_plan
      /\ run_plan.deletes # {} => /\ execution' = execution
                                 /\ delete_confirm'.planned_deletes = n
                                 /\ delete_confirm'.typed_required = TypedRequired(n, scanned)
  <2> DEFINE t == TypedRequired(n, scanned)
             confirm == [open |-> TRUE, planned_deletes |-> n, typed_required |-> t]
  <2>1. run_plan.deletes = {} => Run(FALSE) /\ delete_confirm' = NoConfirm
    BY DEF StartSync
  <2>2. run_plan.deletes # {} => delete_confirm' = confirm /\ execution' = execution
    BY DEF StartSync
  <2>3. t \in BOOLEAN
    BY DEF TypedRequired
  <2>4. confirm \in DeleteConfirm /\ confirm.planned_deletes = n
        /\ confirm.typed_required = TypedRequired(n, scanned)
    BY <1>3, <2>3 DEF DeleteConfirm
  <2>5. NoConfirm \in DeleteConfirm /\ ~ NoConfirm.open /\ execution \in Execution
    BY NothingTypes DEF NoConfirm, IInv, TypeOK
  <2>6. Run(FALSE) => execution' \in Execution /\ execution'.plan = run_plan
    BY RunTypes
  <2> HIDE DEF n, t, confirm
  <2>7. CASE run_plan.deletes = {}
    BY <2>1, <2>5, <2>6, <2>7
  <2>8. CASE run_plan.deletes # {}
    BY <2>2, <2>4, <2>5, <2>8
  <2> QED BY <2>7, <2>8
<1>5. TypeOK' /\ PlanningUnderWay' /\ Alone' /\ InStep' /\ Counted'
  BY <1>1, <1>4, NotQuiet, RunKeeps DEF StartSync
<1>6. ReviewedIsCurrent'
  BY <1>1, <1>4 DEF IInv, ReviewedIsCurrent
<1>7. ConfirmSound'
  <2>1. SUFFICES ASSUME run_plan.deletes # {}, ~ overlapped, ~ TypedRequired(n, scanned)
                 PROVE  4 * n <= plan.listed /\ n <= TypedAbove
    BY <1>1, <1>4 DEF ConfirmSound
  <2>2. run_plan.deletes = plan.deletes /\ CountedBy(plan)
    BY <2>1 DEF IInv, Counted
  <2>3. n > 0 /\ plan.listed > 0
    BY <1>1, <1>2, <1>3, <2>1, <2>2 DEF CountedBy
  <2>4. scanned.source # 0 /\ n <= TypedAbove
    BY <1>2, <1>3, <2>1, <2>3, BoundsAssumption DEF TypedRequired
  <2>5. scanned.destination = plan.listed
    BY <1>1, <2>2, <2>4 DEF CountedBy
  <2> QED BY <1>2, <1>3, <2>1, <2>3, <2>4, <2>5 DEF TypedRequired
<1>8. RunWithinGuardrails'
  BY <1>1, <1>4 DEF IInv, RunWithinGuardrails
<1>9. BigDeletesTyped'
  <2>1. CASE run_plan.deletes = {}
    <3>1. n = 0 /\ 4 * n <= plan.listed /\ n <= TypedAbove
      BY <1>2, <1>3, <2>1, BoundsAssumption
    <3>2. execution'.plan.deletes = run_plan.deletes
      BY <1>4, <2>1
    <3> QED BY <1>1, <3>1, <3>2 DEF BigDeletesTyped
  <2>2. CASE run_plan.deletes # {}
    BY <1>1, <1>4, <2>2 DEF IInv, BigDeletesTyped
  <2> QED BY <2>1, <2>2
<1> QED BY <1>5, <1>6, <1>7, <1>8, <1>9 DEF IInv

\* CancelInv: the confirmation closes.
LEMMA CancelInv == IInv /\ CancelSyncDeleteConfirm => IInv'
<1> SUFFICES ASSUME IInv, CancelSyncDeleteConfirm PROVE IInv'
  OBVIOUS
<1>1. /\ ~ delete_confirm'.open /\ delete_confirm' \in DeleteConfirm
      /\ execution' = execution /\ execution' \in Execution
      /\ cfg' = cfg /\ run_plan' = run_plan /\ plan' = plan
      /\ changed' = changed /\ overlapped' = overlapped
  BY NothingTypes DEF CancelSyncDeleteConfirm, NoConfirm, IInv, TypeOK, history
<1>2. TypeOK' /\ PlanningUnderWay' /\ Alone' /\ InStep' /\ Counted'
  BY <1>1, NotQuiet, RunKeeps DEF CancelSyncDeleteConfirm
<1>3. ReviewedIsCurrent'
  BY <1>1 DEF IInv, ReviewedIsCurrent
<1>4. ConfirmSound' /\ RunWithinGuardrails' /\ BigDeletesTyped'
  BY <1>1 DEF IInv, ConfirmSound, RunWithinGuardrails, BigDeletesTyped
<1> QED BY <1>2, <1>3, <1>4 DEF IInv

\* ConfirmInv: the confirmed run starts.
LEMMA ConfirmInv ==
  ASSUME NEW typed \in BOOLEAN
  PROVE  IInv /\ ConfirmSyncDeleteRun(typed) => IInv'
<1> SUFFICES ASSUME IInv, ConfirmSyncDeleteRun(typed) PROVE IInv'
  OBVIOUS
<1>1. /\ ~ delete_confirm'.open /\ delete_confirm' \in DeleteConfirm
      /\ delete_confirm.open
      /\ delete_confirm.typed_required => typed
      /\ cfg' = cfg /\ run_plan' = run_plan /\ plan' = plan
      /\ changed' = changed /\ overlapped' = overlapped
  BY NothingTypes DEF ConfirmSyncDeleteRun, NoConfirm, history
<1>2. /\ execution' \in Execution
      /\ \/ execution'.plan = run_plan /\ execution'.typed = typed
         \/ execution' = execution
  BY RunTypes DEF ConfirmSyncDeleteRun, IInv, TypeOK
<1>3. TypeOK' /\ PlanningUnderWay' /\ Alone' /\ InStep' /\ Counted'
  BY <1>1, <1>2, NotQuiet, RunKeeps DEF ConfirmSyncDeleteRun
<1>4. ReviewedIsCurrent'
  BY <1>1, <1>2 DEF IInv, ReviewedIsCurrent
<1>5. ConfirmSound'
  BY <1>1 DEF ConfirmSound
<1>6. RunWithinGuardrails' /\ BigDeletesTyped'
  <2>1. CASE execution' = execution
    BY <1>1, <2>1 DEF IInv, RunWithinGuardrails, BigDeletesTyped
  <2>2. CASE execution'.plan = run_plan /\ execution'.typed = typed
    <3>1. ~ overlapped =>
            /\ Cardinality(run_plan.deletes) <= cfg.max_deletes
            /\ typed \/ /\ 4 * Cardinality(run_plan.deletes) <= plan.listed
                        /\ Cardinality(run_plan.deletes) <= TypedAbove
      BY <1>1 DEF IInv, ConfirmSound
    <3>2. execution'.plan.deletes = run_plan.deletes
      BY <2>2
    <3>3. RunWithinGuardrails'
      BY <1>1, <3>1, <3>2 DEF RunWithinGuardrails
    <3>4. BigDeletesTyped'
      BY <1>1, <2>2, <3>1, <3>2 DEF BigDeletesTyped
    <3> QED BY <3>3, <3>4
  <2> QED BY <1>2, <2>1, <2>2
<1> QED BY <1>3, <1>4, <1>5, <1>6 DEF IInv

\* RunEndsInv: the run stops running.
LEMMA RunEndsInv == IInv /\ RunEnds => IInv'
<1> SUFFICES ASSUME IInv, RunEnds PROVE IInv'
  OBVIOUS
<1>1. /\ execution'.plan = execution.plan /\ execution'.typed = execution.typed
      /\ execution' \in Execution
      /\ delete_confirm' = delete_confirm /\ delete_confirm' \in DeleteConfirm
      /\ cfg' = cfg /\ run_plan' = run_plan /\ plan' = plan
      /\ changed' = changed /\ overlapped' = overlapped
  BY DEF RunEnds, IInv, TypeOK, Execution, history
<1>2. TypeOK' /\ PlanningUnderWay' /\ Alone' /\ InStep' /\ Counted'
  BY <1>1, NotQuiet, RunKeeps DEF RunEnds
<1>3. ReviewedIsCurrent'
  BY <1>1 DEF IInv, ReviewedIsCurrent
<1>4. ConfirmSound' /\ RunWithinGuardrails' /\ BigDeletesTyped'
  BY <1>1 DEF IInv, ConfirmSound, RunWithinGuardrails, BigDeletesTyped
<1> QED BY <1>2, <1>3, <1>4 DEF IInv

\* StutterInv: a step that changes nothing.
LEMMA StutterInv == IInv /\ UNCHANGED vars => IInv'
<1> SUFFICES ASSUME IInv, UNCHANGED vars PROVE IInv'
  OBVIOUS
<1> USE DEF vars, results, history
<1>1. TypeOK' /\ PlanningUnderWay' /\ Alone'
  BY DEF IInv, TypeOK, PlanningUnderWay, Alone, Quiet
<1>2. InStep' /\ Counted'
  BY DEF IInv, InStep, Current, Counted, CountedBy
<1> QED BY <1>1, <1>2, KeepsResults DEF IInv

LEMMA NextInv == IInv /\ [Next]_vars => IInv'
<1> SUFFICES ASSUME IInv, [Next]_vars PROVE IInv'
  OBVIOUS
<1>1. CASE User
  <2>1. ASSUME NEW c \in Configs, ChangeConfig(c) PROVE IInv'
    BY <2>1, ChangeConfigInv
  <2>2. ASSUME NEW typed \in BOOLEAN, ConfirmSyncDeleteRun(typed) PROVE IInv'
    BY <2>2, ConfirmInv
  <2> QED BY <1>1, <2>1, <2>2, OpenSyncInv, StartSyncPlanInv, StartSyncCopyInv,
             StartSyncInv, CancelInv DEF User
<1>2. ASSUME NEW j \in inflight, Stage(j) PROVE IInv'
  BY <1>2, EnumerationFailedInv, SourceInv, DestinationInv, PlanBuiltInv DEF Stage
<1> QED BY <1>1, <1>2, RunEndsInv, StutterInv DEF Next

LEMMA InvariantHolds == Spec => []IInv
<1> QED BY InitInv, NextInv, PTL DEF Spec

-----------------------------------------------------------------------------
(* The theorems *)

\* TypeCorrect: every field keeps its shape and every transfer of a run plan has
\* a strategy, whatever messages of whatever pipelines arrive.
THEOREM TypeCorrect == Spec => []TypeOK
<1>1. IInv => TypeOK
  BY DEF IInv
<1> QED BY <1>1, InvariantHolds, PTL

\* PlanningNeverHangs: the view shows "Planning..." only while a stage is under
\* way, so every error path gives the button back.
THEOREM PlanningNeverHangs == Spec => []PlanningUnderWay
<1>1. IInv => PlanningUnderWay
  BY DEF IInv
<1> QED BY <1>1, InvariantHolds, PTL

\* PlanIsCurrent: unless the configuration was changed or reset under a pipeline,
\* what is shown and run was planned from both listings of the current one.
THEOREM PlanIsCurrent == Spec => []ReviewedIsCurrent
<1>1. IInv => ReviewedIsCurrent
  BY DEF IInv
<1> QED BY <1>1, InvariantHolds, PTL

\* ConfirmationIsOfPlan: unless two pipelines overlapped, the number confirmed is
\* the number of deletes of the plan that will be run.
THEOREM ConfirmationIsOfPlan == Spec => []ConfirmedIsPlanned
<1>1. IInv => ConfirmedIsPlanned
  BY DEF IInv, ConfirmSound, ConfirmedIsPlanned
<1> QED BY <1>1, InvariantHolds, PTL

\* GuardrailsHold: unless two pipelines overlapped, no sync deletes more than the
\* limit, although the limit is not checked again after the confirmation.
THEOREM GuardrailsHold == Spec => []RunWithinGuardrails
<1>1. IInv => RunWithinGuardrails
  BY DEF IInv
<1> QED BY <1>1, InvariantHolds, PTL

\* BigDeletesAreTyped: unless two pipelines overlapped, a sync that deletes more than
\* a quarter of the destination, or more than the threshold, was confirmed by typing.
THEOREM BigDeletesAreTyped == Spec => []BigDeletesTyped
<1>1. IInv => BigDeletesTyped
  BY DEF IInv
<1> QED BY <1>1, InvariantHolds, PTL
=============================================================================
