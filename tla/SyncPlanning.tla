---------------------------- MODULE SyncPlanning ----------------------------
(***************************************************************************)
(* From a configuration to a confirmed run: the planning pipeline of       *)
(* src/src/app/handlers/sync.rs lines 21-704.                              *)
(*                                                                         *)
(* Building a plan takes three asynchronous stages: the source is listed,  *)
(* then the destination, then the two are compared.  No message says which *)
(* pipeline it belongs to, and each handler reads the configuration and    *)
(* the snapshots of the moment it runs in.  The user may change the        *)
(* configuration or press Reset between any two stages.                    *)
(*                                                                         *)
(* Data abstraction: an object is a path and a version, equal versions     *)
(* being identical objects; a filter is the set of objects it lets         *)
(* through.  What a run does to the places is the subject of               *)
(* SyncExecution: here they hold the same objects throughout.  The byte    *)
(* guardrail and the byte threshold are those of the counts once more.     *)
(***************************************************************************)
EXTENDS Integers, FiniteSets

CONSTANTS
  Buckets,       \* remote endpoints: a connection, a bucket and a prefix
  Folders,       \* local endpoints
  Nowhere,       \* an S3 endpoint whose bucket is not chosen
  Objects,       \* the objects there may be, as <<path, version>>
  Holds,         \* what each place holds
  Configs,       \* the configurations the user sets
  TypedAbove,    \* DELETE_CONFIRM_COUNT_THRESHOLD
  MaxStarts      \* bound: pipelines started

Places  == Buckets \union Folders \union {Nowhere}
PathsOf(objects) == {o[1] : o \in objects}
Paths   == PathsOf(Objects)

\* The fields of SyncState a plan or a guard depends on.  A limit of 0 stands
\* for a text that is no positive integer; no limit is one nothing exceeds.
Config ==
  [mode: {"Diff", "Copy", "Sync"}, source: Places, destination: Places,
   filter: SUBSET Objects, delete_extras: BOOLEAN, overwrite_changed: BOOLEAN,
   planner_limit: Nat, max_deletes: Nat]

\* SyncState::new: no buckets, no filter, the Converge preset, no delete limit.
DefaultConfig ==
  [mode |-> "Diff", source |-> Nowhere, destination |-> Nowhere,
   filter |-> Objects, delete_extras |-> TRUE, overwrite_changed |-> TRUE,
   planner_limit |-> 2 * Cardinality(Objects), max_deletes |-> Cardinality(Objects)]

ASSUME ObjectsAssumption == IsFiniteSet(Objects)
ASSUME HoldsAssumption ==
  /\ Holds \in [Places -> SUBSET Objects]
  /\ Holds[Nowhere] = {}
  /\ \A p \in Places : \A o, q \in Holds[p] : o[1] = q[1] => o = q
ASSUME ConfigsAssumption == Configs \subseteq Config
ASSUME BoundsAssumption == TypedAbove \in Nat /\ MaxStarts \in Nat

VARIABLES
  cfg,              \* the configuration
  running,          \* SyncState.running: "Planning..."
  source_snapshot,  \* SyncState.source_snapshot; None is read as an empty one
  scanned,          \* telemetry.source_scanned and destination_scanned
  plan,             \* SyncState.plan
  run_plan,         \* SyncState.run_plan
  delete_confirm,   \* SyncState.delete_confirm
  execution,        \* SyncState.execution
  inflight,         \* stages whose message has not been handled
  starts,           \* history: pipelines started
  changed,          \* history: configuration changed, or reset, under a pipeline
  overlapped        \* history: a pipeline was started over another one

results == <<plan, run_plan, delete_confirm, execution>>
history == <<starts, changed, overlapped>>
vars == <<cfg, running, source_snapshot, scanned, results, inflight, history>>

-----------------------------------------------------------------------------
(* Plans *)

NoPlan == [some |-> FALSE, transfers |-> {}, deletes |-> {}, conflicts |-> {}, listed |-> 0]

\* listed: how many destination objects it was made from.
Plan == [some: BOOLEAN, transfers: SUBSET Paths, deletes: SUBSET Paths,
         conflicts: SUBSET Paths, listed: Nat]

\* build_sync_plan: Create and Update are transfers, Skip is left out.
BuildPlan(source, destination, c) ==
  LET differ == PathsOf(source \ destination) \intersect PathsOf(destination)
      update == c.mode = "Copy" \/ c.overwrite_changed
  IN [some      |-> TRUE,
      transfers |-> (PathsOf(source) \ PathsOf(destination))
                      \union (IF update THEN differ ELSE {}),
      conflicts |-> IF update THEN {} ELSE differ,
      deletes   |-> IF c.mode # "Copy" /\ c.delete_extras
                      THEN PathsOf(destination) \ PathsOf(source) ELSE {},
      listed    |-> Cardinality(destination)]

NoRunPlan == [some |-> FALSE, transfers |-> {}, deletes |-> {},
              source |-> Nowhere, destination |-> Nowhere]

\* Every transfer has a strategy: there is none between two folders.
RunPlan ==
  {r \in [some: BOOLEAN, transfers: SUBSET Paths, deletes: SUBSET Paths,
          source: Places, destination: Places] :
     r.transfers = {} \/ ~ {r.source, r.destination} \subseteq Folders}

\* Mutant: a transfer between two folders gets a strategy.
PrepareAnyRunPlan(p, c) ==
  [some |-> TRUE, transfers |-> p.transfers, deletes |-> p.deletes,
   source |-> c.source, destination |-> c.destination]

\* prepare_sync_run_plan, with the endpoints of the moment; Diff has no run plan.
PrepareRunPlan(p, c) ==
  IF \/ c.mode = "Diff"
     \/ p.transfers # {} /\ {c.source, c.destination} \subseteq Folders
    THEN NoRunPlan
    ELSE [some |-> TRUE, transfers |-> p.transfers, deletes |-> p.deletes,
          source |-> c.source, destination |-> c.destination]

\* What a place holds, as the filters let it through.
Listing(place, filter) == Holds[place] \intersect filter

-----------------------------------------------------------------------------
(* Guards *)

\* validate_sync_config
ValidConfig(c) ==
  /\ Nowhere \notin {c.source, c.destination}
  /\ c.source # c.destination
  /\ c.planner_limit > 0
  /\ c.max_deletes > 0

\* Mutant: an off-by-one guardrail.
WithinGuardrailsByOne(r, c) == c.max_deletes > 0 /\ Cardinality(r.deletes) <= c.max_deletes + 1

\* validate_sync_guardrails
WithinGuardrails(r, c) == c.max_deletes > 0 /\ Cardinality(r.deletes) <= c.max_deletes

\* Mutant: half of the destination instead of a quarter.
TypedRequiredByHalf(deletes, s) ==
  \/ deletes > TypedAbove
  \/ s.destination > 0 /\ deletes * 2 > s.destination
  \/ s.source = 0 /\ deletes > 0

\* delete_confirm_reason
TypedRequired(deletes, s) ==
  \/ deletes > TypedAbove
  \/ s.destination > 0 /\ deletes * 4 > s.destination
  \/ s.source = 0 /\ deletes > 0

NoConfirm == [open |-> FALSE, planned_deletes |-> 0, typed_required |-> FALSE]
DeleteConfirm == [open: BOOLEAN, planned_deletes: Nat, typed_required: BOOLEAN]

NoExecution == [plan |-> NoRunPlan, running |-> FALSE, typed |-> FALSE]

\* The plan that is run, whether it still runs, and (history) whether the
\* user typed the number of deletes.
Execution == [plan: RunPlan, running: BOOLEAN, typed: BOOLEAN]

-----------------------------------------------------------------------------
(* Stages *)

Stages == {"source", "destination", "compare"}

\* A stage under way: what it lists, or the plan it computes.
Job == [nr: Nat, stage: Stages, place: Places, filter: SUBSET Objects, plan: Plan]

\* Mutant: an error leaves the flag.
StopPlanningForgets(rest) ==
  /\ running' = running
  /\ inflight' = rest

\* Every error path of a stage.
StopPlanning(rest) ==
  /\ running' = FALSE
  /\ inflight' = rest

\* Mutant: the second listing reports as the first one.
EnumerateAsSource(nr, stage, place, rest) ==
  /\ running' = running
  /\ inflight' = rest \union {[nr |-> nr, stage |-> "source", place |-> place,
                               filter |-> cfg.filter, plan |-> NoPlan]}

\* enumerate_task.
Enumerate(nr, stage, place, rest) ==
  /\ running' = running
  /\ inflight' = rest \union {[nr |-> nr, stage |-> stage, place |-> place,
                               filter |-> cfg.filter, plan |-> NoPlan]}

\* It fails at once when the connection has no client any more.
NoClient(place) == place \notin Folders

\* Mutant: an open confirmation survives.
ClearButConfirm ==
  /\ plan' = NoPlan
  /\ run_plan' = NoRunPlan
  /\ UNCHANGED delete_confirm
  /\ execution' = NoExecution
  /\ source_snapshot' = {}

\* Mutant: the plan survives.
ClearButPlan ==
  /\ UNCHANGED <<plan, run_plan>>
  /\ delete_confirm' = NoConfirm
  /\ execution' = NoExecution
  /\ source_snapshot' = {}

\* clear_sync_plan: the flag and the stages under way are left alone.
ClearSyncPlan ==
  /\ plan' = NoPlan
  /\ run_plan' = NoRunPlan
  /\ delete_confirm' = NoConfirm
  /\ execution' = NoExecution
  /\ source_snapshot' = {}

Init ==
  /\ cfg = DefaultConfig
  /\ running = FALSE
  /\ source_snapshot = {}
  /\ scanned = [source |-> 0, destination |-> 0]
  /\ plan = NoPlan
  /\ run_plan = NoRunPlan
  /\ delete_confirm = NoConfirm
  /\ execution = NoExecution
  /\ inflight = {}
  /\ starts = 0
  /\ changed = FALSE
  /\ overlapped = FALSE

\* The Reset button: a new SyncState under the stages of the old one.
OpenSync ==
  /\ cfg' = DefaultConfig
  /\ running' = FALSE
  /\ scanned' = [source |-> 0, destination |-> 0]
  /\ ClearSyncPlan
  /\ changed' = (changed \/ inflight # {})
  /\ UNCHANGED <<inflight, starts, overlapped>>

\* The handlers of the fields above; several changes in a row are one step.
ChangeConfig(c) ==
  /\ cfg' = c
  /\ ClearSyncPlan
  /\ changed' = (changed \/ inflight # {})
  /\ UNCHANGED <<running, scanned, inflight, starts, overlapped>>

StartSyncPlan ==
  /\ ~ running
  /\ starts < MaxStarts
  /\ starts' = starts + 1
  /\ ClearSyncPlan
  /\ scanned' = [source |-> 0, destination |-> 0]
  /\ changed' = (inflight # {})
  /\ overlapped' = (inflight # {})
  /\ UNCHANGED cfg
  /\ \/ /\ ValidConfig(cfg)
        /\ running' = TRUE
        /\ inflight' = inflight \union
             {[nr |-> starts', stage |-> "source", place |-> cfg.source,
               filter |-> cfg.filter, plan |-> NoPlan]}
     \/ /\ ~ ValidConfig(cfg) \/ NoClient(cfg.source)
        /\ StopPlanning(inflight)

\* A listing fails, whichever it is.
EnumerationFailed(j) ==
  /\ j.stage # "compare"
  /\ StopPlanning(inflight \ {j})
  /\ UNCHANGED <<cfg, source_snapshot, scanned, results, history>>

\* The destination is the one configured now.
SyncSourceEnumerated(j) ==
  /\ j.stage = "source"
  /\ source_snapshot' = Listing(j.place, j.filter)
  /\ scanned' = [scanned EXCEPT !.source = Cardinality(source_snapshot')]
  /\ \/ Enumerate(j.nr, "destination", cfg.destination, inflight \ {j})
     \/ NoClient(cfg.destination) /\ StopPlanning(inflight \ {j})
  /\ UNCHANGED <<cfg, results, history>>

\* The comparison takes the source snapshot and the settings there are now.
SyncDestinationEnumerated(j) ==
  /\ j.stage = "destination"
  /\ LET listing == Listing(j.place, j.filter)
         total   == Cardinality(source_snapshot) + Cardinality(listing)
     IN /\ scanned' = [scanned EXCEPT !.destination = Cardinality(listing)]
        /\ IF cfg.planner_limit = 0 \/ total > cfg.planner_limit
             THEN StopPlanning(inflight \ {j})
             ELSE /\ inflight' = (inflight \ {j}) \union
                       {[nr |-> j.nr, stage |-> "compare", place |-> j.place,
                         filter |-> j.filter,
                         plan |-> BuildPlan(source_snapshot, listing, cfg)]}
                  /\ UNCHANGED running
  /\ UNCHANGED <<cfg, source_snapshot, results, history>>

\* An open confirmation and a run under way are left as they are.
SyncPlanBuilt(j) ==
  /\ j.stage = "compare"
  /\ StopPlanning(inflight \ {j})
  /\ plan' = j.plan
  /\ run_plan' = PrepareRunPlan(j.plan, cfg)
  /\ UNCHANGED <<cfg, source_snapshot, scanned, delete_confirm, execution, history>>

-----------------------------------------------------------------------------
(* Runs *)

Run(typed) == execution' = [plan |-> run_plan, running |-> TRUE, typed |-> typed]

StartSyncCopy ==
  /\ ~ execution.running
  /\ cfg.mode = "Copy"
  /\ run_plan.transfers # {}
  /\ Run(FALSE)
  /\ UNCHANGED <<cfg, running, source_snapshot, scanned, plan, run_plan,
                 delete_confirm, inflight, history>>

\* Without deletes the run starts at once, otherwise the confirmation opens.
StartSync ==
  /\ ~ execution.running
  /\ cfg.mode = "Sync"
  /\ plan.some
  /\ plan.conflicts = {}
  /\ run_plan.transfers # {} \/ run_plan.deletes # {}
  /\ WithinGuardrails(run_plan, cfg)
  /\ IF run_plan.deletes = {}
       THEN /\ Run(FALSE)
            /\ delete_confirm' = NoConfirm
       ELSE /\ delete_confirm' =
                 [open |-> TRUE,
                  planned_deletes |-> Cardinality(run_plan.deletes),
                  typed_required |-> TypedRequired(Cardinality(run_plan.deletes), scanned)]
            /\ UNCHANGED execution
  /\ UNCHANGED <<cfg, running, source_snapshot, scanned, plan, run_plan, inflight, history>>

CancelSyncDeleteConfirm ==
  /\ delete_confirm.open
  /\ delete_confirm' = NoConfirm
  /\ UNCHANGED <<cfg, running, source_snapshot, scanned, plan, run_plan, execution,
                 inflight, history>>

\* typed: the text is "delete" and the number the confirmation shows.
ConfirmSyncDeleteRun(typed) ==
  /\ delete_confirm.open
  /\ delete_confirm.typed_required => typed
  /\ delete_confirm' = NoConfirm
  /\ IF run_plan.some THEN Run(typed) ELSE UNCHANGED execution
  /\ UNCHANGED <<cfg, running, source_snapshot, scanned, plan, run_plan, inflight, history>>

\* A run ends when it will; its course is SyncExecution's.
RunEnds ==
  /\ execution.running
  /\ execution' = [execution EXCEPT !.running = FALSE]
  /\ UNCHANGED <<cfg, running, source_snapshot, scanned, plan, run_plan, delete_confirm,
                 inflight, history>>

-----------------------------------------------------------------------------
Stage(j) ==
  \/ EnumerationFailed(j)
  \/ SyncSourceEnumerated(j)
  \/ SyncDestinationEnumerated(j)
  \/ SyncPlanBuilt(j)

User ==
  \/ OpenSync
  \/ \E c \in Configs : ChangeConfig(c)
  \/ StartSyncPlan
  \/ StartSyncCopy
  \/ StartSync
  \/ CancelSyncDeleteConfirm
  \/ \E typed \in BOOLEAN : ConfirmSyncDeleteRun(typed)

Next ==
  \/ User
  \/ \E j \in inflight : Stage(j)
  \/ RunEnds

Spec == Init /\ [][Next]_vars

\* Listings return and comparisons end.  Nothing is assumed of the user.
FairSpec == Spec /\ WF_vars(\E j \in inflight : Stage(j))

-----------------------------------------------------------------------------
(* Properties *)

\* TypeOK: every field has a value its Rust type allows, and each item of a run plan a strategy.
TypeOK ==
  /\ cfg \in Config
  /\ running \in BOOLEAN
  /\ source_snapshot \subseteq Objects
  /\ scanned \in [source: Nat, destination: Nat]
  /\ plan \in Plan
  /\ run_plan \in RunPlan
  /\ delete_confirm \in DeleteConfirm
  /\ execution \in Execution
  /\ inflight \subseteq Job
  /\ starts \in Nat
  /\ changed \in BOOLEAN
  /\ overlapped \in BOOLEAN

\* PlanningUnderWay: "Planning..." hides the button that builds a plan: while it is shown some
\* stage is under way, so an error or a change never hides the button for good.
PlanningUnderWay == running => inflight # {}

\* PlanningEnds: the same over time, planning ends, in a plan or in an error.
PlanningEnds == running ~> ~ running

\* ReviewedIsCurrent: what is reviewed and run is the plan of the current configuration, made
\* from both listings whole, unless the configuration changed, or was reset,
\* while a pipeline was under way.
ReviewedIsCurrent ==
  ~ changed =>
    LET current == BuildPlan(Listing(cfg.source, cfg.filter),
                             Listing(cfg.destination, cfg.filter), cfg)
    IN /\ plan.some => plan = current
       /\ run_plan.some => run_plan = PrepareRunPlan(current, cfg)
       /\ execution.plan.some => execution.plan = run_plan

\* ConfirmedIsPlanned: the confirmation shows the deletes the run will make, and they are within
\* the guardrails, which are checked when it opens and not again: unless two
\* pipelines overlapped, nothing replaces the plan under an open confirmation.
ConfirmedIsPlanned ==
  delete_confirm.open /\ ~ overlapped =>
    /\ delete_confirm.planned_deletes = Cardinality(run_plan.deletes)
    /\ run_plan.deletes # {}
    /\ plan.conflicts = {}

\* RunWithinGuardrails: a sync never deletes more than the limit the user set.
RunWithinGuardrails ==
  execution.plan.some /\ cfg.mode = "Sync" /\ ~ overlapped =>
    Cardinality(execution.plan.deletes) <= cfg.max_deletes

\* BigDeletesTyped: deleting more than a quarter of the destination takes a typed confirmation,
\* also when a change of the configuration took the source snapshot away and
\* everything there is looks like an extra.
BigDeletesTyped ==
  execution.plan.some /\ cfg.mode = "Sync" /\ ~ overlapped =>
    \/ execution.typed
    \/ /\ 4 * Cardinality(execution.plan.deletes) <= plan.listed
       /\ Cardinality(execution.plan.deletes) <= TypedAbove

\* DeletesOnlyExtras: what a run would delete is missing on its source, when no
\* filter hides anything.  A change of the configuration that drops the source
\* snapshot while the destination is being listed makes everything an extra.
DeletesOnlyExtras ==
  cfg.filter = Objects =>
    run_plan.deletes \intersect PathsOf(Holds[run_plan.source]) = {}
=============================================================================
