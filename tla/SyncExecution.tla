---------------------------- MODULE SyncExecution ----------------------------
(***************************************************************************)
(* The execution engine of Copy and Sync: src/src/app/handlers/sync.rs.    *)
(*                                                                         *)
(* One App object handles one message at a time.  Starting a run, and      *)
(* every completion of a transfer or of a delete batch, ends in            *)
(* dispatch_sync_execution, which moves the run through its phases and     *)
(* spawns asynchronous tasks up to the configured worker counts.  A task   *)
(* reports back with a message that carries no run identity, in any order. *)
(*                                                                         *)
(* Data abstraction: a run plan is its number of transfers and its number  *)
(* of delete batches; what they do is the subject of SyncPlanner.  Byte    *)
(* counts and telemetry are left out.  The planning pipeline is one        *)
(* asynchronous job; its stages are the subject of SyncPlanning.           *)
(***************************************************************************)
EXTENDS Integers, FiniteSets

CONSTANTS
  Plans,                \* the run plans a planning job can produce
  TransferWorkerTexts,  \* the transfer worker fields a user can type (0: not a positive integer)
  DeleteWorkerTexts,    \* the same for the delete worker field
  MaxRuns,              \* bound: runs a user starts
  MaxPipelines          \* bound: planning jobs in flight at once

RunPlan == [some: BOOLEAN, transfers: Nat, deletes: Nat, blocked: BOOLEAN]

ASSUME PlansAssumption == Plans \subseteq {p \in RunPlan : p.some}
ASSUME WorkersAssumption ==
  /\ TransferWorkerTexts \subseteq Nat
  /\ DeleteWorkerTexts \subseteq Nat
ASSUME BoundsAssumption == MaxRuns \in Nat /\ MaxPipelines \in Nat

VARIABLES
  cfg,             \* the SyncState fields a run reads
  planning,        \* SyncState.running: the view shows "Planning..."
  pipelines,       \* planning jobs whose SyncPlanBuilt has not arrived
  run_plan,        \* SyncState.run_plan
  delete_confirm,  \* SyncState.delete_confirm is open
  execution,       \* SyncState.execution
  inflight,        \* spawned tasks whose message has not been handled
  runs,            \* history: number of executions started so far
  finished,        \* history: the handled tasks of the current execution, and how they ended
  mixed            \* history: some run started while a task was in flight

vars == <<cfg, planning, pipelines, run_plan, delete_confirm, execution,
          inflight, runs, finished, mixed>>

-----------------------------------------------------------------------------
Modes        == {"Diff", "Copy", "Sync"}
DeletePhases == {"Before", "During", "After"}
Active       == {"DeletingBefore", "Copying", "DeletingDuring", "DeletingAfter"}
Terminal     == {"Done", "Stopped"}
Kinds        == {"transfer", "delete"}

Config == [mode: Modes, delete_phase: DeletePhases, ignore_errors: BOOLEAN,
           transfer_workers: TransferWorkerTexts \union {4},
           delete_workers: DeleteWorkerTexts \union {4}]

\* SyncState::new: Diff, the Converge preset's policy, "4" in both worker fields.
DefaultConfig ==
  [mode |-> "Diff", delete_phase |-> "After", ignore_errors |-> FALSE,
   transfer_workers |-> 4, delete_workers |-> 4]

\* None for a run plan, and for an execution (phase "None").
NoPlan == [some |-> FALSE, transfers |-> 0, deletes |-> 0, blocked |-> FALSE]

\* A fresh SyncExecutionState.
NewExecution(plan, phase) ==
  [phase |-> phase, plan |-> plan, running |-> phase # "None",
   next_transfer |-> 0, next_delete |-> 0,
   active_transfers |-> 0, active_deletes |-> 0,
   completed_transfers |-> 0, failed_transfers |-> 0,
   completed_deletes |-> 0, failed_deletes |-> 0,
   transfer_failed |-> FALSE, delete_phase_skipped |-> FALSE]

NoExecution == NewExecution(NoPlan, "None")

Execution ==
  [phase: Active \union Terminal \union {"None"}, plan: RunPlan, running: BOOLEAN,
   next_transfer: Nat, next_delete: Nat,
   active_transfers: Nat, active_deletes: Nat,
   completed_transfers: Nat, failed_transfers: Nat,
   completed_deletes: Nat, failed_deletes: Nat,
   transfer_failed: BOOLEAN, delete_phase_skipped: BOOLEAN]

Task == [run: Nat, kind: Kinds, item: Nat]

-----------------------------------------------------------------------------
(* dispatch_sync_execution *)

\* Mutant: an invalid worker field is taken as zero workers.
WorkersNoDefault(text) == text

\* parse_transfer_workers / parse_delete_workers, then unwrap_or(4).
Workers(text) == IF text = 0 THEN 4 ELSE text

\* Mutant: transfers in flight are not waited for.
TransfersDoneEarly(e) == e.next_transfer >= e.plan.transfers

\* Mutant: an off-by-one end of the delete list.
DeletesDoneLate(e) == e.active_deletes = 0 /\ e.next_delete > e.plan.deletes

TransfersDone(e) == e.active_transfers = 0 /\ e.next_transfer >= e.plan.transfers
DeletesDone(e)   == e.active_deletes = 0 /\ e.next_delete >= e.plan.deletes

\* The loop of phase changes.  A phase is left at most once, in this order.
LeaveBefore(e) ==
  IF e.phase = "DeletingBefore" /\ DeletesDone(e)
    THEN [e EXCEPT !.phase = "Copying"] ELSE e

SkipsDeletes(e) ==
  cfg.mode # "Copy" /\ e.plan.deletes # 0 /\ e.transfer_failed /\ ~cfg.ignore_errors

PhaseAfterCopying(e) ==
  IF cfg.mode = "Copy" \/ e.plan.deletes = 0 \/ SkipsDeletes(e) THEN "Done"
  ELSE CASE cfg.delete_phase = "After"  -> "DeletingAfter"
         [] cfg.delete_phase = "During" -> "DeletingDuring"
         [] OTHER                       -> "Done"

LeaveCopying(e) ==
  IF e.phase = "Copying" /\ TransfersDone(e)
    THEN [e EXCEPT !.phase = PhaseAfterCopying(e),
                   !.delete_phase_skipped = @ \/ SkipsDeletes(e)]
    ELSE e

LeaveDeleting(e) ==
  IF \/ e.phase = "DeletingDuring" /\ TransfersDone(e) /\ DeletesDone(e)
     \/ e.phase = "DeletingAfter" /\ DeletesDone(e)
    THEN [e EXCEPT !.phase = "Done"] ELSE e

Settle(e) == LeaveDeleting(LeaveCopying(LeaveBefore(e)))

\* Mutant: one worker too many.
SlotsOneMore(workers, active, next, total) ==
  IF active > workers \/ next >= total THEN 0
  ELSE IF workers + 1 - active <= total - next THEN workers + 1 - active ELSE total - next

\* How many tasks of each kind the settled execution spawns.
Slots(workers, active, next, total) ==
  IF active >= workers \/ next >= total THEN 0
  ELSE IF workers - active <= total - next THEN workers - active ELSE total - next

NewTransfers(e) ==
  IF e.phase \in {"Copying", "DeletingDuring"}
    THEN Slots(Workers(cfg.transfer_workers), e.active_transfers,
               e.next_transfer, e.plan.transfers)
    ELSE 0

NewDeletes(e) ==
  IF e.phase \in {"DeletingBefore", "DeletingDuring", "DeletingAfter"}
    THEN Slots(Workers(cfg.delete_workers), e.active_deletes,
               e.next_delete, e.plan.deletes)
    ELSE 0

TasksFrom(r, kind, first, count) ==
  {[run |-> r, kind |-> kind, item |-> i] : i \in first .. first + count - 1}

\* The tasks the settled execution e of run r spawns.
Spawned(r, e) ==
  TasksFrom(r, "transfer", e.next_transfer, NewTransfers(e))
    \union TasksFrom(r, "delete", e.next_delete, NewDeletes(e))

\* The counters move at dispatch time; a terminal phase, or a dispatch that
\* finds nothing to spawn, clears the running flag.
AfterSpawn(e) ==
  [e EXCEPT !.next_transfer = @ + NewTransfers(e),
            !.active_transfers = @ + NewTransfers(e),
            !.next_delete = @ + NewDeletes(e),
            !.active_deletes = @ + NewDeletes(e),
            !.running = @ /\ NewTransfers(e) + NewDeletes(e) > 0]

Dispatch(r, e, tasks) ==
  /\ execution' = IF e.phase = "None" THEN e ELSE AfterSpawn(Settle(e))
  /\ inflight' = IF e.phase = "None" THEN tasks ELSE tasks \union Spawned(r, Settle(e))

-----------------------------------------------------------------------------
(* Operations of the user *)

Init ==
  /\ cfg = DefaultConfig
  /\ planning = FALSE
  /\ pipelines = 0
  /\ run_plan = NoPlan
  /\ delete_confirm = FALSE
  /\ execution = NoExecution
  /\ inflight = {}
  /\ runs = 0
  /\ finished = {}
  /\ mixed = FALSE

history == <<runs, mixed>>

\* SyncState.execution becomes None; its tasks stay in flight.
DropExecution == execution' = NoExecution /\ finished' = {}

\* OpenSync, which the Reset button also sends at any time: a fresh SyncState.
\* Tasks and planning jobs already spawned go on.
OpenSync ==
  /\ cfg' = DefaultConfig
  /\ planning' = FALSE
  /\ run_plan' = NoPlan
  /\ delete_confirm' = FALSE
  /\ DropExecution
  /\ UNCHANGED <<pipelines, inflight, history>>

\* Every configuration field but the transfer workers ends in clear_sync_plan,
\* which drops the execution and leaves SyncState.running alone.
ChangeConfig ==
  /\ \E c \in [mode: Modes, delete_phase: DeletePhases, ignore_errors: BOOLEAN,
              transfer_workers: {cfg.transfer_workers}, delete_workers: DeleteWorkerTexts] :
        cfg' = c
  /\ run_plan' = NoPlan
  /\ delete_confirm' = FALSE
  /\ DropExecution
  /\ UNCHANGED <<planning, pipelines, inflight, history>>

ChangeTransferWorkers ==
  /\ \E w \in TransferWorkerTexts : cfg' = [cfg EXCEPT !.transfer_workers = w]
  /\ UNCHANGED <<planning, pipelines, run_plan, delete_confirm, execution,
                 inflight, finished, history>>

\* StartSyncPlan: the button is there while the view does not show "Planning...".
\* The old plan and execution are dropped before the configuration is validated.
StartSyncPlan ==
  /\ ~planning
  /\ run_plan' = NoPlan
  /\ delete_confirm' = FALSE
  /\ DropExecution
  /\ \/ /\ cfg.delete_workers # 0
        /\ pipelines < MaxPipelines
        /\ planning' = TRUE
        /\ pipelines' = pipelines + 1
     \/ UNCHANGED <<planning, pipelines>>
  /\ UNCHANGED <<cfg, inflight, history>>

\* A planning job ends: with a plan, or with an error that leaves the plan alone.
\* A plan whose run plan cannot be prepared, or Diff mode, gives run_plan None.
SyncPlanBuilt ==
  /\ pipelines > 0
  /\ pipelines' = pipelines - 1
  /\ planning' = FALSE
  /\ \/ \E p \in Plans : run_plan' = IF cfg.mode = "Diff" THEN NoPlan ELSE p
     \/ run_plan' = NoPlan
     \/ UNCHANGED run_plan
  /\ UNCHANGED <<cfg, delete_confirm, execution, inflight, finished, history>>

\* start_copy_execution / start_sync_execution, then dispatch_sync_execution.
\* A start without a run plan leaves the execution and dispatches it again.
StartRun(first) ==
  IF run_plan.some
    THEN /\ runs < MaxRuns
         /\ runs' = runs + 1
         /\ mixed' = (mixed \/ inflight # {})
         /\ finished' = {}
         /\ Dispatch(runs + 1, NewExecution(run_plan, first), inflight)
    ELSE /\ Dispatch(runs, execution, inflight)
         /\ UNCHANGED <<runs, mixed, finished>>

StartSyncCopy ==
  /\ cfg.mode = "Copy"
  /\ ~execution.running
  /\ run_plan.some
  /\ run_plan.transfers > 0
  /\ StartRun("Copying")
  /\ UNCHANGED <<cfg, planning, pipelines, run_plan, delete_confirm>>

FirstPhase ==
  IF run_plan.deletes = 0 THEN "Copying"
  ELSE CASE cfg.delete_phase = "Before" -> "DeletingBefore"
         [] cfg.delete_phase = "During" -> "DeletingDuring"
         [] OTHER                       -> "Copying"

\* StartSync refuses conflicts and exceeded guardrails ("blocked") and an empty
\* plan, asks for confirmation of a plan with deletes, and starts any other.
StartSync ==
  /\ cfg.mode = "Sync"
  /\ ~execution.running
  /\ run_plan.some
  /\ ~run_plan.blocked
  /\ run_plan.transfers + run_plan.deletes > 0
  /\ \/ /\ run_plan.deletes = 0
        /\ delete_confirm' = FALSE
        /\ StartRun(FirstPhase)
     \/ /\ run_plan.deletes > 0
        /\ delete_confirm' = TRUE
        /\ UNCHANGED <<execution, inflight, finished, history>>
  /\ UNCHANGED <<cfg, planning, pipelines, run_plan>>

CancelSyncDeleteConfirm ==
  /\ delete_confirm
  /\ delete_confirm' = FALSE
  /\ UNCHANGED <<cfg, planning, pipelines, run_plan, execution, inflight,
                 finished, history>>

\* The confirm button does not look at the run plan again, nor at the execution.
ConfirmSyncDeleteRun ==
  /\ delete_confirm
  /\ delete_confirm' = FALSE
  /\ StartRun(FirstPhase)
  /\ UNCHANGED <<cfg, planning, pipelines, run_plan>>

-----------------------------------------------------------------------------
(* Completions *)

\* Mutant: a plain subtraction.
AfterTransferUnsaturated(e, ok) ==
  [e EXCEPT !.active_transfers = @ - 1, !.completed_transfers = @ + 1]

\* Mutant: a failed transfer keeps its worker.
AfterTransferLeak(e, ok) ==
  [e EXCEPT !.active_transfers = IF ok /\ @ > 0 THEN @ - 1 ELSE @,
            !.transfer_failed = @ \/ ~ok]

\* handle_sync_copy_step_finished, before it dispatches.
AfterTransfer(e, ok) ==
  [e EXCEPT !.active_transfers = IF @ = 0 THEN 0 ELSE @ - 1,
            !.completed_transfers = IF ok THEN @ + 1 ELSE @,
            !.failed_transfers = IF ok THEN @ ELSE @ + 1,
            !.transfer_failed = @ \/ ~ok,
            !.phase = IF ~ok /\ ~cfg.ignore_errors /\ @ = "DeletingDuring"
                        THEN "Stopped" ELSE @]

\* handle_sync_delete_batch_finished, before it dispatches.
AfterDelete(e, ok) ==
  [e EXCEPT !.active_deletes = IF @ = 0 THEN 0 ELSE @ - 1,
            !.completed_deletes = IF ok THEN @ + 1 ELSE @,
            !.failed_deletes = IF ok THEN @ ELSE @ + 1,
            !.phase = IF ~ok /\ ~cfg.ignore_errors THEN "Stopped" ELSE @]

\* The message of a task is handled.  Nothing in it says which run it is of: it
\* counts for whatever execution is there, and for none if there is none.
TaskFinished(t, ok) ==
  /\ t \in inflight
  /\ UNCHANGED <<cfg, planning, pipelines, run_plan, delete_confirm, runs, mixed>>
  /\ finished' = IF t.run = runs /\ execution.phase # "None"
                   THEN finished \union {[task |-> t, ok |-> ok]} ELSE finished
  /\ LET e == IF execution.phase = "None" THEN execution
              ELSE IF t.kind = "transfer" THEN AfterTransfer(execution, ok)
              ELSE AfterDelete(execution, ok)
     IN Dispatch(runs, e, inflight \ {t})

User ==
  \/ OpenSync
  \/ ChangeConfig
  \/ ChangeTransferWorkers
  \/ StartSyncPlan
  \/ StartSyncCopy
  \/ StartSync
  \/ CancelSyncDeleteConfirm
  \/ ConfirmSyncDeleteRun

Completion == \E t \in inflight, ok \in BOOLEAN : TaskFinished(t, ok)

Next == User \/ SyncPlanBuilt \/ Completion

Spec == Init /\ [][Next]_vars

\* Every spawned task ends (an S3 call or a file operation returns, with success
\* or an error); nothing is assumed of the user or of the planner.
FairSpec == Spec /\ WF_vars(Completion)

-----------------------------------------------------------------------------
(* Properties *)

\* TypeOK: every variable keeps its shape, whatever the order of messages.
TypeOK ==
  /\ cfg \in Config
  /\ planning \in BOOLEAN
  /\ pipelines \in Nat
  /\ run_plan \in RunPlan
  /\ delete_confirm \in BOOLEAN
  /\ execution \in Execution
  /\ inflight \subseteq Task
  /\ IsFiniteSet(inflight)
  /\ runs \in Nat
  /\ finished \subseteq [task: Task, ok: BOOLEAN]
  /\ mixed \in BOOLEAN

InFlight(kind) == {t \in inflight : t.kind = kind}
Own(kind)      == {t \in inflight : t.kind = kind /\ t.run = runs}
Ended(kind)    == {f \in finished : f.task.kind = kind}
Failed(kind)   == {f \in Ended(kind) : ~f.ok}

\* NoStall: an execution that is not over has a task in flight, so that a message
\* will come and dispatch it again; there is no other source of progress.  Holds
\* also when completions of older runs disturb the counters.
NoStall == execution.phase \in Active => inflight # {}

\* CountersExact: unless runs were mixed, the counters the worker limits and the
\* phase changes rely on are the number of tasks of this run that are in flight.
CountersExact ==
  ~mixed /\ execution.phase # "None" =>
    /\ execution.active_transfers = Cardinality(Own("transfer"))
    /\ execution.active_deletes = Cardinality(Own("delete"))

\* EndedAll: all the first n items of a kind were handled in this run.
EndedAll(kind, n) == \A i \in 0 .. n - 1 : \E f \in Ended(kind) : f.task.item = i

\* DeleteAfterOrder: under delete-after no delete of a run starts before every
\* transfer of it has ended, nor after a failed one unless errors are ignored.
DeleteAfterOrder ==
  execution.phase # "None" /\ cfg.delete_phase = "After"
    /\ (Own("delete") # {} \/ Ended("delete") # {}) =>
      /\ EndedAll("transfer", execution.plan.transfers)
      /\ Failed("transfer") = {} \/ cfg.ignore_errors

Fresh == inflight' \ inflight

WithinWorkers ==
  ~mixed' =>
    /\ (\E t \in Fresh : t.kind = "transfer") =>
         Cardinality(InFlight("transfer")') <= Workers(cfg.transfer_workers)
    /\ (\E t \in Fresh : t.kind = "delete") =>
         Cardinality(InFlight("delete")') <= Workers(cfg.delete_workers)

\* WorkerLimit: unless runs were mixed, no step that spawns tasks of a kind leaves
\* more of them in flight than the worker count configured at that time.
WorkerLimit == [][WithinWorkers]_vars

-----------------------------------------------------------------------------
(* What a run promises *)

Present == execution.phase # "None"

\* Items of a kind that the run has not started; a copy has no deletes to start.
NotStarted(kind, next, total) ==
  {[run |-> runs, kind |-> kind, item |-> i] :
     i \in IF Present /\ (kind = "delete" => cfg.mode # "Copy") THEN next .. total - 1 ELSE {}}

Policy ==
  [mode |-> cfg.mode, delete_phase |-> cfg.delete_phase, ignore_errors |-> cfg.ignore_errors]

Status == CASE execution.phase \in Active -> "going"
            [] execution.phase = "Done"    -> "done"
            [] execution.phase = "Stopped" -> "stopped"
            [] OTHER                       -> "none"

Waiting == NotStarted("transfer", execution.next_transfer, execution.plan.transfers)
             \union NotStarted("delete", execution.next_delete, execution.plan.deletes)
Going   == {t \in inflight : t.run = runs /\ Present}
Older   == {t \in inflight : t.run # runs \/ ~Present}
Report  == [copied |-> execution.completed_transfers, failed |-> execution.failed_transfers]

Run == INSTANCE SyncRun WITH policy <- Policy, status <- Status, run <- runs,
         waiting <- Waiting, going <- Going, ended <- finished, older <- Older,
         report <- Report, met <- mixed

\* KeepsPromises: whatever the workers, the phases and the order of messages, a run starts
\* each task once and in the order of its policy, halts on the errors it must, is done
\* exactly when nothing is left to do, reports its transfers, and stays over; one that met
\* older tasks still starts each task once and waits for none that was not started.
KeepsPromises == Run!Spec

\* RunEnds: every run that was started is over some day, or dropped.
RunEnds == execution.phase \in Active ~> execution.phase \notin Active

=============================================================================
