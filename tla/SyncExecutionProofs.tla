------------------------- MODULE SyncExecutionProofs -------------------------
(***************************************************************************)
(* Theorems of SyncExecution, for every set of plans, every worker count   *)
(* and every number of runs; and, at the end, those of SyncPlanner on what *)
(* the tasks of a run leave behind, for all keys, contents, configurations *)
(* and stores, and on the patterns of its filters.                         *)
(***************************************************************************)
EXTENDS SyncExecution, SyncPlanner, FiniteSetTheorems, SequenceTheorems, WellFoundedInduction, TLAPS

-----------------------------------------------------------------------------
(* The operators dispatch_sync_execution is built from *)

\* TasksFromCount: the tasks spawned for count items in a row are count tasks.
LEMMA TasksFromCount ==
  ASSUME NEW r \in Nat, NEW kind \in Kinds, NEW first \in Nat, NEW count \in Nat
  PROVE  /\ TasksFrom(r, kind, first, count) \subseteq Task
         /\ IsFiniteSet(TasksFrom(r, kind, first, count))
         /\ Cardinality(TasksFrom(r, kind, first, count)) = count
<1> DEFINE S == first .. first + count - 1
           T == TasksFrom(r, kind, first, count)
           f == [i \in S |-> [run |-> r, kind |-> kind, item |-> i]]
<1>1. IsFiniteSet(S) /\ Cardinality(S) = count
  BY FS_Interval
<1>2. f \in Bijection(S, T)
  <2>1. f \in [S -> T]
    BY DEF TasksFrom
  <2>2. \A i, j \in S : f[i] = f[j] => i = j
    OBVIOUS
  <2>3. \A t \in T : \E i \in S : f[i] = t
    BY DEF TasksFrom
  <2> QED BY <2>1, <2>2, <2>3 DEF Bijection, Injection, Surjection, IsInjective
<1>3. IsFiniteSet(T) /\ Cardinality(T) = Cardinality(S)
  BY <1>1, <1>2, FS_Bijection DEF ExistsBijection
<1>4. T \subseteq Task
  BY DEF TasksFrom, Task
<1> QED BY <1>1, <1>3, <1>4

\* SlotsBound: a dispatch fills the free workers, or takes what is left.
LEMMA SlotsBound ==
  ASSUME NEW workers \in Nat \ {0}, NEW active \in Nat, NEW next \in Nat, NEW total \in Nat,
         next <= total
  PROVE  /\ Slots(workers, active, next, total) \in Nat
         /\ next + Slots(workers, active, next, total) <= total
         /\ next < total => active + Slots(workers, active, next, total) > 0
         /\ Slots(workers, active, next, total) > 0 =>
              active + Slots(workers, active, next, total) <= workers
BY DEF Slots

\* WorkersPositive: whatever the fields hold, the engine has workers.
LEMMA WorkersPositive ==
  ASSUME TypeOK
  PROVE  /\ Workers(cfg.transfer_workers) \in Nat \ {0}
         /\ Workers(cfg.delete_workers) \in Nat \ {0}
<1>1. /\ cfg.transfer_workers \in TransferWorkerTexts \union {4}
      /\ cfg.delete_workers \in DeleteWorkerTexts \union {4}
  BY DEF TypeOK, Config
<1>2. TransferWorkerTexts \union {4} \subseteq Nat /\ DeleteWorkerTexts \union {4} \subseteq Nat
  BY WorkersAssumption
<1>3. cfg.transfer_workers \in Nat /\ cfg.delete_workers \in Nat
  BY <1>1, <1>2
<1>4. ASSUME NEW w \in Nat PROVE Workers(w) \in Nat \ {0}
  BY DEF Workers
<1> QED BY <1>3, <1>4

\* The fields a change of phase leaves alone.
SameProgress(e, s) ==
  /\ s.plan = e.plan /\ s.running = e.running
  /\ s.next_transfer = e.next_transfer /\ s.next_delete = e.next_delete
  /\ s.active_transfers = e.active_transfers /\ s.active_deletes = e.active_deletes
  /\ s.completed_transfers = e.completed_transfers
  /\ s.failed_transfers = e.failed_transfers
  /\ s.completed_deletes = e.completed_deletes
  /\ s.failed_deletes = e.failed_deletes
  /\ s.transfer_failed = e.transfer_failed

\* The phase loop changes only the phase and the skipped flag.
LEMMA LeaveBeforeType ==
  ASSUME NEW e \in Execution
  PROVE  LeaveBefore(e) \in Execution /\ SameProgress(e, LeaveBefore(e))
BY DEF LeaveBefore, Execution, SameProgress, Active, Terminal

LEMMA LeaveCopyingType ==
  ASSUME NEW e \in Execution
  PROVE  LeaveCopying(e) \in Execution /\ SameProgress(e, LeaveCopying(e))
<1>1. PhaseAfterCopying(e) \in Active \union Terminal
  BY DEF PhaseAfterCopying, Active, Terminal
<1>2. SkipsDeletes(e) \in BOOLEAN
  BY DEF SkipsDeletes
<1> QED BY <1>1, <1>2 DEF LeaveCopying, Execution, SameProgress

LEMMA LeaveDeletingType ==
  ASSUME NEW e \in Execution
  PROVE  LeaveDeleting(e) \in Execution /\ SameProgress(e, LeaveDeleting(e))
BY DEF LeaveDeleting, Execution, SameProgress, Active, Terminal

LEMMA SettleType ==
  ASSUME NEW e \in Execution
  PROVE  Settle(e) \in Execution /\ SameProgress(e, Settle(e))
BY LeaveBeforeType, LeaveCopyingType, LeaveDeletingType DEF Settle, SameProgress
-----------------------------------------------------------------------------
(* The inductive invariant: what holds of the execution e of run r and of the *)
(* tasks in flight, before and after dispatch_sync_execution.                 *)

OfKind(tasks, kind) == {t \in tasks : t.kind = kind}

\* Progress: indices stay within the plan, every own task in flight is below
\* them, and a counter never claims more tasks than are in flight.
Progress(r, e, tasks) ==
  /\ e \in Execution
  /\ tasks \subseteq Task
  /\ IsFiniteSet(tasks)
  /\ \A t \in tasks : t.run <= r
  /\ e.phase # "None" =>
       /\ e.next_transfer <= e.plan.transfers
       /\ e.next_delete <= e.plan.deletes
       /\ \A t \in OfKind(tasks, "transfer") : t.run = r => t.item < e.next_transfer
       /\ \A t \in OfKind(tasks, "delete") : t.run = r => t.item < e.next_delete
       /\ e.active_transfers <= Cardinality(OfKind(tasks, "transfer"))
       /\ e.active_deletes <= Cardinality(OfKind(tasks, "delete"))

\* Exact: the counters are the tasks in flight, all of them tasks of this run.
Exact(r, e, tasks) ==
  e.phase # "None" =>
    /\ \A t \in tasks : t.run = r
    /\ e.active_transfers = Cardinality(OfKind(tasks, "transfer"))
    /\ e.active_deletes = Cardinality(OfKind(tasks, "delete"))

\* Busy: an execution that is not over counts some task as active.
Busy(e) == e.phase \in Active => e.active_transfers + e.active_deletes > 0

\* Before: the tasks of this kind that run r spawned are for items before first.
Before(tasks, kind, r, first) ==
  \A t \in OfKind(tasks, kind) : t.run = r => t.item < first

\* SpawnCount: tasks that are new in their run add up.
LEMMA SpawnCount ==
  ASSUME NEW tasks, IsFiniteSet(tasks), NEW kind \in Kinds, NEW r \in Nat,
         NEW first \in Nat, NEW count \in Nat, Before(tasks, kind, r, first)
  PROVE  /\ IsFiniteSet(OfKind(tasks, kind))
         /\ Cardinality(OfKind(tasks, kind) \union TasksFrom(r, kind, first, count))
              = Cardinality(OfKind(tasks, kind)) + count
<1> DEFINE A == OfKind(tasks, kind)
           B == TasksFrom(r, kind, first, count)
<1>1. IsFiniteSet(A)
  BY FS_Subset DEF OfKind
<1>2. IsFiniteSet(B) /\ Cardinality(B) = count
  BY TasksFromCount
<1>3. A \cap B = {}
  BY DEF TasksFrom, Before
<1>4. Cardinality(A \union B) = Cardinality(A) + Cardinality(B) - Cardinality(A \cap B)
  BY <1>1, <1>2, FS_Union
<1>5. Cardinality(A \cap B) = 0 /\ Cardinality(A) \in Nat
  BY <1>1, <1>3, FS_EmptySet, FS_CardinalityType
<1> QED BY <1>1, <1>2, <1>4, <1>5

\* SettleBusy: a settled execution in a phase that is not over has an active task
\* or something to dispatch in that phase.
LEMMA SettleBusy ==
  ASSUME NEW e \in Execution
  PROVE  /\ Settle(e).phase = "DeletingBefore" => ~DeletesDone(Settle(e))
         /\ Settle(e).phase = "Copying" => ~TransfersDone(Settle(e))
         /\ Settle(e).phase = "DeletingDuring" =>
              ~(TransfersDone(Settle(e)) /\ DeletesDone(Settle(e)))
         /\ Settle(e).phase = "DeletingAfter" => ~DeletesDone(Settle(e))
         /\ (Settle(e).phase = "None") <=> (e.phase = "None")
<1> DEFINE b == LeaveBefore(e)
           c == LeaveCopying(b)
           d == LeaveDeleting(c)
<1>1. b \in Execution /\ SameProgress(e, b)
  BY LeaveBeforeType
<1>2. c \in Execution /\ SameProgress(b, c)
  BY <1>1, LeaveCopyingType
<1>3. d \in Execution /\ SameProgress(c, d)
  BY <1>2, LeaveDeletingType
<1>4. /\ TransfersDone(c) <=> TransfersDone(b)
      /\ DeletesDone(c) <=> DeletesDone(b)
      /\ TransfersDone(d) <=> TransfersDone(c)
      /\ DeletesDone(d) <=> DeletesDone(c)
      /\ DeletesDone(b) <=> DeletesDone(e)
  BY <1>1, <1>2, <1>3 DEF SameProgress, TransfersDone, DeletesDone
<1>5. PhaseAfterCopying(b) \in {"Done", "DeletingAfter", "DeletingDuring"}
  BY DEF PhaseAfterCopying
<1>6. /\ b.phase = "DeletingBefore" => ~DeletesDone(b)
      /\ (b.phase = "None") <=> (e.phase = "None")
  BY <1>1, <1>4 DEF LeaveBefore, Execution
<1>7. /\ c.phase = "DeletingBefore" => ~DeletesDone(c)
      /\ c.phase = "Copying" => ~TransfersDone(c)
      /\ (c.phase = "None") <=> (e.phase = "None")
  BY <1>1, <1>2, <1>4, <1>5, <1>6 DEF LeaveCopying, Execution
<1>8. /\ d.phase = "DeletingBefore" => ~DeletesDone(d)
      /\ d.phase = "Copying" => ~TransfersDone(d)
      /\ d.phase = "DeletingDuring" => ~(TransfersDone(d) /\ DeletesDone(d))
      /\ d.phase = "DeletingAfter" => ~DeletesDone(d)
      /\ (d.phase = "None") <=> (e.phase = "None")
  BY <1>2, <1>3, <1>4, <1>7 DEF LeaveDeleting, Execution
<1> QED BY <1>8 DEF Settle

\* NewCounts: how many tasks a settled execution spawns.
LEMMA NewCounts ==
  ASSUME TypeOK, NEW s \in Execution,
         s.next_transfer <= s.plan.transfers, s.next_delete <= s.plan.deletes
  PROVE  /\ NewTransfers(s) \in Nat
         /\ NewDeletes(s) \in Nat
         /\ s.next_transfer + NewTransfers(s) <= s.plan.transfers
         /\ s.next_delete + NewDeletes(s) <= s.plan.deletes
         /\ s.phase \in {"Copying", "DeletingDuring"} /\ ~TransfersDone(s) =>
              s.active_transfers + NewTransfers(s) > 0
         /\ s.phase \in {"DeletingBefore", "DeletingDuring", "DeletingAfter"}
              /\ ~DeletesDone(s) => s.active_deletes + NewDeletes(s) > 0
         /\ NewDeletes(s) > 0 =>
              /\ s.phase \in {"DeletingBefore", "DeletingDuring", "DeletingAfter"}
              /\ s.active_deletes + NewDeletes(s) <= Workers(cfg.delete_workers)
         /\ NewTransfers(s) > 0 =>
              /\ s.phase \in {"Copying", "DeletingDuring"}
              /\ s.active_transfers + NewTransfers(s) <= Workers(cfg.transfer_workers)
<1> DEFINE tw == Workers(cfg.transfer_workers)
           dw == Workers(cfg.delete_workers)
<1>1. tw \in Nat \ {0} /\ dw \in Nat \ {0}
  BY WorkersPositive
<1>2. /\ s.next_transfer \in Nat /\ s.active_transfers \in Nat /\ s.plan.transfers \in Nat
      /\ s.next_delete \in Nat /\ s.active_deletes \in Nat /\ s.plan.deletes \in Nat
  BY DEF Execution, RunPlan
<1> HIDE DEF tw, dw
<1>3. /\ Slots(tw, s.active_transfers, s.next_transfer, s.plan.transfers) \in Nat
      /\ s.next_transfer + Slots(tw, s.active_transfers, s.next_transfer, s.plan.transfers)
           <= s.plan.transfers
      /\ s.next_transfer < s.plan.transfers =>
           s.active_transfers
             + Slots(tw, s.active_transfers, s.next_transfer, s.plan.transfers) > 0
      /\ Slots(tw, s.active_transfers, s.next_transfer, s.plan.transfers) > 0 =>
           s.active_transfers
             + Slots(tw, s.active_transfers, s.next_transfer, s.plan.transfers) <= tw
  BY <1>1, <1>2, SlotsBound
<1>4. /\ Slots(dw, s.active_deletes, s.next_delete, s.plan.deletes) \in Nat
      /\ s.next_delete + Slots(dw, s.active_deletes, s.next_delete, s.plan.deletes)
           <= s.plan.deletes
      /\ s.next_delete < s.plan.deletes =>
           s.active_deletes
             + Slots(dw, s.active_deletes, s.next_delete, s.plan.deletes) > 0
      /\ Slots(dw, s.active_deletes, s.next_delete, s.plan.deletes) > 0 =>
           s.active_deletes
             + Slots(dw, s.active_deletes, s.next_delete, s.plan.deletes) <= dw
  BY <1>1, <1>2, SlotsBound
<1>5. NewTransfers(s) = IF s.phase \in {"Copying", "DeletingDuring"}
        THEN Slots(tw, s.active_transfers, s.next_transfer, s.plan.transfers) ELSE 0
  BY DEF NewTransfers, tw
<1>6. NewDeletes(s) = IF s.phase \in {"DeletingBefore", "DeletingDuring", "DeletingAfter"}
        THEN Slots(dw, s.active_deletes, s.next_delete, s.plan.deletes) ELSE 0
  BY DEF NewDeletes, dw
<1>7. /\ NewTransfers(s) \in Nat
      /\ s.next_transfer + NewTransfers(s) <= s.plan.transfers
      /\ s.phase \in {"Copying", "DeletingDuring"} /\ ~TransfersDone(s) =>
           s.active_transfers + NewTransfers(s) > 0
      /\ NewTransfers(s) > 0 => s.phase \in {"Copying", "DeletingDuring"}
                                  /\ s.active_transfers + NewTransfers(s) <= tw
  BY <1>2, <1>3, <1>5 DEF TransfersDone
<1>8. /\ NewDeletes(s) \in Nat
      /\ s.next_delete + NewDeletes(s) <= s.plan.deletes
      /\ s.phase \in {"DeletingBefore", "DeletingDuring", "DeletingAfter"}
           /\ ~DeletesDone(s) => s.active_deletes + NewDeletes(s) > 0
      /\ NewDeletes(s) > 0 => s.phase \in {"DeletingBefore", "DeletingDuring", "DeletingAfter"}
                                /\ s.active_deletes + NewDeletes(s) <= dw
  BY <1>2, <1>4, <1>6 DEF DeletesDone
<1> QED BY <1>7, <1>8 DEF tw, dw

\* AfterSpawnFields: what one dispatch changes.
LEMMA AfterSpawnFields ==
  ASSUME NEW s \in Execution, NewTransfers(s) \in Nat, NewDeletes(s) \in Nat
  PROVE  /\ AfterSpawn(s) \in Execution
         /\ AfterSpawn(s).phase = s.phase
         /\ AfterSpawn(s).plan = s.plan
         /\ AfterSpawn(s).next_transfer = s.next_transfer + NewTransfers(s)
         /\ AfterSpawn(s).next_delete = s.next_delete + NewDeletes(s)
         /\ AfterSpawn(s).active_transfers = s.active_transfers + NewTransfers(s)
         /\ AfterSpawn(s).active_deletes = s.active_deletes + NewDeletes(s)
         /\ AfterSpawn(s).transfer_failed = s.transfer_failed
         /\ AfterSpawn(s).completed_transfers = s.completed_transfers
         /\ AfterSpawn(s).failed_transfers = s.failed_transfers
         /\ AfterSpawn(s).delete_phase_skipped = s.delete_phase_skipped
<1> DEFINE nt == NewTransfers(s)
           nd == NewDeletes(s)
           run == s.running /\ nt + nd > 0
           a == [s EXCEPT !.next_transfer = @ + nt, !.active_transfers = @ + nt,
                          !.next_delete = @ + nd, !.active_deletes = @ + nd,
                          !.running = run]
<1>1. AfterSpawn(s) = a
  BY DEF AfterSpawn
<1>2. run \in BOOLEAN
  OBVIOUS
<1>3. nt \in Nat /\ nd \in Nat
  OBVIOUS
<1> HIDE DEF nt, nd, run
<1>4. /\ s.next_transfer + nt \in Nat /\ s.active_transfers + nt \in Nat
      /\ s.next_delete + nd \in Nat /\ s.active_deletes + nd \in Nat
  BY <1>3 DEF Execution
<1>5. a \in Execution
  BY <1>2, <1>4 DEF Execution
<1>6. /\ a.phase = s.phase /\ a.plan = s.plan
      /\ a.next_transfer = s.next_transfer + nt
      /\ a.next_delete = s.next_delete + nd
      /\ a.active_transfers = s.active_transfers + nt
      /\ a.active_deletes = s.active_deletes + nd
      /\ a.transfer_failed = s.transfer_failed
      /\ a.completed_transfers = s.completed_transfers
      /\ a.failed_transfers = s.failed_transfers
      /\ a.delete_phase_skipped = s.delete_phase_skipped
  BY DEF Execution
<1> QED BY <1>1, <1>5, <1>6 DEF nt, nd

\* DispatchBusy: after a dispatch a run that is not over has an active task.
LEMMA DispatchBusy ==
  ASSUME TypeOK, NEW e \in Execution, e.phase # "None",
         e.next_transfer <= e.plan.transfers, e.next_delete <= e.plan.deletes
  PROVE  Busy(AfterSpawn(Settle(e)))
<1> DEFINE s == Settle(e)
<1>1. s \in Execution /\ SameProgress(e, s)
  BY SettleType
<1>2. s.next_transfer <= s.plan.transfers /\ s.next_delete <= s.plan.deletes
  BY <1>1 DEF SameProgress
<1>3. /\ s.phase = "DeletingBefore" => ~DeletesDone(s)
      /\ s.phase = "Copying" => ~TransfersDone(s)
      /\ s.phase = "DeletingDuring" => ~(TransfersDone(s) /\ DeletesDone(s))
      /\ s.phase = "DeletingAfter" => ~DeletesDone(s)
  BY SettleBusy
<1> HIDE DEF s
<1>4. /\ s.active_transfers \in Nat /\ s.active_deletes \in Nat
      /\ NewTransfers(s) \in Nat /\ NewDeletes(s) \in Nat
  BY <1>1, <1>2, NewCounts DEF Execution
<1>5. s.phase \in Active =>
        s.active_transfers + NewTransfers(s) + s.active_deletes + NewDeletes(s) > 0
  BY <1>1, <1>2, <1>3, <1>4, NewCounts DEF Active
<1>6. Busy(AfterSpawn(s))
  BY <1>1, <1>4, <1>5, AfterSpawnFields DEF Busy
<1> QED BY <1>6 DEF s

\* Limited: when a step adds tasks of a kind to these, it leaves no more of them counted
\* as active than there are workers.
Limited(tasks) ==
  /\ (\E t \in inflight' \ tasks : t.kind = "transfer") =>
       /\ execution'.phase # "None"
       /\ execution'.active_transfers <= Workers(cfg.transfer_workers)
  /\ (\E t \in inflight' \ tasks : t.kind = "delete") =>
       /\ execution'.phase # "None"
       /\ execution'.active_deletes <= Workers(cfg.delete_workers)

\* DispatchProgress: a dispatch keeps the invariant, makes the execution busy and keeps to
\* the workers.
LEMMA DispatchProgress ==
  ASSUME TypeOK, NEW r \in Nat, NEW e, NEW tasks,
         Progress(r, e, tasks), Dispatch(r, e, tasks)
  PROVE  /\ Progress(r, execution', inflight')
         /\ Busy(execution')
         /\ Exact(r, e, tasks) => Exact(r, execution', inflight')
         /\ Limited(tasks)
<1>1. CASE e.phase = "None"
  <2>1. execution' = e /\ inflight' = tasks
    BY <1>1 DEF Dispatch
  <2>2. Busy(e)
    BY <1>1 DEF Busy, Active
  <2> QED BY <2>1, <2>2 DEF Limited
<1>2. CASE e.phase # "None"
  <2> DEFINE s == Settle(e)
             a == AfterSpawn(s)
             nt == NewTransfers(s)
             nd == NewDeletes(s)
             TT == TasksFrom(r, "transfer", s.next_transfer, nt)
             DD == TasksFrom(r, "delete", s.next_delete, nd)
  <2>1. /\ e \in Execution /\ tasks \subseteq Task /\ IsFiniteSet(tasks)
        /\ \A t \in tasks : t.run <= r
        /\ e.next_transfer <= e.plan.transfers
        /\ e.next_delete <= e.plan.deletes
        /\ \A t \in OfKind(tasks, "transfer") : t.run = r => t.item < e.next_transfer
        /\ \A t \in OfKind(tasks, "delete") : t.run = r => t.item < e.next_delete
        /\ e.active_transfers <= Cardinality(OfKind(tasks, "transfer"))
        /\ e.active_deletes <= Cardinality(OfKind(tasks, "delete"))
    BY <1>2 DEF Progress
  <2>2. s \in Execution /\ SameProgress(e, s)
    BY <2>1, SettleType
  <2>3. s.next_transfer <= s.plan.transfers /\ s.next_delete <= s.plan.deletes
    BY <2>1, <2>2 DEF SameProgress
  <2>4. Busy(a)
    BY <1>2, <2>1, DispatchBusy
  <2>5. s.phase # "None"
    BY <1>2, <2>1, SettleBusy
  <2>6. execution' = a /\ inflight' = tasks \union (TT \union DD)
    BY <1>2 DEF Dispatch, Spawned
  <2> HIDE DEF s
  <2>7. /\ nt \in Nat /\ nd \in Nat
        /\ s.next_transfer + nt <= s.plan.transfers
        /\ s.next_delete + nd <= s.plan.deletes
    BY <2>2, <2>3, NewCounts
  <2>7a. /\ nt > 0 => s.active_transfers + nt <= Workers(cfg.transfer_workers)
         /\ nd > 0 => s.active_deletes + nd <= Workers(cfg.delete_workers)
    BY <2>2, <2>3, NewCounts
  <2>8. /\ a \in Execution /\ a.phase = s.phase /\ a.plan = s.plan
        /\ a.next_transfer = e.next_transfer + nt
        /\ a.next_delete = e.next_delete + nd
        /\ a.active_transfers = e.active_transfers + nt
        /\ a.active_deletes = e.active_deletes + nd
    BY <2>2, <2>7, AfterSpawnFields DEF SameProgress
  <2>9. /\ s.next_transfer = e.next_transfer /\ s.next_delete = e.next_delete
        /\ s.next_transfer \in Nat /\ s.next_delete \in Nat
    BY <2>2 DEF SameProgress, Execution
  <2> HIDE DEF a, nt, nd
  <2>10. /\ TT \subseteq Task /\ IsFiniteSet(TT)
         /\ DD \subseteq Task /\ IsFiniteSet(DD)
    BY <2>7, <2>9, TasksFromCount DEF Kinds
  <2>11. inflight' \subseteq Task /\ IsFiniteSet(inflight')
    BY <2>1, <2>6, <2>10, FS_Union
  <2>12. /\ \A t \in TT : /\ t.run = r /\ t.kind = "transfer"
                          /\ t.item \in Nat /\ t.item < e.next_transfer + nt
         /\ \A t \in DD : /\ t.run = r /\ t.kind = "delete"
                          /\ t.item \in Nat /\ t.item < e.next_delete + nd
    BY <2>7, <2>9 DEF TasksFrom
  <2>13. \A t \in inflight' : t.run <= r
    BY <2>1, <2>6, <2>12
  <2>14. /\ OfKind(inflight', "transfer") = OfKind(tasks, "transfer") \union TT
         /\ OfKind(inflight', "delete") = OfKind(tasks, "delete") \union DD
    BY <2>6, <2>12 DEF OfKind
  <2>15. /\ IsFiniteSet(OfKind(tasks, "transfer"))
         /\ Cardinality(OfKind(inflight', "transfer"))
              = Cardinality(OfKind(tasks, "transfer")) + nt
    <3>1. Before(tasks, "transfer", r, s.next_transfer)
      BY <2>1, <2>9 DEF Before
    <3>2. "transfer" \in Kinds /\ IsFiniteSet(tasks) /\ s.next_transfer \in Nat /\ nt \in Nat
      BY <2>1, <2>7, <2>9 DEF Kinds
    <3>3. /\ IsFiniteSet(OfKind(tasks, "transfer"))
          /\ Cardinality(OfKind(tasks, "transfer") \union TT)
               = Cardinality(OfKind(tasks, "transfer")) + nt
      BY <3>1, <3>2, SpawnCount
    <3> QED BY <2>14, <3>3, Zenon
  <2>16. /\ IsFiniteSet(OfKind(tasks, "delete"))
         /\ Cardinality(OfKind(inflight', "delete"))
              = Cardinality(OfKind(tasks, "delete")) + nd
    <3>1. Before(tasks, "delete", r, s.next_delete)
      BY <2>1, <2>9 DEF Before
    <3>2. "delete" \in Kinds /\ IsFiniteSet(tasks) /\ s.next_delete \in Nat /\ nd \in Nat
      BY <2>1, <2>7, <2>9 DEF Kinds
    <3>3. /\ IsFiniteSet(OfKind(tasks, "delete"))
          /\ Cardinality(OfKind(tasks, "delete") \union DD)
               = Cardinality(OfKind(tasks, "delete")) + nd
      BY <3>1, <3>2, SpawnCount
    <3> QED BY <2>14, <3>3, Zenon
  <2>17. /\ Cardinality(OfKind(tasks, "transfer")) \in Nat
         /\ Cardinality(OfKind(tasks, "delete")) \in Nat
         /\ e.active_transfers \in Nat /\ e.active_deletes \in Nat
    BY <2>1, <2>15, <2>16, FS_CardinalityType DEF Execution
  <2>18. /\ a.active_transfers <= Cardinality(OfKind(inflight', "transfer"))
         /\ a.active_deletes <= Cardinality(OfKind(inflight', "delete"))
    BY <2>1, <2>7, <2>8, <2>15, <2>16, <2>17
  <2>19. /\ \A t \in OfKind(inflight', "transfer") : t.run = r => t.item < a.next_transfer
         /\ \A t \in OfKind(inflight', "delete") : t.run = r => t.item < a.next_delete
    <3>1. \A t \in OfKind(tasks, "transfer") \union OfKind(tasks, "delete") : t.item \in Nat
      BY <2>1 DEF OfKind, Task
    <3> QED BY <2>1, <2>7, <2>8, <2>9, <2>12, <2>14, <3>1
  <2>20. Progress(r, a, inflight')
    BY <2>3, <2>7, <2>8, <2>9, <2>11, <2>13, <2>18, <2>19 DEF Progress
  <2>21. Exact(r, e, tasks) => Exact(r, a, inflight')
    BY <1>2, <2>6, <2>8, <2>12, <2>14, <2>15, <2>16 DEF Exact
  <2>22. Limited(tasks)
    <3>1. TT # {} => nt > 0
      BY <2>7, <2>9 DEF TasksFrom
    <3>2. DD # {} => nd > 0
      BY <2>7, <2>9 DEF TasksFrom
    <3>3. /\ \A t \in inflight' \ tasks : t.kind = "transfer" => t \in TT
          /\ \A t \in inflight' \ tasks : t.kind = "delete" => t \in DD
      BY <2>6, <2>12
    <3>4. /\ nt > 0 => a.active_transfers <= Workers(cfg.transfer_workers)
          /\ nd > 0 => a.active_deletes <= Workers(cfg.delete_workers)
      BY <2>2, <2>7, <2>8, <2>7a DEF SameProgress
    <3> HIDE DEF TT, DD
    <3> QED BY <2>5, <2>6, <2>8, <3>1, <3>2, <3>3, <3>4 DEF Limited
  <2> QED BY <2>4, <2>6, <2>20, <2>21, <2>22
<1> QED BY <1>1, <1>2

\* AfterTransferFields: what the completion of a transfer changes.
LEMMA AfterTransferFields ==
  ASSUME NEW e \in Execution, e.phase # "None", NEW ok \in BOOLEAN,
         cfg.ignore_errors \in BOOLEAN
  PROVE  LET x == AfterTransfer(e, ok)
         IN  /\ x \in Execution /\ x.plan = e.plan /\ x.phase # "None"
             /\ x.next_transfer = e.next_transfer /\ x.next_delete = e.next_delete
             /\ x.active_transfers = IF e.active_transfers = 0 THEN 0 ELSE e.active_transfers - 1
             /\ x.active_deletes = e.active_deletes
             /\ x.transfer_failed = (e.transfer_failed \/ ~ok)
             /\ x.completed_transfers = e.completed_transfers + (IF ok THEN 1 ELSE 0)
             /\ x.failed_transfers = e.failed_transfers + (IF ok THEN 0 ELSE 1)
             /\ x.phase = IF ~ok /\ ~cfg.ignore_errors /\ e.phase = "DeletingDuring"
                            THEN "Stopped" ELSE e.phase
<1> DEFINE active == IF e.active_transfers = 0 THEN 0 ELSE e.active_transfers - 1
           completed == IF ok THEN e.completed_transfers + 1 ELSE e.completed_transfers
           failures == IF ok THEN e.failed_transfers ELSE e.failed_transfers + 1
           some == e.transfer_failed \/ ~ok
           phase == IF ~ok /\ ~cfg.ignore_errors /\ e.phase = "DeletingDuring"
                      THEN "Stopped" ELSE e.phase
           x == [e EXCEPT !.active_transfers = active, !.completed_transfers = completed,
                          !.failed_transfers = failures, !.transfer_failed = some, !.phase = phase]
<1>1. AfterTransfer(e, ok) = x
  BY DEF AfterTransfer
<1>2. active \in Nat /\ completed \in Nat /\ failures \in Nat
  BY DEF Execution
<1>3. /\ some \in BOOLEAN /\ phase # "None"
      /\ phase \in Active \union Terminal \union {"None"}
  BY DEF Execution, Active, Terminal
<1> HIDE DEF active, completed, failures, phase, some
<1>4. x \in Execution
  BY <1>2, <1>3 DEF Execution
<1>5. /\ x.plan = e.plan /\ x.phase = phase
      /\ x.next_transfer = e.next_transfer /\ x.next_delete = e.next_delete
      /\ x.active_transfers = active /\ x.active_deletes = e.active_deletes
      /\ x.transfer_failed = some
      /\ x.completed_transfers = completed /\ x.failed_transfers = failures
  BY DEF Execution
<1>6. /\ completed = e.completed_transfers + (IF ok THEN 1 ELSE 0)
      /\ failures = e.failed_transfers + (IF ok THEN 0 ELSE 1)
  BY DEF completed, failures, Execution
<1> QED BY <1>1, <1>3, <1>4, <1>5, <1>6 DEF active, phase, some

\* AfterDeleteFields: what the completion of a delete batch changes.
LEMMA AfterDeleteFields ==
  ASSUME NEW e \in Execution, e.phase # "None", NEW ok \in BOOLEAN,
         cfg.ignore_errors \in BOOLEAN
  PROVE  LET x == AfterDelete(e, ok)
         IN  /\ x \in Execution /\ x.plan = e.plan /\ x.phase # "None"
             /\ x.next_transfer = e.next_transfer /\ x.next_delete = e.next_delete
             /\ x.active_deletes = IF e.active_deletes = 0 THEN 0 ELSE e.active_deletes - 1
             /\ x.active_transfers = e.active_transfers
             /\ x.transfer_failed = e.transfer_failed
             /\ x.completed_transfers = e.completed_transfers
             /\ x.failed_transfers = e.failed_transfers
             /\ x.phase = IF ~ok /\ ~cfg.ignore_errors THEN "Stopped" ELSE e.phase
<1> DEFINE active == IF e.active_deletes = 0 THEN 0 ELSE e.active_deletes - 1
           completed == IF ok THEN e.completed_deletes + 1 ELSE e.completed_deletes
           failures == IF ok THEN e.failed_deletes ELSE e.failed_deletes + 1
           phase == IF ~ok /\ ~cfg.ignore_errors THEN "Stopped" ELSE e.phase
           x == [e EXCEPT !.active_deletes = active, !.completed_deletes = completed,
                          !.failed_deletes = failures, !.phase = phase]
<1>1. AfterDelete(e, ok) = x
  BY DEF AfterDelete
<1>2. active \in Nat /\ completed \in Nat /\ failures \in Nat
  BY DEF Execution
<1>3. phase # "None" /\ phase \in Active \union Terminal \union {"None"}
  BY DEF Execution, Active, Terminal
<1> HIDE DEF active, completed, failures, phase
<1>4. x \in Execution
  BY <1>2, <1>3 DEF Execution
<1>5. /\ x.plan = e.plan /\ x.phase = phase
      /\ x.next_transfer = e.next_transfer /\ x.next_delete = e.next_delete
      /\ x.active_deletes = active /\ x.active_transfers = e.active_transfers
      /\ x.transfer_failed = e.transfer_failed
      /\ x.completed_transfers = e.completed_transfers
      /\ x.failed_transfers = e.failed_transfers
  BY DEF Execution
<1> QED BY <1>1, <1>3, <1>4, <1>5 DEF active, phase

\* ReportProgress: counting a completion, before the dispatch, keeps the invariant
\* for the tasks that are left.
LEMMA ReportProgress ==
  ASSUME NEW r \in Nat, NEW e, NEW tasks, NEW t \in tasks, NEW ok \in BOOLEAN,
         Progress(r, e, tasks), e.phase # "None", cfg.ignore_errors \in BOOLEAN
  PROVE  LET x == IF t.kind = "transfer" THEN AfterTransfer(e, ok) ELSE AfterDelete(e, ok)
         IN  /\ Progress(r, x, tasks \ {t})
             /\ Exact(r, e, tasks) => Exact(r, x, tasks \ {t})
<1> DEFINE x == IF t.kind = "transfer" THEN AfterTransfer(e, ok) ELSE AfterDelete(e, ok)
           rest == tasks \ {t}
           A(kind) == OfKind(tasks, kind)
           B(kind) == OfKind(rest, kind)
<1>1. e \in Execution /\ tasks \subseteq Task /\ IsFiniteSet(tasks)
  BY DEF Progress
<1>2. t.kind \in Kinds
  BY <1>1 DEF Task
<1>3. rest \subseteq Task /\ IsFiniteSet(rest)
  BY <1>1, FS_RemoveElement
<1>4. ASSUME NEW kind \in Kinds
      PROVE  /\ Cardinality(A(kind)) \in Nat /\ Cardinality(B(kind)) \in Nat
             /\ B(kind) \subseteq A(kind)
             /\ kind = t.kind => Cardinality(B(kind)) = Cardinality(A(kind)) - 1
             /\ kind # t.kind => B(kind) = A(kind)
  <2>1. IsFiniteSet(A(kind)) /\ IsFiniteSet(B(kind))
    BY <1>1, <1>3, FS_Subset DEF OfKind
  <2>2. kind = t.kind => t \in A(kind) /\ B(kind) = A(kind) \ {t}
    BY DEF OfKind
  <2>3. kind # t.kind => B(kind) = A(kind)
    BY DEF OfKind
  <2>4. B(kind) \subseteq A(kind)
    BY DEF OfKind
  <2> QED BY <2>1, <2>2, <2>3, <2>4, FS_CardinalityType, FS_RemoveElement
<1> HIDE DEF A, B
<1>5. /\ x \in Execution /\ x.plan = e.plan /\ x.phase # "None"
      /\ x.next_transfer = e.next_transfer /\ x.next_delete = e.next_delete
      /\ t.kind = "transfer" =>
           /\ x.active_transfers = IF e.active_transfers = 0 THEN 0 ELSE e.active_transfers - 1
           /\ x.active_deletes = e.active_deletes
      /\ t.kind = "delete" =>
           /\ x.active_deletes = IF e.active_deletes = 0 THEN 0 ELSE e.active_deletes - 1
           /\ x.active_transfers = e.active_transfers
  <2>1. CASE t.kind = "transfer"
    BY <1>1, <2>1, AfterTransferFields
  <2>2. CASE t.kind = "delete"
    BY <1>1, <2>2, AfterDeleteFields
  <2> QED BY <1>2, <2>1, <2>2 DEF Kinds
<1> HIDE DEF x
<1>6. e.active_transfers \in Nat /\ e.active_deletes \in Nat
  BY <1>1 DEF Execution
<1>7. "transfer" \in Kinds /\ "delete" \in Kinds
  BY DEF Kinds
<1>8. /\ e.active_transfers <= Cardinality(A("transfer"))
      /\ e.active_deletes <= Cardinality(A("delete"))
      /\ \A u \in A("transfer") : u.run = r => u.item < e.next_transfer
      /\ \A u \in A("delete") : u.run = r => u.item < e.next_delete
      /\ \A u \in rest : u.run <= r
      /\ e.next_transfer <= e.plan.transfers /\ e.next_delete <= e.plan.deletes
  BY DEF Progress, A
<1>9. /\ x.active_transfers <= Cardinality(B("transfer"))
      /\ x.active_deletes <= Cardinality(B("delete"))
  BY <1>2, <1>4, <1>5, <1>6, <1>7, <1>8 DEF Kinds
<1>10. /\ \A u \in B("transfer") : u.run = r => u.item < x.next_transfer
       /\ \A u \in B("delete") : u.run = r => u.item < x.next_delete
  BY <1>4, <1>5, <1>7, <1>8
<1>11. Progress(r, x, rest)
  BY <1>3, <1>5, <1>8, <1>9, <1>10 DEF Progress, B
<1>12. Exact(r, e, tasks) => Exact(r, x, rest)
  <2> SUFFICES ASSUME Exact(r, e, tasks) PROVE Exact(r, x, rest)
    OBVIOUS
  <2>1. /\ \A u \in tasks : u.run = r
        /\ e.active_transfers = Cardinality(A("transfer"))
        /\ e.active_deletes = Cardinality(A("delete"))
    BY DEF Exact, A
  <2>2. /\ x.active_transfers = Cardinality(B("transfer"))
        /\ x.active_deletes = Cardinality(B("delete"))
    BY <1>2, <1>4, <1>5, <1>6, <1>7, <2>1 DEF Kinds
  <2> QED BY <2>1, <2>2 DEF Exact, B
<1> QED BY <1>11, <1>12 DEF x

-----------------------------------------------------------------------------
(* The invariant of the specification *)

EngineInv ==
  /\ Progress(runs, execution, inflight)
  /\ Busy(execution)
  /\ ~mixed => Exact(runs, execution, inflight)

IInv == TypeOK /\ EngineInv

\* The type of what EngineInv does not type.
Frame ==
  /\ cfg \in Config
  /\ planning \in BOOLEAN
  /\ pipelines \in Nat
  /\ run_plan \in RunPlan
  /\ delete_confirm \in BOOLEAN

History ==
  /\ runs \in Nat
  /\ finished \subseteq [task: Task, ok: BOOLEAN]
  /\ mixed \in BOOLEAN

LEMMA IInvParts ==
  /\ Frame /\ History /\ EngineInv => IInv
  /\ Frame' /\ History' /\ EngineInv' => IInv'
BY DEF Frame, History, EngineInv, IInv, TypeOK, Progress

\* NewExecutionFields: a new execution is in its first phase with nothing done.
LEMMA NewExecutionFields ==
  ASSUME NEW chosen \in RunPlan, NEW phase \in Active \union {"None"}
  PROVE  /\ NewExecution(chosen, phase) \in Execution
         /\ NewExecution(chosen, phase).phase = phase
         /\ NewExecution(chosen, phase).plan = chosen
         /\ NewExecution(chosen, phase).next_transfer = 0
         /\ NewExecution(chosen, phase).next_delete = 0
         /\ NewExecution(chosen, phase).active_transfers = 0
         /\ NewExecution(chosen, phase).active_deletes = 0
         /\ NewExecution(chosen, phase).completed_transfers = 0
         /\ NewExecution(chosen, phase).failed_transfers = 0
         /\ NewExecution(chosen, phase).transfer_failed = FALSE
<1>1. (phase # "None") \in BOOLEAN
  OBVIOUS
<1> QED BY <1>1 DEF NewExecution, Execution, Active

LEMMA NoExecutionType == NoExecution \in Execution /\ NoExecution.phase = "None"
<1>1. NoPlan \in RunPlan
  BY DEF NoPlan, RunPlan
<1>2. "None" \in Active \union {"None"}
  OBVIOUS
<1> QED BY <1>1, <1>2, NewExecutionFields DEF NoExecution

\* DropInv: dropping the execution keeps the invariant; its tasks belong to no run.
LEMMA DropInv ==
  ASSUME IInv, DropExecution, UNCHANGED <<inflight, runs, mixed>>
  PROVE  EngineInv' /\ History'
<1>1. execution'.phase = "None" /\ execution' \in Execution
  BY NoExecutionType DEF DropExecution
<1>2. /\ inflight' \subseteq Task /\ IsFiniteSet(inflight')
      /\ \A t \in inflight' : t.run <= runs'
  BY DEF IInv, EngineInv, Progress
<1>3. Progress(runs', execution', inflight')
  BY <1>1, <1>2 DEF Progress
<1>4. Busy(execution') /\ Exact(runs', execution', inflight')
  BY <1>1 DEF Busy, Exact, Active
<1>5. History'
  BY DEF IInv, TypeOK, DropExecution, History
<1> QED BY <1>3, <1>4, <1>5 DEF EngineInv

\* RedispatchInv: dispatching the execution as it is keeps the invariant.
LEMMA RedispatchInv ==
  ASSUME IInv, Dispatch(runs, execution, inflight), UNCHANGED <<runs, mixed, finished>>
  PROVE  EngineInv' /\ History' /\ Limited(inflight)
<1>1. /\ Progress(runs, execution', inflight') /\ Busy(execution')
      /\ Exact(runs, execution, inflight) => Exact(runs, execution', inflight')
      /\ Limited(inflight)
  BY DispatchProgress DEF IInv, EngineInv, TypeOK
<1> QED BY <1>1 DEF IInv, EngineInv, TypeOK, History

\* NewRunProgress: a new run has started nothing, and every task in flight is older.
LEMMA NewRunProgress ==
  ASSUME IInv, NEW first \in {"Copying", "DeletingBefore", "DeletingDuring"}
  PROVE  Progress(runs + 1, NewExecution(run_plan, first), inflight)
<1> DEFINE r == runs + 1
           e == NewExecution(run_plan, first)
<1>1. run_plan \in RunPlan /\ runs \in Nat /\ first \in Active \union {"None"}
  BY DEF IInv, TypeOK, Active
<1>2. /\ e \in Execution /\ e.phase = first /\ e.plan = run_plan
      /\ e.next_transfer = 0 /\ e.next_delete = 0
      /\ e.active_transfers = 0 /\ e.active_deletes = 0
  BY <1>1, NewExecutionFields
<1>3. /\ inflight \subseteq Task /\ IsFiniteSet(inflight)
      /\ \A t \in inflight : t.run <= runs /\ t.run \in Nat
  BY DEF IInv, EngineInv, Progress, Task
<1>4. /\ IsFiniteSet(OfKind(inflight, "transfer"))
      /\ IsFiniteSet(OfKind(inflight, "delete"))
  BY <1>3, FS_Subset DEF OfKind
<1>5. /\ Cardinality(OfKind(inflight, "transfer")) \in Nat
      /\ Cardinality(OfKind(inflight, "delete")) \in Nat
  BY <1>4, FS_CardinalityType
<1> HIDE DEF e
<1>6. \A t \in inflight : t.run <= r /\ t.run # r
  BY <1>1, <1>3
<1>7. run_plan.transfers \in Nat /\ run_plan.deletes \in Nat
  BY <1>1 DEF RunPlan
<1>8. Progress(r, e, inflight)
  BY <1>2, <1>3, <1>5, <1>6, <1>7 DEF Progress, OfKind
<1> QED BY <1>8 DEF e

\* StartRunInv: starting a run keeps the invariant.
LEMMA StartRunInv ==
  ASSUME IInv, NEW first \in {"Copying", "DeletingBefore", "DeletingDuring"}, StartRun(first)
  PROVE  EngineInv' /\ History' /\ Limited(inflight)
<1>1. CASE ~run_plan.some
  BY <1>1, RedispatchInv DEF StartRun
<1>2. CASE run_plan.some
  <2> DEFINE r == runs + 1
             e == NewExecution(run_plan, first)
  <2>1. /\ runs' = r /\ mixed' = (mixed \/ inflight # {}) /\ finished' = {}
        /\ Dispatch(r, e, inflight)
    BY <1>2 DEF StartRun
  <2>2. TypeOK /\ run_plan \in RunPlan /\ r \in Nat /\ mixed \in BOOLEAN
    BY DEF IInv, TypeOK
  <2>3. e.active_transfers = 0 /\ e.active_deletes = 0
    <3>1. first \in Active \union {"None"}
      BY DEF Active
    <3> QED BY <2>2, <3>1, NewExecutionFields
  <2>4. Progress(r, e, inflight)
    BY NewRunProgress
  <2> HIDE DEF e
  <2>5. inflight = {} => Exact(r, e, inflight)
    <3> SUFFICES ASSUME inflight = {} PROVE Exact(r, e, inflight)
      OBVIOUS
    <3>1. OfKind(inflight, "transfer") = {} /\ OfKind(inflight, "delete") = {}
      BY DEF OfKind
    <3> QED BY <2>3, <3>1, FS_EmptySet DEF Exact
  <2>6. /\ Progress(r, execution', inflight') /\ Busy(execution')
        /\ Exact(r, e, inflight) => Exact(r, execution', inflight')
        /\ Limited(inflight)
    BY <2>1, <2>2, <2>4, DispatchProgress
  <2> QED BY <2>1, <2>2, <2>5, <2>6 DEF EngineInv, History
<1> QED BY <1>1, <1>2

\* TaskFinishedInv: handling a completion keeps the invariant.
LEMMA TaskFinishedInv ==
  ASSUME IInv, NEW t \in inflight, NEW ok \in BOOLEAN, TaskFinished(t, ok)
  PROVE  EngineInv' /\ History' /\ Limited(inflight)
<1> DEFINE e == IF execution.phase = "None" THEN execution
                ELSE IF t.kind = "transfer" THEN AfterTransfer(execution, ok)
                ELSE AfterDelete(execution, ok)
<1>1. TypeOK /\ runs \in Nat /\ cfg.ignore_errors \in BOOLEAN
  BY DEF IInv, TypeOK, Config
<1>2. Dispatch(runs, e, inflight \ {t}) /\ UNCHANGED <<runs, mixed>>
  BY DEF TaskFinished
<1>3. Progress(runs, execution, inflight)
  BY DEF IInv, EngineInv
<1>4. /\ Progress(runs, e, inflight \ {t})
      /\ Exact(runs, execution, inflight) => Exact(runs, e, inflight \ {t})
  <2>1. CASE execution.phase = "None"
    <3>1. IsFiniteSet(inflight \ {t})
      BY <1>3, FS_RemoveElement DEF Progress
    <3> QED BY <1>3, <2>1, <3>1 DEF Progress, Exact
  <2>2. CASE execution.phase # "None"
    BY <1>1, <1>3, <2>2, ReportProgress
  <2> QED BY <2>1, <2>2
<1> HIDE DEF e
<1>5. /\ Progress(runs, execution', inflight') /\ Busy(execution')
      /\ Exact(runs, e, inflight \ {t}) => Exact(runs, execution', inflight')
      /\ Limited(inflight \ {t})
  BY <1>1, <1>2, <1>4, DispatchProgress
<1>6. EngineInv'
  BY <1>2, <1>4, <1>5 DEF IInv, EngineInv
<1>7. t \in Task
  BY <1>3 DEF Progress
<1>8. History'
  BY <1>7 DEF IInv, TypeOK, TaskFinished, History
<1>9. Limited(inflight)
  <2>1. inflight' \ inflight \subseteq inflight' \ (inflight \ {t})
    OBVIOUS
  <2> QED BY <1>5, <2>1 DEF Limited
<1> QED BY <1>6, <1>8, <1>9

\* NextInv: the invariant is inductive.
LEMMA NextInv ==
  ASSUME IInv, [Next]_vars
  PROVE  IInv'
<1> USE DEF history
<1>1. TypeOK /\ Frame /\ NoPlan \in RunPlan
  BY DEF IInv, TypeOK, Frame, NoPlan, RunPlan
<1>2. CASE OpenSync
  <2>1. Frame'
    BY <1>1, <1>2 DEF OpenSync, Frame, Config, DefaultConfig, Modes, DeletePhases
  <2> QED BY <1>2, <2>1, DropInv, IInvParts DEF OpenSync
<1>3. CASE ChangeConfig
  <2>1. cfg' \in Config
    <3>1. PICK c \in [mode: Modes, delete_phase: DeletePhases, ignore_errors: BOOLEAN,
                      transfer_workers: {cfg.transfer_workers},
                      delete_workers: DeleteWorkerTexts] : cfg' = c
      BY <1>3 DEF ChangeConfig
    <3> QED BY <1>1, <3>1 DEF Frame, Config
  <2>2. Frame'
    BY <1>1, <1>3, <2>1 DEF ChangeConfig, Frame
  <2> QED BY <1>3, <2>2, DropInv, IInvParts DEF ChangeConfig
<1>4. CASE ChangeTransferWorkers
  <2>1. PICK w \in TransferWorkerTexts : cfg' = [cfg EXCEPT !.transfer_workers = w]
    BY <1>4 DEF ChangeTransferWorkers
  <2>2. cfg' \in Config
    BY <1>1, <2>1 DEF Frame, Config
  <2>3. Frame'
    BY <1>1, <1>4, <2>2 DEF ChangeTransferWorkers, Frame
  <2>4. EngineInv' /\ History'
    BY <1>4 DEF ChangeTransferWorkers, IInv, TypeOK, EngineInv, History
  <2> QED BY <2>3, <2>4, IInvParts
<1>5. CASE StartSyncPlan
  <2>1. pipelines' \in Nat
    BY <1>1, <1>5 DEF StartSyncPlan, Frame
  <2>2. planning' \in BOOLEAN
    BY <1>1, <1>5 DEF StartSyncPlan, Frame
  <2>3. Frame'
    BY <1>1, <1>5, <2>1, <2>2 DEF StartSyncPlan, Frame
  <2> QED BY <1>5, <2>3, DropInv, IInvParts DEF StartSyncPlan
<1>6. CASE SyncPlanBuilt
  <2>1. run_plan' \in RunPlan
    BY <1>1, <1>6, PlansAssumption DEF SyncPlanBuilt, Frame
  <2>2. pipelines' \in Nat
    BY <1>1, <1>6 DEF SyncPlanBuilt, Frame
  <2>3. Frame'
    BY <1>1, <1>6, <2>1, <2>2 DEF SyncPlanBuilt, Frame
  <2>4. EngineInv' /\ History'
    BY <1>6 DEF SyncPlanBuilt, IInv, TypeOK, EngineInv, History
  <2> QED BY <2>3, <2>4, IInvParts
<1>7. CASE StartSyncCopy
  <2>1. Frame'
    BY <1>1, <1>7 DEF StartSyncCopy, Frame
  <2> QED BY <1>7, <2>1, StartRunInv, IInvParts DEF StartSyncCopy
<1>8. FirstPhase \in {"Copying", "DeletingBefore", "DeletingDuring"}
  BY DEF FirstPhase
<1>9. CASE StartSync
  <2>1. Frame'
    BY <1>1, <1>9 DEF StartSync, Frame
  <2>2. EngineInv' /\ History'
    <3>1. CASE StartRun(FirstPhase)
      BY <1>8, <3>1, StartRunInv
    <3>2. CASE UNCHANGED <<execution, inflight, finished, runs, mixed>>
      BY <3>2 DEF IInv, TypeOK, EngineInv, History
    <3> QED BY <1>9, <3>1, <3>2 DEF StartSync
  <2> QED BY <2>1, <2>2, IInvParts
<1>10. CASE CancelSyncDeleteConfirm
  <2>1. Frame'
    BY <1>1, <1>10 DEF CancelSyncDeleteConfirm, Frame
  <2>2. EngineInv' /\ History'
    BY <1>10 DEF CancelSyncDeleteConfirm, IInv, TypeOK, EngineInv, History
  <2> QED BY <2>1, <2>2, IInvParts
<1>11. CASE ConfirmSyncDeleteRun
  <2>1. Frame'
    BY <1>1, <1>11 DEF ConfirmSyncDeleteRun, Frame
  <2> QED BY <1>8, <1>11, <2>1, StartRunInv, IInvParts DEF ConfirmSyncDeleteRun
<1>12. CASE Completion
  <2>1. PICK t \in inflight, ok \in BOOLEAN : TaskFinished(t, ok)
    BY <1>12 DEF Completion
  <2>2. Frame'
    BY <1>1, <2>1 DEF TaskFinished, Frame
  <2> QED BY <2>1, <2>2, TaskFinishedInv, IInvParts
<1>13. CASE UNCHANGED vars
  BY <1>13 DEF vars, IInv, TypeOK, EngineInv
<1> QED BY <1>2, <1>3, <1>4, <1>5, <1>6, <1>7, <1>9, <1>10, <1>11, <1>12, <1>13
        DEF Next, User

LEMMA InitInv == Init => IInv
<1> SUFFICES ASSUME Init PROVE IInv
  OBVIOUS
<1>1. Frame
  BY DEF Init, Frame, Config, DefaultConfig, Modes, DeletePhases, NoPlan, RunPlan
<1>2. History
  BY DEF Init, History
<1>3. execution \in Execution /\ execution.phase = "None"
  BY NoExecutionType DEF Init
<1>4. IsFiniteSet(inflight) /\ inflight = {}
  BY FS_EmptySet DEF Init
<1>5. EngineInv
  BY <1>3, <1>4 DEF EngineInv, Progress, Busy, Exact, Active
<1> QED BY <1>1, <1>2, <1>5, IInvParts

LEMMA InvariantHolds == Spec => []IInv
<1>1. IInv /\ [Next]_vars => IInv'
  BY NextInv
<1> QED BY <1>1, InitInv, PTL DEF Spec

-----------------------------------------------------------------------------
(* The theorems *)

\* TypeCorrect: every variable keeps its shape, for every order of messages.
THEOREM TypeCorrect == Spec => []TypeOK
<1>1. IInv => TypeOK
  BY DEF IInv
<1> QED BY <1>1, InvariantHolds, PTL

\* NeverStalls: an execution that is not over always has a task in flight, so the
\* message that dispatches it again will come; whatever older runs still report.
THEOREM NeverStalls == Spec => []NoStall
<1>1. IInv => NoStall
  <2> SUFFICES ASSUME IInv, execution.phase \in Active, inflight = {} PROVE FALSE
    BY DEF NoStall
  <2>1. OfKind(inflight, "transfer") = {} /\ OfKind(inflight, "delete") = {}
    BY DEF OfKind
  <2>2. execution.phase # "None"
    BY DEF Active
  <2>3. /\ execution.active_transfers <= 0 /\ execution.active_deletes <= 0
        /\ execution.active_transfers \in Nat /\ execution.active_deletes \in Nat
    BY <2>1, <2>2, FS_EmptySet DEF IInv, EngineInv, Progress, Execution
  <2> QED BY <2>3 DEF IInv, EngineInv, Busy
<1> QED BY <1>1, InvariantHolds, PTL

\* CountersAreExact: as long as no run started while a task was in flight, the
\* counters that limit the workers and end the phases are the tasks in flight.
THEOREM CountersAreExact == Spec => []CountersExact
<1>1. IInv => CountersExact
  <2> SUFFICES ASSUME IInv, ~mixed, execution.phase # "None"
               PROVE  /\ execution.active_transfers = Cardinality(Own("transfer"))
                      /\ execution.active_deletes = Cardinality(Own("delete"))
    BY DEF CountersExact
  <2>1. Exact(runs, execution, inflight)
    BY DEF IInv, EngineInv
  <2>2. /\ Own("transfer") = OfKind(inflight, "transfer")
        /\ Own("delete") = OfKind(inflight, "delete")
    BY <2>1 DEF Exact, Own, OfKind
  <2> QED BY <2>1, <2>2 DEF Exact
<1> QED BY <1>1, InvariantHolds, PTL

\* NextLimited: only what ends in a dispatch adds tasks.
LEMMA NextLimited ==
  ASSUME IInv, [Next]_vars
  PROVE  Limited(inflight)
<1> USE DEF history
<1>1. inflight' = inflight => Limited(inflight)
  BY DEF Limited
<1>2. FirstPhase \in {"Copying", "DeletingBefore", "DeletingDuring"}
  BY DEF FirstPhase
<1>3. CASE StartSyncCopy
  BY <1>3, StartRunInv DEF StartSyncCopy
<1>4. CASE StartSync
  <2>1. CASE StartRun(FirstPhase)
    BY <1>2, <2>1, StartRunInv
  <2>2. CASE UNCHANGED inflight
    BY <1>1, <2>2
  <2> QED BY <1>4, <2>1, <2>2 DEF StartSync
<1>5. CASE ConfirmSyncDeleteRun
  BY <1>2, <1>5, StartRunInv DEF ConfirmSyncDeleteRun
<1>6. CASE Completion
  BY <1>6, TaskFinishedInv DEF Completion
<1>7. CASE \/ OpenSync \/ ChangeConfig \/ ChangeTransferWorkers \/ StartSyncPlan
           \/ SyncPlanBuilt \/ CancelSyncDeleteConfirm
  BY <1>1, <1>7 DEF OpenSync, ChangeConfig, ChangeTransferWorkers, StartSyncPlan,
                    SyncPlanBuilt, CancelSyncDeleteConfirm
<1>8. CASE UNCHANGED vars
  BY <1>1, <1>8 DEF vars
<1> QED BY <1>3, <1>4, <1>5, <1>6, <1>7, <1>8 DEF Next, User

\* WorkersAreLimited: as long as no run started while a task was in flight, no step that
\* spawns tasks leaves more of their kind in flight than the workers configured.
THEOREM WorkersAreLimited == Spec => WorkerLimit
<1>1. IInv /\ [Next]_vars => [WithinWorkers]_vars
  <2> SUFFICES ASSUME IInv, [Next]_vars, ~mixed'
               PROVE  /\ (\E t \in Fresh : t.kind = "transfer") =>
                           Cardinality(InFlight("transfer")') <= Workers(cfg.transfer_workers)
                      /\ (\E t \in Fresh : t.kind = "delete") =>
                           Cardinality(InFlight("delete")') <= Workers(cfg.delete_workers)
    BY DEF WithinWorkers
  <2>1. Limited(inflight)
    BY NextLimited
  <2>2. Exact(runs', execution', inflight')
    BY NextInv DEF IInv, EngineInv
  <2>3. /\ InFlight("transfer")' = OfKind(inflight', "transfer")
        /\ InFlight("delete")' = OfKind(inflight', "delete")
    BY DEF InFlight, OfKind
  <2> QED BY <2>1, <2>2, <2>3 DEF Limited, Exact, Fresh
<1> QED BY <1>1, InvariantHolds, PTL DEF Spec, WorkerLimit
-----------------------------------------------------------------------------
(***************************************************************************)
(* SyncExecution implements SyncRun, for every set of plans, every worker  *)
(* count and every number of runs: each step of the engine, with its       *)
(* phases, indices and counters, is a step of the run it stands for.       *)
(***************************************************************************)

(* What a phase says of the run, under configuration c.  fd: some delete failed. *)

Wanted(c, e) == c.mode # "Copy" /\ e.plan.deletes # 0

\* A run is stopped by the errors that halt it, and only by them.
StoppedRight(c, e, fd) ==
  /\ e.phase = "Stopped" =>
       /\ ~c.ignore_errors
       /\ fd \/ (c.delete_phase = "During" /\ Wanted(c, e) /\ e.transfer_failed)
  /\ e.phase # "Stopped" =>
       /\ ~fd \/ c.ignore_errors
       /\ c.delete_phase = "During" /\ Wanted(c, e) => ~e.transfer_failed \/ c.ignore_errors

\* What was done before a phase, and what has not begun in it.
PhaseRight(c, e) ==
  /\ ~Wanted(c, e) => e.next_delete = 0 /\ e.active_deletes = 0
  /\ e.phase = "DeletingBefore" =>
       c.delete_phase = "Before" /\ Wanted(c, e) /\ e.next_transfer = 0
  /\ e.phase = "DeletingDuring" => c.delete_phase = "During" /\ Wanted(c, e)
  /\ e.phase = "DeletingAfter" =>
       /\ c.delete_phase = "After" /\ Wanted(c, e)
       /\ TransfersDone(e)
       /\ ~e.transfer_failed \/ c.ignore_errors
  /\ e.phase = "Copying" /\ Wanted(c, e) =>
       \/ c.delete_phase = "Before" /\ DeletesDone(e)
       \/ c.delete_phase = "After" /\ e.next_delete = 0 /\ e.active_deletes = 0
  /\ e.phase = "Done" =>
       /\ TransfersDone(e)
       /\ e.active_deletes = 0
       /\ Wanted(c, e) => DeletesDone(e) \/ (e.transfer_failed /\ ~c.ignore_errors)

InPhase(c, e, fd) == StoppedRight(c, e, fd) /\ PhaseRight(c, e)

\* A copy never comes to deletes, even when it is mixed with another run.
OnlyCopies(c, e) ==
  c.mode = "Copy" => /\ e.phase \in {"Copying", "Done", "Stopped", "None"}
                     /\ e.next_delete = 0

\* InPhaseSettled: the loop over phases keeps all this.
LEMMA InPhaseSettled ==
  ASSUME NEW e \in Execution, NEW fd \in BOOLEAN, cfg \in Config
  PROVE  /\ InPhase(cfg, e, fd) => InPhase(cfg, Settle(e), fd)
         /\ OnlyCopies(cfg, e) => OnlyCopies(cfg, Settle(e))
<1> DEFINE Kept(x, y) == /\ InPhase(cfg, x, fd) => InPhase(cfg, y, fd)
                         /\ OnlyCopies(cfg, x) => OnlyCopies(cfg, y)
<1>1. cfg.mode \in Modes /\ cfg.delete_phase \in DeletePhases /\ cfg.ignore_errors \in BOOLEAN
  BY DEF Config
<1>2. ASSUME NEW x \in Execution PROVE Kept(x, LeaveBefore(x))
  <2> DEFINE y == LeaveBefore(x)
  <2>1. y \in Execution /\ SameProgress(x, y)
    BY LeaveBeforeType
  <2>2. y.phase = IF x.phase = "DeletingBefore" /\ DeletesDone(x) THEN "Copying" ELSE x.phase
    BY DEF LeaveBefore, Execution
  <2> HIDE DEF y
  <2>3. StoppedRight(cfg, x, fd) => StoppedRight(cfg, y, fd)
    BY <2>1, <2>2 DEF StoppedRight, SameProgress, Wanted
  <2>4. PhaseRight(cfg, x) => PhaseRight(cfg, y)
    BY <2>1, <2>2 DEF PhaseRight, SameProgress, Wanted, TransfersDone, DeletesDone
  <2>5. OnlyCopies(cfg, x) => OnlyCopies(cfg, y)
    BY <2>1, <2>2 DEF OnlyCopies, SameProgress
  <2> QED BY <2>3, <2>4, <2>5 DEF y, InPhase
<1>3. ASSUME NEW x \in Execution PROVE Kept(x, LeaveCopying(x))
  <2> DEFINE y == LeaveCopying(x)
             p == PhaseAfterCopying(x)
  <2>1. y \in Execution /\ SameProgress(x, y)
    BY LeaveCopyingType
  <2>2. y.phase = IF x.phase = "Copying" /\ TransfersDone(x) THEN p ELSE x.phase
    BY DEF LeaveCopying, Execution
  <2>3. /\ p \in {"Done", "DeletingAfter", "DeletingDuring"}
        /\ p = "DeletingDuring" => cfg.delete_phase = "During" /\ Wanted(cfg, x)
        /\ p = "DeletingAfter" => /\ cfg.delete_phase = "After" /\ Wanted(cfg, x)
                                  /\ ~x.transfer_failed \/ cfg.ignore_errors
        /\ p = "Done" => \/ ~Wanted(cfg, x)
                         \/ x.transfer_failed /\ ~cfg.ignore_errors
                         \/ cfg.delete_phase = "Before"
    BY <1>1 DEF PhaseAfterCopying, SkipsDeletes, Wanted, DeletePhases
  <2> HIDE DEF y, p
  <2>4. StoppedRight(cfg, x, fd) => StoppedRight(cfg, y, fd)
    BY <2>1, <2>2, <2>3 DEF StoppedRight, SameProgress, Wanted
  <2>5. PhaseRight(cfg, x) => PhaseRight(cfg, y)
    BY <2>1, <2>2, <2>3 DEF PhaseRight, SameProgress, Wanted, TransfersDone, DeletesDone
  <2>6. OnlyCopies(cfg, x) => OnlyCopies(cfg, y)
    BY <2>1, <2>2, <2>3 DEF OnlyCopies, SameProgress, Wanted
  <2> QED BY <2>4, <2>5, <2>6 DEF y, InPhase
<1>4. ASSUME NEW x \in Execution PROVE Kept(x, LeaveDeleting(x))
  <2> DEFINE y == LeaveDeleting(x)
  <2>1. y \in Execution /\ SameProgress(x, y)
    BY LeaveDeletingType
  <2>2. /\ y.phase \in {x.phase, "Done"}
        /\ y.phase # x.phase => /\ x.phase \in {"DeletingDuring", "DeletingAfter"}
                                /\ DeletesDone(x)
                                /\ x.phase = "DeletingDuring" => TransfersDone(x)
    BY DEF LeaveDeleting, Execution
  <2> HIDE DEF y
  <2>3. StoppedRight(cfg, x, fd) => StoppedRight(cfg, y, fd)
    BY <2>1, <2>2 DEF StoppedRight, SameProgress, Wanted
  <2>4. PhaseRight(cfg, x) => PhaseRight(cfg, y)
    BY <2>1, <2>2 DEF PhaseRight, SameProgress, Wanted, TransfersDone, DeletesDone
  <2>5. OnlyCopies(cfg, x) => OnlyCopies(cfg, y)
    BY <2>1, <2>2 DEF OnlyCopies, SameProgress
  <2> QED BY <2>3, <2>4, <2>5 DEF y, InPhase
<1>5. /\ LeaveBefore(e) \in Execution
      /\ LeaveCopying(LeaveBefore(e)) \in Execution
  BY LeaveBeforeType, LeaveCopyingType
<1>6. /\ Kept(e, LeaveBefore(e))
      /\ Kept(LeaveBefore(e), LeaveCopying(LeaveBefore(e)))
      /\ Kept(LeaveCopying(LeaveBefore(e)), Settle(e))
  BY <1>2, <1>3, <1>4, <1>5 DEF Settle
<1> QED BY <1>6

\* InPhaseSpawned: so does spawning.
LEMMA InPhaseSpawned ==
  ASSUME TypeOK, NEW s \in Execution, NEW fd \in BOOLEAN,
         s.next_transfer <= s.plan.transfers, s.next_delete <= s.plan.deletes
  PROVE  /\ InPhase(cfg, s, fd) => InPhase(cfg, AfterSpawn(s), fd)
         /\ OnlyCopies(cfg, s) => OnlyCopies(cfg, AfterSpawn(s))
<1> DEFINE a == AfterSpawn(s)
           nt == NewTransfers(s)
           nd == NewDeletes(s)
<1>1. /\ nt \in Nat /\ nd \in Nat
      /\ nt > 0 => s.phase \in {"Copying", "DeletingDuring"}
      /\ nd > 0 => s.phase \in {"DeletingBefore", "DeletingDuring", "DeletingAfter"}
  BY NewCounts
<1>2. /\ a.phase = s.phase /\ a.plan = s.plan
      /\ a.next_transfer = s.next_transfer + nt /\ a.next_delete = s.next_delete + nd
      /\ a.active_transfers = s.active_transfers + nt
      /\ a.active_deletes = s.active_deletes + nd
      /\ a.transfer_failed = s.transfer_failed
  BY <1>1, AfterSpawnFields
<1>3. /\ s.next_transfer \in Nat /\ s.next_delete \in Nat
      /\ s.active_transfers \in Nat /\ s.active_deletes \in Nat
      /\ s.plan.transfers \in Nat /\ s.plan.deletes \in Nat
  BY DEF Execution, RunPlan
<1> HIDE DEF a, nt, nd
<1>4. nt = 0 => a.next_transfer = s.next_transfer /\ a.active_transfers = s.active_transfers
  BY <1>2, <1>3
<1>5. nd = 0 => a.next_delete = s.next_delete /\ a.active_deletes = s.active_deletes
  BY <1>2, <1>3
<1>6. /\ s.phase \in {"DeletingBefore", "DeletingAfter", "Done"} => nt = 0
      /\ s.phase \in {"Copying", "Done", "Stopped", "None"} => nd = 0
  BY <1>1
<1>7. StoppedRight(cfg, s, fd) => StoppedRight(cfg, a, fd)
  BY <1>2 DEF StoppedRight, Wanted
<1>8. PhaseRight(cfg, s) => PhaseRight(cfg, a)
  <2> SUFFICES ASSUME PhaseRight(cfg, s) PROVE PhaseRight(cfg, a)
    OBVIOUS
  <2>1. ~Wanted(cfg, s) => nd = 0
    BY <1>1 DEF PhaseRight
  <2> QED BY <1>2, <1>4, <1>5, <1>6, <2>1 DEF PhaseRight, Wanted, TransfersDone, DeletesDone
<1>9. OnlyCopies(cfg, s) => OnlyCopies(cfg, a)
  BY <1>2, <1>5, <1>6 DEF OnlyCopies
<1> QED BY <1>7, <1>8, <1>9 DEF a, InPhase

-----------------------------------------------------------------------------
(* The tasks of a run, and what the steps of the engine do to them *)

\* Tasks of execution e of run r not started; tasks of the run in flight.
Left(r, e) ==
  {[run |-> r, kind |-> "transfer", item |-> i] : i \in e.next_transfer .. e.plan.transfers - 1}
  \union {[run |-> r, kind |-> "delete", item |-> i] :
            i \in IF cfg.mode = "Copy" THEN {} ELSE e.next_delete .. e.plan.deletes - 1}

Mine(r, tasks) == {t \in tasks : t.run = r}

\* SpawnedTasks: what a settled execution spawns is taken from what is left.
LEMMA SpawnedTasks ==
  ASSUME TypeOK, NEW r \in Nat, NEW s \in Execution, OnlyCopies(cfg, s),
         s.next_transfer <= s.plan.transfers, s.next_delete <= s.plan.deletes
  PROVE  /\ Spawned(r, s) \subseteq Left(r, s)
         /\ Left(r, AfterSpawn(s)) = Left(r, s) \ Spawned(r, s)
         /\ Spawned(r, s) # {} => s.phase \in Active
         /\ \A t \in Spawned(r, s) :
              /\ t \in Task /\ t.run = r
              /\ t.kind = "transfer" => /\ s.phase \in {"Copying", "DeletingDuring"}
                                        /\ t.item >= s.next_transfer
                                        /\ t.item < AfterSpawn(s).next_transfer
              /\ t.kind = "delete" =>
                   /\ s.phase \in {"DeletingBefore", "DeletingDuring", "DeletingAfter"}
                   /\ t.item >= s.next_delete
                   /\ t.item < AfterSpawn(s).next_delete
         /\ AfterSpawn(s).next_delete > s.next_delete =>
              \E t \in Spawned(r, s) : t.kind = "delete"
<1> DEFINE a == AfterSpawn(s)
           nt == NewTransfers(s)
           nd == NewDeletes(s)
           pt == s.plan.transfers
           pd == IF cfg.mode = "Copy" THEN s.next_delete ELSE s.plan.deletes
           Row(kind, first, end) ==
             {[run |-> r, kind |-> kind, item |-> i] : i \in first .. end - 1}
<1>1. /\ nt \in Nat /\ nd \in Nat
      /\ s.next_transfer + nt <= s.plan.transfers
      /\ s.next_delete + nd <= s.plan.deletes
      /\ nt > 0 => s.phase \in {"Copying", "DeletingDuring"}
      /\ nd > 0 => s.phase \in {"DeletingBefore", "DeletingDuring", "DeletingAfter"}
  BY NewCounts
<1>2. /\ a.plan = s.plan
      /\ a.next_transfer = s.next_transfer + nt
      /\ a.next_delete = s.next_delete + nd
  BY <1>1, AfterSpawnFields
<1>3. /\ s.next_transfer \in Nat /\ s.next_delete \in Nat
      /\ s.plan.transfers \in Nat /\ s.plan.deletes \in Nat
  BY DEF Execution, RunPlan
<1>4. Spawned(r, s) = Row("transfer", s.next_transfer, s.next_transfer + nt)
                        \union Row("delete", s.next_delete, s.next_delete + nd)
  BY <1>1, <1>3 DEF Spawned, TasksFrom
<1> HIDE DEF a, nt, nd
<1>5. s.next_delete + nd <= pd
  BY <1>1, <1>3 DEF OnlyCopies
<1>6. \A first, end \in Nat : first <= end => (first = end) = (first .. end - 1 = {})
  OBVIOUS
<1>7. Left(r, s) = Row("transfer", s.next_transfer, pt) \union Row("delete", s.next_delete, pd)
  BY <1>3, <1>6 DEF Left
<1>8. Left(r, a) = Row("transfer", s.next_transfer + nt, pt)
                     \union Row("delete", s.next_delete + nd, pd)
  BY <1>1, <1>2, <1>3, <1>5, <1>6 DEF Left, OnlyCopies
<1>9. pt \in Nat /\ pd \in Nat
  BY <1>3
<1> HIDE DEF pt, pd
<1>10. ASSUME NEW kind, NEW first \in Nat, NEW n \in Nat, NEW end \in Nat, first + n <= end
       PROVE  /\ Row(kind, first, first + n) \subseteq Row(kind, first, end)
              /\ Row(kind, first + n, end) = Row(kind, first, end) \ Row(kind, first, first + n)
  <2>1. /\ first .. first + n - 1 \subseteq first .. end - 1
        /\ first + n .. end - 1 = (first .. end - 1) \ (first .. first + n - 1)
    BY <1>10
  <2>2. Row(kind, first, first + n) \subseteq Row(kind, first, end)
    BY <2>1
  <2>3. ASSUME NEW t \in Row(kind, first + n, end)
        PROVE  t \in Row(kind, first, end) /\ t \notin Row(kind, first, first + n)
    BY <2>1
  <2>4. ASSUME NEW t \in Row(kind, first, end), t \notin Row(kind, first, first + n)
        PROVE  t \in Row(kind, first + n, end)
    BY <2>1, <2>4
  <2> QED BY <2>2, <2>3, <2>4
<1>11. \A f1, f2, e1, e2 \in Nat : Row("transfer", f1, e1) \intersect Row("delete", f2, e2) = {}
  OBVIOUS
<1>12. s.next_transfer + nt \in Nat /\ s.next_delete + nd \in Nat /\ s.next_transfer + nt <= pt
  BY <1>1, <1>3 DEF pt
<1>13. ASSUME NEW kind \in Kinds, NEW first \in Nat, NEW n \in Nat
       PROVE  /\ \A t \in Row(kind, first, first + n) :
                   /\ t \in Task /\ t.run = r /\ t.kind = kind
                   /\ t.item >= first /\ t.item < first + n
                   /\ n > 0
              /\ n > 0 => \E t \in Row(kind, first, first + n) : t.kind = kind
  <2>1. \A t \in Row(kind, first, first + n) :
          /\ t \in Task /\ t.run = r /\ t.kind = kind
          /\ t.item >= first /\ t.item < first + n
          /\ n > 0
    BY DEF Task
  <2>2. n > 0 => [run |-> r, kind |-> kind, item |-> first] \in Row(kind, first, first + n)
    OBVIOUS
  <2> QED BY <2>1, <2>2
<1>14. /\ Row("transfer", s.next_transfer, s.next_transfer + nt)
            \subseteq Row("transfer", s.next_transfer, pt)
       /\ Row("transfer", s.next_transfer + nt, pt)
            = Row("transfer", s.next_transfer, pt)
                \ Row("transfer", s.next_transfer, s.next_transfer + nt)
  BY <1>1, <1>3, <1>9, <1>10, <1>12
<1>15. /\ Row("delete", s.next_delete, s.next_delete + nd)
            \subseteq Row("delete", s.next_delete, pd)
       /\ Row("delete", s.next_delete + nd, pd)
            = Row("delete", s.next_delete, pd)
                \ Row("delete", s.next_delete, s.next_delete + nd)
  BY <1>1, <1>3, <1>5, <1>9, <1>10
<1>16. "transfer" \in Kinds /\ "delete" \in Kinds
  BY DEF Kinds
<1>17. /\ \A t \in Row("transfer", s.next_transfer, s.next_transfer + nt) :
            /\ t \in Task /\ t.run = r /\ t.kind = "transfer"
            /\ t.item >= s.next_transfer /\ t.item < s.next_transfer + nt
            /\ nt > 0
       /\ \A t \in Row("delete", s.next_delete, s.next_delete + nd) :
            /\ t \in Task /\ t.run = r /\ t.kind = "delete"
            /\ t.item >= s.next_delete /\ t.item < s.next_delete + nd
            /\ nd > 0
       /\ nd > 0 => \E t \in Row("delete", s.next_delete, s.next_delete + nd) : t.kind = "delete"
  BY <1>1, <1>3, <1>13, <1>16
<1>18. /\ Row("transfer", s.next_transfer, pt)
            \intersect Row("delete", s.next_delete, s.next_delete + nd) = {}
       /\ Row("delete", s.next_delete, pd)
            \intersect Row("transfer", s.next_transfer, s.next_transfer + nt) = {}
  BY <1>3, <1>9, <1>11, <1>12
<1> HIDE DEF Row
<1>19. Spawned(r, s) \subseteq Left(r, s) /\ Left(r, a) = Left(r, s) \ Spawned(r, s)
  BY <1>4, <1>7, <1>8, <1>14, <1>15, <1>18
<1>20. ASSUME NEW t \in Spawned(r, s)
       PROVE  /\ t \in Task /\ t.run = r
              /\ t.kind = "transfer" => /\ s.phase \in {"Copying", "DeletingDuring"}
                                        /\ t.item >= s.next_transfer
                                        /\ t.item < a.next_transfer
              /\ t.kind = "delete" =>
                   /\ s.phase \in {"DeletingBefore", "DeletingDuring", "DeletingAfter"}
                   /\ t.item >= s.next_delete
                   /\ t.item < a.next_delete
              /\ s.phase \in Active
  BY <1>1, <1>2, <1>4, <1>17, <1>20 DEF Active
<1>21. a.next_delete > s.next_delete => \E t \in Spawned(r, s) : t.kind = "delete"
  BY <1>1, <1>2, <1>3, <1>4, <1>17
<1> QED BY <1>19, <1>20, <1>21 DEF a

-----------------------------------------------------------------------------
(* The invariant of a run: its results, its numbers and its phase *)

\* Recorded: every result is of a task of the run that was started and is no longer in
\* flight; once deletes have begun, one of them is in flight or has a result.
Recorded(r, e, tasks, results) ==
  /\ results \subseteq [task: Task, ok: BOOLEAN]
  /\ IsFiniteSet(results)
  /\ \A f \in results :
       /\ f.task.run = r /\ f.task \notin tasks
       /\ f.task.kind = "transfer" => f.task.item < e.next_transfer
       /\ f.task.kind = "delete" => f.task.item < e.next_delete
  /\ e.next_delete > 0 => \/ \E t \in tasks : t.run = r /\ t.kind = "delete"
                          \/ \E f \in results : f.task.kind = "delete"

FailedOf(kind, results) == \E f \in results : f.task.kind = kind /\ ~f.ok

TransfersOf(results, ok) == {f \in results : f.task.kind = "transfer" /\ f.ok = ok}

\* Counted: the execution's numbers of transfers are those of the results.
Counted(e, results) ==
  /\ e.completed_transfers = Cardinality(TransfersOf(results, TRUE))
  /\ e.failed_transfers = Cardinality(TransfersOf(results, FALSE))
  /\ e.transfer_failed <=> FailedOf("transfer", results)

RunInv(c, r, e, tasks, results, met) ==
  e.phase # "None" =>
    /\ Recorded(r, e, tasks, results)
    /\ OnlyCopies(c, e)
    /\ ~met => Counted(e, results) /\ InPhase(c, e, FailedOf("delete", results))

\* DispatchKeepsRun: a dispatch keeps the invariant of the run.
LEMMA DispatchKeepsRun ==
  ASSUME TypeOK, NEW r \in Nat, NEW e, NEW tasks, NEW results, NEW met \in BOOLEAN,
         Progress(r, e, tasks), RunInv(cfg, r, e, tasks, results, met), Dispatch(r, e, tasks)
  PROVE  RunInv(cfg, r, execution', inflight', results, met)
<1>1. CASE e.phase = "None"
  BY <1>1 DEF Dispatch, RunInv
<1>2. CASE e.phase # "None"
  <2> DEFINE s == Settle(e)
             a == AfterSpawn(s)
             new == Spawned(r, s)
             fd == FailedOf("delete", results)
  <2>1. /\ e \in Execution /\ cfg \in Config
        /\ e.next_transfer <= e.plan.transfers /\ e.next_delete <= e.plan.deletes
    BY <1>2 DEF Progress, TypeOK
  <2>2. /\ Recorded(r, e, tasks, results) /\ OnlyCopies(cfg, e)
        /\ ~met => Counted(e, results) /\ InPhase(cfg, e, fd)
    BY <1>2 DEF RunInv
  <2>3. s \in Execution /\ SameProgress(e, s)
    BY <2>1, SettleType
  <2>4. fd \in BOOLEAN
    BY DEF FailedOf
  <2> HIDE DEF fd
  <2>5. OnlyCopies(cfg, s) /\ (~met => InPhase(cfg, s, fd))
    BY <2>1, <2>2, <2>4, InPhaseSettled
  <2>6. execution' = a /\ inflight' = tasks \union new
    BY <1>2 DEF Dispatch
  <2> HIDE DEF s
  <2>7. s.next_transfer <= s.plan.transfers /\ s.next_delete <= s.plan.deletes
    BY <2>1, <2>3 DEF SameProgress
  <2>8. OnlyCopies(cfg, a) /\ (~met => InPhase(cfg, a, fd))
    BY <2>3, <2>4, <2>5, <2>7, InPhaseSpawned
  <2>9. NewTransfers(s) \in Nat /\ NewDeletes(s) \in Nat
    BY <2>3, <2>7, NewCounts
  <2>10. /\ a.completed_transfers = e.completed_transfers
         /\ a.failed_transfers = e.failed_transfers
         /\ a.transfer_failed = e.transfer_failed
         /\ a.next_transfer = e.next_transfer + NewTransfers(s)
         /\ a.next_delete = e.next_delete + NewDeletes(s)
         /\ s.next_transfer = e.next_transfer /\ s.next_delete = e.next_delete
         /\ e.next_transfer \in Nat /\ e.next_delete \in Nat
    BY <2>1, <2>3, <2>9, AfterSpawnFields DEF SameProgress, Execution
  <2>11. /\ \A t \in new :
              /\ t.run = r
              /\ t.kind = "transfer" => t.item >= e.next_transfer
              /\ t.kind = "delete" => t.item >= e.next_delete
              /\ t \in Task
         /\ a.next_delete > e.next_delete => \E t \in new : t.kind = "delete"
    BY <2>3, <2>5, <2>7, <2>10, SpawnedTasks
  <2> HIDE DEF a, new
  <2>12. Recorded(r, a, inflight', results)
    <3>1. results \subseteq [task: Task, ok: BOOLEAN] /\ IsFiniteSet(results)
      BY <2>2 DEF Recorded
    <3>2. ASSUME NEW f \in results
          PROVE  /\ f.task.run = r /\ f.task \notin inflight'
                 /\ f.task.kind = "transfer" => f.task.item < a.next_transfer
                 /\ f.task.kind = "delete" => f.task.item < a.next_delete
      <4>1. /\ f.task.run = r /\ f.task \notin tasks
            /\ f.task.kind = "transfer" => f.task.item < e.next_transfer
            /\ f.task.kind = "delete" => f.task.item < e.next_delete
        BY <2>2 DEF Recorded
      <4>2. f.task.kind \in Kinds /\ f.task.item \in Nat
        BY <3>1 DEF Task
      <4>3. f.task \notin new
        BY <2>10, <2>11, <4>1, <4>2 DEF Kinds
      <4> QED BY <2>6, <2>9, <2>10, <4>1, <4>2, <4>3
    <3>3. a.next_delete > 0 => \/ \E t \in inflight' : t.run = r /\ t.kind = "delete"
                               \/ \E f \in results : f.task.kind = "delete"
      <4>1. CASE e.next_delete > 0
        BY <2>2, <2>6, <4>1 DEF Recorded
      <4>2. CASE e.next_delete = 0
        BY <2>6, <2>11, <4>2
      <4> QED BY <2>10, <4>1, <4>2
    <3> QED BY <3>1, <3>2, <3>3 DEF Recorded
  <2>13. ~met => Counted(a, results)
    BY <2>2, <2>10 DEF Counted
  <2> QED BY <2>6, <2>8, <2>12, <2>13 DEF RunInv, fd
<1> QED BY <1>1, <1>2

\* InPhaseReported: a completion that was awaited keeps what the phase says.
LEMMA InPhaseReported ==
  ASSUME cfg \in Config, NEW e \in Execution, e.phase # "None", NEW ok \in BOOLEAN,
         NEW fd \in BOOLEAN, InPhase(cfg, e, fd)
  PROVE  /\ e.active_transfers > 0 => InPhase(cfg, AfterTransfer(e, ok), fd)
         /\ e.active_deletes > 0 => InPhase(cfg, AfterDelete(e, ok), fd \/ ~ok)
<1>1. cfg.mode \in Modes /\ cfg.delete_phase \in DeletePhases /\ cfg.ignore_errors \in BOOLEAN
  BY DEF Config
<1>2. /\ e.active_transfers \in Nat /\ e.active_deletes \in Nat /\ e.transfer_failed \in BOOLEAN
      /\ e.next_delete \in Nat /\ e.next_transfer \in Nat
  BY DEF Execution
<1>3. ASSUME e.active_transfers > 0
      PROVE  InPhase(cfg, AfterTransfer(e, ok), fd)
  <2> DEFINE x == AfterTransfer(e, ok)
  <2>1. /\ x.plan = e.plan
        /\ x.next_transfer = e.next_transfer /\ x.next_delete = e.next_delete
        /\ x.active_deletes = e.active_deletes
        /\ x.transfer_failed = (e.transfer_failed \/ ~ok)
        /\ x.phase = IF ~ok /\ ~cfg.ignore_errors /\ e.phase = "DeletingDuring"
                       THEN "Stopped" ELSE e.phase
    BY <1>1, AfterTransferFields
  <2> HIDE DEF x
  <2>2. e.phase \notin {"Done", "DeletingAfter"}
    BY <1>2, <1>3 DEF InPhase, PhaseRight, TransfersDone
  <2>3. StoppedRight(cfg, x, fd)
    BY <1>1, <1>2, <2>1, <2>2
       DEF InPhase, StoppedRight, PhaseRight, Wanted, Execution, Active, Terminal
  <2>4. PhaseRight(cfg, x)
    BY <2>1, <2>2 DEF InPhase, PhaseRight, Wanted, DeletesDone
  <2> QED BY <2>3, <2>4 DEF InPhase, x
<1>4. ASSUME e.active_deletes > 0
      PROVE  InPhase(cfg, AfterDelete(e, ok), fd \/ ~ok)
  <2> DEFINE x == AfterDelete(e, ok)
  <2>1. /\ x.plan = e.plan
        /\ x.next_transfer = e.next_transfer /\ x.next_delete = e.next_delete
        /\ x.active_transfers = e.active_transfers
        /\ x.transfer_failed = e.transfer_failed
        /\ x.phase = IF ~ok /\ ~cfg.ignore_errors THEN "Stopped" ELSE e.phase
    BY <1>1, AfterDeleteFields
  <2> HIDE DEF x
  <2>2. /\ Wanted(cfg, e)
        /\ e.phase # "Done" /\ e.phase # "Copying"
    BY <1>2, <1>4 DEF InPhase, PhaseRight, DeletesDone
  <2>3. StoppedRight(cfg, x, fd \/ ~ok)
    BY <1>1, <2>1, <2>2 DEF InPhase, StoppedRight, Wanted
  <2>4. PhaseRight(cfg, x)
    BY <2>1, <2>2 DEF InPhase, PhaseRight, Wanted, TransfersDone
  <2> QED BY <2>3, <2>4 DEF InPhase, x
<1> QED BY <1>3, <1>4

\* ResultAdded: how one more result changes the numbers.
LEMMA ResultAdded ==
  ASSUME NEW results, IsFiniteSet(results), NEW f, f \notin results, f.ok \in BOOLEAN
  PROVE  /\ IsFiniteSet(results \union {f})
         /\ \A ok \in BOOLEAN :
              /\ Cardinality(TransfersOf(results, ok)) \in Nat
              /\ Cardinality(TransfersOf(results \union {f}, ok))
                   = Cardinality(TransfersOf(results, ok))
                       + (IF f.task.kind = "transfer" /\ f.ok = ok THEN 1 ELSE 0)
         /\ \A kind \in Kinds :
              FailedOf(kind, results \union {f})
                <=> FailedOf(kind, results) \/ (f.task.kind = kind /\ ~f.ok)
<1>1. IsFiniteSet(results \union {f})
  BY FS_AddElement
<1>2. ASSUME NEW ok \in BOOLEAN
      PROVE  /\ Cardinality(TransfersOf(results, ok)) \in Nat
             /\ Cardinality(TransfersOf(results \union {f}, ok))
                  = Cardinality(TransfersOf(results, ok))
                      + (IF f.task.kind = "transfer" /\ f.ok = ok THEN 1 ELSE 0)
  <2> DEFINE A == TransfersOf(results, ok)
             B == TransfersOf(results \union {f}, ok)
  <2>1. IsFiniteSet(A) /\ f \notin A
    BY FS_Subset DEF TransfersOf
  <2>2. Cardinality(A) \in Nat /\ Cardinality(A \union {f}) = Cardinality(A) + 1
    BY <2>1, FS_AddElement, FS_CardinalityType
  <2>3. CASE f.task.kind = "transfer" /\ f.ok = ok
    <3>1. B = A \union {f}
      BY <2>3 DEF TransfersOf
    <3> QED BY <2>2, <2>3, <3>1
  <2>4. CASE ~(f.task.kind = "transfer" /\ f.ok = ok)
    <3>1. B = A
      BY <2>4 DEF TransfersOf
    <3> QED BY <2>2, <2>4, <3>1
  <2> QED BY <2>3, <2>4
<1>3. ASSUME NEW kind \in Kinds
      PROVE  FailedOf(kind, results \union {f})
               <=> FailedOf(kind, results) \/ (f.task.kind = kind /\ ~f.ok)
  BY DEF FailedOf
<1> QED BY <1>1, <1>2, <1>3

\* What the message of task t makes of an execution, and of its results.
Reported(e, t, ok) ==
  IF e.phase = "None" THEN e
  ELSE IF t.kind = "transfer" THEN AfterTransfer(e, ok) ELSE AfterDelete(e, ok)

Results(r, e, t, ok, results) ==
  IF t.run = r /\ e.phase # "None" THEN results \union {[task |-> t, ok |-> ok]} ELSE results

\* ReportKeepsRun: counting a completion keeps the invariant for the tasks that are left.
LEMMA ReportKeepsRun ==
  ASSUME cfg \in Config, NEW r \in Nat, NEW e, NEW tasks, NEW t \in tasks, NEW ok \in BOOLEAN,
         NEW results, NEW met \in BOOLEAN, e.phase # "None",
         Progress(r, e, tasks), ~met => Exact(r, e, tasks),
         RunInv(cfg, r, e, tasks, results, met)
  PROVE  RunInv(cfg, r, Reported(e, t, ok), tasks \ {t}, Results(r, e, t, ok, results), met)
<1> DEFINE x == Reported(e, t, ok)
           f == [task |-> t, ok |-> ok]
           after == Results(r, e, t, ok, results)
           fd == FailedOf("delete", results)
<1>1. /\ e \in Execution /\ t \in Task /\ t.kind \in Kinds /\ tasks \subseteq Task
      /\ IsFiniteSet(tasks) /\ cfg.ignore_errors \in BOOLEAN
  BY DEF Progress, Task, Config
<1>2. /\ Recorded(r, e, tasks, results) /\ OnlyCopies(cfg, e)
      /\ ~met => Counted(e, results) /\ InPhase(cfg, e, fd)
  BY DEF RunInv
<1>3. fd \in BOOLEAN
  BY DEF FailedOf
<1>4. /\ x.next_transfer = e.next_transfer /\ x.next_delete = e.next_delete
      /\ x.phase \in {e.phase, "Stopped"}
      /\ t.kind = "transfer" => x = AfterTransfer(e, ok)
      /\ t.kind = "delete" => x = AfterDelete(e, ok)
  <2>1. CASE t.kind = "transfer"
    <3>1. x = AfterTransfer(e, ok)
      BY <2>1 DEF Reported
    <3> QED BY <1>1, <2>1, <3>1, AfterTransferFields
  <2>2. CASE t.kind = "delete"
    <3>1. x = AfterDelete(e, ok)
      BY <2>2 DEF Reported
    <3> QED BY <1>1, <2>2, <3>1, AfterDeleteFields
  <2> QED BY <1>1, <2>1, <2>2 DEF Kinds
<1>5. after = IF t.run = r THEN results \union {f} ELSE results
  BY DEF Results
<1>6. f.task = t /\ f.ok = ok /\ f \in [task: Task, ok: BOOLEAN] /\ f \notin results
  BY <1>1, <1>2 DEF Recorded
<1>7. /\ t.run = r /\ t.kind = "transfer" => t.item < e.next_transfer
      /\ t.run = r /\ t.kind = "delete" => t.item < e.next_delete
  BY DEF Progress, OfKind
<1> HIDE DEF x, f, after
<1>8. Recorded(r, x, tasks \ {t}, after)
  <2>1. after \subseteq [task: Task, ok: BOOLEAN] /\ IsFiniteSet(after)
    BY <1>2, <1>5, <1>6, FS_AddElement DEF Recorded
  <2>2. ASSUME NEW g \in after
        PROVE  /\ g.task.run = r /\ g.task \notin tasks \ {t}
               /\ g.task.kind = "transfer" => g.task.item < x.next_transfer
               /\ g.task.kind = "delete" => g.task.item < x.next_delete
    <3>1. CASE g \in results
      BY <1>2, <1>4, <3>1 DEF Recorded
    <3>2. CASE g \notin results
      BY <1>4, <1>5, <1>6, <1>7, <3>2
    <3> QED BY <3>1, <3>2
  <2>3. x.next_delete > 0 => \/ \E u \in tasks \ {t} : u.run = r /\ u.kind = "delete"
                             \/ \E g \in after : g.task.kind = "delete"
    <3> SUFFICES ASSUME x.next_delete > 0
                 PROVE  \/ \E u \in tasks \ {t} : u.run = r /\ u.kind = "delete"
                        \/ \E g \in after : g.task.kind = "delete"
      OBVIOUS
    <3>1. CASE \E g \in results : g.task.kind = "delete"
      BY <1>5, <3>1
    <3>2. CASE t.run = r /\ t.kind = "delete"
      BY <1>5, <1>6, <3>2
    <3>3. CASE \E u \in tasks \ {t} : u.run = r /\ u.kind = "delete"
      BY <3>3
    <3> QED BY <1>2, <1>4, <3>1, <3>2, <3>3 DEF Recorded
  <2> QED BY <2>1, <2>2, <2>3 DEF Recorded
<1>9. OnlyCopies(cfg, x)
  BY <1>2, <1>4 DEF OnlyCopies
<1>10. ASSUME ~met
       PROVE  Counted(x, after) /\ InPhase(cfg, x, FailedOf("delete", after))
  <2>1. t.run = r /\ after = results \union {f} /\ Exact(r, e, tasks)
    BY <1>5, <1>10 DEF Exact
  <2>2. Counted(e, results) /\ InPhase(cfg, e, fd) /\ IsFiniteSet(results)
    BY <1>2, <1>10 DEF Recorded
  <2>3. \A kind \in Kinds : t.kind = kind => Cardinality(OfKind(tasks, kind)) \in Nat \ {0}
    <3> SUFFICES ASSUME NEW kind \in Kinds, t.kind = kind
                 PROVE  Cardinality(OfKind(tasks, kind)) \in Nat \ {0}
      OBVIOUS
    <3>1. IsFiniteSet(OfKind(tasks, kind)) /\ OfKind(tasks, kind) # {}
      BY <1>1, FS_Subset DEF OfKind
    <3> QED BY <3>1, FS_CardinalityType, FS_EmptySet
  <2>4. /\ t.kind = "transfer" => e.active_transfers > 0
        /\ t.kind = "delete" => e.active_deletes > 0
    BY <2>1, <2>3 DEF Exact, Kinds
  <2>5. /\ \A k \in BOOLEAN :
             /\ Cardinality(TransfersOf(results, k)) \in Nat
             /\ Cardinality(TransfersOf(after, k))
                  = Cardinality(TransfersOf(results, k))
                      + (IF t.kind = "transfer" /\ ok = k THEN 1 ELSE 0)
        /\ \A kind \in Kinds :
             FailedOf(kind, after) <=> FailedOf(kind, results) \/ (t.kind = kind /\ ~ok)
    BY <1>6, <2>1, <2>2, ResultAdded
  <2>6. CASE t.kind = "transfer"
    <3>1. x = AfterTransfer(e, ok)
      BY <1>4, <2>6
    <3>2. FailedOf("delete", after) <=> fd
      BY <2>5, <2>6 DEF Kinds
    <3>3. InPhase(cfg, x, fd)
      BY <1>1, <1>3, <2>2, <2>4, <2>6, <3>1, InPhaseReported
    <3>4. InPhase(cfg, x, FailedOf("delete", after))
      BY <3>2, <3>3 DEF InPhase, StoppedRight
    <3>5. /\ x.transfer_failed = (e.transfer_failed \/ ~ok)
          /\ x.completed_transfers = e.completed_transfers + (IF ok THEN 1 ELSE 0)
          /\ x.failed_transfers = e.failed_transfers + (IF ok THEN 0 ELSE 1)
      BY <1>1, <3>1, AfterTransferFields
    <3>6. FailedOf("transfer", after) <=> FailedOf("transfer", results) \/ ~ok
      BY <2>5, <2>6 DEF Kinds
    <3>7. /\ Cardinality(TransfersOf(after, TRUE))
               = Cardinality(TransfersOf(results, TRUE)) + (IF ok THEN 1 ELSE 0)
          /\ Cardinality(TransfersOf(after, FALSE))
               = Cardinality(TransfersOf(results, FALSE)) + (IF ok THEN 0 ELSE 1)
      BY <2>5, <2>6
    <3>8. Counted(x, after)
      BY <2>2, <3>5, <3>6, <3>7 DEF Counted
    <3> QED BY <3>4, <3>8
  <2>7. CASE t.kind = "delete"
    <3>1. x = AfterDelete(e, ok)
      BY <1>4, <2>7
    <3>2. FailedOf("delete", after) <=> fd \/ ~ok
      BY <2>5, <2>7 DEF Kinds
    <3>3. InPhase(cfg, x, fd \/ ~ok)
      BY <1>1, <1>3, <2>2, <2>4, <2>7, <3>1, InPhaseReported
    <3>4. InPhase(cfg, x, FailedOf("delete", after))
      BY <3>2, <3>3 DEF InPhase, StoppedRight
    <3>5. /\ x.transfer_failed = e.transfer_failed
          /\ x.completed_transfers = e.completed_transfers
          /\ x.failed_transfers = e.failed_transfers
      BY <1>1, <3>1, AfterDeleteFields
    <3>6. FailedOf("transfer", after) <=> FailedOf("transfer", results)
      BY <2>5, <2>7 DEF Kinds
    <3>7. /\ Cardinality(TransfersOf(after, TRUE)) = Cardinality(TransfersOf(results, TRUE))
          /\ Cardinality(TransfersOf(after, FALSE)) = Cardinality(TransfersOf(results, FALSE))
      <4>1. ASSUME NEW k \in BOOLEAN
            PROVE  Cardinality(TransfersOf(after, k)) = Cardinality(TransfersOf(results, k))
        <5>1. /\ Cardinality(TransfersOf(results, k)) \in Nat
              /\ Cardinality(TransfersOf(after, k)) = Cardinality(TransfersOf(results, k)) + 0
          BY <2>5, <2>7
        <5> QED BY <5>1
      <4> QED BY <4>1
    <3>8. Counted(x, after)
      BY <2>2, <3>5, <3>6, <3>7 DEF Counted
    <3> QED BY <3>4, <3>8
  <2> QED BY <1>1, <2>6, <2>7 DEF Kinds
<1>11. x.phase # "None"
  BY <1>4
<1> QED BY <1>8, <1>9, <1>10, <1>11 DEF RunInv, x, after

\* NewRunFits: a new run has nothing done, in the first phase of its configuration.
LEMMA NewRunFits ==
  ASSUME cfg \in Config, run_plan \in RunPlan, NEW first, NEW r \in Nat, NEW tasks,
         NEW met \in BOOLEAN,
         \/ first = "Copying" /\ cfg.mode = "Copy"
         \/ first = FirstPhase /\ cfg.mode = "Sync"
  PROVE  RunInv(cfg, r, NewExecution(run_plan, first), tasks, {}, met)
<1> DEFINE e == NewExecution(run_plan, first)
<1>1. /\ cfg.delete_phase \in DeletePhases
      /\ first \in Active \union {"None"}
  BY DEF Config, FirstPhase, Active
<1>2. /\ e.phase = first /\ e.plan = run_plan
      /\ e.next_transfer = 0 /\ e.next_delete = 0
      /\ e.active_transfers = 0 /\ e.active_deletes = 0
      /\ e.completed_transfers = 0 /\ e.failed_transfers = 0
      /\ e.transfer_failed = FALSE
  BY <1>1, NewExecutionFields
<1> HIDE DEF e
<1>3. /\ first = "DeletingBefore" => cfg.delete_phase = "Before" /\ Wanted(cfg, e)
      /\ first = "DeletingDuring" => cfg.delete_phase = "During" /\ Wanted(cfg, e)
      /\ first = "Copying" /\ Wanted(cfg, e) => cfg.delete_phase = "After"
      /\ first \in {"Copying", "DeletingBefore", "DeletingDuring"}
      /\ cfg.mode = "Copy" => first = "Copying"
  BY <1>1, <1>2 DEF FirstPhase, Wanted, DeletePhases
<1>4. Recorded(r, e, tasks, {})
  BY <1>2, FS_EmptySet DEF Recorded
<1>5. Counted(e, {})
  <2>1. TransfersOf({}, TRUE) = {} /\ TransfersOf({}, FALSE) = {} /\ ~FailedOf("transfer", {})
    BY DEF TransfersOf, FailedOf
  <2> QED BY <1>2, <2>1, FS_EmptySet DEF Counted
<1>6. OnlyCopies(cfg, e)
  BY <1>2, <1>3 DEF OnlyCopies
<1>7. InPhase(cfg, e, FailedOf("delete", {}))
  <2>1. ~FailedOf("delete", {})
    BY DEF FailedOf
  <2>2. StoppedRight(cfg, e, FailedOf("delete", {}))
    BY <1>2, <1>3, <2>1 DEF StoppedRight
  <2>3. PhaseRight(cfg, e)
    BY <1>2, <1>3 DEF PhaseRight
  <2> QED BY <2>2, <2>3 DEF InPhase
<1> QED BY <1>4, <1>5, <1>6, <1>7 DEF RunInv, e

-----------------------------------------------------------------------------
(* The invariant of the specification *)

PlanInv ==
  /\ run_plan.some => run_plan \in Plans
  /\ delete_confirm => cfg.mode = "Sync"

RInv == PlanInv /\ RunInv(cfg, runs, execution, inflight, finished, mixed)

\* StartKeepsRun: so does the start of a run, or of none.
LEMMA StartKeepsRun ==
  ASSUME IInv, RInv, NEW first, StartRun(first), UNCHANGED cfg,
         \/ first = "Copying" /\ cfg.mode = "Copy"
         \/ first = FirstPhase /\ cfg.mode = "Sync"
  PROVE  RunInv(cfg', runs', execution', inflight', finished', mixed')
<1>1. /\ TypeOK /\ runs \in Nat /\ mixed \in BOOLEAN /\ cfg \in Config /\ run_plan \in RunPlan
      /\ Progress(runs, execution, inflight)
      /\ RunInv(cfg, runs, execution, inflight, finished, mixed)
  BY DEF IInv, EngineInv, TypeOK, RInv
<1>2. CASE ~run_plan.some
  <2>1. Dispatch(runs, execution, inflight) /\ UNCHANGED <<runs, mixed, finished>>
    BY <1>2 DEF StartRun
  <2> QED BY <1>1, <2>1, DispatchKeepsRun
<1>3. CASE run_plan.some
  <2> DEFINE e == NewExecution(run_plan, first)
             met == mixed \/ inflight # {}
  <2>1. /\ runs' = runs + 1 /\ mixed' = met /\ finished' = {}
        /\ Dispatch(runs + 1, e, inflight)
    BY <1>3 DEF StartRun
  <2>2. met \in BOOLEAN /\ runs + 1 \in Nat
    BY <1>1
  <2> HIDE DEF met
  <2>3. RunInv(cfg, runs + 1, e, inflight, {}, met)
    BY <1>1, <2>2, NewRunFits
  <2>4. Progress(runs + 1, e, inflight)
    BY NewRunProgress, <1>1 DEF FirstPhase
  <2> HIDE DEF e
  <2>5. RunInv(cfg, runs + 1, execution', inflight', {}, met)
    BY <1>1, <2>1, <2>2, <2>3, <2>4, DispatchKeepsRun
  <2> QED BY <2>1, <2>5
<1> QED BY <1>2, <1>3

LEMMA NextRInv ==
  ASSUME IInv, RInv, [Next]_vars
  PROVE  RInv'
<1> USE DEF history
<1>1. /\ TypeOK /\ runs \in Nat /\ mixed \in BOOLEAN /\ cfg \in Config
      /\ Progress(runs, execution, inflight)
      /\ ~mixed => Exact(runs, execution, inflight)
      /\ RunInv(cfg, runs, execution, inflight, finished, mixed) /\ PlanInv
  BY DEF IInv, EngineInv, TypeOK, RInv
<1>2. DropExecution => RunInv(cfg', runs', execution', inflight', finished', mixed')
  BY NoExecutionType DEF DropExecution, RunInv
<1>3. ~NoPlan.some
  BY DEF NoPlan
<1>4. CASE OpenSync \/ ChangeConfig \/ StartSyncPlan
  <2>1. DropExecution /\ run_plan' = NoPlan /\ delete_confirm' = FALSE
    BY <1>4 DEF OpenSync, ChangeConfig, StartSyncPlan
  <2> QED BY <1>2, <1>3, <2>1 DEF RInv, PlanInv
<1>5. CASE ChangeTransferWorkers
  <2>1. PICK w \in TransferWorkerTexts : cfg' = [cfg EXCEPT !.transfer_workers = w]
    BY <1>5 DEF ChangeTransferWorkers
  <2>2. /\ cfg'.mode = cfg.mode /\ cfg'.delete_phase = cfg.delete_phase
        /\ cfg'.ignore_errors = cfg.ignore_errors
    BY <1>1, <2>1 DEF Config
  <2>3. UNCHANGED <<run_plan, delete_confirm, execution, inflight, finished, runs, mixed>>
    BY <1>5 DEF ChangeTransferWorkers
  <2>4. PlanInv'
    BY <1>1, <2>2, <2>3 DEF PlanInv
  <2>5. RunInv(cfg', runs, execution, inflight, finished, mixed)
    BY <1>1, <2>2 DEF RunInv, OnlyCopies, InPhase, StoppedRight, PhaseRight, Wanted
  <2> QED BY <2>3, <2>4, <2>5 DEF RInv
<1>6. CASE SyncPlanBuilt
  <2>1. UNCHANGED <<cfg, delete_confirm, execution, inflight, finished, runs, mixed>>
    BY <1>6 DEF SyncPlanBuilt
  <2>2. run_plan' \in Plans \union {NoPlan, run_plan}
    BY <1>6 DEF SyncPlanBuilt
  <2>3. PlanInv'
    BY <1>1, <1>3, <2>1, <2>2 DEF PlanInv
  <2> QED BY <1>1, <2>1, <2>3 DEF RInv
<1>7. CASE StartSyncCopy
  <2>1. PlanInv'
    BY <1>1, <1>7 DEF StartSyncCopy, PlanInv
  <2> QED BY <1>7, <2>1, StartKeepsRun DEF StartSyncCopy, RInv
<1>8. CASE StartSync
  <2>1. PlanInv' /\ UNCHANGED cfg /\ cfg.mode = "Sync"
    BY <1>1, <1>8 DEF StartSync, PlanInv
  <2>2. CASE StartRun(FirstPhase)
    BY <2>1, <2>2, StartKeepsRun DEF RInv
  <2>3. CASE UNCHANGED <<execution, inflight, finished, runs, mixed>>
    BY <1>1, <2>1, <2>3 DEF RInv
  <2> QED BY <1>8, <2>2, <2>3 DEF StartSync
<1>9. CASE CancelSyncDeleteConfirm
  BY <1>1, <1>9 DEF CancelSyncDeleteConfirm, RInv, PlanInv
<1>10. CASE ConfirmSyncDeleteRun
  <2>1. PlanInv' /\ UNCHANGED cfg /\ cfg.mode = "Sync"
    BY <1>1, <1>10 DEF ConfirmSyncDeleteRun, PlanInv
  <2> QED BY <1>10, <2>1, StartKeepsRun DEF ConfirmSyncDeleteRun, RInv
<1>11. CASE Completion
  <2>1. PICK t \in inflight, ok \in BOOLEAN : TaskFinished(t, ok)
    BY <1>11 DEF Completion
  <2> DEFINE x == Reported(execution, t, ok)
             after == Results(runs, execution, t, ok, finished)
  <2>2. /\ UNCHANGED <<cfg, run_plan, delete_confirm, runs, mixed>>
        /\ finished' = after
        /\ Dispatch(runs, x, inflight \ {t})
    BY <2>1 DEF TaskFinished, Reported, Results
  <2>3. Progress(runs, x, inflight \ {t}) /\ RunInv(cfg, runs, x, inflight \ {t}, after, mixed)
    <3>1. CASE execution.phase = "None"
      <4>1. x = execution /\ IsFiniteSet(inflight \ {t})
        BY <1>1, <3>1, FS_RemoveElement DEF Reported, Progress
      <4> QED BY <1>1, <3>1, <4>1 DEF Progress, RunInv
    <3>2. CASE execution.phase # "None"
      <4>1. Progress(runs, x, inflight \ {t})
        BY <1>1, <3>2, ReportProgress DEF Reported, Config
      <4>2. RunInv(cfg, runs, x, inflight \ {t}, after, mixed)
        BY <1>1, <3>2, ReportKeepsRun
      <4> QED BY <4>1, <4>2
    <3> QED BY <3>1, <3>2
  <2> HIDE DEF x, after
  <2>4. RunInv(cfg, runs, execution', inflight', after, mixed)
    BY <1>1, <2>2, <2>3, DispatchKeepsRun
  <2>5. PlanInv'
    BY <1>1, <2>2 DEF PlanInv
  <2> QED BY <2>2, <2>4, <2>5 DEF RInv
<1>12. CASE UNCHANGED vars
  BY <1>1, <1>12 DEF vars, RInv, PlanInv
<1> QED BY <1>4, <1>5, <1>6, <1>7, <1>8, <1>9, <1>10, <1>11, <1>12 DEF Next, User

-----------------------------------------------------------------------------
(* How the execution stands is how the run it stands for stands *)

LEMMA StatusCases ==
  /\ execution.phase \in Active => Status = "going"
  /\ execution.phase = "Done" => Status = "done"
  /\ execution.phase = "Stopped" => Status = "stopped"
  /\ execution.phase = "None" => Status = "none"
BY DEF Status, Active

LEMMA MappedTasks ==
  /\ Present => Waiting = Left(runs, execution) /\ Going = Mine(runs, inflight)
                  /\ Older = inflight \ Mine(runs, inflight)
  /\ ~Present => Waiting = {} /\ Going = {} /\ Older = inflight
<1>1. Present => Waiting = Left(runs, execution)
  BY DEF Waiting, NotStarted, Left
<1>2. ~Present => Waiting = {}
  BY DEF Waiting, NotStarted
<1> QED BY <1>1, <1>2 DEF Going, Older, Mine

\* RunIsWanted: a run has deletes, to start, in flight or ended, if they were wanted.
LEMMA RunIsWanted ==
  ASSUME NEW r \in Nat, NEW e, NEW tasks, NEW results, e.phase # "None",
         Progress(r, e, tasks), Recorded(r, e, tasks, results), OnlyCopies(cfg, e)
  PROVE  /\ Run!HasDeletes(Left(r, e) \union Mine(r, tasks), results) <=> Wanted(cfg, e)
         /\ ~Wanted(cfg, e) => \A t \in Left(r, e) : t.kind = "transfer"
         /\ \A t \in Left(r, e) : t.run = r /\ t.kind \in Kinds
<1>1. /\ e.next_transfer \in Nat /\ e.next_delete \in Nat
      /\ e.plan.transfers \in Nat /\ e.plan.deletes \in Nat
      /\ e.next_delete <= e.plan.deletes
  BY DEF Progress, Execution, RunPlan
<1>2. \A t \in Left(r, e) :
        /\ t.run = r /\ t.kind \in Kinds
        /\ t.kind = "delete" => cfg.mode # "Copy" /\ e.next_delete < e.plan.deletes
  BY <1>1 DEF Left, Kinds
<1>3. \A t \in Mine(r, tasks) : t.kind = "delete" => e.next_delete > 0
  BY <1>1 DEF Progress, Mine, OfKind, Task
<1>4. \A f \in results : f.task.kind = "delete" => e.next_delete > 0
  BY <1>1 DEF Recorded, Task
<1>5. e.next_delete > 0 => Wanted(cfg, e)
  BY <1>1 DEF OnlyCopies, Wanted
<1>6. e.next_delete < e.plan.deletes /\ cfg.mode # "Copy" =>
        Wanted(cfg, e) /\ \E t \in Left(r, e) : t.kind = "delete"
  <2> SUFFICES ASSUME e.next_delete < e.plan.deletes, cfg.mode # "Copy"
               PROVE  Wanted(cfg, e) /\ \E t \in Left(r, e) : t.kind = "delete"
    OBVIOUS
  <2>1. [run |-> r, kind |-> "delete", item |-> e.next_delete] \in Left(r, e)
    BY <1>1 DEF Left
  <2> QED BY <1>1, <2>1 DEF Wanted
<1>7. e.next_delete > 0 => \/ \E t \in Mine(r, tasks) : t.kind = "delete"
                           \/ \E f \in results : f.task.kind = "delete"
  BY DEF Recorded, Mine
<1>8. ASSUME Wanted(cfg, e)
      PROVE  \/ \E t \in Left(r, e) \union Mine(r, tasks) : t.kind = "delete"
             \/ \E f \in results : f.task.kind = "delete"
  BY <1>1, <1>6, <1>7, <1>8 DEF Wanted
<1>9. ASSUME \/ \E t \in Left(r, e) \union Mine(r, tasks) : t.kind = "delete"
             \/ \E f \in results : f.task.kind = "delete"
      PROVE  Wanted(cfg, e)
  BY <1>1, <1>2, <1>3, <1>4, <1>5, <1>6, <1>9
<1>10. Run!HasDeletes(Left(r, e) \union Mine(r, tasks), results)
         <=> \/ \E t \in Left(r, e) \union Mine(r, tasks) : t.kind = "delete"
             \/ \E f \in results : f.task.kind = "delete"
  BY DEF Run!HasDeletes, Run!Of
<1>11. ~Wanted(cfg, e) => \A t \in Left(r, e) : t.kind = "transfer"
  BY <1>2, <1>6 DEF Kinds
<1> QED BY <1>2, <1>8, <1>9, <1>10, <1>11

\* HaltedIsStopped: a run halts exactly when its execution is stopped.
LEMMA HaltedIsStopped ==
  ASSUME NEW r \in Nat, NEW e, NEW tasks, NEW results, NEW left, e.phase # "None",
         cfg \in Config, Counted(e, results), InPhase(cfg, e, FailedOf("delete", results)),
         Run!HasDeletes(left, results) <=> Wanted(cfg, e)
  PROVE  Run!Halted(left, results) <=> e.phase = "Stopped"
<1>1. /\ Run!Failed("delete", results) <=> FailedOf("delete", results)
      /\ Run!Failed("transfer", results) <=> e.transfer_failed
  BY DEF Run!Failed, FailedOf, Counted
<1>2. Policy.ignore_errors = cfg.ignore_errors /\ Policy.delete_phase = cfg.delete_phase
  BY DEF Policy
<1>3. Run!Halted(left, results) <=>
        /\ ~cfg.ignore_errors
        /\ \/ FailedOf("delete", results)
           \/ cfg.delete_phase = "During" /\ Wanted(cfg, e) /\ e.transfer_failed
  BY <1>1, <1>2 DEF Run!Halted
<1> QED BY <1>3 DEF InPhase, StoppedRight

\* SameCardinality: the instance has its own copy of the module of finite sets.
LEMMA SameCardinality == \A S : Run!Cardinality(S) = Cardinality(S)
BY DEF Run!Cardinality, Cardinality

\* StandingHolds: the status, the report and the promise to go on are as SyncRun says.
LEMMA StandingHolds == IInv /\ RInv /\ Present => Run!Standing
<1> SUFFICES ASSUME IInv, RInv, Present PROVE Run!Standing
  OBVIOUS
<1> DEFINE e == execution
<1>1. /\ e.phase # "None" /\ e \in Execution /\ runs \in Nat /\ cfg \in Config
      /\ mixed \in BOOLEAN /\ inflight \subseteq Task /\ IsFiniteSet(inflight)
      /\ Progress(runs, e, inflight) /\ Busy(e)
  BY DEF Present, IInv, EngineInv, TypeOK
<1>2. Recorded(runs, e, inflight, finished) /\ OnlyCopies(cfg, e)
  BY <1>1 DEF RInv, RunInv
<1>3. /\ Waiting = Left(runs, e) /\ Going = Mine(runs, inflight)
      /\ Going \union Older = inflight
  BY MappedTasks DEF Mine
<1>4. e.phase \in Active \union {"Done", "Stopped"}
  BY <1>1 DEF Execution, Terminal
<1>5. e.phase \in Active => inflight # {}
  <2> SUFFICES ASSUME e.phase \in Active, inflight = {} PROVE FALSE
    OBVIOUS
  <2>1. OfKind(inflight, "transfer") = {} /\ OfKind(inflight, "delete") = {}
    BY DEF OfKind
  <2>2. /\ e.active_transfers <= 0 /\ e.active_deletes <= 0
        /\ e.active_transfers \in Nat /\ e.active_deletes \in Nat
    BY <1>1, <2>1, FS_EmptySet DEF Progress, Execution
  <2> QED BY <1>1, <2>2 DEF Busy
<1>6. Status = "going" => Going \union Older # {}
  BY <1>3, <1>4, <1>5, StatusCases
<1>7. CASE mixed
  <2>1. Status \in {"going", "done", "stopped"}
    BY <1>4, StatusCases
  <2> QED BY <1>6, <1>7, <2>1 DEF Run!Standing
<1>8. CASE ~mixed
  <2>1. /\ Counted(e, finished) /\ InPhase(cfg, e, FailedOf("delete", finished))
        /\ Exact(runs, e, inflight)
    BY <1>1, <1>8 DEF RInv, RunInv, IInv, EngineInv
  <2>2. Report = [copied |-> Run!Cardinality(Run!Transfers(finished, TRUE)),
                  failed |-> Run!Cardinality(Run!Transfers(finished, FALSE))]
    BY <2>1, SameCardinality DEF Report, Counted, TransfersOf, Run!Transfers
  <2>3. /\ Run!HasDeletes(Waiting \union Going, finished) <=> Wanted(cfg, e)
        /\ ~Wanted(cfg, e) => \A t \in Waiting : t.kind = "transfer"
        /\ \A t \in Waiting : t.kind \in Kinds
    BY <1>1, <1>2, <1>3, RunIsWanted
  <2>4. Run!Halted(Waiting \union Going, finished) <=> e.phase = "Stopped"
    BY <1>1, <2>1, <2>3, HaltedIsStopped
  <2>5. ASSUME e.phase \in Active PROVE ~Run!Complete
    <3>1. e.active_transfers > 0 \/ e.active_deletes > 0
      BY <1>1, <2>5 DEF Busy, Execution
    <3>2. OfKind(inflight, "transfer") # {} \/ OfKind(inflight, "delete") # {}
      BY <1>1, <2>1, <3>1, FS_EmptySet DEF Exact
    <3>3. Mine(runs, inflight) # {}
      BY <1>1, <2>1, <3>2 DEF Exact, Mine, OfKind
    <3> QED BY <1>3, <3>3 DEF Run!Complete
  <2>6. ASSUME e.phase = "Done" PROVE Run!Complete
    <3>1. /\ TransfersDone(e) /\ e.active_deletes = 0
          /\ Wanted(cfg, e) => DeletesDone(e) \/ (e.transfer_failed /\ ~cfg.ignore_errors)
      BY <2>1, <2>6 DEF InPhase, PhaseRight
    <3>2. IsFiniteSet(OfKind(inflight, "transfer")) /\ IsFiniteSet(OfKind(inflight, "delete"))
      BY <1>1, FS_Subset DEF OfKind
    <3>3. OfKind(inflight, "transfer") = {} /\ OfKind(inflight, "delete") = {}
      BY <1>1, <2>1, <3>1, <3>2, FS_EmptySet DEF Exact, TransfersDone
    <3>4. Going = {}
      BY <1>1, <1>3, <3>3 DEF Mine, OfKind, Task, Kinds
    <3>5. /\ e.next_transfer \in Nat /\ e.next_delete \in Nat
          /\ e.plan.transfers \in Nat /\ e.plan.deletes \in Nat
      BY <1>1 DEF Execution, RunPlan
    <3>6. Run!Of("transfer", Waiting) = {}
      BY <1>3, <3>1, <3>5 DEF Left, TransfersDone, Run!Of
    <3>7. DeletesDone(e) => Waiting = {}
      BY <1>3, <3>1, <3>5 DEF Left, TransfersDone, DeletesDone
    <3>8. ~Wanted(cfg, e) => Waiting = {}
      BY <2>3, <3>6 DEF Run!Of
    <3>9. Run!Failed("transfer", finished) <=> e.transfer_failed
      BY <2>1 DEF Run!Failed, FailedOf, Counted
    <3>10. Waiting = {} \/ (Run!Failed("transfer", finished) /\ ~Policy.ignore_errors)
      BY <3>1, <3>7, <3>8, <3>9 DEF Policy
    <3> QED BY <3>4, <3>6, <3>10 DEF Run!Complete
  <2>7. Status = IF Run!Halted(Waiting \union Going, finished) THEN "stopped"
                 ELSE IF Run!Complete THEN "done" ELSE "going"
    <3>1. CASE e.phase = "Stopped"
      BY <2>4, <3>1, StatusCases
    <3>2. CASE e.phase = "Done"
      BY <2>4, <2>6, <3>2, StatusCases
    <3>3. CASE e.phase \in Active
      <4>1. e.phase # "Stopped"
        BY <3>3 DEF Active
      <4> QED BY <2>4, <2>5, <3>3, <4>1, StatusCases
    <3> QED BY <1>4, <3>1, <3>2, <3>3
  <2> QED BY <1>6, <1>8, <2>2, <2>7 DEF Run!Standing
<1> QED BY <1>7, <1>8

-----------------------------------------------------------------------------
(* The steps *)

\* SettleStays: what is over stays over, and only what goes on can go on.
LEMMA SettleStays ==
  ASSUME NEW e \in Execution
  PROVE  /\ e.phase \in Terminal => Settle(e).phase = e.phase
         /\ Settle(e).phase \in Active => e.phase \in Active
<1>1. /\ LeaveBefore(e) \in Execution
      /\ e.phase \in Terminal \union {"None"} => LeaveBefore(e) = e
  BY LeaveBeforeType DEF LeaveBefore, Terminal
<1>2. e.phase \in Terminal \union {"None"} => LeaveCopying(e) = e
  BY DEF LeaveCopying, Terminal
<1>3. e.phase \in Terminal \union {"None"} => LeaveDeleting(e) = e
  BY DEF LeaveDeleting, Terminal
<1>4. e.phase \in Terminal \union {"None"} => Settle(e) = e
  BY <1>1, <1>2, <1>3 DEF Settle
<1>5. e.phase \in Active \union Terminal \union {"None"}
  BY DEF Execution
<1> QED BY <1>4, <1>5 DEF Active, Terminal

\* OrderlyFresh: what a settled execution spawns may start.
LEMMA OrderlyFresh ==
  ASSUME TypeOK, NEW r \in Nat, NEW s, NEW tasks, NEW results, s.phase # "None",
         Progress(r, s, tasks), Exact(r, s, tasks), Recorded(r, s, tasks, results),
         OnlyCopies(cfg, s), Counted(s, results),
         InPhase(cfg, s, FailedOf("delete", results)),
         Spawned(r, s) # {} \/ results = {}
  PROVE  Run!Orderly(Spawned(r, s), (Left(r, s) \ Spawned(r, s)) \union Mine(r, tasks), results)
<1> DEFINE fresh == Spawned(r, s)
           rest == (Left(r, s) \ fresh) \union Mine(r, tasks)
<1>1. /\ s \in Execution /\ cfg \in Config /\ tasks \subseteq Task /\ IsFiniteSet(tasks)
      /\ s.next_transfer <= s.plan.transfers /\ s.next_delete <= s.plan.deletes
  BY DEF Progress, TypeOK
<1>2. /\ fresh \subseteq Left(r, s)
      /\ fresh # {} => s.phase \in Active
      /\ \A t \in fresh :
           /\ t.kind = "transfer" => s.phase \in {"Copying", "DeletingDuring"}
           /\ t.kind = "delete" =>
                s.phase \in {"DeletingBefore", "DeletingDuring", "DeletingAfter"}
  BY <1>1, SpawnedTasks
<1> HIDE DEF fresh
<1>3. fresh \union rest = Left(r, s) \union Mine(r, tasks)
  BY <1>2
<1>4. /\ Run!HasDeletes(fresh \union rest, results) <=> Wanted(cfg, s)
      /\ ~Wanted(cfg, s) => \A t \in Left(r, s) : t.kind = "transfer"
  BY <1>3, RunIsWanted
<1>5. /\ Run!Failed("delete", results) <=> FailedOf("delete", results)
      /\ Run!Failed("transfer", results) <=> s.transfer_failed
  BY DEF Run!Failed, FailedOf, Counted
<1>6. ~Run!Halted(fresh \union rest, results)
  <2>1. CASE fresh # {}
    <3>1. s.phase # "Stopped"
      BY <1>2, <2>1 DEF Active
    <3> QED BY <1>1, <1>4, <3>1, HaltedIsStopped
  <2>2. CASE results = {}
    BY <2>2 DEF Run!Halted, Run!Failed
  <2> QED BY <2>1, <2>2 DEF fresh
<1>7. IsFiniteSet(OfKind(tasks, "transfer")) /\ IsFiniteSet(OfKind(tasks, "delete"))
  BY <1>1, FS_Subset DEF OfKind
<1>8. /\ s.active_transfers = 0 => OfKind(tasks, "transfer") = {}
      /\ s.active_deletes = 0 => OfKind(tasks, "delete") = {}
  BY <1>7, FS_EmptySet DEF Exact
<1>9. /\ s.next_transfer \in Nat /\ s.next_delete \in Nat
      /\ s.plan.transfers \in Nat /\ s.plan.deletes \in Nat
  BY <1>1 DEF Execution, RunPlan
<1>10. ASSUME cfg.delete_phase = "After", Run!Of("delete", fresh) # {}
       PROVE  /\ Run!Of("transfer", fresh \union rest) = {}
              /\ ~Run!Failed("transfer", results) \/ cfg.ignore_errors
  <2>1. PICK t \in fresh : t.kind = "delete"
    BY <1>10 DEF Run!Of
  <2>2. s.phase = "DeletingAfter"
    BY <1>2, <1>10, <2>1 DEF InPhase, PhaseRight
  <2>3. TransfersDone(s) /\ (~s.transfer_failed \/ cfg.ignore_errors)
    BY <2>2 DEF InPhase, PhaseRight
  <2>4. \A u \in Left(r, s) : u.kind # "transfer"
    BY <1>9, <2>3 DEF Left, TransfersDone
  <2>5. \A u \in Mine(r, tasks) : u.kind # "transfer"
    BY <1>8, <2>3 DEF Mine, OfKind, TransfersDone
  <2> QED BY <1>3, <1>5, <2>3, <2>4, <2>5 DEF Run!Of
<1>11. ASSUME cfg.delete_phase = "Before", Run!Of("transfer", fresh) # {}
       PROVE  Run!Of("delete", fresh \union rest) = {}
  <2>1. PICK t \in fresh : t.kind = "transfer"
    BY <1>11 DEF Run!Of
  <2>2. s.phase = "Copying"
    BY <1>2, <1>11, <2>1 DEF InPhase, PhaseRight
  <2>3. /\ Wanted(cfg, s) => DeletesDone(s)
        /\ s.active_deletes = 0
    BY <1>11, <2>2 DEF InPhase, PhaseRight, DeletesDone
  <2>4. \A u \in Left(r, s) : u.kind # "delete"
    <3>1. CASE Wanted(cfg, s)
      BY <1>9, <2>3, <3>1 DEF Left, DeletesDone
    <3>2. CASE ~Wanted(cfg, s)
      BY <1>4, <3>2
    <3> QED BY <3>1, <3>2
  <2>5. \A u \in Mine(r, tasks) : u.kind # "delete"
    BY <1>8, <2>3 DEF Mine, OfKind
  <2> QED BY <1>3, <2>4, <2>5 DEF Run!Of
<1>12. Policy.ignore_errors = cfg.ignore_errors /\ Policy.delete_phase = cfg.delete_phase
  BY DEF Policy
<1> QED BY <1>6, <1>10, <1>11, <1>12 DEF Run!Orderly, fresh

\* StandingNext: the same after a step.
LEMMA StandingNext == IInv' /\ RInv' /\ Present' => Run!Standing'
BY StandingHolds, PTL

\* DispatchedTasks: what the tasks are mapped to after a dispatch of execution e of run r.
LEMMA DispatchedTasks ==
  ASSUME TypeOK, NEW r \in Nat, NEW e, NEW tasks, e.phase # "None",
         Progress(r, e, tasks), OnlyCopies(cfg, e), Dispatch(r, e, tasks),
         runs' = r, UNCHANGED cfg
  PROVE  /\ Present'
         /\ execution'.phase = Settle(e).phase
         /\ Spawned(r, Settle(e)) \subseteq Left(r, e)
         /\ Left(r, Settle(e)) = Left(r, e)
         /\ Spawned(r, Settle(e)) # {} => Settle(e).phase \in Active
         /\ Waiting' = Left(r, e) \ Spawned(r, Settle(e))
         /\ Going' = Mine(r, tasks) \union Spawned(r, Settle(e))
         /\ Older' = tasks \ Mine(r, tasks)
<1> DEFINE s == Settle(e)
           a == AfterSpawn(s)
           fresh == Spawned(r, s)
<1>1. /\ e \in Execution /\ cfg \in Config
      /\ e.next_transfer <= e.plan.transfers /\ e.next_delete <= e.plan.deletes
  BY DEF Progress, TypeOK
<1>2. s \in Execution /\ SameProgress(e, s) /\ s.phase # "None"
  BY <1>1, SettleType, SettleBusy
<1>3. OnlyCopies(cfg, s)
  BY <1>1, InPhaseSettled
<1>4. execution' = a /\ inflight' = tasks \union fresh
  BY DEF Dispatch
<1> HIDE DEF s
<1>5. s.next_transfer <= s.plan.transfers /\ s.next_delete <= s.plan.deletes
  BY <1>1, <1>2 DEF SameProgress
<1>6. /\ fresh \subseteq Left(r, s)
      /\ Left(r, a) = Left(r, s) \ fresh
      /\ fresh # {} => s.phase \in Active
      /\ \A t \in fresh : t.run = r
  BY <1>2, <1>3, <1>5, SpawnedTasks
<1>7. a.phase = s.phase
  BY <1>2, <1>5, NewCounts, AfterSpawnFields
<1>8. Left(r, s) = Left(r, e)
  BY <1>2 DEF Left, SameProgress
<1> HIDE DEF a, fresh
<1>9. Present'
  BY <1>2, <1>4, <1>7 DEF Present
<1>10. Waiting' = Left(r, a)
  BY <1>4, <1>9 DEF Waiting, NotStarted, Left
<1>11. /\ Going' = Mine(r, tasks) \union fresh
       /\ Older' = tasks \ Mine(r, tasks)
  BY <1>4, <1>6, <1>9 DEF Going, Older, Mine
<1> QED BY <1>4, <1>6, <1>7, <1>8, <1>9, <1>10, <1>11 DEF s, fresh

\* DispatchMoves: a dispatch moves the run on.
LEMMA DispatchMoves ==
  ASSUME IInv, RInv, IInv', RInv', UNCHANGED <<cfg, runs, mixed>>,
         NEW e, NEW tasks, NEW results,
         execution.phase # "None", Left(runs, e) = Left(runs, execution),
         e.phase \in {execution.phase, "Stopped"},
         execution.phase = "Done" /\ ~mixed => e.phase = "Done",
         Progress(runs, e, tasks), ~mixed => Exact(runs, e, tasks),
         RunInv(cfg, runs, e, tasks, results, mixed),
         Dispatch(runs, e, tasks), finished' = results
  PROVE  Run!Move(Mine(runs, tasks), results)
<1> DEFINE s == Settle(e)
           fresh == Spawned(runs, s)
           rest == (Left(runs, s) \ fresh) \union Mine(runs, tasks)
<1>1. /\ TypeOK /\ runs \in Nat /\ e.phase # "None" /\ e \in Execution /\ cfg \in Config
      /\ execution \in Execution /\ Recorded(runs, e, tasks, results) /\ OnlyCopies(cfg, e)
  BY DEF IInv, TypeOK, Progress, RunInv
<1>2. /\ Present' /\ execution'.phase = s.phase
      /\ fresh \subseteq Left(runs, e)
      /\ Left(runs, s) = Left(runs, e)
      /\ fresh # {} => s.phase \in Active
      /\ Waiting' = Left(runs, e) \ fresh
      /\ Going' = Mine(runs, tasks) \union fresh
  BY <1>1, DispatchedTasks
<1>3. Waiting = Left(runs, e)
  BY MappedTasks DEF Present
<1>4. /\ e.phase \in Terminal => s.phase = e.phase
      /\ s.phase \in Active => e.phase \in Active
      /\ e.phase \in Active => e.phase = execution.phase
  BY <1>1, SettleStays DEF Active
<1>5. fresh # {} => Status = "going"
  BY <1>2, <1>4, StatusCases
<1>6. ~mixed /\ fresh # {} => Run!Orderly(fresh, rest, results)
  <2> SUFFICES ASSUME ~mixed, fresh # {} PROVE Run!Orderly(fresh, rest, results)
    OBVIOUS
  <2>1. /\ Counted(e, results) /\ InPhase(cfg, e, FailedOf("delete", results))
        /\ Exact(runs, e, tasks)
    BY <1>1 DEF RunInv
  <2>2. s \in Execution /\ SameProgress(e, s) /\ s.phase # "None"
    BY <1>1, SettleType, SettleBusy
  <2>3. OnlyCopies(cfg, s) /\ InPhase(cfg, s, FailedOf("delete", results))
    <3>1. FailedOf("delete", results) \in BOOLEAN
      BY DEF FailedOf
    <3> QED BY <1>1, <2>1, <3>1, InPhaseSettled
  <2>4. /\ Progress(runs, s, tasks) /\ Exact(runs, s, tasks)
        /\ Recorded(runs, s, tasks, results) /\ Counted(s, results)
    BY <1>1, <2>1, <2>2 DEF Progress, Exact, Recorded, Counted, SameProgress
  <2> HIDE DEF s
  <2> QED BY <1>1, <2>2, <2>3, <2>4, OrderlyFresh
<1> HIDE DEF s, fresh
<1>7. Run!Standing'
  BY <1>2, StandingNext
<1>8. Status # "none"
  BY <1>1, StatusCases DEF Execution, Terminal
<1>9. Status = "done" => Status' = "done" \/ (mixed /\ Status' = "stopped")
  <2> SUFFICES ASSUME Status = "done"
               PROVE  Status' = "done" \/ (mixed /\ Status' = "stopped")
    OBVIOUS
  <2>1. execution.phase = "Done"
    BY <1>1, StatusCases DEF Execution, Terminal
  <2>2. execution'.phase = "Done" \/ (mixed /\ execution'.phase = "Stopped")
    BY <1>2, <1>4, <2>1 DEF Terminal
  <2> QED BY <2>2 DEF Status, Active
<1>10. Status = "stopped" => Status' = "stopped"
  <2> SUFFICES ASSUME Status = "stopped" PROVE Status' = "stopped"
    OBVIOUS
  <2>1. execution.phase = "Stopped"
    BY <1>1, StatusCases DEF Execution, Terminal
  <2>2. execution'.phase = "Stopped"
    BY <1>2, <1>4, <2>1 DEF Terminal
  <2> QED BY <2>2 DEF Status, Active
<1>11. UNCHANGED <<Policy, runs, mixed>>
  BY DEF Policy
<1>12. /\ fresh \in SUBSET Waiting
       /\ fresh # {} => /\ Status = "going"
                        /\ mixed \/ Run!Orderly(fresh, (Waiting \ fresh) \union Mine(runs, tasks),
                                                results)
       /\ Going' = Mine(runs, tasks) \union fresh
       /\ Waiting' = Waiting \ fresh
  BY <1>2, <1>3, <1>5, <1>6
<1> QED BY <1>7, <1>8, <1>9, <1>10, <1>11, <1>12 DEF Run!Move

\* DropDrops: dropping the execution gives the run up.
LEMMA DropDrops ==
  ASSUME IInv, IInv', DropExecution, UNCHANGED <<inflight, runs, mixed>>
  PROVE  Run!Drop
<1>1. /\ execution'.phase = "None"
      /\ execution'.completed_transfers = 0 /\ execution'.failed_transfers = 0
      /\ finished' = {}
  BY DEF DropExecution, NoExecution, NewExecution
<1>2. /\ Waiting' = {} /\ Going' = {} /\ Older' = inflight
  BY <1>1 DEF Waiting, NotStarted, Going, Older, Present
<1>3. Status' = "none"
  BY <1>1 DEF Status, Active
<1>4. Report' = Run!NoReport
  BY <1>1 DEF Report, Run!NoReport
<1>5. Policy' \in Run!Policies
  BY DEF IInv, TypeOK, Config, Policy, Run!Policies, Modes, DeletePhases
<1>6. Older \union Going = inflight
  BY DEF Older, Going
<1> QED BY <1>1, <1>2, <1>3, <1>4, <1>5, <1>6 DEF Run!Drop

\* StartBegins: starting a run begins it; starting none dispatches the one there is.
LEMMA StartBegins ==
  ASSUME IInv, RInv, IInv', RInv', NEW first, StartRun(first), UNCHANGED cfg,
         \/ first = "Copying" /\ cfg.mode = "Copy"
         \/ first = FirstPhase /\ cfg.mode = "Sync"
  PROVE  [Run!Next]_(Run!vars)
<1>1. /\ TypeOK /\ runs \in Nat /\ mixed \in BOOLEAN /\ cfg \in Config
      /\ execution \in Execution
      /\ Progress(runs, execution, inflight)
      /\ ~mixed => Exact(runs, execution, inflight)
      /\ RunInv(cfg, runs, execution, inflight, finished, mixed)
  BY DEF IInv, EngineInv, TypeOK, RInv
<1>2. CASE ~run_plan.some
  <2>1. Dispatch(runs, execution, inflight) /\ UNCHANGED <<runs, mixed, finished>>
    BY <1>2 DEF StartRun
  <2>2. CASE execution.phase = "None"
    <3>1. UNCHANGED <<execution, inflight>>
      BY <2>1, <2>2 DEF Dispatch
    <3> QED BY <2>1, <3>1 DEF Run!vars, Policy, Status, Waiting, NotStarted, Present, Going,
                              Older, Report
  <2>3. CASE execution.phase # "None"
    <3>1. Run!Move(Mine(runs, inflight), finished)
      BY <1>1, <2>1, <2>3, DispatchMoves
    <3>2. Going = Mine(runs, inflight) /\ Older = inflight \ Mine(runs, inflight)
      BY <2>3, MappedTasks DEF Present
    <3>3. Older' = Older
      BY <1>1, <2>1, <2>3, <3>2, DispatchedTasks DEF RunInv
    <3> QED BY <3>1, <3>2, <3>3 DEF Run!Next, Run!Continue
  <2> QED BY <2>2, <2>3
<1>3. CASE run_plan.some
  <2> DEFINE r == runs + 1
             e == NewExecution(run_plan, first)
             s == Settle(e)
             fresh == Spawned(r, s)
  <2>1. /\ runs' = r /\ mixed' = (mixed \/ inflight # {}) /\ finished' = {}
        /\ Dispatch(r, e, inflight)
    BY <1>3 DEF StartRun
  <2>2. /\ run_plan \in RunPlan /\ run_plan \in Plans /\ r \in Nat
        /\ first \in {"Copying", "DeletingBefore", "DeletingDuring"}
    BY <1>1, <1>3 DEF TypeOK, RInv, PlanInv, FirstPhase
  <2>3. Progress(r, e, inflight)
    BY <2>2, NewRunProgress
  <2>4. RunInv(cfg, r, e, inflight, {}, mixed')
    BY <1>1, <2>1, <2>2, NewRunFits
  <2>5. /\ e \in Execution /\ e.phase = first /\ e.plan = run_plan
        /\ e.next_transfer = 0 /\ e.next_delete = 0
        /\ e.active_transfers = 0 /\ e.active_deletes = 0
    BY <2>2, NewExecutionFields DEF Active
  <2> HIDE DEF e
  <2>6. e.phase # "None"
    BY <2>2, <2>5
  <2>7. Run!TasksOf(r, run_plan) = Left(r, e)
    BY <2>5 DEF Run!TasksOf, Left, Policy
  <2>8. Mine(r, inflight) = {}
    BY <1>1 DEF Mine, Progress, Task
  <2>9. /\ Present'
        /\ fresh \subseteq Left(r, e) /\ Left(r, s) = Left(r, e)
        /\ Waiting' = Left(r, e) \ fresh
        /\ Going' = fresh
        /\ Older' = inflight
    <3>1. OnlyCopies(cfg, e)
      BY <2>4, <2>6 DEF RunInv
    <3>2. runs' = r /\ UNCHANGED cfg /\ r \in Nat /\ Dispatch(r, e, inflight)
      BY <2>1, <2>2
    <3> HIDE DEF r
    <3>3. /\ Present'
          /\ fresh \subseteq Left(r, e)
          /\ Left(r, s) = Left(r, e)
          /\ Waiting' = Left(r, e) \ fresh
          /\ Going' = Mine(r, inflight) \union fresh
          /\ Older' = inflight \ Mine(r, inflight)
      BY <1>1, <2>3, <2>6, <3>1, <3>2, DispatchedTasks
    <3> HIDE DEF s, fresh
    <3> QED BY <2>8, <3>3
  <2>10. ~mixed' => Run!Orderly(fresh, Left(r, e) \ fresh, {})
    <3> SUFFICES ASSUME ~mixed' PROVE Run!Orderly(fresh, Left(r, e) \ fresh, {})
      OBVIOUS
    <3>1. inflight = {}
      BY <2>1
    <3>2. OfKind(inflight, "transfer") = {} /\ OfKind(inflight, "delete") = {}
      BY <3>1 DEF OfKind
    <3>3. Exact(r, e, inflight)
      BY <2>5, <3>1, <3>2, FS_EmptySet DEF Exact
    <3>4. /\ Recorded(r, e, inflight, {}) /\ OnlyCopies(cfg, e)
          /\ Counted(e, {}) /\ InPhase(cfg, e, FailedOf("delete", {}))
      BY <2>4, <2>6 DEF RunInv
    <3>5. s \in Execution /\ SameProgress(e, s) /\ s.phase # "None"
      BY <2>5, <2>6, SettleType, SettleBusy
    <3>6. OnlyCopies(cfg, s) /\ InPhase(cfg, s, FailedOf("delete", {}))
      <4>1. FailedOf("delete", {}) \in BOOLEAN
        BY DEF FailedOf
      <4> QED BY <1>1, <2>5, <3>4, <4>1, InPhaseSettled
    <3>7. /\ Progress(r, s, inflight) /\ Exact(r, s, inflight)
          /\ Recorded(r, s, inflight, {}) /\ Counted(s, {})
      BY <2>3, <2>6, <3>3, <3>4, <3>5
         DEF Progress, Exact, Recorded, Counted, SameProgress
    <3> HIDE DEF s
    <3>8. Run!Orderly(fresh, (Left(r, s) \ fresh) \union Mine(r, inflight), {})
      BY <1>1, <2>2, <3>5, <3>6, <3>7, OrderlyFresh
    <3> QED BY <2>8, <2>9, <3>8
  <2> HIDE DEF s, fresh
  <2>11. Run!Standing'
    BY <2>9, StandingNext
  <2>12. Older \union Going = inflight
    BY DEF Older, Going
  <2>13. Policy' = Policy
    BY DEF Policy
  <2>14. Run!Begin
    BY <2>1, <2>2, <2>7, <2>9, <2>10, <2>11, <2>12, <2>13 DEF Run!Begin
  <2> QED BY <2>14 DEF Run!Next
<1> QED BY <1>2, <1>3

\* ReportEnds: the message of a task ends it, for the run or for an older one.
LEMMA ReportEnds ==
  ASSUME IInv, RInv, IInv', RInv', NEW t \in inflight, NEW ok \in BOOLEAN, TaskFinished(t, ok)
  PROVE  [Run!Next]_(Run!vars)
<1> DEFINE x == Reported(execution, t, ok)
           after == Results(runs, execution, t, ok, finished)
           tasks == inflight \ {t}
<1>1. /\ TypeOK /\ runs \in Nat /\ mixed \in BOOLEAN /\ cfg \in Config
      /\ execution \in Execution
      /\ Progress(runs, execution, inflight)
      /\ ~mixed => Exact(runs, execution, inflight)
      /\ RunInv(cfg, runs, execution, inflight, finished, mixed)
  BY DEF IInv, EngineInv, TypeOK, RInv
<1>2. /\ UNCHANGED <<cfg, runs, mixed>>
      /\ finished' = after
      /\ Dispatch(runs, x, tasks)
  BY DEF TaskFinished, Reported, Results
<1>3. CASE execution.phase = "None"
  <2>1. UNCHANGED <<execution, finished>> /\ inflight' = tasks
    BY <1>2, <1>3 DEF Reported, Results, Dispatch
  <2>2. Older = inflight /\ Older' = inflight \ {t}
    BY <1>3, <2>1 DEF Older, Present
  <2>3. Status = "none"
    BY <1>3, StatusCases
  <2>4. /\ Waiting = {} /\ Waiting' = {} /\ Going = {} /\ Going' = {}
    BY <1>3, <2>1 DEF Waiting, NotStarted, Going, Present
  <2>5. UNCHANGED <<Policy, Status, Report>>
    BY <1>2, <2>1 DEF Policy, Status, Report
  <2>6. Run!EndOlder(t)
    BY <1>2, <2>1, <2>2, <2>3, <2>4, <2>5 DEF Run!EndOlder
  <2> QED BY <2>2, <2>6 DEF Run!Next
<1>4. CASE execution.phase # "None"
  <2>1. /\ t \in Task /\ t.kind \in Kinds /\ cfg.ignore_errors \in BOOLEAN
        /\ IsFiniteSet(inflight) /\ inflight \subseteq Task
    BY <1>1 DEF Progress, Task, Config
  <2>2. /\ x.next_transfer = execution.next_transfer /\ x.next_delete = execution.next_delete
        /\ x.plan = execution.plan /\ x.phase \in {execution.phase, "Stopped"}
    <3>1. CASE t.kind = "transfer"
      <4>1. x = AfterTransfer(execution, ok)
        BY <1>4, <3>1 DEF Reported
      <4> QED BY <1>1, <1>4, <2>1, <4>1, AfterTransferFields
    <3>2. CASE t.kind = "delete"
      <4>1. x = AfterDelete(execution, ok)
        BY <1>4, <3>2 DEF Reported
      <4> QED BY <1>1, <1>4, <2>1, <4>1, AfterDeleteFields
    <3> QED BY <2>1, <3>1, <3>2 DEF Kinds
  <2>3. Progress(runs, x, tasks) /\ (~mixed => Exact(runs, x, tasks))
    BY <1>1, <1>4, <2>1, ReportProgress DEF Reported
  <2>4. RunInv(cfg, runs, x, tasks, after, mixed)
    BY <1>1, <1>4, ReportKeepsRun
  <2>5. execution.phase = "Done" => mixed
    <3> SUFFICES ASSUME execution.phase = "Done", ~mixed PROVE FALSE
      BY <1>1
    <3>1. /\ execution.active_transfers = 0 /\ execution.active_deletes = 0
          /\ Exact(runs, execution, inflight)
      BY <1>1, <1>4 DEF RunInv, InPhase, PhaseRight, TransfersDone
    <3>2. IsFiniteSet(OfKind(inflight, "transfer")) /\ IsFiniteSet(OfKind(inflight, "delete"))
      BY <2>1, FS_Subset DEF OfKind
    <3>3. OfKind(inflight, "transfer") = {} /\ OfKind(inflight, "delete") = {}
      BY <1>4, <3>1, <3>2, FS_EmptySet DEF Exact
    <3> QED BY <2>1, <3>3 DEF OfKind, Kinds
  <2>6. Left(runs, x) = Left(runs, execution)
    BY <2>2 DEF Left
  <2>7. after = IF t.run = runs THEN finished \union {[task |-> t, ok |-> ok]} ELSE finished
    BY <1>4 DEF Results
  <2> HIDE DEF x, after
  <2>8. Run!Move(Mine(runs, tasks), after)
    BY <1>2, <1>4, <2>2, <2>3, <2>4, <2>5, <2>6, DispatchMoves
  <2>9. /\ Going = Mine(runs, inflight) /\ Older = inflight \ Mine(runs, inflight)
    BY <1>4, MappedTasks DEF Present
  <2>10. Older' = tasks \ Mine(runs, tasks)
    <3>1. x.phase # "None" /\ OnlyCopies(cfg, x)
      BY <1>4, <2>2, <2>4 DEF RunInv
    <3> QED BY <1>1, <1>2, <2>3, <3>1, DispatchedTasks
  <2>11. CASE t.run = runs
    <3>1. t \in Going /\ Mine(runs, tasks) = Going \ {t} /\ Older' = Older
      BY <2>9, <2>10, <2>11 DEF Mine
    <3>2. Run!End(t, ok)
      BY <2>7, <2>8, <2>11, <3>1 DEF Run!End
    <3> QED BY <3>1, <3>2 DEF Run!Next
  <2>12. CASE t.run # runs
    <3>1. t \in Older /\ Mine(runs, tasks) = Going /\ Older' = Older \ {t}
      BY <2>9, <2>10, <2>12 DEF Mine
    <3>2. Run!EndOlder(t)
      BY <2>7, <2>8, <2>12, <3>1 DEF Run!EndOlder
    <3> QED BY <3>1, <3>2 DEF Run!Next
  <2> QED BY <2>11, <2>12
<1> QED BY <1>3, <1>4

\* StepImplements: every step of the engine is a step of the run, or none.
LEMMA StepImplements ==
  ASSUME IInv, RInv, [Next]_vars
  PROVE  [Run!Next]_(Run!vars)
<1> USE DEF history
<1>1. IInv' /\ RInv'
  BY NextInv, NextRInv
<1>2. ASSUME UNCHANGED <<execution, inflight, finished, runs, mixed>>,
             cfg'.mode = cfg.mode, cfg'.delete_phase = cfg.delete_phase,
             cfg'.ignore_errors = cfg.ignore_errors
      PROVE  UNCHANGED Run!vars
  <2>1. UNCHANGED <<Policy, Status, Report, Going, Older>>
    BY <1>2 DEF Policy, Status, Report, Going, Older, Present
  <2>2. UNCHANGED Waiting
    BY <1>2 DEF Waiting, NotStarted, Present
  <2> QED BY <1>2, <2>1, <2>2 DEF Run!vars
<1>3. CASE OpenSync \/ ChangeConfig \/ StartSyncPlan
  <2>1. DropExecution /\ UNCHANGED <<inflight, runs, mixed>>
    BY <1>3 DEF OpenSync, ChangeConfig, StartSyncPlan
  <2> QED BY <1>1, <2>1, DropDrops DEF Run!Next
<1>4. CASE ChangeTransferWorkers
  <2>1. PICK w \in TransferWorkerTexts : cfg' = [cfg EXCEPT !.transfer_workers = w]
    BY <1>4 DEF ChangeTransferWorkers
  <2>2. /\ cfg'.mode = cfg.mode /\ cfg'.delete_phase = cfg.delete_phase
        /\ cfg'.ignore_errors = cfg.ignore_errors
    BY <2>1 DEF IInv, TypeOK, Config
  <2> QED BY <1>2, <1>4, <2>2 DEF ChangeTransferWorkers
<1>5. CASE SyncPlanBuilt \/ CancelSyncDeleteConfirm
  BY <1>2, <1>5 DEF SyncPlanBuilt, CancelSyncDeleteConfirm
<1>6. CASE StartSyncCopy
  BY <1>1, <1>6, StartBegins DEF StartSyncCopy
<1>7. CASE StartSync
  <2>1. CASE StartRun(FirstPhase)
    BY <1>1, <1>7, <2>1, StartBegins DEF StartSync
  <2>2. CASE UNCHANGED <<execution, inflight, finished, runs, mixed>>
    BY <1>2, <1>7, <2>2 DEF StartSync
  <2> QED BY <1>7, <2>1, <2>2 DEF StartSync
<1>8. CASE ConfirmSyncDeleteRun
  <2>1. cfg.mode = "Sync"
    BY <1>8 DEF ConfirmSyncDeleteRun, RInv, PlanInv
  <2> QED BY <1>1, <1>8, <2>1, StartBegins DEF ConfirmSyncDeleteRun
<1>9. CASE Completion
  BY <1>1, <1>9, ReportEnds DEF Completion
<1>10. CASE UNCHANGED vars
  BY <1>2, <1>10 DEF vars
<1> QED BY <1>3, <1>4, <1>5, <1>6, <1>7, <1>8, <1>9, <1>10 DEF Next, User

LEMMA InitImplements == Init => RInv /\ Run!Init
<1> SUFFICES ASSUME Init PROVE RInv /\ Run!Init
  OBVIOUS
<1>1. /\ execution.phase = "None" /\ ~run_plan.some /\ ~delete_confirm
      /\ execution.completed_transfers = 0 /\ execution.failed_transfers = 0
  BY DEF Init, NoExecution, NewExecution, NoPlan
<1>2. RInv
  BY <1>1 DEF RInv, PlanInv, RunInv
<1>3. Policy \in Run!Policies
  BY DEF Init, DefaultConfig, Policy, Run!Policies
<1>4. Status = "none" /\ Waiting = {} /\ Going = {} /\ Older = {} /\ Report = Run!NoReport
  BY <1>1, StatusCases, MappedTasks DEF Init, Present, Report, Run!NoReport
<1> QED BY <1>2, <1>3, <1>4 DEF Init, Run!Init

\* RunIsKept: the engine implements the run.  Whatever the plans, the workers, the
\* failures and the order of messages, each task of a run starts once and in the order of
\* its policy, the run halts on the errors it must, is done exactly when nothing is left
\* to do, says how many transfers were made and failed, and goes on only while a task
\* will report.
THEOREM RunIsKept == Spec => KeepsPromises
<1>1. IInv /\ RInv /\ [Next]_vars => RInv' /\ [Run!Next]_(Run!vars)
  BY NextRInv, StepImplements
<1> QED BY <1>1, InitImplements, InvariantHolds, PTL DEF Spec, KeepsPromises, Run!Spec

-----------------------------------------------------------------------------
(* SyncPlanner: keys and paths *)

\* A path as the listings make it.
Trimmed(path) == path \in Seq(STRING) /\ TrimStart(path) = path

\* SlashesEnd: the slashes a text begins with are followed by no other.
LEMMA SlashesEnd ==
  ASSUME NEW text \in Seq(STRING)
  PROVE  /\ Slashes(text) \in 0..Len(text)
         /\ Slashes(text) < Len(text) => text[Slashes(text) + 1] # "/"
<1> DEFINE S == {n \in 1..Len(text) : \A i \in 1..n : text[i] = "/"}
           k == Cardinality(S)
<1>1. Len(text) \in Nat
  BY LenProperties
<1>2. \A n \in Nat : IsFiniteSet(1..n) /\ Cardinality(1..n) = n
  BY FS_Interval
<1>3. /\ S \in SUBSET (1..Len(text))
      /\ \A n \in S : \A i \in 1..n : text[i] = "/"
      /\ \A n \in 1..Len(text) : (\A i \in 1..n : text[i] = "/") => n \in S
  OBVIOUS
<1>4. Slashes(text) = k
  BY DEF Slashes
<1> HIDE DEF S
<1>5. IsFiniteSet(S) /\ k \in Nat /\ k <= Len(text)
  <2>1. IsFiniteSet(S) /\ k <= Cardinality(1..Len(text))
    BY <1>1, <1>2, <1>3, FS_Subset
  <2> QED BY <1>1, <1>2, <2>1, FS_CardinalityType
<1> HIDE DEF k
<1>6. ASSUME k < Len(text), text[k + 1] = "/" PROVE FALSE
  <2>1. ASSUME k # 0, k \notin S PROVE FALSE
    <3>1. ASSUME NEW n \in S, n >= k PROVE FALSE
      <4>1. n \in 1..Len(text) /\ \A i \in 1..n : text[i] = "/"
        BY <1>3, <3>1
      <4>2. k \in 1..Len(text) /\ \A i \in 1..k : i \in 1..n
        BY <1>1, <1>5, <2>1, <3>1, <4>1
      <4> QED BY <1>3, <2>1, <4>1, <4>2
    <3>2. S \in SUBSET (1..(k - 1)) /\ k - 1 \in Nat
      BY <1>1, <1>3, <1>5, <2>1, <3>1
    <3>3. k <= Cardinality(1..(k - 1))
      BY <1>2, <3>2, FS_Subset DEF k
    <3> QED BY <1>2, <1>5, <3>2, <3>3
  <2>2. ASSUME NEW n \in 1..(k + 1) PROVE n \in S
    <3>1. n \in 1..Len(text)
      BY <1>1, <1>5, <1>6
    <3>2. ASSUME NEW i \in 1..n PROVE text[i] = "/"
      <4>1. i \in 1..k \/ i = k + 1
        BY <1>5
      <4>2. i \in 1..k => k # 0
        BY <1>5
      <4> QED BY <1>3, <1>6, <2>1, <4>1, <4>2
    <3> QED BY <1>3, <3>1, <3>2
  <2>3. 1..(k + 1) \in SUBSET S
    BY <2>2
  <2>4. Cardinality(1..(k + 1)) <= k
    BY <1>5, <2>3, FS_Subset DEF k
  <2>5. k + 1 <= k
    BY <1>2, <1>5, <2>4
  <2> QED BY <1>5, <2>5
<1> QED BY <1>1, <1>4, <1>5, <1>6

\* RestOf: what a text is without its beginning.
LEMMA RestOf ==
  ASSUME NEW text \in Seq(STRING), NEW n \in 0..Len(text)
  PROVE  /\ Rest(text, n) \in Seq(STRING)
         /\ Len(Rest(text, n)) = Len(text) - n
         /\ \A i \in 1..Len(text) - n : Rest(text, n)[i] = text[n + i]
BY SMTT(20) DEF Rest

\* TrimStartTrims: what is trimmed stays as it is when it is trimmed again.
LEMMA TrimStartTrims ==
  ASSUME NEW text \in Seq(STRING)
  PROVE  Trimmed(TrimStart(text))
<1> DEFINE t == TrimStart(text)
           S == {n \in 1..Len(t) : \A i \in 1..n : t[i] = "/"}
<1>1. t = Rest(text, Slashes(text)) /\ Slashes(text) \in 0..Len(text)
  BY SlashesEnd DEF TrimStart
<1>2. /\ t \in Seq(STRING) /\ Len(t) = Len(text) - Slashes(text)
      /\ \A i \in 1..Len(text) - Slashes(text) : t[i] = text[Slashes(text) + i]
  <2> HIDE DEF t
  <2> QED BY <1>1, RestOf
<1>3. Len(text) \in Nat /\ Len(t) \in Nat
  <2> HIDE DEF t
  <2> QED BY <1>2, LenProperties
<1> HIDE DEF t
<1>4. Len(t) > 0 => t[1] # "/"
  BY <1>1, <1>2, <1>3, SlashesEnd
<1>5. S = {}
  BY <1>3, <1>4
<1>6. Slashes(t) = 0
  BY <1>5, FS_EmptySet DEF Slashes
<1>7. /\ Rest(t, 0) \in Seq(STRING) /\ Len(Rest(t, 0)) = Len(t)
      /\ \A i \in 1..Len(t) : Rest(t, 0)[i] = t[i]
  BY <1>2, <1>3, RestOf
<1>8. Rest(t, 0) = t
  BY <1>2, <1>7, SeqEqual
<1> QED BY <1>2, <1>6, <1>8 DEF Trimmed, TrimStart, t

\* Ends: a prefix that ends where a component does.
Ends(place) == place.prefix = <<>> \/ Last(place.prefix) = "/"

\* JoinedIsNamed: a path joined to a prefix is a key that begins with the prefix, and its
\* path is that path.
LEMMA JoinedIsNamed ==
  ASSUME NEW place, place.prefix \in Seq(STRING), Ends(place), NEW path, Trimmed(path)
  PROVE  /\ JoinKey(place.prefix, path) = place.prefix \o path
         /\ IsPrefix(place.prefix, JoinKey(place.prefix, path))
         /\ RelativePath(place, JoinKey(place.prefix, path)) = path
<1> DEFINE prefix == place.prefix
           key    == prefix \o path
<1>1. JoinKey(prefix, path) = key
  BY DEF JoinKey, Ends
<1>2. prefix \in Seq(STRING) /\ path \in Seq(STRING)
  BY DEF Trimmed
<1>3. /\ key \in Seq(STRING)
      /\ Len(key) = Len(prefix) + Len(path)
      /\ \A i \in 1..Len(prefix) + Len(path) :
           key[i] = IF i <= Len(prefix) THEN prefix[i] ELSE path[i - Len(prefix)]
  BY <1>2, ConcatProperties
<1>4. Len(prefix) \in Nat /\ Len(path) \in Nat
  BY <1>2, LenProperties
<1> HIDE DEF key, prefix
<1>5. IsPrefix(prefix, key)
  BY <1>2, <1>3, <1>4 DEF IsPrefix
<1>6. Rest(key, Len(prefix)) = path
  <2>1. /\ Rest(key, Len(prefix)) \in Seq(STRING)
        /\ Len(Rest(key, Len(prefix))) = Len(path)
        /\ \A i \in 1..Len(path) : Rest(key, Len(prefix))[i] = key[Len(prefix) + i]
    <3>1. Len(prefix) \in 0..Len(key) /\ Len(key) - Len(prefix) = Len(path)
      BY <1>3, <1>4
    <3> QED BY <1>3, <3>1, RestOf, ZenonT(30)
  <2>2. \A i \in 1..Len(path) : key[Len(prefix) + i] = path[i]
    BY <1>3, <1>4
  <2> QED BY <1>2, <2>1, <2>2, SeqEqual
<1>7. RelativePath(place, key) = path
  BY <1>6 DEF RelativePath, Trimmed, prefix
<1> QED BY <1>1, <1>5, <1>7 DEF key, prefix

\* PathsAreTrimmed: the path of a key begins with no slash.
LEMMA PathsAreTrimmed ==
  ASSUME NEW place, place.prefix \in Seq(STRING), NEW key \in Seq(STRING),
         IsPrefix(place.prefix, key)
  PROVE  Trimmed(RelativePath(place, key))
<1>1. Len(place.prefix) \in 0..Len(key)
  BY LenProperties DEF IsPrefix
<1>2. Rest(key, Len(place.prefix)) \in Seq(STRING)
  BY <1>1, RestOf
<1> QED BY <1>2, TrimStartTrims DEF RelativePath

\* PrefixesCompare: two prefixes of a key are prefixes one of the other.
LEMMA PrefixesCompare ==
  ASSUME NEW p \in Seq(STRING), NEW q \in Seq(STRING), NEW key \in Seq(STRING),
         IsPrefix(p, key), IsPrefix(q, key), Len(p) <= Len(q)
  PROVE  IsPrefix(p, q)
<1>1. Len(p) \in Nat /\ Len(q) \in Nat /\ Len(key) \in Nat
  BY LenProperties
<1>2. /\ \A i \in 1..Len(p) : SubSeq(p, 1, Len(p))[i] = p[i]
      /\ \A i \in 1..Len(p) : SubSeq(key, 1, Len(p))[i] = key[i]
      /\ \A i \in 1..Len(q) : SubSeq(q, 1, Len(q))[i] = q[i]
      /\ \A i \in 1..Len(q) : SubSeq(key, 1, Len(q))[i] = key[i]
  BY <1>1 DEF IsPrefix
<1>3. \A i \in 1..Len(p) : p[i] = q[i]
  BY <1>1, <1>2 DEF IsPrefix
<1>4. SubSeq(p, 1, Len(p)) = SubSeq(q, 1, Len(p))
  BY <1>1, <1>3
<1> QED BY <1>4 DEF IsPrefix

-----------------------------------------------------------------------------
(* Listings of a store *)

\* KeysUnder, KeysOf and Enumerate, said of any store, filters and time.
Under(objects, place) ==
  {key \in Keys : objects[<<place.space, key>>] # Absent /\ IsPrefix(place.prefix, key)}
Named(objects, filters, present, place, path) ==
  {key \in Under(objects, place) :
     /\ RelativePath(place, key) = path
     /\ ApplySyncFilters(AsListed(place, objects[<<place.space, key>>]), path, filters, present)}
Listed(objects, filters, present, place) ==
  [path \in {p \in {RelativePath(place, key) : key \in Under(objects, place)} :
               Named(objects, filters, present, place, p) # {}} |->
     AsListed(place, objects[<<place.space,
                               CHOOSE key \in Named(objects, filters, present, place, path) : TRUE>>])]

\* Said of the filters of a sync: none counts from the present.
FixedFilters(filters) == filters.newer_than.ago \union filters.older_than.ago = {}

\* ListedDomain: a path is listed when an object is listed under it.
LEMMA ListedDomain ==
  ASSUME NEW objects, NEW filters, NEW present, NEW place, NEW path
  PROVE  /\ path \in DOMAIN Listed(objects, filters, present, place)
              <=> Named(objects, filters, present, place, path) # {}
         /\ path \in DOMAIN Listed(objects, filters, present, place) =>
              Listed(objects, filters, present, place)[path]
                = AsListed(place, objects[<<place.space,
                    CHOOSE key \in Named(objects, filters, present, place, path) : TRUE>>])
<1>1. Named(objects, filters, present, place, path) # {} =>
        path \in {RelativePath(place, key) : key \in Under(objects, place)}
  BY DEF Named
<1> QED BY <1>1, Zenon DEF Listed

\* FixedFiltersLast: filters that do not count from the present let the same through later.
LEMMA FixedFiltersLast ==
  ASSUME NEW filters, NEW t, NEW u, t = u \/ FixedFilters(filters), NEW object, NEW path
  PROVE  ApplySyncFilters(object, path, filters, t) <=> ApplySyncFilters(object, path, filters, u)
<1>1. CASE t = u
  BY <1>1
<1>2. CASE FixedFilters(filters)
  <2>1. /\ ParseAgeFilter(filters.newer_than, t) = ParseAgeFilter(filters.newer_than, u)
        /\ ParseAgeFilter(filters.older_than, t) = ParseAgeFilter(filters.older_than, u)
    BY <1>2 DEF ParseAgeFilter, FixedFilters
  <2> QED BY <2>1, Zenon DEF ApplySyncFilters
<1> QED BY <1>1, <1>2

\* Same: two stores agree on the keys under a prefix.
Same(before, after, place) ==
  \A key \in Keys : IsPrefix(place.prefix, key) =>
    before[<<place.space, key>>] = after[<<place.space, key>>]

\* SameAt: they agree on the keys of one path.
SameAt(before, after, place, path) ==
  \A key \in Keys : (IsPrefix(place.prefix, key) /\ RelativePath(place, key) = path) =>
    before[<<place.space, key>>] = after[<<place.space, key>>]

\* EntryStays: the entry of a path depends only on the objects under that path.
LEMMA EntryStays ==
  ASSUME NEW before, NEW after, NEW filters, NEW t, NEW u, t = u \/ FixedFilters(filters),
         NEW place, NEW path, SameAt(before, after, place, path)
  PROVE  /\ path \in DOMAIN Listed(before, filters, t, place)
              <=> path \in DOMAIN Listed(after, filters, u, place)
         /\ path \in DOMAIN Listed(before, filters, t, place) =>
              Listed(before, filters, t, place)[path] = Listed(after, filters, u, place)[path]
<1> DEFINE B == Named(before, filters, t, place, path)
           A == Named(after, filters, u, place, path)
<1>1. ASSUME NEW key PROVE key \in B <=> key \in A
  <2>1. CASE key \in Keys /\ IsPrefix(place.prefix, key) /\ RelativePath(place, key) = path
    <3>1. before[<<place.space, key>>] = after[<<place.space, key>>]
      BY <2>1 DEF SameAt
    <3>2. ApplySyncFilters(AsListed(place, before[<<place.space, key>>]), path, filters, t)
            <=> ApplySyncFilters(AsListed(place, after[<<place.space, key>>]), path, filters, u)
      BY <3>1, FixedFiltersLast, Zenon
    <3> QED BY <2>1, <3>1, <3>2, Zenon DEF Named, Under
  <2>2. CASE ~(key \in Keys /\ IsPrefix(place.prefix, key) /\ RelativePath(place, key) = path)
    BY <2>2, Zenon DEF Named, Under
  <2> QED BY <2>1, <2>2
<1>2. B = A
  BY <1>1
<1>3. \A key \in B : before[<<place.space, key>>] = after[<<place.space, key>>]
  BY DEF Named, Under, SameAt
<1> DEFINE k == CHOOSE key \in B : TRUE
<1>4. B # {} => k \in B
  BY Zenon
<1>5. /\ path \in DOMAIN Listed(before, filters, t, place) <=> B # {}
      /\ path \in DOMAIN Listed(before, filters, t, place) =>
           Listed(before, filters, t, place)[path] = AsListed(place, before[<<place.space, k>>])
  BY ListedDomain, Zenon
<1>6. /\ path \in DOMAIN Listed(after, filters, u, place) <=> A # {}
      /\ path \in DOMAIN Listed(after, filters, u, place) =>
           Listed(after, filters, u, place)[path]
             = AsListed(place, after[<<place.space, CHOOSE key \in A : TRUE>>])
  BY ListedDomain, Zenon
<1> HIDE DEF A, B
<1>7. (CHOOSE key \in A : TRUE) = k
  BY <1>2 DEF k
<1> HIDE DEF k
<1>8. B # {} => before[<<place.space, k>>] = after[<<place.space, k>>]
  BY <1>3, <1>4
<1> QED BY <1>2, <1>5, <1>6, <1>7, <1>8, Zenon

\* ListingStays: a listing depends only on the objects under the prefix.
LEMMA ListingStays ==
  ASSUME NEW before, NEW after, NEW filters, NEW t, NEW u, t = u \/ FixedFilters(filters),
         NEW place, Same(before, after, place)
  PROVE  Listed(before, filters, t, place) = Listed(after, filters, u, place)
<1> DEFINE B == Listed(before, filters, t, place)
           A == Listed(after, filters, u, place)
<1>1. ASSUME NEW path
      PROVE  /\ path \in DOMAIN B <=> path \in DOMAIN A
             /\ path \in DOMAIN B => B[path] = A[path]
  <2>1. SameAt(before, after, place, path)
    BY DEF Same, SameAt
  <2> QED BY <2>1, EntryStays
<1>2. B = [path \in DOMAIN B |-> B[path]] /\ A = [path \in DOMAIN A |-> A[path]]
  BY DEF Listed
<1> HIDE DEF A, B
<1>3. DOMAIN B = DOMAIN A
  BY <1>1
<1>4. \A path \in DOMAIN B : B[path] = A[path]
  BY <1>1
<1> QED BY <1>2, <1>3, <1>4 DEF A, B

\* StraightIn: Straight, of one place.
StraightIn(objects, place) ==
  \A key \in Under(objects, place) : At(place, RelativePath(place, key)) = <<place.space, key>>

\* Lists: the object at a path's own location is listed.
Lists(objects, filters, present, place, path) ==
  /\ Trimmed(path)
  /\ JoinKey(place.prefix, path) \in Keys
  /\ objects[At(place, path)] # Absent
  /\ ApplySyncFilters(AsListed(place, objects[At(place, path)]), path, filters, present)

\* ListsIsListed: it is in the listing, and what is in a listing passes the filters of paths.
LEMMA ListsIsListed ==
  ASSUME NEW objects, NEW filters, NEW present, NEW place, place.prefix \in Seq(STRING),
         Ends(place), NEW path
  PROVE  /\ Lists(objects, filters, present, place, path) =>
              path \in DOMAIN Listed(objects, filters, present, place)
         /\ path \in DOMAIN Listed(objects, filters, present, place) =>
              /\ Trimmed(path)
              /\ PathPasses(path, filters)
              /\ \E key \in Keys : IsPrefix(place.prefix, key) /\ RelativePath(place, key) = path
<1>1. ASSUME Lists(objects, filters, present, place, path)
      PROVE  path \in DOMAIN Listed(objects, filters, present, place)
  <2> DEFINE key == JoinKey(place.prefix, path)
  <2>1. Trimmed(path) /\ key \in Keys /\ At(place, path) = <<place.space, key>>
    BY <1>1 DEF Lists, At
  <2>2. IsPrefix(place.prefix, key) /\ RelativePath(place, key) = path
    BY <2>1, JoinedIsNamed
  <2> HIDE DEF key
  <2>3. key \in Named(objects, filters, present, place, path)
    BY <1>1, <2>1, <2>2 DEF Named, Under, Lists
  <2> QED BY <2>3, ListedDomain, Zenon
<1>2. ASSUME path \in DOMAIN Listed(objects, filters, present, place)
      PROVE  /\ Trimmed(path)
             /\ PathPasses(path, filters)
             /\ \E key \in Keys : IsPrefix(place.prefix, key) /\ RelativePath(place, key) = path
  <2>1. Named(objects, filters, present, place, path) # {}
    BY <1>2, ListedDomain, Zenon
  <2>2. PICK key \in Named(objects, filters, present, place, path) : TRUE
    BY <2>1, Zenon
  <2>3. /\ key \in Keys /\ IsPrefix(place.prefix, key) /\ RelativePath(place, key) = path
        /\ PathPasses(path, filters)
    BY <2>2, Zenon DEF Named, Under, ApplySyncFilters
  <2>4. key \in Seq(STRING)
    BY <2>3, DataAssumption
  <2>5. Trimmed(path)
    BY <2>3, <2>4, PathsAreTrimmed
  <2> QED BY <2>3, <2>5, Zenon
<1> QED BY <1>1, <1>2

\* StraightEntry: when no key has a slash after the prefix, the listing has just that.
LEMMA StraightEntry ==
  ASSUME NEW objects, NEW filters, NEW present, NEW place, place.prefix \in Seq(STRING),
         Ends(place), StraightIn(objects, place), NEW path
  PROVE  /\ path \in DOMAIN Listed(objects, filters, present, place)
              <=> Lists(objects, filters, present, place, path)
         /\ path \in DOMAIN Listed(objects, filters, present, place) =>
              Listed(objects, filters, present, place)[path]
                = AsListed(place, objects[At(place, path)])
<1> DEFINE N == Named(objects, filters, present, place, path)
           k == CHOOSE key \in N : TRUE
<1>1. ASSUME path \in DOMAIN Listed(objects, filters, present, place)
      PROVE  /\ Lists(objects, filters, present, place, path)
             /\ Listed(objects, filters, present, place)[path]
                  = AsListed(place, objects[At(place, path)])
  <2>1. N # {} /\ Listed(objects, filters, present, place)[path]
                    = AsListed(place, objects[<<place.space, k>>])
    BY <1>1, ListedDomain, Zenon
  <2>2. k \in N
    BY <2>1, Zenon
  <2> HIDE DEF k
  <2>3. /\ k \in Under(objects, place) /\ RelativePath(place, k) = path
        /\ ApplySyncFilters(AsListed(place, objects[<<place.space, k>>]), path, filters, present)
    BY <2>2, Zenon DEF Named
  <2>4. At(place, path) = <<place.space, k>>
    BY <2>3, Zenon DEF StraightIn
  <2>5. JoinKey(place.prefix, path) = k
    BY <2>4 DEF At
  <2>6. k \in Keys /\ objects[<<place.space, k>>] # Absent
    BY <2>3 DEF Under
  <2>7. Trimmed(path)
    BY <1>1, ListsIsListed, Zenon
  <2>8. Lists(objects, filters, present, place, path)
    BY <2>3, <2>4, <2>5, <2>6, <2>7, Zenon DEF Lists
  <2> QED BY <2>1, <2>4, <2>8, Zenon
<1> QED BY <1>1, ListsIsListed, Zenon

-----------------------------------------------------------------------------
(* What is written at paths of the destination *)

\* ChangedAt: the store is the same but at these paths of a place.
ChangedAt(before, after, place, paths) ==
  \A l \in Locations : (\A q \in paths : l # At(place, q)) => after[l] = before[l]

AllTrimmed(paths) == \A q \in paths : Trimmed(q)

\* ApartFrom: Apart, of two places.
ApartFrom(one, other) ==
  one.space # other.space \/ (~IsPrefix(one.prefix, other.prefix) /\ ~IsPrefix(other.prefix, one.prefix))

\* SourceStays: nothing is written at the source.
LEMMA SourceStays ==
  ASSUME NEW source, source.prefix \in Seq(STRING), source.space \in Spaces,
         NEW place, place.prefix \in Seq(STRING), Ends(place), ApartFrom(source, place),
         NEW paths, AllTrimmed(paths), NEW before, NEW after, ChangedAt(before, after, place, paths)
  PROVE  Same(before, after, source)
<1> SUFFICES ASSUME NEW key \in Keys, IsPrefix(source.prefix, key)
             PROVE  before[<<source.space, key>>] = after[<<source.space, key>>]
  BY DEF Same
<1>1. ASSUME NEW q \in paths, <<source.space, key>> = At(place, q) PROVE FALSE
  <2>1. source.space = place.space /\ key = JoinKey(place.prefix, q)
    BY <1>1 DEF At
  <2>2. IsPrefix(place.prefix, key)
    BY <2>1, JoinedIsNamed DEF AllTrimmed
  <2>3. key \in Seq(STRING)
    BY DataAssumption
  <2>4. Len(source.prefix) \in Nat /\ Len(place.prefix) \in Nat
    BY LenProperties
  <2>5. Len(source.prefix) <= Len(place.prefix) \/ Len(place.prefix) <= Len(source.prefix)
    BY <2>4
  <2>6. IsPrefix(source.prefix, place.prefix) \/ IsPrefix(place.prefix, source.prefix)
    BY <2>2, <2>3, <2>5, PrefixesCompare
  <2> QED BY <2>1, <2>6 DEF ApartFrom
<1>2. <<source.space, key>> \in Locations
  BY DEF Locations
<1> QED BY <1>1, <1>2 DEF ChangedAt

\* OthersStay: nor at another path.
LEMMA OthersStay ==
  ASSUME NEW place, place.prefix \in Seq(STRING), place.space \in Spaces, Ends(place),
         NEW paths, AllTrimmed(paths), NEW before, NEW after, ChangedAt(before, after, place, paths),
         NEW path, path \notin paths
  PROVE  SameAt(before, after, place, path)
<1> SUFFICES ASSUME NEW key \in Keys, IsPrefix(place.prefix, key), RelativePath(place, key) = path
             PROVE  before[<<place.space, key>>] = after[<<place.space, key>>]
  BY DEF SameAt
<1>1. ASSUME NEW q \in paths, <<place.space, key>> = At(place, q) PROVE FALSE
  <2>1. key = JoinKey(place.prefix, q)
    BY <1>1 DEF At
  <2>2. RelativePath(place, key) = q
    BY <2>1, JoinedIsNamed DEF AllTrimmed
  <2> QED BY <2>2
<1>2. <<place.space, key>> \in Locations
  BY DEF Locations
<1> QED BY <1>1, <1>2 DEF ChangedAt

\* OwnStays: the location of another path is the same.
LEMMA OwnStays ==
  ASSUME NEW place, place.prefix \in Seq(STRING), place.space \in Spaces, Ends(place),
         NEW paths, AllTrimmed(paths), NEW before, NEW after, ChangedAt(before, after, place, paths),
         NEW path, path \notin paths, Trimmed(path), At(place, path) \in Locations
  PROVE  before[At(place, path)] = after[At(place, path)]
<1>1. SameAt(before, after, place, path)
  BY OthersStay
<1>2. /\ At(place, path) = <<place.space, JoinKey(place.prefix, path)>>
      /\ JoinKey(place.prefix, path) \in Keys
  BY DEF At, Locations
<1>3. /\ IsPrefix(place.prefix, JoinKey(place.prefix, path))
      /\ RelativePath(place, JoinKey(place.prefix, path)) = path
  BY JoinedIsNamed
<1> QED BY <1>1, <1>2, <1>3, Zenon DEF SameAt

\* StraightBefore: writes of paths put no slash after the prefix.
LEMMA StraightBefore ==
  ASSUME NEW place, place.prefix \in Seq(STRING), place.space \in Spaces, Ends(place),
         NEW paths, AllTrimmed(paths), NEW before, NEW after, ChangedAt(before, after, place, paths),
         StraightIn(after, place)
  PROVE  StraightIn(before, place)
<1> SUFFICES ASSUME NEW key \in Under(before, place)
             PROVE  At(place, RelativePath(place, key)) = <<place.space, key>>
  BY DEF StraightIn
<1>1. key \in Keys /\ IsPrefix(place.prefix, key) /\ before[<<place.space, key>>] # Absent
  BY DEF Under
<1>2. CASE RelativePath(place, key) \notin paths
  <2>1. SameAt(before, after, place, RelativePath(place, key))
    BY <1>2, OthersStay
  <2>2. before[<<place.space, key>>] = after[<<place.space, key>>]
    BY <1>1, <2>1 DEF SameAt
  <2>3. key \in Under(after, place)
    BY <1>1, <2>2 DEF Under
  <2> QED BY <2>3 DEF StraightIn
<1>3. CASE RelativePath(place, key) \in paths
  <2>1. ASSUME NEW q \in paths, <<place.space, key>> = At(place, q)
        PROVE  At(place, RelativePath(place, key)) = <<place.space, key>>
    <3>1. key = JoinKey(place.prefix, q)
      BY <2>1 DEF At
    <3>2. RelativePath(place, key) = q
      BY <3>1, JoinedIsNamed DEF AllTrimmed
    <3> QED BY <2>1, <3>2
  <2>2. ASSUME \A q \in paths : <<place.space, key>> # At(place, q)
        PROVE  At(place, RelativePath(place, key)) = <<place.space, key>>
    <3>1. <<place.space, key>> \in Locations
      BY <1>1 DEF Locations
    <3>2. before[<<place.space, key>>] = after[<<place.space, key>>]
      BY <2>2, <3>1 DEF ChangedAt
    <3>3. key \in Under(after, place)
      BY <1>1, <3>2 DEF Under
    <3> QED BY <3>3 DEF StraightIn
  <2> QED BY <2>1, <2>2
<1> QED BY <1>2, <1>3

-----------------------------------------------------------------------------
(* The inductive invariant *)

\* What a comparison that finds nothing to do, or a copy, promises of an object there.
Promised(compare_mode, source, there) ==
  /\ Size[there.data] = Size[source.data]
  /\ compare_mode \in {"AlwaysOverwrite", "ChecksumIfAvailable"} => there.data = source.data
  /\ compare_mode = "UpdateIfSourceNewer" => source.at \div 2 <= there.at \div 2

Meets(path) ==
  /\ At(setup.destination, path) \in Locations
  /\ store[At(setup.destination, path)] # Absent
  /\ Promised(setup.compare_mode, store[At(setup.source, path)], store[At(setup.destination, path)])

\* The plan that would be built of the places as they are.
Now == BuildSyncPlan(Enumerate(setup.source), Enumerate(setup.destination))

Undisturbed == quiet /\ Proper /\ Apart /\ Timeless

\* Extras are to be deleted.
DeletesExtras == setup.mode = "Sync" /\ setup.policy.delete_extras

\* PlannerType: every variable has a value its type allows, nothing is dated after the
\* present, and S3 dates are whole seconds.
PlannerType ==
  /\ setup \in Setups
  /\ store \in [Locations -> Object \union {Absent}]
  /\ now \in Nat
  /\ stage \in {"idle", "source", "planned"}
  /\ failed \in BOOLEAN /\ quiet \in BOOLEAN
  /\ settled_at \in Nat
Dated ==
  /\ \A l \in Locations : store[l].at <= now
  /\ \A place \in {setup.source, setup.destination}, key \in Keys :
       place.kind = "S3" => store[<<place.space, key>>].at % 2 = 0

\* Between: there are tasks only of a plan that is carried out.
Between ==
  /\ stage # "planned" => transfers = {} /\ deletes = {} /\ ~failed
  /\ settled_at # 0 => quiet /\ setup.mode # "Diff"
  /\ setup.mode = "Diff" => transfers = {} /\ deletes = {}

\* SourceKept: what was listed of the source is still there.
SourceKept ==
  (stage # "idle" /\ Undisturbed) => source_snapshot = Enumerate(setup.source)

\* TasksStand: the tasks left would be planned again.
TasksStand ==
  (stage = "planned" /\ Undisturbed) =>
    /\ \A path \in transfers : path \in DOMAIN Now /\ Now[path] \in {"Create", "Update"}
    /\ \A path \in deletes   : path \in DOMAIN Now /\ Now[path] = "Delete"

MetBut(tasks)   == \A path \in DOMAIN Enumerate(setup.source) \ tasks : Meets(path)
ExtrasIn(tasks) == \A path \in DOMAIN Enumerate(setup.destination) :
                     path \in DOMAIN Enumerate(setup.source) \/ path \in tasks

\* RunProgress: without failures, what is not among the tasks left is as promised.
RunProgress ==
  (stage = "planned" /\ Undisturbed /\ Straight /\ ~failed /\ setup.mode # "Diff") =>
    /\ Carries => MetBut(transfers)
    /\ DeletesExtras => ExtrasIn(deletes)

\* Settled: after a successful run everything is, and the next plan has nothing to delete
\* and transfers only what is as promised.
Settled ==
  (settled_at # 0 /\ Undisturbed /\ Straight) =>
    /\ stage # "planned" => (Carries => MetBut({})) /\ (DeletesExtras => ExtrasIn({}))
    /\ stage = "planned" => (Carries => \A path \in transfers : Meets(path)) /\ deletes = {}

\* Fits: there are locations for what is to be transferred.
FitsAll(paths) ==
  \A path \in paths : At(setup.source, path) \in Locations /\ At(setup.destination, path) \in Locations
Fits == FitsAll(DOMAIN source_snapshot) /\ FitsAll(transfers)

PlannerTypes == PlannerType /\ Dated /\ Between /\ Fits
PlannerHolds == SourceKept /\ TasksStand /\ RunProgress /\ Settled
PlannerIInv  == PlannerTypes /\ PlannerHolds

-----------------------------------------------------------------------------
(* What a step leaves as it was *)

\* SetupFacts: what a configuration is.
LEMMA SetupFacts ==
  ASSUME PlannerType
  PROVE  /\ setup.source.prefix \in Seq(STRING) /\ setup.destination.prefix \in Seq(STRING)
         /\ setup.source.space \in Spaces /\ setup.destination.space \in Spaces
         /\ setup.source.kind \in {"Local", "S3"} /\ setup.destination.kind \in {"Local", "S3"}
         /\ setup.source.kind # setup.destination.kind =>
              setup.source.space # setup.destination.space
         /\ setup.mode \in {"Copy", "Sync", "Diff"}
         /\ setup.policy \in Policies
BY SetupsAssumption DEF PlannerType

\* ProperEnds: both prefixes end where a component does.
LEMMA ProperEnds ==
  ASSUME Proper
  PROVE  Ends(setup.source) /\ Ends(setup.destination)
BY DEF Proper, Ends

\* ApartBoth: neither place is within the other.
LEMMA ApartBoth ==
  ASSUME Apart
  PROVE  ApartFrom(setup.source, setup.destination)
BY DEF Apart, ApartFrom

\* EnumerateIs: the listings of the two places, in terms of the store.
LEMMA EnumerateIs ==
  /\ Enumerate(setup.source) = Listed(store, setup.filters, now, setup.source)
  /\ Enumerate(setup.destination) = Listed(store, setup.filters, now, setup.destination)
  /\ Straight <=> StraightIn(store, setup.source) /\ StraightIn(store, setup.destination)
<1>1. KeysUnder(setup.source) = Under(store, setup.source)
  BY Zenon DEF KeysUnder, Under
<1>2. KeysUnder(setup.destination) = Under(store, setup.destination)
  BY Zenon DEF KeysUnder, Under
<1>3. Enumerate(setup.source) = Listed(store, setup.filters, now, setup.source)
  BY Zenon DEF Enumerate, Listed, KeysOf, Named, Paths, KeysUnder, Under
<1>4. Enumerate(setup.destination) = Listed(store, setup.filters, now, setup.destination)
  BY Zenon DEF Enumerate, Listed, KeysOf, Named, Paths, KeysUnder, Under
<1>5. Straight <=> StraightIn(store, setup.source) /\ StraightIn(store, setup.destination)
  BY <1>1, <1>2, Zenon DEF Straight, StraightIn
<1> QED BY <1>3, <1>4, <1>5

\* EnumerateWillBe: the same after a step.
LEMMA EnumerateWillBe ==
  ASSUME setup' = setup
  PROVE  /\ Enumerate(setup.source)' = Listed(store', setup.filters, now', setup.source)
         /\ Enumerate(setup.destination)' = Listed(store', setup.filters, now', setup.destination)
         /\ Straight' <=> StraightIn(store', setup.source) /\ StraightIn(store', setup.destination)
<1>1. Enumerate(setup.source)' = Listed(store', setup'.filters, now', setup'.source)
  BY Zenon DEF Enumerate, Listed, KeysOf, Named, Paths, KeysUnder, Under
<1>2. Enumerate(setup.destination)' = Listed(store', setup'.filters, now', setup'.destination)
  BY Zenon DEF Enumerate, Listed, KeysOf, Named, Paths, KeysUnder, Under
<1>3. KeysUnder(setup.source)' = Under(store', setup'.source)
  BY Zenon DEF KeysUnder, Under
<1>4. KeysUnder(setup.destination)' = Under(store', setup'.destination)
  BY Zenon DEF KeysUnder, Under
<1>5. Straight' <=> StraightIn(store', setup'.source) /\ StraightIn(store', setup'.destination)
  BY <1>3, <1>4, Zenon DEF Straight, StraightIn
<1> QED BY <1>1, <1>2, <1>5

\* Writes: a step that writes at paths of the destination, or where time passes that no
\* filter counts from.
Writes(paths) ==
  /\ setup' = setup
  /\ now' = now \/ Timeless
  /\ AllTrimmed(paths)
  /\ ChangedAt(store, store', setup.destination, paths)

\* Others: the listing of the destination and what is promised of other paths stay.
Others(paths) ==
  /\ \A path : path \notin paths =>
       /\ path \in DOMAIN Enumerate(setup.destination)'
            <=> path \in DOMAIN Enumerate(setup.destination)
       /\ path \in DOMAIN Enumerate(setup.destination) =>
            Enumerate(setup.destination)'[path] = Enumerate(setup.destination)[path]
  /\ \A path \in DOMAIN Enumerate(setup.source) \ paths :
       Straight /\ Meets(path) => Meets(path)'

\* WriteFrame: such a step leaves the source as it is, and the other paths.
LEMMA WriteFrame ==
  ASSUME PlannerType, Proper, Apart, NEW paths, Writes(paths)
  PROVE  /\ Enumerate(setup.source)' = Enumerate(setup.source)
         /\ Straight' => Straight
         /\ Others(paths)
<1> USE DEF Writes
<1>1. /\ setup.source.prefix \in Seq(STRING) /\ setup.destination.prefix \in Seq(STRING)
      /\ setup.source.space \in Spaces /\ setup.destination.space \in Spaces
  BY SetupFacts
<1>2. Ends(setup.source) /\ Ends(setup.destination) /\ ApartFrom(setup.source, setup.destination)
  BY ProperEnds, ApartBoth
<1>3. now = now' \/ FixedFilters(setup.filters)
  BY DEF Timeless, FixedFilters
<1>4. Same(store, store', setup.source)
  BY <1>1, <1>2, SourceStays
<1>5. Enumerate(setup.source)' = Enumerate(setup.source)
  <2>1. Listed(store, setup.filters, now, setup.source)
          = Listed(store', setup.filters, now', setup.source)
    BY <1>3, <1>4, ListingStays
  <2> QED BY <2>1, EnumerateIs, EnumerateWillBe, Zenon
<1>6. ASSUME NEW path, path \notin paths
      PROVE  /\ path \in DOMAIN Enumerate(setup.destination)'
                  <=> path \in DOMAIN Enumerate(setup.destination)
             /\ path \in DOMAIN Enumerate(setup.destination) =>
                  Enumerate(setup.destination)'[path] = Enumerate(setup.destination)[path]
  <2>1. SameAt(store, store', setup.destination, path)
    BY <1>1, <1>2, <1>6, OthersStay
  <2>2. LET B == Listed(store, setup.filters, now, setup.destination)
            A == Listed(store', setup.filters, now', setup.destination)
        IN  (path \in DOMAIN B <=> path \in DOMAIN A) /\ (path \in DOMAIN B => B[path] = A[path])
    BY <1>3, <2>1, EntryStays
  <2> QED BY <2>2, EnumerateIs, EnumerateWillBe, Zenon
<1>7. Straight' => Straight
  <2>1. SUFFICES ASSUME StraightIn(store', setup.source), StraightIn(store', setup.destination)
                 PROVE  StraightIn(store, setup.source) /\ StraightIn(store, setup.destination)
    BY EnumerateIs, EnumerateWillBe, Zenon
  <2>2. StraightIn(store, setup.destination)
    BY <1>1, <1>2, <2>1, StraightBefore
  <2>3. Under(store, setup.source) = Under(store', setup.source)
    BY <1>4 DEF Under, Same
  <2> QED BY <2>1, <2>2, <2>3, Zenon DEF StraightIn
<1>8. ASSUME NEW path \in DOMAIN Enumerate(setup.source) \ paths, Straight, Meets(path)
      PROVE  Meets(path)'
  <2>1. Lists(store, setup.filters, now, setup.source, path)
    <3>1. StraightIn(store, setup.source)
      BY <1>8, EnumerateIs, Zenon
    <3>2. path \in DOMAIN Listed(store, setup.filters, now, setup.source)
      BY EnumerateIs, Zenon
    <3> QED BY <1>1, <1>2, <3>1, <3>2, StraightEntry, Zenon
  <2>2. Trimmed(path) /\ JoinKey(setup.source.prefix, path) \in Keys
    BY <2>1, Zenon DEF Lists
  <2>3. IsPrefix(setup.source.prefix, JoinKey(setup.source.prefix, path))
    BY <1>1, <1>2, <2>2, JoinedIsNamed, Zenon
  <2>4. store'[At(setup.source, path)] = store[At(setup.source, path)]
    BY <1>4, <2>2, <2>3, Zenon DEF Same, At
  <2>5. At(setup.destination, path) \in Locations
    BY <1>8, Zenon DEF Meets
  <2>6. store'[At(setup.destination, path)] = store[At(setup.destination, path)]
    BY <1>1, <1>2, <2>2, <2>5, OwnStays
  <2> QED BY <1>8, <2>4, <2>6, Zenon DEF Meets
<1>9. Others(paths)
  BY <1>6, <1>8, Zenon DEF Others
<1> QED BY <1>5, <1>7, <1>9

\* PlanAt: what a plan has of a path.
PlanAt(source, destination, path) ==
  IF path \notin DOMAIN destination THEN "Create"
  ELSE IF path \notin DOMAIN source THEN MissingOnSourceAction(setup.mode, setup.policy)
  ELSE IF setup.mode = "Copy"
    THEN CompareCopyObjects(source[path], destination[path], setup.compare_mode)
  ELSE CompareSyncObjects(source[path], destination[path], setup.compare_mode, setup.policy)

\* PlanHas: BuildSyncPlan has every path listed of either place.
LEMMA PlanHas ==
  ASSUME NEW source, NEW destination
  PROVE  /\ DOMAIN BuildSyncPlan(source, destination) = DOMAIN source \union DOMAIN destination
         /\ \A path \in DOMAIN source \union DOMAIN destination :
              BuildSyncPlan(source, destination)[path] = PlanAt(source, destination, path)
BY Zenon DEF BuildSyncPlan, PlanAt

\* NowHas: the plan of the places as they are.
LEMMA NowHas ==
  /\ DOMAIN Now = DOMAIN Enumerate(setup.source) \union DOMAIN Enumerate(setup.destination)
  /\ \A path \in DOMAIN Now :
       Now[path] = PlanAt(Enumerate(setup.source), Enumerate(setup.destination), path)
BY PlanHas, Zenon DEF Now

\* NowStays: a step that writes at paths leaves the plan of the others as it is.
LEMMA NowStays ==
  ASSUME PlannerType, Proper, Apart, NEW paths, Writes(paths), NEW path \in DOMAIN Now,
         path \notin paths
  PROVE  path \in DOMAIN Now' /\ Now'[path] = Now[path]
<1> DEFINE source == Enumerate(setup.source)
           destination == Enumerate(setup.destination)
<1>1. /\ source' = source
      /\ path \in DOMAIN destination' <=> path \in DOMAIN destination
      /\ path \in DOMAIN destination => destination'[path] = destination[path]
  BY WriteFrame, Zenon DEF Others
<1>2. setup' = setup
  BY DEF Writes
<1>3. /\ DOMAIN Now' = DOMAIN source' \union DOMAIN destination'
      /\ \A p \in DOMAIN Now' : Now'[p] = PlanAt(source, destination, p)'
  BY Zenon DEF Now, BuildSyncPlan, PlanAt
<1>4. PlanAt(source, destination, path)' = PlanAt(source, destination, path)
  BY <1>1, <1>2, Zenon DEF PlanAt
<1>5. path \in DOMAIN Now'
  BY <1>1, <1>3, NowHas
<1> QED BY <1>3, <1>4, <1>5, NowHas

-----------------------------------------------------------------------------
(* What comparisons find *)

Nothing == {"Identical", "DestinationNewer"}

\* Moment: how a date is listed.
LEMMA Moment ==
  ASSUME NEW place, NEW object
  PROVE  /\ AsListed(place, object).size = Size[object.data]
         /\ AsListed(place, object).modified[1] = object.at \div 2
         /\ AsListed(place, object).modified
              = <<object.at \div 2, IF place.kind = "Local" THEN object.at % 2 ELSE 0>>
         /\ AsListed(place, object).etag
              = IF place.kind = "Local" THEN {} ELSE {<<object.data, object.parts>>}
BY DEF AsListed

\* NothingIsPromise: where a comparison finds nothing to do, the object there is as promised.
LEMMA NothingIsPromise ==
  ASSUME NEW source, NEW destination, NEW s \in Object, NEW d \in Object, NEW mode,
         Difference(AsListed(source, s), AsListed(destination, d), mode) \in Nothing
  PROVE  Promised(mode, s, d)
<1> DEFINE a == AsListed(source, s)
           b == AsListed(destination, d)
<1>1. mode # "AlwaysOverwrite"
  BY DEF Difference, Nothing
<1>2. CASE mode = "ChecksumIfAvailable"
  <2>1. a.etag # {} /\ a.etag = b.etag /\ a.size = b.size
    BY <1>2, Zenon DEF Difference, Nothing
  <2>2. a.etag \in {{}, {<<s.data, s.parts>>}} /\ b.etag \in {{}, {<<d.data, d.parts>>}}
    BY Moment
  <2>3. <<s.data, s.parts>> = <<d.data, d.parts>>
    <3> HIDE DEF a, b
    <3> QED BY <2>1, <2>2
  <2>4. Size[d.data] = Size[s.data] /\ d.data = s.data
    BY <2>3
  <2> QED BY <1>2, <2>4 DEF Promised
<1>3. CASE mode \notin {"AlwaysOverwrite", "ChecksumIfAvailable"}
  <2> HIDE DEF a, b
  <2>1. a.size = b.size
    BY <1>3 DEF Difference, Nothing, a, b
  <2>2. mode = "UpdateIfSourceNewer" =>
          a.modified = b.modified \/ SpelledBefore(a.modified, b.modified)
    BY <1>3 DEF Difference, Nothing, a, b
  <2>3. a.modified[1] = s.at \div 2 /\ b.modified[1] = d.at \div 2
    BY Moment, Zenon DEF a, b
  <2>4. s.at \div 2 \in Int /\ d.at \div 2 \in Int
    BY DEF Object
  <2>5. mode = "UpdateIfSourceNewer" => s.at \div 2 <= d.at \div 2
    BY <2>2, <2>3, <2>4 DEF SpelledBefore
  <2>6. Size[d.data] = Size[s.data]
    BY <2>1, Moment, Zenon DEF a, b
  <2> QED BY <1>3, <2>5, <2>6 DEF Promised
<1> QED BY <1>1, <1>2, <1>3

\* PromiseIsNothing: an object that is as promised is recognised as a copy by its length,
\* by its etag, or by its date.
LEMMA PromiseIsNothing ==
  ASSUME NEW source, NEW destination, NEW s \in Object, NEW d \in Object, NEW mode,
         Promised(mode, s, d),
         \/ mode = "SizeOnly"
         \/ /\ mode = "ChecksumIfAvailable"
            /\ source.kind = "S3" /\ destination.kind = "S3" /\ ~s.parts /\ ~d.parts
         \/ /\ mode = "UpdateIfSourceNewer"
            /\ source.kind \in {"Local", "S3"} /\ destination.kind \in {"Local", "S3"}
            /\ source.kind = "S3" => s.at % 2 = 0
            /\ destination.kind = "S3" => d.at % 2 = 0
            /\ s.at \div 2 # d.at \div 2 \/ s.at = d.at
  PROVE  /\ Difference(AsListed(source, s), AsListed(destination, d), mode) \in Nothing
         /\ mode # "UpdateIfSourceNewer" =>
              Difference(AsListed(source, s), AsListed(destination, d), mode) = "Identical"
<1> DEFINE a == AsListed(source, s)
           b == AsListed(destination, d)
<1>1. a.size = b.size
  BY Moment DEF Promised
<1>2. CASE mode = "SizeOnly"
  <2> HIDE DEF a, b
  <2> QED BY <1>1, <1>2 DEF Difference, Nothing, a, b
<1>3. CASE /\ mode = "ChecksumIfAvailable"
           /\ source.kind = "S3" /\ destination.kind = "S3" /\ ~s.parts /\ ~d.parts
  <2>1. s.parts = d.parts /\ s.data = d.data
    BY <1>3 DEF Promised, Object
  <2>2. a.etag = {<<s.data, s.parts>>} /\ b.etag = {<<d.data, d.parts>>}
    BY <1>3, Moment
  <2>3. a.etag # {} /\ a.etag = b.etag
    BY <2>1, <2>2
  <2> HIDE DEF a, b
  <2> QED BY <1>1, <1>3, <2>3, Zenon DEF Difference, Nothing, a, b
<1>4. CASE /\ mode = "UpdateIfSourceNewer"
           /\ source.kind \in {"Local", "S3"} /\ destination.kind \in {"Local", "S3"}
           /\ source.kind = "S3" => s.at % 2 = 0
           /\ destination.kind = "S3" => d.at % 2 = 0
           /\ s.at \div 2 # d.at \div 2 \/ s.at = d.at
  <2>1. s.at \in Nat /\ d.at \in Nat /\ s.at \div 2 <= d.at \div 2
    BY <1>4 DEF Promised, Object
  <2>2. a.modified = b.modified \/ SpelledBefore(a.modified, b.modified)
    <3>1. CASE s.at \div 2 # d.at \div 2
      <4>1. a.modified[1] = s.at \div 2 /\ b.modified[1] = d.at \div 2
        BY Moment, Zenon
      <4>2. s.at \div 2 < d.at \div 2
        BY <2>1, <3>1
      <4> HIDE DEF a, b
      <4> QED BY <4>1, <4>2 DEF SpelledBefore
    <3>2. CASE s.at = d.at
      <4>1. (IF source.kind = "Local" THEN s.at % 2 ELSE 0)
              = (IF destination.kind = "Local" THEN d.at % 2 ELSE 0)
        BY <1>4, <3>2
      <4>2. /\ a.modified = <<s.at \div 2, IF source.kind = "Local" THEN s.at % 2 ELSE 0>>
            /\ b.modified = <<d.at \div 2, IF destination.kind = "Local" THEN d.at % 2 ELSE 0>>
        BY Moment, Zenon
      <4>3. a.modified = b.modified
        BY <3>2, <4>1, <4>2, Zenon
      <4> QED BY <4>3
    <3> QED BY <1>4, <3>1, <3>2
  <2> HIDE DEF a, b
  <2> QED BY <1>1, <1>4, <2>2 DEF Difference, Nothing, a, b
<1> QED BY <1>2, <1>3, <1>4

\* NewerIsFound: an object of the same length is replaced, in the mode that looks for newer
\* ones, only if it is from no later second.
LEMMA NewerIsFound ==
  ASSUME NEW source, NEW destination, NEW s \in Object, NEW d \in Object,
         Size[s.data] = Size[d.data],
         Difference(AsListed(source, s), AsListed(destination, d), "UpdateIfSourceNewer") \notin Nothing
  PROVE  d.at \div 2 <= s.at \div 2
<1> DEFINE a == AsListed(source, s)
           b == AsListed(destination, d)
<1>1. a.size = b.size
  BY Moment
<1>2. a.modified[1] = s.at \div 2 /\ b.modified[1] = d.at \div 2
  BY Moment, Zenon
<1>3. s.at \div 2 \in Int /\ d.at \div 2 \in Int
  BY DEF Object
<1> HIDE DEF a, b
<1>4. ~(a.modified = b.modified \/ SpelledBefore(a.modified, b.modified))
  BY <1>1 DEF Difference, Nothing, a, b
<1>5. ~(a.modified[1] < b.modified[1])
  BY <1>4 DEF SpelledBefore
<1> QED BY <1>2, <1>3, <1>5

\* FiltersAgree: filters without dates let objects of the same length through alike.
LEMMA FiltersAgree ==
  ASSUME NEW filters, FixedFilters(filters), 
         filters.newer_than.date \union filters.older_than.date = {},
         NEW source, NEW destination, NEW s, NEW d, Size[s.data] = Size[d.data],
         NEW path, NEW t, ApplySyncFilters(AsListed(source, s), path, filters, t)
  PROVE  ApplySyncFilters(AsListed(destination, d), path, filters, t)
<1>1. ParseAgeFilter(filters.newer_than, t) = {} /\ ParseAgeFilter(filters.older_than, t) = {}
  BY DEF ParseAgeFilter, FixedFilters
<1>2. AsListed(source, s).size = AsListed(destination, d).size
  BY Moment
<1> QED BY <1>1, <1>2 DEF ApplySyncFilters

\* PathsOnly: filters with neither dates nor sizes look at paths only.
LEMMA PathsOnly ==
  ASSUME NEW filters, FixedFilters(filters), 
         filters.newer_than.date \union filters.older_than.date = {},
         filters.min_size.number \union filters.max_size.number = {},
         NEW object, NEW path, NEW t, PathPasses(path, filters)
  PROVE  ApplySyncFilters(object, path, filters, t)
<1>1. ParseAgeFilter(filters.newer_than, t) = {} /\ ParseAgeFilter(filters.older_than, t) = {}
  BY DEF ParseAgeFilter, FixedFilters
<1>2. ParseSizeFilter(filters.min_size) = {} /\ ParseSizeFilter(filters.max_size) = {}
  BY DEF ParseSizeFilter
<1> QED BY <1>1, <1>2 DEF ApplySyncFilters

\* Reason: what the comparison finds at a path.
Reason(source, destination, path) ==
  Difference(source[path], destination[path], setup.compare_mode)

\* PlanMeans: what each kind of item says of the two listings.
LEMMA PlanMeans ==
  ASSUME PlannerType, NEW source, NEW destination,
         NEW path \in DOMAIN source \union DOMAIN destination
  PROVE  /\ PlanAt(source, destination, path) \in {"Create", "Update"} => path \in DOMAIN source
         /\ /\ PlanAt(source, destination, path) \in {"Create", "Update"}
            /\ path \in DOMAIN destination
            => /\ Reason(source, destination, path) # "Identical"
               /\ setup.mode = "Copy" \/ setup.policy.destination_newer_policy # "SourceWins" =>
                    Reason(source, destination, path) \notin Nothing
         /\ /\ PlanAt(source, destination, path) \notin {"Create", "Update"}
            /\ path \in DOMAIN source /\ Carries
            => path \in DOMAIN destination /\ Reason(source, destination, path) \in Nothing
         /\ PlanAt(source, destination, path) = "Delete"
              <=> /\ path \notin DOMAIN source
                  /\ setup.mode # "Copy" /\ setup.policy.delete_extras
<1> DEFINE r == Reason(source, destination, path)
           newer == setup.policy.destination_newer_policy
<1>1. newer \in {"SourceWins", "Skip", "Conflict"}
  BY SetupFacts DEF Policies
<1>2. CASE path \notin DOMAIN destination
  BY <1>2 DEF PlanAt
<1>3. CASE path \in DOMAIN destination /\ path \notin DOMAIN source
  BY <1>3 DEF PlanAt, MissingOnSourceAction
<1>4. CASE path \in DOMAIN destination /\ path \in DOMAIN source /\ setup.mode = "Copy"
  <2>1. PlanAt(source, destination, path) = IF r \in Nothing THEN "Skip" ELSE "Update"
    BY <1>4, Zenon DEF PlanAt, CompareCopyObjects, Reason, Nothing
  <2> HIDE DEF r
  <2> QED BY <1>4, <2>1 DEF Nothing, r
<1>5. CASE path \in DOMAIN destination /\ path \in DOMAIN source /\ setup.mode # "Copy"
  <2>1. PlanAt(source, destination, path)
          = CASE r = "Identical" -> "Skip"
              [] r = "DestinationNewer" /\ newer # "SourceWins" -> newer
              [] OTHER -> UpdateOrConflict(setup.policy.overwrite_changed)
    BY <1>5, Zenon DEF PlanAt, CompareSyncObjects, Reason
  <2> HIDE DEF r, newer
  <2>2. CASE r = "Identical"
    BY <1>5, <2>1, <2>2 DEF Nothing, r, newer
  <2>3. CASE r = "DestinationNewer" /\ newer # "SourceWins"
    BY <1>1, <1>5, <2>1, <2>3 DEF Nothing, r, newer
  <2>4. CASE r # "Identical" /\ ~(r = "DestinationNewer" /\ newer # "SourceWins")
    <3>1. PlanAt(source, destination, path) = UpdateOrConflict(setup.policy.overwrite_changed)
      BY <2>1, <2>4
    <3> QED BY <1>5, <2>4, <3>1 DEF UpdateOrConflict, Nothing, r, newer, Carries
  <2> QED BY <2>2, <2>3, <2>4
<1> QED BY <1>2, <1>3, <1>4, <1>5

-----------------------------------------------------------------------------
(* Types *)

\* SourceFits: there are locations for all that is listed of the source.
LEMMA SourceFits ==
  ASSUME PlannerType
  PROVE  FitsAll(DOMAIN Enumerate(setup.source))
<1> SUFFICES ASSUME NEW path \in DOMAIN Enumerate(setup.source)
             PROVE  At(setup.source, path) \in Locations /\ At(setup.destination, path) \in Locations
  BY DEF FitsAll
<1>1. path \in DOMAIN Listed(store, setup.filters, now, setup.source)
  BY EnumerateIs, Zenon
<1>2. Named(store, setup.filters, now, setup.source, path) # {}
  BY <1>1, ListedDomain, ZenonT(30)
<1>3. PICK key \in Named(store, setup.filters, now, setup.source, path) : TRUE
  BY <1>2, Zenon
<1>4. /\ key \in Keys /\ IsPrefix(setup.source.prefix, key)
      /\ RelativePath(setup.source, key) = path /\ PathPasses(path, setup.filters)
  BY <1>3, Zenon DEF Named, Under, ApplySyncFilters
<1>5. setup \in Setups
  BY DEF PlannerType
<1> QED BY <1>4, <1>5, KeysAssumption, Zenon

\* CopyType: a copy is an object of the present, dated as its place dates.
LEMMA CopyType ==
  ASSUME PlannerType, NEW object \in Object
  PROVE  /\ CopyOf(object) \in Object
         /\ CopyOf(object).data = object.data
         /\ CopyOf(object).at <= now
         /\ CopyOf(object).at \div 2 = now \div 2
         /\ setup.destination.kind # "Local" => CopyOf(object).at % 2 = 0
<1>1. now \in Nat
  BY DEF PlannerType
<1>2. /\ CopyOf(object).data = object.data
      /\ CopyOf(object).at = IF setup.destination.kind = "Local" THEN now ELSE 2 * (now \div 2)
  BY DEF CopyOf
<1>3. /\ 2 * (now \div 2) \in Nat /\ 2 * (now \div 2) <= now
      /\ (2 * (now \div 2)) \div 2 = now \div 2 /\ (2 * (now \div 2)) % 2 = 0
  BY <1>1
<1>4. CopyOf(object).at \in Nat
  BY <1>1, <1>2, <1>3
<1>5. CopyOf(object) \in Object
  BY <1>2, <1>4 DEF CopyOf, Object
<1> QED BY <1>1, <1>2, <1>3, <1>5

\* TypeInit: the types hold at first.
LEMMA TypeInit == PlannerInit => PlannerTypes
<1> SUFFICES ASSUME PlannerInit PROVE PlannerTypes
  OBVIOUS
<1> USE DEF PlannerInit
<1>1. PlannerType
  BY StoresAssumption, ClockAssumption DEF PlannerType
<1>2. Dated
  <2>1. \A l \in Locations : store[l].at <= now
    BY StoresAssumption
  <2>2. \A place \in {setup.source, setup.destination}, key \in Keys :
          place.kind = "S3" => store[<<place.space, key>>].at % 2 = 0
    BY StoresAssumption, Zenon
  <2> QED BY <2>1, <2>2 DEF Dated
<1>3. Between /\ Fits
  BY DEF Between, Fits, FitsAll
<1> QED BY <1>1, <1>2, <1>3 DEF PlannerTypes

\* ListSourceType: the listing of the source has only what there are locations for.
LEMMA ListSourceType ==
  ASSUME PlannerTypes, ListSource
  PROVE  PlannerTypes'
<1> USE DEF PlannerTypes, ListSource
<1>1. PlannerType' /\ Between'
  BY DEF PlannerType, Between
<1>2. Dated'
  BY Zenon DEF Dated
<1>3. FitsAll(DOMAIN Enumerate(setup.source)) /\ FitsAll(transfers)
  BY SourceFits DEF Fits
<1>4. Fits'
  BY <1>3, Zenon DEF Fits, FitsAll
<1> QED BY <1>1, <1>2, <1>4

\* ListDestinationType: a plan transfers only what was listed of the source.
LEMMA ListDestinationType ==
  ASSUME PlannerTypes, ListDestination
  PROVE  PlannerTypes'
<1> DEFINE p == BuildSyncPlan(source_snapshot, Enumerate(setup.destination))
<1>1. /\ stage = "source" /\ stage' = "planned" /\ failed' = FALSE
      /\ transfers' = IF setup.mode = "Diff" THEN {} ELSE TransfersIn(p)
      /\ deletes' = IF setup.mode = "Diff" THEN {} ELSE DeletesIn(p)
      /\ UNCHANGED <<setup, store, now, source_snapshot, writes, quiet, settled_at>>
  BY Zenon DEF ListDestination
<1>2. \A path \in TransfersIn(p) : path \in DOMAIN source_snapshot
  <2> SUFFICES ASSUME NEW path \in TransfersIn(p) PROVE path \in DOMAIN source_snapshot
    OBVIOUS
  <2>1. path \in DOMAIN p /\ p[path] \in {"Create", "Update"}
    BY DEF TransfersIn
  <2> HIDE DEF p
  <2>2. /\ path \in DOMAIN source_snapshot \union DOMAIN Enumerate(setup.destination)
        /\ p[path] = PlanAt(source_snapshot, Enumerate(setup.destination), path)
    BY <2>1, PlanHas, Zenon DEF p
  <2> QED BY <2>1, <2>2, PlanMeans, Zenon DEF PlannerTypes
<1> HIDE DEF p
<1> USE DEF PlannerTypes
<1>3. PlannerType' /\ Between'
  BY <1>1 DEF PlannerType, Between
<1>4. Dated'
  BY <1>1, Zenon DEF Dated
<1>5. \A path \in transfers' : path \in DOMAIN source_snapshot
  BY <1>1, <1>2
<1>6. Fits'
  BY <1>1, <1>5, Zenon DEF Fits, FitsAll
<1> QED BY <1>3, <1>4, <1>6

\* TransferType: a transfer puts an object of the present where there is a location.
LEMMA TransferType ==
  ASSUME PlannerTypes, NEW path \in transfers, Transfer(path)
  PROVE  PlannerTypes'
<1> DEFINE source == store[At(setup.source, path)]
           there  == At(setup.destination, path)
<1>1. /\ transfers' = transfers \ {path}
      /\ UNCHANGED <<setup, now, stage, source_snapshot, plan, deletes, writes, plans, quiet,
                     settled_at>>
      /\ \/ source # Absent /\ store' = [store EXCEPT ![there] = CopyOf(source)] /\ failed' = failed
         \/ failed' = TRUE /\ store' = store
  BY Zenon DEF Transfer
<1>2. At(setup.source, path) \in Locations /\ there \in Locations
  BY DEF PlannerTypes, Fits, FitsAll
<1>3. /\ setup \in Setups /\ store \in [Locations -> Object \union {Absent}] /\ now \in Nat
      /\ PlannerType
  BY DEF PlannerTypes, PlannerType
<1>4. stage = "planned"
  BY DEF PlannerTypes, Between, PlannerType
<1> HIDE DEF source
<1>5. source # Absent =>
        /\ CopyOf(source) \in Object /\ CopyOf(source).at <= now
        /\ setup.destination.kind # "Local" => CopyOf(source).at % 2 = 0
  <2>1. source # Absent => source \in Object
    BY <1>2, <1>3 DEF source
  <2> QED BY <1>3, <2>1, CopyType, Zenon
<1>6. store' \in [Locations -> Object \union {Absent}]
  BY <1>1, <1>3, <1>5
<1>7. PlannerType'
  BY <1>1, <1>6 DEF PlannerTypes, PlannerType
<1>8. \A l \in Locations : store'[l] = store[l] \/ (l = there /\ source # Absent /\ store'[l] = CopyOf(source))
  BY <1>1, <1>3
<1>9. Dated'
  <2>1. ASSUME NEW l \in Locations PROVE store'[l].at <= now
    BY <1>5, <1>8 DEF PlannerTypes, Dated
  <2>2. ASSUME NEW place \in {setup.source, setup.destination}, NEW key \in Keys, place.kind = "S3"
        PROVE  store'[<<place.space, key>>].at % 2 = 0
    <3>1. store[<<place.space, key>>].at % 2 = 0
      BY <2>2 DEF PlannerTypes, Dated
    <3>2. place.space \in Spaces
      BY <1>3, SetupFacts
    <3>3. <<place.space, key>> \in Locations
      BY <3>2 DEF Locations
    <3>4. <<place.space, key>> = there => setup.destination.kind # "Local"
      <4>1. there[1] = setup.destination.space
        BY DEF At
      <4>2. setup.source.kind # setup.destination.kind =>
              setup.source.space # setup.destination.space
        BY <1>3, SetupFacts, Zenon
      <4> HIDE DEF there
      <4> QED BY <2>2, <4>1, <4>2
    <3> HIDE DEF there
    <3> QED BY <1>5, <1>8, <3>1, <3>3, <3>4
  <2> QED BY <1>1, <2>1, <2>2, Zenon DEF Dated
<1>10. Between'
  BY <1>1, <1>4 DEF PlannerTypes, Between
<1>11. Fits'
  BY <1>1 DEF PlannerTypes, Fits, FitsAll
<1> QED BY <1>7, <1>9, <1>10, <1>11 DEF PlannerTypes

\* DeleteType: a deletion leaves objects or nothing.
LEMMA DeleteType ==
  ASSUME PlannerTypes, NEW paths \in SUBSET deletes, Delete(paths)
  PROVE  PlannerTypes'
<1>1. /\ deletes' = deletes \ paths
      /\ UNCHANGED <<setup, now, stage, source_snapshot, plan, transfers, writes, plans, quiet,
                     settled_at>>
      /\ failed' \in BOOLEAN
      /\ \E done \in {paths} \union {paths \ {p} : p \in paths} :
           store' = [l \in Locations |->
                      IF \E p \in done : l = At(setup.destination, p) THEN Absent ELSE store[l]]
  BY DEF Delete
<1>2. \A l \in Locations : store'[l] \in {Absent, store[l]}
  BY <1>1
<1>3. store' \in [Locations -> Object \union {Absent}]
  BY <1>1 DEF PlannerTypes, PlannerType
<1>4. PlannerType'
  BY <1>1, <1>3 DEF PlannerTypes, PlannerType
<1>5. Absent.at = 0
  BY DEF Absent
<1>6. Dated'
  <2>1. ASSUME NEW l \in Locations PROVE store'[l].at <= now
    BY <1>2, <1>5 DEF PlannerTypes, Dated, PlannerType
  <2>2. ASSUME NEW place \in {setup.source, setup.destination}, NEW key \in Keys, place.kind = "S3"
        PROVE  store'[<<place.space, key>>].at % 2 = 0
    <3>1. store[<<place.space, key>>].at % 2 = 0
      BY <2>2 DEF PlannerTypes, Dated
    <3>2. place.space \in Spaces
      BY SetupFacts DEF PlannerTypes
    <3>3. <<place.space, key>> \in Locations
      BY <3>2 DEF Locations
    <3> QED BY <1>2, <1>5, <3>1, <3>3
  <2> QED BY <1>1, <2>1, <2>2, Zenon DEF Dated
<1>7. Between'
  <2>1. stage # "planned" => deletes' = {} /\ failed' = FALSE
    <3>1. ASSUME stage # "planned" PROVE paths = {} /\ deletes = {}
      BY <3>1 DEF PlannerTypes, Between
    <3>2. stage # "planned" => failed' = FALSE
      BY <3>1, Zenon DEF Delete
    <3> QED BY <1>1, <3>1, <3>2
  <2> QED BY <1>1, <2>1 DEF PlannerTypes, Between
<1>8. Fits'
  BY <1>1, Zenon DEF PlannerTypes, Fits, FitsAll
<1> QED BY <1>4, <1>6, <1>7, <1>8 DEF PlannerTypes

\* FinishType: the end of a run leaves no tasks.
LEMMA FinishType ==
  ASSUME PlannerTypes, Finish
  PROVE  PlannerTypes'
<1> USE DEF PlannerTypes, Finish
<1>1. PlannerType'
  BY DEF PlannerType
<1>2. Dated'
  BY Zenon DEF Dated
<1>3. Between'
  BY DEF Between, PlannerType
<1>4. Fits'
  BY DEF Fits, FitsAll
<1> QED BY <1>1, <1>2, <1>3, <1>4

\* WriteType: other programs write objects of the present.
LEMMA WriteType ==
  ASSUME PlannerTypes, NEW l \in Locations,
         NEW object \in {Absent} \union {[data |-> d, at |-> 2 * (now \div 2), parts |-> FALSE] : d \in Data},
         Write(l, object)
  PROVE  PlannerTypes'
<1>1. now \in Nat /\ store \in [Locations -> Object \union {Absent}]
  BY DEF PlannerTypes, PlannerType
<1>2. /\ 2 * (now \div 2) \in Nat /\ 2 * (now \div 2) <= now /\ (2 * (now \div 2)) % 2 = 0
  BY <1>1
<1>3. object \in Object \union {Absent} /\ object.at <= now /\ object.at % 2 = 0
  <2>1. CASE object = Absent
    BY <1>1, <2>1 DEF Absent
  <2>2. ASSUME NEW d \in Data, object = [data |-> d, at |-> 2 * (now \div 2), parts |-> FALSE]
        PROVE  object \in Object /\ object.at = 2 * (now \div 2)
    BY <1>2, <2>2 DEF Object
  <2> QED BY <1>2, <2>1, <2>2
<1>4. /\ store' = [store EXCEPT ![l] = object]
      /\ UNCHANGED <<setup, now, stage, source_snapshot, plan, transfers, deletes, failed, plans>>
      /\ quiet' = FALSE /\ settled_at' = 0
  BY DEF Write
<1>5. \A k \in Locations : store'[k] \in {store[k], object}
  BY <1>1, <1>4
<1>6. PlannerType'
  <2>1. store' \in [Locations -> Object \union {Absent}]
    BY <1>1, <1>3, <1>4
  <2> QED BY <1>4, <2>1 DEF PlannerTypes, PlannerType
<1>7. Dated'
  <2>1. ASSUME NEW k \in Locations PROVE store'[k].at <= now
    BY <1>3, <1>5 DEF PlannerTypes, Dated
  <2>2. ASSUME NEW place \in {setup.source, setup.destination}, NEW key \in Keys, place.kind = "S3"
        PROVE  store'[<<place.space, key>>].at % 2 = 0
    <3>1. store[<<place.space, key>>].at % 2 = 0
      BY <2>2 DEF PlannerTypes, Dated
    <3>2. place.space \in Spaces
      BY SetupFacts DEF PlannerTypes
    <3>3. <<place.space, key>> \in Locations
      BY <3>2 DEF Locations
    <3> QED BY <1>3, <1>5, <3>1, <3>3
  <2> QED BY <1>4, <2>1, <2>2, Zenon DEF Dated
<1>8. Between'
  BY <1>4 DEF PlannerTypes, Between
<1>9. Fits'
  BY <1>4, Zenon DEF PlannerTypes, Fits, FitsAll
<1> QED BY <1>6, <1>7, <1>8, <1>9 DEF PlannerTypes

\* TickType: nothing gets a date by time passing.
LEMMA TickType ==
  ASSUME PlannerTypes, Tick
  PROVE  PlannerTypes'
<1>1. /\ now' = now + 1
      /\ UNCHANGED <<setup, store, stage, source_snapshot, plan, transfers, deletes, failed, writes,
                     plans, quiet, settled_at>>
  BY DEF Tick
<1>2. PlannerType'
  BY <1>1 DEF PlannerTypes, PlannerType
<1>3. Dated'
  <2>1. ASSUME NEW l \in Locations PROVE store[l].at <= now + 1
    <3>1. store[l].at \in Nat /\ store[l].at <= now /\ now \in Nat
      BY DEF PlannerTypes, PlannerType, Dated, Object, Absent
    <3> QED BY <3>1
  <2> QED BY <1>1, <2>1, Zenon DEF PlannerTypes, Dated
<1>4. Between'
  BY <1>1 DEF PlannerTypes, Between
<1>5. Fits'
  BY <1>1, Zenon DEF PlannerTypes, Fits, FitsAll
<1> QED BY <1>2, <1>3, <1>4, <1>5 DEF PlannerTypes

\* Written: a write of another program is of an object, at a location.
LEMMA Written ==
  ASSUME PlannerTypes, NEW l \in {setup.source.space, setup.destination.space} \X Keys,
         \/ Write(l, Absent)
         \/ \E d \in Data : Write(l, [data |-> d, at |-> 2 * (now \div 2), parts |-> FALSE])
  PROVE  /\ l \in Locations
         /\ \E object \in {Absent} \union
                 {[data |-> d, at |-> 2 * (now \div 2), parts |-> FALSE] : d \in Data} :
              Write(l, object)
<1>1. l \in Locations
  BY SetupFacts DEF PlannerTypes, Locations
<1> QED BY <1>1, Zenon

\* TypeNext: every step keeps the types.
LEMMA TypeNext ==
  ASSUME PlannerTypes, [PlannerNext]_plannerVars
  PROVE  PlannerTypes'
<1>1. CASE ListSource
  BY <1>1, ListSourceType
<1>2. CASE ListDestination
  BY <1>2, ListDestinationType
<1>3. CASE \E path \in transfers : Transfer(path)
  BY <1>3, TransferType
<1>4. CASE \E paths \in SUBSET deletes : Delete(paths)
  BY <1>4, DeleteType
<1>5. CASE Finish
  BY <1>5, FinishType
<1>6. ASSUME NEW l \in {setup.source.space, setup.destination.space} \X Keys,
             \/ Write(l, Absent)
             \/ \E d \in Data : Write(l, [data |-> d, at |-> 2 * (now \div 2), parts |-> FALSE])
      PROVE  PlannerTypes'
  BY <1>6, Written, WriteType, Zenon
<1>7. CASE Tick
  BY <1>7, TickType
<1>8. CASE UNCHANGED plannerVars
  <2>1. PlannerType' /\ Dated' /\ Between' /\ Fits'
    BY <1>8, Zenon DEF PlannerTypes, plannerVars, PlannerType, Dated, Between, Fits, FitsAll
  <2> QED BY <2>1 DEF PlannerTypes
<1> QED BY <1>1, <1>2, <1>3, <1>4, <1>5, <1>6, <1>7, <1>8, Zenon DEF PlannerNext

-----------------------------------------------------------------------------
(* Steps that leave tasks *)

\* NowTrimmed: the paths of a plan begin with no slash, and those of the source pass the
\* filters of paths.
LEMMA NowTrimmed ==
  ASSUME PlannerType, Proper, NEW path \in DOMAIN Now
  PROVE  /\ Trimmed(path)
         /\ PathPasses(path, setup.filters)
<1>1. setup.source.prefix \in Seq(STRING) /\ setup.destination.prefix \in Seq(STRING)
  BY SetupFacts
<1>2. Ends(setup.source) /\ Ends(setup.destination)
  BY ProperEnds
<1>3. \/ path \in DOMAIN Listed(store, setup.filters, now, setup.source)
      \/ path \in DOMAIN Listed(store, setup.filters, now, setup.destination)
  BY NowHas, EnumerateIs, Zenon
<1> QED BY <1>1, <1>2, <1>3, ListsIsListed, Zenon

\* SourceObject: a write at the destination leaves the objects of the source.
LEMMA SourceObject ==
  ASSUME PlannerType, Proper, Apart, NEW paths, Writes(paths), NEW path, Trimmed(path),
         At(setup.source, path) \in Locations
  PROVE  store'[At(setup.source, path)] = store[At(setup.source, path)]
<1>1. /\ setup.source.prefix \in Seq(STRING) /\ setup.destination.prefix \in Seq(STRING)
      /\ setup.source.space \in Spaces /\ setup.destination.space \in Spaces
  BY SetupFacts
<1>2. Ends(setup.source) /\ Ends(setup.destination) /\ ApartFrom(setup.source, setup.destination)
  BY ProperEnds, ApartBoth
<1>3. Same(store, store', setup.source)
  BY <1>1, <1>2, SourceStays DEF Writes
<1>4. /\ At(setup.source, path) = <<setup.source.space, JoinKey(setup.source.prefix, path)>>
      /\ JoinKey(setup.source.prefix, path) \in Keys
  BY DEF At, Locations
<1>5. IsPrefix(setup.source.prefix, JoinKey(setup.source.prefix, path))
  BY <1>1, <1>2, JoinedIsNamed
<1> QED BY <1>3, <1>4, <1>5, Zenon DEF Same

\* NotAbsent: no object is an absent one.
LEMMA NotAbsent ==
  ASSUME NEW object \in Object
  PROVE  object # Absent
BY DataAssumption DEF Object, Absent

\* NotBoth: nothing is to be transferred and deleted.
LEMMA NotBoth ==
  ASSUME TasksStand, Undisturbed, stage = "planned"
  PROVE  \A path \in transfers : path \notin deletes
BY DEF TasksStand

\* KeepTasks: a step that writes at paths of tasks it takes away leaves the other tasks, and
\* what was listed of the source.
LEMMA KeepTasks ==
  ASSUME PlannerType, SourceKept, TasksStand, Undisturbed, NEW paths, Writes(paths),
         UNCHANGED <<quiet, stage, source_snapshot>>,
         transfers' \subseteq transfers, deletes' \subseteq deletes,
         \A path \in transfers' \union deletes' : path \notin paths
  PROVE  SourceKept' /\ TasksStand'
<1>1. Proper /\ Apart
  BY DEF Undisturbed
<1>2. Enumerate(setup.source)' = Enumerate(setup.source)
  BY <1>1, WriteFrame
<1>3. SourceKept'
  BY <1>2, Zenon DEF SourceKept
<1>4. ASSUME stage = "planned"
      PROVE  /\ \A path \in transfers' : path \in DOMAIN Now' /\ Now'[path] \in {"Create", "Update"}
             /\ \A path \in deletes'   : path \in DOMAIN Now' /\ Now'[path] = "Delete"
  <2>1. /\ \A path \in transfers : path \in DOMAIN Now /\ Now[path] \in {"Create", "Update"}
        /\ \A path \in deletes   : path \in DOMAIN Now /\ Now[path] = "Delete"
    BY <1>4, Zenon DEF TasksStand
  <2>2. ASSUME NEW path \in transfers' \union deletes'
        PROVE  path \in DOMAIN Now' /\ Now'[path] = Now[path]
    <3>1. path \in DOMAIN Now /\ path \notin paths
      BY <2>1
    <3> QED BY <1>1, <3>1, NowStays
  <2>3. ASSUME NEW path \in transfers'
        PROVE  path \in DOMAIN Now' /\ Now'[path] \in {"Create", "Update"}
    <3>1. Now[path] \in {"Create", "Update"}
      BY <2>1
    <3> QED BY <2>2, <3>1
  <2>4. ASSUME NEW path \in deletes'
        PROVE  path \in DOMAIN Now' /\ Now'[path] = "Delete"
    <3>1. Now[path] = "Delete"
      BY <2>1
    <3> QED BY <2>2, <3>1
  <2> QED BY <2>3, <2>4
<1>5. TasksStand'
  BY <1>4, Zenon DEF TasksStand
<1> QED BY <1>3, <1>5

\* Stays: what does not depend on the store.
LEMMA Stays ==
  ASSUME setup' = setup
  PROVE  /\ Proper' <=> Proper
         /\ Apart' <=> Apart
         /\ Timeless' <=> Timeless
         /\ Carries' <=> Carries
         /\ DeletesExtras' <=> DeletesExtras
BY Zenon DEF Proper, Apart, Timeless, Carries, DeletesExtras

\* UndisturbedStays: a step after which no other program has written is a step before which
\* none had.
LEMMA UndisturbedStays ==
  ASSUME setup' = setup, quiet' = quiet
  PROVE  Undisturbed' <=> Undisturbed
BY Stays, Zenon DEF Undisturbed

\* TransferWrites: a transfer writes at its path.
LEMMA TransferWrites ==
  ASSUME PlannerTypes, TasksStand, Undisturbed, NEW path \in transfers, Transfer(path)
  PROVE  /\ Writes({path})
         /\ stage = "planned"
         /\ path \in DOMAIN Enumerate(setup.source) /\ Trimmed(path)
         /\ transfers' = transfers \ {path}
         /\ UNCHANGED <<setup, now, stage, source_snapshot, deletes, quiet, settled_at>>
         /\ ~failed' => ~failed /\ store[At(setup.source, path)] # Absent
                        /\ store' = [store EXCEPT ![At(setup.destination, path)]
                                       = CopyOf(store[At(setup.source, path)])]
<1>1. stage = "planned"
  BY DEF PlannerTypes, Between, PlannerType
<1>2. path \in DOMAIN Now /\ Now[path] \in {"Create", "Update"}
  BY <1>1, Zenon DEF TasksStand
<1>3. Trimmed(path)
  BY <1>2, NowTrimmed DEF PlannerTypes, Undisturbed
<1>4. path \in DOMAIN Enumerate(setup.source)
  <2>1. /\ path \in DOMAIN Enumerate(setup.source) \union DOMAIN Enumerate(setup.destination)
        /\ PlanAt(Enumerate(setup.source), Enumerate(setup.destination), path) \in {"Create", "Update"}
    BY <1>2, NowHas, Zenon
  <2> QED BY <2>1, PlanMeans, Zenon DEF PlannerTypes
<1>5. /\ transfers' = transfers \ {path}
      /\ UNCHANGED <<setup, now, stage, source_snapshot, deletes, quiet, settled_at>>
  BY Zenon DEF Transfer
<1>6. \/ /\ store[At(setup.source, path)] # Absent
         /\ store' = [store EXCEPT ![At(setup.destination, path)]
                        = CopyOf(store[At(setup.source, path)])]
         /\ failed' = failed
      \/ failed' = TRUE /\ store' = store
  BY Zenon DEF Transfer
<1>7. \A l \in Locations : l # At(setup.destination, path) => store'[l] = store[l]
  BY <1>6 DEF PlannerTypes, PlannerType
<1>8. Writes({path})
  BY <1>3, <1>5, <1>7, Zenon DEF Writes, AllTrimmed, ChangedAt
<1> QED BY <1>1, <1>3, <1>4, <1>5, <1>6, <1>8

\* TransferMeets: what was transferred is as promised.
LEMMA TransferMeets ==
  ASSUME PlannerTypes, TasksStand, Undisturbed, NEW path \in transfers, Transfer(path), ~failed'
  PROVE  Meets(path)'
<1> DEFINE s == store[At(setup.source, path)]
           there == At(setup.destination, path)
<1>1. /\ Writes({path}) /\ Trimmed(path) /\ setup' = setup
      /\ s # Absent /\ store' = [store EXCEPT ![there] = CopyOf(s)]
  BY TransferWrites
<1>2. At(setup.source, path) \in Locations /\ there \in Locations
  BY DEF PlannerTypes, Fits, FitsAll
<1>3. s \in Object /\ s.at <= now /\ now \in Nat
  BY <1>1, <1>2 DEF PlannerTypes, PlannerType, Dated
<1>4. store'[At(setup.source, path)] = s
  BY <1>1, <1>2, SourceObject DEF PlannerTypes, Undisturbed
<1>5. store'[there] = CopyOf(s)
  BY <1>1, <1>2 DEF PlannerTypes, PlannerType
<1> HIDE DEF s, there
<1>6. /\ CopyOf(s) \in Object /\ CopyOf(s).data = s.data
      /\ CopyOf(s).at \div 2 = now \div 2
  BY <1>3, CopyType DEF PlannerTypes
<1>7. CopyOf(s) # Absent
  BY <1>6, NotAbsent
<1>8. s.at \div 2 <= now \div 2
  <2>1. s.at \in Nat
    BY <1>3 DEF Object
  <2> QED BY <1>3, <2>1
<1>9. Promised(setup.compare_mode, s, CopyOf(s))
  <2> DEFINE c == CopyOf(s)
  <2> HIDE DEF c
  <2>1. c.data = s.data /\ c.at \div 2 = now \div 2
    BY <1>6 DEF c
  <2>2. Promised(setup.compare_mode, s, c)
    BY <1>8, <2>1 DEF Promised
  <2> QED BY <2>2 DEF c
<1> QED BY <1>1, <1>2, <1>4, <1>5, <1>7, <1>9, Zenon DEF Meets, there

\* Disturbed: nothing is claimed of what other programs have changed.
LEMMA Disturbed ==
  ASSUME ~Undisturbed
  PROVE  PlannerHolds
BY DEF PlannerHolds, SourceKept, TasksStand, RunProgress, Settled

\* DisturbedAfter: the same after a step.
LEMMA DisturbedAfter ==
  ASSUME ~Undisturbed'
  PROVE  PlannerHolds'
BY DEF PlannerHolds, SourceKept, TasksStand, RunProgress, Settled

\* TransfersListed: what is to be transferred is listed of the source.
LEMMA TransfersListed ==
  ASSUME PlannerType, TasksStand, Undisturbed, stage = "planned", NEW path \in transfers
  PROVE  path \in DOMAIN Enumerate(setup.source)
<1>1. path \in DOMAIN Now /\ Now[path] \in {"Create", "Update"}
  BY Zenon DEF TasksStand
<1>2. /\ path \in DOMAIN Enumerate(setup.source) \union DOMAIN Enumerate(setup.destination)
      /\ PlanAt(Enumerate(setup.source), Enumerate(setup.destination), path) \in {"Create", "Update"}
  BY <1>1, NowHas, Zenon
<1> QED BY <1>2, PlanMeans, Zenon

\* DeletesUnlisted: what is to be deleted is not, and is listed of the destination.
LEMMA DeletesUnlisted ==
  ASSUME PlannerType, TasksStand, Undisturbed, stage = "planned", NEW path \in deletes
  PROVE  /\ path \notin DOMAIN Enumerate(setup.source)
         /\ path \in DOMAIN Enumerate(setup.destination)
         /\ setup.mode # "Copy" /\ setup.policy.delete_extras
<1>1. path \in DOMAIN Now /\ Now[path] = "Delete"
  BY Zenon DEF TasksStand
<1>2. /\ path \in DOMAIN Enumerate(setup.source) \union DOMAIN Enumerate(setup.destination)
      /\ PlanAt(Enumerate(setup.source), Enumerate(setup.destination), path) = "Delete"
  BY <1>1, NowHas, Zenon
<1>3. path \notin DOMAIN Enumerate(setup.source) /\ setup.mode # "Copy" /\ setup.policy.delete_extras
  BY <1>2, PlanMeans, Zenon
<1> QED BY <1>2, <1>3

\* TransferMain: a transfer.
LEMMA TransferMain ==
  ASSUME PlannerTypes, PlannerHolds, NEW path \in transfers, Transfer(path)
  PROVE  PlannerHolds'
<1>1. setup' = setup /\ quiet' = quiet
  BY Zenon DEF Transfer
<1>2. CASE ~Undisturbed
  BY <1>1, <1>2, UndisturbedStays, DisturbedAfter
<1>3. CASE Undisturbed
  <2> USE <1>3
  <2>1. PlannerType /\ Proper /\ Apart /\ SourceKept /\ TasksStand /\ RunProgress /\ Settled
    BY DEF PlannerTypes, PlannerHolds, Undisturbed
  <2>2. /\ Writes({path})
        /\ stage = "planned"
        /\ path \in DOMAIN Enumerate(setup.source) /\ Trimmed(path)
        /\ transfers' = transfers \ {path}
        /\ UNCHANGED <<setup, now, stage, source_snapshot, deletes, quiet, settled_at>>
        /\ ~failed' => ~failed
    BY <2>1, TransferWrites
  <2>3. SourceKept' /\ TasksStand'
    <3>1. \A p \in transfers' \union deletes' : p \notin {path}
      BY <2>1, <2>2, NotBoth
    <3> QED BY <2>1, <2>2, <3>1, KeepTasks
  <2>4. /\ Enumerate(setup.source)' = Enumerate(setup.source)
        /\ Straight' => Straight
        /\ Others({path})
    BY <2>1, <2>2, WriteFrame
  <2>5. RunProgress'
    <3> SUFFICES ASSUME Straight', ~failed', setup.mode # "Diff"
                 PROVE  /\ Carries => MetBut(transfers)'
                        /\ DeletesExtras => ExtrasIn(deletes)'
      BY <1>1, Stays, Zenon DEF RunProgress
    <3>1. (Carries => MetBut(transfers)) /\ (DeletesExtras => ExtrasIn(deletes))
      BY <2>1, <2>2, <2>4, Zenon DEF RunProgress
    <3>2. ASSUME Carries, NEW p \in DOMAIN Enumerate(setup.source)' \ transfers'
          PROVE  Meets(p)'
      <4>1. CASE p = path
        BY <2>1, <4>1, TransferMeets
      <4>2. CASE p # path
        <5>1. p \in DOMAIN Enumerate(setup.source) \ transfers
          BY <2>2, <2>4, <4>2
        <5>2. Meets(p)
          BY <3>1, <3>2, <5>1, Zenon DEF MetBut
        <5>3. p \in DOMAIN Enumerate(setup.source) \ {path}
          BY <4>2, <5>1
        <5> QED BY <2>4, <5>2, <5>3, Zenon DEF Others
      <4> QED BY <4>1, <4>2
    <3>3. ASSUME DeletesExtras, NEW p \in DOMAIN Enumerate(setup.destination)'
          PROVE  p \in DOMAIN Enumerate(setup.source)' \/ p \in deletes'
      <4>1. CASE p = path
        BY <2>2, <2>4, <4>1
      <4>2. CASE p # path
        <5>1. p \in DOMAIN Enumerate(setup.destination)
          BY <2>4, <4>2, Zenon DEF Others
        <5> QED BY <2>2, <2>4, <3>1, <3>3, <5>1, Zenon DEF ExtrasIn
      <4> QED BY <4>1, <4>2
    <3> QED BY <3>2, <3>3, Zenon DEF MetBut, ExtrasIn
  <2>6. Settled'
    <3> SUFFICES ASSUME settled_at # 0, Straight'
                 PROVE  (Carries => \A p \in transfers' : Meets(p)') /\ deletes' = {}
      BY <1>1, <2>2, Stays, Zenon DEF Settled
    <3>1. (Carries => \A p \in transfers : Meets(p)) /\ deletes = {}
      BY <2>1, <2>2, <2>4, Zenon DEF Settled
    <3>2. ASSUME Carries, NEW p \in transfers' PROVE Meets(p)'
      <4>1. p \in transfers /\ p # path
        BY <2>2
      <4>2. p \in DOMAIN Enumerate(setup.source) \ {path}
        BY <2>1, <2>2, <4>1, TransfersListed
      <4> QED BY <2>4, <3>1, <3>2, <4>1, <4>2, Zenon DEF Others
    <3> QED BY <2>2, <3>1, <3>2
  <2> QED BY <2>3, <2>5, <2>6 DEF PlannerHolds
<1> QED BY <1>2, <1>3

\* DeleteWrites: a deletion writes at its paths.
LEMMA DeleteWrites ==
  ASSUME PlannerTypes, TasksStand, Undisturbed, NEW paths \in SUBSET deletes, Delete(paths)
  PROVE  /\ Writes(paths)
         /\ transfers = {}
         /\ ~failed
         /\ deletes' = deletes \ paths
         /\ UNCHANGED <<setup, now, stage, source_snapshot, transfers, quiet, settled_at>>
         /\ ~failed' => \A l \in Locations : \A p \in paths :
                          l = At(setup.destination, p) => store'[l] = Absent
<1>1. /\ transfers = {} /\ ~failed /\ deletes' = deletes \ paths
      /\ UNCHANGED <<setup, now, stage, source_snapshot, transfers, quiet, settled_at>>
  BY Zenon DEF Delete
<1>2. PICK done \in {paths} \union {paths \ {p} : p \in paths} :
        /\ store' = [l \in Locations |->
                      IF \E p \in done : l = At(setup.destination, p) THEN Absent ELSE store[l]]
        /\ failed' = (done # paths)
  BY Zenon DEF Delete
<1>3. \A l \in Locations : (\A q \in paths : l # At(setup.destination, q)) => store'[l] = store[l]
  BY <1>2
<1>4. AllTrimmed(paths)
  <2> SUFFICES ASSUME NEW p \in paths PROVE Trimmed(p)
    BY DEF AllTrimmed
  <2>1. p \in deletes /\ stage = "planned"
    BY DEF PlannerTypes, Between, PlannerType
  <2>2. p \in DOMAIN Now
    BY <2>1, Zenon DEF TasksStand
  <2> QED BY <2>2, NowTrimmed DEF PlannerTypes, Undisturbed
<1>5. Writes(paths)
  BY <1>1, <1>3, <1>4, Zenon DEF Writes, ChangedAt
<1>6. ASSUME ~failed', NEW l \in Locations, NEW p \in paths, l = At(setup.destination, p)
      PROVE  store'[l] = Absent
  <2>1. done = paths
    BY <1>2, <1>6
  <2> QED BY <1>2, <1>6, <2>1
<1> QED BY <1>1, <1>5, <1>6

\* DeleteMain: a deletion.
LEMMA DeleteMain ==
  ASSUME PlannerTypes, PlannerHolds, NEW paths \in SUBSET deletes, Delete(paths)
  PROVE  PlannerHolds'
<1>1. setup' = setup /\ quiet' = quiet
  BY Zenon DEF Delete
<1>2. CASE ~Undisturbed
  BY <1>1, <1>2, UndisturbedStays, DisturbedAfter
<1>3. CASE Undisturbed
  <2> USE <1>3
  <2>1. PlannerType /\ Proper /\ Apart /\ SourceKept /\ TasksStand /\ RunProgress /\ Settled
    BY DEF PlannerTypes, PlannerHolds, Undisturbed
  <2>2. /\ Writes(paths) /\ transfers = {} /\ ~failed /\ deletes' = deletes \ paths
        /\ UNCHANGED <<setup, now, stage, source_snapshot, transfers, quiet, settled_at>>
        /\ ~failed' => \A l \in Locations : \A p \in paths :
                         l = At(setup.destination, p) => store'[l] = Absent
    BY <2>1, DeleteWrites
  <2>3. SourceKept' /\ TasksStand'
    BY <2>1, <2>2, KeepTasks
  <2>4. /\ Enumerate(setup.source)' = Enumerate(setup.source)
        /\ Straight' => Straight
        /\ Others(paths)
    BY <2>1, <2>2, WriteFrame
  <2>5. ASSUME NEW p \in paths
        PROVE  stage = "planned" /\ p \notin DOMAIN Enumerate(setup.source)
    <3>1. p \in deletes /\ stage = "planned"
      BY DEF PlannerTypes, Between, PlannerType
    <3> QED BY <2>1, <3>1, DeletesUnlisted
  <2>6. ASSUME Straight, NEW p \in DOMAIN Enumerate(setup.source), Meets(p)
        PROVE  Meets(p)'
    BY <2>4, <2>5, <2>6, Zenon DEF Others
  <2>7. RunProgress'
    <3> SUFFICES ASSUME stage = "planned", Straight', ~failed', setup.mode # "Diff"
                 PROVE  /\ Carries => MetBut(transfers)'
                        /\ DeletesExtras => ExtrasIn(deletes)'
      BY <1>1, <2>2, Stays, Zenon DEF RunProgress
    <3>1. (Carries => MetBut(transfers)) /\ (DeletesExtras => ExtrasIn(deletes))
      BY <2>1, <2>2, <2>4, Zenon DEF RunProgress
    <3>2. Carries => MetBut(transfers)'
      BY <2>2, <2>4, <2>6, <3>1, Zenon DEF MetBut
    <3>3. ASSUME DeletesExtras, NEW p \in DOMAIN Enumerate(setup.destination)'
          PROVE  p \in DOMAIN Enumerate(setup.source)' \/ p \in deletes'
      <4>1. CASE p \in paths
        <5>1. StraightIn(store', setup.destination)
          BY <1>1, EnumerateWillBe, Zenon
        <5>2. p \in DOMAIN Listed(store', setup.filters, now', setup.destination)
          BY <1>1, EnumerateWillBe, Zenon
        <5>3. Lists(store', setup.filters, now', setup.destination, p)
          BY <2>1, <5>1, <5>2, StraightEntry, SetupFacts, ProperEnds, Zenon
        <5>4. /\ At(setup.destination, p) = <<setup.destination.space, JoinKey(setup.destination.prefix, p)>>
              /\ JoinKey(setup.destination.prefix, p) \in Keys
              /\ store'[At(setup.destination, p)] # Absent
          BY <5>3, Zenon DEF Lists, At
        <5>5. At(setup.destination, p) \in Locations
          BY <2>1, <5>4, SetupFacts DEF Locations
        <5> QED BY <2>2, <4>1, <5>4, <5>5
      <4>2. CASE p \notin paths
        <5>1. p \in DOMAIN Enumerate(setup.destination)
          BY <2>4, <4>2, Zenon DEF Others
        <5>2. p \in DOMAIN Enumerate(setup.source) \/ p \in deletes
          BY <3>1, <3>3, <5>1, Zenon DEF ExtrasIn
        <5> QED BY <2>2, <2>4, <4>2, <5>2
      <4> QED BY <4>1, <4>2
    <3> QED BY <3>2, <3>3, Zenon DEF ExtrasIn
  <2>8. Settled'
    <3> SUFFICES ASSUME settled_at # 0, Straight'
                 PROVE  /\ stage # "planned" =>
                             (Carries => MetBut({})') /\ (DeletesExtras => ExtrasIn({})')
                        /\ stage = "planned" =>
                             (Carries => \A p \in transfers' : Meets(p)') /\ deletes' = {}
      BY <1>1, <2>2, Stays, Zenon DEF Settled
    <3>1. /\ stage # "planned" => (Carries => MetBut({})) /\ (DeletesExtras => ExtrasIn({}))
          /\ stage = "planned" => (Carries => \A p \in transfers : Meets(p)) /\ deletes = {}
      BY <2>1, <2>4, Zenon DEF Settled
    <3>2. CASE stage = "planned"
      BY <2>2, <3>1, <3>2
    <3>3. CASE stage # "planned"
      <4>1. Carries => MetBut({})'
        BY <2>4, <2>6, <3>1, <3>3, Zenon DEF MetBut
      <4>2. paths = {}
        BY <2>5, <3>3
      <4>3. DOMAIN Enumerate(setup.destination)' = DOMAIN Enumerate(setup.destination)
        BY <2>4, <4>2 DEF Others
      <4>4. DeletesExtras => ExtrasIn({})'
        BY <2>4, <3>1, <3>3, <4>3, Zenon DEF ExtrasIn
      <4> QED BY <3>3, <4>1, <4>4
    <3> QED BY <3>2, <3>3
  <2> QED BY <2>3, <2>7, <2>8 DEF PlannerHolds
<1> QED BY <1>2, <1>3

\* TickMain: time passes, and no filter counts from it.
LEMMA TickMain ==
  ASSUME PlannerTypes, PlannerHolds, Tick
  PROVE  PlannerHolds'
<1>1. UNCHANGED <<setup, store, stage, source_snapshot, transfers, deletes, failed, quiet, settled_at>>
  BY Zenon DEF Tick
<1>2. CASE ~Undisturbed
  BY <1>1, <1>2, UndisturbedStays, DisturbedAfter
<1>3. CASE Undisturbed
  <2> USE <1>3
  <2>1. PlannerType /\ Proper /\ Apart /\ SourceKept /\ TasksStand /\ RunProgress /\ Settled
    BY DEF PlannerTypes, PlannerHolds, Undisturbed
  <2>2. Writes({})
    BY <1>1 DEF Writes, AllTrimmed, ChangedAt, Undisturbed
  <2>3. SourceKept' /\ TasksStand'
    BY <1>1, <2>1, <2>2, KeepTasks
  <2>4. /\ Enumerate(setup.source)' = Enumerate(setup.source)
        /\ Straight' => Straight
        /\ Others({})
    BY <2>1, <2>2, WriteFrame
  <2>5. DOMAIN Enumerate(setup.destination)' = DOMAIN Enumerate(setup.destination)
    BY <2>4 DEF Others
  <2>6. \A p : Meets(p)' <=> Meets(p)
    BY <1>1, Zenon DEF Meets
  <2>7. RunProgress'
    BY <1>1, <2>1, <2>4, <2>5, <2>6, Stays, Zenon DEF RunProgress, MetBut, ExtrasIn
  <2>8. Settled'
    BY <1>1, <2>1, <2>4, <2>5, <2>6, Stays, Zenon DEF Settled, MetBut, ExtrasIn
  <2> QED BY <2>3, <2>7, <2>8 DEF PlannerHolds
<1> QED BY <1>2, <1>3

\* Unmoved: a step that neither writes nor takes time.
LEMMA Unmoved ==
  ASSUME UNCHANGED <<setup, store, now>>
  PROVE  /\ Enumerate(setup.source)' = Enumerate(setup.source)
         /\ Enumerate(setup.destination)' = Enumerate(setup.destination)
         /\ Straight' <=> Straight
         /\ \A p : Meets(p)' <=> Meets(p)
         /\ Now' = Now
<1>1. /\ Enumerate(setup.source)' = Enumerate(setup.source)
      /\ Enumerate(setup.destination)' = Enumerate(setup.destination)
      /\ Straight' <=> Straight
  BY EnumerateIs, EnumerateWillBe, Zenon
<1>2. \A p : Meets(p)' <=> Meets(p)
  BY Zenon DEF Meets
<1>3. Now' = Now
  BY <1>1, Zenon DEF Now, BuildSyncPlan
<1> QED BY <1>1, <1>2, <1>3

\* ListSourceMain: the source is listed, and from now on other programs are watched for.
LEMMA ListSourceMain ==
  ASSUME PlannerTypes, PlannerHolds, ListSource
  PROVE  PlannerHolds'
<1>1. /\ stage = "idle" /\ stage' = "source" /\ source_snapshot' = Enumerate(setup.source)
      /\ UNCHANGED <<setup, store, now, transfers, deletes, failed, settled_at>>
  BY Zenon DEF ListSource
<1>2. SourceKept'
  BY <1>1, Unmoved, Zenon DEF SourceKept
<1>3. TasksStand' /\ RunProgress'
  BY <1>1 DEF TasksStand, RunProgress
<1>4. Settled'
  <2> SUFFICES ASSUME settled_at # 0, Undisturbed', Straight'
               PROVE  (Carries => MetBut({})') /\ (DeletesExtras => ExtrasIn({})')
    BY <1>1, Stays, Zenon DEF Settled
  <2>1. quiet
    BY DEF PlannerTypes, Between
  <2>2. Undisturbed
    BY <1>1, <2>1, Stays, Zenon DEF Undisturbed
  <2>3. Straight
    BY <1>1, Unmoved
  <2>4. (Carries => MetBut({})) /\ (DeletesExtras => ExtrasIn({}))
    BY <1>1, <2>2, <2>3 DEF PlannerHolds, Settled
  <2> QED BY <1>1, <2>4, Unmoved, Zenon DEF MetBut, ExtrasIn
<1> QED BY <1>2, <1>3, <1>4 DEF PlannerHolds

\* Listing: what is listed, where no key has a slash after the prefix.
LEMMA Listing ==
  ASSUME PlannerType, Proper, Straight, NEW path
  PROVE  /\ path \in DOMAIN Enumerate(setup.source) =>
              /\ Lists(store, setup.filters, now, setup.source, path)
              /\ At(setup.source, path) \in Locations
              /\ store[At(setup.source, path)] \in Object
              /\ Enumerate(setup.source)[path]
                   = AsListed(setup.source, store[At(setup.source, path)])
         /\ path \in DOMAIN Enumerate(setup.destination) =>
              /\ Lists(store, setup.filters, now, setup.destination, path)
              /\ At(setup.destination, path) \in Locations
              /\ store[At(setup.destination, path)] \in Object
              /\ Enumerate(setup.destination)[path]
                   = AsListed(setup.destination, store[At(setup.destination, path)])
<1>1. /\ setup.source.prefix \in Seq(STRING) /\ setup.destination.prefix \in Seq(STRING)
      /\ setup.source.space \in Spaces /\ setup.destination.space \in Spaces
  BY SetupFacts
<1>2. Ends(setup.source) /\ Ends(setup.destination)
  BY ProperEnds
<1>3. StraightIn(store, setup.source) /\ StraightIn(store, setup.destination)
  BY EnumerateIs, Zenon
<1>4. store \in [Locations -> Object \union {Absent}]
  BY DEF PlannerType
<1>5. ASSUME path \in DOMAIN Enumerate(setup.source)
      PROVE  /\ Lists(store, setup.filters, now, setup.source, path)
             /\ At(setup.source, path) \in Locations
             /\ store[At(setup.source, path)] \in Object
             /\ Enumerate(setup.source)[path]
                  = AsListed(setup.source, store[At(setup.source, path)])
  <2>1. path \in DOMAIN Listed(store, setup.filters, now, setup.source)
    BY <1>5, EnumerateIs, Zenon
  <2>2. /\ Lists(store, setup.filters, now, setup.source, path)
        /\ Listed(store, setup.filters, now, setup.source)[path]
             = AsListed(setup.source, store[At(setup.source, path)])
    BY <1>1, <1>2, <1>3, <2>1, StraightEntry
  <2>3. At(setup.source, path) \in Locations
    BY <1>1, <2>2 DEF Lists, At, Locations
  <2>4. store[At(setup.source, path)] # Absent
    BY <2>2, Zenon DEF Lists
  <2>5. store[At(setup.source, path)] \in Object
    BY <1>4, <2>3, <2>4
  <2> QED BY <2>2, <2>3, <2>5, EnumerateIs, Zenon
<1>6. ASSUME path \in DOMAIN Enumerate(setup.destination)
      PROVE  /\ Lists(store, setup.filters, now, setup.destination, path)
             /\ At(setup.destination, path) \in Locations
             /\ store[At(setup.destination, path)] \in Object
             /\ Enumerate(setup.destination)[path]
                  = AsListed(setup.destination, store[At(setup.destination, path)])
  <2>1. path \in DOMAIN Listed(store, setup.filters, now, setup.destination)
    BY <1>6, EnumerateIs, Zenon
  <2>2. /\ Lists(store, setup.filters, now, setup.destination, path)
        /\ Listed(store, setup.filters, now, setup.destination)[path]
             = AsListed(setup.destination, store[At(setup.destination, path)])
    BY <1>1, <1>2, <1>3, <2>1, StraightEntry
  <2>3. At(setup.destination, path) \in Locations
    BY <1>1, <2>2 DEF Lists, At, Locations
  <2>4. store[At(setup.destination, path)] # Absent
    BY <2>2, Zenon DEF Lists
  <2>5. store[At(setup.destination, path)] \in Object
    BY <1>4, <2>3, <2>4
  <2> QED BY <2>2, <2>3, <2>5, EnumerateIs, Zenon
<1> QED BY <1>5, <1>6

\* ReasonIs: what is compared are the objects at the two locations of the path.
LEMMA ReasonIs ==
  ASSUME PlannerType, Proper, Straight, NEW path \in DOMAIN Enumerate(setup.source),
         path \in DOMAIN Enumerate(setup.destination)
  PROVE  Reason(Enumerate(setup.source), Enumerate(setup.destination), path)
           = Difference(AsListed(setup.source, store[At(setup.source, path)]),
                        AsListed(setup.destination, store[At(setup.destination, path)]),
                        setup.compare_mode)
BY Listing, Zenon DEF Reason

\* ListDestinationMain: the plan is built.
LEMMA ListDestinationMain ==
  ASSUME PlannerTypes, PlannerHolds, ListDestination
  PROVE  PlannerHolds'
<1> DEFINE p == BuildSyncPlan(source_snapshot, Enumerate(setup.destination))
<1>1. /\ stage = "source" /\ stage' = "planned" /\ failed' = FALSE
      /\ transfers' = IF setup.mode = "Diff" THEN {} ELSE TransfersIn(p)
      /\ deletes' = IF setup.mode = "Diff" THEN {} ELSE DeletesIn(p)
      /\ UNCHANGED <<setup, store, now, source_snapshot, quiet, settled_at>>
  BY Zenon DEF ListDestination
<1> HIDE DEF p
<1>2. CASE ~Undisturbed
  BY <1>1, <1>2, UndisturbedStays, DisturbedAfter
<1>3. CASE Undisturbed
  <2> USE <1>3
  <2> DEFINE source == Enumerate(setup.source)
             destination == Enumerate(setup.destination)
  <2>1. PlannerType /\ Proper /\ Apart /\ SourceKept /\ TasksStand /\ RunProgress /\ Settled
    BY DEF PlannerTypes, PlannerHolds, Undisturbed
  <2>2. source_snapshot = source
    BY <1>1, <2>1 DEF SourceKept
  <2>3. p = Now
    BY <2>2, Zenon DEF p, Now
  <2>4. /\ source' = source /\ destination' = destination /\ Now' = Now
        /\ Straight' <=> Straight
        /\ \A path : Meets(path)' <=> Meets(path)
    BY <1>1, Unmoved, Zenon
  <2> HIDE DEF source, destination
  <2>5. SourceKept'
    BY <1>1, <2>2, <2>4, Zenon DEF SourceKept, source
  <2>6. /\ \A path \in transfers' : path \in DOMAIN Now /\ Now[path] \in {"Create", "Update"}
        /\ \A path \in deletes'   : path \in DOMAIN Now /\ Now[path] = "Delete"
        /\ setup.mode # "Diff" => /\ \A path \in DOMAIN Now :
                                       Now[path] \in {"Create", "Update"} => path \in transfers'
                                  /\ \A path \in DOMAIN Now :
                                       Now[path] = "Delete" => path \in deletes'
    BY <1>1, <2>3 DEF TransfersIn, DeletesIn
  <2>7. TasksStand'
    BY <1>1, <2>4, <2>6, Zenon DEF TasksStand
  <2>8. /\ DOMAIN Now = DOMAIN source \union DOMAIN destination
        /\ \A path \in DOMAIN Now : Now[path] = PlanAt(source, destination, path)
    BY NowHas DEF source, destination
  <2>9. RunProgress'
    <3> SUFFICES ASSUME Straight, setup.mode # "Diff"
                 PROVE  /\ Carries => MetBut(transfers)'
                        /\ DeletesExtras => ExtrasIn(deletes)'
      BY <1>1, <2>4, Stays, Zenon DEF RunProgress
    <3>1. ASSUME Carries, NEW path \in DOMAIN source, path \notin transfers'
          PROVE  Meets(path)
      <4>1. path \in DOMAIN Now /\ PlanAt(source, destination, path) \notin {"Create", "Update"}
        BY <2>6, <2>8, <3>1
      <4>2. path \in DOMAIN destination /\ Reason(source, destination, path) \in Nothing
        BY <2>1, <2>8, <3>1, <4>1, PlanMeans, Zenon
      <4>3. /\ At(setup.destination, path) \in Locations
            /\ store[At(setup.source, path)] \in Object
            /\ store[At(setup.destination, path)] \in Object
        BY <2>1, <4>2, Listing, Zenon DEF source, destination
      <4>4. Promised(setup.compare_mode, store[At(setup.source, path)],
                     store[At(setup.destination, path)])
        <5>1. Difference(AsListed(setup.source, store[At(setup.source, path)]),
                         AsListed(setup.destination, store[At(setup.destination, path)]),
                         setup.compare_mode) \in Nothing
          BY <2>1, <4>2, ReasonIs, Zenon DEF source, destination
        <5> QED BY <4>3, <5>1, NothingIsPromise
      <4>5. store[At(setup.destination, path)] # Absent
        BY <4>3, NotAbsent
      <4> QED BY <4>3, <4>4, <4>5, Zenon DEF Meets
    <3>2. Carries => MetBut(transfers)'
      BY <2>4, <3>1, Zenon DEF MetBut, source
    <3>3. ASSUME DeletesExtras, NEW path \in DOMAIN destination, path \notin DOMAIN source
          PROVE  path \in deletes'
      <4>1. PlanAt(source, destination, path) = "Delete"
        BY <2>1, <3>3, PlanMeans DEF DeletesExtras
      <4> QED BY <2>6, <2>8, <4>1
    <3>4. DeletesExtras => ExtrasIn(deletes)'
      BY <2>4, <3>3, Zenon DEF ExtrasIn, source, destination
    <3> QED BY <3>2, <3>4
  <2>10. Settled'
    <3> SUFFICES ASSUME settled_at # 0, Straight
                 PROVE  (Carries => \A path \in transfers' : Meets(path)') /\ deletes' = {}
      BY <1>1, <2>4, Stays, Zenon DEF Settled
    <3>1. (Carries => MetBut({})) /\ (DeletesExtras => ExtrasIn({}))
      BY <1>1, <2>1 DEF Settled
    <3>2. ASSUME Carries, NEW path \in transfers' PROVE Meets(path)'
      <4>1. path \in DOMAIN Now /\ PlanAt(source, destination, path) \in {"Create", "Update"}
        BY <2>6, <2>8, Zenon
      <4>2. path \in DOMAIN source
        BY <2>1, <2>8, <4>1, PlanMeans, Zenon
      <4> QED BY <2>4, <3>1, <3>2, <4>2 DEF MetBut, source
    <3>3. ASSUME NEW path \in deletes' PROVE FALSE
      <4>1. path \in DOMAIN Now /\ PlanAt(source, destination, path) = "Delete"
        BY <2>6, <2>8, Zenon
      <4>2. path \notin DOMAIN source /\ setup.mode # "Copy" /\ setup.policy.delete_extras
        BY <2>1, <2>8, <4>1, PlanMeans, Zenon
      <4>3. setup.mode # "Diff"
        BY DEF PlannerTypes, Between
      <4>4. DeletesExtras
        BY <2>1, <4>2, <4>3, SetupFacts DEF DeletesExtras
      <4>5. path \in DOMAIN destination
        BY <2>8, <4>1, <4>2
      <4> QED BY <3>1, <4>2, <4>4, <4>5 DEF ExtrasIn, source, destination
    <3> QED BY <3>2, <3>3
  <2> QED BY <2>5, <2>7, <2>9, <2>10 DEF PlannerHolds
<1> QED BY <1>2, <1>3

\* FinishMain: a run ends.
LEMMA FinishMain ==
  ASSUME PlannerTypes, PlannerHolds, Finish
  PROVE  PlannerHolds'
<1>1. /\ stage = "planned" /\ stage' = "idle" /\ transfers = {} /\ (deletes = {} \/ failed)
      /\ settled_at' = IF quiet /\ ~failed /\ setup.mode # "Diff" THEN now ELSE 0
      /\ UNCHANGED <<setup, store, now, transfers, quiet>>
  BY Zenon DEF Finish
<1>2. SourceKept' /\ TasksStand' /\ RunProgress'
  BY <1>1 DEF SourceKept, TasksStand, RunProgress
<1>3. Settled'
  <2> SUFFICES ASSUME settled_at' # 0, Undisturbed', Straight'
               PROVE  (Carries => MetBut({})') /\ (DeletesExtras => ExtrasIn({})')
    BY <1>1, Stays, Zenon DEF Settled
  <2>1. Undisturbed /\ Straight
    BY <1>1, UndisturbedStays, Unmoved
  <2>2. ~failed /\ setup.mode # "Diff" /\ deletes = {}
    BY <1>1
  <2>3. (Carries => MetBut({})) /\ (DeletesExtras => ExtrasIn({}))
    BY <1>1, <2>1, <2>2 DEF PlannerHolds, RunProgress
  <2> QED BY <1>1, <2>3, Unmoved, Zenon DEF MetBut, ExtrasIn
<1> QED BY <1>2, <1>3 DEF PlannerHolds

\* MainNext: every step keeps the invariant.
LEMMA MainNext ==
  ASSUME PlannerTypes, PlannerHolds, [PlannerNext]_plannerVars
  PROVE  PlannerHolds'
<1>1. CASE ListSource
  BY <1>1, ListSourceMain
<1>2. CASE ListDestination
  BY <1>2, ListDestinationMain
<1>3. CASE \E path \in transfers : Transfer(path)
  BY <1>3, TransferMain
<1>4. CASE \E paths \in SUBSET deletes : Delete(paths)
  BY <1>4, DeleteMain
<1>5. CASE Finish
  BY <1>5, FinishMain
<1>6. ASSUME NEW l, NEW object, Write(l, object)
      PROVE  PlannerHolds'
  <2>1. quiet' = FALSE
    BY <1>6 DEF Write
  <2> QED BY <2>1, DisturbedAfter DEF Undisturbed
<1>7. CASE Tick
  BY <1>7, TickMain
<1>8. CASE UNCHANGED plannerVars
  <2>1. /\ UNCHANGED <<setup, store, now, stage, source_snapshot, transfers, deletes, failed, quiet,
                       settled_at>>
    BY <1>8 DEF plannerVars
  <2>2. Undisturbed' <=> Undisturbed
    BY <2>1, UndisturbedStays
  <2>3. SourceKept' /\ TasksStand'
    BY <2>1, <2>2, Unmoved, Zenon DEF PlannerHolds, SourceKept, TasksStand
  <2>4. RunProgress' /\ Settled'
    BY <2>1, <2>2, Unmoved, Stays, Zenon DEF PlannerHolds, RunProgress, Settled, MetBut, ExtrasIn
  <2> QED BY <2>3, <2>4 DEF PlannerHolds
<1> QED BY <1>1, <1>2, <1>3, <1>4, <1>5, <1>6, <1>7, <1>8, Zenon DEF PlannerNext

-----------------------------------------------------------------------------
(* Theorems *)

\* PlannerInvariant: the invariant holds of every behaviour.
LEMMA PlannerInvariant == PlannerSpec => []PlannerIInv
<1>1. PlannerInit => PlannerTypes /\ PlannerHolds
  <2> SUFFICES ASSUME PlannerInit PROVE PlannerTypes /\ PlannerHolds
    OBVIOUS
  <2>1. ~Undisturbed
    BY DEF PlannerInit, Undisturbed
  <2> QED BY <2>1, TypeInit, Disturbed
<1>2. PlannerTypes /\ PlannerHolds /\ [PlannerNext]_plannerVars => (PlannerTypes /\ PlannerHolds)'
  BY TypeNext, MainNext
<1> QED BY <1>1, <1>2, PTL DEF PlannerSpec, PlannerIInv

\* ConvergesFollows: Converges is part of what holds after a successful run.
LEMMA ConvergesFollows == PlannerTypes /\ PlannerHolds => Converges
<1> SUFFICES ASSUME PlannerTypes, PlannerHolds, stage = "idle", settled_at # 0,
                    Proper, Apart, Straight, Timeless
             PROVE  LET source      == Enumerate(setup.source)
                        destination == Enumerate(setup.destination)
                        Copied(path) == store[At(setup.destination, path)]
                    IN  /\ Carries => \A path \in DOMAIN source :
                             /\ Copied(path) # Absent
                             /\ Size[Copied(path).data] = source[path].size
                             /\ setup.compare_mode \in {"AlwaysOverwrite", "ChecksumIfAvailable"} =>
                                  Copied(path).data = store[At(setup.source, path)].data
                        /\ (setup.mode = "Sync" /\ setup.policy.delete_extras) =>
                             DOMAIN destination \subseteq DOMAIN source
  BY Zenon DEF Converges
<1>1. PlannerType
  BY DEF PlannerTypes
<1>2. Undisturbed
  BY DEF PlannerTypes, Between, Undisturbed
<1>3. (Carries => MetBut({})) /\ (DeletesExtras => ExtrasIn({}))
  BY <1>2 DEF PlannerHolds, Settled
<1>4. ASSUME Carries, NEW path \in DOMAIN Enumerate(setup.source)
      PROVE  /\ store[At(setup.destination, path)] # Absent
             /\ Size[store[At(setup.destination, path)].data] = Enumerate(setup.source)[path].size
             /\ setup.compare_mode \in {"AlwaysOverwrite", "ChecksumIfAvailable"} =>
                  store[At(setup.destination, path)].data = store[At(setup.source, path)].data
  <2>1. Meets(path)
    BY <1>3, <1>4 DEF MetBut
  <2>2. Enumerate(setup.source)[path] = AsListed(setup.source, store[At(setup.source, path)])
    BY <1>1, Listing, Zenon
  <2>3. Enumerate(setup.source)[path].size = Size[store[At(setup.source, path)].data]
    <3>1. AsListed(setup.source, store[At(setup.source, path)]).size
            = Size[store[At(setup.source, path)].data]
      BY Moment, ZenonT(40)
    <3> HIDE DEF AsListed
    <3> QED BY <2>2, <3>1
  <2>4. /\ store[At(setup.destination, path)] # Absent
        /\ Promised(setup.compare_mode, store[At(setup.source, path)],
                    store[At(setup.destination, path)])
    BY <2>1, Zenon DEF Meets
  <2> QED BY <2>3, <2>4 DEF Promised
<1>5. ASSUME setup.mode = "Sync", setup.policy.delete_extras
      PROVE  DOMAIN Enumerate(setup.destination) \subseteq DOMAIN Enumerate(setup.source)
  <2>1. ExtrasIn({})
    BY <1>3, <1>5 DEF DeletesExtras
  <2> QED BY <2>1 DEF ExtrasIn
<1> QED BY <1>4, <1>5, Zenon

\* SettlesFollows: what is as promised and yet to be transferred is not recognised as a copy.
LEMMA SettlesFollows == PlannerTypes /\ PlannerHolds => SettlesDown
<1> SUFFICES ASSUME PlannerTypes, PlannerHolds, stage = "planned", settled_at # 0,
                    Proper, Apart, Straight, Undated, Carries, RecognisesCopies
             PROVE  transfers \union deletes = {}
  BY DEF SettlesDown
<1>1. PlannerType /\ Dated /\ TasksStand
  BY DEF PlannerTypes, PlannerHolds
<1>2. Undisturbed
  BY DEF PlannerTypes, Between, Undisturbed, Undated
<1>3. (\A path \in transfers : Meets(path)) /\ deletes = {}
  BY <1>2 DEF PlannerHolds, Settled
<1>4. ASSUME NEW path \in transfers PROVE FALSE
  <2> DEFINE source == Enumerate(setup.source)
             destination == Enumerate(setup.destination)
             s == store[At(setup.source, path)]
             d == store[At(setup.destination, path)]
  <2>1. path \in DOMAIN source /\ Trimmed(path)
    <3>1. path \in DOMAIN source
      BY <1>1, <1>2, TransfersListed
    <3>2. path \in DOMAIN Now
      BY <1>1, <1>2, Zenon DEF TasksStand
    <3> QED BY <1>1, <3>1, <3>2, NowTrimmed
  <2>2. /\ Lists(store, setup.filters, now, setup.source, path)
        /\ At(setup.source, path) \in Locations
        /\ s \in Object
    BY <1>1, <2>1, Listing, Zenon
  <2>3. /\ At(setup.destination, path) \in Locations
        /\ d # Absent
        /\ Promised(setup.compare_mode, s, d)
    BY <1>3, Zenon DEF Meets
  <2>4. d \in Object
    BY <1>1, <2>3 DEF PlannerType
  <2>5. path \in DOMAIN destination
    <3>1. ApplySyncFilters(AsListed(setup.source, s), path, setup.filters, now)
      BY <2>2, Zenon DEF Lists
    <3>2. Size[s.data] = Size[d.data]
      BY <2>3 DEF Promised
    <3>3. /\ FixedFilters(setup.filters)
          /\ setup.filters.newer_than.date \union setup.filters.older_than.date = {}
      BY DEF Undated, Timeless, FixedFilters
    <3> HIDE DEF s, d
    <3>4. ApplySyncFilters(AsListed(setup.destination, d), path, setup.filters, now)
      BY <3>1, <3>2, <3>3, FiltersAgree
    <3>5. JoinKey(setup.destination.prefix, path) \in Keys
      BY <2>3 DEF At, Locations
    <3>6. Lists(store, setup.filters, now, setup.destination, path)
      BY <2>1, <2>3, <3>4, <3>5, Zenon DEF Lists, d
    <3>7. path \in DOMAIN Listed(store, setup.filters, now, setup.destination)
      BY <1>1, <3>6, ListsIsListed, SetupFacts, ProperEnds
    <3> QED BY <3>7, EnumerateIs, Zenon
  <2>6. Reason(source, destination, path)
          = Difference(AsListed(setup.source, s), AsListed(setup.destination, d), setup.compare_mode)
    BY <1>1, <2>1, <2>5, ReasonIs, Zenon
  <2>7. /\ Reason(source, destination, path) # "Identical"
        /\ setup.mode = "Copy" \/ setup.policy.destination_newer_policy # "SourceWins" =>
             Reason(source, destination, path) \notin Nothing
    <3>1. /\ path \in DOMAIN source \union DOMAIN destination
          /\ PlanAt(source, destination, path) \in {"Create", "Update"}
      BY <1>1, <1>2, NowHas, Zenon DEF TasksStand
    <3> QED BY <1>1, <2>5, <3>1, PlanMeans, Zenon
  <2>8. setup.source.kind \in {"Local", "S3"} /\ setup.destination.kind \in {"Local", "S3"}
    BY <1>1, SetupFacts
  <2>9. /\ At(setup.source, path) = <<setup.source.space, JoinKey(setup.source.prefix, path)>>
        /\ At(setup.destination, path)
             = <<setup.destination.space, JoinKey(setup.destination.prefix, path)>>
        /\ JoinKey(setup.source.prefix, path) \in Keys
        /\ JoinKey(setup.destination.prefix, path) \in Keys
    BY <2>2, <2>3 DEF At, Locations
  <2>10. /\ setup.source.kind = "S3" => s.at % 2 = 0
         /\ setup.destination.kind = "S3" => d.at % 2 = 0
    BY <1>1, <2>9, Zenon DEF Dated
  <2>11. \/ setup.compare_mode = "SizeOnly"
         \/ /\ setup.compare_mode = "ChecksumIfAvailable"
            /\ setup.source.kind = "S3" /\ setup.destination.kind = "S3" /\ ~s.parts /\ ~d.parts
         \/ /\ setup.compare_mode = "UpdateIfSourceNewer"
            /\ setup.mode = "Copy" \/ setup.policy.destination_newer_policy # "SourceWins"
            /\ s.at \div 2 # d.at \div 2 \/ s.at = d.at
    <3>1. CASE setup.compare_mode = "SizeOnly"
      BY <3>1
    <3>2. CASE /\ setup.compare_mode = "ChecksumIfAvailable"
               /\ {setup.source.kind, setup.destination.kind} = {"S3"}
               /\ \A location \in {setup.source.space, setup.destination.space} \X Keys :
                    ~store[location].parts
      <4>1. At(setup.source, path) \in {setup.source.space, setup.destination.space} \X Keys
            /\ At(setup.destination, path) \in {setup.source.space, setup.destination.space} \X Keys
        BY <2>9
      <4>2. ~s.parts /\ ~d.parts
        BY <3>2, <4>1, Zenon
      <4>3. setup.source.kind = "S3" /\ setup.destination.kind = "S3"
        BY <3>2
      <4> QED BY <3>2, <4>2, <4>3
    <3>3. CASE /\ setup.compare_mode = "UpdateIfSourceNewer"
               /\ setup.mode = "Copy" \/ setup.policy.destination_newer_policy # "SourceWins"
               /\ \A p \in DOMAIN Enumerate(setup.source) :
                    \/ store[At(setup.source, p)].at \div 2 # store[At(setup.destination, p)].at \div 2
                    \/ store[At(setup.source, p)].at = store[At(setup.destination, p)].at
      <4>1. s.at \div 2 # d.at \div 2 \/ s.at = d.at
        BY <2>1, <3>3, Zenon
      <4> QED BY <3>3, <4>1
    <3> QED BY <3>1, <3>2, <3>3, Zenon DEF RecognisesCopies
  <2> HIDE DEF s, d, source, destination
  <2>12. /\ Reason(source, destination, path) \in Nothing
         /\ setup.compare_mode # "UpdateIfSourceNewer" =>
              Reason(source, destination, path) = "Identical"
    <3>1. /\ Difference(AsListed(setup.source, s), AsListed(setup.destination, d),
                        setup.compare_mode) \in Nothing
          /\ setup.compare_mode # "UpdateIfSourceNewer" =>
               Difference(AsListed(setup.source, s), AsListed(setup.destination, d),
                          setup.compare_mode) = "Identical"
      BY <2>2, <2>3, <2>4, <2>8, <2>10, <2>11, PromiseIsNothing
    <3> QED BY <2>6, <3>1, Zenon
  <2> QED BY <2>7, <2>11, <2>12
<1> QED BY <1>3, <1>4

\* NewerStep: NewerKept, of one step.
LEMMA NewerStep ==
  ASSUME PlannerTypes, PlannerHolds, [PlannerNext]_plannerVars, NEW path \in transfers \ transfers',
         quiet, Proper, Apart, Straight, Unfiltered, setup.compare_mode = "UpdateIfSourceNewer",
         setup.mode = "Copy" \/ setup.policy.destination_newer_policy # "SourceWins",
         store[At(setup.destination, path)] # Absent,
         Size[store[At(setup.destination, path)].data] = Size[store[At(setup.source, path)].data]
  PROVE  store[At(setup.destination, path)].at \div 2 <= store[At(setup.source, path)].at \div 2
<1> DEFINE source == Enumerate(setup.source)
           destination == Enumerate(setup.destination)
           s == store[At(setup.source, path)]
           d == store[At(setup.destination, path)]
<1>1. PlannerType /\ TasksStand
  BY DEF PlannerTypes, PlannerHolds
<1>2. Undisturbed /\ stage = "planned"
  BY DEF PlannerTypes, Between, PlannerType, Undisturbed, Unfiltered, Undated
<1>3. path \in DOMAIN source /\ Trimmed(path) /\ PathPasses(path, setup.filters)
  <2>1. path \in DOMAIN source
    BY <1>1, <1>2, TransfersListed
  <2>2. path \in DOMAIN Now
    BY <1>1, <1>2, Zenon DEF TasksStand
  <2> QED BY <1>1, <2>1, <2>2, NowTrimmed
<1>4. At(setup.source, path) \in Locations /\ s \in Object
  BY <1>1, <1>3, Listing, Zenon
<1>5. At(setup.destination, path) \in Locations
  BY DEF PlannerTypes, Fits, FitsAll
<1>6. d \in Object
  BY <1>1, <1>5 DEF PlannerType
<1>7. path \in DOMAIN destination
  <2>1. /\ FixedFilters(setup.filters)
        /\ setup.filters.newer_than.date \union setup.filters.older_than.date = {}
        /\ setup.filters.min_size.number \union setup.filters.max_size.number = {}
    BY DEF Unfiltered, Undated, Timeless, FixedFilters
  <2>2. ApplySyncFilters(AsListed(setup.destination, d), path, setup.filters, now)
    BY <1>3, <2>1, PathsOnly
  <2>3. JoinKey(setup.destination.prefix, path) \in Keys
    BY <1>5 DEF At, Locations
  <2>4. Lists(store, setup.filters, now, setup.destination, path)
    BY <1>3, <2>2, <2>3, Zenon DEF Lists
  <2>5. path \in DOMAIN Listed(store, setup.filters, now, setup.destination)
    BY <1>1, <2>4, ListsIsListed, SetupFacts, ProperEnds
  <2> QED BY <2>5, EnumerateIs, Zenon
<1>8. Reason(source, destination, path)
        = Difference(AsListed(setup.source, s), AsListed(setup.destination, d), setup.compare_mode)
  BY <1>1, <1>3, <1>7, ReasonIs, Zenon
<1>9. Reason(source, destination, path) \notin Nothing
  <2>1. /\ path \in DOMAIN source \union DOMAIN destination
        /\ PlanAt(source, destination, path) \in {"Create", "Update"}
    BY <1>1, <1>2, NowHas, Zenon DEF TasksStand
  <2> QED BY <1>1, <1>7, <2>1, PlanMeans, Zenon
<1>10. Size[s.data] = Size[d.data]
  OBVIOUS
<1> HIDE DEF s, d, source, destination
<1>11. d.at \div 2 <= s.at \div 2
  BY <1>4, <1>6, <1>8, <1>9, <1>10, NewerIsFound
<1> QED BY <1>11 DEF s, d

\* ExtrasStep: DeletesAreExtras, of one step.
LEMMA ExtrasStep ==
  ASSUME PlannerTypes, PlannerHolds, NEW path \in deletes, quiet, Proper, Apart, Timeless
  PROVE  /\ setup.mode = "Sync" /\ setup.policy.delete_extras
         /\ path \notin DOMAIN Enumerate(setup.source)
         /\ path \in DOMAIN Enumerate(setup.destination)
<1>1. PlannerType /\ TasksStand
  BY DEF PlannerTypes, PlannerHolds
<1>2. Undisturbed /\ stage = "planned" /\ setup.mode # "Diff"
  BY DEF PlannerTypes, Between, PlannerType, Undisturbed
<1>3. /\ path \notin DOMAIN Enumerate(setup.source)
      /\ path \in DOMAIN Enumerate(setup.destination)
      /\ setup.mode # "Copy" /\ setup.policy.delete_extras
  BY <1>1, <1>2, DeletesUnlisted
<1>4. setup.mode = "Sync"
  BY <1>1, <1>2, <1>3, SetupFacts
<1> QED BY <1>3, <1>4

\* RunsConverge: after a successful run the destination has what the mode of comparison
\* promises, and no extras that were to be deleted.
THEOREM RunsConverge == PlannerSpec => []Converges
BY PlannerInvariant, ConvergesFollows, PTL DEF PlannerIInv

\* RunsSettle: a run right after a successful one finds nothing to do.
THEOREM RunsSettle == PlannerSpec => []SettlesDown
BY PlannerInvariant, SettlesFollows, PTL DEF PlannerIInv

\* NewerStays: where what is newer at the destination is to be kept, it is.
THEOREM NewerStays == PlannerSpec => NewerKept
<1>1. PlannerTypes /\ PlannerHolds /\ [PlannerNext]_plannerVars =>
        [\A path \in transfers \ transfers' :
           LET source == store[At(setup.source, path)]
               there  == store[At(setup.destination, path)]
           IN  (/\ quiet /\ Proper /\ Apart /\ Straight /\ Unfiltered
                /\ setup.compare_mode = "UpdateIfSourceNewer"
                /\ setup.mode = "Copy" \/ setup.policy.destination_newer_policy # "SourceWins"
                /\ store' # store /\ there # Absent
                /\ Size[there.data] = Size[source.data]) =>
                 there.at \div 2 <= source.at \div 2]_plannerVars
  BY NewerStep, Zenon
<1> QED BY <1>1, PlannerInvariant, PTL DEF PlannerSpec, PlannerIInv, NewerKept

\* OnlyExtrasDeleted: what is deleted is an extra, in a sync that was to delete extras.
THEOREM OnlyExtrasDeleted == PlannerSpec => DeletesAreExtras
<1>1. PlannerTypes /\ PlannerHolds =>
        [\A path \in deletes \ deletes' :
           (/\ quiet /\ Proper /\ Apart /\ Timeless
            /\ store'[At(setup.destination, path)] # store[At(setup.destination, path)]) =>
             /\ setup.mode = "Sync" /\ setup.policy.delete_extras
             /\ path \notin DOMAIN Enumerate(setup.source)
             /\ path \in DOMAIN Enumerate(setup.destination)]_plannerVars
  BY ExtrasStep, Zenon
<1> QED BY <1>1, PlannerInvariant, PTL DEF PlannerSpec, PlannerIInv, DeletesAreExtras

-----------------------------------------------------------------------------
(* Induction and recursion on a rank *)

\* LeastOf: a set of numbers that is not empty has a least.
LEMMA LeastOf ==
  ASSUME NEW S \in SUBSET Nat, S # {}
  PROVE  \E m \in S : \A n \in S : m <= n
<1>1. IsWellFoundedOn(OpToRel(<, Nat), Nat)
  BY NatLessThanWellFounded
<1>2. PICK m \in S : \A n \in S : ~ (<<n, m>> \in OpToRel(<, Nat))
  BY <1>1, WFMin
<1>3. \A n \in S : m <= n
  <2> TAKE n \in S
  <2>1. <<n, m>> \notin OpToRel(<, Nat)
    BY <1>2
  <2> QED BY <2>1 DEF OpToRel
<1> QED BY <1>3

\* G has each element of S that it has all those of lower rank of.
Inherits(S, G, rank) ==
  /\ rank \in [S -> Nat]
  /\ \A s \in S : (\A u \in S : rank[u] < rank[s] => u \in G) => s \in G

\* RankInduction: such a set has all of S.
LEMMA RankInduction ==
  ASSUME NEW S, NEW G, NEW rank, Inherits(S, G, rank)
  PROVE  S \subseteq G
<1> USE DEF Inherits
<1> SUFFICES ASSUME NEW x \in S, x \notin G PROVE FALSE
  OBVIOUS
<1> DEFINE Bad == {rank[s] : s \in S \ G}
<1>1. Bad \in SUBSET Nat /\ Bad # {}
  OBVIOUS
<1>2. PICK m \in Bad : \A n \in Bad : m <= n
  BY <1>1, LeastOf
<1>3. PICK s \in S \ G : rank[s] = m
  OBVIOUS
<1>4. ASSUME NEW u \in S, rank[u] < rank[s] PROVE u \in G
  <2>1. rank[u] \in Nat /\ rank[s] \in Nat
    OBVIOUS
  <2>2. CASE u \notin G
    <3>1. rank[u] \in Bad
      BY <2>2
    <3>2. m <= rank[u]
      BY <1>2, <3>1
    <3> QED BY <1>3, <1>4, <2>1, <3>2
  <2> QED BY <2>2
<1> QED BY <1>3, <1>4

\* def makes a function of each: its value at each argument is made of those of the given
\* one at arguments of lower rank.
MadeOfLower(S, V, N, rank, def) ==
  /\ V # {} /\ N \in Nat /\ rank \in [S -> 0..N]
  /\ def \in [[S -> V] -> [S -> V]]
  /\ \A g, h \in [S -> V] : \A s \in S :
       (\A u \in S : rank[u] < rank[s] => g[u] = h[u]) => def[g][s] = def[h][s]

\* RecursionByRank: there is the function that such a recursion defines.
LEMMA RecursionByRank ==
  ASSUME NEW S, NEW V, NEW N, NEW rank, NEW def, MadeOfLower(S, V, N, rank, def)
  PROVE  \E f \in [S -> V] : f = def[f]
<1> USE DEF MadeOfLower
<1> DEFINE Good(n) == \E g \in [S -> V] : \A s \in S : rank[s] < n => g[s] = def[g][s]
           Bad == {n \in Nat : ~ Good(n)}
<1>1. Good(0)
  <2>1. PICK v \in V : TRUE
    OBVIOUS
  <2>2. [s \in S |-> v] \in [S -> V]
    OBVIOUS
  <2>3. \A s \in S : ~ (rank[s] < 0)
    OBVIOUS
  <2> QED BY <2>2, <2>3
<1>2. ASSUME NEW n \in Nat, Good(n) PROVE Good(n + 1)
  <2>1. PICK g \in [S -> V] : \A s \in S : rank[s] < n => g[s] = def[g][s]
    BY <1>2
  <2>2. def[g] \in [S -> V]
    OBVIOUS
  <2>3. ASSUME NEW s \in S, rank[s] < n + 1 PROVE def[g][s] = def[def[g]][s]
    <3>1. ASSUME NEW u \in S, rank[u] < rank[s] PROVE g[u] = def[g][u]
      <4>1. rank[u] \in Nat /\ rank[s] \in Nat
        OBVIOUS
      <4>2. rank[u] < n
        BY <2>3, <3>1, <4>1
      <4> QED BY <2>1, <4>2
    <3> QED BY <2>2, <3>1
  <2> QED BY <2>2, <2>3
<1>3. Good(N + 1)
  <2>1. CASE Bad = {}
    <3>1. N + 1 \in Nat
      OBVIOUS
    <3> HIDE DEF Good
    <3> QED BY <2>1, <3>1
  <2>2. CASE Bad # {}
    <3>1. PICK m \in Bad : \A n \in Bad : m <= n
      BY <2>2, LeastOf
    <3> HIDE DEF Good
    <3>2. m \in Nat /\ ~ Good(m) /\ m # 0
      BY <1>1
    <3>3. m - 1 \in Nat /\ m - 1 + 1 = m
      BY <3>2
    <3>4. Good(m - 1)
      BY <3>1, <3>2, <3>3
    <3> QED BY <1>2, <3>2, <3>3, <3>4
  <2> QED BY <2>1, <2>2
<1>4. PICK f \in [S -> V] : \A s \in S : rank[s] < N + 1 => f[s] = def[f][s]
  BY <1>3
<1>5. \A s \in S : rank[s] < N + 1
  OBVIOUS
<1>6. \A s \in S : f[s] = def[f][s]
  BY <1>4, <1>5
<1>7. def[f] \in [S -> V]
  OBVIOUS
<1> QED BY <1>6, <1>7

-----------------------------------------------------------------------------
(* What a pattern means *)

\* The places from where what follows the first p characters of a pattern matches, when rest
\* are those of what follows the next one.
StepBack(pat, txt, slash, p, rest) ==
  IF pat[p + 1] = "*"
    THEN {t \in 0..Len(txt) :
            \E u \in rest : t <= u /\ \A i \in (t + 1)..u : Takes(slash, txt[i])}
  ELSE {t \in 0..(Len(txt) - 1) :
          /\ t + 1 \in rest
          /\ pat[p + 1] = txt[t + 1] \/ (pat[p + 1] = "?" /\ Takes(slash, txt[t + 1]))}

\* MeansIsAfter: there is the function that Means is defined by.
LEMMA MeansIsAfter ==
  ASSUME NEW pat, NEW txt, NEW slash \in BOOLEAN, Len(pat) \in Nat, Len(txt) \in Nat
  PROVE  \E after \in [0..Len(pat) -> SUBSET (0..Len(txt))] :
           /\ Means(pat, txt, slash) = (0 \in after[0])
           /\ after[Len(pat)] = {Len(txt)}
           /\ \A p \in 0..(Len(pat) - 1) : after[p] = StepBack(pat, txt, slash, p, after[p + 1])
<1> DEFINE P == Len(pat)
           T == Len(txt)
           S == 0..P
           V == SUBSET (0..T)
           Is(f) == f = [p \in 0..P |->
                           IF p = P THEN {T}
                           ELSE LET rest == f[p + 1] IN StepBack(pat, txt, slash, p, rest)]
           rank == [p \in S |-> P - p]
           def == [g \in [S -> V] |->
                     [p \in S |-> IF p = P THEN {T} ELSE StepBack(pat, txt, slash, p, g[p + 1])]]
<1>1. ASSUME NEW p, NEW rest PROVE StepBack(pat, txt, slash, p, rest) \in V
  BY DEF StepBack
<1>2. V # {} /\ rank \in [S -> 0..P] /\ {T} \in V
  <2>1. T \in 0..T /\ \A p \in S : P - p \in 0..P
    OBVIOUS
  <2> QED BY <2>1
<1>3. def \in [[S -> V] -> [S -> V]]
  BY <1>1, <1>2
<1>4. ASSUME NEW g \in [S -> V], NEW h \in [S -> V], NEW p \in S,
             \A q \in S : rank[q] < rank[p] => g[q] = h[q]
      PROVE  def[g][p] = def[h][p]
  <2>1. CASE p = P
    BY <2>1
  <2>2. CASE p # P
    <3>1. p + 1 \in S /\ rank[p + 1] < rank[p]
      BY <2>2
    <3>2. g[p + 1] = h[p + 1]
      BY <1>4, <3>1
    <3> QED BY <2>2, <3>2
  <2> QED BY <2>1, <2>2
<1> HIDE DEF rank, V
<1>5. \E f \in [S -> V] : f = def[f]
  <2>1. P \in Nat
    OBVIOUS
  <2>2. MadeOfLower(S, V, P, rank, def)
    BY <1>2, <1>3, <1>4, <2>1 DEF MadeOfLower
  <2> HIDE DEF def, S, P
  <2> QED BY <2>2, RecursionByRank
<1>6. \E f : Is(f)
  BY <1>5
<1> DEFINE after == CHOOSE f : Is(f)
<1>7. Is(after)
  BY <1>6
<1>8. Means(pat, txt, slash) = (0 \in after[0])
  BY DEF Means, StepBack
<1> HIDE DEF after
<1>9. after \in [S -> V]
  BY <1>1, <1>2, <1>7
<1>10. after[P] = {T}
  <2>1. P \in 0..P
    OBVIOUS
  <2> QED BY <1>7, <2>1
<1>11. ASSUME NEW p \in 0..(P - 1) PROVE after[p] = StepBack(pat, txt, slash, p, after[p + 1])
  <2>1. p \in 0..P /\ p # P
    OBVIOUS
  <2> QED BY <1>7, <2>1
<1> QED BY <1>8, <1>9, <1>10, <1>11 DEF V

-----------------------------------------------------------------------------
(* The loop of wildcard_match_segment *)

\* The four cases of an iteration, and the indices after it.
TakesNext(pat, txt, slash, s) ==
  /\ s.pi < Len(pat)
  /\ \/ pat[s.pi + 1] = "?" /\ Takes(slash, txt[s.ti + 1])
     \/ pat[s.pi + 1] \notin Wild /\ pat[s.pi + 1] = txt[s.ti + 1]
OnStar(pat, s)  == s.pi < Len(pat) /\ pat[s.pi + 1] = "*"
Along(s)   == [pi |-> s.pi + 1, ti |-> s.ti + 1, star |-> s.star, from |-> s.from]
Starred(s) == [pi |-> s.pi + 1, ti |-> s.ti, star |-> s.pi + 1, from |-> s.ti]
Back(s)    == [pi |-> s.star, ti |-> s.from + 1, star |-> s.star, from |-> s.from + 1]
Outset     == [pi |-> 0, ti |-> 0, star |-> 0, from |-> 0]

Iteration(pat, txt, slash, loop, s) ==
  IF s.ti = Len(txt) THEN \A i \in (s.pi + 1)..Len(pat) : pat[i] = "*"
  ELSE IF TakesNext(pat, txt, slash, s) THEN loop[Along(s)]
  ELSE IF OnStar(pat, s) THEN loop[Starred(s)]
  ELSE /\ s.star > 0
       /\ Takes(slash, txt[s.from + 1])
       /\ loop[Back(s)]

\* How much is left: a star passed or one character more for it counts for more than what is
\* gained by matching.
ToGo(pat, txt, s) == (Len(pat) + Len(txt) - s.star - s.from) * (Len(txt) + 1) + (Len(txt) - s.ti)

\* Products: what multiplication by a number preserves.
LEMMA Products ==
  ASSUME NEW a \in Nat, NEW b \in Nat, NEW k \in Nat
  PROVE  /\ a * k \in Nat
         /\ a <= b => a * k <= b * k
         /\ a < b => a * k + k <= b * k
<1>1. ASSUME NEW c \in Nat PROVE c * k \in Nat
  OBVIOUS
<1>2. ASSUME a <= b PROVE a * k <= b * k
  <2>1. b - a \in Nat /\ b = a + (b - a)
    BY <1>2
  <2>2. b * k = a * k + (b - a) * k
    BY <2>1
  <2> QED BY <1>1, <2>1, <2>2
<1>3. ASSUME a < b PROVE a * k + k <= b * k
  <2>1. b - (a + 1) \in Nat /\ b = a + 1 + (b - (a + 1))
    BY <1>3
  <2>2. b * k = a * k + k + (b - (a + 1)) * k
    BY <2>1
  <2> QED BY <1>1, <2>1, <2>2
<1> QED BY <1>1, <1>2, <1>3

\* LoopEnds: each iteration leaves less.
LEMMA LoopEnds ==
  ASSUME NEW pat, NEW txt, NEW slash \in BOOLEAN, Len(pat) \in Nat, Len(txt) \in Nat,
         NEW s \in Scans(pat, txt)
  PROVE  /\ ToGo(pat, txt, s) \in 0..((Len(pat) + Len(txt)) * (Len(txt) + 1) + Len(txt))
         /\ s.ti # Len(txt) =>
              /\ TakesNext(pat, txt, slash, s) =>
                   Along(s) \in Scans(pat, txt) /\ ToGo(pat, txt, Along(s)) < ToGo(pat, txt, s)
              /\ OnStar(pat, s) =>
                   Starred(s) \in Scans(pat, txt) /\ ToGo(pat, txt, Starred(s)) < ToGo(pat, txt, s)
              /\ s.star > 0 =>
                   Back(s) \in Scans(pat, txt) /\ ToGo(pat, txt, Back(s)) < ToGo(pat, txt, s)
<1> DEFINE P == Len(pat)
           T == Len(txt)
           k == T + 1
<1>1. /\ P \in Nat /\ T \in Nat /\ k \in Nat
      /\ s.pi \in 0..P /\ s.ti \in 0..T /\ s.star \in 0..P /\ s.from \in 0..T
      /\ s.star <= s.pi /\ s.from <= s.ti
  BY DEF Scans
<1> DEFINE a == P + T - s.star - s.from
<1>2. a \in Nat /\ a <= P + T /\ P + T \in Nat
  BY <1>1
<1>3. ToGo(pat, txt, s) = a * k + (T - s.ti)
  BY DEF ToGo
<1>4. ToGo(pat, txt, s) \in 0..((P + T) * k + T)
  <2>1. a * k \in Nat /\ (P + T) * k \in Nat /\ a * k <= (P + T) * k
    BY <1>1, <1>2, Products
  <2>2. T - s.ti \in Nat /\ T - s.ti <= T
    BY <1>1
  <2> DEFINE x == a * k
             y == (P + T) * k
             z == T - s.ti
  <2>3. x \in Nat /\ y \in Nat /\ x <= y /\ ToGo(pat, txt, s) = x + z
    BY <1>3, <2>1
  <2>4. T \in Nat /\ z \in Nat /\ z <= T
    BY <1>1, <2>2
  <2> HIDE DEF a, k, T, P, x, z
  <2>5. ToGo(pat, txt, s) \in 0..(y + T)
    <3> HIDE DEF y
    <3> QED BY <2>3, <2>4
  <2> QED BY <2>5
<1>5. ASSUME NEW b \in Nat, NEW d \in 0..T, b < a PROVE b * k + d < a * k + (T - s.ti)
  <2>1. b * k + k <= a * k /\ b * k \in Nat /\ a * k \in Nat
    BY <1>1, <1>2, <1>5, Products
  <2>2. d < k /\ d \in Nat /\ T - s.ti \in Nat
    BY <1>1
  <2> HIDE DEF a, k, T, P
  <2> QED BY <1>1, <2>1, <2>2
<1>6. ASSUME s.ti # T, s.pi < P
      PROVE  Along(s) \in Scans(pat, txt) /\ ToGo(pat, txt, Along(s)) < ToGo(pat, txt, s)
  <2>1. Along(s) \in Scans(pat, txt)
    BY <1>1, <1>6 DEF Along, Scans
  <2>2. ToGo(pat, txt, Along(s)) = a * k + (T - (s.ti + 1))
    BY DEF ToGo, Along
  <2>3. a * k \in Nat
    BY <1>1, <1>2, Products
  <2> HIDE DEF a, k
  <2> QED BY <1>1, <1>3, <1>6, <2>1, <2>2, <2>3
<1>7. ASSUME s.ti # T, s.pi < P
      PROVE  Starred(s) \in Scans(pat, txt) /\ ToGo(pat, txt, Starred(s)) < ToGo(pat, txt, s)
  <2> DEFINE b == P + T - (s.pi + 1) - s.ti
  <2>1. Starred(s) \in Scans(pat, txt)
    BY <1>1, <1>7 DEF Starred, Scans
  <2>2. ToGo(pat, txt, Starred(s)) = b * k + (T - s.ti)
    BY DEF ToGo, Starred
  <2>3. b \in Nat /\ b < a /\ T - s.ti \in 0..T
    <3>1. s.pi + 1 <= P /\ s.star < s.pi + 1 /\ s.from <= s.ti
      BY <1>1, <1>7
    <3> HIDE DEF P, T
    <3>2. b \in Nat
      BY <1>1, <3>1
    <3>3. b < a
      <4>1. s.star + s.from < s.pi + 1 + s.ti
        BY <1>1, <3>1
      <4> DEFINE c == s.star + s.from
                 d == s.pi + 1 + s.ti
      <4>2. P \in Int /\ T \in Int /\ s.pi \in Int /\ s.ti \in Int /\ s.star \in Int /\ s.from \in Int
        BY <1>1
      <4>4. a = P + T - c /\ c \in Int
        BY <4>2
      <4>5. b = P + T - d /\ d \in Int
        BY <4>2
      <4> HIDE DEF a, b, c, d
      <4>3. c < d
        BY <4>1 DEF c, d
      <4> QED BY <4>2, <4>3, <4>4, <4>5
    <3>4. T - s.ti \in 0..T
      BY <1>1
    <3> QED BY <3>2, <3>3, <3>4
  <2> HIDE DEF a, b, k
  <2> QED BY <1>3, <1>5, <2>1, <2>2, <2>3
<1>8. ASSUME s.ti # T
      PROVE  Back(s) \in Scans(pat, txt) /\ ToGo(pat, txt, Back(s)) < ToGo(pat, txt, s)
  <2> DEFINE b == P + T - s.star - (s.from + 1)
  <2>1. Back(s) \in Scans(pat, txt)
    BY <1>1, <1>8 DEF Back, Scans
  <2>2. ToGo(pat, txt, Back(s)) = b * k + (T - (s.from + 1))
    BY DEF ToGo, Back
  <2>3. b \in Nat /\ b < a /\ T - (s.from + 1) \in 0..T
    <3>1. s.star <= P /\ s.from + 1 <= T
      BY <1>1, <1>8
    <3> HIDE DEF P, T
    <3>2. b \in Nat
      BY <1>1, <3>1
    <3>3. b < a
      BY <1>1, <3>1
    <3>4. T - (s.from + 1) \in 0..T
      BY <1>1, <3>1
    <3> QED BY <3>2, <3>3, <3>4
  <2> HIDE DEF a, b, k
  <2> QED BY <1>3, <1>5, <2>1, <2>2, <2>3
<1> QED BY <1>4, <1>6, <1>7, <1>8 DEF TakesNext, OnStar

\* MatchesIsLoop: there is the function that SegmentMatches is defined by.
LEMMA MatchesIsLoop ==
  ASSUME NEW pat, NEW txt, NEW slash \in BOOLEAN, Len(pat) \in Nat, Len(txt) \in Nat
  PROVE  \E loop :
           /\ SegmentMatches(pat, txt, slash) = loop[Outset]
           /\ \A s \in Scans(pat, txt) : loop[s] = Iteration(pat, txt, slash, loop, s)
<1> DEFINE S == Scans(pat, txt)
           N == (Len(pat) + Len(txt)) * (Len(txt) + 1) + Len(txt)
           Is(f) == f = [s \in Scans(pat, txt) |-> Iteration(pat, txt, slash, f, s)]
           rank == [s \in S |-> ToGo(pat, txt, s)]
           def == [g \in [S -> BOOLEAN] |-> [s \in S |-> Iteration(pat, txt, slash, g, s)]]
<1>1. N \in Nat /\ rank \in [S -> 0..N] /\ BOOLEAN # {}
  <2>1. (Len(pat) + Len(txt)) * (Len(txt) + 1) \in Nat
    BY Products
  <2>2. \A s \in S : ToGo(pat, txt, s) \in 0..N
    BY LoopEnds
  <2> QED BY <2>1, <2>2
<1>2. ASSUME NEW g \in [S -> BOOLEAN], NEW s \in S
      PROVE  Iteration(pat, txt, slash, g, s) \in BOOLEAN
  <2>1. CASE s.ti = Len(txt)
    BY <2>1 DEF Iteration
  <2>2. CASE s.ti # Len(txt)
    <3>1. /\ TakesNext(pat, txt, slash, s) => Along(s) \in S
          /\ OnStar(pat, s) => Starred(s) \in S
      BY <2>2, LoopEnds
    <3> HIDE DEF S
    <3> QED BY <2>2, <3>1 DEF Iteration
  <2> QED BY <2>1, <2>2
<1>3. def \in [[S -> BOOLEAN] -> [S -> BOOLEAN]]
  BY <1>2
<1>4. ASSUME NEW g \in [S -> BOOLEAN], NEW h \in [S -> BOOLEAN], NEW s \in S,
             \A u \in S : rank[u] < rank[s] => g[u] = h[u]
      PROVE  Iteration(pat, txt, slash, g, s) = Iteration(pat, txt, slash, h, s)
  <2>1. ASSUME NEW u \in S, ToGo(pat, txt, u) < ToGo(pat, txt, s) PROVE g[u] = h[u]
    BY <1>4, <2>1
  <2>2. CASE s.ti = Len(txt)
    BY <2>2 DEF Iteration
  <2>3. CASE s.ti # Len(txt)
    <3>1. /\ TakesNext(pat, txt, slash, s) => g[Along(s)] = h[Along(s)]
          /\ OnStar(pat, s) => g[Starred(s)] = h[Starred(s)]
          /\ s.star > 0 => g[Back(s)] = h[Back(s)]
      <4> HIDE DEF S
      <4> QED BY <2>1, <2>3, LoopEnds DEF S
    <3> HIDE DEF S
    <3> QED BY <2>3, <3>1 DEF Iteration
  <2> QED BY <2>2, <2>3
<1>5. MadeOfLower(S, BOOLEAN, N, rank, def)
  <2>1. \A g, h \in [S -> BOOLEAN] : \A s \in S :
          (\A u \in S : rank[u] < rank[s] => g[u] = h[u]) =>
             Iteration(pat, txt, slash, g, s) = Iteration(pat, txt, slash, h, s)
    BY <1>4
  <2> HIDE DEF N, rank, S
  <2> QED BY <1>1, <1>3, <2>1 DEF MadeOfLower
<1>6. \E f \in [S -> BOOLEAN] : f = def[f]
  <2> HIDE DEF S, N, rank, def
  <2> QED BY <1>5, RecursionByRank
<1>7. \E f : Is(f)
  BY <1>6
<1> DEFINE loop == CHOOSE f : Is(f)
<1>8. Is(loop)
  BY <1>7
<1>9. SegmentMatches(pat, txt, slash) = loop[Outset]
  BY DEF SegmentMatches, Iteration, TakesNext, OnStar, Along, Starred, Back, Outset
<1> HIDE DEF loop
<1>10. \A s \in Scans(pat, txt) : loop[s] = Iteration(pat, txt, slash, loop, s)
  BY <1>8
<1> QED BY <1>9, <1>10

-----------------------------------------------------------------------------
(* wildcard_match_segment finds what the pattern means *)

\* after is the function that Means is defined by.
IsAfter(pat, txt, slash, after) ==
  /\ slash \in BOOLEAN /\ Len(pat) \in Nat /\ Len(txt) \in Nat
  /\ after \in [0..Len(pat) -> SUBSET (0..Len(txt))]
  /\ after[Len(pat)] = {Len(txt)}
  /\ \A p \in 0..(Len(pat) - 1) : after[p] = StepBack(pat, txt, slash, p, after[p + 1])

\* A character of the pattern that is no star stands for one of the text.
Stands(pat, txt, slash, p, t) ==
  pat[p] = txt[t] \/ (pat[p] = "?" /\ Takes(slash, txt[t]))

\* A star may stand for the characters after the first t up to the u-th.
Free(txt, slash, t, u) == \A i \in (t + 1)..u : Takes(slash, txt[i])

\* AfterStar: what follows matches from t when what follows the star does from further on.
LEMMA AfterStar ==
  ASSUME NEW pat, NEW txt, NEW slash, NEW after, IsAfter(pat, txt, slash, after),
         NEW p \in 0..(Len(pat) - 1), pat[p + 1] = "*", NEW t \in 0..Len(txt)
  PROVE  t \in after[p] <=> \E u \in after[p + 1] : t <= u /\ Free(txt, slash, t, u)
<1>1. after[p] = {v \in 0..Len(txt) : \E u \in after[p + 1] :
                    v <= u /\ \A i \in (v + 1)..u : Takes(slash, txt[i])}
  BY DEF IsAfter, StepBack
<1> QED BY <1>1 DEF Free

\* AfterOther: another character takes one of the text.
LEMMA AfterOther ==
  ASSUME NEW pat, NEW txt, NEW slash, NEW after, IsAfter(pat, txt, slash, after),
         NEW p \in 0..(Len(pat) - 1), pat[p + 1] # "*", NEW t \in 0..Len(txt)
  PROVE  t \in after[p] <=>
           t < Len(txt) /\ t + 1 \in after[p + 1] /\ Stands(pat, txt, slash, p + 1, t + 1)
<1>1. after[p] = {v \in 0..(Len(txt) - 1) :
                    /\ v + 1 \in after[p + 1]
                    /\ pat[p + 1] = txt[v + 1] \/ (pat[p + 1] = "?" /\ Takes(slash, txt[v + 1]))}
  BY DEF IsAfter, StepBack
<1>2. Len(txt) \in Nat
  BY DEF IsAfter
<1>3. t < Len(txt) <=> t \in 0..(Len(txt) - 1)
  BY <1>2
<1> QED BY <1>1, <1>3 DEF Stands

\* AtTheEnd: at the end of the text, only stars may follow.
LEMMA AtTheEnd ==
  ASSUME NEW pat, NEW txt, NEW slash, NEW after, IsAfter(pat, txt, slash, after)
  PROVE  \A p \in 0..Len(pat) :
           Len(txt) \in after[p] <=> \A i \in (p + 1)..Len(pat) : pat[i] = "*"
<1> DEFINE P == Len(pat)
           T == Len(txt)
           OnlyStars(p) == \A i \in (p + 1)..P : pat[i] = "*"
           rank == [p \in 0..P |-> P - p]
           G == {p \in 0..P : T \in after[p] <=> OnlyStars(p)}
<1>1. P \in Nat /\ T \in Nat /\ T \in 0..T
  BY DEF IsAfter
<1>2. rank \in [0..P -> Nat]
  BY <1>1
<1>3. ASSUME NEW p \in 0..P, \A q \in 0..P : rank[q] < rank[p] => q \in G PROVE p \in G
  <2>1. CASE p = P
    <3>1. T \in after[p]
      BY <2>1 DEF IsAfter
    <3>2. OnlyStars(p)
      BY <1>1, <2>1
    <3> QED BY <3>1, <3>2
  <2>2. CASE p # P
    <3>1. p \in 0..(P - 1) /\ p + 1 \in 0..P /\ rank[p + 1] < rank[p]
      BY <1>1, <2>2
    <3>2. T \in after[p + 1] <=> OnlyStars(p + 1)
      BY <1>3, <3>1
    <3>3. OnlyStars(p) <=> pat[p + 1] = "*" /\ OnlyStars(p + 1)
      <4>1. ASSUME NEW i \in (p + 1)..P PROVE i = p + 1 \/ i \in (p + 1 + 1)..P
        BY <1>1, <3>1
      <4>2. p + 1 \in (p + 1)..P /\ \A i \in (p + 1 + 1)..P : i \in (p + 1)..P
        BY <1>1, <3>1
      <4> QED BY <4>1, <4>2
    <3>4. CASE pat[p + 1] = "*"
      <4>1. T \in after[p] <=> \E u \in after[p + 1] : T <= u /\ Free(txt, slash, T, u)
        BY <1>1, <3>1, <3>4, AfterStar
      <4>2. \A u \in after[p + 1] : T <= u => u = T
        <5>1. after[p + 1] \subseteq 0..T
          BY <3>1 DEF IsAfter
        <5> QED BY <1>1, <5>1
      <4>3. T <= T /\ Free(txt, slash, T, T)
        BY <1>1 DEF Free
      <4>4. T \in after[p] <=> T \in after[p + 1]
        BY <4>1, <4>2, <4>3
      <4> HIDE DEF OnlyStars
      <4> QED BY <3>2, <3>3, <3>4, <4>4
    <3>5. CASE pat[p + 1] # "*"
      <4>1. T \notin after[p]
        BY <1>1, <3>1, <3>5, AfterOther
      <4> HIDE DEF OnlyStars
      <4> QED BY <3>3, <3>5, <4>1
    <3> QED BY <3>4, <3>5
  <2> QED BY <2>1, <2>2
<1>4. 0..P \subseteq G
  <2>1. Inherits(0..P, G, rank)
    <3> HIDE DEF G, rank
    <3> QED BY <1>2, <1>3 DEF Inherits
  <2> HIDE DEF G, rank
  <2> QED BY <2>1, RankInduction
<1> QED BY <1>4

\* WithoutStars: characters without a star take as many of the text, and stand for them.
LEMMA WithoutStars ==
  ASSUME NEW pat, NEW txt, NEW slash, NEW after, IsAfter(pat, txt, slash, after),
         NEW p \in 0..Len(pat), NEW n \in 0..(Len(pat) - p),
         \A q \in 1..n : pat[p + q] # "*", NEW k \in after[p]
  PROVE  /\ k \in Nat /\ k + n \in after[p + n] /\ k + n <= Len(txt)
         /\ \A q \in 1..n : Stands(pat, txt, slash, p + q, k + q)
<1> DEFINE P == Len(pat)
           T == Len(txt)
           Good(m) == k + m \in after[p + m] /\ (m # 0 => Stands(pat, txt, slash, p + m, k + m))
           rank == [m \in 0..n |-> m]
           G == {m \in 0..n : Good(m)}
<1>1. P \in Nat /\ T \in Nat /\ p \in Nat /\ n \in Nat /\ p + n <= P
  BY DEF IsAfter
<1>2. \A q \in 0..P : after[q] \subseteq 0..T
  BY DEF IsAfter
<1>3. k \in 0..T
  BY <1>2
<1>4. ASSUME NEW m \in 0..n, \A l \in 0..n : rank[l] < rank[m] => l \in G PROVE m \in G
  <2>1. CASE m = 0
    <3>1. k + m = k /\ p + m = p
      BY <1>1, <1>3, <2>1
    <3> QED BY <2>1, <3>1
  <2>2. CASE m # 0
    <3>1. m - 1 \in 0..n /\ rank[m - 1] < rank[m] /\ m \in 1..n
      BY <1>1, <2>2
    <3>2. m - 1 \in G
      BY <1>4, <3>1
    <3>3. k + (m - 1) \in after[p + (m - 1)]
      BY <3>2
    <3>4. /\ p + (m - 1) \in 0..(P - 1) /\ p + (m - 1) \in 0..P
          /\ p + (m - 1) + 1 = p + m /\ k + (m - 1) + 1 = k + m
      BY <1>1, <1>3, <3>1
    <3>5. k + (m - 1) \in 0..T
      BY <1>2, <3>3, <3>4
    <3>6. pat[p + (m - 1) + 1] # "*"
      BY <3>1, <3>4
    <3>7. k + m \in after[p + m] /\ Stands(pat, txt, slash, p + m, k + m)
      BY <3>3, <3>4, <3>5, <3>6, AfterOther
    <3> QED BY <3>7
  <2> QED BY <2>1, <2>2
<1>5. rank \in [0..n -> Nat]
  BY <1>1
<1>6. 0..n \subseteq G
  <2>1. Inherits(0..n, G, rank)
    <3> HIDE DEF G, rank
    <3> QED BY <1>4, <1>5 DEF Inherits
  <2> HIDE DEF G, rank
  <2> QED BY <2>1, RankInduction
<1>7. k + n \in after[p + n] /\ \A q \in 1..n : Stands(pat, txt, slash, p + q, k + q)
  <2>1. n \in 0..n /\ \A q \in 1..n : q \in 0..n /\ q # 0
    BY <1>1
  <2> HIDE DEF Good
  <2>2. Good(n) /\ \A q \in 1..n : Good(q) /\ q # 0
    BY <1>6, <2>1
  <2> QED BY <2>2 DEF Good
<1>8. k + n \in 0..T
  BY <1>1, <1>2, <1>7
<1> QED BY <1>1, <1>3, <1>7, <1>8

\* What the loop has done: since the last star, each character stands for one of the text.
SinceStar(pat, txt, slash, pi, ti, star, from) ==
  star > 0 =>
    /\ pat[star] = "*" /\ pi - star = ti - from
    /\ \A q \in 1..(pi - star) :
         pat[star + q] # "*" /\ Stands(pat, txt, slash, star + q, from + q)
Within(pat, txt, slash, s) == SinceStar(pat, txt, slash, s.pi, s.ti, s.star, s.from)

\* What the last star may still be given.
ByStar(txt, slash, after, s) ==
  s.star > 0 /\ \E k \in after[s.star] : k > s.from /\ Free(txt, slash, s.from, k)

\* What the loop is to find out: whether the rest matches from here, or from further on when
\* the last star takes more.  Earlier stars need not be tried again.
Remains(txt, slash, after, s) == s.ti \in after[s.pi] \/ ByStar(txt, slash, after, s)

\* NoOtherStar: when the last star takes more, what it would have passed then is passed
\* anyway by what comes next; without slashes in it, unless stars take them.
LEMMA NoOtherStar ==
  ASSUME NEW pat, NEW txt, NEW slash, NEW after, IsAfter(pat, txt, slash, after),
         NEW s \in Scans(pat, txt), Within(pat, txt, slash, s), s.star > 0,
         NEW k \in after[s.star], k > s.from, Free(txt, slash, s.from, k)
  PROVE  \E u \in after[s.pi] : u > s.ti /\ Free(txt, slash, s.ti, u)
<1> DEFINE P == Len(pat)
           T == Len(txt)
           n == s.pi - s.star
           u == k + n
<1>1. /\ P \in Nat /\ T \in Nat /\ slash \in BOOLEAN
      /\ s.pi \in 0..P /\ s.ti \in 0..T /\ s.star \in 0..P /\ s.from \in 0..T
      /\ s.star <= s.pi /\ s.from <= s.ti
  BY DEF IsAfter, Scans
<1>2. /\ s.pi - s.star = s.ti - s.from
      /\ \A q \in 1..n : pat[s.star + q] # "*" /\ Stands(pat, txt, slash, s.star + q, s.from + q)
  BY DEF Within, SinceStar
<1>3. n \in 0..(P - s.star) /\ n \in Nat /\ s.star + n = s.pi /\ s.from + n = s.ti
  BY <1>1, <1>2
<1>4. /\ k \in Nat /\ u \in after[s.star + n] /\ u <= T
      /\ \A q \in 1..n : Stands(pat, txt, slash, s.star + q, k + q)
  <2> HIDE DEF n
  <2> QED BY <1>1, <1>2, <1>3, WithoutStars
<1>5. u \in after[s.pi] /\ u > s.ti /\ u \in Nat
  <2>1. u > s.ti
    BY <1>1, <1>3, <1>4
  <2> HIDE DEF n
  <2> QED BY <1>3, <1>4, <2>1
<1>6. Free(txt, slash, s.from, u)
  <2>1. CASE slash
    BY <1>1, <2>1 DEF Free, Takes
  <2>2. CASE ~ slash
    <3> DEFINE D == {i \in (s.from + 1)..u : txt[i] = "/"}
    <3>1. CASE D = {}
      BY <1>1, <3>1 DEF Free, Takes
    <3>2. CASE D # {}
      <4>1. D \in SUBSET Nat
        BY <1>1, <1>5
      <4>2. PICK j \in D : \A i \in D : j <= i
        BY <3>2, <4>1, LeastOf
      <4>3. j \in (s.from + 1)..u /\ txt[j] = "/"
        OBVIOUS
      <4>4. j > k
        <5>1. ASSUME j <= k PROVE FALSE
          <6>1. j \in (s.from + 1)..k
            BY <1>1, <1>4, <1>5, <4>3, <5>1
          <6> QED BY <2>2, <4>3, <6>1 DEF Free, Takes
        <5> QED BY <1>4, <1>5, <4>3, <5>1, <1>1
      <4> DEFINE o == j - k
      <4>5. o \in 1..n /\ k + o = j
        BY <1>1, <1>3, <1>4, <1>5, <4>3, <4>4
      <4>6. Stands(pat, txt, slash, s.star + o, j) /\ Stands(pat, txt, slash, s.star + o, s.from + o)
        <5> HIDE DEF n, o
        <5> QED BY <1>2, <1>4, <4>5
      <4>7. pat[s.star + o] = "/"
        BY <2>2, <4>3, <4>6 DEF Stands, Takes
      <4>8. txt[s.from + o] = "/"
        BY <4>6, <4>7 DEF Stands
      <4>9. s.from + o \in (s.from + 1)..u /\ s.from + o < j
        <5>1. s.from + o < j
          BY <1>1, <1>4, <4>5
        <5>2. 0 < o /\ o \in Int
          BY <1>3, <4>5
        <5> HIDE DEF o, u
        <5> QED BY <1>1, <1>5, <4>3, <5>1, <5>2
      <4> QED BY <1>1, <4>1, <4>2, <4>3, <4>8, <4>9
    <3> QED BY <3>1, <3>2
  <2> QED BY <1>1, <2>1, <2>2
<1>7. Free(txt, slash, s.ti, u)
  <2>1. \A i \in (s.ti + 1)..u : i \in (s.from + 1)..u
    BY <1>1, <1>5
  <2> QED BY <1>6, <2>1 DEF Free
<1> QED BY <1>5, <1>7

\* LoopFinds: from indices that the loop comes to, it finds out what remains.
LEMMA LoopFinds ==
  ASSUME NEW pat, NEW txt, NEW slash, NEW after, IsAfter(pat, txt, slash, after), NEW loop,
         \A s \in Scans(pat, txt) : loop[s] = Iteration(pat, txt, slash, loop, s)
  PROVE  \A s \in Scans(pat, txt) :
           Within(pat, txt, slash, s) => loop[s] = Remains(txt, slash, after, s)
<1> DEFINE P == Len(pat)
           T == Len(txt)
           S == Scans(pat, txt)
           Found(s) == Within(pat, txt, slash, s) => loop[s] = Remains(txt, slash, after, s)
           rank == [s \in S |-> ToGo(pat, txt, s)]
           G == {s \in S : Found(s)}
<1>1. /\ P \in Nat /\ T \in Nat /\ slash \in BOOLEAN
      /\ \A s \in S : /\ s.pi \in 0..P /\ s.ti \in 0..T /\ s.star \in 0..P /\ s.from \in 0..T
                      /\ s.star <= s.pi /\ s.from <= s.ti
  BY DEF IsAfter, Scans
<1>2. rank \in [S -> Nat]
  <2>1. \A s \in S : ToGo(pat, txt, s) \in Nat
    BY <1>1, LoopEnds
  <2> QED BY <2>1
<1>3. ASSUME NEW s \in S, Within(pat, txt, slash, s),
             \A v \in S : ToGo(pat, txt, v) < ToGo(pat, txt, s) => Found(v)
      PROVE  loop[s] = Remains(txt, slash, after, s)
  <2>1. loop[s] = Iteration(pat, txt, slash, loop, s)
    OBVIOUS
  <2>2. /\ s.pi \in 0..P /\ s.ti \in 0..T /\ s.star \in 0..P /\ s.from \in 0..T
        /\ s.star <= s.pi /\ s.from <= s.ti
    BY <1>1
  <2>9. s.pi \in Int /\ s.ti \in Int /\ s.star \in Int /\ s.from \in Int
    BY <1>1, <2>2
  <2>3. ASSUME s.star > 0, NEW k \in after[s.star], k > s.from, Free(txt, slash, s.from, k)
        PROVE  \E u \in after[s.pi] : u > s.ti /\ Free(txt, slash, s.ti, u)
    BY <1>3, <2>3, NoOtherStar
  <2>4. after[s.pi] \subseteq 0..T /\ after[s.star] \subseteq 0..T
    BY <2>2 DEF IsAfter
  <2>5. CASE s.ti = T
    <3>1. loop[s] = \A i \in (s.pi + 1)..P : pat[i] = "*"
      BY <2>1, <2>5 DEF Iteration
    <3>2. s.ti \in after[s.pi] <=> \A i \in (s.pi + 1)..P : pat[i] = "*"
      BY <2>2, <2>5, AtTheEnd
    <3>3. ~ ByStar(txt, slash, after, s)
      <4>1. ASSUME ByStar(txt, slash, after, s) PROVE FALSE
        <5>1. PICK u \in after[s.pi] : u > s.ti
          BY <2>3, <4>1 DEF ByStar
        <5> QED BY <1>1, <2>4, <2>5, <5>1
      <4> QED BY <4>1
    <3> QED BY <3>1, <3>2, <3>3 DEF Remains
  <2>6. CASE s.ti # T /\ TakesNext(pat, txt, slash, s)
    <3> DEFINE v == Along(s)
    <3>1. v \in S /\ ToGo(pat, txt, v) < ToGo(pat, txt, s)
      BY <1>1, <2>6, LoopEnds
    <3>2. v.pi = s.pi + 1 /\ v.ti = s.ti + 1 /\ v.star = s.star /\ v.from = s.from
      BY DEF Along
    <3>3. s.pi \in 0..(P - 1) /\ s.ti < T
      BY <1>1, <2>2, <2>6 DEF TakesNext
    <3>4. pat[s.pi + 1] # "*" /\ Stands(pat, txt, slash, s.pi + 1, s.ti + 1)
      BY <2>6 DEF TakesNext, Stands, Wild
    <3> HIDE DEF v
    <3>5. Within(pat, txt, slash, v)
      <4>1. ASSUME s.star > 0
            PROVE  /\ pat[s.star] = "*" /\ s.pi - s.star = s.ti - s.from
                   /\ \A q \in 1..(s.pi - s.star) :
                        pat[s.star + q] # "*" /\ Stands(pat, txt, slash, s.star + q, s.from + q)
        BY <1>3, <4>1 DEF Within, SinceStar
      <4>2. ASSUME s.star > 0, NEW q \in 1..((s.pi + 1) - s.star)
            PROVE  pat[s.star + q] # "*" /\ Stands(pat, txt, slash, s.star + q, s.from + q)
        <5>1. s.pi - s.star = s.ti - s.from
          BY <4>1, <4>2
        <5>2. CASE q \in 1..(s.pi - s.star)
          BY <4>1, <4>2, <5>2
        <5>3. CASE q = (s.pi + 1) - s.star
          <6>1. s.star + q = s.pi + 1
            BY <2>9, <5>3
          <6>2. s.from + q = s.ti + 1
            BY <2>9, <5>1, <5>3
          <6> QED BY <3>4, <6>1, <6>2
        <5>4. q \in 1..(s.pi - s.star) \/ q = (s.pi + 1) - s.star
          BY <2>9
        <5> QED BY <5>2, <5>3, <5>4
      <4>3. s.star > 0 => (s.pi + 1) - s.star = (s.ti + 1) - s.from
        BY <2>9, <4>1
      <4>4. SinceStar(pat, txt, slash, s.pi + 1, s.ti + 1, s.star, s.from)
        <5>1. ASSUME s.star > 0
              PROVE  \A q \in 1..((s.pi + 1) - s.star) :
                       pat[s.star + q] # "*" /\ Stands(pat, txt, slash, s.star + q, s.from + q)
          BY <4>2, <5>1
        <5>2. s.star > 0 => pat[s.star] = "*"
          BY <4>1
        <5> QED BY <4>3, <5>1, <5>2 DEF SinceStar
      <4> QED BY <3>2, <4>4 DEF Within
    <3>6. s.ti \in after[s.pi] <=> v.ti \in after[v.pi]
      <4>1. s.ti \in after[s.pi] <=> s.ti + 1 \in after[s.pi + 1]
        BY <2>2, <3>3, <3>4, AfterOther
      <4> QED BY <3>2, <4>1
    <3>7. ByStar(txt, slash, after, v) = ByStar(txt, slash, after, s)
      BY <3>2 DEF ByStar
    <3>8. loop[s] = loop[v]
      BY <2>1, <2>6 DEF Iteration, v
    <3>9. loop[v] = Remains(txt, slash, after, v)
      BY <1>3, <3>1, <3>5
    <3> QED BY <3>6, <3>7, <3>8, <3>9 DEF Remains
  <2>7. CASE s.ti # T /\ ~ TakesNext(pat, txt, slash, s) /\ OnStar(pat, s)
    <3> DEFINE v == Starred(s)
    <3>1. v \in S /\ ToGo(pat, txt, v) < ToGo(pat, txt, s)
      BY <1>1, <2>7, LoopEnds
    <3>2. v.pi = s.pi + 1 /\ v.ti = s.ti /\ v.star = s.pi + 1 /\ v.from = s.ti
      BY DEF Starred
    <3>3. s.pi \in 0..(P - 1) /\ s.pi + 1 > 0 /\ pat[s.pi + 1] = "*"
      BY <1>1, <2>2, <2>7 DEF OnStar
    <3>4. loop[s] = loop[v]
      BY <2>1, <2>7 DEF Iteration
    <3> HIDE DEF v
    <3>5. Within(pat, txt, slash, v)
      <4>1. v.pi - v.star = 0 /\ v.ti - v.from = 0
        BY <2>2, <3>2
      <4> QED BY <3>2, <3>3, <4>1 DEF Within, SinceStar
    <3>6. loop[v] = Remains(txt, slash, after, v)
      BY <1>3, <3>1, <3>5
    <3>7. s.ti \in after[s.pi] <=>
            \E u \in after[s.pi + 1] : s.ti <= u /\ Free(txt, slash, s.ti, u)
      BY <2>2, <3>3, AfterStar
    <3>8. after[s.pi + 1] \subseteq 0..T
      BY <3>3 DEF IsAfter
    <3>9. Remains(txt, slash, after, v) <=> s.ti \in after[s.pi]
      <4>1. \A u \in after[s.pi + 1] : s.ti <= u <=> (u = s.ti \/ u > s.ti)
        BY <2>2, <3>8
      <4>2. Free(txt, slash, s.ti, s.ti)
        BY <2>2 DEF Free
      <4> QED BY <3>2, <3>3, <3>7, <4>1, <4>2 DEF Remains, ByStar
    <3>10. ASSUME ByStar(txt, slash, after, s) PROVE s.ti \in after[s.pi]
      <4>1. PICK u \in after[s.pi] : u > s.ti /\ Free(txt, slash, s.ti, u)
        BY <2>3, <3>10 DEF ByStar
      <4>2. u \in 0..T
        BY <2>4
      <4>3. PICK w \in after[s.pi + 1] : u <= w /\ Free(txt, slash, u, w)
        BY <3>3, <4>2, AfterStar
      <4>4. w \in 0..T
        BY <3>8
      <4>5. s.ti <= w
        BY <2>2, <4>1, <4>2, <4>3, <4>4
      <4>6. Free(txt, slash, s.ti, w)
        <5>1. \A i \in (s.ti + 1)..w : i \in (s.ti + 1)..u \/ i \in (u + 1)..w
          BY <2>2, <4>2, <4>4
        <5> QED BY <4>1, <4>3, <5>1 DEF Free
      <4> QED BY <3>7, <4>5, <4>6
    <3> QED BY <3>4, <3>6, <3>9, <3>10 DEF Remains, ByStar
  <2>8. CASE s.ti # T /\ ~ TakesNext(pat, txt, slash, s) /\ ~ OnStar(pat, s)
    <3> DEFINE v == Back(s)
    <3>1. loop[s] = (s.star > 0 /\ Takes(slash, txt[s.from + 1]) /\ loop[v])
      BY <2>1, <2>8 DEF Iteration
    <3>2. s.ti \notin after[s.pi]
      <4>1. CASE s.pi = P
        BY <2>8, <4>1 DEF IsAfter
      <4>2. CASE s.pi # P
        <5>1. s.pi \in 0..(P - 1) /\ s.pi < P
          BY <1>1, <2>2, <4>2
        <5>2. pat[s.pi + 1] # "*" /\ ~ Stands(pat, txt, slash, s.pi + 1, s.ti + 1)
          BY <2>8, <5>1 DEF TakesNext, OnStar, Stands, Wild, Takes
        <5> QED BY <2>2, <5>1, <5>2, AfterOther
      <4> QED BY <4>1, <4>2
    <3>3. CASE ~ (s.star > 0)
      BY <3>1, <3>2, <3>3 DEF Remains, ByStar
    <3>4. CASE s.star > 0
      <4>1. v \in S /\ ToGo(pat, txt, v) < ToGo(pat, txt, s)
        BY <1>1, <2>8, <3>4, LoopEnds
      <4>2. v.pi = s.star /\ v.ti = s.from + 1 /\ v.star = s.star /\ v.from = s.from + 1
        BY DEF Back
      <4> HIDE DEF v
      <4>3. Within(pat, txt, slash, v)
        <5>1. v.pi - v.star = 0 /\ v.ti - v.from = 0
          BY <2>2, <4>2
        <5>2. pat[s.star] = "*"
          BY <1>3, <3>4 DEF Within, SinceStar
        <5> QED BY <4>2, <5>1, <5>2 DEF Within, SinceStar
      <4>4. loop[v] = Remains(txt, slash, after, v)
        BY <1>3, <4>1, <4>3
      <4>5. ASSUME NEW k \in after[s.star]
            PROVE  (k > s.from /\ Free(txt, slash, s.from, k)) <=>
                     /\ Takes(slash, txt[s.from + 1])
                     /\ k = s.from + 1 \/ (k > s.from + 1 /\ Free(txt, slash, s.from + 1, k))
        <5>1. k \in 0..T
          BY <2>4
        <5>2. k > s.from <=> k = s.from + 1 \/ k > s.from + 1
          BY <2>2, <5>1
        <5>3. ASSUME k > s.from
              PROVE  Free(txt, slash, s.from, k) <=>
                       Takes(slash, txt[s.from + 1]) /\ Free(txt, slash, s.from + 1, k)
          <6>1. s.from + 1 \in (s.from + 1)..k
            BY <2>2, <5>1, <5>3
          <6>2. \A i \in (s.from + 1)..k : i = s.from + 1 \/ i \in (s.from + 1 + 1)..k
            BY <2>2, <5>1
          <6>3. \A i \in (s.from + 1 + 1)..k : i \in (s.from + 1)..k
            BY <2>2, <5>1
          <6> QED BY <6>1, <6>2, <6>3 DEF Free
        <5>4. k = s.from + 1 => Free(txt, slash, s.from + 1, k)
          BY <2>2 DEF Free
        <5> HIDE DEF Free
        <5> QED BY <5>2, <5>3, <5>4
      <4>6. ByStar(txt, slash, after, s) <=>
              Takes(slash, txt[s.from + 1]) /\ Remains(txt, slash, after, v)
        BY <3>4, <4>2, <4>5 DEF ByStar, Remains
      <4> QED BY <3>1, <3>2, <3>4, <4>4, <4>6 DEF Remains, ByStar, Takes
    <3> QED BY <3>3, <3>4
  <2> QED BY <2>5, <2>6, <2>7, <2>8
<1>4. Inherits(S, G, rank)
  <2>1. ASSUME NEW s \in S, \A v \in S : rank[v] < rank[s] => v \in G PROVE s \in G
    <3> HIDE DEF S
    <3>1. \A v \in S : ToGo(pat, txt, v) < ToGo(pat, txt, s) => Found(v)
      BY <2>1
    <3> HIDE DEF Found
    <3>2. Found(s)
      BY <1>3, <3>1 DEF Found
    <3> QED BY <3>2
  <2> HIDE DEF S, G, rank
  <2> QED BY <1>2, <2>1 DEF Inherits
<1>5. S \subseteq G
  <2> HIDE DEF S, G, rank
  <2> QED BY <1>4, RankInduction
<1> QED BY <1>5

\* SegmentMatchesMeans: wildcard_match_segment says whether a pattern matches what it means,
\* for every pattern and text, whether stars take slashes or not.
THEOREM SegmentMatchesMeans ==
  ASSUME NEW pat, NEW txt, NEW slash \in BOOLEAN, Len(pat) \in Nat, Len(txt) \in Nat
  PROVE  SegmentMatches(pat, txt, slash) = Means(pat, txt, slash)
<1>1. PICK after : IsAfter(pat, txt, slash, after) /\ Means(pat, txt, slash) = (0 \in after[0])
  BY MeansIsAfter DEF IsAfter
<1>2. PICK loop : /\ SegmentMatches(pat, txt, slash) = loop[Outset]
                  /\ \A s \in Scans(pat, txt) : loop[s] = Iteration(pat, txt, slash, loop, s)
  BY MatchesIsLoop
<1>3. Outset \in Scans(pat, txt)
  BY DEF Outset, Scans
<1>4. Within(pat, txt, slash, Outset) /\ Outset.pi = 0 /\ Outset.ti = 0 /\ Outset.star = 0
  BY DEF Within, SinceStar, Outset
<1>5. loop[Outset] = Remains(txt, slash, after, Outset)
  BY <1>1, <1>2, <1>3, <1>4, LoopFinds
<1> QED BY <1>1, <1>2, <1>4, <1>5 DEF Remains, ByStar

\* StandingMatches: characters without a star that stand for as many of the text, with a rest
\* that matches, match.
LEMMA StandingMatches ==
  ASSUME NEW pat, NEW txt, NEW slash, NEW after, IsAfter(pat, txt, slash, after),
         NEW p \in 0..Len(pat), NEW n \in 0..(Len(pat) - p),
         NEW k \in 0..Len(txt), k + n \in after[p + n],
         \A q \in 1..n : pat[p + q] # "*" /\ Stands(pat, txt, slash, p + q, k + q)
  PROVE  k \in after[p]
<1> DEFINE P == Len(pat)
           T == Len(txt)
           rank == [m \in 0..n |-> n - m]
           G == {m \in 0..n : k + m \in after[p + m]}
<1>1. P \in Nat /\ T \in Nat /\ p \in Nat /\ n \in Nat /\ p + n <= P
  BY DEF IsAfter
<1>2. k + n <= T
  BY <1>1 DEF IsAfter
<1>3. ASSUME NEW m \in 0..n, \A l \in 0..n : rank[l] < rank[m] => l \in G PROVE m \in G
  <2>1. CASE m = n
    BY <2>1
  <2>2. CASE m # n
    <3>1. m + 1 \in 0..n /\ rank[m + 1] < rank[m] /\ m + 1 \in 1..n
      BY <1>1, <2>2
    <3>2. m + 1 \in G
      BY <1>3, <3>1
    <3>3. k + (m + 1) \in after[p + (m + 1)]
      BY <3>2
    <3>4. /\ p + m \in 0..(P - 1) /\ p + m + 1 = p + (m + 1)
          /\ k + m \in 0..T /\ k + m < T /\ k + m + 1 = k + (m + 1)
      BY <1>1, <1>2, <3>1
    <3>5. pat[p + (m + 1)] # "*" /\ Stands(pat, txt, slash, p + (m + 1), k + (m + 1))
      BY <3>1
    <3>6. k + m \in after[p + m]
      BY <3>3, <3>4, <3>5, AfterOther
    <3> QED BY <3>6
  <2> QED BY <2>1, <2>2
<1>4. Inherits(0..n, G, rank)
  <2>1. rank \in [0..n -> Nat]
    BY <1>1
  <2> HIDE DEF G, rank
  <2> QED BY <1>3, <2>1 DEF Inherits
<1>5. 0..n \subseteq G
  <2> HIDE DEF G, rank
  <2> QED BY <1>4, RankInduction
<1>6. k + 0 \in after[p + 0]
  <2>1. 0 \in 0..n
    BY <1>1
  <2> QED BY <1>5, <2>1
<1> QED BY <1>1, <1>6

\* Occurs: the characters of pat are those of the text after its first u.
Occurs(pat, txt, u) == u + Len(pat) <= Len(txt) /\ \A i \in 1..Len(pat) : pat[i] = txt[u + i]

\* StarTakesTheRest: when the end matches what follows a star, so does the star from anywhere.
LEMMA StarTakesTheRest ==
  ASSUME NEW pat, NEW txt, NEW after, IsAfter(pat, txt, TRUE, after),
         NEW p \in 0..(Len(pat) - 1), pat[p + 1] = "*", Len(txt) \in after[p + 1],
         NEW t \in 0..Len(txt)
  PROVE  t \in after[p]
<1>1. after[p] = {v \in 0..Len(txt) : \E u \in after[p + 1] :
                    v <= u /\ \A i \in (v + 1)..u : Takes(TRUE, txt[i])}
  BY DEF IsAfter, StepBack
<1>2. t <= Len(txt)
  BY DEF IsAfter
<1>3. \A i \in (t + 1)..Len(txt) : Takes(TRUE, txt[i])
  BY DEF Takes
<1> QED BY <1>1, <1>2, <1>3

\* BetweenStars: a literal between two stars matches where it occurs.
LEMMA BetweenStars ==
  ASSUME NEW pat \in Seq(STRING), NEW txt \in Seq(STRING),
         \A i \in 1..Len(pat) : pat[i] \notin Wild
  PROVE  Means(<<"*">> \o pat \o <<"*">>, txt, TRUE) <=> \E u \in 0..Len(txt) : Occurs(pat, txt, u)
<1> DEFINE L == Len(pat)
           T == Len(txt)
           q == <<"*">> \o pat \o <<"*">>
<1>1. L \in Nat /\ T \in Nat
  BY LenProperties
<1>2. /\ Len(q) = L + 2 /\ q[1] = "*" /\ q[L + 2] = "*"
      /\ \A i \in 1..L : q[1 + i] = pat[i]
  <2> DEFINE r == <<"*">> \o pat
             Chars == STRING \union {"*"}
  <2>1. <<"*">> \in Seq(Chars) /\ Len(<<"*">>) = 1 /\ <<"*">>[1] = "*"
    <3> HIDE DEF q, r, L
    <3> QED OBVIOUS
  <2>2. /\ r \in Seq(Chars) /\ Len(r) = 1 + L
        /\ \A i \in 1..(1 + L) : r[i] = IF i <= 1 THEN <<"*">>[i] ELSE pat[i - 1]
    <3>1. pat \in Seq(Chars)
      <4>1. STRING \subseteq Chars
        OBVIOUS
      <4> HIDE DEF q, r, L, Chars
      <4> QED BY <4>1, SeqMonotonic
    <3> HIDE DEF Chars
    <3> QED BY <2>1, <3>1, ConcatProperties
  <2> HIDE DEF Chars
  <2> HIDE DEF r
  <2>3. /\ Len(r \o <<"*">>) = 1 + L + 1
        /\ \A i \in 1..(1 + L + 1) :
             (r \o <<"*">>)[i] = IF i <= 1 + L THEN r[i] ELSE <<"*">>[i - (1 + L)]
    BY <2>1, <2>2, ConcatProperties
  <2>4. q = r \o <<"*">>
    BY DEF r
  <2> HIDE DEF q, L
  <2>5. Len(q) = L + 2
    BY <1>1, <2>3, <2>4
  <2>6. q[1] = "*"
    <3>1. 1 \in 1..(1 + L + 1) /\ 1 <= 1 + L /\ 1 \in 1..(1 + L)
      BY <1>1
    <3> QED BY <2>1, <2>2, <2>3, <2>4, <3>1
  <2>7. q[L + 2] = "*"
    <3>1. L + 2 \in 1..(1 + L + 1) /\ ~ (L + 2 <= 1 + L) /\ (L + 2) - (1 + L) = 1
      BY <1>1
    <3>2. (r \o <<"*">>)[L + 2] = <<"*">>[(L + 2) - (1 + L)]
      BY <2>3, <3>1
    <3> QED BY <2>1, <2>4, <3>1, <3>2
  <2>8. ASSUME NEW i \in 1..L PROVE q[1 + i] = pat[i]
    <3>1. /\ 1 + i \in 1..(1 + L + 1) /\ 1 + i <= 1 + L /\ 1 + i \in 1..(1 + L)
          /\ ~ (1 + i <= 1) /\ (1 + i) - 1 = i
      BY <1>1
    <3> QED BY <2>2, <2>3, <2>4, <3>1
  <2> QED BY <2>5, <2>6, <2>7, <2>8
<1> HIDE DEF q
<1>3. PICK after : IsAfter(q, txt, TRUE, after) /\ Means(q, txt, TRUE) = (0 \in after[0])
  <2>1. Len(q) \in Nat
    BY <1>1, <1>2
  <2> QED BY <1>1, <2>1, MeansIsAfter DEF IsAfter
<1>4. \A t, u : Free(txt, TRUE, t, u)
  BY DEF Free, Takes
<1>5. after \in [0..(L + 2) -> SUBSET (0..T)] /\ after[L + 2] = {T}
  BY <1>2, <1>3 DEF IsAfter
<1>6. ASSUME NEW t \in 0..T PROVE t \in after[L + 1]
  <2>1. L + 1 \in 0..(Len(q) - 1)
    BY <1>1, <1>2
  <2>2. q[L + 1 + 1] = "*" /\ T \in after[L + 1 + 1]
    <3>1. L + 1 + 1 = L + 2
      BY <1>1
    <3> HIDE DEF L, T
    <3> QED BY <1>2, <1>5, <3>1
  <2> QED BY <1>3, <2>1, <2>2, StarTakesTheRest
<1>7. 0 \in after[0] <=> \E u \in after[1] : TRUE
  <2>1. 0 \in 0..(Len(q) - 1) /\ 0 \in 0..T /\ q[0 + 1] = "*" /\ 0 + 1 = 1
    BY <1>1, <1>2
  <2>2. 0 \in after[0] <=> \E u \in after[1] : 0 <= u /\ Free(txt, TRUE, 0, u)
    BY <1>3, <2>1, AfterStar, ZenonT(30)
  <2>3. after[1] \subseteq 0..T
    BY <1>1, <1>5
  <2>4. \A u \in after[1] : 0 <= u
    BY <1>1, <2>3
  <2> QED BY <1>4, <2>2, <2>4
<1>8. 1 \in 0..Len(q) /\ L \in 0..(Len(q) - 1) /\ 1 + L = L + 1
  BY <1>1, <1>2
<1>9. ASSUME NEW i \in 1..L PROVE q[1 + i] = pat[i] /\ pat[i] # "*" /\ pat[i] # "?"
  BY <1>2 DEF Wild
<1>10. ASSUME NEW u \in after[1] PROVE u \in 0..T /\ Occurs(pat, txt, u)
  <2>1. u \in 0..T
    BY <1>1, <1>5
  <2>2. /\ u + L <= T
        /\ \A i \in 1..L : Stands(q, txt, TRUE, 1 + i, u + i)
    <3>1. /\ L \in 0..(Len(q) - 1) /\ 1 \in 0..Len(q)
          /\ \A i \in 1..L : q[1 + i] # "*"
      BY <1>8, <1>9
    <3> HIDE DEF L
    <3> QED BY <1>3, <3>1, WithoutStars
  <2> QED BY <1>9, <2>1, <2>2 DEF Occurs, Stands
<1>11. ASSUME NEW u \in 0..T, Occurs(pat, txt, u) PROVE u \in after[1]
  <2>1. u + L \in 0..T
    BY <1>1, <1>11 DEF Occurs
  <2>2. u + L \in after[1 + L]
    BY <1>6, <1>8, <2>1
  <2>3. \A i \in 1..L : q[1 + i] # "*" /\ Stands(q, txt, TRUE, 1 + i, u + i)
    BY <1>9, <1>11 DEF Occurs, Stands
  <2> QED BY <1>2, <1>3, <1>8, <2>2, <2>3, StandingMatches
<1>12. 0 \in after[0] <=> \E u \in 0..T : Occurs(pat, txt, u)
  <2>1. ASSUME 0 \in after[0] PROVE \E u \in 0..T : Occurs(pat, txt, u)
    BY <1>7, <1>10, <2>1
  <2>2. ASSUME NEW u \in 0..T, Occurs(pat, txt, u) PROVE 0 \in after[0]
    BY <1>7, <1>11, <2>2
  <2> QED BY <2>1, <2>2
<1>13. Means(q, txt, TRUE) <=> \E u \in 0..T : Occurs(pat, txt, u)
  BY <1>3, <1>12
<1> QED BY <1>13 DEF q

\* PrefixOccurs: a text goes on with another after some characters when that occurs there.
LEMMA PrefixOccurs ==
  ASSUME NEW pat \in Seq(STRING), NEW txt \in Seq(STRING), NEW n \in 0..Len(txt)
  PROVE  IsPrefix(pat, Rest(txt, n)) <=> Occurs(pat, txt, n)
<1> DEFINE r == Rest(txt, n)
<1>1. /\ r \in Seq(STRING) /\ Len(r) = Len(txt) - n
      /\ \A i \in 1..Len(txt) - n : r[i] = txt[n + i]
  BY RestOf
<1>2. Len(pat) \in Nat /\ Len(txt) \in Nat /\ n \in Nat
  BY LenProperties
<1> HIDE DEF r
<1>3. IsPrefix(pat, r) <=> Len(pat) <= Len(r) /\ \A i \in 1..Len(pat) : pat[i] = r[i]
  <2>1. ASSUME Len(pat) <= Len(r)
        PROVE  /\ SubSeq(pat, 1, Len(pat)) \in Seq(STRING)
               /\ SubSeq(r, 1, Len(pat)) \in Seq(STRING)
               /\ Len(SubSeq(pat, 1, Len(pat))) = Len(pat)
               /\ Len(SubSeq(r, 1, Len(pat))) = Len(pat)
               /\ \A i \in 1..Len(pat) : SubSeq(pat, 1, Len(pat))[i] = pat[i]
               /\ \A i \in 1..Len(pat) : SubSeq(r, 1, Len(pat))[i] = r[i]
    BY <1>1, <1>2, <2>1, SMTT(30)
  <2>2. ASSUME Len(pat) <= Len(r), \A i \in 1..Len(pat) : pat[i] = r[i]
        PROVE  SubSeq(pat, 1, Len(pat)) = SubSeq(r, 1, Len(pat))
    BY <2>1, <2>2, SeqEqual
  <2>3. ASSUME Len(pat) <= Len(r), SubSeq(pat, 1, Len(pat)) = SubSeq(r, 1, Len(pat)),
               NEW i \in 1..Len(pat)
        PROVE  pat[i] = r[i]
    BY <2>1, <2>3
  <2> QED BY <2>2, <2>3 DEF IsPrefix
<1>4. Len(pat) <= Len(r) <=> n + Len(pat) <= Len(txt)
  BY <1>1, <1>2
<1>5. ASSUME n + Len(pat) <= Len(txt), NEW i \in 1..Len(pat) PROVE r[i] = txt[n + i]
  <2>1. i \in 1..Len(txt) - n
    BY <1>2, <1>5
  <2> QED BY <1>1, <2>1
<1> QED BY <1>3, <1>4, <1>5 DEF Occurs, r

\* PlainPatternsMatch: a pattern without "**" matches the texts it means.
LEMMA PlainPatternsMatch ==
  ASSUME NEW pattern \in Seq(Seq(STRING)), Len(pattern) = 1, NEW text \in Seq(STRING)
  PROVE  WildcardMatch(pattern, text) <=> GlobMeans(pattern, text)
<1> DEFINE pat == pattern[1]
<1>1. pat \in Seq(STRING)
  <2>1. 1 \in 1..Len(pattern)
    OBVIOUS
  <2> QED BY <2>1, ElementOfSeq
<1>2. Len(pat) \in Nat /\ Len(text) \in Nat /\ DOMAIN pat = 1..Len(pat) /\ ~ (Len(pattern) > 1)
  BY <1>1, LenProperties
<1> HIDE DEF pat
<1>3. ToSet(pat) \intersect Wild = {} <=> \A i \in DOMAIN pat : pat[i] \notin Wild
  BY DEF ToSet
<1>4. CASE \A i \in DOMAIN pat : pat[i] \notin Wild
  <2>1. WildcardMatch(pattern, text) <=> \E n \in 0..Len(text) : IsPrefix(pat, Rest(text, n))
    BY <1>2, <1>4 DEF WildcardMatch, pat
  <2>2. GlobMeans(pattern, text) <=> Means(<<"*">> \o pat \o <<"*">>, text, TRUE)
    BY <1>2, <1>3, <1>4 DEF GlobMeans, pat
  <2>3. Means(<<"*">> \o pat \o <<"*">>, text, TRUE) <=> \E u \in 0..Len(text) : Occurs(pat, text, u)
    BY <1>1, <1>2, <1>4, BetweenStars
  <2>4. \A n \in 0..Len(text) : IsPrefix(pat, Rest(text, n)) <=> Occurs(pat, text, n)
    BY <1>1, PrefixOccurs
  <2> QED BY <2>1, <2>2, <2>3, <2>4
<1>5. CASE ~ \A i \in DOMAIN pat : pat[i] \notin Wild
  <2>1. WildcardMatch(pattern, text) = SegmentMatches(pat, text, TRUE)
    BY <1>2, <1>5 DEF WildcardMatch, pat
  <2>2. GlobMeans(pattern, text) = Means(pat, text, TRUE)
    BY <1>2, <1>3, <1>5 DEF GlobMeans, pat
  <2>3. SegmentMatches(pat, text, TRUE) = Means(pat, text, TRUE)
    BY <1>2, SegmentMatchesMeans
  <2> QED BY <2>1, <2>2, <2>3
<1> QED BY <1>4, <1>5

\* PatternsAreAsMeant: a pattern without "**" lets through the keys it means.
THEOREM PatternsAreAsMeant == PlannerSpec => []PatternsAsMeant
<1>1. PlannerTypes => PatternsAsMeant
  <2> SUFFICES ASSUME PlannerTypes,
                      NEW pattern \in setup.filters.include \union setup.filters.exclude,
                      NEW key \in Keys, Len(pattern) = 1
               PROVE  WildcardMatch(pattern, key) <=> GlobMeans(pattern, key)
    BY DEF PatternsAsMeant
  <2>1. setup \in Setups
    BY DEF PlannerTypes, PlannerType
  <2>2. pattern \in Seq(Seq(STRING))
    BY <2>1, SetupsAssumption
  <2>3. key \in Seq(STRING)
    BY DataAssumption
  <2> QED BY <2>2, <2>3, PlainPatternsMatch
<1> QED BY <1>1, PlannerInvariant, PTL DEF PlannerIInv

=============================================================================
