------------------------------- MODULE SyncRun -------------------------------
(***************************************************************************)
(* What a run of Copy or Sync promises, without phases, workers, counters  *)
(* or dispatches: SyncExecution implements it.                             *)
(*                                                                         *)
(* A run has transfers and batches of deletes.  Each waits, goes on, ends; *)
(* none starts twice, none is lost.  Which may start, and when the run is  *)
(* over, is decided by the policy and by what has ended and how.  A run    *)
(* that began while tasks of an earlier one went on promises only that     *)
(* each of its tasks starts once: what the others report is taken for its  *)
(* own.                                                                    *)
(***************************************************************************)
EXTENDS Integers, FiniteSets

CONSTANT Plans  \* the plans a run can be of

VARIABLES
  policy,   \* the mode, when deletes run, whether errors are ignored
  status,   \* of the run: "none", "going", "done", "stopped"
  run,      \* the number of the run
  waiting,  \* its tasks to start
  going,    \* its tasks that go on
  ended,    \* its tasks that ended, with how
  report,   \* what the run says of its transfers: how many were copied and failed
  older,    \* tasks of earlier runs that go on
  met       \* a run began while tasks of earlier ones went on

vars == <<policy, status, run, waiting, going, ended, report, older, met>>

Policies == [mode: {"Diff", "Copy", "Sync"}, delete_phase: {"Before", "During", "After"},
             ignore_errors: BOOLEAN]

NoReport == [copied |-> 0, failed |-> 0]

Of(kind, tasks) == {t \in tasks : t.kind = kind}

\* What a run of a plan has to do: a copy has no deletes.
TasksOf(r, p) ==
  {[run |-> r, kind |-> "transfer", item |-> i] : i \in 0 .. p.transfers - 1} \union
  {[run |-> r, kind |-> "delete", item |-> i] :
     i \in IF policy.mode = "Copy" THEN {} ELSE 0 .. p.deletes - 1}

Failed(kind, results) == \E e \in results : e.task.kind = kind /\ ~e.ok

HasDeletes(left, results) ==
  Of("delete", left) # {} \/ \E e \in results : e.task.kind = "delete"

\* A failed delete halts a run, and a failed transfer one whose deletes run beside.
Halted(left, results) ==
  /\ ~policy.ignore_errors
  /\ \/ Failed("delete", results)
     \/ /\ policy.delete_phase = "During"
        /\ HasDeletes(left, results)
        /\ Failed("transfer", results)

\* Nothing is left to do but deletes that a failed transfer forbids.
Complete ==
  /\ going = {}
  /\ Of("transfer", waiting) = {}
  /\ waiting = {} \/ (Failed("transfer", ended) /\ ~policy.ignore_errors)

\* fresh may start while rest waits and goes on and after results: nothing after a halt;
\* deletes after every transfer, none of which failed, or before them all.
Orderly(fresh, rest, results) ==
  /\ ~Halted(fresh \union rest, results)
  /\ policy.delete_phase = "After" /\ Of("delete", fresh) # {} =>
       /\ Of("transfer", fresh \union rest) = {}
       /\ ~Failed("transfer", results) \/ policy.ignore_errors
  /\ policy.delete_phase = "Before" /\ Of("transfer", fresh) # {} =>
       Of("delete", fresh \union rest) = {}

Transfers(results, ok) == {e \in results : e.task.kind = "transfer" /\ e.ok = ok}

\* How a run stands after each of its steps.  While it goes on something will report.
Standing ==
  /\ met \/ report = [copied |-> Cardinality(Transfers(ended, TRUE)),
                     failed |-> Cardinality(Transfers(ended, FALSE))]
  /\ status \in IF met THEN {"going", "done", "stopped"}
                ELSE {IF Halted(waiting \union going, ended) THEN "stopped"
                      ELSE IF Complete THEN "done" ELSE "going"}
  /\ status = "going" => going \union older # {}

-----------------------------------------------------------------------------
Init ==
  /\ policy \in Policies
  /\ status = "none"
  /\ run = 0
  /\ waiting = {} /\ going = {} /\ ended = {} /\ older = {}
  /\ report = NoReport
  /\ met = FALSE

\* The run is given up, perhaps for a change of policy; its tasks go on.
Drop ==
  /\ policy' \in Policies
  /\ status' = "none"
  /\ waiting' = {} /\ going' = {} /\ ended' = {}
  /\ report' = NoReport
  /\ older' = older \union going
  /\ UNCHANGED <<run, met>>

\* A run begins, in place of the one before.
Begin ==
  /\ run' = run + 1
  /\ older' = older \union going
  /\ met' = (met \/ older \union going # {})
  /\ \E p \in Plans : \E fresh \in SUBSET TasksOf(run + 1, p) :
       LET rest == TasksOf(run + 1, p) \ fresh
       IN  /\ met' \/ Orderly(fresh, rest, {})
           /\ going' = fresh
           /\ waiting' = rest
  /\ ended' = {}
  /\ Standing'
  /\ UNCHANGED policy

\* The run moves on: of its tasks these go on, with these results, and others start.
\* A run that is over starts nothing and stays over.
Move(rest, results) ==
  /\ status # "none"
  /\ \E fresh \in SUBSET waiting :
       /\ fresh # {} =>
            /\ status = "going"
            /\ met \/ Orderly(fresh, (waiting \ fresh) \union rest, results)
       /\ going' = rest \union fresh
       /\ waiting' = waiting \ fresh
  /\ ended' = results
  /\ Standing'
  /\ status = "done" => status' = "done" \/ (met /\ status' = "stopped")
  /\ status = "stopped" => status' = "stopped"
  /\ UNCHANGED <<policy, run, met>>

\* More of its tasks start, as when there are more workers.
Continue == Move(going, ended) /\ UNCHANGED older

\* A task of the run ends.
End(t, ok) ==
  /\ t \in going
  /\ Move(going \ {t}, ended \union {[task |-> t, ok |-> ok]})
  /\ UNCHANGED older

\* A task of an earlier run ends, which the run takes for one of its own.
EndOlder(t) ==
  /\ t \in older
  /\ older' = older \ {t}
  /\ \/ Move(going, ended)
     \/ status = "none" /\ UNCHANGED <<policy, status, run, waiting, going, ended, report, met>>

Next ==
  \/ Drop
  \/ Begin
  \/ Continue
  \/ \E t \in going, ok \in BOOLEAN : End(t, ok)
  \/ \E t \in older : EndOlder(t)

Spec == Init /\ [][Next]_vars
=============================================================================
