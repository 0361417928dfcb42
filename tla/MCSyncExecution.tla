-------------------------- MODULE MCSyncExecution --------------------------
(* Instances of SyncExecution for TLC. *)
EXTENDS SyncExecution

Plan(t, d) == [some |-> TRUE, transfers |-> t, deletes |-> d, blocked |-> FALSE]

\* One plan of each shape: nothing to delete, a delete batch or two, refused.
MCPlans == {Plan(2, 1), Plan(1, 2),
            [some |-> TRUE, transfers |-> 1, deletes |-> 0, blocked |-> TRUE]}

MCOnePlan == {Plan(1, 1)}
=============================================================================
