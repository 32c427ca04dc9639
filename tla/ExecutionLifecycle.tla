---------------------------- MODULE ExecutionLifecycle ----------------------------
(* What the domain model promises of one row of the executions table            *)
(* (internal/core/domain/execution.go): it is saved as pending, and moves only   *)
(* along the methods MarkAsRunning, MarkAsFailed, MarkAsCompleted and            *)
(* MarkAsCancelled, each from the states in which it makes sense; the three      *)
(* states IsTerminal names are final.  A row may disappear with its workflow.    *)
CONSTANT ID           \* the ids of execution rows

VARIABLE status       \* the status of every row, "none" when there is no row

ExecutionStatus == {"pending", "running", "completed", "failed", "cancelled"}
Terminal        == {"completed", "failed", "cancelled"}   \* IsTerminal
Cancellable     == {"pending", "running"}                 \* CanCancel

Init == status = [id \in ID |-> "none"]

\* A row of id moves from one of the states in from to the state to.
Move(id, from, to) ==
    /\ status[id] \in from
    /\ status' = [status EXCEPT ![id] = to]

Save(id)            == Move(id, {"none"}, "pending")
MarkAsRunning(id)   == Move(id, {"pending"}, "running")
MarkAsCompleted(id) == Move(id, {"running"}, "completed")
MarkAsFailed(id)    == Move(id, Cancellable, "failed")
MarkAsCancelled(id) == Move(id, Cancellable, "cancelled")

\* The rows in gone disappear, with the workflow they belong to.
Cascade(gone) ==
    status' = [id \in ID |-> IF id \in gone THEN "none" ELSE status[id]]

Next ==
    \/ \E id \in ID :
          \/ Save(id)
          \/ MarkAsRunning(id)
          \/ MarkAsCompleted(id)
          \/ MarkAsFailed(id)
          \/ MarkAsCancelled(id)
    \/ \E gone \in SUBSET ID : Cascade(gone)

Spec == Init /\ [][Next]_status
===================================================================================
