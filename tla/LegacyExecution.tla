----------------------------- MODULE LegacyExecution ------------------------------
(* Executions as the older code runs them, before there were services: the          *)
(* handler Execute and the goroutine it leaves behind (internal/workflow/handler.go), *)
(* the start of a workflow by an alert (Evaluator.triggerWorkflow in                 *)
(* internal/alertrule/evaluator.go) and Cancel (internal/execution/handler.go).      *)
(*                                                                                 *)
(* As in WorkflowExecution an action is one statement or call.  Most statements     *)
(* after the start of the run drop their error, so that they may or may not take    *)
(* effect.  Every execution has a Temporal id of its own, and no start joins        *)
(* another run.                                                                    *)
CONSTANTS
    Request,      \* requests to execute or cancel, and alerts that trigger
    NoRow

Status == {"pending", "running", "completed", "failed", "cancelled"}
Row    == [status : Status, runID : BOOLEAN]   \* runID: temporal_run_id is set

\* A closed run returned its output, with the status "completed" or "failed" in it, or
\* ended with an error.
Outcome == {"completed", "failed", "error"}

Op == {"none", "execute", "trigger", "cancel"}
Pc == {"idle", "create", "link", "start", "setIDs", "setRunning", "setRunID", "fail",
       "cancelRun", "setCancelled", "done", "refused", "lost"}

ASSUME ConstantsAssumption == NoRow \notin Row

VARIABLES
    present,      \* the workflow has its row
    executions,   \* the row that each request created
    linked,       \* the alerts with a triggered_workflow_execution_id
    runs,         \* Temporal: the run of each request
    dynamic,      \* the requests that started DynamicWorkflow, not ProcessWorkflow
    endless,      \* those of them whose definition has a step that may never end
    cancelling,   \* the requests whose run was asked to stop
    waiting,      \* the requests whose goroutine waits for the run
    pc, op,       \* per request: next statement, operation
    arg           \* per request: whose execution it cancels

vars == <<present, executions, linked, runs, dynamic, endless, cancelling, waiting, pc, op, arg>>

Init ==
    /\ present = TRUE
    /\ executions = [r \in Request |-> NoRow]
    /\ linked = {}
    /\ runs = [r \in Request |-> "none"]
    /\ dynamic = {}
    /\ endless = {}
    /\ cancelling = {}
    /\ waiting = {}
    /\ pc = [r \in Request |-> "idle"]
    /\ op = [r \in Request |-> "none"]
    /\ arg = [r \in Request |-> r]

Goto(r, next) == pc' = [pc EXCEPT ![r] = next]

\* UPDATE executions SET ... WHERE id = $1, of which the error is dropped.
Update(r, row) ==
    executions' \in {executions,
                     IF executions[r] = NoRow THEN executions
                     ELSE [executions EXCEPT ![r] = row]}

WithStatus(r, status) == [executions[r] EXCEPT !.status = status]

-----------------------------------------------------------------------------------
(* Handler.Execute and Evaluator.triggerWorkflow. *)

\* GetWorkflow; nobody asks whether the workflow is active.
ReadWorkflow(r, o) ==
    /\ pc[r] = "idle"
    /\ op' = [op EXCEPT ![r] = o]
    /\ Goto(r, IF present THEN "create" ELSE "refused")
    /\ UNCHANGED <<present, executions, linked, runs, dynamic, endless, cancelling, waiting, arg>>

\* Mutant: the error of CreateExecution is dropped.
CreateUnchecked(r) ==
    /\ pc[r] = "create"
    /\ executions' \in {executions,
                        [executions EXCEPT ![r] = [status |-> "pending", runID |-> FALSE]]}
    /\ Goto(r, IF op[r] = "trigger" THEN "link" ELSE "start")
    /\ UNCHANGED <<present, linked, runs, dynamic, endless, cancelling, waiting, op, arg>>

\* CreateExecution: the row names its Temporal workflow from the beginning.
Create(r) ==
    /\ pc[r] = "create"
    /\ present
    /\ executions' = [executions EXCEPT ![r] = [status |-> "pending", runID |-> FALSE]]
    /\ Goto(r, IF op[r] = "trigger" THEN "link" ELSE "start")
    /\ UNCHANGED <<present, linked, runs, dynamic, endless, cancelling, waiting, op, arg>>

\* CreateExecution fails: the workflow is gone, or the statement fails.
CreateFails(r) ==
    /\ pc[r] = "create"
    /\ Goto(r, "refused")
    /\ UNCHANGED <<present, executions, linked, runs, dynamic, endless, cancelling, waiting, op, arg>>

\* UpdateAlertTriggeredExecution, which the foreign key refuses once the row is gone.
Link(r) ==
    /\ pc[r] = "link"
    /\ linked' \in {linked, IF executions[r] = NoRow THEN linked ELSE linked \cup {r}}
    /\ Goto(r, "start")
    /\ UNCHANGED <<present, executions, runs, dynamic, endless, cancelling, waiting, op, arg>>

\* Temporal takes the start of the workflow that the definition calls for.  Nobody looks
\* at the timeouts and retry policies in it: those of a step may be unlimited, or such
\* that Temporal never takes the step (DynamicWorkflow's Bounded).
Started(r) ==
    /\ runs' = [runs EXCEPT ![r] = "open"]
    /\ \/ UNCHANGED <<dynamic, endless>>
       \/ dynamic' = dynamic \cup {r} /\ endless' \in {endless, endless \cup {r}}

Start(r) ==
    /\ pc[r] = "start"
    /\ Started(r)
    /\ Goto(r, IF op[r] = "trigger" THEN "setRunID" ELSE "setIDs")
    /\ UNCHANGED <<present, executions, linked, cancelling, waiting, op, arg>>

\* The call fails, before or after Temporal took the start.
StartFails(r) ==
    /\ pc[r] = "start"
    /\ Started(r) \/ UNCHANGED <<runs, dynamic, endless>>
    /\ Goto(r, "fail")
    /\ UNCHANGED <<present, executions, linked, cancelling, waiting, op, arg>>

MarkFailed(r) ==
    /\ pc[r] = "fail"
    /\ Update(r, WithStatus(r, "failed"))
    /\ Goto(r, "refused")
    /\ UNCHANGED <<present, linked, runs, dynamic, endless, cancelling, waiting, op, arg>>

\* Mutant: the goroutine is started as soon as the run is.
SetIDsAndWait(r) ==
    /\ pc[r] = "setIDs"
    /\ Update(r, [executions[r] EXCEPT !.runID = TRUE])
    /\ waiting' = waiting \cup {r}
    /\ Goto(r, "setRunning")
    /\ UNCHANGED <<present, linked, runs, dynamic, endless, cancelling, op, arg>>

\* UpdateExecutionTemporalIDs.
SetIDs(r) ==
    /\ pc[r] = "setIDs"
    /\ Update(r, [executions[r] EXCEPT !.runID = TRUE])
    /\ Goto(r, "setRunning")
    /\ UNCHANGED <<present, linked, runs, dynamic, endless, cancelling, waiting, op, arg>>

\* UpdateExecutionStatus "running", and the goroutine that waits for the run.
SetRunning(r) ==
    /\ pc[r] = "setRunning"
    /\ Update(r, WithStatus(r, "running"))
    /\ waiting' = waiting \cup {r}
    /\ Goto(r, "done")
    /\ UNCHANGED <<present, linked, runs, dynamic, endless, cancelling, op, arg>>

\* UpdateExecutionRunID: both at once, and nobody waits for the run of an alert.
SetRunID(r) ==
    /\ pc[r] = "setRunID"
    /\ Update(r, [WithStatus(r, "running") EXCEPT !.runID = TRUE])
    /\ Goto(r, "done")
    /\ UNCHANGED <<present, linked, runs, dynamic, endless, cancelling, waiting, op, arg>>

-----------------------------------------------------------------------------------
(* The run, and the goroutine that waits for it. *)

\* DynamicWorkflow never returns an error, whatever became of its steps and although it
\* was cancelled; ProcessWorkflow returns those of Validate and Process.
CloseRun(r) ==
    /\ runs[r] = "open"
    /\ \E outcome \in IF r \in dynamic THEN {"completed", "failed"}
                                      ELSE {"completed", "error"} :
          runs' = [runs EXCEPT ![r] = outcome]
    /\ UNCHANGED <<present, executions, linked, dynamic, endless, cancelling, waiting, pc, op, arg>>

\* Mutant: the status of the run is stored as it is.
RecordedAsIs(outcome) == outcome
\* What run.Get makes of a closed run: the status in its output is not looked at.
Recorded(outcome) == IF outcome = "error" THEN "failed" ELSE "completed"

\* Mutant: no return after FailExecution.
RecordTwice(r) ==
    /\ r \in waiting
    /\ runs[r] \in Outcome
    /\ Update(r, WithStatus(r, "completed"))
    /\ waiting' = waiting \ {r}
    /\ UNCHANGED <<present, linked, runs, dynamic, endless, cancelling, pc, op, arg>>

\* Mutant: the goroutine waits for the row to be there.
RecordNeedsRow(r) ==
    /\ r \in waiting
    /\ runs[r] \in Outcome
    /\ executions[r] # NoRow
    /\ Update(r, WithStatus(r, Recorded(runs[r])))
    /\ waiting' = waiting \ {r}
    /\ UNCHANGED <<present, linked, runs, dynamic, endless, cancelling, pc, op, arg>>

\* CompleteExecution or FailExecution.
Record(r) ==
    /\ r \in waiting
    /\ runs[r] \in Outcome
    /\ Update(r, WithStatus(r, Recorded(runs[r])))
    /\ waiting' = waiting \ {r}
    /\ UNCHANGED <<present, linked, runs, dynamic, endless, cancelling, pc, op, arg>>

\* run.Get gives up on Temporal before the run has ended.
GiveUp(r) ==
    /\ r \in waiting
    /\ Update(r, WithStatus(r, "failed"))
    /\ waiting' = waiting \ {r}
    /\ UNCHANGED <<present, linked, runs, dynamic, endless, cancelling, pc, op, arg>>

-----------------------------------------------------------------------------------
(* Handler.Cancel, Handler.Delete, and the end of the process. *)

CancelRead(c, r) ==
    /\ pc[c] = "idle"
    /\ op' = [op EXCEPT ![c] = "cancel"]
    /\ arg' = [arg EXCEPT ![c] = r]
    /\ Goto(c, IF executions[r] = NoRow THEN "refused"
               ELSE IF executions[r].status \notin {"pending", "running"} THEN "refused"
               ELSE IF executions[r].runID THEN "cancelRun" ELSE "setCancelled")
    /\ UNCHANGED <<present, executions, linked, runs, dynamic, endless, cancelling, waiting>>

\* CancelWorkflow; its error is logged.
CancelRun(c) ==
    /\ pc[c] = "cancelRun"
    /\ cancelling' \in {cancelling, cancelling \cup {arg[c]}}
    /\ Goto(c, "setCancelled")
    /\ UNCHANGED <<present, executions, linked, runs, dynamic, endless, waiting, op, arg>>

SetCancelled(c) ==
    /\ pc[c] = "setCancelled"
    /\ Update(arg[c], WithStatus(arg[c], "cancelled"))
    /\ Goto(c, "done")
    /\ UNCHANGED <<present, linked, runs, dynamic, endless, cancelling, waiting, op, arg>>

\* The workflow is deleted, and its executions with it; links to them become NULL.
DeleteWorkflow ==
    /\ present
    /\ present' = FALSE
    /\ executions' = [r \in Request |-> NoRow]
    /\ linked' = {}
    /\ UNCHANGED <<runs, dynamic, endless, cancelling, waiting, pc, op, arg>>

\* The process ends, and is started again without a memory.
Crash ==
    /\ pc' = [r \in Request |-> IF pc[r] \in {"idle", "done", "refused"} THEN pc[r]
                                                                        ELSE "lost"]
    /\ waiting' = {}
    /\ UNCHANGED <<present, executions, linked, runs, dynamic, endless, cancelling, op, arg>>

Handler(r) ==
    \/ \E o \in {"execute", "trigger"} : ReadWorkflow(r, o)
    \/ Create(r)
    \/ CreateFails(r)
    \/ Link(r)
    \/ Start(r)
    \/ StartFails(r)
    \/ MarkFailed(r)
    \/ SetIDs(r)
    \/ SetRunning(r)
    \/ SetRunID(r)
    \/ \E q \in Request : CancelRead(r, q)
    \/ CancelRun(r)
    \/ SetCancelled(r)

Next ==
    \/ \E r \in Request : Handler(r) \/ CloseRun(r) \/ Record(r) \/ GiveUp(r)
    \/ DeleteWorkflow
    \/ Crash

Spec == Init /\ [][Next]_vars

\* A run ends by itself if ProcessWorkflow or a bounded definition is run, and after a
\* cancellation in any case: the properties Terminates and CancelledRunEnds of
\* DynamicWorkflow.
Ends(r) == r \notin endless \/ r \in cancelling

\* Runs that end do so some time, and a goroutine whose run has ended is woken up.  No
\* endless run has to end, nobody has to cancel it, and run.Get, whose context has no
\* deadline, does not have to give up.
FairSpec ==
    Spec /\ \A r \in Request : WF_vars(Ends(r) /\ CloseRun(r)) /\ WF_vars(Record(r))

-----------------------------------------------------------------------------------
(* Properties. *)

TypeOK ==
    /\ present \in BOOLEAN
    /\ executions \in [Request -> Row \cup {NoRow}]
    /\ linked \subseteq Request
    /\ runs \in [Request -> {"none", "open"} \cup Outcome]
    /\ dynamic \subseteq Request
    /\ endless \subseteq dynamic
    /\ cancelling \subseteq Request
    /\ waiting \subseteq Request
    /\ pc \in [Request -> Pc]
    /\ op \in [Request -> Op]
    /\ arg \in [Request -> Request]

\* No run without a record, however many of the dropped errors occur: a run has its row,
\* which names it by temporal_workflow_id, for as long as the workflow is there.
RunOnRecord == \A r \in Request : runs[r] # "none" /\ present => executions[r] # NoRow

\* A row is "completed" only after its run has returned, and never when it ended with
\* an error, was lost sight of, or has not been started.
CompletedMeansReturned ==
    \A r \in Request : executions[r] # NoRow =>
        (executions[r].status = "completed" => runs[r] \in {"completed", "failed"})

\* The end of an execution, once the goroutine or a failed start recorded it, is never
\* overwritten by "pending" or "running", although nothing but the order of the
\* statements in Execute keeps them apart.
EndsAreFinal ==
    [][\A r \in Request :
          executions[r] # NoRow /\ executions'[r] # NoRow =>
             (executions[r].status \in {"completed", "failed"} =>
                 executions'[r].status \notin {"pending", "running"})]_vars

\* A goroutine waits for ever for an endless run only, and only as long as Temporal is not
\* asked to cancel it (handler.go:464-467 has no deadline of its own): not for an
\* execution whose row is gone, nor for one that somebody else has marked as ended.
WaitsEnd == \A r \in Request : r \in waiting /\ Ends(r) ~> r \notin waiting
===================================================================================
