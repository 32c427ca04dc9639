---------------------------- MODULE WorkflowExecution -----------------------------
(* The mounted path of the API from a workflow to its executions:                *)
(* WorkflowService.Create/Update/Delete/Execute (core/service/workflow.go) and   *)
(* ExecutionService.Cancel (core/service/execution.go), over the repositories    *)
(* of adapter/driven/postgres and the Temporal executor.                         *)
(*                                                                               *)
(* Handlers run concurrently; a request is a goroutine that issues autocommit    *)
(* SQL statements and calls to Temporal one after the other.  An action is one   *)
(* such statement or call together with the in-memory code up to the next one,   *)
(* and pc[r] names the statement request r is about to issue.  A request may be  *)
(* cut short between any two of them, by an error of a statement, by an answer   *)
(* lost after the statement took effect, by the client going away, by the 60 s   *)
(* timeout of the router or by the end of the process: Abort.                    *)
EXTENDS Naturals

CONSTANTS
    Request,      \* HTTP requests, each served once
    Seeded,       \* ids of the workflows present in the first state
    Definition,   \* contents of a workflow's definition
    NoRow,        \* no such row, nothing read yet
    NoRun,        \* no Temporal run
    Nil           \* a NULL column, an absent field of a JSON body

-----------------------------------------------------------------------------------
(* Every object the services create gets an id twice: uuid.New() in the service, *)
(* and the DEFAULT of the id column, because no INSERT of the repositories       *)
(* passes the id of the service on.                                              *)
MemoryID(r) == <<r, "memory">>
\* Mutant: the INSERT stores the id of the service.
StoredIDKept(r) == <<r, "memory">>
StoredID(r) == <<r, "database">>
UUID == Seeded \cup (Request \X {"memory", "database"})

WorkflowStatus  == {"draft", "active", "inactive"}
ExecutionStatus == {"pending", "running", "completed", "failed", "cancelled"}

WorkflowRow  == [definition : Definition, status : WorkflowStatus, version : Nat]
\* The executor's "workflow-<id>-<version>".
TemporalID   == [workflow : UUID, version : Nat]
ExecutionRow == [workflow : UUID, status : ExecutionStatus,
                 temporalID : TemporalID \cup {Nil}]
\* The *domain.Execution a handler works on.
Execution    == [id : UUID, status : ExecutionStatus,
                 temporalID : TemporalID \cup {Nil}]
Run          == [temporalID : TemporalID, definition : Definition,
                 open : BOOLEAN, cancelRequested : BOOLEAN]
\* UpdateWorkflowRequest: every field is optional.  The status is any string; one
\* that is not "active" has the effect of "inactive".
Patch        == [definition : Definition \cup {Nil},
                 status : {"active", "inactive", Nil}]

Op == {"none", "create", "update", "delete", "execute", "cancel"}
Pc == {"idle", "updateRow", "deleteRow", "save", "start", "settle", "giveUp",
       "cancelRun", "markCancelled", "audit", "ok", "refused"}

ASSUME ConstantsAssumption ==
    /\ NoRow \notin WorkflowRow
    /\ NoRow \notin ExecutionRow
    /\ NoRow \notin Execution
    /\ NoRow \notin UUID
    /\ NoRun \notin Run
    /\ NoRun \notin Request
    /\ Nil \notin Definition
    /\ Nil \notin TemporalID
    /\ Nil \notin WorkflowStatus
    /\ Seeded \cap (Request \X {"memory", "database"}) = {}

VARIABLES
    workflows,    \* table workflows
    executions,   \* table executions
    audited,      \* the requests with an entry in table audit_logs
    runs,         \* Temporal: the run that each request started
    pc, op, arg,  \* per request: next statement, operation, id in the URL
    workflow,     \* per request: the *domain.Workflow in memory
    execution,    \* per request: the *domain.Execution in memory
    joined        \* per request: whose run ExecuteWorkflow answered with

tables == <<workflows, executions, audited>>
memory == <<op, arg, workflow, execution, joined>>
vars   == <<workflows, executions, audited, runs, pc,
            op, arg, workflow, execution, joined>>

Init ==
    /\ \E seed \in [Seeded -> [definition : Definition, status : WorkflowStatus,
                               version : {1}]] :
          workflows = [id \in UUID |-> IF id \in Seeded THEN seed[id] ELSE NoRow]
    /\ executions = [id \in UUID |-> NoRow]
    /\ audited = {}
    /\ runs = [r \in Request |-> NoRun]
    /\ pc = [r \in Request |-> "idle"]
    /\ op = [r \in Request |-> "none"]
    /\ arg = [r \in Request |-> NoRow]
    /\ workflow = [r \in Request |-> NoRow]
    /\ execution = [r \in Request |-> NoRow]
    /\ joined = [r \in Request |-> NoRun]

-----------------------------------------------------------------------------------
(* Control of a request. *)

\* The request begins operation o on the id of its URL.
Begin(r, o, id) ==
    /\ pc[r] = "idle"
    /\ op' = [op EXCEPT ![r] = o]
    /\ arg' = [arg EXCEPT ![r] = id]

Goto(r, next) == pc' = [pc EXCEPT ![r] = next]

\* The request ends before its next statement takes effect.
Abort(r) ==
    /\ pc[r] \notin {"idle", "ok", "refused"}
    /\ Goto(r, "refused")
    /\ UNCHANGED <<tables, runs, memory>>

\* FindByID of either repository finds no row: 404.
NotFound(r, o, id) ==
    /\ Begin(r, o, id)
    /\ IF o = "cancel" THEN executions[id] = NoRow ELSE workflows[id] = NoRow
    /\ Goto(r, "refused")
    /\ UNCHANGED <<tables, runs, workflow, execution, joined>>

\* logAudit: the entry is written after the operation, and its error is dropped.
Audit(r) ==
    /\ pc[r] = "audit"
    /\ audited' \in {audited, audited \cup {r}}
    /\ Goto(r, "ok")
    /\ UNCHANGED <<workflows, executions, runs, memory>>

-----------------------------------------------------------------------------------
(* WorkflowService.Create, Update, Delete. *)

\* CreateWorkflow: a draft of version 1, under an id the database chooses.
Create(r, definition) ==
    /\ Begin(r, "create", MemoryID(r))
    /\ workflows' = [workflows EXCEPT ![StoredID(r)] =
          [definition |-> definition, status |-> "draft", version |-> 1]]
    /\ Goto(r, "audit")
    /\ UNCHANGED <<executions, audited, runs, workflow, execution, joined>>

\* Mutant: absent fields of the request are laid over the row as well.
MergeAbsent(row, patch) ==
    [row EXCEPT !.definition = patch.definition, !.status = patch.status]
Merge(row, patch) ==
    [row EXCEPT !.definition = IF patch.definition = Nil THEN @ ELSE patch.definition,
                !.status     = IF patch.status = Nil THEN @ ELSE patch.status]

\* Update reads the row and lays the fields of the request over it.
UpdateRead(r, id, patch) ==
    /\ Begin(r, "update", id)
    /\ workflows[id] # NoRow
    /\ workflow' = [workflow EXCEPT ![r] = Merge(workflows[id], patch)]
    /\ Goto(r, "updateRow")
    /\ UNCHANGED <<tables, runs, execution, joined>>

\* Mutant: the version is counted in the service, from the row that was read.
UpdatedInMemory(stored, written) == [written EXCEPT !.version = written.version + 1]
\* What UPDATE workflows SET ..., version = version + 1 makes of the stored row.
Updated(stored, written) == [written EXCEPT !.version = stored.version + 1]

\* The whole row is written back, over whatever was stored in between.
UpdateRow(r) ==
    /\ pc[r] = "updateRow"
    /\ workflows[arg[r]] # NoRow
    /\ workflows' = [workflows EXCEPT ![arg[r]] = Updated(@, workflow[r])]
    /\ Goto(r, "audit")
    /\ UNCHANGED <<executions, audited, runs, memory>>

\* Delete looks the row up only to answer 404 and to have its content for the audit.
DeleteRead(r, id) ==
    /\ Begin(r, "delete", id)
    /\ workflows[id] # NoRow
    /\ workflow' = [workflow EXCEPT ![r] = workflows[id]]
    /\ Goto(r, "deleteRow")
    /\ UNCHANGED <<tables, runs, execution, joined>>

\* ON DELETE CASCADE takes the execution rows of the workflow with it.
Cascaded(id) ==
    [e \in UUID |-> IF executions[e] # NoRow /\ executions[e].workflow = id
                    THEN NoRow ELSE executions[e]]

\* Deleting a row that is already gone is not an error.
DeleteRow(r) ==
    /\ pc[r] = "deleteRow"
    /\ workflows' = [workflows EXCEPT ![arg[r]] = NoRow]
    /\ executions' = Cascaded(arg[r])
    /\ Goto(r, "audit")
    /\ UNCHANGED <<audited, runs, memory>>

-----------------------------------------------------------------------------------
(* WorkflowService.Execute. *)

CanExecute(row) == row.status = "active"

\* Mutant: the run is started before the record is saved.
ExecuteUnsaved(r, id) ==
    /\ Begin(r, "execute", id)
    /\ workflows[id] # NoRow
    /\ CanExecute(workflows[id])
    /\ workflow' = [workflow EXCEPT ![r] = workflows[id]]
    /\ execution' = [execution EXCEPT ![r] =
          [id |-> MemoryID(r), status |-> "pending", temporalID |-> Nil]]
    /\ Goto(r, "start")
    /\ UNCHANGED <<tables, runs, joined>>

\* FindByID, CanExecute and the new execution, still without Temporal ids.
ExecuteRead(r, id) ==
    /\ Begin(r, "execute", id)
    /\ workflows[id] # NoRow
    /\ CanExecute(workflows[id])
    /\ workflow' = [workflow EXCEPT ![r] = workflows[id]]
    /\ execution' = [execution EXCEPT ![r] =
          [id |-> MemoryID(r), status |-> "pending", temporalID |-> Nil]]
    /\ Goto(r, "save")
    /\ UNCHANGED <<tables, runs, joined>>

\* ErrWorkflowCannotExecute.
CannotExecute(r, id) ==
    /\ Begin(r, "execute", id)
    /\ workflows[id] # NoRow
    /\ ~ CanExecute(workflows[id])
    /\ Goto(r, "refused")
    /\ UNCHANGED <<tables, runs, workflow, execution, joined>>

\* executionRepo.Save: the foreign key wants the workflow to exist still.
Save(r) ==
    /\ pc[r] = "save"
    /\ workflows[arg[r]] # NoRow
    /\ executions' = [executions EXCEPT ![StoredID(r)] =
          [workflow |-> arg[r], status |-> execution[r].status,
           temporalID |-> execution[r].temporalID]]
    /\ Goto(r, "start")
    /\ UNCHANGED <<workflows, audited, runs, memory>>

\* Mutant: the version is left out of the id.
RunIDOfWorkflow(r) == [workflow |-> arg[r], version |-> 1]
\* The workflow id that the executor gives to Temporal.
RunID(r) == [workflow |-> arg[r], version |-> workflow[r].version]

\* The requests whose run is open under that id.
OpenUnder(id) ==
    {q \in Request : runs[q] # NoRun /\ runs[q].open /\ runs[q].temporalID = id}

\* Temporal answers a start with the run that is open under the id, if there is one.
NewRun(r) ==
    IF OpenUnder(RunID(r)) = {}
    THEN [runs EXCEPT ![r] = [temporalID |-> RunID(r),
                              definition |-> workflow[r].definition,
                              open |-> TRUE, cancelRequested |-> FALSE]]
    ELSE runs
Joinable(r) == IF OpenUnder(RunID(r)) = {} THEN {r} ELSE OpenUnder(RunID(r))

\* executor.Execute, then the Temporal ids and MarkAsRunning, in memory.
Start(r) ==
    /\ pc[r] = "start"
    /\ CanExecute(workflow[r])
    /\ runs' = NewRun(r)
    /\ \E q \in Joinable(r) : joined' = [joined EXCEPT ![r] = q]
    /\ execution' = [execution EXCEPT ![r].status = "running",
                                      ![r].temporalID = RunID(r)]
    /\ Goto(r, "settle")
    /\ UNCHANGED <<tables, op, arg, workflow>>

\* Mutant: the error of executor.Execute is dropped.
StartErrorDropped(r) ==
    /\ pc[r] = "start"
    /\ runs' \in {runs, NewRun(r)}
    /\ execution' = [execution EXCEPT ![r].status = "running"]
    /\ Goto(r, "settle")
    /\ UNCHANGED <<tables, op, arg, workflow, joined>>

\* executor.Execute fails, before or after Temporal took the start; MarkAsFailed.
StartFails(r) ==
    /\ pc[r] = "start"
    /\ runs' \in {runs, NewRun(r)}
    /\ execution' = [execution EXCEPT ![r].status = "failed"]
    /\ Goto(r, "giveUp")
    /\ UNCHANGED <<tables, op, arg, workflow, joined>>

\* executionRepo.Update: the status of the row with the id of the value in memory.
UpdateExecution(e) ==
    executions' = IF executions[e.id] = NoRow THEN executions
                  ELSE [executions EXCEPT ![e.id].status = e.status]

\* The update that records the start.
Settle(r) ==
    /\ pc[r] = "settle"
    /\ UpdateExecution(execution[r])
    /\ Goto(r, "audit")
    /\ UNCHANGED <<workflows, audited, runs, memory>>

\* The update that records the failure; its own error is dropped.
GiveUp(r) ==
    /\ pc[r] = "giveUp"
    /\ UpdateExecution(execution[r])
    /\ Goto(r, "refused")
    /\ UNCHANGED <<workflows, audited, runs, memory>>

\* The workflow was deleted since it was read: UPDATE ... RETURNING finds no row,
\* and the foreign key refuses the execution.
WorkflowGone(r) ==
    /\ pc[r] \in {"updateRow", "save"}
    /\ workflows[arg[r]] = NoRow
    /\ Goto(r, "refused")
    /\ UNCHANGED <<tables, runs, memory>>

-----------------------------------------------------------------------------------
(* ExecutionService.Cancel. *)

CanCancel(row) == row.status \in {"pending", "running"}

CancelRead(r, id) ==
    /\ Begin(r, "cancel", id)
    /\ executions[id] # NoRow
    /\ CanCancel(executions[id])
    /\ execution' = [execution EXCEPT ![r] =
          [id |-> id, status |-> executions[id].status,
           temporalID |-> executions[id].temporalID]]
    /\ Goto(r, "cancelRun")
    /\ UNCHANGED <<tables, runs, workflow, joined>>

\* ErrExecutionCannotCancel.
CannotCancel(r, id) ==
    /\ Begin(r, "cancel", id)
    /\ executions[id] # NoRow
    /\ ~ CanCancel(executions[id])
    /\ Goto(r, "refused")
    /\ UNCHANGED <<tables, runs, workflow, execution, joined>>

\* executor.Cancel, when the row names a Temporal workflow; then MarkAsCancelled.
CancelRun(r) ==
    /\ pc[r] = "cancelRun"
    /\ runs' = [q \in Request |->
          IF execution[r].temporalID # Nil /\ q \in OpenUnder(execution[r].temporalID)
          THEN [runs[q] EXCEPT !.cancelRequested = TRUE] ELSE runs[q]]
    /\ execution' = [execution EXCEPT ![r].status = "cancelled"]
    /\ Goto(r, "markCancelled")
    /\ UNCHANGED <<tables, op, arg, workflow, joined>>

MarkCancelled(r) ==
    /\ pc[r] = "markCancelled"
    /\ UpdateExecution(execution[r])
    /\ Goto(r, "ok")
    /\ UNCHANGED <<workflows, audited, runs, memory>>

-----------------------------------------------------------------------------------
\* The worker brings a run to its end; nothing tells the API.
CloseRun(r) ==
    /\ runs[r] # NoRun
    /\ runs[r].open
    /\ runs' = [runs EXCEPT ![r].open = FALSE]
    /\ UNCHANGED <<tables, pc, memory>>

Begins(r) ==
    \/ \E definition \in Definition : Create(r, definition)
    \/ \E id \in UUID :
          \/ \E patch \in Patch : UpdateRead(r, id, patch)
          \/ DeleteRead(r, id)
          \/ ExecuteRead(r, id)
          \/ CannotExecute(r, id)
          \/ CancelRead(r, id)
          \/ CannotCancel(r, id)
          \/ \E o \in {"update", "delete", "execute", "cancel"} : NotFound(r, o, id)

Continues(r) ==
    \/ UpdateRow(r)
    \/ DeleteRow(r)
    \/ Save(r)
    \/ WorkflowGone(r)
    \/ Start(r)
    \/ StartFails(r)
    \/ Settle(r)
    \/ GiveUp(r)
    \/ CancelRun(r)
    \/ MarkCancelled(r)
    \/ Audit(r)

Next == \E r \in Request : Begins(r) \/ Continues(r) \/ Abort(r) \/ CloseRun(r)

Spec == Init /\ [][Next]_vars

-----------------------------------------------------------------------------------
(* Properties. *)

TypeOK ==
    /\ workflows \in [UUID -> WorkflowRow \cup {NoRow}]
    /\ executions \in [UUID -> ExecutionRow \cup {NoRow}]
    /\ audited \subseteq Request
    /\ runs \in [Request -> Run \cup {NoRun}]
    /\ pc \in [Request -> Pc]
    /\ op \in [Request -> Op]
    /\ arg \in [Request -> UUID \cup {NoRow}]
    /\ workflow \in [Request -> WorkflowRow \cup {NoRow}]
    /\ execution \in [Request -> Execution \cup {NoRow}]
    /\ joined \in [Request -> Request \cup {NoRun}]

\* No run without a record: whatever fails, and however the workflow is edited or
\* deleted meanwhile, a run that Execute started has its row in executions, unless
\* the row went with its workflow.
RunHasRecord ==
    \A r \in Request : runs[r] # NoRun =>
        \/ workflows[arg[r]] = NoRow
        \/ /\ executions[StoredID(r)] # NoRow
           /\ executions[StoredID(r)].workflow = arg[r]

\* The Temporal id "workflow-<id>-<version>" identifies a content: two runs under
\* one id run the same definition, and as long as the stored workflow has that
\* version it is active and holds that definition.  Concurrent updates are what
\* could break it: they read and write the row in two statements.
VersionPinsDefinition ==
    \A r \in Request : runs[r] # NoRun =>
        /\ \A q \in Request :
              /\ runs[q] # NoRun
              /\ runs[q].temporalID = runs[r].temporalID
              => runs[q].definition = runs[r].definition
        /\ LET row == workflows[runs[r].temporalID.workflow]
           IN  /\ row # NoRow
               /\ row.version = runs[r].temporalID.version
               => row.status = "active" /\ row.definition = runs[r].definition

\* A start that Temporal answered with a run already open, started by another
\* request, still stands for what this request read: same id, same definition.
JoinedRunIsTheOneRead ==
    \A r \in Request : joined[r] # NoRun =>
        /\ runs[joined[r]] # NoRun
        /\ runs[joined[r]].temporalID = RunID(r)
        /\ runs[joined[r]].definition = workflow[r].definition

\* The audit log tells no lies: an entry "workflow.executed" stands for a run, an
\* entry "workflow.deleted" for a workflow that is gone with its executions, and
\* an entry "workflow.updated" for a row that is no longer at its first version.
AuditTellsTruth ==
    \A r \in audited :
        /\ op[r] = "execute" => joined[r] # NoRun
        /\ op[r] = "delete"  => /\ workflows[arg[r]] = NoRow
                                /\ \A e \in UUID : executions[e] # NoRow =>
                                                     executions[e].workflow # arg[r]
        /\ op[r] = "update" /\ workflows[arg[r]] # NoRow => workflows[arg[r]].version > 1

\* Every execution row lives the life the domain model allows: in particular a
\* cancelled row stays cancelled although Execute and Cancel write the status
\* without looking at the stored one.
Lifecycle == INSTANCE ExecutionLifecycle WITH
    ID <- UUID,
    status <- [id \in UUID |-> IF executions[id] = NoRow THEN "none"
                               ELSE executions[id].status]
LifecycleSpec == Lifecycle!Spec

-----------------------------------------------------------------------------------
(* What the repository says and the code does not do. *)

\* "Cancel in Temporal" (core/service/execution.go:90): when Cancel answers 200, the
\* run of the cancelled execution is closed or was asked to stop.
CancelReachesTemporal ==
    \A r, c \in Request :
        (op[c] = "cancel" /\ pc[c] = "ok" /\ arg[c] = StoredID(r) /\ runs[r] # NoRun)
            => runs[r].cancelRequested \/ ~ runs[r].open
===================================================================================
