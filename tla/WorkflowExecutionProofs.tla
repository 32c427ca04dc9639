-------------------------- MODULE WorkflowExecutionProofs -------------------------
(* Theorems about WorkflowExecution, for any sets of requests, workflows and      *)
(* definitions: about its runs and versions, then that it implements              *)
(* ExecutionLifecycle and that its audit log tells the truth.                     *)
EXTENDS WorkflowExecution, TLAPS

-----------------------------------------------------------------------------------
(* The inductive invariant. *)

\* What the stage of a request says of its operation and of its memory.
Stages ==
    \A r \in Request :
        /\ pc[r] = "idle" => /\ op[r] = "none" /\ runs[r] = NoRun
                             /\ workflow[r] = NoRow /\ joined[r] = NoRun
        /\ pc[r] # "idle" => arg[r] \in UUID
        /\ pc[r] \in {"save", "start", "settle", "giveUp"} =>
              op[r] = "execute" /\ workflow[r] # NoRow /\ execution[r] # NoRow
        /\ pc[r] = "updateRow" => op[r] = "update" /\ workflow[r] # NoRow
        /\ pc[r] = "deleteRow" => op[r] = "delete"
        /\ pc[r] \in {"cancelRun", "markCancelled"} =>
              op[r] = "cancel" /\ execution[r] # NoRow

TypeInv == TypeOK /\ Stages

\* An id that a row has, or had.
Allocated(id) ==
    \/ id \in Seeded
    \/ \E p \in Request : id = StoredID(p) /\ pc[p] # "idle"

\* Rows, and the workflows requests have read, have allocated ids: a request that
\* inserts a workflow never brings a deleted one back.
NoReuse ==
    /\ \A id \in UUID : workflows[id] # NoRow => Allocated(id)
    /\ \A r \in Request : workflow[r] # NoRow => Allocated(arg[r])

\* Request r executes a workflow it has read.
Executes(r) == op[r] = "execute" /\ workflow[r] # NoRow

\* RunHasRecord, from the moment the record is saved.
Recorded ==
    \A r \in Request : pc[r] \in {"start", "settle"} \/ runs[r] # NoRun =>
        \/ workflows[arg[r]] = NoRow
        \/ /\ executions[StoredID(r)] # NoRow
           /\ executions[StoredID(r)].workflow = arg[r]

\* What was read at a version is what every other reader of that version read, and
\* what is stored for as long as the version is.
Pinned ==
    \A r \in Request : Executes(r) =>
        /\ CanExecute(workflow[r])
        /\ workflows[arg[r]] # NoRow =>
              /\ workflow[r].version <= workflows[arg[r]].version
              /\ workflow[r].version = workflows[arg[r]].version =>
                    /\ workflows[arg[r]].status = "active"
                    /\ workflows[arg[r]].definition = workflow[r].definition
        /\ \A q \in Request : Executes(q) /\ RunID(q) = RunID(r) =>
              workflow[q].definition = workflow[r].definition

\* A run stands for what its request read.
Faithful ==
    \A r \in Request :
        /\ runs[r] # NoRun =>
              /\ Executes(r)
              /\ runs[r].temporalID = RunID(r)
              /\ runs[r].definition = workflow[r].definition
        /\ joined[r] # NoRun =>
              /\ Executes(r)
              /\ runs[joined[r]] # NoRun
              /\ runs[joined[r]].temporalID = RunID(r)

IInv == TypeInv /\ NoReuse /\ Recorded /\ Pinned /\ Faithful

-----------------------------------------------------------------------------------
(* Types and stages. *)

LEMMA IDsAreUUIDs ==
    \A r \in Request : MemoryID(r) \in UUID /\ StoredID(r) \in UUID
BY DEF MemoryID, StoredID, UUID

\* The record updates of the handlers and of Temporal keep their types.
LEMMA RecordUpdates ==
    /\ \A e \in Execution, s \in ExecutionStatus :
          /\ [e EXCEPT !.status = s] \in Execution
          /\ \A t \in TemporalID : [e EXCEPT !.status = s, !.temporalID = t] \in Execution
    /\ \A run \in Run : /\ [run EXCEPT !.cancelRequested = TRUE] \in Run
                        /\ [run EXCEPT !.open = FALSE] \in Run
BY DEF Execution, Run

LEMMA MergeType ==
    ASSUME NEW row \in WorkflowRow, NEW patch \in Patch
    PROVE  Merge(row, patch) \in WorkflowRow
<1>1. /\ (IF patch.definition = Nil THEN row.definition ELSE patch.definition) \in Definition
      /\ (IF patch.status = Nil THEN row.status ELSE patch.status) \in WorkflowStatus
  BY DEF Patch, WorkflowRow, WorkflowStatus
<1> QED
  BY <1>1 DEF Merge, WorkflowRow

LEMMA TypeInvInit == Init => TypeInv
BY ConstantsAssumption
   DEF Init, TypeInv, TypeOK, Stages, WorkflowRow, Pc, Op

\* Every action keeps every variable in its type, and a request at a stage has in
\* memory what the stage needs.
LEMMA TypeInvStep == TypeInv /\ [Next]_vars => TypeInv'
<1> SUFFICES ASSUME TypeInv, [Next]_vars
             PROVE  TypeInv'
  OBVIOUS
<1> USE DEF TypeInv, TypeOK, Stages, Begin, Goto, Pc, Op
<1>1. CASE UNCHANGED vars
  BY <1>1 DEF vars
<1>2. ASSUME NEW r \in Request, Begins(r)
      PROVE  TypeInv'
  <2>1. ASSUME NEW definition \in Definition, Create(r, definition)
        PROVE  TypeInv'
    BY <2>1, IDsAreUUIDs DEF Create, WorkflowRow, WorkflowStatus
  <2>2. ASSUME NEW id \in UUID, NEW patch \in Patch, UpdateRead(r, id, patch)
        PROVE  TypeInv'
    <3>1. Merge(workflows[id], patch) \in WorkflowRow
      BY <2>2, MergeType DEF UpdateRead
    <3> QED
      BY <2>2, <3>1, ConstantsAssumption DEF UpdateRead, tables
  <2>3. ASSUME NEW id \in UUID, DeleteRead(r, id)
        PROVE  TypeInv'
    BY <2>3 DEF DeleteRead, tables
  <2>4. ASSUME NEW id \in UUID, ExecuteRead(r, id)
        PROVE  TypeInv'
    <3>1. [id |-> MemoryID(r), status |-> "pending", temporalID |-> Nil] \in Execution
      BY IDsAreUUIDs DEF Execution, ExecutionStatus
    <3> QED
      BY <2>4, <3>1, ConstantsAssumption DEF ExecuteRead, tables
  <2>5. ASSUME NEW id \in UUID, CannotExecute(r, id)
        PROVE  TypeInv'
    BY <2>5 DEF CannotExecute, tables
  <2>6. ASSUME NEW id \in UUID, CancelRead(r, id)
        PROVE  TypeInv'
    <3>1. [id |-> id, status |-> executions[id].status,
           temporalID |-> executions[id].temporalID] \in Execution
      BY <2>6 DEF CancelRead, Execution, ExecutionRow
    <3> QED
      BY <2>6, <3>1, ConstantsAssumption DEF CancelRead, tables
  <2>7. ASSUME NEW id \in UUID, CannotCancel(r, id)
        PROVE  TypeInv'
    BY <2>7 DEF CannotCancel, tables
  <2>8. ASSUME NEW id \in UUID, NEW o \in {"update", "delete", "execute", "cancel"},
               NotFound(r, o, id)
        PROVE  TypeInv'
    BY <2>8 DEF NotFound, tables
  <2> QED
    BY <1>2, <2>1, <2>2, <2>3, <2>4, <2>5, <2>6, <2>7, <2>8 DEF Begins
<1>3. ASSUME NEW r \in Request, Continues(r)
      PROVE  TypeInv'
  <2>1. ASSUME NEW e \in Execution, UpdateExecution(e)
        PROVE  executions' \in [UUID -> ExecutionRow \cup {NoRow}]
    BY <2>1 DEF UpdateExecution, Execution, ExecutionRow
  <2>2. CASE UpdateRow(r)
    <3>1. Updated(workflows[arg[r]], workflow[r]) \in WorkflowRow
      BY <2>2 DEF UpdateRow, Updated, WorkflowRow
    <3> QED
      BY <2>2, <3>1 DEF UpdateRow, memory
  <2>3. CASE DeleteRow(r)
    <3>1. Cascaded(arg[r]) \in [UUID -> ExecutionRow \cup {NoRow}]
      BY DEF Cascaded
    <3> QED
      BY <2>3, <3>1 DEF DeleteRow, memory
  <2>4. CASE Save(r)
    <3>1. [workflow |-> arg[r], status |-> execution[r].status,
           temporalID |-> execution[r].temporalID] \in ExecutionRow
      BY <2>4 DEF Save, ExecutionRow, Execution
    <3> QED
      BY <2>4, <3>1, IDsAreUUIDs DEF Save, memory
  <2>5. CASE WorkflowGone(r)
    BY <2>5 DEF WorkflowGone, tables, memory
  <2>6. ASSUME pc[r] = "start"
        PROVE  NewRun(r) \in [Request -> Run \cup {NoRun}]
    <3>1. [temporalID |-> RunID(r), definition |-> workflow[r].definition,
           open |-> TRUE, cancelRequested |-> FALSE] \in Run
      BY <2>6 DEF Run, RunID, TemporalID, WorkflowRow
    <3> QED
      BY <3>1 DEF NewRun
  <2>7. CASE Start(r)
    <3>1. RunID(r) \in TemporalID
      BY <2>7 DEF Start, RunID, TemporalID, WorkflowRow
    <3>2. execution'[r] \in Execution /\ execution' \in [Request -> Execution \cup {NoRow}]
      BY <2>7, <3>1, RecordUpdates DEF Start, ExecutionStatus
    <3>3. /\ joined' \in [Request -> Request \cup {NoRun}]
          /\ \A q \in Request : q # r => joined'[q] = joined[q]
      BY <2>7 DEF Start, Joinable, OpenUnder
    <3>4. \A q \in Request : q # r => runs'[q] = runs[q]
      BY <2>7 DEF Start, NewRun
    <3> QED
      BY <2>6, <2>7, <3>2, <3>3, <3>4, ConstantsAssumption DEF Start, tables
  <2>8. CASE StartFails(r)
    <3>1. execution'[r] \in Execution /\ execution' \in [Request -> Execution \cup {NoRow}]
      BY <2>8, RecordUpdates DEF StartFails, ExecutionStatus
    <3>2. \A q \in Request : q # r => runs'[q] = runs[q]
      BY <2>8 DEF StartFails, NewRun
    <3> QED
      BY <2>6, <2>8, <3>1, <3>2, ConstantsAssumption DEF StartFails, tables
  <2>9. CASE Settle(r)
    BY <2>1, <2>9 DEF Settle, memory
  <2>10. CASE GiveUp(r)
    BY <2>1, <2>10 DEF GiveUp, memory
  <2>11. CASE CancelRun(r)
    <3>1. execution'[r] \in Execution /\ execution' \in [Request -> Execution \cup {NoRow}]
      BY <2>11, RecordUpdates DEF CancelRun, ExecutionStatus
    <3>2. /\ runs' = [q \in Request |-> runs'[q]]
          /\ \A q \in Request :
                \/ runs'[q] = runs[q]
                \/ runs[q] # NoRun /\ runs'[q] = [runs[q] EXCEPT !.cancelRequested = TRUE]
      BY <2>11 DEF CancelRun, OpenUnder
    <3>3. /\ runs' \in [Request -> Run \cup {NoRun}]
          /\ \A q \in Request : runs[q] = NoRun => runs'[q] = NoRun
      <4>1. ASSUME NEW q \in Request
            PROVE  runs'[q] \in Run \cup {NoRun}
        <5>1. runs[q] \in Run \cup {NoRun}
          OBVIOUS
        <5>2. runs[q] \in Run => [runs[q] EXCEPT !.cancelRequested = TRUE] \in Run
          BY RecordUpdates
        <5> QED
          BY <3>2, <5>1, <5>2
      <4> QED
        BY <3>2, <4>1
    <3> QED
      BY <2>11, <3>1, <3>3, ConstantsAssumption DEF CancelRun, tables
  <2>12. CASE MarkCancelled(r)
    BY <2>1, <2>12 DEF MarkCancelled, memory
  <2>13. CASE Audit(r)
    BY <2>13 DEF Audit, memory
  <2> QED
    BY <1>3, <2>2, <2>3, <2>4, <2>5, <2>7, <2>8, <2>9, <2>10, <2>11, <2>12, <2>13
       DEF Continues
<1>4. ASSUME NEW r \in Request, Abort(r)
      PROVE  TypeInv'
  BY <1>4 DEF Abort, tables, memory
<1>5. ASSUME NEW r \in Request, CloseRun(r)
      PROVE  TypeInv'
  <2>1. runs' \in [Request -> Run \cup {NoRun}] /\ runs[r] # NoRun
    BY <1>5, RecordUpdates DEF CloseRun
  <2> QED
    BY <1>5, <2>1 DEF CloseRun, tables, memory
<1> QED
  BY <1>1, <1>2, <1>3, <1>4, <1>5 DEF Next

-----------------------------------------------------------------------------------
(* What a step can do, whoever takes it: the facts from which the other conjuncts *)
(* of the invariant follow.                                                       *)

\* The request has its row in executions.
HasRecord(r) ==
    /\ executions[StoredID(r)] # NoRow
    /\ executions[StoredID(r)].workflow = arg[r]

\* A request that has begun keeps its operation, its argument and what it read;
\* one that begins reads a stored row, and an active one if it executes it.
RequestFacts ==
    \A q \in Request :
        /\ pc[q] # "idle" => /\ pc'[q] # "idle"
                             /\ op'[q] = op[q]
                             /\ arg'[q] = arg[q]
                             /\ workflow'[q] = workflow[q]
        /\ pc[q] = "idle" /\ workflow'[q] # NoRow =>
              /\ arg'[q] \in UUID
              /\ workflows[arg'[q]] # NoRow
              /\ workflows' = workflows
              /\ op'[q] = "execute" => /\ workflow'[q] = workflows[arg'[q]]
                                       /\ CanExecute(workflow'[q])
        /\ pc'[q] \in {"start", "settle"} =>
              pc[q] # "idle" /\ (pc[q] = "start" \/ pc[q] = "settle" \/ HasRecord(q)')

\* A stored workflow stays, or goes, or is written over with a later version; a new
\* one appears under the id of a request that begins.
WorkflowFacts ==
    \A id \in UUID :
        \/ workflows'[id] = workflows[id]
        \/ workflows'[id] = NoRow
        \/ /\ workflows[id] # NoRow
           /\ workflows'[id] # NoRow
           /\ workflows'[id].version = workflows[id].version + 1
        \/ \E p \in Request : /\ id = StoredID(p)
                              /\ pc[p] = "idle" /\ pc'[p] # "idle"
                              /\ workflows'[id].version = 1

\* An execution row goes only with its workflow.
ExecutionFacts ==
    \A q \in Request : pc[q] # "idle" /\ HasRecord(q) =>
        HasRecord(q)' \/ workflows'[arg[q]] = NoRow

\* A run keeps its id and its definition; a new one has those its request read.
RunFacts ==
    \A q \in Request :
        /\ runs'[q] # NoRun =>
              \/ /\ runs[q] # NoRun
                 /\ runs'[q].temporalID = runs[q].temporalID
                 /\ runs'[q].definition = runs[q].definition
              \/ /\ pc[q] = "start"
                 /\ runs'[q].temporalID = RunID(q)
                 /\ runs'[q].definition = workflow[q].definition
        /\ runs[q] # NoRun => runs'[q] # NoRun
        /\ joined'[q] # NoRun =>
              \/ joined'[q] = joined[q]
              \/ /\ pc[q] = "start"
                 /\ runs'[joined'[q]] # NoRun
                 /\ runs'[joined'[q]].temporalID = RunID(q)

LEMMA StoredIDInjective ==
    \A p, q \in Request : StoredID(p) = StoredID(q) => p = q
BY DEF StoredID

\* The row that Save inserts is the record of its request.
LEMMA SaveRecords ==
    ASSUME TypeInv, NEW r \in Request, Save(r)
    PROVE  HasRecord(r)'
<1>1. /\ StoredID(r) \in UUID
      /\ arg'[r] = arg[r]
      /\ arg[r] \in UUID
      /\ execution[r] \in Execution
  BY IDsAreUUIDs DEF Save, TypeInv, TypeOK, Stages, memory
<1>2. executions'[StoredID(r)] =
         [workflow |-> arg[r], status |-> execution[r].status,
          temporalID |-> execution[r].temporalID]
  BY <1>1 DEF Save, TypeInv, TypeOK
<1>3. executions'[StoredID(r)] \in ExecutionRow
  BY <1>1, <1>2 DEF Execution, ExecutionRow
<1> QED
  BY <1>1, <1>2, <1>3, ConstantsAssumption DEF HasRecord

LEMMA RequestStep == TypeInv /\ [Next]_vars => RequestFacts
<1> SUFFICES ASSUME TypeInv, [Next]_vars
             PROVE  RequestFacts
  OBVIOUS
<1> USE DEF TypeInv, TypeOK, Stages, Begin, Goto, RequestFacts
<1>1. CASE UNCHANGED vars
  BY <1>1 DEF vars
<1>2. ASSUME NEW r \in Request, Begins(r)
      PROVE  RequestFacts
  BY <1>2 DEF Begins, Create, UpdateRead, DeleteRead, ExecuteRead, CannotExecute,
              CancelRead, CannotCancel, NotFound, tables
<1>3. ASSUME NEW r \in Request, Continues(r)
      PROVE  RequestFacts
  <2>1. CASE Save(r)
    BY <2>1, SaveRecords DEF Save, memory
  <2>2. CASE Start(r) \/ StartFails(r) \/ CancelRun(r)
    BY <2>2 DEF Start, StartFails, CancelRun
  <2>3. CASE ~ (Save(r) \/ Start(r) \/ StartFails(r) \/ CancelRun(r))
    BY <1>3, <2>3 DEF Continues, UpdateRow, DeleteRow, WorkflowGone, Settle, GiveUp,
                      MarkCancelled, Audit, memory
  <2> QED
    BY <2>1, <2>2, <2>3
<1>4. ASSUME NEW r \in Request, Abort(r)
      PROVE  RequestFacts
  BY <1>4 DEF Abort, memory
<1>5. ASSUME NEW r \in Request, CloseRun(r)
      PROVE  RequestFacts
  BY <1>5 DEF CloseRun, memory
<1> QED
  BY <1>1, <1>2, <1>3, <1>4, <1>5 DEF Next

LEMMA WorkflowStep == TypeInv /\ [Next]_vars => WorkflowFacts
<1> SUFFICES ASSUME TypeInv, [Next]_vars
             PROVE  WorkflowFacts
  OBVIOUS
<1> USE DEF TypeInv, TypeOK, Stages, Begin, Goto, WorkflowFacts
<1>1. CASE UNCHANGED workflows
  BY <1>1
<1>2. ASSUME NEW r \in Request, NEW definition \in Definition, Create(r, definition)
      PROVE  WorkflowFacts
  BY <1>2 DEF Create
<1>3. ASSUME NEW r \in Request, UpdateRow(r)
      PROVE  WorkflowFacts
  <2>1. /\ workflows'[arg[r]] = Updated(workflows[arg[r]], workflow[r])
        /\ \A id \in UUID : id # arg[r] => workflows'[id] = workflows[id]
    BY <1>3 DEF UpdateRow
  <2>2. /\ Updated(workflows[arg[r]], workflow[r]) \in WorkflowRow
        /\ Updated(workflows[arg[r]], workflow[r]).version = workflows[arg[r]].version + 1
    BY <1>3 DEF UpdateRow, Updated, WorkflowRow
  <2> QED
    BY <1>3, <2>1, <2>2, ConstantsAssumption DEF UpdateRow
<1>4. ASSUME NEW r \in Request, DeleteRow(r)
      PROVE  WorkflowFacts
  BY <1>4 DEF DeleteRow
<1>5. ASSUME NEW r \in Request,
             Begins(r) \/ Continues(r) \/ Abort(r) \/ CloseRun(r),
             ~ UpdateRow(r), ~ DeleteRow(r),
             \A definition \in Definition : ~ Create(r, definition)
      PROVE  UNCHANGED workflows
  BY <1>5 DEF Begins, UpdateRead, DeleteRead, ExecuteRead, CannotExecute, CancelRead,
              CannotCancel, NotFound, Continues, Save, WorkflowGone, Start, StartFails,
              Settle, GiveUp, CancelRun, MarkCancelled, Audit, Abort, CloseRun,
              tables
<1> QED
  BY <1>1, <1>2, <1>3, <1>4, <1>5 DEF Next, vars

LEMMA ExecutionStep == TypeInv /\ [Next]_vars => ExecutionFacts
<1> SUFFICES ASSUME TypeInv, [Next]_vars,
                    NEW q \in Request, pc[q] # "idle", HasRecord(q)
             PROVE  HasRecord(q)' \/ workflows'[arg[q]] = NoRow
  BY DEF ExecutionFacts
<1>1. /\ arg'[q] = arg[q]
      /\ StoredID(q) \in UUID
      /\ executions[StoredID(q)] \in ExecutionRow
      /\ arg[q] \in UUID
  BY RequestStep, IDsAreUUIDs DEF RequestFacts, HasRecord, TypeInv, TypeOK, Stages
<1> USE DEF HasRecord
<1>2. CASE UNCHANGED executions
  BY <1>1, <1>2
<1>3. ASSUME NEW r \in Request, Save(r)
      PROVE  HasRecord(q)'
  <2>1. CASE r = q
    BY <1>3, <2>1, SaveRecords
  <2>2. CASE r # q
    BY <1>1, <1>3, <2>2, StoredIDInjective DEF Save, TypeInv, TypeOK
  <2> QED
    BY <2>1, <2>2
<1>4. ASSUME NEW r \in Request, DeleteRow(r)
      PROVE  HasRecord(q)' \/ workflows'[arg[q]] = NoRow
  BY <1>1, <1>4 DEF DeleteRow, Cascaded, TypeInv, TypeOK
<1>5. ASSUME NEW e \in Execution, UpdateExecution(e)
      PROVE  HasRecord(q)'
  <2>1. executions' \in [UUID -> ExecutionRow \cup {NoRow}]
    BY <1>5 DEF UpdateExecution, Execution, ExecutionRow, TypeInv, TypeOK
  <2>2. \/ executions'[StoredID(q)] = executions[StoredID(q)]
        \/ executions'[StoredID(q)] = [executions[StoredID(q)] EXCEPT !.status = e.status]
    BY <1>1, <1>5 DEF UpdateExecution, TypeInv, TypeOK
  <2>3. [executions[StoredID(q)] EXCEPT !.status = e.status] \in ExecutionRow
    BY <1>1, <1>5 DEF Execution, ExecutionRow
  <2>4. [executions[StoredID(q)] EXCEPT !.status = e.status].workflow = arg[q]
    BY <1>1 DEF ExecutionRow
  <2> QED
    BY <1>1, <2>2, <2>3, <2>4, ConstantsAssumption
<1>6. ASSUME NEW r \in Request, Settle(r) \/ GiveUp(r) \/ MarkCancelled(r)
      PROVE  HasRecord(q)'
  <2>1. execution[r] \in Execution
    BY <1>6 DEF Settle, GiveUp, MarkCancelled, TypeInv, TypeOK, Stages
  <2> QED
    BY <1>5, <1>6, <2>1 DEF Settle, GiveUp, MarkCancelled
<1>7. ASSUME NEW r \in Request,
             Begins(r) \/ Continues(r) \/ Abort(r) \/ CloseRun(r),
             ~ Save(r), ~ DeleteRow(r), ~ (Settle(r) \/ GiveUp(r) \/ MarkCancelled(r))
      PROVE  UNCHANGED executions
  BY <1>7 DEF Begins, Create, UpdateRead, DeleteRead, ExecuteRead, CannotExecute,
              CancelRead, CannotCancel, NotFound, Continues, UpdateRow, WorkflowGone,
              Start, StartFails, CancelRun, Audit, Abort, CloseRun, tables
<1> QED
  BY <1>2, <1>3, <1>4, <1>6, <1>7 DEF Next, vars

LEMMA RunStep == TypeInv /\ [Next]_vars => RunFacts
<1> SUFFICES ASSUME TypeInv, [Next]_vars
             PROVE  RunFacts
  OBVIOUS
<1> USE DEF TypeInv, TypeOK, Stages, RunFacts
<1>1. CASE UNCHANGED <<runs, joined>>
  BY <1>1
<1>2. ASSUME NEW r \in Request, pc[r] = "start", runs' \in {runs, NewRun(r)},
             NEW q \in Request
      PROVE  /\ runs'[q] # NoRun =>
                  \/ runs'[q] = runs[q]
                  \/ /\ q = r
                     /\ runs'[q].temporalID = RunID(q)
                     /\ runs'[q].definition = workflow[q].definition
             /\ runs[q] # NoRun => runs'[q] # NoRun
  <2> DEFINE new == [temporalID |-> RunID(r), definition |-> workflow[r].definition,
                     open |-> TRUE, cancelRequested |-> FALSE]
  <2>1. /\ new \in Run /\ new # NoRun
        /\ new.temporalID = RunID(r)
        /\ new.definition = workflow[r].definition
    <3>1. RunID(r) \in TemporalID /\ workflow[r].definition \in Definition
      BY <1>2 DEF RunID, TemporalID, WorkflowRow
    <3>2. new \in Run
      BY <3>1 DEF Run
    <3> QED
      BY <3>2, ConstantsAssumption
  <2>2. runs' = runs \/ runs' = [runs EXCEPT ![r] = new]
    BY <1>2 DEF NewRun
  <2> HIDE DEF new
  <2> QED
    BY <2>1, <2>2
<1>3. ASSUME NEW r \in Request, Start(r)
      PROVE  RunFacts
  <2>1. /\ pc[r] = "start"
        /\ \A q \in Request : q # r => joined'[q] = joined[q]
        /\ joined'[r] \in Joinable(r)
        /\ joined'[r] \in Request
    BY <1>3 DEF Start, Joinable, OpenUnder
  <2>2. /\ runs'[joined'[r]] # NoRun
        /\ runs'[joined'[r]].temporalID = RunID(r)
    <3>1. CASE OpenUnder(RunID(r)) = {}
      <4>1. [temporalID |-> RunID(r), definition |-> workflow[r].definition,
             open |-> TRUE, cancelRequested |-> FALSE] \in Run
        BY <2>1 DEF Run, RunID, TemporalID, WorkflowRow
      <4> QED
        BY <1>3, <2>1, <3>1, <4>1, ConstantsAssumption DEF Start, NewRun, Joinable
    <3>2. CASE OpenUnder(RunID(r)) # {}
      BY <1>3, <2>1, <3>2 DEF Start, NewRun, Joinable, OpenUnder
    <3> QED
      BY <3>1, <3>2
  <2> QED
    BY <1>2, <1>3, <2>1, <2>2 DEF Start
<1>4. ASSUME NEW r \in Request, StartFails(r)
      PROVE  RunFacts
  BY <1>2, <1>4 DEF StartFails
<1>5. ASSUME NEW r \in Request, CancelRun(r)
      PROVE  RunFacts
  <2>1. ASSUME NEW q \in Request
        PROVE  \/ runs'[q] = runs[q]
               \/ runs[q] # NoRun /\ runs'[q] = [runs[q] EXCEPT !.cancelRequested = TRUE]
    BY <1>5 DEF CancelRun, OpenUnder
  <2>2. ASSUME NEW run \in Run
        PROVE  /\ [run EXCEPT !.cancelRequested = TRUE] \in Run
               /\ [run EXCEPT !.cancelRequested = TRUE].temporalID = run.temporalID
               /\ [run EXCEPT !.cancelRequested = TRUE].definition = run.definition
    BY DEF Run
  <2> QED
    BY <1>5, <2>1, <2>2, ConstantsAssumption DEF CancelRun
<1>6. ASSUME NEW r \in Request, CloseRun(r)
      PROVE  RunFacts
  <2>1. /\ runs[r] \in Run
        /\ runs'[r] = [runs[r] EXCEPT !.open = FALSE]
        /\ \A q \in Request : q # r => runs'[q] = runs[q]
    BY <1>6 DEF CloseRun
  <2>2. /\ runs'[r] \in Run
        /\ runs'[r].temporalID = runs[r].temporalID
        /\ runs'[r].definition = runs[r].definition
    BY <2>1 DEF Run
  <2> QED
    BY <1>6, <2>1, <2>2, ConstantsAssumption DEF CloseRun, memory
<1>7. ASSUME NEW r \in Request,
             Begins(r) \/ Continues(r) \/ Abort(r) \/ CloseRun(r),
             ~ Start(r), ~ StartFails(r), ~ CancelRun(r), ~ CloseRun(r)
      PROVE  UNCHANGED <<runs, joined>>
  BY <1>7 DEF Begins, Create, UpdateRead, DeleteRead, ExecuteRead, CannotExecute,
              CancelRead, CannotCancel, NotFound, Continues, UpdateRow, DeleteRow, Save,
              WorkflowGone, Settle, GiveUp, MarkCancelled, Audit, Abort, memory
<1> QED
  BY <1>1, <1>3, <1>4, <1>5, <1>6, <1>7 DEF Next, vars

-----------------------------------------------------------------------------------
(* The invariant. *)

LEMMA NoReuseStep == IInv /\ [Next]_vars => NoReuse'
<1> SUFFICES ASSUME IInv, [Next]_vars
             PROVE  NoReuse'
  OBVIOUS
<1>1. RequestFacts /\ WorkflowFacts /\ TypeInv /\ NoReuse
  BY RequestStep, WorkflowStep DEF IInv
<1>2. \A id \in UUID : Allocated(id) => Allocated(id)'
  BY <1>1 DEF Allocated, RequestFacts, StoredID
<1>3. ASSUME NEW id \in UUID, workflows'[id] # NoRow
      PROVE  Allocated(id)'
  BY <1>1, <1>2, <1>3 DEF NoReuse, WorkflowFacts, Allocated, StoredID
<1>4. ASSUME NEW r \in Request, workflow'[r] # NoRow
      PROVE  Allocated(arg[r])'
  <2>1. CASE pc[r] = "idle"
    BY <1>1, <1>3, <1>4, <2>1 DEF RequestFacts, Allocated
  <2>2. CASE pc[r] # "idle"
    BY <1>1, <1>2, <1>4, <2>2
       DEF RequestFacts, NoReuse, TypeInv, Stages, Allocated
  <2> QED
    BY <2>1, <2>2
<1> QED
  BY <1>3, <1>4 DEF NoReuse

\* Of a workflow that a request has read, a step leaves the row, deletes it, or
\* gives it a later version: it never brings a row back.
LEMMA ReadRowStep ==
    ASSUME IInv, [Next]_vars, NEW r \in Request, pc[r] # "idle", workflow[r] # NoRow
    PROVE  \/ workflows'[arg[r]] = workflows[arg[r]]
           \/ workflows'[arg[r]] = NoRow
           \/ /\ workflows[arg[r]] # NoRow
              /\ workflows'[arg[r]] # NoRow
              /\ workflows'[arg[r]].version = workflows[arg[r]].version + 1
<1>1. WorkflowFacts /\ Allocated(arg[r]) /\ arg[r] \in UUID
  BY WorkflowStep DEF IInv, TypeInv, Stages, NoReuse
<1>2. \A p \in Request : arg[r] = StoredID(p) => pc[p] # "idle"
  BY <1>1, ConstantsAssumption, StoredIDInjective DEF Allocated, StoredID
<1> QED
  BY <1>1, <1>2 DEF WorkflowFacts

LEMMA RecordedStep == IInv /\ [Next]_vars => Recorded'
<1> SUFFICES ASSUME IInv, [Next]_vars, NEW q \in Request,
                    pc'[q] \in {"start", "settle"} \/ runs'[q] # NoRun
             PROVE  workflows'[arg'[q]] = NoRow \/ HasRecord(q)'
  BY DEF Recorded, HasRecord
<1>1. RequestFacts /\ ExecutionFacts /\ RunFacts /\ TypeInv /\ Recorded /\ Faithful
  BY RequestStep, ExecutionStep, RunStep DEF IInv
<1>2. CASE pc[q] \in {"start", "settle"} \/ runs[q] # NoRun
  <2>1. pc[q] # "idle" /\ workflow[q] # NoRow /\ arg'[q] = arg[q]
    <3>1. CASE pc[q] = "settle" \/ pc[q] = "start"
      BY <1>1, <3>1 DEF RequestFacts, TypeInv, Stages
    <3>2. CASE runs[q] # NoRun
      BY <1>1, <3>2 DEF RequestFacts, TypeInv, Stages, Faithful, Executes
    <3> QED
      BY <1>2, <3>1, <3>2
  <2>2. workflows[arg[q]] = NoRow \/ HasRecord(q)
    BY <1>1, <1>2 DEF Recorded, HasRecord
  <2>3. CASE workflows[arg[q]] = NoRow
    BY <2>1, <2>3, ReadRowStep
  <2>4. CASE HasRecord(q)
    BY <1>1, <2>1, <2>4 DEF ExecutionFacts
  <2> QED
    BY <2>2, <2>3, <2>4
<1>3. CASE ~ (pc[q] \in {"start", "settle"} \/ runs[q] # NoRun)
  BY <1>1, <1>3 DEF RequestFacts, RunFacts
<1> QED
  BY <1>2, <1>3

LEMMA PinnedStep == IInv /\ [Next]_vars => Pinned'
<1> SUFFICES ASSUME IInv, [Next]_vars
             PROVE  Pinned'
  OBVIOUS
<1>1. RequestFacts /\ TypeInv /\ TypeInv' /\ Pinned
  BY RequestStep, TypeInvStep DEF IInv
\* A request that executes did so before the step, or has just read the row.
<1>2. ASSUME NEW r \in Request, Executes(r)'
      PROVE  \/ /\ Executes(r)
                /\ pc[r] # "idle"
                /\ arg'[r] = arg[r]
                /\ workflow'[r] = workflow[r]
             \/ /\ workflow'[r] = workflows[arg'[r]]
                /\ CanExecute(workflow'[r])
                /\ workflows' = workflows
                /\ arg'[r] \in UUID
  BY <1>1, <1>2 DEF RequestFacts, Executes
<1>3. ASSUME NEW r \in Request, Executes(r)'
      PROVE  /\ CanExecute(workflow[r])'
             /\ workflows'[arg'[r]] # NoRow =>
                   /\ workflow'[r].version <= workflows'[arg'[r]].version
                   /\ workflow'[r].version = workflows'[arg'[r]].version =>
                         /\ workflows'[arg'[r]].status = "active"
                         /\ workflows'[arg'[r]].definition = workflow'[r].definition
  <2>0. workflow'[r] \in WorkflowRow /\ workflow'[r].version \in Nat
    BY <1>1, <1>3 DEF Executes, TypeInv, TypeOK, WorkflowRow
  <2>1. CASE /\ Executes(r)
             /\ pc[r] # "idle"
             /\ arg'[r] = arg[r]
             /\ workflow'[r] = workflow[r]
    <3>1. arg[r] \in UUID /\ workflow[r] # NoRow
      BY <1>1, <2>1 DEF TypeInv, Stages, Executes
    <3>2. workflows[arg[r]] # NoRow => workflows[arg[r]].version \in Nat
      BY <1>1, <3>1 DEF TypeInv, TypeOK, WorkflowRow
    <3> QED
      BY <1>1, <2>0, <2>1, <3>1, <3>2, ReadRowStep DEF Pinned, CanExecute
  <2>2. CASE /\ workflow'[r] = workflows[arg'[r]]
             /\ CanExecute(workflow'[r])
             /\ workflows' = workflows
             /\ arg'[r] \in UUID
    BY <2>0, <2>2 DEF CanExecute
  <2> QED
    BY <1>2, <1>3, <2>1, <2>2
<1>4. ASSUME NEW r \in Request, NEW q \in Request,
             Executes(r)', Executes(q)', RunID(q)' = RunID(r)'
      PROVE  workflow'[q].definition = workflow'[r].definition
  <2>1. arg'[q] = arg'[r] /\ workflow'[q].version = workflow'[r].version
    BY <1>4 DEF RunID
  <2>2. CASE workflow'[r] = workflows'[arg'[r]] \/ workflow'[q] = workflows'[arg'[q]]
    BY <1>3, <1>4, <2>1, <2>2 DEF Executes
  <2>3. CASE ~ (workflow'[r] = workflows'[arg'[r]] \/ workflow'[q] = workflows'[arg'[q]])
    <3>1. /\ Executes(r) /\ arg'[r] = arg[r] /\ workflow'[r] = workflow[r]
          /\ Executes(q) /\ arg'[q] = arg[q] /\ workflow'[q] = workflow[q]
      BY <1>2, <1>4, <2>3
    <3>2. RunID(q) = RunID(r)
      BY <2>1, <3>1 DEF RunID
    <3> QED
      BY <1>1, <3>1, <3>2 DEF Pinned
  <2> QED
    BY <2>2, <2>3
<1> QED
  BY <1>3, <1>4 DEF Pinned

LEMMA FaithfulStep == IInv /\ [Next]_vars => Faithful'
<1> SUFFICES ASSUME IInv, [Next]_vars, NEW r \in Request
             PROVE  /\ runs'[r] # NoRun =>
                          /\ Executes(r)'
                          /\ runs'[r].temporalID = RunID(r)'
                          /\ runs'[r].definition = workflow'[r].definition
                    /\ joined'[r] # NoRun =>
                          /\ Executes(r)'
                          /\ runs'[joined'[r]] # NoRun
                          /\ runs'[joined'[r]].temporalID = RunID(r)'
  BY DEF Faithful
<1>1. RequestFacts /\ RunFacts /\ TypeInv /\ Faithful
  BY RequestStep, RunStep DEF IInv
<1>2. ASSUME Executes(r), pc[r] # "idle"
      PROVE  Executes(r)' /\ RunID(r)' = RunID(r) /\ workflow'[r] = workflow[r]
  BY <1>1, <1>2 DEF RequestFacts, Executes, RunID
<1>3. pc[r] = "start" => Executes(r) /\ pc[r] # "idle"
  BY <1>1 DEF TypeInv, Stages, Executes
<1>4. runs[r] # NoRun \/ joined[r] # NoRun => Executes(r) /\ pc[r] # "idle"
  BY <1>1 DEF TypeInv, Stages, Faithful
<1>5. ASSUME runs'[r] # NoRun
      PROVE  /\ Executes(r)'
             /\ runs'[r].temporalID = RunID(r)'
             /\ runs'[r].definition = workflow'[r].definition
  BY <1>1, <1>2, <1>3, <1>4, <1>5 DEF RunFacts, Faithful
<1>6. ASSUME joined'[r] # NoRun
      PROVE  /\ Executes(r)'
             /\ runs'[joined'[r]] # NoRun
             /\ runs'[joined'[r]].temporalID = RunID(r)'
  <2>1. CASE joined'[r] = joined[r]
    <3>1. joined[r] \in Request
      BY <1>1, <1>6, <2>1 DEF TypeInv, TypeOK
    <3>2. /\ runs[joined[r]] # NoRun
          /\ runs[joined[r]].temporalID = RunID(r)
          /\ Executes(joined[r])
          /\ runs[joined[r]].temporalID = RunID(joined[r])
      BY <1>1, <1>6, <2>1, <3>1 DEF Faithful
    <3>3. pc[joined[r]] # "start" \/ RunID(joined[r]) = RunID(r)
      BY <3>2
    <3>4. runs'[joined[r]] # NoRun /\ runs'[joined[r]].temporalID = RunID(r)
      BY <1>1, <3>1, <3>2, <3>3 DEF RunFacts
    <3> QED
      BY <1>2, <1>4, <1>6, <2>1, <3>4
  <2>2. CASE joined'[r] # joined[r]
    BY <1>1, <1>2, <1>3, <1>6, <2>2 DEF RunFacts
  <2> QED
    BY <2>1, <2>2
<1> QED
  BY <1>5, <1>6

LEMMA IInvInit == Init => IInv
<1> SUFFICES ASSUME Init
             PROVE  IInv
  OBVIOUS
<1>1. TypeInv
  BY TypeInvInit
<1>2. NoReuse
  BY DEF Init, NoReuse, Allocated, UUID
<1>3. Recorded /\ Pinned /\ Faithful
  BY DEF Init, Recorded, Pinned, Faithful, Executes
<1> QED
  BY <1>1, <1>2, <1>3 DEF IInv

LEMMA IInvStep == IInv /\ [Next]_vars => IInv'
BY TypeInvStep, NoReuseStep, RecordedStep, PinnedStep, FaithfulStep DEF IInv

\* The inductive invariant holds of every behaviour.
THEOREM Invariance == Spec => []IInv
BY IInvInit, IInvStep, PTL DEF Spec

-----------------------------------------------------------------------------------
(* The theorems about the properties. *)

\* Every variable keeps its type.
THEOREM TypeCorrect == Spec => []TypeOK
BY TypeInvInit, TypeInvStep, PTL DEF Spec, TypeInv

\* WorkflowService.Execute never leaves a run behind without its row in executions,
\* unless the workflow, and the row with it, was deleted.
THEOREM RunsAreRecorded == Spec => []RunHasRecord
<1>1. IInv => RunHasRecord
  BY DEF IInv, Recorded, RunHasRecord
<1> QED
  BY <1>1, Invariance, PTL

\* The Temporal id "workflow-<id>-<version>" identifies one content of the workflow,
\* whatever updates run at the same time.
THEOREM VersionsPinDefinitions == Spec => []VersionPinsDefinition
<1>1. IInv => VersionPinsDefinition
  <2> SUFFICES ASSUME IInv, NEW r \in Request, runs[r] # NoRun
               PROVE  /\ \A q \in Request :
                            /\ runs[q] # NoRun
                            /\ runs[q].temporalID = runs[r].temporalID
                            => runs[q].definition = runs[r].definition
                      /\ LET row == workflows[runs[r].temporalID.workflow]
                         IN  /\ row # NoRow
                             /\ row.version = runs[r].temporalID.version
                             => row.status = "active" /\ row.definition = runs[r].definition
    BY DEF VersionPinsDefinition
  <2>1. /\ Executes(r)
        /\ runs[r].temporalID = RunID(r)
        /\ runs[r].definition = workflow[r].definition
    BY DEF IInv, Faithful
  <2>2. ASSUME NEW q \in Request, runs[q] # NoRun,
               runs[q].temporalID = runs[r].temporalID
        PROVE  runs[q].definition = runs[r].definition
    BY <2>1, <2>2 DEF IInv, Faithful, Pinned
  <2>3. /\ runs[r].temporalID.workflow = arg[r]
        /\ runs[r].temporalID.version = workflow[r].version
    BY <2>1 DEF RunID
  <2> QED
    BY <2>1, <2>2, <2>3 DEF IInv, Pinned
<1> QED
  BY <1>1, Invariance, PTL

\* When Temporal answers a start with the open run of another request, that run
\* executes the definition this request read.
THEOREM JoinedRunsAreTheOnesRead == Spec => []JoinedRunIsTheOneRead
<1>1. IInv => JoinedRunIsTheOneRead
  <2> SUFFICES ASSUME IInv, NEW r \in Request, joined[r] # NoRun
               PROVE  /\ runs[joined[r]] # NoRun
                      /\ runs[joined[r]].temporalID = RunID(r)
                      /\ runs[joined[r]].definition = workflow[r].definition
    BY DEF JoinedRunIsTheOneRead
  <2>1. /\ Executes(r) /\ joined[r] \in Request
        /\ runs[joined[r]] # NoRun
        /\ runs[joined[r]].temporalID = RunID(r)
    BY DEF IInv, TypeInv, TypeOK, Faithful
  <2>2. /\ Executes(joined[r])
        /\ RunID(joined[r]) = RunID(r)
        /\ runs[joined[r]].definition = workflow[joined[r]].definition
    BY <2>1 DEF IInv, Faithful
  <2> QED
    BY <2>1, <2>2 DEF IInv, Pinned
<1> QED
  BY <1>1, Invariance, PTL

-----------------------------------------------------------------------------------
(* The rows of executions. *)

\* Every row is stored under the id of the request that saved it, and is pending until
\* it is cancelled: the updates of Execute carry an id that no row has.
Rows ==
    \A id \in UUID : executions[id] # NoRow =>
        /\ executions[id].status \in {"pending", "cancelled"}
        /\ \E p \in Request : id = StoredID(p) /\ pc[p] \notin {"idle", "save"}

\* What Execute and Cancel hold in memory.
Held ==
    \A r \in Request :
        /\ pc[r] \in {"save", "start", "settle", "giveUp"} => execution[r].id = MemoryID(r)
        /\ pc[r] = "save" => execution[r].status = "pending"
        /\ pc[r] = "markCancelled" => execution[r].status = "cancelled"

RowInv == TypeInv /\ Rows /\ Held

LEMMA MemoryIDsHaveNoRow ==
    ASSUME Rows, NEW r \in Request
    PROVE  executions[MemoryID(r)] = NoRow
BY IDsAreUUIDs DEF Rows, MemoryID, StoredID

\* What a step does to the table: nothing, a row that Save inserts as pending, the rows
\* that go with a workflow, or a row that is cancelled.
Inserts(r) ==
    /\ pc' = [pc EXCEPT ![r] = "start"]
    /\ executions[StoredID(r)] = NoRow
    /\ \E row \in ExecutionRow :
          /\ row.status = "pending"
          /\ row.workflow = arg[r]
          /\ executions' = [executions EXCEPT ![StoredID(r)] = row]
    /\ workflows' = workflows
    /\ workflows[arg[r]] # NoRow
Deletes(r) ==
    /\ executions' = Cascaded(arg[r])
    /\ workflows' = [workflows EXCEPT ![arg[r]] = NoRow]
Cancels(id) ==
    /\ executions[id] # NoRow
    /\ executions' = [executions EXCEPT ![id].status = "cancelled"]
RowFacts ==
    \/ executions' = executions
    \/ \E r \in Request : Inserts(r) \/ Deletes(r)
    \/ \E id \in UUID : Cancels(id)

LEMMA RowStep == RowInv /\ [Next]_vars => RowFacts
<1> SUFFICES ASSUME RowInv, [Next]_vars
             PROVE  RowFacts
  OBVIOUS
<1> USE DEF RowInv
<1>1. CASE UNCHANGED executions
  BY <1>1 DEF RowFacts
<1>2. ASSUME NEW r \in Request, Save(r)
      PROVE  Inserts(r)
  <2>1. /\ execution[r] \in Execution
        /\ execution[r].status = "pending"
        /\ arg[r] \in UUID
    BY <1>2 DEF Save, TypeInv, TypeOK, Stages, Held
  <2>2. [workflow |-> arg[r], status |-> execution[r].status,
         temporalID |-> execution[r].temporalID] \in ExecutionRow
    BY <2>1 DEF Execution, ExecutionRow
  <2>3. executions[StoredID(r)] = NoRow
    BY <1>2, IDsAreUUIDs, StoredIDInjective DEF Rows, Save
  <2> QED
    BY <1>2, <2>1, <2>2, <2>3 DEF Save, Inserts, Goto
<1>3. ASSUME NEW r \in Request, DeleteRow(r)
      PROVE  Deletes(r)
  BY <1>3 DEF DeleteRow, Deletes
<1>4. ASSUME NEW r \in Request, Settle(r) \/ GiveUp(r)
      PROVE  UNCHANGED executions
  <2>1. execution[r].id = MemoryID(r)
    BY <1>4 DEF Settle, GiveUp, Held
  <2> QED
    BY <1>4, <2>1, MemoryIDsHaveNoRow DEF Settle, GiveUp, UpdateExecution
<1>5. ASSUME NEW r \in Request, MarkCancelled(r)
      PROVE  RowFacts
  <2>1. execution[r].id \in UUID /\ execution[r].status = "cancelled"
    BY <1>5 DEF MarkCancelled, Held, TypeInv, TypeOK, Stages, Execution
  <2> QED
    BY <1>5, <2>1 DEF MarkCancelled, UpdateExecution, RowFacts, Cancels
<1>6. ASSUME NEW r \in Request,
             Begins(r) \/ Continues(r) \/ Abort(r) \/ CloseRun(r),
             ~ Save(r), ~ DeleteRow(r), ~ (Settle(r) \/ GiveUp(r)), ~ MarkCancelled(r)
      PROVE  UNCHANGED executions
  BY <1>6 DEF Begins, Create, UpdateRead, DeleteRead, ExecuteRead, CannotExecute,
              CancelRead, CannotCancel, NotFound, Continues, UpdateRow, WorkflowGone,
              Start, StartFails, CancelRun, Audit, Abort, CloseRun, tables
<1> QED
  BY <1>1, <1>2, <1>3, <1>4, <1>5, <1>6 DEF Next, vars, RowFacts

\* Beginning and continuing requests hold what Held says.
LEMMA HeldStep == RowInv /\ [Next]_vars => Held'
<1> SUFFICES ASSUME RowInv, [Next]_vars
             PROVE  Held'
  OBVIOUS
<1> USE DEF RowInv, TypeInv, TypeOK, Stages, Held, Begin, Goto
<1>1. CASE UNCHANGED vars
  BY <1>1 DEF vars, MemoryID
<1>2. ASSUME NEW r \in Request, Begins(r)
      PROVE  Held'
  <2>1. ASSUME NEW id \in UUID, ExecuteRead(r, id)
        PROVE  Held'
    BY <2>1 DEF ExecuteRead, MemoryID
  <2>2. ASSUME NEW id \in UUID, CancelRead(r, id)
        PROVE  Held'
    BY <2>2 DEF CancelRead, MemoryID
  <2>3. CASE \A id \in UUID : ~ ExecuteRead(r, id) /\ ~ CancelRead(r, id)
    BY <1>2, <2>3 DEF Begins, Create, UpdateRead, DeleteRead, CannotExecute,
                      CannotCancel, NotFound, MemoryID
  <2> QED
    BY <2>1, <2>2, <2>3
<1>3. ASSUME NEW r \in Request, Continues(r)
      PROVE  Held'
  <2>1. CASE Start(r)
    <3>1. execution[r] \in Execution /\ execution[r].id = MemoryID(r)
      BY <2>1 DEF Start
    <3>2. [execution[r] EXCEPT !.status = "running", !.temporalID = RunID(r)].id
              = MemoryID(r)
      BY <3>1 DEF Execution
    <3> QED
      BY <2>1, <3>2 DEF Start, MemoryID
  <2>2. CASE StartFails(r)
    <3>1. execution[r] \in Execution /\ execution[r].id = MemoryID(r)
      BY <2>2 DEF StartFails
    <3>2. [execution[r] EXCEPT !.status = "failed"].id = MemoryID(r)
      BY <3>1 DEF Execution
    <3> QED
      BY <2>2, <3>2 DEF StartFails, MemoryID
  <2>3. CASE CancelRun(r)
    <3>1. execution[r] \in Execution
      BY <2>3 DEF CancelRun
    <3>2. [execution[r] EXCEPT !.status = "cancelled"].status = "cancelled"
      BY <3>1 DEF Execution
    <3> QED
      BY <2>3, <3>2 DEF CancelRun, MemoryID
  <2>4. CASE ~ (Start(r) \/ StartFails(r) \/ CancelRun(r))
    BY <1>3, <2>4 DEF Continues, UpdateRow, DeleteRow, Save, WorkflowGone, Settle,
                      GiveUp, MarkCancelled, Audit, memory, MemoryID
  <2> QED
    BY <2>1, <2>2, <2>3, <2>4
<1>4. ASSUME NEW r \in Request, Abort(r) \/ CloseRun(r)
      PROVE  Held'
  BY <1>4 DEF Abort, CloseRun, memory, MemoryID
<1> QED
  BY <1>1, <1>2, <1>3, <1>4 DEF Next

\* A request whose record is saved is past that statement for good.
LEMMA PastSave ==
    ASSUME RowInv, [Next]_vars, NEW p \in Request
    PROVE  pc[p] \notin {"idle", "save"} => pc'[p] \notin {"idle", "save"}
<1> USE DEF RowInv, TypeInv, TypeOK, Begin, Goto
<1>1. CASE UNCHANGED pc
  BY <1>1
<1>2. ASSUME NEW r \in Request, Begins(r)
      PROVE  pc[p] \notin {"idle", "save"} => pc'[p] \notin {"idle", "save"}
  BY <1>2 DEF Begins, Create, UpdateRead, DeleteRead, ExecuteRead, CannotExecute,
              CancelRead, CannotCancel, NotFound
<1>3. ASSUME NEW r \in Request, Continues(r) \/ Abort(r)
      PROVE  pc[p] \notin {"idle", "save"} => pc'[p] \notin {"idle", "save"}
  BY <1>3 DEF Continues, UpdateRow, DeleteRow, Save, WorkflowGone, Start, StartFails,
              Settle, GiveUp, CancelRun, MarkCancelled, Audit, Abort
<1> QED
  BY <1>1, <1>2, <1>3 DEF Next, vars, CloseRun

LEMMA RowsStep == RowInv /\ [Next]_vars => Rows'
<1> SUFFICES ASSUME RowInv, [Next]_vars, NEW id \in UUID, executions'[id] # NoRow
             PROVE  /\ executions'[id].status \in {"pending", "cancelled"}
                    /\ \E p \in Request : id = StoredID(p) /\ pc'[p] \notin {"idle", "save"}
  BY DEF Rows, StoredID
<1> USE DEF RowInv, TypeInv, TypeOK
<1>1. executions[id] # NoRow =>
         /\ executions[id].status \in {"pending", "cancelled"}
         /\ \E p \in Request : id = StoredID(p) /\ pc'[p] \notin {"idle", "save"}
  BY PastSave DEF Rows
<1>2. CASE executions' = executions
  BY <1>1, <1>2
<1>3. ASSUME NEW r \in Request, Inserts(r)
      PROVE  /\ executions'[id].status \in {"pending", "cancelled"}
             /\ \E p \in Request : id = StoredID(p) /\ pc'[p] \notin {"idle", "save"}
  <2>1. pc'[r] = "start"
    BY <1>3 DEF Inserts
  <2>2. CASE id = StoredID(r)
    BY <1>3, <2>1, <2>2 DEF Inserts
  <2>3. CASE id # StoredID(r)
    BY <1>1, <1>3, <2>3 DEF Inserts
  <2> QED
    BY <2>2, <2>3
<1>4. ASSUME NEW r \in Request, Deletes(r)
      PROVE  executions[id] # NoRow /\ executions'[id] = executions[id]
  BY <1>4 DEF Deletes, Cascaded
<1>5. ASSUME NEW e \in UUID, Cancels(e)
      PROVE  /\ executions[id] # NoRow
             /\ executions'[id].status \in {executions[id].status, "cancelled"}
  <2>1. executions[e] \in ExecutionRow
    BY <1>5 DEF Cancels
  <2>2. [executions[e] EXCEPT !.status = "cancelled"].status = "cancelled"
    BY <2>1 DEF ExecutionRow
  <2>3. \/ id # e /\ executions'[id] = executions[id]
        \/ id = e /\ executions'[id] = [executions[e] EXCEPT !.status = "cancelled"]
    BY <1>5 DEF Cancels
  <2> QED
    BY <1>5, <2>2, <2>3 DEF Cancels
<1> QED
  BY <1>1, <1>2, <1>3, <1>4, <1>5, RowStep DEF RowFacts

LEMMA RowInvariance == Spec => []RowInv
<1>1. Init => RowInv
  BY TypeInvInit DEF Init, RowInv, Rows, Held
<1>2. RowInv /\ [Next]_vars => RowInv'
  BY TypeInvStep, HeldStep, RowsStep DEF RowInv
<1> QED
  BY <1>1, <1>2, PTL DEF Spec

-----------------------------------------------------------------------------------
(* The refinement. *)

\* The status of every row, as Lifecycle is instantiated with it.
Statuses == [id \in UUID |-> IF executions[id] = NoRow THEN "none"
                             ELSE executions[id].status]

\* Every step of the tables is a step of the domain model's life of a row, or none.
LEMMA LifecycleStep == RowInv /\ [Next]_vars => [Lifecycle!Next]_Statuses
<1> SUFFICES ASSUME RowInv, [Next]_vars
             PROVE  Lifecycle!Next \/ UNCHANGED Statuses
  OBVIOUS
<1> USE DEF RowInv, TypeInv, TypeOK
<1>1. CASE executions' = executions
  BY <1>1 DEF Statuses
<1>2. ASSUME NEW r \in Request, Inserts(r)
      PROVE  Lifecycle!Next
  <2>1. PICK row \in ExecutionRow :
           /\ row.status = "pending"
           /\ executions' = [executions EXCEPT ![StoredID(r)] = row]
    BY <1>2 DEF Inserts
  <2>2. StoredID(r) \in UUID /\ row # NoRow
    BY <2>1, IDsAreUUIDs, ConstantsAssumption
  <2>3. /\ Statuses[StoredID(r)] = "none"
        /\ Statuses' = [Statuses EXCEPT ![StoredID(r)] = "pending"]
    BY <1>2, <2>1, <2>2 DEF Inserts, Statuses
  <2>4. Lifecycle!Save(StoredID(r))
    BY <2>3 DEF Lifecycle!Save, Lifecycle!Move, Statuses
  <2> QED
    BY <2>2, <2>4 DEF Lifecycle!Next
<1>3. ASSUME NEW r \in Request, Deletes(r)
      PROVE  Lifecycle!Next
  <2> DEFINE gone == {e \in UUID : executions[e] # NoRow /\ executions[e].workflow = arg[r]}
  <2>1. Statuses' = [e \in UUID |-> IF e \in gone THEN "none" ELSE Statuses[e]]
    BY <1>3 DEF Deletes, Cascaded, Statuses
  <2>2. gone \in SUBSET UUID
    OBVIOUS
  <2> HIDE DEF gone
  <2>3. \E g \in SUBSET UUID :
           Statuses' = [e \in UUID |-> IF e \in g THEN "none" ELSE Statuses[e]]
    BY <2>1, <2>2
  <2>4. \E g \in SUBSET UUID : Lifecycle!Cascade(g)
    BY <2>3 DEF Lifecycle!Cascade, Statuses
  <2> QED
    BY <2>4 DEF Lifecycle!Next
<1>4. ASSUME NEW id \in UUID, Cancels(id)
      PROVE  Lifecycle!Next \/ UNCHANGED Statuses
  <2>1. /\ executions[id] \in ExecutionRow
        /\ executions[id].status \in {"pending", "cancelled"}
    BY <1>4 DEF Cancels, Rows
  <2>2. /\ [executions[id] EXCEPT !.status = "cancelled"] \in ExecutionRow
        /\ [executions[id] EXCEPT !.status = "cancelled"].status = "cancelled"
    BY <2>1 DEF ExecutionRow, ExecutionStatus
  <2>3. Statuses' = [Statuses EXCEPT ![id] = "cancelled"]
    BY <1>4, <2>2, ConstantsAssumption DEF Cancels, Statuses
  <2>4. Statuses[id] = executions[id].status
    BY <1>4 DEF Cancels, Statuses
  <2>5. CASE executions[id].status = "cancelled"
    BY <2>3, <2>4, <2>5 DEF Statuses
  <2>6. CASE executions[id].status = "pending"
    <3>1. Lifecycle!MarkAsCancelled(id)
      BY <2>3, <2>4, <2>6
         DEF Lifecycle!MarkAsCancelled, Lifecycle!Move, Lifecycle!Cancellable, Statuses
    <3> QED
      BY <3>1 DEF Lifecycle!Next
  <2> QED
    BY <2>1, <2>5, <2>6
<1> QED
  BY <1>1, <1>2, <1>3, <1>4, RowStep DEF RowFacts

\* However requests interleave and fail, an execution row only takes the steps that
\* domain/execution.go allows: it is saved as pending, and a cancelled one stays so.
THEOREM RowsLiveTheirLife == Spec => LifecycleSpec
<1>1. Init => Lifecycle!Init
  BY DEF Init, Lifecycle!Init
<1>2. RowInv /\ [Next]_vars => [Lifecycle!Next]_Statuses
  BY LifecycleStep
<1> QED
  BY <1>1, <1>2, RowInvariance, PTL DEF Spec, LifecycleSpec, Lifecycle!Spec, Statuses

-----------------------------------------------------------------------------------
(* The audit log. *)

\* An execution row has its workflow: the foreign key, and its ON DELETE CASCADE.
ForeignKey ==
    \A e \in UUID : executions[e] # NoRow => workflows[executions[e].workflow] # NoRow

Versions == \A id \in UUID : workflows[id] # NoRow => workflows[id].version >= 1

\* What an entry in the audit log says holds from the statement it is about on.
Told ==
    /\ \A r \in audited : pc[r] = "ok"
    /\ \A r \in Request :
          /\ pc[r] = "deleteRow" => workflow[r] # NoRow
          /\ pc[r] = "settle" => joined[r] # NoRun
          /\ pc[r] \in {"audit", "ok"} =>
                /\ op[r] = "execute" => joined[r] # NoRun
                /\ op[r] \in {"update", "delete"} => workflow[r] # NoRow
                /\ op[r] = "delete" => workflows[arg[r]] = NoRow
                /\ op[r] = "update" /\ workflows[arg[r]] # NoRow =>
                      workflows[arg[r]].version > 1

AuditInv == IInv /\ RowInv /\ ForeignKey /\ Versions /\ Told

\* How a request gets to the statement that writes its entry, and past it.
AuditFacts ==
    \A q \in Request :
        /\ pc'[q] \in {"audit", "ok"} =>
              \/ pc[q] \in {"audit", "ok"}
              \/ pc[q] = "idle" /\ op'[q] = "create"
              \/ UpdateRow(q)
              \/ DeleteRow(q)
              \/ pc[q] = "settle"
              \/ pc[q] = "markCancelled"
        /\ pc'[q] = "deleteRow" => pc[q] = "deleteRow" \/ workflow'[q] # NoRow
        /\ pc'[q] = "settle" => pc[q] = "settle" \/ joined'[q] # NoRun
        /\ joined[q] # NoRun => joined'[q] # NoRun
        /\ pc[q] = "ok" => pc'[q] = "ok"
        /\ q \in audited' => q \in audited \/ pc'[q] = "ok"

LEMMA AuditStep == TypeInv /\ [Next]_vars => AuditFacts
<1> SUFFICES ASSUME TypeInv, [Next]_vars
             PROVE  AuditFacts
  OBVIOUS
<1> USE DEF TypeInv, TypeOK, Stages, Begin, Goto, AuditFacts
<1>1. CASE UNCHANGED vars
  BY <1>1 DEF vars
<1>2. ASSUME NEW r \in Request, Begins(r)
      PROVE  AuditFacts
  BY <1>2 DEF Begins, Create, UpdateRead, DeleteRead, ExecuteRead, CannotExecute,
              CancelRead, CannotCancel, NotFound, tables
<1>3. ASSUME NEW r \in Request, Continues(r)
      PROVE  AuditFacts
  <2>1. CASE Start(r)
    <3>1. PICK p \in Joinable(r) : joined' = [joined EXCEPT ![r] = p]
      BY <2>1 DEF Start
    <3>2. p \in Request
      BY <3>1 DEF Joinable, OpenUnder
    <3> QED
      BY <2>1, <3>1, <3>2, ConstantsAssumption DEF Start, tables
  <2>2. CASE UpdateRow(r)
    BY <2>2 DEF UpdateRow, memory
  <2>3. CASE DeleteRow(r)
    BY <2>3 DEF DeleteRow, memory
  <2>4. CASE Audit(r)
    BY <2>4 DEF Audit, memory
  <2>5. CASE StartFails(r) \/ CancelRun(r)
    BY <2>5 DEF StartFails, CancelRun, tables
  <2>6. CASE Save(r) \/ WorkflowGone(r) \/ Settle(r) \/ GiveUp(r) \/ MarkCancelled(r)
    BY <2>6 DEF Save, WorkflowGone, Settle, GiveUp, MarkCancelled, tables, memory
  <2> QED
    BY <1>3, <2>1, <2>2, <2>3, <2>4, <2>5, <2>6 DEF Continues
<1>4. ASSUME NEW r \in Request, Abort(r) \/ CloseRun(r)
      PROVE  AuditFacts
  BY <1>4 DEF Abort, CloseRun, tables, memory
<1> QED
  BY <1>1, <1>2, <1>3, <1>4 DEF Next

LEMMA VersionsStep == AuditInv /\ [Next]_vars => Versions'
<1> SUFFICES ASSUME AuditInv, [Next]_vars, NEW id \in UUID, workflows'[id] # NoRow
             PROVE  workflows'[id].version >= 1
  BY DEF Versions
<1>1. WorkflowFacts /\ workflows \in [UUID -> WorkflowRow \cup {NoRow}]
  BY WorkflowStep DEF AuditInv, RowInv, TypeInv, TypeOK
<1>2. CASE workflows[id] # NoRow
  <2>1. workflows[id].version >= 1 /\ workflows[id].version \in Nat
    BY <1>1, <1>2 DEF AuditInv, Versions, WorkflowRow
  <2> QED
    BY <1>1, <2>1 DEF WorkflowFacts
<1>3. CASE workflows[id] = NoRow
  BY <1>1, <1>3 DEF WorkflowFacts
<1> QED
  BY <1>2, <1>3

\* A workflow row goes only by DeleteRow, which takes its executions along.
LEMMA WorkflowsStay ==
    ASSUME TypeInv, [Next]_vars, NEW id \in UUID, workflows[id] # NoRow,
           workflows'[id] = NoRow
    PROVE  \E r \in Request : id = arg[r] /\ Deletes(r)
<1> USE DEF TypeInv, TypeOK, Begin, Goto
<1>1. ASSUME NEW r \in Request, NEW definition \in Definition, Create(r, definition)
      PROVE  FALSE
  <2>1. [definition |-> definition, status |-> "draft", version |-> 1] \in WorkflowRow
    BY DEF WorkflowRow, WorkflowStatus
  <2> QED
    BY <1>1, <2>1, ConstantsAssumption DEF Create
<1>2. ASSUME NEW r \in Request, UpdateRow(r)
      PROVE  FALSE
  <2>1. Updated(workflows[arg[r]], workflow[r]) \in WorkflowRow
    BY <1>2 DEF UpdateRow, Updated, WorkflowRow, Stages
  <2> QED
    BY <1>2, <2>1, ConstantsAssumption DEF UpdateRow
<1>3. ASSUME NEW r \in Request, DeleteRow(r)
      PROVE  id = arg[r] /\ Deletes(r)
  BY <1>3 DEF DeleteRow, Deletes
<1>4. ASSUME NEW r \in Request,
             Begins(r) \/ Continues(r) \/ Abort(r) \/ CloseRun(r),
             ~ UpdateRow(r), ~ DeleteRow(r),
             \A definition \in Definition : ~ Create(r, definition)
      PROVE  FALSE
  BY <1>4 DEF Begins, UpdateRead, DeleteRead, ExecuteRead, CannotExecute, CancelRead,
              CannotCancel, NotFound, Continues, Save, WorkflowGone, Start, StartFails,
              Settle, GiveUp, CancelRun, MarkCancelled, Audit, Abort, CloseRun,
              tables
<1> QED
  BY <1>1, <1>2, <1>3, <1>4 DEF Next, vars

LEMMA ForeignKeyStep == AuditInv /\ [Next]_vars => ForeignKey'
<1> SUFFICES ASSUME AuditInv, [Next]_vars, NEW e \in UUID, executions'[e] # NoRow
             PROVE  workflows'[executions'[e].workflow] # NoRow
  BY DEF ForeignKey
<1> USE DEF AuditInv, RowInv, TypeInv, TypeOK
<1>1. ASSUME executions[e] # NoRow, executions'[e].workflow = executions[e].workflow
      PROVE  workflows'[executions'[e].workflow] # NoRow
  <2> DEFINE id == executions[e].workflow
  <2>1. id \in UUID /\ workflows[id] # NoRow
    BY <1>1 DEF ForeignKey, ExecutionRow
  <2>2. ASSUME NEW r \in Request, id = arg[r], Deletes(r)
        PROVE  FALSE
    BY <1>1, <2>2 DEF Deletes, Cascaded
  <2>3. workflows'[id] # NoRow
    BY <2>1, <2>2, WorkflowsStay
  <2> QED
    BY <1>1, <2>3
<1>2. CASE executions' = executions
  BY <1>1, <1>2
<1>3. ASSUME NEW r \in Request, Inserts(r)
      PROVE  workflows'[executions'[e].workflow] # NoRow
  BY <1>1, <1>3 DEF Inserts
<1>4. ASSUME NEW r \in Request, Deletes(r)
      PROVE  executions[e] # NoRow /\ executions'[e] = executions[e]
  BY <1>4 DEF Deletes, Cascaded
<1>5. ASSUME NEW id \in UUID, Cancels(id)
      PROVE  executions[e] # NoRow /\ executions'[e].workflow = executions[e].workflow
  <2>1. [executions[id] EXCEPT !.status = "cancelled"].workflow = executions[id].workflow
    BY <1>5 DEF Cancels, ExecutionRow
  <2> QED
    BY <1>5, <2>1 DEF Cancels
<1> QED
  BY <1>1, <1>2, <1>3, <1>4, <1>5, RowStep DEF RowFacts

LEMMA ToldStep == AuditInv /\ [Next]_vars => Told'
<1> SUFFICES ASSUME AuditInv, [Next]_vars
             PROVE  Told'
  OBVIOUS
<1>1. /\ AuditFacts /\ RequestFacts /\ Told
      /\ TypeInv /\ TypeInv'
  BY AuditStep, RequestStep, TypeInvStep DEF AuditInv, IInv
<1>2. \A r \in audited' : pc'[r] = "ok"
  BY <1>1 DEF AuditFacts, Told, TypeInv, TypeOK
<1>3. ASSUME NEW r \in Request
      PROVE  /\ pc'[r] = "deleteRow" => workflow'[r] # NoRow
             /\ pc'[r] = "settle" => joined'[r] # NoRun
  BY <1>1 DEF AuditFacts, RequestFacts, Told
<1>4. ASSUME NEW r \in Request, pc'[r] \in {"audit", "ok"}
      PROVE  /\ op'[r] = "execute" => joined'[r] # NoRun
             /\ op'[r] \in {"update", "delete"} => workflow'[r] # NoRow
             /\ op'[r] = "delete" => workflows'[arg'[r]] = NoRow
             /\ op'[r] = "update" /\ workflows'[arg'[r]] # NoRow =>
                   workflows'[arg'[r]].version > 1
  <2>1. CASE pc[r] \in {"audit", "ok"}
    <3>1. /\ pc[r] # "idle"
          /\ op'[r] = op[r] /\ arg'[r] = arg[r] /\ workflow'[r] = workflow[r]
      BY <1>1, <2>1 DEF RequestFacts
    <3>2. op[r] = "execute" => joined'[r] # NoRun
      BY <1>1, <2>1 DEF AuditFacts, Told
    <3>3. op[r] \in {"update", "delete"} => workflow[r] # NoRow
      BY <1>1, <2>1 DEF Told
    <3>4. CASE op[r] = "delete"
      <4>1. workflows[arg[r]] = NoRow /\ workflow[r] # NoRow
        BY <1>1, <2>1, <3>4 DEF Told
      <4> QED
        BY <3>1, <3>4, <4>1, ReadRowStep DEF AuditInv
    <3>5. CASE op[r] = "update"
      <4>1. /\ workflow[r] # NoRow
            /\ workflows[arg[r]] # NoRow => workflows[arg[r]].version > 1
            /\ arg[r] \in UUID
        BY <1>1, <2>1, <3>5 DEF Told, TypeInv, Stages
      <4>2. workflows[arg[r]] # NoRow => workflows[arg[r]].version \in Nat
        BY <1>1, <4>1 DEF TypeInv, TypeOK, WorkflowRow
      <4> QED
        BY <3>1, <3>5, <4>1, <4>2, ReadRowStep DEF AuditInv
    <3> QED
      BY <3>1, <3>2, <3>3, <3>4, <3>5
  <2>2. CASE pc[r] = "idle" /\ op'[r] = "create"
    BY <2>2
  <2>3. CASE UpdateRow(r)
    <3>1. /\ op'[r] = "update" /\ arg'[r] = arg[r] /\ arg[r] \in UUID
          /\ workflow'[r] = workflow[r] /\ workflow[r] # NoRow
      BY <1>1, <2>3 DEF UpdateRow, RequestFacts, TypeInv, Stages
    <3>2. /\ workflows[arg[r]] \in WorkflowRow
          /\ workflows[arg[r]].version >= 1
          /\ workflow[r] \in WorkflowRow
      BY <1>1, <2>3, <3>1 DEF UpdateRow, AuditInv, Versions, TypeInv, TypeOK
    <3>3. Updated(workflows[arg[r]], workflow[r]).version > 1
      BY <3>2 DEF Updated, WorkflowRow
    <3>4. workflows'[arg[r]] = Updated(workflows[arg[r]], workflow[r])
      BY <1>1, <2>3, <3>1 DEF UpdateRow, TypeInv, TypeOK
    <3> QED
      BY <3>1, <3>3, <3>4
  <2>4. CASE DeleteRow(r)
    BY <1>1, <2>4 DEF DeleteRow, RequestFacts, TypeInv, TypeOK, Stages, Told
  <2>5. CASE pc[r] = "settle"
    BY <1>1, <2>5 DEF AuditFacts, RequestFacts, TypeInv, Stages, Told
  <2>6. CASE pc[r] = "markCancelled"
    BY <1>1, <2>6 DEF RequestFacts, TypeInv, Stages
  <2> QED
    BY <1>1, <1>4, <2>1, <2>2, <2>3, <2>4, <2>5, <2>6 DEF AuditFacts
<1> QED
  BY <1>2, <1>3, <1>4 DEF Told

\* However requests overlap, fail or are cut short, an entry in the audit log stands for
\* something that happened: logAudit is the last statement of an operation, and a
\* deleted row never comes back.
THEOREM EntriesAreTrue == Spec => []AuditTellsTruth
<1>1. Init => AuditInv
  <2>1. Init => ForeignKey /\ Told
    BY DEF Init, ForeignKey, Told
  <2>2. Init => Versions
    BY ConstantsAssumption DEF Init, Versions
  <2>3. Init => Rows /\ Held
    BY DEF Init, Rows, Held
  <2> QED
    BY <2>1, <2>2, <2>3, IInvInit, TypeInvInit DEF AuditInv, RowInv
<1>2. AuditInv /\ [Next]_vars => AuditInv'
  BY IInvStep, TypeInvStep, HeldStep, RowsStep, ForeignKeyStep, VersionsStep, ToldStep
     DEF AuditInv, RowInv
<1>3. AuditInv => AuditTellsTruth
  BY DEF AuditInv, RowInv, TypeInv, TypeOK, ForeignKey, Told, AuditTellsTruth
<1> QED
  BY <1>1, <1>2, <1>3, PTL DEF Spec
==================================================================================
