-------------------------- MODULE LegacyExecutionProofs ---------------------------
(* Theorems about LegacyExecution, for any set of requests. *)
EXTENDS LegacyExecution, TLAPS

-----------------------------------------------------------------------------------
(* The inductive invariant. *)

\* While a request has its row to fill in, or once its run exists, the row is there.
Records ==
    \A r \in Request :
        pc[r] \in {"link", "start", "setIDs", "setRunning", "setRunID"} \/ runs[r] # "none"
            => (present => executions[r] # NoRow)

\* The handler has not answered yet: it has inserted no row, or one without an end.
Unanswered(r) == pc[r] \in {"create", "link", "start", "setIDs", "setRunning", "setRunID"}
Unended ==
    \A r \in Request :
        /\ pc[r] \in {"idle", "create"} => executions[r] = NoRow
        /\ Unanswered(r) /\ executions[r] # NoRow =>
              executions[r].status \notin {"completed", "failed"}

\* A goroutine waits on behalf of requests that were answered only.
Waits == \A r \in waiting : pc[r] = "done"

IInv == TypeOK /\ Records /\ Unended /\ Waits /\ CompletedMeansReturned

-----------------------------------------------------------------------------------
\* An update of a row, effective or not, changes that row only, and removes none.
LEMMA UpdateRow ==
    ASSUME TypeOK, NEW r \in Request, NEW row \in Row, Update(r, row)
    PROVE  /\ executions' \in [Request -> Row \cup {NoRow}]
           /\ \A q \in Request : /\ executions'[q] = NoRow <=> executions[q] = NoRow
                                 /\ q # r => executions'[q] = executions[q]
           /\ executions'[r] \in {executions[r], row}
BY ConstantsAssumption DEF Update, TypeOK

LEMMA RowTypes ==
    ASSUME NEW row \in Row
    PROVE  /\ \A s \in Status : /\ [row EXCEPT !.status = s] \in Row
                                /\ [row EXCEPT !.status = s].status = s
           /\ [row EXCEPT !.runID = TRUE] \in Row
           /\ [row EXCEPT !.runID = TRUE].status = row.status
BY DEF Row

\* The row that CreateExecution inserts.
LEMMA FirstRow ==
    /\ [status |-> "pending", runID |-> FALSE] \in Row
    /\ [status |-> "pending", runID |-> FALSE] # NoRow
    /\ [status |-> "pending", runID |-> FALSE].status = "pending"
<1>1. [status |-> "pending", runID |-> FALSE] \in Row
  BY DEF Row, Status
<1> QED
  BY <1>1, ConstantsAssumption

LEMMA Initial == Init => IInv
BY DEF Init, IInv, TypeOK, Records, Unended, Unanswered, Waits, CompletedMeansReturned,
       Pc, Op, Status

\* Setting the status of a row that exists, in the words of the other lemmas.
LEMMA StatusUpdate ==
    ASSUME TypeOK, NEW r \in Request, NEW s \in Status, Update(r, WithStatus(r, s))
    PROVE  /\ executions' \in [Request -> Row \cup {NoRow}]
           /\ \A q \in Request : /\ executions'[q] = NoRow <=> executions[q] = NoRow
                                 /\ q # r => executions'[q] = executions[q]
           /\ executions[r] # NoRow =>
                 executions'[r] = executions[r] \/ executions'[r].status = s
<1>1. CASE executions[r] = NoRow
  BY <1>1 DEF Update, TypeOK
<1>2. CASE executions[r] # NoRow
  <2>1. executions[r] \in Row
    BY <1>2 DEF TypeOK
  <2>2. WithStatus(r, s) \in Row /\ WithStatus(r, s).status = s
    BY <2>1, RowTypes DEF WithStatus
  <2> QED
    BY <2>2, UpdateRow
<1> QED
  BY <1>1, <1>2

\* The same of the two statements that set temporal_run_id.
LEMMA RunIDUpdate ==
    ASSUME TypeOK, NEW r \in Request,
           \/ Update(r, [executions[r] EXCEPT !.runID = TRUE])
           \/ Update(r, [WithStatus(r, "running") EXCEPT !.runID = TRUE])
    PROVE  /\ executions' \in [Request -> Row \cup {NoRow}]
           /\ \A q \in Request : /\ executions'[q] = NoRow <=> executions[q] = NoRow
                                 /\ q # r => executions'[q] = executions[q]
           /\ executions[r] # NoRow =>
                 executions'[r].status \in {executions[r].status, "running"}
<1>1. CASE executions[r] = NoRow
  BY <1>1 DEF Update, TypeOK
<1>2. CASE executions[r] # NoRow
  <2>1. executions[r] \in Row
    BY <1>2 DEF TypeOK
  <2>2. /\ [executions[r] EXCEPT !.runID = TRUE] \in Row
        /\ [executions[r] EXCEPT !.runID = TRUE].status = executions[r].status
    BY <2>1, RowTypes
  <2>3. /\ WithStatus(r, "running") \in Row
        /\ WithStatus(r, "running").status = "running"
    BY <2>1, RowTypes DEF WithStatus, Status
  <2>4. /\ [WithStatus(r, "running") EXCEPT !.runID = TRUE] \in Row
        /\ [WithStatus(r, "running") EXCEPT !.runID = TRUE].status = "running"
    BY <2>3, RowTypes
  <2> QED
    BY <2>2, <2>4, UpdateRow
<1> QED
  BY <1>1, <1>2

-----------------------------------------------------------------------------------
\* Every action keeps the invariant, and never replaces an end by "pending" or "running".
NoEndReplaced ==
    \A r \in Request :
        executions[r] # NoRow /\ executions'[r] # NoRow =>
            (executions[r].status \in {"completed", "failed"} =>
                executions'[r].status \notin {"pending", "running"})

LEMMA HandlerStep ==
    ASSUME IInv, NEW r \in Request, Handler(r)
    PROVE  IInv' /\ NoEndReplaced
<1>0. TypeOK /\ Records /\ Unended /\ Waits /\ CompletedMeansReturned
  BY DEF IInv
<1>1. ASSUME NEW o \in {"execute", "trigger"}, ReadWorkflow(r, o)
      PROVE  IInv' /\ NoEndReplaced
  BY <1>1 DEF ReadWorkflow,
         IInv, TypeOK, Records, Unended, Unanswered, Waits,
         CompletedMeansReturned, NoEndReplaced, Goto, Pc, Op
<1>2. CASE Create(r)
  BY <1>2, FirstRow DEF Create,
         IInv, TypeOK, Records, Unended, Unanswered, Waits,
         CompletedMeansReturned, NoEndReplaced, Goto, Pc, Op
<1>3. CASE CreateFails(r)
  BY <1>3 DEF CreateFails,
         IInv, TypeOK, Records, Unended, Unanswered, Waits,
         CompletedMeansReturned, NoEndReplaced, Goto, Pc, Op
<1>4. CASE Link(r)
  BY <1>4 DEF Link,
         IInv, TypeOK, Records, Unended, Unanswered, Waits,
         CompletedMeansReturned, NoEndReplaced, Goto, Pc, Op
<1>5. CASE Start(r)
  BY <1>5 DEF Start, Started,
         IInv, TypeOK, Records, Unended, Unanswered, Waits,
         CompletedMeansReturned, NoEndReplaced, Goto, Pc, Op
<1>6. CASE StartFails(r)
  BY <1>6 DEF StartFails, Started,
         IInv, TypeOK, Records, Unended, Unanswered, Waits,
         CompletedMeansReturned, NoEndReplaced, Goto, Pc, Op
<1>7. CASE MarkFailed(r)
  <2>1. Update(r, WithStatus(r, "failed"))
    BY <1>7 DEF MarkFailed
  <2>2. /\ executions' \in [Request -> Row \cup {NoRow}]
        /\ \A q \in Request : /\ executions'[q] = NoRow <=> executions[q] = NoRow
                              /\ q # r => executions'[q] = executions[q]
        /\ executions[r] # NoRow =>
              executions'[r] = executions[r] \/ executions'[r].status = "failed"
    BY <1>0, <2>1, StatusUpdate DEF Status
  <2>3. TypeOK' /\ Records' /\ Waits'
    BY <1>0, <1>7, <2>2 DEF MarkFailed, TypeOK, Records, Waits, Goto, Pc
  <2>4. Unended'
    BY <1>0, <1>7, <2>2 DEF MarkFailed, TypeOK, Unended, Unanswered, Goto
  <2>5. CompletedMeansReturned' /\ NoEndReplaced
    BY <1>0, <1>7, <2>2 DEF MarkFailed, TypeOK, Unended, Unanswered, CompletedMeansReturned, NoEndReplaced
  <2> QED
    BY <2>3, <2>4, <2>5 DEF IInv
<1>8. CASE SetIDs(r)
  <2>1. Update(r, [executions[r] EXCEPT !.runID = TRUE])
    BY <1>8 DEF SetIDs
  <2>2. /\ executions' \in [Request -> Row \cup {NoRow}]
        /\ \A q \in Request : /\ executions'[q] = NoRow <=> executions[q] = NoRow
                              /\ q # r => executions'[q] = executions[q]
        /\ executions[r] # NoRow =>
              executions'[r].status \in {executions[r].status, "running"}
    BY <1>0, <2>1, RunIDUpdate
  <2>3. TypeOK' /\ Records' /\ Waits'
    BY <1>0, <1>8, <2>2 DEF SetIDs, TypeOK, Records, Waits, Goto, Pc
  <2>4. Unended'
    BY <1>0, <1>8, <2>2 DEF SetIDs, TypeOK, Unended, Unanswered, Goto
  <2>5. CompletedMeansReturned' /\ NoEndReplaced
    BY <1>0, <1>8, <2>2 DEF SetIDs, TypeOK, Unended, Unanswered, CompletedMeansReturned, NoEndReplaced
  <2> QED
    BY <2>3, <2>4, <2>5 DEF IInv
<1>9. CASE SetRunning(r)
  <2>1. Update(r, WithStatus(r, "running"))
    BY <1>9 DEF SetRunning
  <2>2. /\ executions' \in [Request -> Row \cup {NoRow}]
        /\ \A q \in Request : /\ executions'[q] = NoRow <=> executions[q] = NoRow
                              /\ q # r => executions'[q] = executions[q]
        /\ executions[r] # NoRow =>
              executions'[r] = executions[r] \/ executions'[r].status = "running"
    BY <1>0, <2>1, StatusUpdate DEF Status
  <2>3. TypeOK' /\ Records' /\ Waits'
    BY <1>0, <1>9, <2>2 DEF SetRunning, TypeOK, Records, Waits, Goto, Pc
  <2>4. Unended'
    BY <1>0, <1>9, <2>2 DEF SetRunning, TypeOK, Unended, Unanswered, Goto
  <2>5. CompletedMeansReturned' /\ NoEndReplaced
    BY <1>0, <1>9, <2>2 DEF SetRunning, TypeOK, Unended, Unanswered, CompletedMeansReturned, NoEndReplaced
  <2> QED
    BY <2>3, <2>4, <2>5 DEF IInv
<1>10. CASE SetRunID(r)
  <2>1. Update(r, [WithStatus(r, "running") EXCEPT !.runID = TRUE])
    BY <1>10 DEF SetRunID
  <2>2. /\ executions' \in [Request -> Row \cup {NoRow}]
        /\ \A q \in Request : /\ executions'[q] = NoRow <=> executions[q] = NoRow
                              /\ q # r => executions'[q] = executions[q]
        /\ executions[r] # NoRow =>
              executions'[r].status \in {executions[r].status, "running"}
    BY <1>0, <2>1, RunIDUpdate
  <2>3. TypeOK' /\ Records' /\ Waits'
    BY <1>0, <1>10, <2>2 DEF SetRunID, TypeOK, Records, Waits, Goto, Pc
  <2>4. Unended'
    BY <1>0, <1>10, <2>2 DEF SetRunID, TypeOK, Unended, Unanswered, Goto
  <2>5. CompletedMeansReturned' /\ NoEndReplaced
    BY <1>0, <1>10, <2>2 DEF SetRunID, TypeOK, Unended, Unanswered, CompletedMeansReturned, NoEndReplaced
  <2> QED
    BY <2>3, <2>4, <2>5 DEF IInv
<1>11. ASSUME NEW q \in Request, CancelRead(r, q)
       PROVE  IInv' /\ NoEndReplaced
  BY <1>11 DEF CancelRead,
         IInv, TypeOK, Records, Unended, Unanswered, Waits,
         CompletedMeansReturned, NoEndReplaced, Goto, Pc, Op
<1>12. CASE CancelRun(r)
  BY <1>12 DEF CancelRun,
         IInv, TypeOK, Records, Unended, Unanswered, Waits,
         CompletedMeansReturned, NoEndReplaced, Goto, Pc, Op
<1>13. CASE SetCancelled(r)
  <2>1. arg[r] \in Request /\ Update(arg[r], WithStatus(arg[r], "cancelled"))
    BY <1>0, <1>13 DEF SetCancelled, TypeOK
  <2>2. /\ executions' \in [Request -> Row \cup {NoRow}]
        /\ \A q \in Request : /\ executions'[q] = NoRow <=> executions[q] = NoRow
                              /\ q # arg[r] => executions'[q] = executions[q]
        /\ executions[arg[r]] # NoRow =>
              executions'[arg[r]] = executions[arg[r]] \/ executions'[arg[r]].status = "cancelled"
    BY <1>0, <2>1, StatusUpdate DEF Status
  <2>3. TypeOK' /\ Records' /\ Waits'
    BY <1>0, <1>13, <2>2 DEF SetCancelled, TypeOK, Records, Waits, Goto, Pc
  <2>4. Unended'
    BY <1>0, <1>13, <2>2 DEF SetCancelled, TypeOK, Unended, Unanswered, Goto
  <2>5. CompletedMeansReturned' /\ NoEndReplaced
    BY <1>0, <1>13, <2>2 DEF SetCancelled, TypeOK, Unended, Unanswered, CompletedMeansReturned, NoEndReplaced
  <2> QED
    BY <2>3, <2>4, <2>5 DEF IInv
<1> QED
  BY <1>1, <1>2, <1>3, <1>4, <1>5, <1>6, <1>7, <1>8, <1>9, <1>10, <1>11, <1>12, <1>13
     DEF Handler

LEMMA Step == IInv /\ [Next]_vars => IInv' /\ (NoEndReplaced \/ UNCHANGED vars)
<1> SUFFICES ASSUME IInv, [Next]_vars
             PROVE  IInv' /\ (NoEndReplaced \/ UNCHANGED vars)
  OBVIOUS
<1> USE DEF IInv, TypeOK, Records, Unended, Unanswered, Waits, CompletedMeansReturned,
            NoEndReplaced
<1>1. CASE UNCHANGED vars
  BY <1>1 DEF vars
<1>2. ASSUME NEW r \in Request, Handler(r)
      PROVE  IInv' /\ NoEndReplaced
  BY <1>2, HandlerStep
<1>3. ASSUME NEW r \in Request, CloseRun(r)
      PROVE  IInv' /\ NoEndReplaced
  BY <1>3 DEF CloseRun, Outcome
<1>4. ASSUME NEW r \in Request, Record(r)
      PROVE  IInv' /\ NoEndReplaced
  <2>1. Recorded(runs[r]) \in {"completed", "failed"}
    BY DEF Recorded
  <2>2. Recorded(runs[r]) = "completed" => runs[r] \in {"completed", "failed"}
    BY <1>4 DEF Record, Recorded, Outcome
  <2>3. Recorded(runs[r]) \in Status
    BY <2>1 DEF Status
  <2>4. Update(r, WithStatus(r, Recorded(runs[r])))
    BY <1>4 DEF Record
  <2>5. /\ executions' \in [Request -> Row \cup {NoRow}]
        /\ \A q \in Request : /\ executions'[q] = NoRow <=> executions[q] = NoRow
                              /\ q # r => executions'[q] = executions[q]
        /\ executions[r] # NoRow => \/ executions'[r] = executions[r]
                                   \/ executions'[r].status = Recorded(runs[r])
    BY <2>3, <2>4, StatusUpdate
  <2> QED
    BY <1>4, <2>1, <2>2, <2>5 DEF Record
<1>5. ASSUME NEW r \in Request, GiveUp(r)
      PROVE  IInv' /\ NoEndReplaced
  <2>1. Update(r, WithStatus(r, "failed"))
    BY <1>5 DEF GiveUp
  <2>2. /\ executions' \in [Request -> Row \cup {NoRow}]
        /\ \A q \in Request : /\ executions'[q] = NoRow <=> executions[q] = NoRow
                              /\ q # r => executions'[q] = executions[q]
        /\ executions[r] # NoRow =>
              executions'[r] = executions[r] \/ executions'[r].status = "failed"
    BY <2>1, StatusUpdate DEF Status
  <2> QED
    BY <1>5, <2>2 DEF GiveUp
<1>6. CASE DeleteWorkflow
  BY <1>6 DEF DeleteWorkflow
<1>7. CASE Crash
  BY <1>7 DEF Crash, Pc
<1> QED
  BY <1>1, <1>2, <1>3, <1>4, <1>5, <1>6, <1>7 DEF Next

-----------------------------------------------------------------------------------
\* The invariant holds in every reachable state.
THEOREM Invariance == Spec => []IInv
<1>1. IInv /\ [Next]_vars => IInv'
  BY Step
<1> QED
  BY Initial, <1>1, PTL DEF Spec

\* The types of all variables of the older execution path.
THEOREM TypeCorrect == Spec => []TypeOK
<1>1. IInv => TypeOK
  BY DEF IInv
<1> QED
  BY <1>1, Invariance, PTL

\* CreateExecution comes before the start of the run: no run lacks its row while the
\* workflow is there.
THEOREM RunsAreOnRecord == Spec => []RunOnRecord
<1>1. IInv => RunOnRecord
  BY DEF IInv, Records, RunOnRecord
<1> QED
  BY <1>1, Invariance, PTL

\* waitForWorkflowCompletion writes "completed" after run.Get without an error only.
THEOREM CompletedRunsReturned == Spec => []CompletedMeansReturned
<1>1. IInv => CompletedMeansReturned
  BY DEF IInv
<1> QED
  BY <1>1, Invariance, PTL

\* A recorded end is not overwritten by an earlier stage of the execution.
THEOREM EndsStay == Spec => EndsAreFinal
<1>1. IInv /\ [Next]_vars => [NoEndReplaced]_vars
  BY Step
<1>2. [NoEndReplaced]_vars =>
         [\A r \in Request :
             executions[r] # NoRow /\ executions'[r] # NoRow =>
                (executions[r].status \in {"completed", "failed"} =>
                    executions'[r].status \notin {"pending", "running"})]_vars
  BY DEF NoEndReplaced
<1> QED
  BY <1>1, <1>2, Invariance, PTL DEF Spec, EndsAreFinal
===================================================================================
