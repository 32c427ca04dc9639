---------------------------- MODULE AlertHandlingProofs ----------------------------
(* Theorems about AlertHandling, for any sets of requests and users.                 *)
EXTENDS AlertHandling, TLAPS

-----------------------------------------------------------------------------------
(* The inductive invariant. *)

\* What the stage of a request says of its operation and of the row it has read.
Stages ==
    \A r \in Request :
        /\ pc[r] = "idle" <=> op[r] = "none"
        /\ pc[r] = "update" => /\ op[r] \in {"acknowledge", "resolve"}
                               /\ read[r] # NoRow
                               /\ Can(read[r], op[r])
                               /\ alerts[arg[r]] # NoRow

\* Only the request that a row's id is made of inserts it, when it begins.
Inserted == \A r \in Request : pc[r] = "idle" => alerts[StoredID(r)] = NoRow

\* Nobody has resolved an open alert, nor the row that a request read as open.
OpenIsUnresolved ==
    /\ \A id \in UUID : alerts[id] # NoRow =>
          (alerts[id].status = "open" => alerts[id].resolvedBy = Nil)
    /\ \A r \in Request : read[r] # NoRow =>
          (read[r].status = "open" => read[r].resolvedBy = Nil)

\* The row shows what a request did from the UPDATE on, and not only once it is audited.
Shown ==
    /\ \A r \in audited : pc[r] = "ok"
    /\ \A r \in Request : pc[r] \in {"audit", "ok"} =>
          /\ op[r] = "acknowledge" =>
                alerts[arg[r]] # NoRow /\ alerts[arg[r]].acknowledgedBy # Nil
          /\ op[r] = "resolve" =>
                alerts[arg[r]] # NoRow /\ alerts[arg[r]].resolvedBy # Nil

IInv == /\ TypeOK /\ Stages /\ Inserted /\ OpenIsUnresolved /\ Shown
        /\ ReopenedOnlyByOverlap

-----------------------------------------------------------------------------------
LEMMA IDs ==
    /\ \A r \in Request : MemoryID(r) \in UUID /\ StoredID(r) \in UUID
    /\ \A r, q \in Request : StoredID(r) = StoredID(q) => r = q
BY DEF MemoryID, StoredID, UUID

\* The row that CreateAlert inserts.
LEMMA FirstRow ==
    ASSUME NEW first, first = [status |-> "open", acknowledgedBy |-> Nil, resolvedBy |-> Nil]
    PROVE  /\ first \in AlertRow /\ first # NoRow
           /\ first.status = "open" /\ first.resolvedBy = Nil
<1>1. first \in AlertRow
  BY DEF AlertRow, Status
<1> QED
  BY <1>1, ConstantsAssumption

\* An UPDATE sets the status and the column of its operation, and keeps the other one.
LEMMA WrittenRow ==
    ASSUME NEW row \in AlertRow, NEW r \in Request, user[r] \in User,
           op[r] \in {"acknowledge", "resolve"}
    PROVE  /\ Written(row, r) \in AlertRow /\ Written(row, r) # NoRow
           /\ op[r] = "acknowledge" => /\ Written(row, r).status = "acknowledged"
                                       /\ Written(row, r).acknowledgedBy = user[r]
                                       /\ Written(row, r).resolvedBy = row.resolvedBy
           /\ op[r] = "resolve" => /\ Written(row, r).status = "resolved"
                                   /\ Written(row, r).acknowledgedBy = row.acknowledgedBy
                                   /\ Written(row, r).resolvedBy = user[r]
<1>1. Written(row, r) \in AlertRow
  BY DEF Written, AlertRow, Status
<1>2. Written(row, r) # NoRow
  BY <1>1, ConstantsAssumption
<1> QED
  BY <1>1, <1>2 DEF Written, AlertRow

LEMMA Initial == Init => IInv
BY IDs DEF Init, IInv, TypeOK, Stages, Inserted, OpenIsUnresolved, Shown,
           ReopenedOnlyByOverlap, Pc, Op

-----------------------------------------------------------------------------------
(* Every action keeps the invariant. *)

LEMMA CreateStep ==
    ASSUME IInv, NEW r \in Request, Create(r)
    PROVE  IInv'
<1> DEFINE first == [status |-> "open", acknowledgedBy |-> Nil, resolvedBy |-> Nil]
<1>1. /\ pc[r] = "idle" /\ op[r] = "none" /\ alerts[StoredID(r)] = NoRow
      /\ op' = [op EXCEPT ![r] = "create"] /\ arg' = [arg EXCEPT ![r] = MemoryID(r)]
      /\ alerts' = [alerts EXCEPT ![StoredID(r)] = first]
      /\ pc' = [pc EXCEPT ![r] = "audit"]
      /\ audited' = audited /\ user' = user /\ read' = read
  BY DEF Create, Begin, Goto, IInv, Stages, Inserted
<1>2. /\ first \in AlertRow /\ first # NoRow
      /\ first.status = "open" /\ first.resolvedBy = Nil
  BY FirstRow
<1> HIDE DEF first
<1>3. TypeOK'
  BY <1>1, <1>2, IDs DEF IInv, TypeOK, Pc, Op
<1>4. Stages'
  BY <1>1, <1>2, IDs DEF IInv, TypeOK, Stages
<1>5. Inserted'
  BY <1>1, IDs DEF IInv, TypeOK, Inserted
<1>6. OpenIsUnresolved'
  BY <1>1, <1>2, IDs DEF IInv, TypeOK, OpenIsUnresolved
<1>7. Shown'
  BY <1>1, IDs DEF IInv, TypeOK, Shown
<1>8. ReopenedOnlyByOverlap'
  BY <1>1, <1>2, IDs DEF IInv, TypeOK, ReopenedOnlyByOverlap
<1> QED
  BY <1>3, <1>4, <1>5, <1>6, <1>7, <1>8 DEF IInv

LEMMA ReadStep ==
    ASSUME IInv, NEW r \in Request, NEW o \in {"acknowledge", "resolve"}, NEW id \in UUID,
           Read(r, o, id)
    PROVE  IInv'
<1>1. /\ pc[r] = "idle" /\ op[r] = "none"
      /\ op' = [op EXCEPT ![r] = o] /\ arg' = [arg EXCEPT ![r] = id]
      /\ read' = [read EXCEPT ![r] = alerts[id]]
      /\ pc' = [pc EXCEPT ![r] = pc'[r]] /\ pc'[r] \in {"update", "refused"}
      /\ pc'[r] = "update" => alerts[id] # NoRow /\ Can(alerts[id], o)
      /\ alerts' = alerts /\ audited' = audited /\ user' = user
  BY DEF Read, Begin, Goto, IInv, TypeOK, Stages
<1>2. TypeOK'
  BY <1>1 DEF IInv, TypeOK, Pc, Op
<1>3. Stages'
  BY <1>1 DEF IInv, TypeOK, Stages
<1>4. Inserted'
  BY <1>1 DEF IInv, TypeOK, Inserted
<1>5. OpenIsUnresolved'
  BY <1>1 DEF IInv, TypeOK, OpenIsUnresolved
<1>6. Shown'
  BY <1>1 DEF IInv, TypeOK, Shown
<1>7. ReopenedOnlyByOverlap'
  BY <1>1 DEF IInv, TypeOK, ReopenedOnlyByOverlap
<1> QED
  BY <1>2, <1>3, <1>4, <1>5, <1>6, <1>7 DEF IInv

LEMMA UpdateStep ==
    ASSUME IInv, NEW r \in Request, Update(r)
    PROVE  IInv'
<1> DEFINE row == alerts[arg[r]]
           new == Written(row, r)
<1>1. /\ pc[r] = "update" /\ arg[r] \in UUID /\ user[r] \in User
      /\ op[r] \in {"acknowledge", "resolve"}
      /\ read[r] # NoRow /\ Can(read[r], op[r])
      /\ row # NoRow /\ row \in AlertRow
      /\ alerts' = [alerts EXCEPT ![arg[r]] = new]
      /\ pc' = [pc EXCEPT ![r] = "audit"]
      /\ op' = op /\ arg' = arg /\ audited' = audited /\ user' = user /\ read' = read
  BY DEF Update, Goto, IInv, TypeOK, Stages
<1>2. /\ new \in AlertRow /\ new # NoRow
      /\ op[r] = "acknowledge" => /\ new.status = "acknowledged"
                                  /\ new.acknowledgedBy = user[r]
                                  /\ new.resolvedBy = row.resolvedBy
      /\ op[r] = "resolve" => /\ new.status = "resolved"
                              /\ new.acknowledgedBy = row.acknowledgedBy
                              /\ new.resolvedBy = user[r]
  BY <1>1, WrittenRow
<1>3. Nil # user[r]
  BY <1>1, ConstantsAssumption
<1> HIDE DEF row, new
<1>4. TypeOK'
  BY <1>1, <1>2 DEF IInv, TypeOK, Pc
<1>5. Stages'
  BY <1>1, <1>2 DEF IInv, TypeOK, Stages
<1>6. Inserted'
  BY <1>1, IDs DEF IInv, TypeOK, Inserted, row
<1>7. OpenIsUnresolved'
  BY <1>1, <1>2 DEF IInv, TypeOK, OpenIsUnresolved
<1>8. Shown'
  BY <1>1, <1>2, <1>3 DEF IInv, TypeOK, Shown, row
<1>9. ReopenedOnlyByOverlap'
  <2> SUFFICES ASSUME NEW id \in UUID,
                      alerts'[id] # NoRow, alerts'[id].status = "acknowledged",
                      alerts'[id].resolvedBy # Nil
               PROVE  \E q \in Request : /\ op[q] = "acknowledge" /\ arg[q] = id
                                         /\ user[q] = alerts'[id].acknowledgedBy
                                         /\ read[q] # NoRow /\ read[q].resolvedBy = Nil
    BY <1>1 DEF ReopenedOnlyByOverlap
  <2>1. CASE id = arg[r]
    <3>1. alerts'[id] = new
      BY <1>1, <2>1 DEF IInv, TypeOK
    <3>2. op[r] = "acknowledge" /\ user[r] = new.acknowledgedBy
      BY <1>1, <1>2, <3>1
    <3>3. read[r].status = "open"
      BY <1>1, <3>2 DEF Can
    <3> QED
      BY <1>1, <2>1, <3>1, <3>2, <3>3 DEF IInv, OpenIsUnresolved
  <2>2. CASE id # arg[r]
    BY <1>1, <2>2 DEF IInv, TypeOK, ReopenedOnlyByOverlap
  <2> QED
    BY <2>1, <2>2
<1> QED
  BY <1>4, <1>5, <1>6, <1>7, <1>8, <1>9 DEF IInv

LEMMA EndStep ==
    ASSUME IInv, NEW r \in Request, Audit(r) \/ Abort(r)
    PROVE  IInv'
<1>1. /\ pc[r] \in {"update", "audit"}
      /\ pc' = [pc EXCEPT ![r] = pc'[r]] /\ pc'[r] \in {"ok", "refused"}
      /\ pc'[r] = "ok" => pc[r] = "audit"
      /\ audited' \in {audited, audited \cup {r}}
      /\ pc'[r] = "refused" => audited' = audited
      /\ alerts' = alerts /\ op' = op /\ arg' = arg /\ user' = user /\ read' = read
  BY DEF Audit, Abort, Goto, IInv, TypeOK
<1>2. TypeOK'
  BY <1>1 DEF IInv, TypeOK, Pc
<1>3. Stages' /\ Inserted'
  BY <1>1 DEF IInv, TypeOK, Stages, Inserted
<1>4. OpenIsUnresolved' /\ ReopenedOnlyByOverlap'
  BY <1>1 DEF IInv, OpenIsUnresolved, ReopenedOnlyByOverlap
<1>5. Shown'
  BY <1>1 DEF IInv, TypeOK, Shown
<1> QED
  BY <1>2, <1>3, <1>4, <1>5 DEF IInv

LEMMA Step == IInv /\ [Next]_vars => IInv'
<1> SUFFICES ASSUME IInv, [Next]_vars
             PROVE  IInv'
  OBVIOUS
<1>1. CASE UNCHANGED vars
  BY <1>1 DEF vars, IInv, TypeOK, Stages, Inserted, OpenIsUnresolved, Shown,
              ReopenedOnlyByOverlap
<1>2. CASE Next
  BY <1>2, CreateStep, ReadStep, UpdateStep, EndStep DEF Next
<1> QED
  BY <1>1, <1>2

-----------------------------------------------------------------------------------
\* The invariant holds in every reachable state.
THEOREM Invariance == Spec => []IInv
  BY Initial, Step, PTL DEF Spec

\* The types of all variables of the alert service.
THEOREM TypeCorrect == Spec => []TypeOK
<1>1. IInv => TypeOK
  BY DEF IInv
<1> QED
  BY <1>1, Invariance, PTL

\* An audited acknowledgement or resolution shows in its row, as AcknowledgeAlert and
\* ResolveAlert set columns of their own only.
THEOREM AuditedActionsDoShow == Spec => []AuditedActionsShow
<1>1. IInv => AuditedActionsShow
  BY DEF IInv, TypeOK, Shown, AuditedActionsShow
<1> QED
  BY <1>1, Invariance, PTL

\* CanAcknowledge, though checked on an old row, keeps a resolved alert resolved unless
\* the acknowledgement had read it before it was resolved.
THEOREM ReopeningNeedsOverlap == Spec => []ReopenedOnlyByOverlap
<1>1. IInv => ReopenedOnlyByOverlap
  BY DEF IInv
<1> QED
  BY <1>1, Invariance, PTL
===================================================================================
