------------------------------ MODULE AlertHandling -------------------------------
(* AlertService.Create, Acknowledge and Resolve (core/service/alert.go) over the    *)
(* alerts table (adapter/driven/postgres/alert.go): requests that read a row, check *)
(* it in memory and write it with an UPDATE that does not look at what it replaces. *)
(* An action is one statement, and a request may be cut short before each of them.  *)
EXTENDS Naturals

CONSTANTS
    Request,      \* HTTP requests, each served once
    User,         \* who sends them
    NoRow,        \* no such row, nothing read yet
    Nil           \* a NULL column

\* As in WorkflowExecution: the id of the service is not the one that is stored.
MemoryID(r) == <<r, "memory">>
StoredID(r) == <<r, "database">>
UUID == Request \X {"memory", "database"}

\* The column's default is 'open'; "triggered" exists in memory only.
Status   == {"open", "acknowledged", "resolved"}
AlertRow == [status : Status, acknowledgedBy : User \cup {Nil},
             resolvedBy : User \cup {Nil}]
Op       == {"none", "create", "acknowledge", "resolve"}
Pc       == {"idle", "update", "audit", "ok", "refused"}

ASSUME ConstantsAssumption == NoRow \notin AlertRow /\ Nil \notin User

VARIABLES
    alerts,       \* table alerts
    audited,      \* the requests with an entry in table audit_logs
    pc, op, arg,  \* per request: next statement, operation, id in the URL
    user,         \* per request: who sent it
    read          \* per request: the row as FindByID returned it

vars == <<alerts, audited, pc, op, arg, user, read>>

Init ==
    /\ alerts = [id \in UUID |-> NoRow]
    /\ audited = {}
    /\ pc = [r \in Request |-> "idle"]
    /\ op = [r \in Request |-> "none"]
    /\ arg = [r \in Request |-> MemoryID(r)]
    /\ user \in [Request -> User]
    /\ read = [r \in Request |-> NoRow]

Goto(r, next) == pc' = [pc EXCEPT ![r] = next]

Begin(r, o, id) ==
    /\ pc[r] = "idle"
    /\ op' = [op EXCEPT ![r] = o]
    /\ arg' = [arg EXCEPT ![r] = id]

\* Mutant: the INSERT stores the status that the service gave.
CreateTriggered(r) ==
    /\ Begin(r, "create", MemoryID(r))
    /\ alerts' = [alerts EXCEPT ![StoredID(r)] =
          [status |-> "triggered", acknowledgedBy |-> Nil, resolvedBy |-> Nil]]
    /\ Goto(r, "audit")
    /\ UNCHANGED <<audited, user, read>>

\* CreateAlert: neither the id nor the status of the service is stored.
Create(r) ==
    /\ Begin(r, "create", MemoryID(r))
    /\ alerts' = [alerts EXCEPT ![StoredID(r)] =
          [status |-> "open", acknowledgedBy |-> Nil, resolvedBy |-> Nil]]
    /\ Goto(r, "audit")
    /\ UNCHANGED <<audited, user, read>>

\* Mutant: only doing the same thing twice is refused.
NotTwice(row, o) ==
    row.status # (IF o = "acknowledge" THEN "acknowledged" ELSE "resolved")

\* CanAcknowledge and CanResolve.
Can(row, o) ==
    row.status \in IF o = "acknowledge" THEN {"open"} ELSE {"open", "acknowledged"}

\* FindByID and the check; ErrAlertNotFound, ErrAlertAlreadyAcknowledged and
\* ErrAlertAlreadyResolved end the request.
Read(r, o, id) ==
    /\ Begin(r, o, id)
    /\ read' = [read EXCEPT ![r] = alerts[id]]
    /\ IF alerts[id] # NoRow /\ Can(alerts[id], o) THEN Goto(r, "update")
                                                    ELSE Goto(r, "refused")
    /\ UNCHANGED <<alerts, audited, user>>

\* Mutant: the row that was read is written back whole.
ReadWrittenBack(row, r) ==
    IF op[r] = "acknowledge"
    THEN [read[r] EXCEPT !.status = "acknowledged", !.acknowledgedBy = user[r]]
    ELSE [read[r] EXCEPT !.status = "resolved", !.resolvedBy = user[r]]

\* AcknowledgeAlert and ResolveAlert set the status and their own columns.
Written(row, r) ==
    IF op[r] = "acknowledge"
    THEN [row EXCEPT !.status = "acknowledged", !.acknowledgedBy = user[r]]
    ELSE [row EXCEPT !.status = "resolved", !.resolvedBy = user[r]]

Update(r) ==
    /\ pc[r] = "update"
    /\ alerts' = [alerts EXCEPT ![arg[r]] = Written(@, r)]
    /\ Goto(r, "audit")
    /\ UNCHANGED <<audited, op, arg, user, read>>

\* logAudit drops the error of the INSERT.
Audit(r) ==
    /\ pc[r] = "audit"
    /\ audited' \in {audited, audited \cup {r}}
    /\ Goto(r, "ok")
    /\ UNCHANGED <<alerts, op, arg, user, read>>

\* A statement fails, the client goes away, the process ends.
Abort(r) ==
    /\ pc[r] \in {"update", "audit"}
    /\ Goto(r, "refused")
    /\ UNCHANGED <<alerts, audited, op, arg, user, read>>

Next == \E r \in Request :
    \/ Create(r)
    \/ \E o \in {"acknowledge", "resolve"}, id \in UUID : Read(r, o, id)
    \/ Update(r)
    \/ Audit(r)
    \/ Abort(r)

Spec == Init /\ [][Next]_vars

-----------------------------------------------------------------------------------
(* Properties. *)

TypeOK ==
    /\ alerts \in [UUID -> AlertRow \cup {NoRow}]
    /\ audited \subseteq Request
    /\ pc \in [Request -> Pc]
    /\ op \in [Request -> Op]
    /\ arg \in [Request -> UUID]
    /\ user \in [Request -> User]
    /\ read \in [Request -> AlertRow \cup {NoRow}]

\* Concurrent requests do not erase each other's trace: an alert keeps who
\* acknowledged it when it is resolved by a request that had read it before, and who
\* resolved it when it is acknowledged by such a request; an audited acknowledgement
\* or resolution is one the row shows, be it by the name of a later user.
AuditedActionsShow ==
    \A r \in audited : LET row == alerts[arg[r]]
                       IN  /\ op[r] = "acknowledge" => row.acknowledgedBy # Nil
                           /\ op[r] = "resolve"     => row.resolvedBy # Nil

\* A resolved alert becomes "acknowledged" again only by a request that read it while
\* it was still open, and then still says who resolved it.
ReopenedOnlyByOverlap ==
    \A id \in UUID :
        LET row == alerts[id]
        IN  (row # NoRow /\ row.status = "acknowledged" /\ row.resolvedBy # Nil) =>
              \E r \in Request : /\ op[r] = "acknowledge"
                                 /\ arg[r] = id
                                 /\ user[r] = row.acknowledgedBy
                                 /\ read[r] # NoRow
                                 /\ read[r].resolvedBy = Nil
===================================================================================
