------------------------------- MODULE Listing -------------------------------
(* The GET endpoints that return pages, composed with the admission of their  *)
(* requests. A handler reads page and limit, the service sets the tenant, one *)
(* statement SELECTs the page and, on most endpoints, another one COUNTs, each*)
(* on its own, with inserts and deletes of other requests in between.         *)
(* A client asks for one page, or walks: it asks for the next page as long as *)
(* the one it got is full.                                                    *)
EXTENDS Admission, Integers, SequencesExt

CONSTANTS
    Row,            \* rows the table may ever hold
    RowTenant,      \* RowTenant[x]: tenant_id of row x
    RowKey,         \* RowKey[x]: the column the SELECT orders by, descending
    RowMarked,      \* RowMarked[x]: row x passes the endpoint's further filter
    Endpoint,       \* the endpoints asked, records of the form below
    Ask,            \* the pages asked for: see AskAssumption
    DefaultLimit,   \* 20
    MaxLimit,       \* 100
    Half,           \* half the range of the integer OFFSET is narrowed to: 2^31
    MaxPage         \* bound: where a client gives up walking

(* A walk starts at the first page.                                           *)
ASSUME AskAssumption ==
    /\ Ask \subseteq [page : Int, limit : Int, walk : BOOLEAN]
    /\ \A a \in Ask : a.walk => a.page = 1

ASSUME RowAssumption ==
    /\ IsFiniteSet(Row)
    /\ RowTenant \in [Row -> Tenant] /\ RowKey \in [Row -> Int]
    /\ RowMarked \in [Row -> BOOLEAN]

ASSUME LimitAssumption ==
    /\ MaxLimit \in Nat /\ DefaultLimit \in 1..MaxLimit
    /\ Half \in Nat \ {0} /\ MaxLimit <= Half

-----------------------------------------------------------------------------
(* What the endpoints differ in. tenant: the rows are filtered by tenant_id;  *)
(* marked: by a further condition; offset: the SELECT has an OFFSET; total:   *)
(* where the total comes from, a COUNT of the tenant's rows or the length of  *)
(* the page, and whether a failed COUNT is an error; sets: the tenant is set  *)
(* once more before the SELECT; validated: a request of NoTenant is an error; *)
(* policy: the table has a policy of migration 002.                           *)
Page == [tenant |-> TRUE, marked |-> FALSE, offset |-> TRUE, total |-> "count",
         sets |-> TRUE, validated |-> FALSE, policy |-> TRUE]

ListWorkflows == Page
ListExecutions == Page
ListAlerts == Page
ListAuditLogs == Page
ListDefinitions == [Page EXCEPT !.policy = FALSE]
ListRules == [Page EXCEPT !.total = "count_or_0", !.sets = FALSE, !.policy = FALSE]
WorkflowExecutions == [Page EXCEPT !.tenant = FALSE, !.marked = TRUE, !.total = "length",
                                   !.sets = FALSE]
QueryMetrics == [Page EXCEPT !.validated = TRUE, !.policy = FALSE]
QueryMetricsByLabels == [QueryMetrics EXCEPT !.marked = TRUE, !.offset = FALSE]
\* The handlers cmd/api no longer mounts.
OlderListWorkflows == Page
OlderListExecutionsByStatus == [Page EXCEPT !.marked = TRUE]
OlderListAlertsByStatus == [Page EXCEPT !.marked = TRUE]
OlderListAuditLogsByType == [Page EXCEPT !.marked = TRUE]
OlderAuditLogsByResource == [Page EXCEPT !.marked = TRUE, !.total = "length"]
OlderAuditLogsByUser == [Page EXCEPT !.marked = TRUE, !.total = "length"]
OlderWorkflowExecutions == [Page EXCEPT !.tenant = FALSE, !.marked = TRUE, !.total = "length"]

ASSUME EndpointAssumption ==
    Endpoint \subseteq {ListWorkflows, ListExecutions, ListAlerts, ListAuditLogs, ListDefinitions,
                        ListRules, WorkflowExecutions, QueryMetrics, QueryMetricsByLabels,
                        OlderListWorkflows, OlderListExecutionsByStatus, OlderListAlertsByStatus,
                        OlderListAuditLogsByType, OlderAuditLogsByResource, OlderAuditLogsByUser,
                        OlderWorkflowExecutions}

VARIABLES
    table,      \* the rows of the table
    future,     \* rows that other requests will still insert
    endpoint,   \* endpoint[r]: what request r asks
    ask,        \* ask[r]: the page and limit it asks for, the next one in a walk
    rows,       \* rows[r]: the rows of its last page
    total,      \* total[r]: the total of its last page
    \* history, for the properties
    size,       \* size[r]: how many rows its last SELECT found to choose from
    gone,       \* gone[r]: a row was deleted since that SELECT
    seen,       \* seen[r]: the rows its walk got so far
    twice,      \* twice[r]: the rows its walk got more than once
    steady,     \* steady[r]: rows in the table from the start of its walk on
    moved       \* moved[r]: "insert", "delete": what happened during its walk

pageVars == <<rows, total, size>>
walkVars == <<seen, twice, steady, moved>>
tableVars == <<table, future>>
vars == <<admissionVars, tableVars, endpoint, ask, pageVars, gone, walkVars>>

listingUnchanged == UNCHANGED <<tableVars, endpoint, ask, pageVars, gone, walkVars>>

TypeOK ==
    /\ AdmissionTypeOK
    /\ table \subseteq Row /\ future \subseteq Row
    /\ endpoint \in [Request -> Endpoint]
    /\ ask \in [Request -> [page : Int, limit : Int, walk : BOOLEAN]]
    /\ rows \in [Request -> Seq(Row)]
    /\ total \in [Request -> Nat] /\ size \in [Request -> Nat]
    /\ gone \in [Request -> BOOLEAN]
    /\ seen \in [Request -> SUBSET Row] /\ twice \in [Request -> SUBSET Row]
    /\ steady \in [Request -> SUBSET Row]
    /\ moved \in [Request -> SUBSET {"insert", "delete"}]

-----------------------------------------------------------------------------
(* parsePagination: what is missing or no number reads as 0.                  *)
PageOf(a) == IF a.page < 1 THEN 1 ELSE a.page
LimitOf(a) == IF a.limit \in 1..MaxLimit THEN a.limit ELSE DefaultLimit

(* int32(x), for any x in Go's int.                                           *)
Narrow(x) == ((x + Half) % (2 * Half)) - Half

\* Mutant: pages overlap in one row.
OffsetOfLastRow(a) == Narrow((PageOf(a) - 1) * LimitOf(a) - (IF PageOf(a) > 1 THEN 1 ELSE 0))

Offset(a) == Narrow((PageOf(a) - 1) * LimitOf(a))

\* Mutant: the COUNT filters, whether the SELECT does or not.
CountedMarked(r) == {x \in table : RowTenant[x] = user[r] /\ RowMarked[x]}

(* The rows the WHERE clause of the SELECT, and of the COUNT, lets through.   *)
Selected(r) == {x \in table : /\ endpoint[r].tenant => RowTenant[x] = user[r]
                              /\ endpoint[r].marked => RowMarked[x]}
Counted(r) == {x \in table : RowTenant[x] = user[r]}

(* ORDER BY one column: rows that tie come in any order, in each statement.   *)
Orders(S) == {s \in SetToSeqs(S) :
                \A i, j \in DOMAIN s : i < j => RowKey[s[i]] >= RowKey[s[j]]}

Window(s, offset, limit) == SubSeq(s, offset + 1, IF offset + limit < Len(s)
                                                  THEN offset + limit ELSE Len(s))

(* What connection c may read of S: with the outcome "error", nothing.        *)
Readable(r, c, S) ==
    IF ~endpoint[r].policy THEN S
    ELSE CASE PolicyOf(c) = "bypassed" -> S
           [] PolicyOf(c) = "own" -> {x \in S : RowTenant[x] = setting[c]}
           [] OTHER -> {}

PolicyFails(r, c) == endpoint[r].policy /\ PolicyOf(c) = "error"

Init ==
    /\ AdmissionInit
    /\ table \in SUBSET Row /\ future \in SUBSET (Row \ table)
    /\ endpoint \in [Request -> Endpoint]
    /\ ask \in [Request -> Ask]
    /\ rows = [r \in Request |-> <<>>] /\ total = [r \in Request |-> 0]
    /\ size = [r \in Request |-> 0] /\ gone = [r \in Request |-> FALSE]
    /\ seen = [r \in Request |-> {}] /\ twice = [r \in Request |-> {}]
    /\ steady = [r \in Request |-> table] /\ moved = [r \in Request |-> {}]

-----------------------------------------------------------------------------
(* The service: MetricQuery.Validate, then SetTenantContext, except where the *)
(* handler or the service goes straight to the rows of a workflow or to the   *)
(* rules. Each statement may fail, and the answer is then 500.                *)
SetTenantContext(r) ==
    /\ pc[r] = "handler"
    /\ \/ /\ endpoint[r].sets /\ (endpoint[r].validated => user[r] # NoTenant)
          /\ SetConfig(user[r])
          /\ pc' = [pc EXCEPT ![r] = "select"]
          /\ UNCHANGED code
       \/ /\ endpoint[r].sets
          /\ Answer(r, 500)
          /\ UNCHANGED setting
       \/ /\ ~endpoint[r].sets
          /\ pc' = [pc EXCEPT ![r] = "select"]
          /\ UNCHANGED <<setting, code>>
    /\ UNCHANGED <<once, jwks, life, verdicts, role, cred, user>>
    /\ listingUnchanged

Select(r) ==
    /\ pc[r] = "select"
    /\ UNCHANGED <<once, jwks, life, verdicts, setting, role, cred, user>>
    /\ \E c \in Conn :
        LET found == Readable(r, c, Selected(r))
            offset == IF endpoint[r].offset THEN Offset(ask[r]) ELSE 0
        IN  /\ ~PolicyFails(r, c) /\ offset >= 0
            /\ \E s \in Orders(found) :
                rows' = [rows EXCEPT ![r] = Window(s, offset, LimitOf(ask[r]))]
            /\ size' = [size EXCEPT ![r] = Cardinality(found)]
    /\ gone' = [gone EXCEPT ![r] = FALSE]
    /\ seen' = [seen EXCEPT ![r] = @ \union Range(rows'[r])]
    /\ twice' = [twice EXCEPT ![r] = @ \union (seen[r] \intersect Range(rows'[r]))]
    /\ IF endpoint[r].total = "length"
       THEN Answer(r, 200) /\ total' = [total EXCEPT ![r] = Len(rows'[r])]
       ELSE pc' = [pc EXCEPT ![r] = "count"] /\ UNCHANGED <<code, total>>
    /\ UNCHANGED <<tableVars, endpoint, ask, steady, moved>>

Count(r) ==
    /\ pc[r] = "count"
    /\ \E c \in Conn :
        /\ ~PolicyFails(r, c)
        /\ total' = [total EXCEPT ![r] = Cardinality(Readable(r, c, Counted(r)))]
    /\ Answer(r, 200)
    /\ UNCHANGED <<once, jwks, life, verdicts, setting, role, cred, user>>
    /\ UNCHANGED <<tableVars, endpoint, ask, rows, size, gone, walkVars>>

(* A statement fails: the connection is lost, the context of the request is   *)
(* over, the offset is negative, or the policy cannot read its setting.       *)
StatementFails(r) ==
    /\ pc[r] \in {"select", "count"}
    /\ IF pc[r] = "count" /\ endpoint[r].total = "count_or_0"
       THEN Answer(r, 200) /\ total' = [total EXCEPT ![r] = 0]
       ELSE Answer(r, 500) /\ UNCHANGED total
    /\ UNCHANGED <<once, jwks, life, verdicts, setting, role, cred, user>>
    /\ UNCHANGED <<tableVars, endpoint, ask, rows, size, gone, walkVars>>

-----------------------------------------------------------------------------
(* The client of a walk asks for the page after a full one.                   *)
FullPage(r) == code[r] = 200 /\ Len(rows[r]) = LimitOf(ask[r])

NextPage(r) ==
    /\ pc[r] = "done" /\ ask[r].walk /\ FullPage(r) /\ ask[r].page < MaxPage
    /\ ask' = [ask EXCEPT ![r].page = @ + 1]
    /\ pc' = [pc EXCEPT ![r] = "idle"]
    /\ code' = [code EXCEPT ![r] = 0]
    /\ user' = [user EXCEPT ![r] = NoUser]
    /\ UNCHANGED <<once, jwks, life, verdicts, setting, role, cred>>
    /\ UNCHANGED <<tableVars, endpoint, pageVars, gone, walkVars>>

WalkOver(r) == pc[r] = "done" /\ code[r] = 200 /\ ~FullPage(r)

(* Other requests insert and delete rows, metrics with a timestamp of their   *)
(* own choice among them: a row may enter the order anywhere.                 *)
Insert(x) ==
    /\ x \in future
    /\ table' = table \union {x} /\ future' = future \ {x}
    /\ moved' = [r \in Request |-> moved[r] \union {"insert"}]
    /\ UNCHANGED <<admissionVars, endpoint, ask, pageVars, gone, seen, twice, steady>>

Delete(x) ==
    /\ x \in table
    /\ table' = table \ {x}
    /\ gone' = [r \in Request |-> TRUE]
    /\ steady' = [r \in Request |-> steady[r] \ {x}]
    /\ moved' = [r \in Request |-> moved[r] \union {"delete"}]
    /\ UNCHANGED <<admissionVars, future, endpoint, ask, pageVars, seen, twice>>

Admit(r) == AdmissionStep(r) /\ listingUnchanged

Crash == Restart /\ listingUnchanged

ListStep(r) == SetTenantContext(r) \/ Select(r) \/ Count(r) \/ StatementFails(r)

Next ==
    \/ \E r \in Request : Admit(r) \/ ListStep(r) \/ NextPage(r)
    \/ \E x \in Row : Insert(x) \/ Delete(x)
    \/ Crash

Spec == Init /\ [][Next]_vars

(* The server works on a request it has, the key server answers or times out  *)
(* and so does the database; clients need not come and tables need not change.*)
Fairness == \A r \in Request : WF_vars((Admit(r) /\ InFlight(r)) \/ ListStep(r))

FairSpec == Spec /\ Fairness

-----------------------------------------------------------------------------
Served(r) == pc[r] = "done" /\ code[r] = 200

(* The policies of migration 002 bind the statements of r.                    *)
Bound(r) == endpoint[r].policy /\ role = "orchestrix_app"

Tied(S) == \E x, y \in S : x # y /\ RowKey[x] = RowKey[y]

(* A walk that came to its last page has got every row that was there all the *)
(* time, whatever was inserted meanwhile. It takes a row deleted meanwhile,   *)
(* or rows that tie in the ORDER BY (every point of a batch has one           *)
(* timestamp), to miss one; and GetMetricsByLabels has no OFFSET.             *)
NothingMissed ==
    \A r \in Request :
        /\ ask[r].walk /\ WalkOver(r) /\ ~Bound(r) /\ endpoint[r].offset
        /\ "delete" \notin moved[r] /\ ~Tied(table \union seen[r])
        => Selected(r) \intersect steady[r] \subseteq seen[r]

(* The pages of a table that nobody writes to do not overlap, with the same   *)
(* two exceptions.                                                            *)
NoRowTwice ==
    \A r \in Request :
        /\ ask[r].walk /\ endpoint[r].offset
        /\ moved[r] = {} /\ ~Tied(table)
        => twice[r] = {}

(* A walk gives every row, and gives it once (workflow.go:43, metrics.sql:16).*)
WalksAreWhole == NothingMissed /\ NoRowTwice

(* Rows are answered only to a page that has them: a page past the end of the *)
(* rows is empty or an error, as far as the offset fits the int32 it is       *)
(* narrowed to. From there on it may be any page again.                       *)
FarPagesAreEmpty ==
    \A r \in Request :
        LET offset == (PageOf(ask[r]) - 1) * LimitOf(ask[r])
        IN  /\ Served(r) /\ endpoint[r].offset
            /\ rows[r] # <<>> /\ offset < Half
            => offset < size[r]

(* The total of a page is no less than the rows up to the end of that page,   *)
(* unless a row was deleted between the SELECT and the COUNT: the COUNT comes *)
(* second, and a filter it ignores makes it only larger.                      *)
TotalCoversThePage ==
    \A r \in Request :
        /\ Served(r) /\ endpoint[r].total = "count" /\ endpoint[r].offset
        /\ rows[r] # <<>> /\ ~gone[r]
        => total[r] >= Offset(ask[r]) + Len(rows[r])

(* Neither the page nor the total claims rows that are not there.             *)
PagesFitTheTable == FarPagesAreEmpty /\ TotalCoversThePage

(* A page that its statement or a policy narrows to one tenant has rows of    *)
(* the caller's tenant only: a setting that another request, of another       *)
(* tenant, left on the connection lets no row of that tenant through. Nothing *)
(* narrows the executions of a workflow for the superuser (executions.sql:15, *)
(* by workflow_id only), who lists them whosesoever they are.                 *)
TenantsAreApart ==
    \A r \in Request :
        /\ pc[r] = "count" \/ Served(r)
        /\ endpoint[r].tenant \/ Bound(r)
        => \A x \in Range(rows[r]) : RowTenant[x] = user[r]

(* What the middleware says of its statement: "This sets the session variable *)
(* that RLS policies use" (auth/tenant.go:37). A request that the policies    *)
(* bind and that is answered gets, on its first page, a row of its tenant if  *)
(* there was one all the time.                                                *)
PoliciesUseTheTenant ==
    \A r \in Request :
        /\ Served(r) /\ Bound(r) /\ PageOf(ask[r]) = 1
        /\ Selected(r) \intersect steady[r] \intersect {x \in Row : RowTenant[x] = user[r]} # {}
        => rows[r] # <<>>

(* Whoever waits for the keys is answered, or lost with the process: the      *)
(* fetch a request waits for in the Once is over in the end.                  *)
EveryRequestEnds == \A r \in Request : pc[r] = "keys" ~> pc[r] = "done"
=============================================================================
