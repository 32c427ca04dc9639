--------------------------- MODULE ApiContractProofs ---------------------------
(* Theorems about ApiContract, for any calls and requests, any values that      *)
(* handlers answer with, any stored rows and any number of attempts.            *)
EXTENDS ApiContract, SequenceTheorems, TLAPS

\* What a handler may still have to do, and which of it awaits what.
AwaitsParams == {<<"Security", "DecodeParams", "Internal", "EncodeResponse">>,
                 <<"Security", "DecodeParams", "DecodeRequest", "Internal", "EncodeResponse">>,
                 <<"DecodeParams", "Internal", "EncodeResponse">>,
                 <<"DecodeParams", "DecodeRequest", "Internal", "EncodeResponse">>}
AwaitsBody == {<<"Security", "DecodeRequest", "Internal", "EncodeResponse">>,
               <<"Security", "DecodeParams", "DecodeRequest", "Internal", "EncodeResponse">>,
               <<"DecodeParams", "DecodeRequest", "Internal", "EncodeResponse">>,
               <<"DecodeRequest", "Internal", "EncodeResponse">>}
Calling == <<"Internal", "EncodeResponse">>
Answering == <<"EncodeResponse">>
Rest == AwaitsParams \union AwaitsBody \union {Calling, Answering}

Bare == {"CreateAlert", "CreateWorkflow", "HealthCheck", "LivenessProbe", "ReadinessProbe"}
Bodied == {"CreateAlert", "CreateWorkflow", "ExecuteWorkflow", "UpdateWorkflow"}

Routed == ServeHTTP(sent.method, sent.path)
ParamsAccepted(op) == ParamsDecode(op, Routed.args, sent.query)
BodyAccepted(op) == op \in Bodied => RequestError(op, sent.body) = 0

MediaType == {"", "json", "other"}

\* The request is the one the method of the client builds.
Built ==
    \E auth \in {"none", "bearer"} :
        sent = WireRequest(Send[client.op].method, BuildURL(client.op, client.args), auth,
                           client.query, EncodeRequest(client.op, client.req))

ClientInv ==
    /\ client = NoCall => sent \in RawRequest /\ stage \notin {"BuildURL", "Security"}
    /\ client # NoCall =>
          /\ client \in Call
          /\ stage # "BuildURL" => Built
    /\ stage \in {"BuildURL", "Security"} => attempts = 0
    /\ stage = "wait" => attempts > 0
    /\ sent.body.ct \in MediaType

\* How the client comes to its result.
ResultInv ==
    /\ result = NoResult <=> stage # "done"
    /\ \/ result = NoResult
       \/ result = Failure("Security:BearerAuth") /\ attempts = 0
       \/ result = Failure("SendRequest") /\ attempts > 0 /\ conn[attempts] = "broken"
       \/ result = Outcome("raw") /\ client = NoCall
       \/ /\ client # NoCall /\ attempts > 0 /\ wire[attempts] # <<>>
          /\ result = ResultOf(client.op, wire[attempts][1])

Untouched(a) ==
    /\ todo[a] = <<>> /\ target[a] = "none" /\ seen[a] = <<>> /\ response[a] = Outcome("none")
    /\ status[a] = 0 /\ failed[a] = {} /\ wire[a] = <<>> /\ conn[a] = "unused"

\* Stages are left to an attempt.
Pending(a) ==
    /\ status[a] = 0 /\ failed[a] = {} /\ wire[a] = <<>>
    /\ \/ todo[a] = <<"Route">> /\ target[a] = "none" /\ seen[a] = <<>>
       \/ /\ target[a] = Routed.op /\ target[a] \in Operation
          /\ todo[a] \in Rest
          /\ todo[a] \notin AwaitsParams => ParamsAccepted(target[a])
          /\ IF todo[a] \in AwaitsBody THEN target[a] \in Bodied ELSE BodyAccepted(target[a])
          /\ Head(todo[a]) = "Security" => 401 \in DOMAIN DecodeResponse[target[a]]
          /\ seen[a] # <<>> <=> todo[a] = Answering
          /\ seen[a] # <<>> => response[a].kind = "typed" \/ response[a] = Nil

AttemptTypes(a) ==
    /\ status[a] \in {0} \union 200..599
    /\ failed[a] \subseteq {"Security", "DecodeParams", "DecodeRequest", "Internal", "EncodeResponse"}
    /\ conn[a] \in {"unused", "open", "broken"}
    /\ seen[a] # <<>> => seen[a][1].args = DecodeParams[target[a]].path

\* What a handler was called with, and what it may have returned.
HandledInv(a) ==
    /\ seen[a] = <<>> <=> response[a] = Outcome("none")
    /\ seen[a] # <<>> =>
          /\ target[a] = Routed.op /\ target[a] \in Operation
          /\ ParamsAccepted(target[a]) /\ BodyAccepted(target[a])
          /\ seen[a] = <<[args |-> Routed.args,
                          query |-> QuerySeen(target[a], sent.query),
                          req |-> RequestSeen(target[a], sent.body)]>>
    /\ response[a].kind = "typed" =>
          /\ response[a] = Typed(response[a].type, response[a].value)
          /\ response[a].type \in DOMAIN EncodeResponse[target[a]]
          /\ response[a].value \in AnyValue(Aliased(response[a].type))
          /\ impl = "api.Server" =>
                /\ \/ Valid(Aliased(response[a].type), response[a].value)
                   \/ target[a] = "GetWorkflow" /\ row # <<>> /\ row[1].bad # {}
                /\ response[a].type = "NoContent" => row = <<>>

\* The answers an attempt can have been given.
Unrouted(a, w) ==
    /\ target[a] = Routed.op /\ target[a] \in {"NotFound", "NotAllowed"}
    /\ w.status \in {204, 404, 405}
    /\ failed[a] = {}

Reason(a, s) ==
    \/ s = 401 /\ 401 \in DOMAIN DecodeResponse[target[a]]
    \/ s = 400 /\ ~ParamsAccepted(target[a])
    \/ s \in {400, 415} /\ ~BodyAccepted(target[a])
    \/ s \in {500, 501}

Refused(a, w) ==
    /\ target[a] = Routed.op /\ target[a] \in Operation
    /\ w.status = status[a] /\ w.body = ErrorMessage
    /\ Reason(a, w.status)
    /\ response[a].kind # "typed"

Answered(a, w) ==
    /\ response[a].kind = "typed"
    /\ w.status = AnswerOf(a).status /\ w.ct = AnswerOf(a).ct /\ w.body = AnswerOf(a).body
    /\ \/ status[a] = w.status /\ failed[a] = {}
       \/ /\ status[a] = 500 /\ ~w.whole /\ response[a].type # "NoContent"

IsAnswer(w) == w = [status |-> w.status, ct |-> w.ct, body |-> w.body, whole |-> w.whole]

WireInv(a) ==
    wire[a] # <<>> =>
        \E w \in {wire[a][1]} :
            /\ wire[a] = <<w>> /\ IsAnswer(w)
            /\ w.whole \in BOOLEAN
            /\ w.whole \/ conn[a] = "broken"
            /\ Unrouted(a, w) \/ Refused(a, w) \/ Answered(a, w)

AttemptInv(a) ==
    /\ AttemptTypes(a)
    /\ a > attempts => Untouched(a)
    /\ todo[a] # <<>> => Pending(a)
    /\ HandledInv(a)
    /\ WireInv(a)

\* TypeOK, attempt by attempt, with the domains of the tables.
Tables ==
    /\ target \in [Attempt -> Operations]
    /\ DOMAIN todo = Attempt /\ DOMAIN seen = Attempt /\ DOMAIN response = Attempt
    /\ DOMAIN status = Attempt /\ DOMAIN failed = Attempt
    /\ DOMAIN wire = Attempt /\ DOMAIN conn = Attempt

CallTypes ==
    /\ impl \in {"api.Server", "other"} /\ row \in Stored
    /\ stage \in {"BuildURL", "Security", "SendRequest", "wait", "done"}
    /\ attempts \in 0..MaxAttempts
    /\ result.kind \in {"none", "raw", "error", "typed"}

Inv == CallTypes /\ Tables /\ ClientInv /\ ResultInv /\ \A a \in Attempt : AttemptInv(a)

-------------------------------------------------------------------------------
(* The tables, the URLs and the two routers.                                    *)
\* The operations, by name.
LEMMA OperationNames ==
    Operation = {"AcknowledgeAlert", "CancelExecution", "CreateAlert", "CreateWorkflow",
                 "DeleteWorkflow", "ExecuteWorkflow", "GetAlert", "GetExecution", "GetWorkflow",
                 "HealthCheck", "ListAlerts", "ListAuditLogs", "ListAuditLogsByResource",
                 "ListAuditLogsByUser", "ListExecutions", "ListWorkflowExecutions",
                 "ListWorkflows", "LivenessProbe", "ReadinessProbe", "ResolveAlert",
                 "UpdateWorkflow"}
BY DEF Operation, Handle

\* The stages of a handler are those its tables have something to do for.
LEMMA StagesMatch ==
    ASSUME NEW op \in Operation
    PROVE  /\ Handle[op] \in Rest /\ Handle[op] # Answering
           /\ Handle[op] \notin AwaitsParams => op \in Bare /\ DecodeParams[op] = NoParams
           /\ Handle[op] \in AwaitsBody <=> op \in Bodied
           /\ Send[op].query = DecodeParams[op].query
           /\ Send[op].body = DecodeRequest[op].message
           /\ op \notin Bodied => Send[op].body = "Nothing"
<1> USE DEF Handle, Rest, AwaitsParams, AwaitsBody, Calling, Answering, Bare, Bodied, DecodeParams,
            DecodeRequest, Send, Params, NoParams, NoBody, Request
<1>1. CASE op = "AcknowledgeAlert"
  BY <1>1 DEF HandleAcknowledgeAlert, DecodeAcknowledgeAlertParams, SendAcknowledgeAlert
<1>2. CASE op = "CancelExecution"
  BY <1>2 DEF HandleCancelExecution, DecodeCancelExecutionParams, SendCancelExecution
<1>3. CASE op = "CreateAlert"
  BY <1>3 DEF HandleCreateAlert, DecodeCreateAlertRequest, SendCreateAlert
<1>4. CASE op = "CreateWorkflow"
  BY <1>4 DEF HandleCreateWorkflow, DecodeCreateWorkflowRequest, SendCreateWorkflow
<1>5. CASE op = "DeleteWorkflow"
  BY <1>5 DEF HandleDeleteWorkflow, DecodeDeleteWorkflowParams, SendDeleteWorkflow
<1>6. CASE op = "ExecuteWorkflow"
  BY <1>6 DEF HandleExecuteWorkflow, DecodeExecuteWorkflowParams, DecodeExecuteWorkflowRequest, SendExecuteWorkflow
<1>7. CASE op = "GetAlert"
  BY <1>7 DEF HandleGetAlert, DecodeGetAlertParams, SendGetAlert
<1>8. CASE op = "GetExecution"
  BY <1>8 DEF HandleGetExecution, DecodeGetExecutionParams, SendGetExecution
<1>9. CASE op = "GetWorkflow"
  BY <1>9 DEF HandleGetWorkflow, DecodeGetWorkflowParams, SendGetWorkflow
<1>10. CASE op = "HealthCheck"
  BY <1>10 DEF HandleHealthCheck, SendHealthCheck
<1>11. CASE op = "ListAlerts"
  BY <1>11 DEF HandleListAlerts, DecodeListAlertsParams, SendListAlerts
<1>12. CASE op = "ListAuditLogs"
  BY <1>12 DEF HandleListAuditLogs, DecodeListAuditLogsParams, SendListAuditLogs
<1>13. CASE op = "ListAuditLogsByResource"
  BY <1>13 DEF HandleListAuditLogsByResource, DecodeListAuditLogsByResourceParams, SendListAuditLogsByResource
<1>14. CASE op = "ListAuditLogsByUser"
  BY <1>14 DEF HandleListAuditLogsByUser, DecodeListAuditLogsByUserParams, SendListAuditLogsByUser
<1>15. CASE op = "ListExecutions"
  BY <1>15 DEF HandleListExecutions, DecodeListExecutionsParams, SendListExecutions
<1>16. CASE op = "ListWorkflowExecutions"
  BY <1>16 DEF HandleListWorkflowExecutions, DecodeListWorkflowExecutionsParams, SendListWorkflowExecutions
<1>17. CASE op = "ListWorkflows"
  BY <1>17 DEF HandleListWorkflows, DecodeListWorkflowsParams, SendListWorkflows
<1>18. CASE op = "LivenessProbe"
  BY <1>18 DEF HandleLivenessProbe, SendLivenessProbe
<1>19. CASE op = "ReadinessProbe"
  BY <1>19 DEF HandleReadinessProbe, SendReadinessProbe
<1>20. CASE op = "ResolveAlert"
  BY <1>20 DEF HandleResolveAlert, DecodeResolveAlertParams, SendResolveAlert
<1>21. CASE op = "UpdateWorkflow"
  BY <1>21 DEF HandleUpdateWorkflow, DecodeUpdateWorkflowParams, DecodeUpdateWorkflowRequest, SendUpdateWorkflow
<1> QED
  BY OperationNames, <1>1, <1>2, <1>3, <1>4, <1>5, <1>6, <1>7, <1>8, <1>9, <1>10, <1>11, <1>12, <1>13, <1>14, <1>15, <1>16, <1>17, <1>18, <1>19, <1>20, <1>21

\* A handler that looks at the token has an answer for a token that is refused.
LEMMA RefusalsAreDeclared ==
    ASSUME NEW op \in Operation, Head(Handle[op]) = "Security"
    PROVE  401 \in DOMAIN DecodeResponse[op]
<1> USE DEF Handle, DecodeResponse, Switch
<1>1. CASE op = "AcknowledgeAlert"
  BY <1>1 DEF HandleAcknowledgeAlert, DecodeAcknowledgeAlertResponse
<1>2. CASE op = "CancelExecution"
  BY <1>2 DEF HandleCancelExecution, DecodeCancelExecutionResponse
<1>3. CASE op = "CreateAlert"
  BY <1>3 DEF HandleCreateAlert, DecodeCreateAlertResponse
<1>4. CASE op = "CreateWorkflow"
  BY <1>4 DEF HandleCreateWorkflow, DecodeCreateWorkflowResponse
<1>5. CASE op = "DeleteWorkflow"
  BY <1>5 DEF HandleDeleteWorkflow, DecodeDeleteWorkflowResponse
<1>6. CASE op = "ExecuteWorkflow"
  BY <1>6 DEF HandleExecuteWorkflow, DecodeExecuteWorkflowResponse
<1>7. CASE op = "GetAlert"
  BY <1>7 DEF HandleGetAlert, DecodeGetAlertResponse
<1>8. CASE op = "GetExecution"
  BY <1>8 DEF HandleGetExecution, DecodeGetExecutionResponse
<1>9. CASE op = "GetWorkflow"
  BY <1>9 DEF HandleGetWorkflow, DecodeGetWorkflowResponse
<1>10. CASE op = "HealthCheck"
  BY <1>10 DEF HandleHealthCheck, DecodeHealthCheckResponse
<1>11. CASE op = "ListAlerts"
  BY <1>11 DEF HandleListAlerts, DecodeListAlertsResponse
<1>12. CASE op = "ListAuditLogs"
  BY <1>12 DEF HandleListAuditLogs, DecodeListAuditLogsResponse
<1>13. CASE op = "ListAuditLogsByResource"
  BY <1>13 DEF HandleListAuditLogsByResource, DecodeListAuditLogsByResourceResponse
<1>14. CASE op = "ListAuditLogsByUser"
  BY <1>14 DEF HandleListAuditLogsByUser, DecodeListAuditLogsByUserResponse
<1>15. CASE op = "ListExecutions"
  BY <1>15 DEF HandleListExecutions, DecodeListExecutionsResponse
<1>16. CASE op = "ListWorkflowExecutions"
  BY <1>16 DEF HandleListWorkflowExecutions, DecodeListWorkflowExecutionsResponse
<1>17. CASE op = "ListWorkflows"
  BY <1>17 DEF HandleListWorkflows, DecodeListWorkflowsResponse
<1>18. CASE op = "LivenessProbe"
  BY <1>18 DEF HandleLivenessProbe, DecodeLivenessProbeResponse
<1>19. CASE op = "ReadinessProbe"
  BY <1>19 DEF HandleReadinessProbe, DecodeReadinessProbeResponse
<1>20. CASE op = "ResolveAlert"
  BY <1>20 DEF HandleResolveAlert, DecodeResolveAlertResponse
<1>21. CASE op = "UpdateWorkflow"
  BY <1>21 DEF HandleUpdateWorkflow, DecodeUpdateWorkflowResponse
<1> QED
  BY OperationNames, <1>1, <1>2, <1>3, <1>4, <1>5, <1>6, <1>7, <1>8, <1>9, <1>10, <1>11, <1>12, <1>13, <1>14, <1>15, <1>16, <1>17, <1>18, <1>19, <1>20, <1>21

ErrorTypes == {"Unauthorized", "NotFound", "UnprocessableEntity", "BadRequest", "Conflict",
               "InternalServerError"}
DataTypes == {"AlertResponse", "ExecutionResponse", "WorkflowResponse", "PaginatedAlerts",
              "PaginatedAuditLogs", "PaginatedExecutions", "PaginatedWorkflows"}

\* The client decodes the status of each answer as the type it was encoded from.
LEMMA AnswersMatch ==
    ASSUME NEW op \in Operation
    PROVE  \A t \in DOMAIN EncodeResponse[op] :
              /\ EncodeResponse[op][t] \in DOMAIN DecodeResponse[op]
              /\ DecodeResponse[op][EncodeResponse[op][t]] = t
              /\ EncodeResponse[op][t] \in 200 .. 503
<1> USE DEF EncodeResponse, DecodeResponse, Switch, ErrorType
<1>1. CASE op = "AcknowledgeAlert"
  BY <1>1 DEF EncodeAcknowledgeAlertResponse, DecodeAcknowledgeAlertResponse
<1>2. CASE op = "CancelExecution"
  BY <1>2 DEF EncodeCancelExecutionResponse, DecodeCancelExecutionResponse
<1>3. CASE op = "CreateAlert"
  BY <1>3 DEF EncodeCreateAlertResponse, DecodeCreateAlertResponse
<1>4. CASE op = "CreateWorkflow"
  BY <1>4 DEF EncodeCreateWorkflowResponse, DecodeCreateWorkflowResponse
<1>5. CASE op = "DeleteWorkflow"
  BY <1>5 DEF EncodeDeleteWorkflowResponse, DecodeDeleteWorkflowResponse
<1>6. CASE op = "ExecuteWorkflow"
  BY <1>6 DEF EncodeExecuteWorkflowResponse, DecodeExecuteWorkflowResponse
<1>7. CASE op = "GetAlert"
  BY <1>7 DEF EncodeGetAlertResponse, DecodeGetAlertResponse
<1>8. CASE op = "GetExecution"
  BY <1>8 DEF EncodeGetExecutionResponse, DecodeGetExecutionResponse
<1>9. CASE op = "GetWorkflow"
  BY <1>9 DEF EncodeGetWorkflowResponse, DecodeGetWorkflowResponse
<1>10. CASE op = "HealthCheck"
  BY <1>10 DEF EncodeHealthCheckResponse, DecodeHealthCheckResponse
<1>11. CASE op = "ListAlerts"
  BY <1>11 DEF EncodeListAlertsResponse, DecodeListAlertsResponse
<1>12. CASE op = "ListAuditLogs"
  BY <1>12 DEF EncodeListAuditLogsResponse, DecodeListAuditLogsResponse
<1>13. CASE op = "ListAuditLogsByResource"
  BY <1>13 DEF EncodeListAuditLogsByResourceResponse, DecodeListAuditLogsByResourceResponse
<1>14. CASE op = "ListAuditLogsByUser"
  BY <1>14 DEF EncodeListAuditLogsByUserResponse, DecodeListAuditLogsByUserResponse
<1>15. CASE op = "ListExecutions"
  BY <1>15 DEF EncodeListExecutionsResponse, DecodeListExecutionsResponse
<1>16. CASE op = "ListWorkflowExecutions"
  BY <1>16 DEF EncodeListWorkflowExecutionsResponse, DecodeListWorkflowExecutionsResponse
<1>17. CASE op = "ListWorkflows"
  BY <1>17 DEF EncodeListWorkflowsResponse, DecodeListWorkflowsResponse
<1>18. CASE op = "LivenessProbe"
  BY <1>18 DEF EncodeLivenessProbeResponse, DecodeLivenessProbeResponse
<1>19. CASE op = "ReadinessProbe"
  BY <1>19 DEF EncodeReadinessProbeResponse, DecodeReadinessProbeResponse
<1>20. CASE op = "ResolveAlert"
  BY <1>20 DEF EncodeResolveAlertResponse, DecodeResolveAlertResponse
<1>21. CASE op = "UpdateWorkflow"
  BY <1>21 DEF EncodeUpdateWorkflowResponse, DecodeUpdateWorkflowResponse
<1> QED
  BY OperationNames, <1>1, <1>2, <1>3, <1>4, <1>5, <1>6, <1>7, <1>8, <1>9, <1>10, <1>11, <1>12, <1>13, <1>14, <1>15, <1>16, <1>17, <1>18, <1>19, <1>20, <1>21

\* The types a status is decoded as, and the status without a body.
LEMMA DecodedTypes ==
    ASSUME NEW op \in Operation
    PROVE  \A s \in DOMAIN DecodeResponse[op] :
              /\ DecodeResponse[op][s] \in {"OK", "ServiceUnavailable", "NoContent"}
                                             \union ErrorTypes \union DataTypes
              /\ DecodeResponse[op][s] = "NoContent" => s = 204
<1> USE DEF DecodeResponse, Switch, ErrorType, ErrorTypes, DataTypes
<1>1. CASE op = "AcknowledgeAlert"
  BY <1>1 DEF DecodeAcknowledgeAlertResponse
<1>2. CASE op = "CancelExecution"
  BY <1>2 DEF DecodeCancelExecutionResponse
<1>3. CASE op = "CreateAlert"
  BY <1>3 DEF DecodeCreateAlertResponse
<1>4. CASE op = "CreateWorkflow"
  BY <1>4 DEF DecodeCreateWorkflowResponse
<1>5. CASE op = "DeleteWorkflow"
  BY <1>5 DEF DecodeDeleteWorkflowResponse
<1>6. CASE op = "ExecuteWorkflow"
  BY <1>6 DEF DecodeExecuteWorkflowResponse
<1>7. CASE op = "GetAlert"
  BY <1>7 DEF DecodeGetAlertResponse
<1>8. CASE op = "GetExecution"
  BY <1>8 DEF DecodeGetExecutionResponse
<1>9. CASE op = "GetWorkflow"
  BY <1>9 DEF DecodeGetWorkflowResponse
<1>10. CASE op = "HealthCheck"
  BY <1>10 DEF DecodeHealthCheckResponse
<1>11. CASE op = "ListAlerts"
  BY <1>11 DEF DecodeListAlertsResponse
<1>12. CASE op = "ListAuditLogs"
  BY <1>12 DEF DecodeListAuditLogsResponse
<1>13. CASE op = "ListAuditLogsByResource"
  BY <1>13 DEF DecodeListAuditLogsByResourceResponse
<1>14. CASE op = "ListAuditLogsByUser"
  BY <1>14 DEF DecodeListAuditLogsByUserResponse
<1>15. CASE op = "ListExecutions"
  BY <1>15 DEF DecodeListExecutionsResponse
<1>16. CASE op = "ListWorkflowExecutions"
  BY <1>16 DEF DecodeListWorkflowExecutionsResponse
<1>17. CASE op = "ListWorkflows"
  BY <1>17 DEF DecodeListWorkflowsResponse
<1>18. CASE op = "LivenessProbe"
  BY <1>18 DEF DecodeLivenessProbeResponse
<1>19. CASE op = "ReadinessProbe"
  BY <1>19 DEF DecodeReadinessProbeResponse
<1>20. CASE op = "ResolveAlert"
  BY <1>20 DEF DecodeResolveAlertResponse
<1>21. CASE op = "UpdateWorkflow"
  BY <1>21 DEF DecodeUpdateWorkflowResponse
<1> QED
  BY OperationNames, <1>1, <1>2, <1>3, <1>4, <1>5, <1>6, <1>7, <1>8, <1>9, <1>10, <1>11, <1>12, <1>13, <1>14, <1>15, <1>16, <1>17, <1>18, <1>19, <1>20, <1>21

\* BuildURL puts the texts of the parameters where their segments are, nothing else.
Text(args, segment) == IF segment \in Segment THEN args[segment] ELSE segment

\* The segments of the path that each method of the client builds.
LEMMA URLs ==
    ASSUME NEW op, NEW args
    PROVE  /\ \A x : Send[op].path = <<x>> => BuildURL(op, args) = <<Text(args, x)>>
           /\ \A x, y : Send[op].path = <<x, y>> =>
                 BuildURL(op, args) = <<Text(args, x), Text(args, y)>>
           /\ \A x, y, z : Send[op].path = <<x, y, z>> =>
                 BuildURL(op, args) = <<Text(args, x), Text(args, y), Text(args, z)>>
           /\ \A x, y, z, w : Send[op].path = <<x, y, z, w>> =>
                 BuildURL(op, args) = <<Text(args, x), Text(args, y), Text(args, z), Text(args, w)>>
<1>1. ASSUME NEW path, Send[op].path = path
      PROVE  BuildURL(op, args) = [i \in DOMAIN path |-> Text(args, path[i])]
  BY <1>1 DEF BuildURL, Text
<1>2. ASSUME NEW x PROVE [i \in DOMAIN <<x>> |-> Text(args, <<x>>[i])] = <<Text(args, x)>>
  OBVIOUS
<1>3. ASSUME NEW x, NEW y
      PROVE  [i \in DOMAIN <<x, y>> |-> Text(args, <<x, y>>[i])] = <<Text(args, x), Text(args, y)>>
  OBVIOUS
<1>4. ASSUME NEW x, NEW y, NEW z
      PROVE  [i \in DOMAIN <<x, y, z>> |-> Text(args, <<x, y, z>>[i])] =
                <<Text(args, x), Text(args, y), Text(args, z)>>
  OBVIOUS
<1>5. ASSUME NEW x, NEW y, NEW z, NEW w
      PROVE  [i \in DOMAIN <<x, y, z, w>> |-> Text(args, <<x, y, z, w>>[i])] =
                <<Text(args, x), Text(args, y), Text(args, z), Text(args, w)>>
  OBVIOUS
<1> QED
  BY <1>1, <1>2, <1>3, <1>4, <1>5

\* A word of a path stays itself; only a parameter is replaced by its argument.
LEMMA WordsStay ==
    \A args : \A word \in {"alerts", "audit-logs", "executions", "health", "workflows", "acknowledge",
                           "resolve", "resource", "user", "cancel", "live", "ready", "execute"} :
        Text(args, word) = word
BY DEF Text, Segment

\* A request of the client is routed to the operation it is for.
LEMMA CallsAreRouted ==
    ASSUME NEW op \in Operation, NEW args
    PROVE  ServeHTTP(Send[op].method, BuildURL(op, args)).op = op
<1> DEFINE p == BuildURL(op, args)
<1>0. ASSUME NEW routes, NEW route, RoutesOf(p) = routes, routes # NoRoute, 
             Send[op].method \in DOMAIN routes, routes[Send[op].method] = To(op, route)
      PROVE  ServeHTTP(Send[op].method, BuildURL(op, args)).op = op
  BY <1>0 DEF ServeHTTP, To
<1> HIDE DEF p
<1>1. CASE op = "AcknowledgeAlert"
  <2>1. Send[op].path = <<"alerts", "id", "acknowledge">> /\ Send[op].method = "POST"
    BY <1>1 DEF Send, SendAcknowledgeAlert, Request
  <2>2. Len(p) = 3 /\ p # <<>> /\ p[1] = "alerts" /\ p[3] = "acknowledge"
    <3>1. p = <<Text(args, "alerts"), Text(args, "id"), Text(args, "acknowledge")>>
      BY <2>1, URLs DEF p
    <3> QED
      BY <3>1, WordsStay
  <2>3. RoutesOf(p) = AlertRoutes(p)
    BY <2>2 DEF RoutesOf
  <2>4. AlertRoutes(p) # NoRoute /\ "POST" \in DOMAIN AlertRoutes(p) /\ \E route : AlertRoutes(p)["POST"] = To("AcknowledgeAlert", route)
    BY <2>2 DEF AlertRoutes, NoRoute
  <2> QED
    BY <1>0, <1>1, <2>1, <2>3, <2>4
<1>2. CASE op = "CancelExecution"
  <2>1. Send[op].path = <<"executions", "id", "cancel">> /\ Send[op].method = "POST"
    BY <1>2 DEF Send, SendCancelExecution, Request
  <2>2. Len(p) = 3 /\ p # <<>> /\ p[1] = "executions" /\ p[3] = "cancel"
    <3>1. p = <<Text(args, "executions"), Text(args, "id"), Text(args, "cancel")>>
      BY <2>1, URLs DEF p
    <3> QED
      BY <3>1, WordsStay
  <2>3. RoutesOf(p) = ExecutionRoutes(p)
    BY <2>2 DEF RoutesOf
  <2>4. ExecutionRoutes(p) # NoRoute /\ "POST" \in DOMAIN ExecutionRoutes(p) /\ \E route : ExecutionRoutes(p)["POST"] = To("CancelExecution", route)
    BY <2>2 DEF ExecutionRoutes, NoRoute
  <2> QED
    BY <1>0, <1>2, <2>1, <2>3, <2>4
<1>3. CASE op = "CreateAlert"
  <2>1. Send[op].path = <<"alerts">> /\ Send[op].method = "POST"
    BY <1>3 DEF Send, SendCreateAlert, Request
  <2>2. Len(p) = 1 /\ p # <<>> /\ p[1] = "alerts"
    <3>1. p = <<Text(args, "alerts")>>
      BY <2>1, URLs DEF p
    <3> QED
      BY <3>1, WordsStay
  <2>3. RoutesOf(p) = AlertRoutes(p)
    BY <2>2 DEF RoutesOf
  <2>4. AlertRoutes(p) # NoRoute /\ "POST" \in DOMAIN AlertRoutes(p) /\ \E route : AlertRoutes(p)["POST"] = To("CreateAlert", route)
    BY <2>2 DEF AlertRoutes, NoRoute
  <2> QED
    BY <1>0, <1>3, <2>1, <2>3, <2>4
<1>4. CASE op = "CreateWorkflow"
  <2>1. Send[op].path = <<"workflows">> /\ Send[op].method = "POST"
    BY <1>4 DEF Send, SendCreateWorkflow, Request
  <2>2. Len(p) = 1 /\ p # <<>> /\ p[1] = "workflows"
    <3>1. p = <<Text(args, "workflows")>>
      BY <2>1, URLs DEF p
    <3> QED
      BY <3>1, WordsStay
  <2>3. RoutesOf(p) = WorkflowRoutes(p)
    BY <2>2 DEF RoutesOf
  <2>4. WorkflowRoutes(p) # NoRoute /\ "POST" \in DOMAIN WorkflowRoutes(p) /\ \E route : WorkflowRoutes(p)["POST"] = To("CreateWorkflow", route)
    BY <2>2 DEF WorkflowRoutes, NoRoute
  <2> QED
    BY <1>0, <1>4, <2>1, <2>3, <2>4
<1>5. CASE op = "DeleteWorkflow"
  <2>1. Send[op].path = <<"workflows", "id">> /\ Send[op].method = "DELETE"
    BY <1>5 DEF Send, SendDeleteWorkflow, Request
  <2>2. Len(p) = 2 /\ p # <<>> /\ p[1] = "workflows"
    <3>1. p = <<Text(args, "workflows"), Text(args, "id")>>
      BY <2>1, URLs DEF p
    <3> QED
      BY <3>1, WordsStay
  <2>3. RoutesOf(p) = WorkflowRoutes(p)
    BY <2>2 DEF RoutesOf
  <2>4. WorkflowRoutes(p) # NoRoute /\ "DELETE" \in DOMAIN WorkflowRoutes(p) /\ \E route : WorkflowRoutes(p)["DELETE"] = To("DeleteWorkflow", route)
    BY <2>2 DEF WorkflowRoutes, NoRoute
  <2> QED
    BY <1>0, <1>5, <2>1, <2>3, <2>4
<1>6. CASE op = "ExecuteWorkflow"
  <2>1. Send[op].path = <<"workflows", "id", "execute">> /\ Send[op].method = "POST"
    BY <1>6 DEF Send, SendExecuteWorkflow, Request
  <2>2. Len(p) = 3 /\ p # <<>> /\ p[1] = "workflows" /\ p[3] = "execute"
    <3>1. p = <<Text(args, "workflows"), Text(args, "id"), Text(args, "execute")>>
      BY <2>1, URLs DEF p
    <3> QED
      BY <3>1, WordsStay
  <2>3. RoutesOf(p) = WorkflowRoutes(p)
    BY <2>2 DEF RoutesOf
  <2>4. WorkflowRoutes(p) # NoRoute /\ "POST" \in DOMAIN WorkflowRoutes(p) /\ \E route : WorkflowRoutes(p)["POST"] = To("ExecuteWorkflow", route)
    BY <2>2 DEF WorkflowRoutes, NoRoute
  <2> QED
    BY <1>0, <1>6, <2>1, <2>3, <2>4
<1>7. CASE op = "GetAlert"
  <2>1. Send[op].path = <<"alerts", "id">> /\ Send[op].method = "GET"
    BY <1>7 DEF Send, SendGetAlert, Request
  <2>2. Len(p) = 2 /\ p # <<>> /\ p[1] = "alerts"
    <3>1. p = <<Text(args, "alerts"), Text(args, "id")>>
      BY <2>1, URLs DEF p
    <3> QED
      BY <3>1, WordsStay
  <2>3. RoutesOf(p) = AlertRoutes(p)
    BY <2>2 DEF RoutesOf
  <2>4. AlertRoutes(p) # NoRoute /\ "GET" \in DOMAIN AlertRoutes(p) /\ \E route : AlertRoutes(p)["GET"] = To("GetAlert", route)
    BY <2>2 DEF AlertRoutes, NoRoute
  <2> QED
    BY <1>0, <1>7, <2>1, <2>3, <2>4
<1>8. CASE op = "GetExecution"
  <2>1. Send[op].path = <<"executions", "id">> /\ Send[op].method = "GET"
    BY <1>8 DEF Send, SendGetExecution, Request
  <2>2. Len(p) = 2 /\ p # <<>> /\ p[1] = "executions"
    <3>1. p = <<Text(args, "executions"), Text(args, "id")>>
      BY <2>1, URLs DEF p
    <3> QED
      BY <3>1, WordsStay
  <2>3. RoutesOf(p) = ExecutionRoutes(p)
    BY <2>2 DEF RoutesOf
  <2>4. ExecutionRoutes(p) # NoRoute /\ "GET" \in DOMAIN ExecutionRoutes(p) /\ \E route : ExecutionRoutes(p)["GET"] = To("GetExecution", route)
    BY <2>2 DEF ExecutionRoutes, NoRoute
  <2> QED
    BY <1>0, <1>8, <2>1, <2>3, <2>4
<1>9. CASE op = "GetWorkflow"
  <2>1. Send[op].path = <<"workflows", "id">> /\ Send[op].method = "GET"
    BY <1>9 DEF Send, SendGetWorkflow, Request
  <2>2. Len(p) = 2 /\ p # <<>> /\ p[1] = "workflows"
    <3>1. p = <<Text(args, "workflows"), Text(args, "id")>>
      BY <2>1, URLs DEF p
    <3> QED
      BY <3>1, WordsStay
  <2>3. RoutesOf(p) = WorkflowRoutes(p)
    BY <2>2 DEF RoutesOf
  <2>4. WorkflowRoutes(p) # NoRoute /\ "GET" \in DOMAIN WorkflowRoutes(p) /\ \E route : WorkflowRoutes(p)["GET"] = To("GetWorkflow", route)
    BY <2>2 DEF WorkflowRoutes, NoRoute
  <2> QED
    BY <1>0, <1>9, <2>1, <2>3, <2>4
<1>10. CASE op = "HealthCheck"
  <2>1. Send[op].path = <<"health">> /\ Send[op].method = "GET"
    BY <1>10 DEF Send, SendHealthCheck, Request
  <2>2. Len(p) = 1 /\ p # <<>> /\ p[1] = "health"
    <3>1. p = <<Text(args, "health")>>
      BY <2>1, URLs DEF p
    <3> QED
      BY <3>1, WordsStay
  <2>3. RoutesOf(p) = HealthRoutes(p)
    BY <2>2 DEF RoutesOf
  <2>4. HealthRoutes(p) # NoRoute /\ "GET" \in DOMAIN HealthRoutes(p) /\ \E route : HealthRoutes(p)["GET"] = To("HealthCheck", route)
    BY <2>2 DEF HealthRoutes, NoRoute
  <2> QED
    BY <1>0, <1>10, <2>1, <2>3, <2>4
<1>11. CASE op = "ListAlerts"
  <2>1. Send[op].path = <<"alerts">> /\ Send[op].method = "GET"
    BY <1>11 DEF Send, SendListAlerts, Request
  <2>2. Len(p) = 1 /\ p # <<>> /\ p[1] = "alerts"
    <3>1. p = <<Text(args, "alerts")>>
      BY <2>1, URLs DEF p
    <3> QED
      BY <3>1, WordsStay
  <2>3. RoutesOf(p) = AlertRoutes(p)
    BY <2>2 DEF RoutesOf
  <2>4. AlertRoutes(p) # NoRoute /\ "GET" \in DOMAIN AlertRoutes(p) /\ \E route : AlertRoutes(p)["GET"] = To("ListAlerts", route)
    BY <2>2 DEF AlertRoutes, NoRoute
  <2> QED
    BY <1>0, <1>11, <2>1, <2>3, <2>4
<1>12. CASE op = "ListAuditLogs"
  <2>1. Send[op].path = <<"audit-logs">> /\ Send[op].method = "GET"
    BY <1>12 DEF Send, SendListAuditLogs, Request
  <2>2. Len(p) = 1 /\ p # <<>> /\ p[1] = "audit-logs"
    <3>1. p = <<Text(args, "audit-logs")>>
      BY <2>1, URLs DEF p
    <3> QED
      BY <3>1, WordsStay
  <2>3. RoutesOf(p) = AuditLogRoutes(p)
    BY <2>2 DEF RoutesOf
  <2>4. AuditLogRoutes(p) # NoRoute /\ "GET" \in DOMAIN AuditLogRoutes(p) /\ \E route : AuditLogRoutes(p)["GET"] = To("ListAuditLogs", route)
    BY <2>2 DEF AuditLogRoutes, NoRoute
  <2> QED
    BY <1>0, <1>12, <2>1, <2>3, <2>4
<1>13. CASE op = "ListAuditLogsByResource"
  <2>1. Send[op].path = <<"audit-logs", "resource", "resourceType", "resourceId">> /\ Send[op].method = "GET"
    BY <1>13 DEF Send, SendListAuditLogsByResource, Request
  <2>2. Len(p) = 4 /\ p # <<>> /\ p[1] = "audit-logs" /\ p[2] = "resource"
    <3>1. p = <<Text(args, "audit-logs"), Text(args, "resource"), Text(args, "resourceType"), Text(args, "resourceId")>>
      BY <2>1, URLs DEF p
    <3> QED
      BY <3>1, WordsStay
  <2>3. RoutesOf(p) = AuditLogRoutes(p)
    BY <2>2 DEF RoutesOf
  <2>4. AuditLogRoutes(p) # NoRoute /\ "GET" \in DOMAIN AuditLogRoutes(p) /\ \E route : AuditLogRoutes(p)["GET"] = To("ListAuditLogsByResource", route)
    BY <2>2 DEF AuditLogRoutes, NoRoute
  <2> QED
    BY <1>0, <1>13, <2>1, <2>3, <2>4
<1>14. CASE op = "ListAuditLogsByUser"
  <2>1. Send[op].path = <<"audit-logs", "user", "userId">> /\ Send[op].method = "GET"
    BY <1>14 DEF Send, SendListAuditLogsByUser, Request
  <2>2. Len(p) = 3 /\ p # <<>> /\ p[1] = "audit-logs" /\ p[2] = "user"
    <3>1. p = <<Text(args, "audit-logs"), Text(args, "user"), Text(args, "userId")>>
      BY <2>1, URLs DEF p
    <3> QED
      BY <3>1, WordsStay
  <2>3. RoutesOf(p) = AuditLogRoutes(p)
    BY <2>2 DEF RoutesOf
  <2>4. AuditLogRoutes(p) # NoRoute /\ "GET" \in DOMAIN AuditLogRoutes(p) /\ \E route : AuditLogRoutes(p)["GET"] = To("ListAuditLogsByUser", route)
    BY <2>2 DEF AuditLogRoutes, NoRoute
  <2> QED
    BY <1>0, <1>14, <2>1, <2>3, <2>4
<1>15. CASE op = "ListExecutions"
  <2>1. Send[op].path = <<"executions">> /\ Send[op].method = "GET"
    BY <1>15 DEF Send, SendListExecutions, Request
  <2>2. Len(p) = 1 /\ p # <<>> /\ p[1] = "executions"
    <3>1. p = <<Text(args, "executions")>>
      BY <2>1, URLs DEF p
    <3> QED
      BY <3>1, WordsStay
  <2>3. RoutesOf(p) = ExecutionRoutes(p)
    BY <2>2 DEF RoutesOf
  <2>4. ExecutionRoutes(p) # NoRoute /\ "GET" \in DOMAIN ExecutionRoutes(p) /\ \E route : ExecutionRoutes(p)["GET"] = To("ListExecutions", route)
    BY <2>2 DEF ExecutionRoutes, NoRoute
  <2> QED
    BY <1>0, <1>15, <2>1, <2>3, <2>4
<1>16. CASE op = "ListWorkflowExecutions"
  <2>1. Send[op].path = <<"workflows", "id", "executions">> /\ Send[op].method = "GET"
    BY <1>16 DEF Send, SendListWorkflowExecutions, Request
  <2>2. Len(p) = 3 /\ p # <<>> /\ p[1] = "workflows" /\ p[3] = "executions"
    <3>1. p = <<Text(args, "workflows"), Text(args, "id"), Text(args, "executions")>>
      BY <2>1, URLs DEF p
    <3> QED
      BY <3>1, WordsStay
  <2>3. RoutesOf(p) = WorkflowRoutes(p)
    BY <2>2 DEF RoutesOf
  <2>4. WorkflowRoutes(p) # NoRoute /\ "GET" \in DOMAIN WorkflowRoutes(p) /\ \E route : WorkflowRoutes(p)["GET"] = To("ListWorkflowExecutions", route)
    BY <2>2 DEF WorkflowRoutes, NoRoute
  <2> QED
    BY <1>0, <1>16, <2>1, <2>3, <2>4
<1>17. CASE op = "ListWorkflows"
  <2>1. Send[op].path = <<"workflows">> /\ Send[op].method = "GET"
    BY <1>17 DEF Send, SendListWorkflows, Request
  <2>2. Len(p) = 1 /\ p # <<>> /\ p[1] = "workflows"
    <3>1. p = <<Text(args, "workflows")>>
      BY <2>1, URLs DEF p
    <3> QED
      BY <3>1, WordsStay
  <2>3. RoutesOf(p) = WorkflowRoutes(p)
    BY <2>2 DEF RoutesOf
  <2>4. WorkflowRoutes(p) # NoRoute /\ "GET" \in DOMAIN WorkflowRoutes(p) /\ \E route : WorkflowRoutes(p)["GET"] = To("ListWorkflows", route)
    BY <2>2 DEF WorkflowRoutes, NoRoute
  <2> QED
    BY <1>0, <1>17, <2>1, <2>3, <2>4
<1>18. CASE op = "LivenessProbe"
  <2>1. Send[op].path = <<"health", "live">> /\ Send[op].method = "GET"
    BY <1>18 DEF Send, SendLivenessProbe, Request
  <2>2. Len(p) = 2 /\ p # <<>> /\ p[1] = "health" /\ p[2] = "live"
    <3>1. p = <<Text(args, "health"), Text(args, "live")>>
      BY <2>1, URLs DEF p
    <3> QED
      BY <3>1, WordsStay
  <2>3. RoutesOf(p) = HealthRoutes(p)
    BY <2>2 DEF RoutesOf
  <2>4. HealthRoutes(p) # NoRoute /\ "GET" \in DOMAIN HealthRoutes(p) /\ \E route : HealthRoutes(p)["GET"] = To("LivenessProbe", route)
    BY <2>2 DEF HealthRoutes, NoRoute
  <2> QED
    BY <1>0, <1>18, <2>1, <2>3, <2>4
<1>19. CASE op = "ReadinessProbe"
  <2>1. Send[op].path = <<"health", "ready">> /\ Send[op].method = "GET"
    BY <1>19 DEF Send, SendReadinessProbe, Request
  <2>2. Len(p) = 2 /\ p # <<>> /\ p[1] = "health" /\ p[2] = "ready"
    <3>1. p = <<Text(args, "health"), Text(args, "ready")>>
      BY <2>1, URLs DEF p
    <3> QED
      BY <3>1, WordsStay
  <2>3. RoutesOf(p) = HealthRoutes(p)
    BY <2>2 DEF RoutesOf
  <2>4. HealthRoutes(p) # NoRoute /\ "GET" \in DOMAIN HealthRoutes(p) /\ \E route : HealthRoutes(p)["GET"] = To("ReadinessProbe", route)
    BY <2>2 DEF HealthRoutes, NoRoute
  <2> QED
    BY <1>0, <1>19, <2>1, <2>3, <2>4
<1>20. CASE op = "ResolveAlert"
  <2>1. Send[op].path = <<"alerts", "id", "resolve">> /\ Send[op].method = "POST"
    BY <1>20 DEF Send, SendResolveAlert, Request
  <2>2. Len(p) = 3 /\ p # <<>> /\ p[1] = "alerts" /\ p[3] = "resolve"
    <3>1. p = <<Text(args, "alerts"), Text(args, "id"), Text(args, "resolve")>>
      BY <2>1, URLs DEF p
    <3> QED
      BY <3>1, WordsStay
  <2>3. RoutesOf(p) = AlertRoutes(p)
    BY <2>2 DEF RoutesOf
  <2>4. AlertRoutes(p) # NoRoute /\ "POST" \in DOMAIN AlertRoutes(p) /\ \E route : AlertRoutes(p)["POST"] = To("ResolveAlert", route)
    BY <2>2 DEF AlertRoutes, NoRoute
  <2> QED
    BY <1>0, <1>20, <2>1, <2>3, <2>4
<1>21. CASE op = "UpdateWorkflow"
  <2>1. Send[op].path = <<"workflows", "id">> /\ Send[op].method = "PUT"
    BY <1>21 DEF Send, SendUpdateWorkflow, Request
  <2>2. Len(p) = 2 /\ p # <<>> /\ p[1] = "workflows"
    <3>1. p = <<Text(args, "workflows"), Text(args, "id")>>
      BY <2>1, URLs DEF p
    <3> QED
      BY <3>1, WordsStay
  <2>3. RoutesOf(p) = WorkflowRoutes(p)
    BY <2>2 DEF RoutesOf
  <2>4. WorkflowRoutes(p) # NoRoute /\ "PUT" \in DOMAIN WorkflowRoutes(p) /\ \E route : WorkflowRoutes(p)["PUT"] = To("UpdateWorkflow", route)
    BY <2>2 DEF WorkflowRoutes, NoRoute
  <2> QED
    BY <1>0, <1>21, <2>1, <2>3, <2>4
<1> QED
  BY OperationNames, <1>1, <1>2, <1>3, <1>4, <1>5, <1>6, <1>7, <1>8, <1>9, <1>10, <1>11, <1>12, <1>13, <1>14, <1>15, <1>16, <1>17, <1>18, <1>19, <1>20, <1>21

\* One subtree of the two routers: the same route, or none.
Same(routes, m, found) ==
    \/ routes = NoRoute /\ found = NotFoundRoute
    \/ /\ routes # NoRoute
       /\ IF m \in DOMAIN routes
          THEN /\ routes[m].op \in Operation
               /\ found = Route(routes[m].op, Len(routes[m].args), routes[m].args)
               /\ routes[m].op \in Bare => routes[m].args = <<>>
          ELSE found = NotFoundRoute

\* Both routers give the operation and its arguments, or neither finds one.
LEMMA SameRoute ==
    ASSUME NEW routes, NEW m \in DOMAIN routes, NEW op \in Operation, NEW args, NEW n, NEW found,
           routes # NoRoute, routes[m] = To(op, args), found = Route(op, n, args), n = Len(args),
           op \in Bare => args = <<>>
    PROVE  Same(routes, m, found)
BY DEF Same, To

\* ServeHTTP and FindPath agree below /alerts,
LEMMA AlertsAgree == \A m, p : Same(AlertRoutes(p), m, FindAlert(m, p))
<1> SUFFICES ASSUME NEW m, NEW p PROVE Same(AlertRoutes(p), m, FindAlert(m, p))
  OBVIOUS
<1> DEFINE routes == AlertRoutes(p)
<1>1. CASE Len(p) = 1
  <2>1. /\ routes # NoRoute /\ DOMAIN routes = {"GET", "POST"}
        /\ routes["GET"] = To("ListAlerts", <<>>)
        /\ routes["POST"] = To("CreateAlert", <<>>)
    BY <1>1 DEF AlertRoutes, NoRoute
  <2>2. CASE m = "GET"
    BY <1>1, <2>1, <2>2, OperationNames DEF Same, FindAlert, Route, To, Bare
  <2>3. CASE m = "POST"
    BY <1>1, <2>1, <2>3, OperationNames DEF Same, FindAlert, Route, To, Bare
  <2>4. CASE m \notin {"GET", "POST"}
    BY <1>1, <2>1, <2>4 DEF Same, FindAlert
  <2> QED
    BY <2>2, <2>3, <2>4
<1>2. CASE Len(p) = 2
  <2>1. /\ routes # NoRoute /\ DOMAIN routes = {"GET"}
        /\ routes["GET"] = To("GetAlert", <<p[2]>>)
    BY <1>2 DEF AlertRoutes, NoRoute
  <2>2. CASE m = "GET"
    <3>1. FindAlert(m, p) = Route("GetAlert", 1, <<p[2]>>)
      BY <1>2, <2>2 DEF FindAlert
    <3>2. Len(<<p[2]>>) = 1 /\ "GetAlert" \in Operation /\ ("GetAlert" \in Bare => <<p[2]>> = <<>>)
      BY OperationNames DEF Bare
    <3> QED
      BY <2>1, <2>2, <3>1, <3>2, SameRoute
  <2>3. CASE m \notin {"GET"}
    BY <1>2, <2>1, <2>3 DEF Same, FindAlert
  <2> QED
    BY <2>2, <2>3
<1>3. CASE Len(p) = 3 /\ p[3] = "acknowledge"
  <2>1. /\ routes # NoRoute /\ DOMAIN routes = {"POST"}
        /\ routes["POST"] = To("AcknowledgeAlert", <<p[2]>>)
    BY <1>3 DEF AlertRoutes, NoRoute
  <2>2. CASE m = "POST"
    <3>1. FindAlert(m, p) = Route("AcknowledgeAlert", 1, <<p[2]>>)
      BY <1>3, <2>2 DEF FindAlert
    <3>2. Len(<<p[2]>>) = 1 /\ "AcknowledgeAlert" \in Operation /\ ("AcknowledgeAlert" \in Bare => <<p[2]>> = <<>>)
      BY OperationNames DEF Bare
    <3> QED
      BY <2>1, <2>2, <3>1, <3>2, SameRoute
  <2>3. CASE m \notin {"POST"}
    BY <1>3, <2>1, <2>3 DEF Same, FindAlert
  <2> QED
    BY <2>2, <2>3
<1>4. CASE Len(p) = 3 /\ p[3] = "resolve"
  <2>1. /\ routes # NoRoute /\ DOMAIN routes = {"POST"}
        /\ routes["POST"] = To("ResolveAlert", <<p[2]>>)
    BY <1>4 DEF AlertRoutes, NoRoute
  <2>2. CASE m = "POST"
    <3>1. FindAlert(m, p) = Route("ResolveAlert", 1, <<p[2]>>)
      BY <1>4, <2>2 DEF FindAlert
    <3>2. Len(<<p[2]>>) = 1 /\ "ResolveAlert" \in Operation /\ ("ResolveAlert" \in Bare => <<p[2]>> = <<>>)
      BY OperationNames DEF Bare
    <3> QED
      BY <2>1, <2>2, <3>1, <3>2, SameRoute
  <2>3. CASE m \notin {"POST"}
    BY <1>4, <2>1, <2>3 DEF Same, FindAlert
  <2> QED
    BY <2>2, <2>3
<1>5. CASE ~(Len(p) = 1) /\ ~(Len(p) = 2) /\ ~(Len(p) = 3 /\ p[3] = "acknowledge") /\ ~(Len(p) = 3 /\ p[3] = "resolve")
  BY <1>5 DEF Same, AlertRoutes, FindAlert
<1> QED
  BY <1>1, <1>2, <1>3, <1>4, <1>5

\* below /audit-logs,
LEMMA AuditLogsAgree == \A m, p : Same(AuditLogRoutes(p), m, FindAuditLog(m, p))
<1> SUFFICES ASSUME NEW m, NEW p PROVE Same(AuditLogRoutes(p), m, FindAuditLog(m, p))
  OBVIOUS
<1> DEFINE routes == AuditLogRoutes(p)
<1>1. CASE Len(p) = 1
  <2>1. /\ routes # NoRoute /\ DOMAIN routes = {"GET"}
        /\ routes["GET"] = To("ListAuditLogs", <<>>)
    BY <1>1 DEF AuditLogRoutes, NoRoute
  <2>2. CASE m = "GET"
    BY <1>1, <2>1, <2>2, OperationNames DEF Same, FindAuditLog, Route, To, Bare
  <2>3. CASE m \notin {"GET"}
    BY <1>1, <2>1, <2>3 DEF Same, FindAuditLog
  <2> QED
    BY <2>2, <2>3
<1>2. CASE Len(p) = 4 /\ p[2] = "resource"
  <2>1. /\ routes # NoRoute /\ DOMAIN routes = {"GET"}
        /\ routes["GET"] = To("ListAuditLogsByResource", <<p[3], p[4]>>)
    BY <1>2 DEF AuditLogRoutes, NoRoute
  <2>2. CASE m = "GET"
    <3>1. FindAuditLog(m, p) = Route("ListAuditLogsByResource", 2, <<p[3], p[4]>>)
      BY <1>2, <2>2 DEF FindAuditLog
    <3>2. Len(<<p[3], p[4]>>) = 2 /\ "ListAuditLogsByResource" \in Operation /\ ("ListAuditLogsByResource" \in Bare => <<p[3], p[4]>> = <<>>)
      BY OperationNames DEF Bare
    <3> QED
      BY <2>1, <2>2, <3>1, <3>2, SameRoute
  <2>3. CASE m \notin {"GET"}
    BY <1>2, <2>1, <2>3 DEF Same, FindAuditLog
  <2> QED
    BY <2>2, <2>3
<1>3. CASE Len(p) = 3 /\ p[2] = "user"
  <2>1. /\ routes # NoRoute /\ DOMAIN routes = {"GET"}
        /\ routes["GET"] = To("ListAuditLogsByUser", <<p[3]>>)
    BY <1>3 DEF AuditLogRoutes, NoRoute
  <2>2. CASE m = "GET"
    <3>1. FindAuditLog(m, p) = Route("ListAuditLogsByUser", 1, <<p[3]>>)
      BY <1>3, <2>2 DEF FindAuditLog
    <3>2. Len(<<p[3]>>) = 1 /\ "ListAuditLogsByUser" \in Operation /\ ("ListAuditLogsByUser" \in Bare => <<p[3]>> = <<>>)
      BY OperationNames DEF Bare
    <3> QED
      BY <2>1, <2>2, <3>1, <3>2, SameRoute
  <2>3. CASE m \notin {"GET"}
    BY <1>3, <2>1, <2>3 DEF Same, FindAuditLog
  <2> QED
    BY <2>2, <2>3
<1>4. CASE ~(Len(p) = 1) /\ ~(Len(p) = 4 /\ p[2] = "resource") /\ ~(Len(p) = 3 /\ p[2] = "user")
  BY <1>4 DEF Same, AuditLogRoutes, FindAuditLog
<1> QED
  BY <1>1, <1>2, <1>3, <1>4

\* below /executions,
LEMMA ExecutionsAgree == \A m, p : Same(ExecutionRoutes(p), m, FindExecution(m, p))
<1> SUFFICES ASSUME NEW m, NEW p PROVE Same(ExecutionRoutes(p), m, FindExecution(m, p))
  OBVIOUS
<1> DEFINE routes == ExecutionRoutes(p)
<1>1. CASE Len(p) = 1
  <2>1. /\ routes # NoRoute /\ DOMAIN routes = {"GET"}
        /\ routes["GET"] = To("ListExecutions", <<>>)
    BY <1>1 DEF ExecutionRoutes, NoRoute
  <2>2. CASE m = "GET"
    BY <1>1, <2>1, <2>2, OperationNames DEF Same, FindExecution, Route, To, Bare
  <2>3. CASE m \notin {"GET"}
    BY <1>1, <2>1, <2>3 DEF Same, FindExecution
  <2> QED
    BY <2>2, <2>3
<1>2. CASE Len(p) = 2
  <2>1. /\ routes # NoRoute /\ DOMAIN routes = {"GET"}
        /\ routes["GET"] = To("GetExecution", <<p[2]>>)
    BY <1>2 DEF ExecutionRoutes, NoRoute
  <2>2. CASE m = "GET"
    <3>1. FindExecution(m, p) = Route("GetExecution", 1, <<p[2]>>)
      BY <1>2, <2>2 DEF FindExecution
    <3>2. Len(<<p[2]>>) = 1 /\ "GetExecution" \in Operation /\ ("GetExecution" \in Bare => <<p[2]>> = <<>>)
      BY OperationNames DEF Bare
    <3> QED
      BY <2>1, <2>2, <3>1, <3>2, SameRoute
  <2>3. CASE m \notin {"GET"}
    BY <1>2, <2>1, <2>3 DEF Same, FindExecution
  <2> QED
    BY <2>2, <2>3
<1>3. CASE Len(p) = 3 /\ p[3] = "cancel"
  <2>1. /\ routes # NoRoute /\ DOMAIN routes = {"POST"}
        /\ routes["POST"] = To("CancelExecution", <<p[2]>>)
    BY <1>3 DEF ExecutionRoutes, NoRoute
  <2>2. CASE m = "POST"
    <3>1. FindExecution(m, p) = Route("CancelExecution", 1, <<p[2]>>)
      BY <1>3, <2>2 DEF FindExecution
    <3>2. Len(<<p[2]>>) = 1 /\ "CancelExecution" \in Operation /\ ("CancelExecution" \in Bare => <<p[2]>> = <<>>)
      BY OperationNames DEF Bare
    <3> QED
      BY <2>1, <2>2, <3>1, <3>2, SameRoute
  <2>3. CASE m \notin {"POST"}
    BY <1>3, <2>1, <2>3 DEF Same, FindExecution
  <2> QED
    BY <2>2, <2>3
<1>4. CASE ~(Len(p) = 1) /\ ~(Len(p) = 2) /\ ~(Len(p) = 3 /\ p[3] = "cancel")
  BY <1>4 DEF Same, ExecutionRoutes, FindExecution
<1> QED
  BY <1>1, <1>2, <1>3, <1>4

\* below /health,
LEMMA HealthsAgree == \A m, p : Same(HealthRoutes(p), m, FindHealth(m, p))
<1> SUFFICES ASSUME NEW m, NEW p PROVE Same(HealthRoutes(p), m, FindHealth(m, p))
  OBVIOUS
<1> DEFINE routes == HealthRoutes(p)
<1>1. CASE Len(p) = 1
  <2>1. /\ routes # NoRoute /\ DOMAIN routes = {"GET"}
        /\ routes["GET"] = To("HealthCheck", <<>>)
    BY <1>1 DEF HealthRoutes, NoRoute
  <2>2. CASE m = "GET"
    BY <1>1, <2>1, <2>2, OperationNames DEF Same, FindHealth, Route, To, Bare
  <2>3. CASE m \notin {"GET"}
    BY <1>1, <2>1, <2>3 DEF Same, FindHealth
  <2> QED
    BY <2>2, <2>3
<1>2. CASE Len(p) = 2 /\ p[2] = "live"
  <2>1. /\ routes # NoRoute /\ DOMAIN routes = {"GET"}
        /\ routes["GET"] = To("LivenessProbe", <<>>)
    BY <1>2 DEF HealthRoutes, NoRoute
  <2>2. CASE m = "GET"
    BY <1>2, <2>1, <2>2, OperationNames DEF Same, FindHealth, Route, To, Bare
  <2>3. CASE m \notin {"GET"}
    BY <1>2, <2>1, <2>3 DEF Same, FindHealth
  <2> QED
    BY <2>2, <2>3
<1>3. CASE Len(p) = 2 /\ p[2] = "ready"
  <2>1. /\ routes # NoRoute /\ DOMAIN routes = {"GET"}
        /\ routes["GET"] = To("ReadinessProbe", <<>>)
    BY <1>3 DEF HealthRoutes, NoRoute
  <2>2. CASE m = "GET"
    BY <1>3, <2>1, <2>2, OperationNames DEF Same, FindHealth, Route, To, Bare
  <2>3. CASE m \notin {"GET"}
    BY <1>3, <2>1, <2>3 DEF Same, FindHealth
  <2> QED
    BY <2>2, <2>3
<1>4. CASE ~(Len(p) = 1) /\ ~(Len(p) = 2 /\ p[2] = "live") /\ ~(Len(p) = 2 /\ p[2] = "ready")
  BY <1>4 DEF Same, HealthRoutes, FindHealth
<1> QED
  BY <1>1, <1>2, <1>3, <1>4

\* and below /workflows.
LEMMA WorkflowsAgree == \A m, p : Same(WorkflowRoutes(p), m, FindWorkflow(m, p))
<1> SUFFICES ASSUME NEW m, NEW p PROVE Same(WorkflowRoutes(p), m, FindWorkflow(m, p))
  OBVIOUS
<1> DEFINE routes == WorkflowRoutes(p)
<1>1. CASE Len(p) = 1
  <2>1. /\ routes # NoRoute /\ DOMAIN routes = {"GET", "POST"}
        /\ routes["GET"] = To("ListWorkflows", <<>>)
        /\ routes["POST"] = To("CreateWorkflow", <<>>)
    BY <1>1 DEF WorkflowRoutes, NoRoute
  <2>2. CASE m = "GET"
    BY <1>1, <2>1, <2>2, OperationNames DEF Same, FindWorkflow, Route, To, Bare
  <2>3. CASE m = "POST"
    BY <1>1, <2>1, <2>3, OperationNames DEF Same, FindWorkflow, Route, To, Bare
  <2>4. CASE m \notin {"GET", "POST"}
    BY <1>1, <2>1, <2>4 DEF Same, FindWorkflow
  <2> QED
    BY <2>2, <2>3, <2>4
<1>2. CASE Len(p) = 2
  <2>1. /\ routes # NoRoute /\ DOMAIN routes = {"DELETE", "GET", "PUT"}
        /\ routes["DELETE"] = To("DeleteWorkflow", <<p[2]>>)
        /\ routes["GET"] = To("GetWorkflow", <<p[2]>>)
        /\ routes["PUT"] = To("UpdateWorkflow", <<p[2]>>)
    BY <1>2 DEF WorkflowRoutes, NoRoute
  <2>2. CASE m = "DELETE"
    <3>1. FindWorkflow(m, p) = Route("DeleteWorkflow", 1, <<p[2]>>)
      BY <1>2, <2>2 DEF FindWorkflow
    <3>2. Len(<<p[2]>>) = 1 /\ "DeleteWorkflow" \in Operation /\ ("DeleteWorkflow" \in Bare => <<p[2]>> = <<>>)
      BY OperationNames DEF Bare
    <3> QED
      BY <2>1, <2>2, <3>1, <3>2, SameRoute
  <2>3. CASE m = "GET"
    <3>1. FindWorkflow(m, p) = Route("GetWorkflow", 1, <<p[2]>>)
      BY <1>2, <2>3 DEF FindWorkflow
    <3>2. Len(<<p[2]>>) = 1 /\ "GetWorkflow" \in Operation /\ ("GetWorkflow" \in Bare => <<p[2]>> = <<>>)
      BY OperationNames DEF Bare
    <3> QED
      BY <2>1, <2>3, <3>1, <3>2, SameRoute
  <2>4. CASE m = "PUT"
    <3>1. FindWorkflow(m, p) = Route("UpdateWorkflow", 1, <<p[2]>>)
      BY <1>2, <2>4 DEF FindWorkflow
    <3>2. Len(<<p[2]>>) = 1 /\ "UpdateWorkflow" \in Operation /\ ("UpdateWorkflow" \in Bare => <<p[2]>> = <<>>)
      BY OperationNames DEF Bare
    <3> QED
      BY <2>1, <2>4, <3>1, <3>2, SameRoute
  <2>5. CASE m \notin {"DELETE", "GET", "PUT"}
    BY <1>2, <2>1, <2>5 DEF Same, FindWorkflow
  <2> QED
    BY <2>2, <2>3, <2>4, <2>5
<1>3. CASE Len(p) = 3 /\ p[3] = "execute"
  <2>1. /\ routes # NoRoute /\ DOMAIN routes = {"POST"}
        /\ routes["POST"] = To("ExecuteWorkflow", <<p[2]>>)
    BY <1>3 DEF WorkflowRoutes, NoRoute
  <2>2. CASE m = "POST"
    <3>1. FindWorkflow(m, p) = Route("ExecuteWorkflow", 1, <<p[2]>>)
      BY <1>3, <2>2 DEF FindWorkflow
    <3>2. Len(<<p[2]>>) = 1 /\ "ExecuteWorkflow" \in Operation /\ ("ExecuteWorkflow" \in Bare => <<p[2]>> = <<>>)
      BY OperationNames DEF Bare
    <3> QED
      BY <2>1, <2>2, <3>1, <3>2, SameRoute
  <2>3. CASE m \notin {"POST"}
    BY <1>3, <2>1, <2>3 DEF Same, FindWorkflow
  <2> QED
    BY <2>2, <2>3
<1>4. CASE Len(p) = 3 /\ p[3] = "executions"
  <2>1. /\ routes # NoRoute /\ DOMAIN routes = {"GET"}
        /\ routes["GET"] = To("ListWorkflowExecutions", <<p[2]>>)
    BY <1>4 DEF WorkflowRoutes, NoRoute
  <2>2. CASE m = "GET"
    <3>1. FindWorkflow(m, p) = Route("ListWorkflowExecutions", 1, <<p[2]>>)
      BY <1>4, <2>2 DEF FindWorkflow
    <3>2. Len(<<p[2]>>) = 1 /\ "ListWorkflowExecutions" \in Operation /\ ("ListWorkflowExecutions" \in Bare => <<p[2]>> = <<>>)
      BY OperationNames DEF Bare
    <3> QED
      BY <2>1, <2>2, <3>1, <3>2, SameRoute
  <2>3. CASE m \notin {"GET"}
    BY <1>4, <2>1, <2>3 DEF Same, FindWorkflow
  <2> QED
    BY <2>2, <2>3
<1>5. CASE ~(Len(p) = 1) /\ ~(Len(p) = 2) /\ ~(Len(p) = 3 /\ p[3] = "execute") /\ ~(Len(p) = 3 /\ p[3] = "executions")
  BY <1>5 DEF Same, WorkflowRoutes, FindWorkflow
<1> QED
  BY <1>1, <1>2, <1>3, <1>4, <1>5

\* Every request is routed to an operation or to none, and both routers say so.
LEMMA RoutersDoAgree ==
    ASSUME NEW m, NEW p
    PROVE  LET s == ServeHTTP(m, p)
           IN  /\ s.op \in Operation =>
                     /\ FindPath(m, p) = Route(s.op, Len(s.args), s.args)
                     /\ s.op \in Bare => s.args = <<>>
               /\ s.op \notin Operation =>
                     s.op \in {"NotFound", "NotAllowed"} /\ FindPath(m, p) = NotFoundRoute
<1>1. Same(RoutesOf(p), m, FindPath(m, p))
  <2>1. CASE p = <<>>
    BY <2>1 DEF RoutesOf, FindPath, Same
  <2>2. CASE p # <<>> /\ p[1] = "alerts"
    BY <2>2, AlertsAgree DEF RoutesOf, FindPath
  <2>3. CASE p # <<>> /\ p[1] = "audit-logs"
    BY <2>3, AuditLogsAgree DEF RoutesOf, FindPath
  <2>4. CASE p # <<>> /\ p[1] = "executions"
    BY <2>4, ExecutionsAgree DEF RoutesOf, FindPath
  <2>5. CASE p # <<>> /\ p[1] = "health"
    BY <2>5, HealthsAgree DEF RoutesOf, FindPath
  <2>6. CASE p # <<>> /\ p[1] = "workflows"
    BY <2>6, WorkflowsAgree DEF RoutesOf, FindPath
  <2>7. CASE p # <<>> /\ p[1] \notin {"alerts", "audit-logs", "executions", "health", "workflows"}
    BY <2>7 DEF RoutesOf, FindPath, Same
  <2> QED
    BY <2>1, <2>2, <2>3, <2>4, <2>5, <2>6, <2>7
<1>2. "NotFound" \notin Operation /\ "NotAllowed" \notin Operation
  BY OperationNames
<1>3. CASE RoutesOf(p) = NoRoute
  <2>1. ServeHTTP(m, p).op = "NotFound"
    BY <1>3 DEF ServeHTTP, To
  <2>2. FindPath(m, p) = NotFoundRoute
    BY <1>1, <1>3 DEF Same
  <2> QED
    BY <1>2, <2>1, <2>2
<1>4. CASE RoutesOf(p) # NoRoute /\ m \in DOMAIN RoutesOf(p)
  <2>1. ServeHTTP(m, p) = RoutesOf(p)[m]
    BY <1>4 DEF ServeHTTP
  <2> QED
    BY <1>1, <1>4, <2>1 DEF Same
<1>5. CASE RoutesOf(p) # NoRoute /\ m \notin DOMAIN RoutesOf(p)
  <2>1. ServeHTTP(m, p).op = "NotAllowed"
    BY <1>5 DEF ServeHTTP, To
  <2>2. FindPath(m, p) = NotFoundRoute
    BY <1>1, <1>5 DEF Same
  <2> QED
    BY <1>2, <2>1, <2>2
<1> QED
  BY <1>3, <1>4, <1>5

-------------------------------------------------------------------------------
(* Messages and answers.                                                        *)
\* The messages, by name.
LEMMA MessageNames ==
    DOMAIN Schema = {"Alert", "AuditLog", "Execution", "Workflow", "HealthStatus", "Error",
                     "AlertResponse", "ExecutionResponse", "WorkflowResponse", "PaginatedAlerts",
                     "PaginatedAuditLogs", "PaginatedExecutions", "PaginatedWorkflows",
                     "CreateAlertRequest", "CreateWorkflowRequest", "ExecuteWorkflowRequest",
                     "UpdateWorkflowRequest", "Nothing"}
BY DEF Schema

\* A field of a message is required or optional, not both.
LEMMA FieldsAreApart ==
    \A m \in DOMAIN Schema : Schema[m].required \intersect Schema[m].optional = {}
<1> SUFFICES ASSUME NEW m \in DOMAIN Schema
             PROVE  Schema[m].required \intersect Schema[m].optional = {}
  OBVIOUS
<1> USE DEF Schema, Obj
<1>1. CASE m = "Alert"
  BY <1>1 DEF Alert
<1>2. CASE m = "AuditLog"
  BY <1>2 DEF AuditLog
<1>3. CASE m = "Execution"
  BY <1>3 DEF Execution
<1>4. CASE m = "Workflow"
  BY <1>4 DEF Workflow
<1>5. CASE m \in {"HealthStatus", "Error", "Nothing"}
  BY <1>5 DEF HealthStatus, Error
<1>6. CASE m \in {"AlertResponse", "ExecutionResponse", "WorkflowResponse", "PaginatedAlerts",
                  "PaginatedAuditLogs", "PaginatedExecutions", "PaginatedWorkflows"}
  BY <1>6 DEF AlertResponse, ExecutionResponse, WorkflowResponse, PaginatedAlerts,
              PaginatedAuditLogs, PaginatedExecutions, PaginatedWorkflows
<1>7. CASE m \in {"CreateAlertRequest", "CreateWorkflowRequest", "ExecuteWorkflowRequest",
                  "UpdateWorkflowRequest"}
  BY <1>7 DEF CreateAlertRequest, CreateWorkflowRequest, ExecuteWorkflowRequest,
              UpdateWorkflowRequest
<1> QED
  BY MessageNames, <1>1, <1>2, <1>3, <1>4, <1>5, <1>6, <1>7

\* What a list holds is a message.
LEMMA ElementsAreMessages == \A m \in DOMAIN Schema : Element[m] \in DOMAIN Schema
BY MessageNames DEF Element

\* What a client or a handler sends arrives as it was: nothing is lost on the way, and
\* nothing is made up.
LEMMA RoundTrip ==
    ASSUME NEW m \in DOMAIN Schema, NEW v \in AnyValue(m)
    PROVE  Decodes(m, Encoded(m, v)) /\ Decoded(m, Encoded(m, v)) = v
<1> DEFINE e == Element[m]
           fields(n) == Schema[n].required \union Schema[n].optional
<1>0. e \in DOMAIN Schema
  BY ElementsAreMessages
<1> HIDE DEF e
<1>1. v \in [set : SUBSET Schema[m].optional, bad : SUBSET fields(m), data : Seq(AnyFlat(e))]
  BY DEF AnyValue, e
<1>2. /\ v = [set |-> v.set, bad |-> v.bad, data |-> v.data]
      /\ v.set \subseteq Schema[m].optional /\ v.data \in Seq(AnyFlat(e))
  BY <1>1
<1>3. ASSUME NEW n \in DOMAIN Schema, NEW s \in SUBSET Schema[n].optional
      PROVE  (Schema[n].required \union s) \intersect Schema[n].optional = s
  BY <1>3, FieldsAreApart
<1>4. ASSUME NEW i \in DOMAIN v.data
      PROVE  /\ DecodedFlat(e, EncodedFlat(e, v.data[i])) = v.data[i]
             /\ Schema[e].required \subseteq EncodedFlat(e, v.data[i]).fields
  <2>1. v.data[i] \in [set : SUBSET Schema[e].optional, bad : SUBSET fields(e)]
    <3>1. v.data[i] \in AnyFlat(e)
      BY <1>2, <1>4
    <3> QED
      BY <3>1 DEF AnyFlat
  <2>2. v.data[i] = [set |-> v.data[i].set, bad |-> v.data[i].bad]
        /\ v.data[i].set \in SUBSET Schema[e].optional
    BY <2>1
  <2> QED
    BY <1>0, <1>3, <2>2 DEF EncodedFlat, DecodedFlat
<1>5. Encoded(m, v) = [fields |-> Schema[m].required \union v.set, bad |-> v.bad,
                       data |-> [i \in DOMAIN v.data |-> EncodedFlat(e, v.data[i])]]
  BY DEF Encoded, EncodedFlat, e
<1>6. Decodes(m, Encoded(m, v))
  BY <1>4, <1>5 DEF Decodes, e
<1>7. Decoded(m, Encoded(m, v)) =
        [set |-> v.set, bad |-> v.bad,
         data |-> [i \in DOMAIN v.data |-> DecodedFlat(e, EncodedFlat(e, v.data[i]))]]
  <2> DEFINE body == Encoded(m, v)
  <2>1. /\ body.fields = Schema[m].required \union v.set /\ body.bad = v.bad
        /\ body.data = [i \in DOMAIN v.data |-> EncodedFlat(e, v.data[i])]
    BY <1>5
  <2> HIDE DEF body
  <2>2. body.fields \intersect Schema[m].optional = v.set
    BY <1>2, <1>3, <2>1
  <2>3. [i \in DOMAIN body.data |-> DecodedFlat(e, body.data[i])] =
            [i \in DOMAIN v.data |-> DecodedFlat(e, EncodedFlat(e, v.data[i]))]
    BY <2>1
  <2>4. Decoded(m, body) =
            [set |-> v.set, bad |-> v.bad,
             data |-> [i \in DOMAIN body.data |-> DecodedFlat(e, body.data[i])]]
    BY <2>1, <2>2 DEF Decoded, DecodedFlat, e
  <2> QED
    BY <2>3, <2>4 DEF body
<1>8. [i \in DOMAIN v.data |-> DecodedFlat(e, EncodedFlat(e, v.data[i]))] = v.data
  BY <1>2, <1>4
<1> QED
  BY <1>2, <1>6, <1>7, <1>8

\* What the handler is given is what the caller passed.
LEMMA BodiesArrive ==
    ASSUME NEW c \in Call
    PROVE  RequestSeen(c.op, EncodeRequest(c.op, c.req)) = c.req
<1> DEFINE m == Send[c.op].body
<1>1. c.op \in Operation /\ m = DecodeRequest[c.op].message
  BY CallAssumption, StagesMatch
<1>2. m \in DOMAIN Schema
  BY <1>1, OperationNames, MessageNames DEF DecodeRequest, DecodeCreateAlertRequest,
     DecodeCreateWorkflowRequest, DecodeExecuteWorkflowRequest, DecodeUpdateWorkflowRequest, NoBody
<1>3. CASE c.op \notin Bodied
  <2>1. c.req = <<>>
    BY <1>1, <1>3, CallAssumption, StagesMatch
  <2>2. EncodeRequest(c.op, c.req).content = <<>>
    BY <1>3 DEF EncodeRequest, Bodied
  <2> QED
    BY <2>1, <2>2 DEF RequestSeen
<1>4. CASE c.op \in Bodied
  <2>2. /\ m = DecodeRequest[c.op].message
        /\ m # "Nothing"
        /\ DecodeRequest[c.op].optional => c.op = "ExecuteWorkflow"
        /\ EncodeRequest(c.op, c.req).content =
              IF c.op = "ExecuteWorkflow" /\ c.req = <<>> THEN <<>> ELSE <<Encoded(m, c.req[1])>>
    BY <1>1, <1>4 DEF Bodied, DecodeRequest, DecodeCreateAlertRequest,
       DecodeCreateWorkflowRequest, DecodeExecuteWorkflowRequest, DecodeUpdateWorkflowRequest,
       EncodeRequest, EncodeCreateAlertRequest, EncodeCreateWorkflowRequest,
       EncodeExecuteWorkflowRequest, EncodeUpdateWorkflowRequest
  <2>3. CASE c.req = <<>>
    <3>1. c.op = "ExecuteWorkflow"
      BY <2>2, <2>3, CallAssumption
    <3> QED
      BY <2>2, <2>3, <3>1 DEF RequestSeen
  <2>4. CASE c.req = <<c.req[1]>> /\ c.req[1] \in AnyValue(m)
    <3>1. Decoded(m, Encoded(m, c.req[1])) = c.req[1]
      BY <1>2, <2>4, RoundTrip
    <3>2. EncodeRequest(c.op, c.req).content = <<Encoded(m, c.req[1])>>
      BY <2>2, <2>4
    <3> QED
      BY <2>2, <2>4, <3>1, <3>2 DEF RequestSeen
  <2> QED
    BY <2>2, <2>3, <2>4, CallAssumption
<1> QED
  BY <1>3, <1>4

\* The statuses of a body that does not decode.
LEMMA RequestErrors ==
    ASSUME NEW op \in Operation, NEW body, body.ct \in MediaType
    PROVE  RequestError(op, body) \in {0, 400, 415}
<1>1. CASE body.ct = "other"
  BY <1>1 DEF RequestError
<1>2. CASE body.ct = ""
  BY <1>2 DEF RequestError
<1>3. CASE body.ct = "json"
  <2>1. ~(body.ct = "other") /\ ~(body.ct = "")
    BY <1>3
  <2>2. CASE body.content = <<>>
    BY <1>3, <2>1, <2>2 DEF RequestError
  <2>3. CASE body.content # <<>>
    BY <1>3, <2>1, <2>3 DEF RequestError
  <2> QED
    BY <2>2, <2>3
<1> QED
  BY <1>1, <1>2, <1>3 DEF MediaType

\* The client sends JSON, or nothing.
LEMMA MediaTypes ==
    \A op, req : EncodeRequest(op, req).ct \in MediaType
BY DEF MediaType, EncodeRequest, EncodeCreateAlertRequest, EncodeCreateWorkflowRequest,
       EncodeExecuteWorkflowRequest, EncodeUpdateWorkflowRequest

\* An answer is a message that is known, and no message of the error handler is one.
LEMMA AliasesAreMessages ==
    ASSUME NEW t \in {"OK", "ServiceUnavailable", "NoContent"} \union ErrorTypes \union DataTypes
    PROVE  /\ Aliased(t) \in DOMAIN Schema
           /\ t = "NoContent" => Aliased(t) = "Nothing"
           /\ t # "NoContent" => ~Decodes(Aliased(t), ErrorMessage)
<1>1. Aliased(t) \in {"HealthStatus", "Error", "Nothing"} \union DataTypes
  BY DEF Aliased, ErrorTypes, DataTypes
<1>2. t = "NoContent" <=> Aliased(t) = "Nothing"
  BY DEF Aliased, ErrorTypes, DataTypes
<1>3. Aliased(t) \in DOMAIN Schema
  BY <1>1, MessageNames DEF DataTypes
<1>4. ASSUME NEW m \in {"HealthStatus", "Error"} \union DataTypes
      PROVE  ~Decodes(m, ErrorMessage)
  <2>1. "status" \in Schema[m].required \/ "data" \in Schema[m].required \/ "code" \in Schema[m].required
    BY <1>4 DEF DataTypes, Schema, Obj, HealthStatus, Error, AlertResponse, ExecutionResponse,
       WorkflowResponse, PaginatedAlerts, PaginatedAuditLogs, PaginatedExecutions,
       PaginatedWorkflows
  <2> QED
    BY <2>1 DEF Decodes, ErrorMessage
<1> QED
  BY <1>1, <1>2, <1>3, <1>4

\* The types of answers, and the messages they are.
LEMMA AnswerTypes ==
    ASSUME NEW op \in Operation, NEW t \in DOMAIN EncodeResponse[op]
    PROVE  /\ t \in {"OK", "ServiceUnavailable", "NoContent"} \union ErrorTypes \union DataTypes
           /\ Aliased(t) \in DOMAIN Schema
<1>1. EncodeResponse[op][t] \in DOMAIN DecodeResponse[op] /\ DecodeResponse[op][EncodeResponse[op][t]] = t
  BY AnswersMatch
<1>2. t \in {"OK", "ServiceUnavailable", "NoContent"} \union ErrorTypes \union DataTypes
  BY <1>1, DecodedTypes
<1> QED
  BY <1>2, AliasesAreMessages

\* The answer an encoder makes of a value, perhaps cut.
Written(op, t, v, w) ==
    /\ w.status = EncodeResponse[op][t] /\ w.whole \in BOOLEAN
    /\ t # "NoContent" => w.ct = "json" /\ w.body = Encoded(Aliased(t), v)

Understood(op, t, v, w) ==
    IF t = "NoContent" \/ (w.whole /\ Valid(Aliased(t), v))
    THEN ResultOf(op, w) = Typed(t, v) /\ Valid(Aliased(t), v)
    ELSE ResultOf(op, w) = Failure("DecodeResponse")

\* The client makes of an answer the value the handler returned, unless it was cut or
\* breaks the document.
LEMMA AnswersAreUnderstood ==
    ASSUME NEW op \in Operation, NEW t \in DOMAIN EncodeResponse[op], NEW v \in AnyValue(Aliased(t)),
           NEW w, Written(op, t, v, w)
    PROVE  Understood(op, t, v, w)
<1> USE DEF Written, Understood
<1>1. w.status \in DOMAIN DecodeResponse[op] /\ DecodeResponse[op][w.status] = t
  BY AnswersMatch
<1>2. Decodes(Aliased(t), Encoded(Aliased(t), v)) /\ Decoded(Aliased(t), Encoded(Aliased(t), v)) = v
  BY AnswerTypes, RoundTrip
<1>3. CASE t = "NoContent"
  <2>1. ResultOf(op, w) = Typed(t, NoValue)
    BY <1>1, <1>3 DEF ResultOf
  <2>2. Aliased(t) = "Nothing"
    BY <1>3, AnswerTypes, AliasesAreMessages
  <2>3. Element["Nothing"] = "Nothing" /\ Checked["Nothing"] = {}
        /\ Schema["Nothing"] = [required |-> {}, optional |-> {}]
    BY MessageNames DEF Element, Checked, Schema, Obj
  <2>4. v \in [set : SUBSET {}, bad : SUBSET {}, data : Seq(AnyFlat("Nothing"))] /\ v.data = <<>>
    BY <2>2, <2>3 DEF AnyValue
  <2>5. v = NoValue
    BY <2>4 DEF NoValue
  <2>6. Valid(Aliased(t), v)
    BY <2>2, <2>3 DEF Valid
  <2> QED
    BY <1>3, <2>1, <2>5, <2>6
<1>4. CASE t # "NoContent" /\ w.whole /\ Valid(Aliased(t), v)
  BY <1>1, <1>2, <1>4 DEF ResultOf
<1>5. CASE t # "NoContent" /\ ~(w.whole /\ Valid(Aliased(t), v))
  BY <1>1, <1>2, <1>5 DEF ResultOf
<1> QED
  BY <1>3, <1>4, <1>5

\* The message of the error handler is an error for the caller as well.
LEMMA MessagesAreErrors ==
    ASSUME NEW op \in Operation, NEW w, w.body = ErrorMessage, w.status # 204
    PROVE  \/ ResultOf(op, w) = Failure("DecodeResponse")
           \/ ResultOf(op, w) = Unexpected(w.status) /\ w.status \notin DOMAIN DecodeResponse[op]
<1>1. CASE w.status \notin DOMAIN DecodeResponse[op]
  BY <1>1 DEF ResultOf
<1>2. CASE w.status \in DOMAIN DecodeResponse[op]
  <2> DEFINE t == DecodeResponse[op][w.status]
  <2>1. t \in {"OK", "ServiceUnavailable", "NoContent"} \union ErrorTypes \union DataTypes
        /\ t # "NoContent"
    BY <1>2, DecodedTypes
  <2>2. ~Decodes(Aliased(t), w.body)
    BY <2>1, AliasesAreMessages
  <2> QED
    BY <1>2, <2>1, <2>2 DEF ResultOf
<1> QED
  BY <1>1, <1>2

\* The stages that are left once the first of them has passed.
LEMMA StageTails ==
    ASSUME NEW t \in Rest
    PROVE  /\ t # <<>> /\ Head(t) # "Route"
           /\ Head(t) = "Security" =>
                 /\ Tail(t) \in Rest /\ Tail(t) # Answering /\ t # Answering
                 /\ Head(Tail(t)) # "Security"
                 /\ Tail(t) \in AwaitsParams <=> t \in AwaitsParams
                 /\ Tail(t) \in AwaitsBody <=> t \in AwaitsBody
           /\ Head(t) = "DecodeParams" =>
                 /\ Tail(t) \in Rest /\ Tail(t) # Answering /\ t # Answering
                 /\ Head(Tail(t)) # "Security"
                 /\ Tail(t) \notin AwaitsParams
                 /\ Tail(t) \in AwaitsBody <=> t \in AwaitsBody
           /\ Head(t) = "DecodeRequest" =>
                 t \in AwaitsBody /\ t \notin AwaitsParams /\ Tail(t) = Calling /\ t # Answering
           /\ Head(t) = "Internal" => t = Calling /\ Tail(t) = Answering
           /\ Head(t) = "EncodeResponse" => t = Answering
<1> USE DEF Rest, AwaitsParams, AwaitsBody, Calling, Answering
<1>1. CASE t = <<"Security", "DecodeParams", "Internal", "EncodeResponse">>
  BY <1>1
<1>2. CASE t = <<"Security", "DecodeParams", "DecodeRequest", "Internal", "EncodeResponse">>
  BY <1>2
<1>3. CASE t = <<"Security", "DecodeRequest", "Internal", "EncodeResponse">>
  BY <1>3
<1>4. CASE t = <<"DecodeParams", "Internal", "EncodeResponse">>
  BY <1>4
<1>5. CASE t = <<"DecodeParams", "DecodeRequest", "Internal", "EncodeResponse">>
  BY <1>5
<1>6. CASE t = <<"DecodeRequest", "Internal", "EncodeResponse">>
  BY <1>6
<1>7. CASE t = <<"Internal", "EncodeResponse">>
  BY <1>7
<1>8. CASE t = <<"EncodeResponse">>
  BY <1>8
<1> QED
  BY <1>1, <1>2, <1>3, <1>4, <1>5, <1>6, <1>7, <1>8

\* The last two things a handler may still have to do.
LEMMA TwoRests ==
    /\ Calling \in Rest /\ Calling \notin AwaitsParams /\ Calling \notin AwaitsBody
    /\ Answering \in Rest /\ Answering \notin AwaitsParams /\ Answering \notin AwaitsBody
    /\ Calling # Answering /\ Calling # <<>> /\ Answering # <<>>
    /\ Head(Calling) = "Internal" /\ Head(Answering) = "EncodeResponse"
BY DEF Rest, AwaitsParams, AwaitsBody, Calling, Answering

\* An answer that is cut differs in that alone.
LEMMA Cut ==
    ASSUME NEW w, IsAnswer(w), NEW c, c = [w EXCEPT !.whole = FALSE]
    PROVE  /\ IsAnswer(c) /\ c.whole = FALSE
           /\ c.status = w.status /\ c.ct = w.ct /\ c.body = w.body
<1>1. c = [status |-> c.status, ct |-> c.ct, body |-> c.body, whole |-> c.whole]
  BY DEF IsAnswer
<1>2. c.whole = FALSE
  BY DEF IsAnswer
<1>3. c.status = w.status /\ c.ct = w.ct /\ c.body = w.body
  BY DEF IsAnswer
<1> QED
  BY <1>1, <1>2, <1>3 DEF IsAnswer

\* The invariant says at least what TypeOK says.
LEMMA InvImpliesTypes == Inv => TypeOK
BY DEF Inv, CallTypes, Tables, AttemptInv, AttemptTypes, HandledInv, TypeOK

-------------------------------------------------------------------------------
(* Steps, seen from one attempt.                                                *)

\* Nothing about attempt b changes.
Idle(b) ==
    /\ todo'[b] = todo[b] /\ target'[b] = target[b] /\ seen'[b] = seen[b]
    /\ response'[b] = response[b] /\ status'[b] = status[b] /\ failed'[b] = failed[b]
    /\ wire'[b] = wire[b] /\ conn'[b] = conn[b]

\* An attempt that a step leaves alone keeps its invariant; the row may go, unless the
\* attempt showed it.
LEMMA Frame ==
    ASSUME NEW b \in Attempt, AttemptInv(b), Idle(b), UNCHANGED <<impl, sent>>,
           b > attempts' => b > attempts,
           row' = row \/ (row' = <<>> /\ (response[b].kind = "typed" => target[b] # "GetWorkflow"))
    PROVE  AttemptInv(b)'
<1> USE DEF Idle
<1>1. AttemptTypes(b)'
  BY DEF AttemptInv, AttemptTypes
<1>2. (b > attempts)' => Untouched(b)'
  BY DEF AttemptInv, Untouched
<1>3. /\ Routed' = Routed
      /\ \A op : ParamsAccepted(op)' <=> ParamsAccepted(op)
      /\ \A op : BodyAccepted(op)' <=> BodyAccepted(op)
  BY DEF Routed, ParamsAccepted, BodyAccepted
<1>4. (todo[b] # <<>>)' => Pending(b)'
  BY <1>3 DEF AttemptInv, Pending
<1>5. HandledInv(b)'
  BY <1>3 DEF AttemptInv, HandledInv
<1>6. AnswerOf(b)' = AnswerOf(b)
  BY DEF AnswerOf, StatusOf
<1>7. WireInv(b)'
  BY <1>3, <1>6 DEF AttemptInv, WireInv, Unrouted, Refused, Reason, Answered
<1> QED
  BY <1>1, <1>2, <1>4, <1>5, <1>7 DEF AttemptInv

\* An attempt that was not made satisfies what is said of attempts.
LEMMA UntouchedHolds ==
    ASSUME NEW a \in Attempt, Untouched(a)
    PROVE  AttemptInv(a)
<1>1. AttemptTypes(a)
  BY DEF Untouched, AttemptTypes
<1>2. HandledInv(a) /\ WireInv(a) /\ todo[a] = <<>>
  BY DEF Untouched, HandledInv, WireInv, Outcome
<1> QED
  BY <1>1, <1>2 DEF AttemptInv

\* The invariant holds before the first step.
LEMMA Initial == Init => Inv
<1> SUFFICES ASSUME Init PROVE Inv
  OBVIOUS
<1>1. CallTypes
  <2>1. /\ impl \in {"api.Server", "other"} /\ row \in Stored
        /\ stage \in {"BuildURL", "SendRequest"} /\ attempts = 0 /\ result = NoResult
    BY DEF Init
  <2> QED
    BY <2>1, AttemptAssumption DEF CallTypes, NoResult
<1>2. Tables
  BY DEF Init, Tables, Operations
<1>3. ClientInv
  <2>1. CASE client \in Call /\ stage = "BuildURL" /\ sent.body.ct = "" /\ attempts = 0
    <3>1. client # NoCall
      BY <2>1, CallAssumption, OperationNames DEF NoCall
    <3> QED
      BY <2>1, <3>1 DEF ClientInv, MediaType
  <2>2. CASE client = NoCall /\ sent \in RawRequest /\ stage = "SendRequest"
    BY <2>2, RawAssumption DEF ClientInv, MediaType
  <2>3. /\ attempts = 0
        /\ \/ /\ client \in Call /\ stage = "BuildURL"
              /\ sent = WireRequest("", <<>>, "none", [x \in {} |-> <<>>], [ct |-> "", content |-> <<>>])
           \/ client = NoCall /\ sent \in RawRequest /\ stage = "SendRequest"
    BY DEF Init
  <2>4. \A q : WireRequest("", <<>>, "none", q, [ct |-> "", content |-> <<>>]).body.ct = ""
    BY DEF WireRequest
  <2> QED
    BY <2>1, <2>2, <2>3, <2>4
<1>4. ResultInv
  BY DEF Init, ResultInv, NoResult
<1>5. ASSUME NEW a \in Attempt PROVE AttemptInv(a)
  <2>1. Untouched(a)
    BY <1>5 DEF Init, Untouched
  <2> QED
    BY <2>1, UntouchedHolds
<1> QED
  BY <1>1, <1>2, <1>3, <1>4, <1>5 DEF Inv

-------------------------------------------------------------------------------
(* The client's steps.                                                          *)

\* As long as nothing was sent, there is nothing to keep.
LEMMA Unsent ==
    ASSUME Inv, attempts = 0, UNCHANGED <<attempts, row, serverVars, wire, conn>>
    PROVE  Tables' /\ \A a \in Attempt : AttemptInv(a)'
<1>1. Tables'
  BY DEF Inv, Tables, serverVars
<1>2. ASSUME NEW a \in Attempt PROVE AttemptInv(a)'
  <2>1. Untouched(a)
    BY DEF Inv, AttemptInv, Attempt
  <2>2. Untouched(a)'
    BY <2>1 DEF Untouched, serverVars
  <2>3. AttemptTypes(a)'
    BY <2>2 DEF Untouched, AttemptTypes
  <2>4. HandledInv(a)' /\ WireInv(a)' /\ todo'[a] = <<>>
    BY <2>2 DEF Untouched, HandledInv, WireInv, Outcome
  <2> QED
    BY <2>2, <2>3, <2>4 DEF AttemptInv
<1> QED
  BY <1>1, <1>2

\* No attempt changes.
LEMMA AllIdle ==
    ASSUME Inv, UNCHANGED <<impl, sent, row, attempts, serverVars, wire, conn>>
    PROVE  Tables' /\ \A a \in Attempt : AttemptInv(a)'
<1>1. Tables'
  BY DEF Inv, Tables, serverVars
<1>2. ASSUME NEW a \in Attempt PROVE AttemptInv(a)'
  <2>1. Idle(a)
    BY DEF Idle, serverVars
  <2> QED
    BY <2>1, Frame DEF Inv
<1> QED
  BY <1>1, <1>2

\* The request is built before anything is sent.
LEMMA BuildRequestStep ==
    ASSUME Inv, BuildRequest
    PROVE  Inv'
<1>0. /\ stage = "BuildURL" /\ attempts = 0 /\ result = NoResult /\ client # NoCall /\ client \in Call
      /\ UNCHANGED <<client, impl, row, attempts, result, serverVars, wire, conn>>
  BY DEF Inv, ClientInv, ResultInv, BuildRequest
<1>1. Tables' /\ \A a \in Attempt : AttemptInv(a)'
  BY <1>0, Unsent
<1>2. stage' \in {"Security", "SendRequest"}
  BY DEF BuildRequest
<1>3. CallTypes'
  BY <1>0, <1>2 DEF Inv, CallTypes
<1>4. ClientInv'
  <2>1. Built'
    BY <1>0 DEF BuildRequest, Built
  <2>2. sent'.body.ct \in MediaType
    BY MediaTypes DEF BuildRequest, WireRequest
  <2> QED
    BY <1>0, <1>2, <2>1, <2>2 DEF ClientInv
<1>5. ResultInv'
  BY <1>0, <1>2 DEF ResultInv
<1> QED
  BY <1>1, <1>3, <1>4, <1>5 DEF Inv

\* The token is added, or the call ends unsent.
LEMMA SecureRequestStep ==
    ASSUME Inv, SecureRequest
    PROVE  Inv'
<1>0. /\ stage = "Security" /\ attempts = 0 /\ result = NoResult /\ client # NoCall /\ client \in Call
      /\ Built
      /\ UNCHANGED <<client, impl, row, attempts, serverVars, wire, conn>>
  BY DEF Inv, ClientInv, ResultInv, SecureRequest
<1>1. Tables' /\ \A a \in Attempt : AttemptInv(a)'
  BY <1>0, Unsent
<1>2. \/ stage' = "SendRequest" /\ result' = result /\ sent' = [sent EXCEPT !.auth = "bearer"]
      \/ stage' = "done" /\ result' = Failure("Security:BearerAuth") /\ sent' = sent
  BY DEF SecureRequest
<1>3. CallTypes'
  BY <1>0, <1>2 DEF Inv, CallTypes, Failure
<1>4. ClientInv'
  <2>1. Built' /\ sent'.body = sent.body
    BY <1>0, <1>2 DEF Built, WireRequest
  <2> QED
    BY <1>0, <1>2, <2>1 DEF Inv, ClientInv
<1>5. ResultInv'
  BY <1>0, <1>2 DEF ResultInv, Failure, NoResult
<1> QED
  BY <1>1, <1>3, <1>4, <1>5 DEF Inv

\* A new attempt begins to be routed.
LEMMA SendRequestStep ==
    ASSUME Inv, SendRequest
    PROVE  Inv'
<1> DEFINE n == attempts + 1
<1>0. /\ stage = "SendRequest" /\ stage' = "wait" /\ result = NoResult /\ n \in Attempt
      /\ attempts \in Nat /\ attempts' = n
      /\ conn' = [conn EXCEPT ![n] = "open"] /\ todo' = [todo EXCEPT ![n] = <<"Route">>]
      /\ UNCHANGED <<client, impl, sent, row, result, target, seen, response, status, failed, wire>>
  BY AttemptAssumption DEF Inv, CallTypes, ResultInv, SendRequest, Attempt, callVars
<1> HIDE DEF n
<1>1. Tables'
  BY <1>0 DEF Inv, Tables
<1>2. CallTypes'
  BY <1>0, AttemptAssumption DEF Inv, CallTypes, Attempt
<1>3. ClientInv'
  <2>1. Built' <=> Built
    BY <1>0 DEF Built
  <2>2. attempts' > 0
    BY <1>0, AttemptAssumption DEF Attempt
  <2>3. ClientInv
    BY DEF Inv
  <2> QED
    BY <1>0, <2>1, <2>2, <2>3 DEF ClientInv
<1>4. ResultInv'
  BY <1>0 DEF Inv, ResultInv
<1>5. ASSUME NEW b \in Attempt PROVE AttemptInv(b)'
  <2>0. AttemptInv(b)
    BY DEF Inv
  <2>1. CASE b # n
    <3>1. Idle(b)
      BY <1>0, <2>1 DEF Idle
    <3>2. b > attempts' => b > attempts
      BY <1>0 DEF Attempt, n
    <3> QED
      BY <1>0, <2>0, <3>1, <3>2, Frame
  <2>2. CASE b = n
    <3>1. Untouched(b)
      BY <1>0, <2>0, <2>2 DEF AttemptInv, n
    <3>2. /\ todo'[b] = <<"Route">> /\ target'[b] = "none" /\ seen'[b] = <<>>
          /\ response'[b] = Outcome("none") /\ status'[b] = 0 /\ failed'[b] = {} /\ wire'[b] = <<>>
          /\ conn'[b] = "open"
      BY <1>0, <2>2, <3>1 DEF Inv, Tables, Untouched
    <3>3. AttemptTypes(b)'
      BY <3>2 DEF AttemptTypes
    <3>4. Pending(b)'
      BY <3>2 DEF Pending
    <3>5. HandledInv(b)' /\ WireInv(b)'
      BY <3>2 DEF HandledInv, WireInv, Outcome
    <3>6. ~(b > attempts)'
      BY <1>0, <2>2 DEF n
    <3> QED
      BY <3>3, <3>4, <3>5, <3>6 DEF AttemptInv
  <2> QED
    BY <2>1, <2>2
<1> QED
  BY <1>1, <1>2, <1>3, <1>4, <1>5 DEF Inv

\* The call is to be sent again, or ends.
LEMMA ConnectionLostStep ==
    ASSUME Inv, ConnectionLost
    PROVE  Inv'
<1>0. /\ stage = "wait" /\ conn[attempts] = "broken" /\ attempts > 0 /\ result = NoResult
      /\ \/ stage' = "SendRequest" /\ result' = result
         \/ stage' = "done" /\ result' = Failure("SendRequest")
      /\ UNCHANGED <<client, impl, sent, row, attempts, serverVars, wire, conn>>
  BY DEF Inv, ClientInv, ResultInv, ConnectionLost, callVars
<1>1. Tables' /\ \A a \in Attempt : AttemptInv(a)'
  BY <1>0, AllIdle
<1>2. CallTypes'
  BY <1>0 DEF Inv, CallTypes, Failure
<1>3. ClientInv'
  <2>1. Built' <=> Built
    BY <1>0 DEF Built
  <2> QED
    BY <1>0, <2>1 DEF Inv, ClientInv
<1>4. ResultInv'
  BY <1>0 DEF ResultInv, Failure, NoResult
<1> QED
  BY <1>1, <1>2, <1>3, <1>4 DEF Inv

\* The result of a call is an error or a typed value.
LEMMA ResultKinds ==
    ASSUME NEW op, NEW w
    PROVE  ResultOf(op, w).kind \in {"error", "typed"}
BY DEF ResultOf, Unexpected, Failure, Typed

\* The result is made of the answer.
LEMMA ReceiveAnswerStep ==
    ASSUME Inv, ReceiveAnswer
    PROVE  Inv'
<1>0. /\ stage = "wait" /\ wire[attempts] # <<>> /\ attempts > 0 /\ stage' = "done"
      /\ result' = IF client = NoCall THEN Outcome("raw")
                   ELSE ResultOf(client.op, wire[attempts][1])
      /\ UNCHANGED <<client, impl, sent, row, attempts, serverVars, wire, conn>>
  BY DEF Inv, ClientInv, ReceiveAnswer, callVars
<1>1. Tables' /\ \A a \in Attempt : AttemptInv(a)'
  BY <1>0, AllIdle
<1>2. result'.kind \in {"raw", "error", "typed"}
  BY <1>0, ResultKinds DEF Outcome
<1>3. CallTypes'
  BY <1>0, <1>2 DEF Inv, CallTypes
<1>4. ClientInv'
  <2>1. Built' <=> Built
    BY <1>0 DEF Built
  <2> QED
    BY <1>0, <2>1 DEF Inv, ClientInv
<1>5. ResultInv'
  BY <1>0, <1>2 DEF ResultInv, NoResult
<1> QED
  BY <1>1, <1>3, <1>4, <1>5 DEF Inv

-------------------------------------------------------------------------------
(* The steps of the server.                                                     *)
\* What the steps of attempt a leave alone.
Alone(a) ==
    /\ UNCHANGED <<client, impl, sent, stage, attempts, result>>
    /\ \A b \in Attempt : b # a => Idle(b)

\* The row stays, or the handlers that ran are not those that show it.
RowKept ==
    /\ row' \in Stored
    /\ \/ row' = row
       \/ /\ row' = <<>>
          /\ \A b \in Attempt : response[b].kind = "typed" => target[b] # "GetWorkflow"

\* What is to be shown of a step of attempt a.
LEMMA AttemptStep ==
    ASSUME Inv, NEW a \in Attempt, Alone(a), RowKept, Tables', AttemptInv(a)',
           conn[a] = "broken" => conn'[a] = "broken",
           wire'[a] = wire[a] \/ wire[a] = <<>> \/ result = NoResult
    PROVE  Inv'
<1>1. CallTypes'
  BY DEF Inv, CallTypes, Alone, RowKept
<1>2. ClientInv'
  <2>1. Built' <=> Built
    BY DEF Alone, Built
  <2> QED
    BY <2>1 DEF Inv, ClientInv, Alone
<1>3. ResultInv'
  <2>1. CASE attempts \notin Attempt
    <3>1. attempts = 0
      BY <2>1, AttemptAssumption DEF Inv, CallTypes, Attempt
    <3> QED
      BY <3>1 DEF Inv, ResultInv, Alone
  <2>2. CASE attempts \in Attempt
    <3>1. conn[attempts] = "broken" => conn'[attempts] = "broken"
      BY <2>2 DEF Alone, Idle
    <3>2. wire'[attempts] = wire[attempts] \/ wire[attempts] = <<>> \/ result = NoResult
      BY <2>2 DEF Alone, Idle
    <3> QED
      BY <3>1, <3>2 DEF Inv, ResultInv, Alone
  <2> QED
    BY <2>1, <2>2
<1>4. ASSUME NEW b \in Attempt, b # a PROVE AttemptInv(b)'
  <2>1. AttemptInv(b) /\ Idle(b) /\ UNCHANGED <<impl, sent, attempts>>
    BY <1>4 DEF Inv, Alone
  <2>2. row' = row \/ (row' = <<>> /\ (response[b].kind = "typed" => target[b] # "GetWorkflow"))
    BY DEF RowKept
  <2> QED
    BY <2>1, <2>2, Frame
<1> QED
  BY <1>1, <1>2, <1>3, <1>4 DEF Inv

\* What was handled stays so while neither the row nor the request changes.
Unhandled(a) == target'[a] = target[a] /\ seen'[a] = seen[a] /\ response'[a] = response[a]

ArgsAsParsed(a) == seen[a] # <<>> => seen[a][1].args = DecodeParams[target[a]].path

\* Nothing else about what was handled depends on the stages.
LEMMA HandledStays ==
    ASSUME NEW a \in Attempt, AttemptInv(a), Unhandled(a), UNCHANGED <<impl, sent, row>>
    PROVE  HandledInv(a)' /\ ArgsAsParsed(a)'
<1>1. /\ Routed' = Routed
      /\ \A op : ParamsAccepted(op)' <=> ParamsAccepted(op)
      /\ \A op : BodyAccepted(op)' <=> BodyAccepted(op)
  BY DEF Routed, ParamsAccepted, BodyAccepted
<1> QED
  BY <1>1 DEF AttemptInv, AttemptTypes, HandledInv, Unhandled, ArgsAsParsed

\* A stage passes.
LEMMA Passing ==
    ASSUME Inv, NEW a \in Attempt, todo[a] # <<>>, Proceed(a), Alone(a), RowKept, Tables',
           target'[a] = target[a], conn'[a] = conn[a],
           HandledInv(a)', ArgsAsParsed(a)',
           Tail(todo[a]) # <<>>, Pending(a)'
    PROVE  Inv'
<1>1. AttemptInv(a) /\ todo'[a] = Tail(todo[a])
  BY DEF Inv, Tables, Proceed
<1>2. status'[a] = status[a] /\ failed'[a] = failed[a] /\ wire'[a] = wire[a] /\ wire[a] = <<>>
  BY <1>1 DEF AttemptInv, Pending, Proceed
<1>3. AttemptTypes(a)'
  BY <1>1, <1>2 DEF AttemptInv, AttemptTypes, ArgsAsParsed
<1>4. ~(a > attempts)'
  BY <1>1 DEF AttemptInv, Untouched, Alone
<1>5. AttemptInv(a)'
  BY <1>2, <1>3, <1>4 DEF AttemptInv, WireInv
<1> QED
  BY <1>2, <1>5, AttemptStep

\* A stage fails.
LEMMA Refusal ==
    ASSUME Inv, NEW a \in Attempt, todo[a] # <<>>,
           NEW s \in {400, 401, 415, 500, 501},
           NEW at \in {"Security", "DecodeParams", "DecodeRequest", "Internal", "EncodeResponse"},
           Refuse(a, s, at), Alone(a), row' = row, Tables',
           UNCHANGED <<target, conn>>, target[a] = Routed.op, target[a] \in Operation, Reason(a, s),
           HandledInv(a)', ArgsAsParsed(a)', response'[a].kind # "typed"
    PROVE  Inv'
<1>1. /\ AttemptInv(a) /\ todo'[a] = <<>> /\ status'[a] = s /\ failed'[a] = failed[a] \union {at}
      /\ wire'[a] = IF conn[a] = "open" THEN <<Answer(s, "json", ErrorMessage)>> ELSE wire[a]
  BY DEF Inv, Tables, Refuse, Write
<1>2. failed[a] = {} /\ wire[a] = <<>>
  BY <1>1 DEF AttemptInv, Pending
<1>3. AttemptTypes(a)'
  BY <1>1, <1>2 DEF AttemptInv, AttemptTypes, ArgsAsParsed
<1>4. ~(a > attempts)'
  BY <1>1 DEF AttemptInv, Untouched, Alone
<1>5. WireInv(a)'
  <2>1. CASE conn[a] = "open"
    <3> DEFINE w == Answer(s, "json", ErrorMessage)
    <3>1. wire'[a] = <<w>> /\ w.status = s /\ w.body = ErrorMessage /\ w.whole = TRUE /\ IsAnswer(w)
      BY <1>1, <2>1 DEF Answer, IsAnswer
    <3>2. Reason(a, s)'
      BY DEF Reason, Alone, ParamsAccepted, BodyAccepted, Routed
    <3>3. target'[a] = Routed'.op
      BY DEF Alone, Routed
    <3>4. Refused(a, w)'
      BY <1>1, <3>1, <3>2, <3>3 DEF Refused
    <3> HIDE DEF w
    <3>5. wire'[a][1] = w
      BY <3>1
    <3> QED
      BY <3>1, <3>4, <3>5 DEF WireInv
  <2>2. CASE conn[a] # "open"
    BY <1>1, <1>2, <2>2 DEF WireInv
  <2> QED
    BY <2>1, <2>2
<1>6. AttemptInv(a)'
  BY <1>1, <1>3, <1>4, <1>5 DEF AttemptInv
<1>7. RowKept
  BY DEF Inv, CallTypes, RowKept
<1> QED
  BY <1>2, <1>6, <1>7, AttemptStep

\* An attempt that is still to be routed.
LEMMA Unrouting ==
    ASSUME Inv, NEW a \in Attempt, At(a, "Route")
    PROVE  /\ todo[a] = <<"Route">> /\ target[a] = "none" /\ seen[a] = <<>>
           /\ response[a] = Outcome("none")
           /\ status[a] = 0 /\ failed[a] = {} /\ wire[a] = <<>>
           /\ conn[a] \in {"open", "broken", "unused"} /\ ~(a > attempts)
<1>1. AttemptInv(a) /\ todo[a] # <<>> /\ Head(todo[a]) = "Route"
  BY DEF Inv, At
<1>2. Pending(a) /\ ~(a > attempts)
  BY <1>1 DEF AttemptInv, Untouched
<1>3. todo[a] \notin Rest
  BY <1>1, StageTails
<1> QED
  BY <1>1, <1>2, <1>3 DEF Pending, AttemptInv, AttemptTypes, HandledInv

\* An attempt is routed: to the stages of its operation, or answered at once.
LEMMA RouteRequestStep ==
    ASSUME Inv, NEW a \in Attempt, RouteRequest(a)
    PROVE  Inv'
<1>0. RouteTo(a) = Routed /\ Routed' = Routed
  BY DEF RouteTo, Routed, RouteRequest, callVars
<1>1. At(a, "Route") /\ target' = [target EXCEPT ![a] = Routed.op]
      /\ UNCHANGED <<callVars, row, clientVars, seen, response, status, failed, conn>>
  BY <1>0 DEF RouteRequest
<1>2. /\ todo[a] = <<"Route">> /\ target[a] = "none" /\ seen[a] = <<>>
      /\ response[a] = Outcome("none")
      /\ status[a] = 0 /\ failed[a] = {} /\ wire[a] = <<>> /\ ~(a > attempts)
  BY <1>1, Unrouting
<1>3. Routed.op \in Operation \union {"NotFound", "NotAllowed"}
  BY RoutersDoAgree DEF Routed
<1>4. /\ DOMAIN todo = Attempt /\ DOMAIN target = Attempt /\ DOMAIN wire = Attempt
      /\ target \in [Attempt -> Operations]
  BY DEF Inv, Tables
<1>5. /\ target'[a] = Routed.op /\ target' \in [Attempt -> Operations]
      /\ \A b \in Attempt : b # a => target'[b] = target[b]
  BY <1>1, <1>3, <1>4 DEF Operations
<1>6. RowKept
  BY <1>1 DEF RowKept, Inv, CallTypes
<1>7. AttemptTypes(a)' /\ HandledInv(a)' /\ ~(a > attempts)'
  <2>1. AttemptInv(a) /\ seen'[a] = <<>> /\ response'[a] = Outcome("none")
    BY <1>1, <1>2 DEF Inv
  <2>2. AttemptTypes(a)'
    BY <1>1, <2>1 DEF AttemptInv, AttemptTypes
  <2>3. HandledInv(a)'
    BY <2>1 DEF HandledInv, Outcome
  <2> QED
    BY <1>1, <1>2, <2>2, <2>3 DEF clientVars
<1>8. CASE Routed.op \notin Operation
  <2>0. PICK ans : /\ ans.status \in {204, 404, 405} /\ ans.whole = TRUE /\ IsAnswer(ans)
                   /\ todo' = [todo EXCEPT ![a] = <<>>] /\ Write(a, ans)
    <3>1. CASE Routed.op = "NotFound"
      <4>1. todo' = [todo EXCEPT ![a] = <<>>] /\ Write(a, Answer(404, "text", NoContents))
        BY <1>0, <3>1, OperationNames DEF RouteRequest
      <4> QED
        BY <4>1 DEF Answer, IsAnswer, Write
    <3>2. CASE Routed.op = "NotAllowed"
      <4>1. PICK c \in {204, 405} :
                /\ todo' = [todo EXCEPT ![a] = <<>>] /\ Write(a, Answer(c, "", NoContents))
        BY <1>0, <3>2, OperationNames DEF RouteRequest, Write
      <4> QED
        BY <4>1 DEF Answer, IsAnswer, Write
    <3> QED
      BY <1>3, <1>8, <3>1, <3>2
  <2>1. todo'[a] = <<>> /\ wire'[a] = IF conn[a] = "open" THEN <<ans>> ELSE <<>>
    BY <1>2, <1>4, <2>0 DEF Write
  <2>2. WireInv(a)'
    <3>1. CASE conn[a] = "open"
      <4>1. Unrouted(a, ans)'
        BY <1>0, <1>1, <1>2, <1>3, <1>5, <1>8, <2>0 DEF Unrouted
      <4>2. wire'[a] = <<ans>> /\ wire'[a][1] = ans
        BY <2>1, <3>1
      <4> QED
        BY <2>0, <4>1, <4>2 DEF WireInv
    <3>2. CASE conn[a] # "open"
      BY <2>1, <3>2 DEF WireInv
    <3> QED
      BY <3>1, <3>2
  <2>3. AttemptInv(a)'
    BY <1>7, <2>1, <2>2 DEF AttemptInv
  <2>4. Tables'
    BY <1>1, <1>5, <2>0 DEF Inv, Tables, Write
  <2>5. Alone(a)
    BY <1>1, <1>4, <1>5, <2>0 DEF Alone, Idle, Write, callVars, clientVars
  <2> QED
    BY <1>1, <1>2, <1>6, <2>3, <2>4, <2>5, AttemptStep
<1>9. ASSUME Routed.op \in Operation, todo' = [todo EXCEPT ![a] = Handle[Routed.op]], UNCHANGED wire
      PROVE  Inv'
  <2>1. todo'[a] = Handle[Routed.op] /\ wire'[a] = <<>>
    BY <1>2, <1>4, <1>9
  <2>2. Pending(a)'
    <3> DEFINE op == Routed.op
    <3>1. /\ Handle[op] \in Rest /\ Handle[op] # Answering
          /\ Handle[op] \notin AwaitsParams => op \in Bare /\ DecodeParams[op] = NoParams
          /\ Handle[op] \in AwaitsBody <=> op \in Bodied
      BY <1>9, StagesMatch
    <3>2. Head(Handle[op]) = "Security" => 401 \in DOMAIN DecodeResponse[op]
      BY <1>9, RefusalsAreDeclared
    <3>3. op \in Bare => Routed.args = <<>>
      BY <1>9, RoutersDoAgree DEF Routed
    <3>4. Handle[op] \notin AwaitsParams => ParamsAccepted(op)
      BY <3>1, <3>3 DEF ParamsAccepted, ParamsDecode, NoParams, Params
    <3>5. Handle[op] \notin AwaitsBody => BodyAccepted(op)
      BY <3>1 DEF BodyAccepted
    <3>6. target'[a] = op /\ seen'[a] = <<>> /\ status'[a] = 0 /\ failed'[a] = {}
      BY <1>1, <1>2, <1>5
    <3>7. /\ \A o : ParamsAccepted(o)' <=> ParamsAccepted(o)
          /\ \A o : BodyAccepted(o)' <=> BodyAccepted(o)
      BY <1>0, <1>1 DEF ParamsAccepted, BodyAccepted, callVars
    <3> HIDE DEF op
    <3>8. op \in Operation /\ op = Routed'.op
      BY <1>0, <1>9 DEF op
    <3>9. todo'[a] = Handle[op]
      BY <2>1 DEF op
    <3> QED
      BY <2>1, <3>1, <3>2, <3>4, <3>5, <3>6, <3>7, <3>8, <3>9 DEF Pending
  <2>3. AttemptInv(a)'
    BY <1>7, <2>1, <2>2 DEF AttemptInv, WireInv
  <2>4. Tables'
    BY <1>1, <1>5, <1>9 DEF Inv, Tables
  <2>5. Alone(a)
    BY <1>1, <1>4, <1>5, <1>9 DEF Alone, Idle, callVars, clientVars
  <2> QED
    BY <1>1, <1>2, <1>6, <1>9, <2>3, <2>4, <2>5, AttemptStep
<1>10. CASE Routed.op \in Operation
  <2>1. todo' = [todo EXCEPT ![a] = Handle[Routed.op]] /\ UNCHANGED wire
    BY <1>0, <1>10, OperationNames DEF RouteRequest
  <2> QED
    BY <1>9, <1>10, <2>1
<1> QED
  BY <1>8, <1>10

\* An attempt that was routed and has stages left.
LEMMA Staged ==
    ASSUME Inv, NEW a \in Attempt, todo[a] # <<>>, Head(todo[a]) # "Route"
    PROVE  /\ AttemptInv(a)
           /\ status[a] = 0 /\ failed[a] = {} /\ wire[a] = <<>>
           /\ target[a] = Routed.op /\ target[a] \in Operation
           /\ todo[a] \in Rest
           /\ todo[a] \notin AwaitsParams => ParamsAccepted(target[a])
           /\ IF todo[a] \in AwaitsBody THEN target[a] \in Bodied ELSE BodyAccepted(target[a])
           /\ Head(todo[a]) = "Security" => 401 \in DOMAIN DecodeResponse[target[a]]
           /\ seen[a] # <<>> <=> todo[a] = Answering
           /\ seen[a] # <<>> => response[a].kind = "typed" \/ response[a] = Nil
<1>1. Pending(a) /\ AttemptInv(a)
  BY DEF Inv, AttemptInv
<1>2. todo[a] # <<"Route">>
  OBVIOUS
<1> QED
  BY <1>1, <1>2 DEF Pending

\* The call a step of attempt a leaves alone.
Beside(a) == UNCHANGED <<callVars, row, clientVars, target, seen, response, conn>>

\* A stage before the handler that passes.
LEMMA StagePasses ==
    ASSUME Inv, NEW a \in Attempt, todo[a] # <<>>, Head(todo[a]) # "Route",
           todo[a] \notin {Calling, Answering}, Proceed(a), Beside(a),
           Tail(todo[a]) \in Rest, Tail(todo[a]) # Answering,
           Tail(todo[a]) \notin AwaitsParams => ParamsAccepted(target[a]),
           Tail(todo[a]) \in AwaitsBody => target[a] \in Bodied,
           Tail(todo[a]) \notin AwaitsBody => BodyAccepted(target[a]),
           Head(Tail(todo[a])) # "Security"
    PROVE  Inv'
<1>1. /\ AttemptInv(a) /\ status[a] = 0 /\ failed[a] = {} /\ wire[a] = <<>>
      /\ target[a] = Routed.op /\ target[a] \in Operation /\ seen[a] = <<>>
  BY Staged
<1>2. /\ DOMAIN todo = Attempt /\ todo'[a] = Tail(todo[a])
      /\ \A b \in Attempt : b # a => todo'[b] = todo[b]
      /\ UNCHANGED <<status, failed, wire>>
  BY DEF Inv, Tables, Proceed
<1>3. Alone(a) /\ RowKept
  BY <1>2 DEF Alone, Idle, RowKept, Beside, callVars, clientVars, Inv, CallTypes
<1>4. Tables'
  BY <1>2 DEF Inv, Tables, Proceed, Beside
<1>5. HandledInv(a)' /\ ArgsAsParsed(a)'
  BY <1>1, HandledStays DEF Beside, Unhandled, callVars
<1>6. Tail(todo[a]) # <<>>
  BY StageTails
<1>7. Pending(a)'
  <2>1. /\ \A op : ParamsAccepted(op)' <=> ParamsAccepted(op)
        /\ \A op : BodyAccepted(op)' <=> BodyAccepted(op)
        /\ Routed' = Routed
    BY DEF ParamsAccepted, BodyAccepted, Routed, Beside, callVars
  <2>2. seen'[a] = <<>> /\ target'[a] = target[a] /\ status'[a] = 0 /\ failed'[a] = {} /\ wire'[a] = <<>>
    BY <1>1, <1>2 DEF Beside
  <2> QED
    BY <1>1, <1>2, <2>1, <2>2 DEF Pending
<1> QED
  BY <1>3, <1>4, <1>5, <1>6, <1>7, Passing DEF Beside

\* A stage that fails, whether or not the handler was called.
LEMMA StageFails ==
    ASSUME Inv, NEW a \in Attempt, todo[a] # <<>>, Head(todo[a]) # "Route",
           NEW s \in {400, 401, 415, 500, 501},
           NEW at \in {"Security", "DecodeParams", "DecodeRequest", "Internal", "EncodeResponse"},
           Refuse(a, s, at), Beside(a), Reason(a, s), response[a].kind # "typed"
    PROVE  Inv'
<1>1. /\ AttemptInv(a) /\ target[a] = Routed.op /\ target[a] \in Operation
  BY Staged
<1>2. /\ DOMAIN todo = Attempt /\ DOMAIN status = Attempt /\ DOMAIN failed = Attempt
      /\ DOMAIN wire = Attempt
  BY DEF Inv, Tables
<1>3. Alone(a) /\ row' = row
  BY <1>2 DEF Alone, Idle, Refuse, Write, Beside, callVars, clientVars
<1>4. Tables'
  BY <1>2 DEF Inv, Tables, Refuse, Write, Beside
<1>5. HandledInv(a)' /\ ArgsAsParsed(a)'
  BY <1>1, HandledStays DEF Beside, Unhandled, callVars
<1>6. UNCHANGED <<target, conn>> /\ response'[a].kind # "typed"
  BY DEF Beside
<1> QED
  BY <1>1, <1>3, <1>4, <1>5, <1>6, Refusal

\* The token is accepted or refused.
LEMMA CheckSecurityStep ==
    ASSUME Inv, NEW a \in Attempt, CheckSecurity(a)
    PROVE  Inv'
<1>1. todo[a] # <<>> /\ Head(todo[a]) = "Security" /\ Beside(a)
      /\ (Proceed(a) \/ Refuse(a, 401, "Security"))
  BY DEF CheckSecurity, At, Beside
<1>2. Head(todo[a]) # "Route"
  BY <1>1
<1>3. AttemptInv(a) /\ todo[a] \in Rest /\ seen[a] = <<>> /\ todo[a] \notin {Calling, Answering}
  BY <1>1, <1>2, Staged, TwoRests
<1>4. CASE Proceed(a)
  <2>1. /\ Tail(todo[a]) \in Rest /\ Tail(todo[a]) # Answering
        /\ Head(Tail(todo[a])) # "Security"
        /\ Tail(todo[a]) \in AwaitsParams <=> todo[a] \in AwaitsParams
        /\ Tail(todo[a]) \in AwaitsBody <=> todo[a] \in AwaitsBody
    BY <1>1, <1>3, StageTails
  <2>2. /\ todo[a] \notin AwaitsParams => ParamsAccepted(target[a])
        /\ todo[a] \in AwaitsBody => target[a] \in Bodied
        /\ todo[a] \notin AwaitsBody => BodyAccepted(target[a])
    BY <1>1, <1>2, Staged
  <2> QED
    BY <1>1, <1>2, <1>3, <1>4, <2>1, <2>2, StagePasses
<1>5. CASE Refuse(a, 401, "Security")
  <2>1. response[a].kind # "typed"
    BY <1>3 DEF AttemptInv, HandledInv, Outcome
  <2>2. Reason(a, 401)
    BY <1>1, <1>2, Staged DEF Reason
  <2> QED
    BY <1>1, <1>2, <1>5, <2>1, <2>2, StageFails
<1> QED
  BY <1>1, <1>4, <1>5

\* The parameters decode, or 400 is answered.
LEMMA DecodeParamsStageStep ==
    ASSUME Inv, NEW a \in Attempt, DecodeParamsStage(a)
    PROVE  Inv'
<1>1. todo[a] # <<>> /\ Head(todo[a]) = "DecodeParams" /\ Beside(a)
      /\ IF ParamsAccepted(target[a]) THEN Proceed(a) ELSE Refuse(a, 400, "DecodeParams")
  BY DEF DecodeParamsStage, At, Beside, ParamsAccepted, RouteTo, Routed
<1>2. Head(todo[a]) # "Route"
  BY <1>1
<1>3. AttemptInv(a) /\ todo[a] \in Rest /\ seen[a] = <<>> /\ todo[a] \notin {Calling, Answering}
  BY <1>1, <1>2, Staged, TwoRests
<1>4. CASE ParamsAccepted(target[a])
  <2>1. /\ Tail(todo[a]) \in Rest /\ Tail(todo[a]) # Answering
        /\ Head(Tail(todo[a])) # "Security"
        /\ Tail(todo[a]) \in AwaitsBody <=> todo[a] \in AwaitsBody
    BY <1>1, <1>3, StageTails
  <2>2. /\ todo[a] \in AwaitsBody => target[a] \in Bodied
        /\ todo[a] \notin AwaitsBody => BodyAccepted(target[a])
    BY <1>1, <1>2, Staged
  <2> QED
    BY <1>1, <1>2, <1>3, <1>4, <2>1, <2>2, StagePasses
<1>5. CASE ~ParamsAccepted(target[a])
  <2>1. response[a].kind # "typed"
    BY <1>3 DEF AttemptInv, HandledInv, Outcome
  <2>2. Reason(a, 400)
    BY <1>5 DEF Reason
  <2> QED
    BY <1>1, <1>2, <1>5, <2>1, <2>2, StageFails
<1> QED
  BY <1>4, <1>5

\* The body decodes, or 400 or 415 is answered.
LEMMA DecodeRequestStageStep ==
    ASSUME Inv, NEW a \in Attempt, DecodeRequestStage(a)
    PROVE  Inv'
<1> DEFINE err == RequestError(target[a], sent.body)
<1>1. todo[a] # <<>> /\ Head(todo[a]) = "DecodeRequest" /\ Beside(a)
      /\ IF err = 0 THEN Proceed(a) ELSE Refuse(a, err, "DecodeRequest")
  BY DEF DecodeRequestStage, At, Beside
<1>2. Head(todo[a]) # "Route"
  BY <1>1
<1>3. AttemptInv(a) /\ todo[a] \in Rest /\ seen[a] = <<>> /\ todo[a] \notin {Calling, Answering}
      /\ target[a] \in Operation
  BY <1>1, <1>2, Staged, TwoRests
<1>4. /\ todo[a] \notin AwaitsParams /\ todo[a] \in AwaitsBody /\ Tail(todo[a]) = Calling
  BY <1>1, <1>3, StageTails
<1>5. err = 0 <=> BodyAccepted(target[a])
  BY <1>1, <1>2, <1>4, Staged DEF BodyAccepted
<1>6. CASE err = 0
  <2>1. ParamsAccepted(target[a]) /\ Calling \in Rest /\ Calling # Answering
        /\ Calling \notin AwaitsBody /\ Head(Calling) # "Security"
    BY <1>1, <1>2, <1>4, Staged, TwoRests
  <2> QED
    BY <1>1, <1>2, <1>3, <1>4, <1>5, <1>6, <2>1, StagePasses
<1>7. CASE err # 0
  <2>1. response[a].kind # "typed"
    BY <1>3 DEF AttemptInv, HandledInv, Outcome
  <2>2. PICK s \in {400, 415} : err = s
    <3>1. sent.body.ct \in MediaType
      BY DEF Inv, ClientInv
    <3>2. err \in {0, 400, 415}
      BY <1>3, <3>1, RequestErrors
    <3> QED
      BY <1>7, <3>2
  <2>3. Reason(a, s)
    BY <1>5, <1>7, <2>2 DEF Reason
  <2> QED
    BY <1>1, <1>2, <1>7, <2>1, <2>2, <2>3, StageFails
<1> QED
  BY <1>6, <1>7

\* What a handler returned, when it is to be written.
LEMMA ToWrite ==
    ASSUME Inv, NEW a \in Attempt, At(a, "EncodeResponse")
    PROVE  /\ AttemptInv(a) /\ todo[a] = Answering /\ Head(todo[a]) # "Route" /\ seen[a] # <<>>
           /\ status[a] = 0 /\ failed[a] = {} /\ wire[a] = <<>> /\ ~(a > attempts)
           /\ target[a] = Routed.op /\ target[a] \in Operation
           /\ response[a] = Nil \/
                /\ response[a].kind = "typed"
                /\ response[a].type \in DOMAIN EncodeResponse[target[a]]
                /\ StatusOf(a) \in 200 .. 503
<1>1. todo[a] # <<>> /\ Head(todo[a]) = "EncodeResponse" /\ Head(todo[a]) # "Route"
  BY DEF At
<1>2. /\ AttemptInv(a) /\ todo[a] \in Rest
      /\ status[a] = 0 /\ failed[a] = {} /\ wire[a] = <<>>
      /\ target[a] = Routed.op /\ target[a] \in Operation
      /\ seen[a] # <<>> <=> todo[a] = Answering
      /\ seen[a] # <<>> => response[a].kind = "typed" \/ response[a] = Nil
  BY <1>1, Staged
<1>3. todo[a] = Answering
  BY <1>1, <1>2, StageTails
<1>4. ~(a > attempts)
  BY <1>1, <1>2 DEF AttemptInv, Untouched
<1>5. ASSUME response[a].kind = "typed"
      PROVE  response[a].type \in DOMAIN EncodeResponse[target[a]] /\ StatusOf(a) \in 200 .. 503
  <2>1. response[a].type \in DOMAIN EncodeResponse[target[a]]
    BY <1>2, <1>5 DEF AttemptInv, HandledInv
  <2>2. EncodeResponse[target[a]][response[a].type] \in 200 .. 503
    <3>1. PICK op \in Operation : op = target[a]
      BY <1>2
    <3>2. PICK t \in DOMAIN EncodeResponse[op] : t = response[a].type
      BY <2>1, <3>1
    <3>3. EncodeResponse[op][t] \in 200 .. 503
      BY AnswersMatch
    <3> QED
      BY <3>1, <3>2, <3>3
  <2> QED
    BY <2>1, <2>2 DEF StatusOf
<1> QED
  BY <1>1, <1>2, <1>3, <1>4, <1>5

\* The answer is written, whole, cut, or as an error for nil.
LEMMA WriteResponseStep ==
    ASSUME Inv, NEW a \in Attempt, WriteResponse(a)
    PROVE  Inv'
<1>1. At(a, "EncodeResponse") /\ UNCHANGED <<callVars, row, clientVars, target, seen, response>>
  BY DEF WriteResponse
<1>2. /\ AttemptInv(a) /\ todo[a] # <<>> /\ Head(todo[a]) # "Route"
      /\ status[a] = 0 /\ failed[a] = {} /\ wire[a] = <<>> /\ ~(a > attempts)
      /\ target[a] = Routed.op /\ target[a] \in Operation
      /\ response[a] = Nil \/
           /\ response[a].kind = "typed"
           /\ response[a].type \in DOMAIN EncodeResponse[target[a]]
           /\ StatusOf(a) \in 200 .. 503
  BY <1>1, ToWrite, TwoRests
<1>3. CASE response[a] = Nil /\ Refuse(a, 500, "EncodeResponse") /\ UNCHANGED conn
  <2>1. Beside(a) /\ Reason(a, 500) /\ response[a].kind # "typed"
    BY <1>1, <1>3 DEF Beside, Reason, Nil
  <2> QED
    BY <1>2, <1>3, <2>1, StageFails
<1>4. ASSUME response[a] # Nil, NEW w \in {AnswerOf(a)} \union {[AnswerOf(a) EXCEPT !.whole = FALSE]},
             todo' = [todo EXCEPT ![a] = <<>>],
             Write(a, w),
             \/ w = AnswerOf(a) /\ status' = [status EXCEPT ![a] = StatusOf(a)] /\ UNCHANGED <<failed, conn>>
             \/ /\ response[a].type # "NoContent"
                /\ w = [AnswerOf(a) EXCEPT !.whole = FALSE]
                /\ status' = [status EXCEPT ![a] = 500]
                /\ failed' = [failed EXCEPT ![a] = @ \union {"EncodeResponse"}]
                /\ conn' = [conn EXCEPT ![a] = "broken"]
      PROVE  Inv'
  <2>1. /\ DOMAIN todo = Attempt /\ DOMAIN status = Attempt /\ DOMAIN failed = Attempt
        /\ DOMAIN wire = Attempt /\ DOMAIN conn = Attempt
    BY DEF Inv, Tables
  <2>2. /\ todo'[a] = <<>>
        /\ wire'[a] = IF conn[a] = "open" THEN <<w>> ELSE <<>>
        /\ \/ w = AnswerOf(a) /\ status'[a] = StatusOf(a) /\ failed'[a] = {} /\ conn'[a] = conn[a]
           \/ /\ response[a].type # "NoContent"
              /\ w = [AnswerOf(a) EXCEPT !.whole = FALSE]
              /\ status'[a] = 500 /\ failed'[a] = {"EncodeResponse"} /\ conn'[a] = "broken"
    BY <1>2, <1>4, <2>1 DEF Write
  <2>3. HandledInv(a)' /\ ArgsAsParsed(a)'
    BY <1>1, <1>2, HandledStays DEF Unhandled, callVars
  <2>4. AttemptTypes(a)'
    <3>1. status'[a] \in {0} \union 200..599
      <4>1. StatusOf(a) \in 200 .. 503
        BY <1>2, <1>4
      <4>2. status'[a] \in {500, StatusOf(a)}
        BY <2>2
      <4> QED
        BY <4>1, <4>2
    <3>2. failed'[a] \in {{}, {"EncodeResponse"}} /\ conn'[a] \in {"unused", "open", "broken"}
      BY <1>2, <2>2 DEF AttemptInv, AttemptTypes
    <3>3. failed'[a] \subseteq {"Security", "DecodeParams", "DecodeRequest", "Internal", "EncodeResponse"}
      BY <3>2
    <3> QED
      BY <2>3, <3>1, <3>2, <3>3 DEF AttemptTypes, ArgsAsParsed
  <2>5. AnswerOf(a)' = AnswerOf(a)
    BY <1>1 DEF AnswerOf, StatusOf
  <2>6. /\ AnswerOf(a).status = StatusOf(a) /\ AnswerOf(a).whole = TRUE
        /\ w.status = AnswerOf(a).status /\ w.ct = AnswerOf(a).ct /\ w.body = AnswerOf(a).body
        /\ IsAnswer(w)
        /\ w = AnswerOf(a) => w.whole = TRUE
        /\ w = [AnswerOf(a) EXCEPT !.whole = FALSE] => w.whole = FALSE
    <3>1. PICK ct, body, st : AnswerOf(a) = Answer(st, ct, body) /\ st = StatusOf(a)
      BY DEF AnswerOf
    <3> DEFINE x == Answer(st, ct, body)
               c == [x EXCEPT !.whole = FALSE]
    <3>2. /\ x.status = st /\ x.ct = ct /\ x.body = body /\ x.whole = TRUE
          /\ c.status = st /\ c.ct = ct /\ c.body = body /\ c.whole = FALSE
          /\ IsAnswer(x) /\ IsAnswer(c)
      <4>1. x = [status |-> st, ct |-> ct, body |-> body, whole |-> TRUE]
        BY DEF Answer
      <4>2. x.status = st /\ x.ct = ct /\ x.body = body /\ x.whole = TRUE
        BY <4>1
      <4>3. c.status = st /\ c.ct = ct /\ c.body = body
        BY <4>1
      <4>4. c.whole = FALSE
        BY <4>1
      <4>5. IsAnswer(x)
        BY <4>1, <4>2 DEF IsAnswer
      <4>6. IsAnswer(c)
        BY <4>5, Cut
      <4> QED
        BY <4>2, <4>3, <4>4, <4>5, <4>6
    <3>3. AnswerOf(a) = x /\ [AnswerOf(a) EXCEPT !.whole = FALSE] = c
      BY <3>1
    <3> HIDE DEF x, c
    <3>4. CASE w = AnswerOf(a)
      BY <3>1, <3>2, <3>3, <3>4
    <3>5. CASE w = [AnswerOf(a) EXCEPT !.whole = FALSE]
      BY <3>1, <3>2, <3>3, <3>5
    <3> QED
      BY <1>4, <3>4, <3>5
  <2>7. WireInv(a)'
    <3>1. CASE conn[a] = "open"
      <4>1. w.whole \in BOOLEAN /\ (w.whole \/ conn'[a] = "broken") /\ IsAnswer(w)
        BY <2>2, <2>6
      <4>2. Answered(a, w)'
        <5>1. /\ w.status = AnswerOf(a)'.status /\ w.ct = AnswerOf(a)'.ct
              /\ w.body = AnswerOf(a)'.body
          BY <2>5, <2>6
        <5>2. response'[a].kind = "typed" /\ response'[a] = response[a]
          BY <1>1, <1>2, <1>4
        <5>3. \/ status'[a] = w.status /\ failed'[a] = {}
              \/ status'[a] = 500 /\ ~w.whole /\ response'[a].type # "NoContent"
          BY <2>2, <2>6, <5>2
        <5> QED
          BY <5>1, <5>2, <5>3 DEF Answered
      <4>3. wire'[a] = <<w>> /\ wire'[a][1] = w
        BY <2>2, <3>1
      <4> QED
        BY <4>1, <4>2, <4>3 DEF WireInv
    <3>2. CASE conn[a] # "open"
      BY <2>2, <3>2 DEF WireInv
    <3> QED
      BY <3>1, <3>2
  <2>8. AttemptInv(a)'
    BY <1>1, <1>2, <2>2, <2>3, <2>4, <2>7 DEF AttemptInv, clientVars
  <2>9. Tables'
    BY <1>1, <1>4, <2>1 DEF Inv, Tables, Write
  <2>10. Alone(a)
    BY <1>1, <1>4, <2>1 DEF Alone, Idle, Write, callVars, clientVars
  <2>11. RowKept
    BY <1>1 DEF Inv, CallTypes, RowKept
  <2> QED
    BY <1>2, <2>2, <2>8, <2>9, <2>10, <2>11, AttemptStep
<1> QED
  BY <1>3, <1>4 DEF WriteResponse

\* A connection breaks, perhaps within an answer.
LEMMA BreakStep ==
    ASSUME Inv, NEW a \in Attempt, Break(a)
    PROVE  Inv'
<1>1. /\ conn[a] = "open" /\ result = NoResult
      /\ conn' = [conn EXCEPT ![a] = "broken"]
      /\ wire' = [wire EXCEPT ![a] = IF wire[a] = <<>> THEN wire[a]
                                     ELSE <<[wire[a][1] EXCEPT !.whole = FALSE]>>]
      /\ UNCHANGED <<callVars, row, clientVars, serverVars>>
  BY DEF Break
<1>2. AttemptInv(a) /\ DOMAIN wire = Attempt /\ DOMAIN conn = Attempt
  BY DEF Inv, Tables
<1>3. conn'[a] = "broken"
      /\ wire'[a] = IF wire[a] = <<>> THEN <<>> ELSE <<[wire[a][1] EXCEPT !.whole = FALSE]>>
  BY <1>1, <1>2
<1>4. /\ Routed' = Routed
      /\ \A op : ParamsAccepted(op)' <=> ParamsAccepted(op)
      /\ \A op : BodyAccepted(op)' <=> BodyAccepted(op)
      /\ AnswerOf(a)' = AnswerOf(a)
  BY <1>1 DEF Routed, ParamsAccepted, BodyAccepted, callVars, serverVars, AnswerOf, StatusOf
<1>5. HandledInv(a)' /\ ArgsAsParsed(a)'
  BY <1>1, <1>2, HandledStays DEF Unhandled, callVars, serverVars
<1>6. AttemptTypes(a)'
  BY <1>1, <1>2, <1>3, <1>5 DEF AttemptInv, AttemptTypes, ArgsAsParsed, serverVars
<1>7. ~(a > attempts) /\ ~(a > attempts)'
  BY <1>1, <1>2 DEF AttemptInv, Untouched, clientVars
<1>8. todo'[a] # <<>> => Pending(a)'
  BY <1>1, <1>2, <1>3, <1>4 DEF AttemptInv, Pending, serverVars
<1>9. WireInv(a)'
  <2>1. CASE wire[a] = <<>>
    BY <1>3, <2>1 DEF WireInv
  <2>2. CASE wire[a] # <<>>
    <3>1. PICK w : /\ wire[a] = <<w>> /\ IsAnswer(w)
                   /\ Unrouted(a, w) \/ Refused(a, w) \/ Answered(a, w)
      BY <1>2, <2>2 DEF AttemptInv, WireInv
    <3>2. PICK c : c = [w EXCEPT !.whole = FALSE]
      OBVIOUS
    <3>3. IsAnswer(c) /\ c.whole = FALSE /\ c.status = w.status /\ c.ct = w.ct /\ c.body = w.body
      BY <3>1, <3>2, Cut
    <3>4. wire'[a] = <<c>> /\ wire'[a][1] = c
      BY <1>3, <2>2, <3>1, <3>2
    <3>5. CASE Unrouted(a, w)
      <4>1. Unrouted(a, c)'
        BY <1>1, <1>4, <3>3, <3>5 DEF Unrouted, serverVars
      <4> QED
        BY <1>3, <3>3, <3>4, <4>1 DEF WireInv
    <3>6. CASE Refused(a, w)
      <4>1. Reason(a, c.status)'
        BY <1>1, <1>4, <3>3, <3>6 DEF Refused, Reason, serverVars
      <4>2. Refused(a, c)'
        BY <1>1, <1>4, <3>3, <3>6, <4>1 DEF Refused, serverVars
      <4> QED
        BY <1>3, <3>3, <3>4, <4>2 DEF WireInv
    <3>7. CASE Answered(a, w)
      <4>1. Answered(a, c)'
        BY <1>1, <1>4, <3>3, <3>7 DEF Answered, serverVars
      <4> QED
        BY <1>3, <3>3, <3>4, <4>1 DEF WireInv
    <3> QED
      BY <3>1, <3>5, <3>6, <3>7
  <2> QED
    BY <2>1, <2>2
<1>10. AttemptInv(a)'
  BY <1>6, <1>7, <1>8, <1>5, <1>9 DEF AttemptInv
<1>11. Tables'
  BY <1>1 DEF Inv, Tables, serverVars
<1>12. Alone(a)
  BY <1>1, <1>2 DEF Alone, Idle, callVars, clientVars, serverVars
<1>13. RowKept
  BY <1>1 DEF Inv, CallTypes, RowKept
<1> QED
  BY <1>1, <1>3, <1>10, <1>11, <1>12, <1>13, AttemptStep

\* The page and limit a handler sees are within their limits.
LEMMA PagesAreInRange ==
    ASSUME NEW op \in Operation, NEW args, NEW query, ParamsDecode(op, args, query)
    PROVE  /\ "page" \in DecodeParams[op].query => QuerySeen(op, query)["page"][1] \in Nat \ {0}
           /\ "limit" \in DecodeParams[op].query => QuerySeen(op, query)["limit"][1] \in 1..100
<1>1. ASSUME "page" \in DecodeParams[op].query PROVE QuerySeen(op, query)["page"][1] \in Nat \ {0}
  <2>1. CASE "page" \in DOMAIN query /\ query["page"] # <<>>
    BY <1>1, <2>1 DEF ParamsDecode, QuerySeen, InRange
  <2>2. CASE ~("page" \in DOMAIN query /\ query["page"] # <<>>)
    BY <1>1, <2>2 DEF QuerySeen, DefaultOf, DefaultPage
  <2> QED
    BY <2>1, <2>2
<1>2. ASSUME "limit" \in DecodeParams[op].query PROVE QuerySeen(op, query)["limit"][1] \in 1..100
  <2>1. CASE "limit" \in DOMAIN query /\ query["limit"] # <<>>
    BY <1>2, <2>1 DEF ParamsDecode, QuerySeen, InRange, MaxLimit
  <2>2. CASE ~("limit" \in DOMAIN query /\ query["limit"] # <<>>)
    BY <1>2, <2>2 DEF QuerySeen, DefaultOf, DefaultLimit
  <2> QED
    BY <2>1, <2>2
<1> QED
  BY <1>1, <1>2

\* The value with nothing in it is one of every message, and passes Validate.
LEMMA NoValues ==
    ASSUME NEW m \in DOMAIN Schema
    PROVE  NoValue \in AnyValue(m) /\ Valid(m, NoValue)
<1>1. NoValue.bad = {} /\ NoValue.set = {} /\ NoValue.data = <<>>
  BY DEF NoValue
<1>2. Valid(m, NoValue)
  BY <1>1 DEF Valid
<1>3. NoValue \in AnyValue(m)
  <2>1. <<>> \in Seq(AnyFlat(Element[m]))
    OBVIOUS
  <2>2. NoValue \in [set : SUBSET Schema[m].optional,
                     bad : SUBSET (Schema[m].required \union Schema[m].optional),
                     data : Seq(AnyFlat(Element[m]))]
    BY <2>1 DEF NoValue
  <2> QED
    BY <1>1, <2>2 DEF AnyValue
<1> QED
  BY <1>2, <1>3

\* What a handler returns is an answer of its operation; api.Server keeps to the document
\* unless the row breaks it.
Fitting(op, o) ==
    /\ o[2] = row \/ (o[2] = <<>> /\ op = "DeleteWorkflow" /\ o[1].kind = "typed")
    /\ \/ o[1] \in {Nil, Outcome("error"), Outcome("unimplemented"), Outcome("panic")}
       \/ \E t \in DOMAIN EncodeResponse[op] : \E v \in AnyValue(Aliased(t)) :
             /\ o[1] = Typed(t, v)
             /\ impl = "api.Server" =>
                   /\ \/ Valid(Aliased(t), v)
                      \/ op = "GetWorkflow" /\ row # <<>> /\ row[1].bad # {}
                   /\ t = "NoContent" => o[2] = <<>>

\* An answer with nothing in it fits.
LEMMA EmptyFits ==
    ASSUME NEW op \in Operation, NEW t \in DOMAIN EncodeResponse[op], t # "NoContent",
           NEW o, o = <<Typed(t, NoValue), row>>
    PROVE  Fitting(op, o)
<1>1. NoValue \in AnyValue(Aliased(t)) /\ Valid(Aliased(t), NoValue)
  BY AnswerTypes, NoValues
<1>2. o[1] = Typed(t, NoValue) /\ o[2] = row
  OBVIOUS
<1> QED
  BY <1>1, <1>2 DEF Fitting

\* The pages of api.Server repeat a page and limit that passed the decoder.
LEMMA EmptyPagesFit ==
    ASSUME NEW op \in Operation, ParamsAccepted(op),
           {"page", "limit"} \subseteq DecodeParams[op].query,
           NEW t \in DOMAIN EncodeResponse[op], t # "NoContent",
           NEW o \in EmptyPage(t, QuerySeen(op, sent.query))
    PROVE  Fitting(op, o)
<1>1. PICK q : q = QuerySeen(op, sent.query)
  OBVIOUS
<1>2. q.page[1] \in Nat \ {0} /\ q.limit[1] \in 1..100
  BY <1>1, PagesAreInRange DEF ParamsAccepted
<1>3. o = <<Typed(t, [NoValue EXCEPT !.bad = {}]), row>>
  <2>1. o = <<Typed(t, [NoValue EXCEPT !.bad =
                 (IF q.page[1] < 1 THEN {"page"} ELSE {}) \union
                 (IF q.limit[1] \notin 1..100 THEN {"limit"} ELSE {})]), row>>
    BY <1>1 DEF EmptyPage
  <2>2. (IF q.page[1] < 1 THEN {"page"} ELSE {}) \union
           (IF q.limit[1] \notin 1..100 THEN {"limit"} ELSE {}) = {}
    BY <1>2
  <2> QED
    BY <2>1, <2>2
<1>4. [NoValue EXCEPT !.bad = {}] = NoValue
  <2>1. NoValue = [set |-> NoValue.set, bad |-> {}, data |-> NoValue.data]
    BY DEF NoValue
  <2> QED
    BY <2>1
<1> QED
  BY <1>3, <1>4, EmptyFits

\* The row that GetWorkflow shows is a workflow as it is stored.
LEMMA WorkflowsFit ==
    ASSUME row \in Stored, NEW o \in GetWorkflow(<<>>)
    PROVE  Fitting("GetWorkflow", o)
<1> DEFINE op == "GetWorkflow"
<1>1. op \in Operation /\ "NotFound" \in DOMAIN EncodeResponse[op]
      /\ "WorkflowResponse" \in DOMAIN EncodeResponse[op]
  BY OperationNames DEF EncodeResponse, EncodeGetWorkflowResponse
<1>2. CASE o = <<Typed("NotFound", NoValue), row>>
  BY <1>1, <1>2, EmptyFits
<1>3. CASE row # <<>> /\ \E i \in DOMAIN row :
             o = <<Typed("WorkflowResponse", [NoValue EXCEPT !.data = <<MapWorkflowToAPI(row[i])>>]), row>>
  <2>1. PICK w \in AnyFlat("Workflow") : row = <<w>>
    BY <1>3, StoredAssumption
  <2>2. w.set \subseteq Schema["Workflow"].optional
        /\ w.bad \subseteq Schema["Workflow"].required \union Schema["Workflow"].optional
    BY DEF AnyFlat
  <2>3. PICK d : d = MapWorkflowToAPI(w)
    OBVIOUS
  <2>4. d.bad = w.bad /\ d \in AnyFlat("Workflow")
    <3>1. d.set \subseteq Schema["Workflow"].optional /\ d.bad = w.bad
          /\ d = [set |-> d.set, bad |-> d.bad]
      BY <2>2, <2>3 DEF MapWorkflowToAPI, Schema, Workflow, Obj
    <3> QED
      BY <2>2, <3>1 DEF AnyFlat
  <2>5. PICK v : v = [NoValue EXCEPT !.data = <<d>>]
    OBVIOUS
  <2>6. v = [set |-> {}, bad |-> {}, data |-> <<d>>]
    BY <2>5 DEF NoValue
  <2>7. o = <<Typed("WorkflowResponse", v), row>>
    BY <1>3, <2>1, <2>3, <2>5
  <2>8. Aliased("WorkflowResponse") = "WorkflowResponse"
    BY DEF Aliased
  <2>9. Element["WorkflowResponse"] = "Workflow"
    BY MessageNames DEF Element
  <2>10. v \in AnyValue("WorkflowResponse")
    <3>1. <<d>> \in Seq(AnyFlat("Workflow"))
      BY <2>4
    <3>2. v \in [set : SUBSET Schema["WorkflowResponse"].optional,
                 bad : SUBSET (Schema["WorkflowResponse"].required \union Schema["WorkflowResponse"].optional),
                 data : Seq(AnyFlat("Workflow"))]
      BY <2>6, <3>1
    <3> QED
      BY <2>9, <3>2 DEF AnyValue
  <2>11. Valid("WorkflowResponse", v) \/ row[1].bad # {}
    <3>1. SUFFICES ASSUME w.bad = {} PROVE Valid("WorkflowResponse", v)
      BY <2>1
    <3>2. v.bad = {} /\ DOMAIN v.data = {1} /\ v.data[1].bad = {}
      BY <2>4, <2>6, <3>1
    <3> QED
      BY <3>2 DEF Valid
  <2>12. o[1] = Typed("WorkflowResponse", v) /\ o[2] = row
    BY <2>7
  <2> QED
    BY <1>1, <1>3, <2>8, <2>10, <2>11, <2>12 DEF Fitting
<1>4. \/ o = <<Typed("NotFound", NoValue), row>>
      \/ \E i \in DOMAIN row :
             o = <<Typed("WorkflowResponse", [NoValue EXCEPT !.data = <<MapWorkflowToAPI(row[i])>>]), row>>
  BY DEF GetWorkflow
<1>5. row = <<>> => DOMAIN row = {}
  OBVIOUS
<1> QED
  BY <1>2, <1>3, <1>4, <1>5

\* A deletion answers NoContent only with the row gone.
LEMMA DeletionsFit ==
    ASSUME NEW o \in DeleteWorkflow(<<>>)
    PROVE  Fitting("DeleteWorkflow", o)
<1> DEFINE op == "DeleteWorkflow"
<1>1. op \in Operation /\ "NotFound" \in DOMAIN EncodeResponse[op]
      /\ "NoContent" \in DOMAIN EncodeResponse[op]
  BY OperationNames DEF EncodeResponse, EncodeDeleteWorkflowResponse
<1>2. CASE o = <<Typed("NotFound", NoValue), row>>
  BY <1>1, <1>2, EmptyFits
<1>3. CASE o = <<Typed("NoContent", NoValue), <<>>>>
  <2>1. NoValue \in AnyValue(Aliased("NoContent")) /\ Valid(Aliased("NoContent"), NoValue)
    BY <1>1, AnswerTypes, NoValues
  <2>2. o[1] = Typed("NoContent", NoValue) /\ o[2] = <<>> /\ o[1].kind = "typed"
    BY <1>3 DEF Typed
  <2> QED
    BY <1>1, <2>1, <2>2 DEF Fitting
<1> QED
  BY <1>2, <1>3 DEF DeleteWorkflow

\* Whatever a method of api.Server returns.
LEMMA ServerOutcomesFit ==
    ASSUME row \in Stored, NEW op \in Operation, ParamsAccepted(op),
           NEW o \in ServerOutcome(op, QuerySeen(op, sent.query))
    PROVE  Fitting(op, o)
<1>1. ASSUME NEW t \in DOMAIN EncodeResponse[op], t = "OK", o = <<Typed("OK", NoValue), row>>
      PROVE  Fitting(op, o)
  BY <1>1, EmptyFits
<1> USE DEF EncodeResponse
<1>2. CASE op = "HealthCheck"
  BY <1>1, <1>2 DEF ServerOutcome, HealthCheck, Healthy, EncodeHealthCheckResponse
<1>3. CASE op = "LivenessProbe"
  BY <1>1, <1>3 DEF ServerOutcome, LivenessProbe, Healthy, EncodeLivenessProbeResponse
<1>4. CASE op = "ReadinessProbe"
  BY <1>1, <1>4 DEF ServerOutcome, ReadinessProbe, Healthy, EncodeReadinessProbeResponse
<1> USE DEF DecodeParams, Params
<1>5. CASE op = "ListWorkflows"
  <2>1. /\ "PaginatedWorkflows" \in DOMAIN EncodeResponse[op]
        /\ {"page", "limit"} \subseteq DecodeParams[op].query
        /\ o \in EmptyPage("PaginatedWorkflows", QuerySeen(op, sent.query))
    BY <1>5 DEF ServerOutcome, ListWorkflows, EncodeListWorkflowsResponse, DecodeListWorkflowsParams
  <2> QED
    BY <2>1, EmptyPagesFit
<1>6. CASE op = "ListExecutions"
  <2>1. /\ "PaginatedExecutions" \in DOMAIN EncodeResponse[op]
        /\ {"page", "limit"} \subseteq DecodeParams[op].query
        /\ o \in EmptyPage("PaginatedExecutions", QuerySeen(op, sent.query))
    BY <1>6 DEF ServerOutcome, ListExecutions, EncodeListExecutionsResponse, DecodeListExecutionsParams
  <2> QED
    BY <2>1, EmptyPagesFit
<1>7. CASE op = "ListAlerts"
  <2>1. /\ "PaginatedAlerts" \in DOMAIN EncodeResponse[op]
        /\ {"page", "limit"} \subseteq DecodeParams[op].query
        /\ o \in EmptyPage("PaginatedAlerts", QuerySeen(op, sent.query))
    BY <1>7 DEF ServerOutcome, ListAlerts, EncodeListAlertsResponse, DecodeListAlertsParams
  <2> QED
    BY <2>1, EmptyPagesFit
<1>8. CASE op = "ListAuditLogs"
  <2>1. /\ "PaginatedAuditLogs" \in DOMAIN EncodeResponse[op]
        /\ {"page", "limit"} \subseteq DecodeParams[op].query
        /\ o \in EmptyPage("PaginatedAuditLogs", QuerySeen(op, sent.query))
    BY <1>8 DEF ServerOutcome, ListAuditLogs, EncodeListAuditLogsResponse, DecodeListAuditLogsParams
  <2> QED
    BY <2>1, EmptyPagesFit
<1>9. CASE op = "GetWorkflow"
  <2>1. o \in GetWorkflow(<<>>)
    BY <1>9 DEF ServerOutcome, GetWorkflow
  <2> QED
    BY <1>9, <2>1, WorkflowsFit
<1>10. CASE op = "DeleteWorkflow"
  <2>1. o \in DeleteWorkflow(<<>>)
    BY <1>10 DEF ServerOutcome, DeleteWorkflow
  <2> QED
    BY <1>10, <2>1, DeletionsFit
<1>11. CASE op \notin {"HealthCheck", "LivenessProbe", "ReadinessProbe", "ListWorkflows",
                       "ListExecutions", "ListAlerts", "ListAuditLogs", "GetWorkflow",
                       "DeleteWorkflow"}
  <2>1. o = <<Outcome("unimplemented"), row>>
    BY <1>11 DEF ServerOutcome, Unimplemented
  <2>2. o[1] = Outcome("unimplemented") /\ o[2] = row
    BY <2>1
  <2> QED
    BY <2>2 DEF Fitting
<1> QED
  BY <1>2, <1>3, <1>4, <1>5, <1>6, <1>7, <1>8, <1>9, <1>10, <1>11

\* Whatever another implementation returns.
LEMMA OtherOutcomesFit ==
    ASSUME impl # "api.Server", NEW op \in Operation, NEW o \in OtherOutcome(op)
    PROVE  Fitting(op, o)
<1>1. PICK r : /\ o = <<r, row>>
               /\ \/ r \in {Nil, Outcome("error"), Outcome("unimplemented"), Outcome("panic")}
                  \/ \E t \in DOMAIN EncodeResponse[op] : \E v \in Sample(Aliased(t)) : r = Typed(t, v)
  <2> DEFINE typed == UNION {{Typed(t, v) : v \in Sample(Aliased(t))} : t \in DOMAIN EncodeResponse[op]}
             others == {Nil, Outcome("error"), Outcome("unimplemented"), Outcome("panic")}
  <2>0. OtherOutcome(op) = {<<r, row>> : r \in typed \union others}
    BY DEF OtherOutcome
  <2> HIDE DEF typed, others
  <2>1. PICK r \in typed \union others : o = <<r, row>>
    BY <2>0
  <2>2. ASSUME r \in typed
        PROVE  \E t \in DOMAIN EncodeResponse[op] : \E v \in Sample(Aliased(t)) : r = Typed(t, v)
    BY <2>2 DEF typed
  <2>3. r \in others => r \in {Nil, Outcome("error"), Outcome("unimplemented"), Outcome("panic")}
    BY DEF others
  <2> QED
    BY <2>1, <2>2, <2>3
<1>2. o[1] = r /\ o[2] = row
  BY <1>1
<1>3. CASE r \in {Nil, Outcome("error"), Outcome("unimplemented"), Outcome("panic")}
  BY <1>2, <1>3 DEF Fitting
<1>4. CASE \E t \in DOMAIN EncodeResponse[op] : \E v \in Sample(Aliased(t)) : r = Typed(t, v)
  <2>1. PICK t \in DOMAIN EncodeResponse[op] : \E v \in Sample(Aliased(t)) : r = Typed(t, v)
    BY <1>4
  <2>2. PICK v \in Sample(Aliased(t)) : r = Typed(t, v)
    BY <2>1
  <2>3. Aliased(t) \in DOMAIN Schema
    BY AnswerTypes
  <2>4. v \in AnyValue(Aliased(t))
    BY <2>3, SampleAssumption
  <2> QED
    BY <1>2, <2>2, <2>4 DEF Fitting
<1> QED
  BY <1>1, <1>3, <1>4

\* An attempt whose handler is to be called.
LEMMA ToCall ==
    ASSUME Inv, NEW a \in Attempt, At(a, "Internal")
    PROVE  /\ AttemptInv(a) /\ todo[a] = Calling /\ todo[a] # <<>> /\ Head(todo[a]) # "Route"
           /\ seen[a] = <<>>
           /\ status[a] = 0 /\ failed[a] = {} /\ wire[a] = <<>> /\ ~(a > attempts)
           /\ target[a] = Routed.op /\ target[a] \in Operation
           /\ ParamsAccepted(target[a]) /\ BodyAccepted(target[a])
<1>1. todo[a] # <<>> /\ Head(todo[a]) = "Internal" /\ Head(todo[a]) # "Route"
  BY DEF At
<1>2. /\ AttemptInv(a) /\ todo[a] \in Rest
      /\ status[a] = 0 /\ failed[a] = {} /\ wire[a] = <<>>
      /\ target[a] = Routed.op /\ target[a] \in Operation
      /\ todo[a] \notin AwaitsParams => ParamsAccepted(target[a])
      /\ todo[a] \notin AwaitsBody => BodyAccepted(target[a])
      /\ seen[a] # <<>> <=> todo[a] = Answering
  BY <1>1, Staged
<1>3. todo[a] = Calling
  BY <1>1, <1>2, StageTails
<1>4. ~(a > attempts)
  BY <1>1, <1>2 DEF AttemptInv, Untouched
<1> QED
  BY <1>1, <1>2, <1>3, <1>4, TwoRests

\* The handler is called: it answers, fails, or panics.
LEMMA CallHandlerStep ==
    ASSUME Inv, NEW a \in Attempt, CallHandler(a)
    PROVE  Inv'
<1> DEFINE op == target[a]
           rec == [args |-> Routed.args, query |-> QuerySeen(op, sent.query),
                   req |-> RequestSeen(op, sent.body)]
<1>1. /\ At(a, "Internal") /\ UNCHANGED <<callVars, clientVars, target>>
      /\ seen' = [seen EXCEPT ![a] = <<rec>>]
  BY DEF CallHandler, RouteTo, Routed
<1>2. /\ AttemptInv(a) /\ todo[a] = Calling /\ todo[a] # <<>> /\ Head(todo[a]) # "Route"
      /\ seen[a] = <<>>
      /\ status[a] = 0 /\ failed[a] = {} /\ wire[a] = <<>> /\ ~(a > attempts)
      /\ op = Routed.op /\ op \in Operation
      /\ ParamsAccepted(op) /\ BodyAccepted(op)
  BY <1>1, ToCall
<1>3. /\ DOMAIN todo = Attempt /\ DOMAIN seen = Attempt /\ DOMAIN response = Attempt
      /\ DOMAIN status = Attempt /\ DOMAIN failed = Attempt
      /\ DOMAIN wire = Attempt /\ DOMAIN conn = Attempt
  BY DEF Inv, Tables
<1>4. seen'[a] = <<rec>> /\ seen'[a][1].query = QuerySeen(op, sent.query)
  BY <1>1, <1>3
<1>5. PICK o \in IF impl = "api.Server" THEN ServerOutcome(op, QuerySeen(op, sent.query))
                 ELSE OtherOutcome(op) :
          /\ response' = [response EXCEPT ![a] = o[1]]
          /\ row' = o[2]
          /\ \/ o[1].kind \in {"typed", "nil"} /\ Proceed(a) /\ UNCHANGED conn
             \/ o[1].kind = "error" /\ Refuse(a, 500, "Internal") /\ UNCHANGED conn
             \/ o[1].kind = "unimplemented" /\ Refuse(a, 501, "Internal") /\ UNCHANGED conn
             \/ /\ o[1].kind = "panic"
                /\ todo' = [todo EXCEPT ![a] = <<>>]
                /\ conn' = [conn EXCEPT ![a] = "broken"]
                /\ UNCHANGED <<status, failed, wire>>
  BY <1>4 DEF CallHandler
<1>6. Fitting(op, o)
  <2>1. row \in Stored
    BY DEF Inv, CallTypes
  <2>2. CASE impl = "api.Server"
    BY <1>2, <1>5, <2>1, <2>2, ServerOutcomesFit
  <2>3. CASE impl # "api.Server"
    BY <1>2, <1>5, <2>3, OtherOutcomesFit
  <2> QED
    BY <2>2, <2>3
<1>7. response'[a] = o[1] /\ \A b \in Attempt : b # a => seen'[b] = seen[b] /\ response'[b] = response[b]
  BY <1>1, <1>3, <1>5
<1>8. /\ Routed' = Routed
      /\ \A x : ParamsAccepted(x)' <=> ParamsAccepted(x)
      /\ \A x : BodyAccepted(x)' <=> BodyAccepted(x)
  BY <1>1 DEF Routed, ParamsAccepted, BodyAccepted, callVars
<1>9. ArgsAsParsed(a)'
  <2>1. Routed.args = DecodeParams[op].path
    BY <1>2 DEF ParamsAccepted, ParamsDecode
  <2>2. seen'[a][1].args = Routed.args /\ target'[a] = op
    BY <1>1, <1>4
  <2> QED
    BY <2>1, <2>2 DEF ArgsAsParsed
<1>10. RowKept
  <2>1. row' = row \/ (row' = <<>> /\ op = "DeleteWorkflow")
    BY <1>5, <1>6 DEF Fitting
  <2>2. ASSUME NEW b \in Attempt, response[b].kind = "typed", op = "DeleteWorkflow"
        PROVE  target[b] # "GetWorkflow"
    <3>1. HandledInv(b)
      BY DEF Inv, AttemptInv
    <3>2. seen[b] # <<>>
      BY <2>2, <3>1 DEF HandledInv, Outcome
    <3> QED
      BY <1>2, <2>2, <3>1, <3>2 DEF HandledInv
  <2>3. row' \in Stored
    BY <2>1, StoredAssumption DEF Inv, CallTypes
  <2> QED
    BY <2>1, <2>2, <2>3 DEF RowKept
<1>11. o[1] # Outcome("none") /\ o[1].kind # "none"
  BY <1>5 DEF Outcome
<1>12. HandledInv(a)'
  <2>1. seen'[a] # <<>> /\ response'[a] # Outcome("none")
    BY <1>4, <1>7, <1>11
  <2>2. /\ target'[a] = Routed'.op /\ target'[a] \in Operation
        /\ ParamsAccepted(target[a])' /\ BodyAccepted(target[a])'
    BY <1>1, <1>2, <1>8 DEF ParamsAccepted, BodyAccepted, callVars
  <2>3. seen'[a] = <<[args |-> Routed'.args,
                      query |-> QuerySeen(target'[a], sent'.query),
                      req |-> RequestSeen(target'[a], sent'.body)]>>
    BY <1>1, <1>4, <1>8 DEF callVars
  <2>4. ASSUME o[1].kind = "typed"
        PROVE  /\ response'[a] = Typed(response'[a].type, response'[a].value)
               /\ response'[a].type \in DOMAIN EncodeResponse[target'[a]]
               /\ response'[a].value \in AnyValue(Aliased(response'[a].type))
               /\ impl' = "api.Server" =>
                     /\ \/ Valid(Aliased(response'[a].type), response'[a].value)
                        \/ target'[a] = "GetWorkflow" /\ row' # <<>> /\ row'[1].bad # {}
                     /\ response'[a].type = "NoContent" => row' = <<>>
    <3>1. PICK t \in DOMAIN EncodeResponse[op] : \E v \in AnyValue(Aliased(t)) :
             /\ o[1] = Typed(t, v)
             /\ impl = "api.Server" =>
                   /\ \/ Valid(Aliased(t), v)
                      \/ op = "GetWorkflow" /\ row # <<>> /\ row[1].bad # {}
                   /\ t = "NoContent" => o[2] = <<>>
      BY <1>6, <2>4 DEF Fitting, Nil, Outcome
    <3>2. PICK v \in AnyValue(Aliased(t)) :
             /\ o[1] = Typed(t, v)
             /\ impl = "api.Server" =>
                   /\ \/ Valid(Aliased(t), v)
                      \/ op = "GetWorkflow" /\ row # <<>> /\ row[1].bad # {}
                   /\ t = "NoContent" => o[2] = <<>>
      BY <3>1
    <3>3. response'[a] = Typed(t, v) /\ response'[a].type = t /\ response'[a].value = v
      BY <1>7, <3>2 DEF Typed
    <3>4. target'[a] = op /\ impl' = impl /\ row' = o[2]
      BY <1>1, <1>5 DEF callVars
    <3>5. op = "GetWorkflow" => row' = row
      BY <1>5, <1>6 DEF Fitting
    <3> QED
      BY <3>2, <3>3, <3>4, <3>5
  <2> QED
    BY <1>7, <2>1, <2>2, <2>3, <2>4 DEF HandledInv
<1>13. o[1].kind # "typed" => row' = row
  BY <1>5, <1>6 DEF Fitting
<1>14. CASE o[1].kind \in {"typed", "nil"} /\ Proceed(a) /\ UNCHANGED conn
  <2>1. /\ todo'[a] = Answering /\ UNCHANGED <<status, failed, wire>>
        /\ \A b \in Attempt : b # a => todo'[b] = todo[b]
    BY <1>2, <1>3, <1>14, StageTails, TwoRests DEF Proceed
  <2>2. Alone(a)
    BY <1>1, <1>7, <1>14, <2>1 DEF Alone, Idle, callVars, clientVars
  <2>3. Tables'
    BY <1>1, <1>3, <1>5, <1>14 DEF Inv, Tables, Proceed
  <2>4. o[1].kind = "typed" \/ o[1] = Nil
    <3>1. CASE o[1] \in {Nil, Outcome("error"), Outcome("unimplemented"), Outcome("panic")}
      BY <1>14, <3>1 DEF Outcome
    <3>2. CASE \E t, v : o[1] = Typed(t, v)
      BY <3>2 DEF Typed
    <3> QED
      BY <1>6, <3>1, <3>2 DEF Fitting
  <2>5. Pending(a)'
    <3>1. /\ status'[a] = 0 /\ failed'[a] = {} /\ wire'[a] = <<>>
          /\ target'[a] = Routed'.op /\ target'[a] \in Operation
          /\ ParamsAccepted(target[a])' /\ BodyAccepted(target[a])'
      BY <1>1, <1>2, <1>8, <2>1 DEF ParamsAccepted, BodyAccepted, callVars
    <3>2. seen'[a] # <<>> /\ (response'[a].kind = "typed" \/ response'[a] = Nil)
      BY <1>4, <1>7, <2>4
    <3> QED
      BY <2>1, <3>1, <3>2, TwoRests DEF Pending
  <2>6. target'[a] = target[a] /\ conn'[a] = conn[a] /\ Tail(todo[a]) # <<>>
    BY <1>1, <1>2, <1>14, StageTails, TwoRests
  <2> QED
    BY <1>2, <1>9, <1>10, <1>12, <1>14, <2>2, <2>3, <2>5, <2>6, Passing
<1>15. ASSUME NEW s \in {500, 501}, o[1].kind \in {"error", "unimplemented"},
              Refuse(a, s, "Internal"), UNCHANGED conn
       PROVE  Inv'
  <2>1. Alone(a)
    BY <1>1, <1>3, <1>7, <1>15 DEF Alone, Idle, Refuse, Write, callVars, clientVars
  <2>2. Tables'
    BY <1>1, <1>3, <1>5, <1>15 DEF Inv, Tables, Refuse, Write
  <2>3. row' = row /\ response'[a].kind # "typed" /\ Reason(a, s)
    BY <1>7, <1>13, <1>15 DEF Reason
  <2>4. UNCHANGED <<target, conn>> /\ target[a] = Routed.op /\ target[a] \in Operation
    BY <1>1, <1>2, <1>15
  <2> QED
    BY <1>2, <1>9, <1>12, <1>15, <2>1, <2>2, <2>3, <2>4, Refusal
<1>16. CASE /\ o[1].kind = "panic"
            /\ todo' = [todo EXCEPT ![a] = <<>>]
            /\ conn' = [conn EXCEPT ![a] = "broken"]
            /\ UNCHANGED <<status, failed, wire>>
  <2>1. Alone(a)
    BY <1>1, <1>3, <1>7, <1>16 DEF Alone, Idle, callVars, clientVars
  <2>2. Tables'
    BY <1>1, <1>3, <1>5, <1>16 DEF Inv, Tables
  <2>3. todo'[a] = <<>> /\ conn'[a] = "broken" /\ wire'[a] = <<>>
        /\ status'[a] = 0 /\ failed'[a] = {}
    BY <1>2, <1>3, <1>16
  <2>4. AttemptInv(a)'
    BY <1>1, <1>2, <1>9, <1>12, <2>3 DEF AttemptInv, AttemptTypes, WireInv, ArgsAsParsed, clientVars
  <2> QED
    BY <1>2, <1>10, <2>1, <2>2, <2>3, <2>4, AttemptStep
<1> QED
  BY <1>5, <1>14, <1>15, <1>16

-------------------------------------------------------------------------------
(* The theorems.                                                                *)
\* Nothing changes.
LEMMA Stuttering ==
    ASSUME Inv, UNCHANGED vars
    PROVE  Inv'
<1>1. UNCHANGED <<client, impl, sent, row, stage, attempts, result, serverVars, wire, conn>>
  BY DEF vars, callVars, clientVars
<1>2. Tables' /\ \A a \in Attempt : AttemptInv(a)'
  BY <1>1, AllIdle
<1>3. CallTypes'
  BY <1>1 DEF Inv, CallTypes
<1>4. ClientInv'
  <2>1. Built' <=> Built
    BY <1>1 DEF Built
  <2> QED
    BY <1>1, <2>1 DEF Inv, ClientInv
<1>5. ResultInv'
  BY <1>1 DEF Inv, ResultInv
<1> QED
  BY <1>2, <1>3, <1>4, <1>5 DEF Inv

\* Every step keeps the invariant.
LEMMA Preserved ==
    ASSUME Inv, [Next]_vars
    PROVE  Inv'
<1>1. CASE ClientStep
  <2>1. CASE BuildRequest
    BY <2>1, BuildRequestStep
  <2>2. CASE SecureRequest
    BY <2>2, SecureRequestStep
  <2>3. CASE SendRequest
    BY <2>3, SendRequestStep
  <2>4. CASE ConnectionLost
    BY <2>4, ConnectionLostStep
  <2>5. CASE ReceiveAnswer
    BY <2>5, ReceiveAnswerStep
  <2> QED
    BY <1>1, <2>1, <2>2, <2>3, <2>4, <2>5 DEF ClientStep
<1>2. ASSUME NEW a \in Attempt, ServerStep(a) PROVE Inv'
  <2>1. CASE RouteRequest(a)
    BY <2>1, RouteRequestStep
  <2>2. CASE CheckSecurity(a)
    BY <2>2, CheckSecurityStep
  <2>3. CASE DecodeParamsStage(a)
    BY <2>3, DecodeParamsStageStep
  <2>4. CASE DecodeRequestStage(a)
    BY <2>4, DecodeRequestStageStep
  <2>5. CASE CallHandler(a)
    BY <2>5, CallHandlerStep
  <2>6. CASE WriteResponse(a)
    BY <2>6, WriteResponseStep
  <2> QED
    BY <1>2, <2>1, <2>2, <2>3, <2>4, <2>5, <2>6 DEF ServerStep
<1>3. ASSUME NEW a \in Attempt, Break(a) PROVE Inv'
  BY <1>3, BreakStep
<1>4. CASE UNCHANGED vars
  BY <1>4, Stuttering
<1> QED
  BY <1>1, <1>2, <1>3, <1>4 DEF Next

(* What every reachable state of a call satisfies, stage by stage: each attempt *)
(* that was routed went where ServeHTTP sends the request, the checks it is past*)
(* were passed, and whatever is on the wire is the message of a refusal that had*)
(* its reason or the answer that the handler returned.                          *)
THEOREM InvCorrect == Spec => []Inv
<1>1. Init => Inv
  BY Initial
<1>2. Inv /\ [Next]_vars => Inv'
  BY Preserved
<1> QED
  BY <1>1, <1>2, PTL DEF Spec

(* The variables keep their types (TypeOK).                                     *)
THEOREM TypeCorrect == Spec => []TypeOK
<1>1. Inv => TypeOK
  BY InvImpliesTypes
<1> QED
  BY <1>1, InvCorrect, PTL

\* The request of a call is routed to the operation of the call.
LEMMA CallIsRouted ==
    ASSUME Inv, Called, stage # "BuildURL"
    PROVE  client \in Call /\ client.op \in Operation /\ Routed.op = client.op
<1>1. client \in Call /\ Built
  BY DEF Called, Inv, ClientInv
<1>2. PICK c \in Call : c = client
  BY <1>1
<1>3. c.op \in Operation
  BY CallAssumption
<1>4. sent.method = Send[c.op].method /\ sent.path = BuildURL(c.op, c.args)
  BY <1>1, <1>2 DEF Built, WireRequest
<1>5. ServeHTTP(Send[c.op].method, BuildURL(c.op, c.args)).op = c.op
  BY <1>3, CallsAreRouted
<1> QED
  BY <1>2, <1>3, <1>4, <1>5 DEF Routed

\* What the client makes of the answer to the attempt it waits for.
LEMMA Received ==
    ASSUME Inv, Called, NEW a \in Attempt, a = attempts, wire[a] # <<>>
    PROVE  /\ target[a] = client.op /\ client.op \in Operation
           /\ \E w : /\ wire[a] = <<w>> /\ (w.whole \/ conn[a] = "broken")
                    /\ \/ /\ Refused(a, w)
                          /\ \/ ResultOf(client.op, w) = Failure("DecodeResponse")
                             \/ /\ ResultOf(client.op, w) = Unexpected(w.status)
                                /\ w.status \notin DOMAIN DecodeResponse[client.op]
                       \/ /\ Answered(a, w)
                          /\ IF \/ response[a].type = "NoContent"
                                \/ w.whole /\ Valid(Aliased(response[a].type), response[a].value)
                             THEN /\ ResultOf(client.op, w) = response[a]
                                  /\ Valid(Aliased(response[a].type), response[a].value)
                             ELSE ResultOf(client.op, w) = Failure("DecodeResponse")
<1>1. stage # "BuildURL"
  BY DEF Inv, ClientInv, Attempt
<1>2. PICK op \in Operation : op = client.op /\ Routed.op = op
  BY <1>1, CallIsRouted
<1>3. AttemptInv(a)
  BY DEF Inv
<1>4. PICK w : /\ wire[a] = <<w>> /\ w.whole \in BOOLEAN /\ (w.whole \/ conn[a] = "broken")
               /\ Unrouted(a, w) \/ Refused(a, w) \/ Answered(a, w)
  BY <1>3 DEF AttemptInv, WireInv
<1>5. ~Unrouted(a, w)
  BY <1>2, OperationNames DEF Unrouted
<1>6. CASE Refused(a, w)
  <2>1. w.body = ErrorMessage /\ target[a] = op
    BY <1>2, <1>6 DEF Refused
  <2>2. w.status # 204
    BY <1>6 DEF Refused, Reason
  <2>3. \/ ResultOf(op, w) = Failure("DecodeResponse")
        \/ ResultOf(op, w) = Unexpected(w.status) /\ w.status \notin DOMAIN DecodeResponse[op]
    BY <2>1, <2>2, MessagesAreErrors
  <2> QED
    BY <1>2, <1>4, <1>6, <2>1, <2>3
<1>7. CASE Answered(a, w)
  <2>1. response[a].kind = "typed" /\ response[a] # Outcome("none")
    BY <1>7 DEF Answered, Outcome
  <2>2. PICK t, v : /\ t = response[a].type /\ v = response[a].value /\ response[a] = Typed(t, v)
    BY <1>3, <2>1 DEF AttemptInv, HandledInv
  <2>3. target[a] = op /\ t \in DOMAIN EncodeResponse[op] /\ v \in AnyValue(Aliased(t))
    BY <1>2, <1>3, <2>1, <2>2 DEF AttemptInv, HandledInv
  <2>4. Written(op, t, v, w)
    BY <1>4, <1>7, <2>2, <2>3 DEF Answered, AnswerOf, StatusOf, Answer, Written
  <2>5. Understood(op, t, v, w)
    BY <2>3, <2>4, AnswersAreUnderstood
  <2> QED
    BY <1>2, <1>4, <1>7, <2>2, <2>3, <2>5 DEF Understood
<1> QED
  BY <1>4, <1>5, <1>6, <1>7

\* What was written, as what was recorded.
LEMMA Honest == Inv => StatusesAreHonest
<1> SUFFICES ASSUME Inv PROVE RecordedIsWritten /\ RefusedMeansUntouched
  BY DEF StatusesAreHonest
<1>1. RecordedIsWritten
  <2> SUFFICES ASSUME NEW a \in Attempt, wire[a] # <<>>, target[a] \in Operation
               PROVE  \/ status[a] = wire[a][1].status
                      \/ status[a] = 500 /\ ~wire[a][1].whole /\ conn[a] = "broken"
    BY DEF RecordedIsWritten
  <2>1. PICK w : /\ wire[a] = <<w>> /\ (w.whole \/ conn[a] = "broken")
                 /\ Unrouted(a, w) \/ Refused(a, w) \/ Answered(a, w)
    BY DEF Inv, AttemptInv, WireInv
  <2>2. ~Unrouted(a, w)
    BY OperationNames DEF Unrouted
  <2>3. CASE Refused(a, w)
    BY <2>1, <2>3 DEF Refused
  <2>4. CASE Answered(a, w)
    BY <2>1, <2>4 DEF Answered
  <2> QED
    BY <2>1, <2>2, <2>3, <2>4
<1>2. RefusedMeansUntouched
  <2> SUFFICES ASSUME Called, result.kind = "error", result.status \in 400..499,
                      NEW b \in Attempt, Ran(b)
               PROVE  FALSE
    BY DEF RefusedMeansUntouched
  <2>1. client # NoCall /\ attempts > 0 /\ wire[attempts] # <<>>
        /\ result = ResultOf(client.op, wire[attempts][1])
    <3>1. result # NoResult /\ result # Outcome("raw")
      BY DEF NoResult, Outcome
    <3>2. \A at : result # Failure(at)
      BY DEF Failure
    <3> QED
      BY <3>1, <3>2 DEF Inv, ResultInv
  <2>2. PICK a \in Attempt : a = attempts
    BY <2>1 DEF Inv, CallTypes, Attempt
  <2>3. AttemptInv(b)
    BY DEF Inv
  <2>4. /\ Routed.op = target[b] /\ ParamsAccepted(Routed.op) /\ BodyAccepted(Routed.op)
    BY <2>3 DEF Ran, AttemptInv, HandledInv
  <2>5. target[a] = client.op /\ client.op = Routed.op
    <3>1. stage # "BuildURL"
      BY <2>1 DEF Inv, ClientInv
    <3> QED
      BY <2>1, <2>2, <3>1, CallIsRouted, Received
  <2>6. PICK w : /\ wire[a] = <<w>>
                 /\ \/ /\ Refused(a, w)
                       /\ \/ ResultOf(client.op, w) = Failure("DecodeResponse")
                          \/ /\ ResultOf(client.op, w) = Unexpected(w.status)
                             /\ w.status \notin DOMAIN DecodeResponse[client.op]
                    \/ /\ Answered(a, w)
                       /\ \/ ResultOf(client.op, w) = response[a]
                          \/ ResultOf(client.op, w) = Failure("DecodeResponse")
    BY <2>1, <2>2, Received
  <2>7. result = ResultOf(client.op, w) /\ result # Failure("DecodeResponse")
    BY <2>1, <2>2, <2>6 DEF Failure
  <2>8. CASE Answered(a, w) /\ ResultOf(client.op, w) = response[a]
    BY <2>7, <2>8 DEF Answered
  <2>9. CASE /\ Refused(a, w) /\ ResultOf(client.op, w) = Unexpected(w.status)
             /\ w.status \notin DOMAIN DecodeResponse[client.op]
    <3>1. w.status \in 400..499
      BY <2>7, <2>9 DEF Unexpected
    <3>2. Reason(a, w.status)
      BY <2>9 DEF Refused
    <3> QED
      BY <2>4, <2>5, <2>9, <3>1, <3>2 DEF Reason
  <2> QED
    BY <2>6, <2>7, <2>8, <2>9
<1> QED
  BY <1>1, <1>2

(* A status that blames the request and that the operation does not declare was *)
(* never given after a handler ran, and the status recorded is the one written  *)
(* unless the answer was cut (StatusesAreHonest, oas_handlers_gen.go).          *)
THEOREM HonestStatuses == Spec => []StatusesAreHonest
<1>1. Inv => StatusesAreHonest
  BY Honest
<1> QED
  BY <1>1, InvCorrect, PTL

\* An answer that a handler of api.Server gave cannot fail but for the row.
LEMMA Arrived ==
    ASSUME Inv
    PROVE  AnswersArrive
<1>1. ASSUME result.kind = "typed"
      PROVE  \E a \in Attempt :
                /\ a = attempts /\ target[a] = client.op /\ failed[a] = {} /\ response[a] = result
                /\ Valid(Aliased(result.type), result.value) /\ response[a].kind = "typed"
  <2>1. Called /\ attempts > 0 /\ wire[attempts] # <<>>
        /\ result = ResultOf(client.op, wire[attempts][1])
    <3>1. result # NoResult /\ result # Outcome("raw")
      BY <1>1 DEF NoResult, Outcome
    <3>2. \A at : result # Failure(at)
      BY <1>1 DEF Failure
    <3> QED
      BY <3>1, <3>2 DEF Inv, ResultInv, Called
  <2>2. PICK a \in Attempt : a = attempts
    BY <2>1 DEF Inv, CallTypes, Attempt
  <2>3. target[a] = client.op
    BY <2>1, <2>2, Received
  <2>4. PICK w : /\ wire[a] = <<w>>
                 /\ \/ /\ Refused(a, w)
                       /\ \/ ResultOf(client.op, w) = Failure("DecodeResponse")
                          \/ ResultOf(client.op, w) = Unexpected(w.status)
                    \/ /\ Answered(a, w)
                       /\ IF \/ response[a].type = "NoContent"
                             \/ w.whole /\ Valid(Aliased(response[a].type), response[a].value)
                          THEN /\ ResultOf(client.op, w) = response[a]
                               /\ Valid(Aliased(response[a].type), response[a].value)
                          ELSE ResultOf(client.op, w) = Failure("DecodeResponse")
    BY <2>1, <2>2, Received
  <2>5. /\ result = ResultOf(client.op, w) /\ result # Failure("DecodeResponse")
        /\ result # Unexpected(w.status)
    BY <1>1, <2>1, <2>2, <2>4 DEF Failure, Unexpected
  <2>6. /\ Answered(a, w) /\ result = response[a]
        /\ response[a].type = "NoContent" \/ w.whole
        /\ Valid(Aliased(response[a].type), response[a].value)
    BY <2>4, <2>5
  <2>7. failed[a] = {} /\ response[a].kind = "typed"
    BY <2>6 DEF Answered
  <2> QED
    BY <2>2, <2>3, <2>6, <2>7
<1>2. TypedAnswerIsTheHandlers
  BY <1>1 DEF TypedAnswerIsTheHandlers
<1>3. CountedErrorsAreSeen
  BY <1>1 DEF CountedErrorsAreSeen
<1>4. DeletedIsGone
  <2> SUFFICES ASSUME impl = "api.Server", result.kind = "typed", result.type = "NoContent"
               PROVE  row = <<>>
    BY DEF DeletedIsGone
  <2>1. PICK a \in Attempt : response[a] = result
    BY <1>1
  <2>2. HandledInv(a)
    BY DEF Inv, AttemptInv
  <2> QED
    BY <2>1, <2>2 DEF HandledInv
<1>5. LostOnlyToFaults
  <2> SUFFICES ASSUME Called, result.kind = "error", attempts > 0, response[attempts].kind = "typed",
                      \A a \in Attempt : conn[a] # "broken"
               PROVE  /\ ~Valid(Aliased(response[attempts].type), response[attempts].value)
                      /\ impl = "api.Server" => row # <<>> /\ row[1].bad # {}
    BY DEF LostOnlyToFaults
  <2>1. PICK a \in Attempt : a = attempts
    BY DEF Inv, CallTypes, Attempt
  <2>2. wire[a] # <<>> /\ result = ResultOf(client.op, wire[a][1])
    <3>1. result # NoResult /\ result # Outcome("raw")
      BY DEF NoResult, Outcome
    <3>2. conn[attempts] # "broken"
      BY <2>1
    <3> QED
      BY <2>1, <3>1, <3>2 DEF Inv, ResultInv
  <2>3. PICK w : /\ wire[a] = <<w>> /\ (w.whole \/ conn[a] = "broken")
                 /\ \/ Refused(a, w)
                    \/ /\ Answered(a, w)
                       /\ IF \/ response[a].type = "NoContent"
                             \/ w.whole /\ Valid(Aliased(response[a].type), response[a].value)
                          THEN ResultOf(client.op, w) = response[a]
                          ELSE ResultOf(client.op, w) = Failure("DecodeResponse")
    BY <2>1, <2>2, Received
  <2>4. Answered(a, w) /\ w.whole
    BY <2>1, <2>3 DEF Refused
  <2>5. result = ResultOf(client.op, w)
    BY <2>2, <2>3
  <2>6. ~Valid(Aliased(response[a].type), response[a].value)
    BY <2>1, <2>3, <2>4, <2>5 DEF Refused
  <2>7. HandledInv(a)
    BY DEF Inv, AttemptInv
  <2> QED
    BY <2>1, <2>6, <2>7 DEF HandledInv
<1> QED
  BY <1>2, <1>3, <1>4, <1>5 DEF AnswersArrive

(* A typed result is the value that the handler of the call's own operation     *)
(* returned, whole and valid, and was not counted as an error; an answer is lost*)
(* only to a broken connection or to a value that breaks the document; and a    *)
(* deletion that api.Server confirms left no row, however often it was sent     *)
(* (AnswersArrive, oas_response_decoders_gen.go, handlers.go).                  *)
THEOREM AnswersDoArrive == Spec => []AnswersArrive
<1>1. Inv => AnswersArrive
  BY Arrived
<1> QED
  BY <1>1, InvCorrect, PTL

\* Both routers agree, and the handler that runs sees the call as it was made.
LEMMA Directed ==
    ASSUME Inv
    PROVE  RoutedAsCalled
<1>1. RoutersAgree
  <2>1. PICK m, p : m = sent.method /\ p = sent.path
    OBVIOUS
  <2>2. CASE ServeHTTP(m, p).op \in Operation
    <3>1. FindPath(m, p) = Route(ServeHTTP(m, p).op, Len(ServeHTTP(m, p).args), ServeHTTP(m, p).args)
      BY <2>2, RoutersDoAgree
    <3> QED
      BY <2>1, <2>2, <3>1 DEF RoutersAgree, Route
  <2>3. CASE ServeHTTP(m, p).op \notin Operation
    <3>1. FindPath(m, p) = NotFoundRoute
      BY <2>3, RoutersDoAgree
    <3> QED
      BY <2>1, <2>3, <3>1 DEF RoutersAgree
  <2> QED
    BY <2>2, <2>3
<1>2. HandlerSeesTheCall
  <2> SUFFICES ASSUME NEW a \in Attempt, Called, Ran(a)
               PROVE  /\ target[a] = client.op
                      /\ seen[a][1].req = client.req
                      /\ \A name \in DOMAIN client.query :
                            client.query[name] # <<>> => seen[a][1].query[name] = client.query[name]
                      /\ \A name \in DOMAIN seen[a][1].query :
                            /\ name = "page" /\ client.query[name] = <<>> => seen[a][1].query[name] = <<1>>
                            /\ name = "limit" /\ client.query[name] = <<>> => seen[a][1].query[name] = <<20>>
                            /\ name = "limit" => seen[a][1].query[name][1] \in 1..100
    BY DEF HandlerSeesTheCall
  <2>1. HandledInv(a) /\ ~(a > attempts)
    BY DEF Inv, AttemptInv, Untouched, Ran
  <2>2. stage # "BuildURL"
    BY <2>1 DEF Inv, ClientInv, Attempt
  <2>3. PICK c \in Call : c = client
    BY <2>2, CallIsRouted
  <2>4. c.op \in Operation /\ Routed.op = c.op
    BY <2>2, <2>3, CallIsRouted
  <2>5. sent.query = c.query /\ sent.body = EncodeRequest(c.op, c.req)
    BY <2>2, <2>3 DEF Called, Inv, ClientInv, Built, WireRequest
  <2>6. target[a] = c.op /\ ParamsAccepted(c.op)
        /\ seen[a][1].query = QuerySeen(c.op, c.query)
        /\ seen[a][1].req = RequestSeen(c.op, EncodeRequest(c.op, c.req))
    BY <2>1, <2>4, <2>5 DEF HandledInv, Ran
  <2>7. seen[a][1].req = c.req
    BY <2>6, BodiesArrive
  <2>8. DOMAIN c.query = DecodeParams[c.op].query
    BY <2>4, CallAssumption, StagesMatch
  <2>9. ASSUME NEW name \in DOMAIN c.query
        PROVE  QuerySeen(c.op, c.query)[name] =
                   IF c.query[name] # <<>> THEN c.query[name] ELSE DefaultOf(name)
    BY <2>8 DEF QuerySeen
  <2>10. DOMAIN QuerySeen(c.op, c.query) = DOMAIN c.query
    BY <2>8 DEF QuerySeen
  <2>11. DefaultOf("page") = <<1>> /\ DefaultOf("limit") = <<20>>
    BY DEF DefaultOf, DefaultPage, DefaultLimit
  <2>12. "limit" \in DOMAIN c.query => QuerySeen(c.op, c.query)["limit"][1] \in 1..100
    BY <2>4, <2>5, <2>6, <2>8, PagesAreInRange DEF ParamsAccepted
  <2> QED
    BY <2>3, <2>6, <2>7, <2>9, <2>10, <2>11, <2>12
<1> QED
  BY <1>1, <1>2 DEF RoutedAsCalled

(* The two routers agree on every request, and a handler that runs for a call is*)
(* that of its operation and sees its body, its query and the defaults          *)
(* (RoutedAsCalled, oas_router_gen.go, oas_client_gen.go).                      *)
THEOREM RoutedRight == Spec => []RoutedAsCalled
<1>1. Inv => RoutedAsCalled
  BY Directed
<1> QED
  BY <1>1, InvCorrect, PTL

===============================================================================
