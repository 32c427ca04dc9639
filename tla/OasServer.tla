------------------------------ MODULE OasServer ------------------------------
(* The server half of package oas as tables: the router, the stages of every  *)
(* handler, what its decoders accept and what its response encoders write.    *)
(* A path is the sequence of its segments; a text in it is "uuid" for the     *)
(* text of a UUID, "workflow" for a resource type and anything else for what  *)
(* neither parses nor validates.                                              *)
EXTENDS OasSchemas, Naturals, Sequences

To(op, args) == [op |-> op, args |-> args]
NoRoute == [none |-> To("NotFound", <<>>)]

\* Mutant: a sub-resource of an alert that is not compared.
LooseAlertRoutes(p) ==
    CASE Len(p) = 1 -> [GET |-> To("ListAlerts", <<>>), POST |-> To("CreateAlert", <<>>)]
      [] Len(p) = 2 -> [GET |-> To("GetAlert", <<p[2]>>)]
      [] Len(p) = 3 -> [POST |-> To("AcknowledgeAlert", <<p[2]>>)]
      [] OTHER -> NoRoute

(* ServeHTTP, by its subtrees: the methods of a path, and what each calls.    *)
AlertRoutes(p) ==
    CASE Len(p) = 1 -> [GET |-> To("ListAlerts", <<>>), POST |-> To("CreateAlert", <<>>)]
      [] Len(p) = 2 -> [GET |-> To("GetAlert", <<p[2]>>)]
      [] Len(p) = 3 /\ p[3] = "acknowledge" -> [POST |-> To("AcknowledgeAlert", <<p[2]>>)]
      [] Len(p) = 3 /\ p[3] = "resolve" -> [POST |-> To("ResolveAlert", <<p[2]>>)]
      [] OTHER -> NoRoute

AuditLogRoutes(p) ==
    CASE Len(p) = 1 -> [GET |-> To("ListAuditLogs", <<>>)]
      [] Len(p) = 4 /\ p[2] = "resource" -> [GET |-> To("ListAuditLogsByResource", <<p[3], p[4]>>)]
      [] Len(p) = 3 /\ p[2] = "user" -> [GET |-> To("ListAuditLogsByUser", <<p[3]>>)]
      [] OTHER -> NoRoute

ExecutionRoutes(p) ==
    CASE Len(p) = 1 -> [GET |-> To("ListExecutions", <<>>)]
      [] Len(p) = 2 -> [GET |-> To("GetExecution", <<p[2]>>)]
      [] Len(p) = 3 /\ p[3] = "cancel" -> [POST |-> To("CancelExecution", <<p[2]>>)]
      [] OTHER -> NoRoute

HealthRoutes(p) ==
    CASE Len(p) = 1 -> [GET |-> To("HealthCheck", <<>>)]
      [] Len(p) = 2 /\ p[2] = "live" -> [GET |-> To("LivenessProbe", <<>>)]
      [] Len(p) = 2 /\ p[2] = "ready" -> [GET |-> To("ReadinessProbe", <<>>)]
      [] OTHER -> NoRoute

WorkflowRoutes(p) ==
    CASE Len(p) = 1 -> [GET |-> To("ListWorkflows", <<>>), POST |-> To("CreateWorkflow", <<>>)]
      [] Len(p) = 2 -> [DELETE |-> To("DeleteWorkflow", <<p[2]>>), GET |-> To("GetWorkflow", <<p[2]>>),
                        PUT |-> To("UpdateWorkflow", <<p[2]>>)]
      [] Len(p) = 3 /\ p[3] = "execute" -> [POST |-> To("ExecuteWorkflow", <<p[2]>>)]
      [] Len(p) = 3 /\ p[3] = "executions" -> [GET |-> To("ListWorkflowExecutions", <<p[2]>>)]
      [] OTHER -> NoRoute

RoutesOf(p) ==
    CASE p = <<>>                          -> NoRoute
      [] p # <<>> /\ p[1] = "alerts"       -> AlertRoutes(p)
      [] p # <<>> /\ p[1] = "audit-logs"   -> AuditLogRoutes(p)
      [] p # <<>> /\ p[1] = "executions"   -> ExecutionRoutes(p)
      [] p # <<>> /\ p[1] = "health"       -> HealthRoutes(p)
      [] p # <<>> /\ p[1] = "workflows"    -> WorkflowRoutes(p)
      [] OTHER                             -> NoRoute

ServeHTTP(method, p) ==
    CASE RoutesOf(p) = NoRoute -> To("NotFound", <<>>)
      [] RoutesOf(p) # NoRoute /\ method \in DOMAIN RoutesOf(p) -> RoutesOf(p)[method]
      [] OTHER -> To("NotAllowed", <<>>)

(* FindPath walks the same tree on its own: the name, the number of arguments *)
(* and the arguments of the route, or no route at all.                        *)
Route(name, count, args) == [name |-> name, count |-> count, args |-> args]
NotFoundRoute == Route("", 0, <<>>)

FindAlert(m, p) ==
    CASE Len(p) = 1 /\ m = "GET" -> Route("ListAlerts", 0, <<>>)
      [] Len(p) = 1 /\ m = "POST" -> Route("CreateAlert", 0, <<>>)
      [] Len(p) = 2 /\ m = "GET" -> Route("GetAlert", 1, <<p[2]>>)
      [] Len(p) = 3 /\ m = "POST" /\ p[3] = "acknowledge" -> Route("AcknowledgeAlert", 1, <<p[2]>>)
      [] Len(p) = 3 /\ m = "POST" /\ p[3] = "resolve" -> Route("ResolveAlert", 1, <<p[2]>>)
      [] OTHER -> NotFoundRoute

FindAuditLog(m, p) ==
    CASE Len(p) = 1 /\ m = "GET" -> Route("ListAuditLogs", 0, <<>>)
      [] Len(p) = 4 /\ m = "GET" /\ p[2] = "resource" ->
            Route("ListAuditLogsByResource", 2, <<p[3], p[4]>>)
      [] Len(p) = 3 /\ m = "GET" /\ p[2] = "user" -> Route("ListAuditLogsByUser", 1, <<p[3]>>)
      [] OTHER -> NotFoundRoute

FindExecution(m, p) ==
    CASE Len(p) = 1 /\ m = "GET" -> Route("ListExecutions", 0, <<>>)
      [] Len(p) = 2 /\ m = "GET" -> Route("GetExecution", 1, <<p[2]>>)
      [] Len(p) = 3 /\ m = "POST" /\ p[3] = "cancel" -> Route("CancelExecution", 1, <<p[2]>>)
      [] OTHER -> NotFoundRoute

FindHealth(m, p) ==
    CASE Len(p) = 1 /\ m = "GET" -> Route("HealthCheck", 0, <<>>)
      [] Len(p) = 2 /\ m = "GET" /\ p[2] = "live" -> Route("LivenessProbe", 0, <<>>)
      [] Len(p) = 2 /\ m = "GET" /\ p[2] = "ready" -> Route("ReadinessProbe", 0, <<>>)
      [] OTHER -> NotFoundRoute

FindWorkflow(m, p) ==
    CASE Len(p) = 1 /\ m = "GET" -> Route("ListWorkflows", 0, <<>>)
      [] Len(p) = 1 /\ m = "POST" -> Route("CreateWorkflow", 0, <<>>)
      [] Len(p) = 2 /\ m = "DELETE" -> Route("DeleteWorkflow", 1, <<p[2]>>)
      [] Len(p) = 2 /\ m = "GET" -> Route("GetWorkflow", 1, <<p[2]>>)
      [] Len(p) = 2 /\ m = "PUT" -> Route("UpdateWorkflow", 1, <<p[2]>>)
      [] Len(p) = 3 /\ m = "POST" /\ p[3] = "execute" -> Route("ExecuteWorkflow", 1, <<p[2]>>)
      [] Len(p) = 3 /\ m = "GET" /\ p[3] = "executions" ->
            Route("ListWorkflowExecutions", 1, <<p[2]>>)
      [] OTHER -> NotFoundRoute

FindPath(m, p) ==
    CASE p = <<>>                        -> NotFoundRoute
      [] p # <<>> /\ p[1] = "alerts"     -> FindAlert(m, p)
      [] p # <<>> /\ p[1] = "audit-logs" -> FindAuditLog(m, p)
      [] p # <<>> /\ p[1] = "executions" -> FindExecution(m, p)
      [] p # <<>> /\ p[1] = "health"     -> FindHealth(m, p)
      [] p # <<>> /\ p[1] = "workflows"  -> FindWorkflow(m, p)
      [] OTHER                           -> NotFoundRoute

-----------------------------------------------------------------------------
(* The stages of each handler, in order, as it names them for its errors.     *)
HandleAcknowledgeAlert == <<"Security", "DecodeParams", "Internal", "EncodeResponse">>
HandleCancelExecution == <<"Security", "DecodeParams", "Internal", "EncodeResponse">>
HandleCreateAlert == <<"Security", "DecodeRequest", "Internal", "EncodeResponse">>
HandleCreateWorkflow == <<"Security", "DecodeRequest", "Internal", "EncodeResponse">>
HandleDeleteWorkflow == <<"Security", "DecodeParams", "Internal", "EncodeResponse">>
HandleExecuteWorkflow == <<"Security", "DecodeParams", "DecodeRequest", "Internal", "EncodeResponse">>
\* Mutant: the id is passed on as it came.
HandleGetAlertUnparsed == <<"Security", "Internal", "EncodeResponse">>

HandleGetAlert == <<"Security", "DecodeParams", "Internal", "EncodeResponse">>
HandleGetExecution == <<"Security", "DecodeParams", "Internal", "EncodeResponse">>
HandleGetWorkflow == <<"Security", "DecodeParams", "Internal", "EncodeResponse">>
HandleHealthCheck == <<"Internal", "EncodeResponse">>
HandleListAlerts == <<"Security", "DecodeParams", "Internal", "EncodeResponse">>
HandleListAuditLogs == <<"Security", "DecodeParams", "Internal", "EncodeResponse">>
HandleListAuditLogsByResource == <<"Security", "DecodeParams", "Internal", "EncodeResponse">>
HandleListAuditLogsByUser == <<"Security", "DecodeParams", "Internal", "EncodeResponse">>
HandleListExecutions == <<"Security", "DecodeParams", "Internal", "EncodeResponse">>
HandleListWorkflowExecutions == <<"Security", "DecodeParams", "Internal", "EncodeResponse">>
HandleListWorkflows == <<"Security", "DecodeParams", "Internal", "EncodeResponse">>
HandleLivenessProbe == <<"Internal", "EncodeResponse">>
HandleReadinessProbe == <<"Internal", "EncodeResponse">>
HandleResolveAlert == <<"Security", "DecodeParams", "Internal", "EncodeResponse">>
HandleUpdateWorkflow == <<"Security", "DecodeParams", "DecodeRequest", "Internal", "EncodeResponse">>

Handle == [AcknowledgeAlert |-> HandleAcknowledgeAlert,
           CancelExecution |-> HandleCancelExecution, CreateAlert |-> HandleCreateAlert,
           CreateWorkflow |-> HandleCreateWorkflow, DeleteWorkflow |-> HandleDeleteWorkflow,
           ExecuteWorkflow |-> HandleExecuteWorkflow, GetAlert |-> HandleGetAlert,
           GetExecution |-> HandleGetExecution, GetWorkflow |-> HandleGetWorkflow,
           HealthCheck |-> HandleHealthCheck, ListAlerts |-> HandleListAlerts,
           ListAuditLogs |-> HandleListAuditLogs,
           ListAuditLogsByResource |-> HandleListAuditLogsByResource,
           ListAuditLogsByUser |-> HandleListAuditLogsByUser,
           ListExecutions |-> HandleListExecutions,
           ListWorkflowExecutions |-> HandleListWorkflowExecutions,
           ListWorkflows |-> HandleListWorkflows, LivenessProbe |-> HandleLivenessProbe,
           ReadinessProbe |-> HandleReadinessProbe, ResolveAlert |-> HandleResolveAlert,
           UpdateWorkflow |-> HandleUpdateWorkflow]

Operation == DOMAIN Handle

-----------------------------------------------------------------------------
(* Parameters. path: the text a path parameter must have, in order; query: the*)
(* names read from the query; limited: those of them that are compared with an*)
(* enumeration or a length. page and limit have a range and a default.        *)
Params(path, query, limited) == [path |-> path, query |-> query, limited |-> limited]

DecodeAcknowledgeAlertParams == Params(<<"uuid">>, {}, {})
DecodeCancelExecutionParams == Params(<<"uuid">>, {}, {})
DecodeDeleteWorkflowParams == Params(<<"uuid">>, {}, {})
DecodeExecuteWorkflowParams == Params(<<"uuid">>, {}, {})
DecodeGetAlertParams == Params(<<"uuid">>, {}, {})
DecodeGetExecutionParams == Params(<<"uuid">>, {}, {})
DecodeGetWorkflowParams == Params(<<"uuid">>, {}, {})
DecodeListAlertsParams ==
    Params(<<>>, {"page", "limit", "status", "severity"}, {"status", "severity"})
DecodeListAuditLogsParams ==
    Params(<<>>, {"page", "limit", "event_type", "resource_type", "action"}, {"resource_type", "action"})
DecodeListAuditLogsByResourceParams == Params(<<"workflow", "uuid">>, {"page", "limit"}, {})
DecodeListAuditLogsByUserParams == Params(<<"uuid">>, {"page", "limit"}, {})
DecodeListExecutionsParams == Params(<<>>, {"page", "limit", "status"}, {"status"})
DecodeListWorkflowExecutionsParams ==
    Params(<<"uuid">>, {"page", "limit", "status"}, {"status"})
DecodeListWorkflowsParams ==
    Params(<<>>, {"page", "limit", "status", "search"}, {"status", "search"})
DecodeResolveAlertParams == Params(<<"uuid">>, {}, {})
DecodeUpdateWorkflowParams == Params(<<"uuid">>, {}, {})

NoParams == Params(<<>>, {}, {})
DecodeParams == [AcknowledgeAlert |-> DecodeAcknowledgeAlertParams,
                 CancelExecution |-> DecodeCancelExecutionParams, CreateAlert |-> NoParams,
                 CreateWorkflow |-> NoParams, DeleteWorkflow |-> DecodeDeleteWorkflowParams,
                 ExecuteWorkflow |-> DecodeExecuteWorkflowParams,
                 GetAlert |-> DecodeGetAlertParams,
                 GetExecution |-> DecodeGetExecutionParams,
                 GetWorkflow |-> DecodeGetWorkflowParams, HealthCheck |-> NoParams,
                 ListAlerts |-> DecodeListAlertsParams,
                 ListAuditLogs |-> DecodeListAuditLogsParams,
                 ListAuditLogsByResource |-> DecodeListAuditLogsByResourceParams,
                 ListAuditLogsByUser |-> DecodeListAuditLogsByUserParams,
                 ListExecutions |-> DecodeListExecutionsParams,
                 ListWorkflowExecutions |-> DecodeListWorkflowExecutionsParams,
                 ListWorkflows |-> DecodeListWorkflowsParams, LivenessProbe |-> NoParams,
                 ReadinessProbe |-> NoParams, ResolveAlert |-> DecodeResolveAlertParams,
                 UpdateWorkflow |-> DecodeUpdateWorkflowParams]

DefaultPage == 1
DefaultLimit == 20
MaxLimit == 100

\* Mutant: a limit without a maximum.
InAnyRange(name, v) ==
    CASE name = "page"  -> v >= 1
      [] name = "limit" -> v >= 1
      [] OTHER          -> v = "ok"

(* What a query parameter may be; a text is "ok" or not.                      *)
InRange(name, v) ==
    CASE name = "page"  -> v \in Nat \ {0}
      [] name = "limit" -> v \in 1..MaxLimit
      [] OTHER          -> v = "ok"

(* A query is a function of names, <<>> for an absent one and <<v>> otherwise.*)
ParamsDecode(op, args, query) ==
    /\ args = DecodeParams[op].path
    /\ \A name \in DecodeParams[op].query \intersect DOMAIN query :
           (query[name] # <<>> /\ name \in DecodeParams[op].limited \union {"page", "limit"}) =>
               InRange(name, query[name][1])

DefaultOf(name) ==
    CASE name = "page"  -> <<DefaultPage>>
      [] name = "limit" -> <<DefaultLimit>>
      [] OTHER          -> <<>>

(* The query as the handler sees it.                                          *)
QuerySeen(op, query) ==
    [name \in DecodeParams[op].query |->
        IF name \in DOMAIN query /\ query[name] # <<>> THEN query[name] ELSE DefaultOf(name)]

-----------------------------------------------------------------------------
(* Request bodies: the message, and whether the operation can do without. A   *)
(* body is [ct, content]: the media type, "" for no header at all, and <<>>   *)
(* or <<what is in it>>.                                                      *)
DecodeCreateAlertRequest == [message |-> "CreateAlertRequest", optional |-> FALSE]
DecodeCreateWorkflowRequest == [message |-> "CreateWorkflowRequest", optional |-> FALSE]
DecodeExecuteWorkflowRequest == [message |-> "ExecuteWorkflowRequest", optional |-> TRUE]
DecodeUpdateWorkflowRequest == [message |-> "UpdateWorkflowRequest", optional |-> FALSE]
NoBody == [message |-> "Nothing", optional |-> TRUE]

DecodeRequest == [AcknowledgeAlert |-> NoBody, CancelExecution |-> NoBody,
                  CreateAlert |-> DecodeCreateAlertRequest,
                  CreateWorkflow |-> DecodeCreateWorkflowRequest, DeleteWorkflow |-> NoBody,
                  ExecuteWorkflow |-> DecodeExecuteWorkflowRequest, GetAlert |-> NoBody,
                  GetExecution |-> NoBody, GetWorkflow |-> NoBody, HealthCheck |-> NoBody,
                  ListAlerts |-> NoBody, ListAuditLogs |-> NoBody,
                  ListAuditLogsByResource |-> NoBody, ListAuditLogsByUser |-> NoBody,
                  ListExecutions |-> NoBody, ListWorkflowExecutions |-> NoBody,
                  ListWorkflows |-> NoBody, LivenessProbe |-> NoBody,
                  ReadinessProbe |-> NoBody, ResolveAlert |-> NoBody,
                  UpdateWorkflow |-> DecodeUpdateWorkflowRequest]

(* 0 when the body decodes; otherwise the status of the error.                *)
RequestError(op, body) ==
    LET d == DecodeRequest[op]
    IN  CASE body.ct = "other" -> 415
          [] body.ct = ""      -> IF d.optional /\ body.content = <<>> THEN 0 ELSE 400
          [] body.ct = "json"  ->
                IF body.content = <<>> THEN IF d.optional THEN 0 ELSE 400
                ELSE IF /\ Decodes(d.message, body.content[1])
                        /\ Valid(d.message, Decoded(d.message, body.content[1])) THEN 0 ELSE 400

RequestSeen(op, body) ==
    IF body.content = <<>> THEN <<>>
    ELSE <<Decoded(DecodeRequest[op].message, body.content[1])>>

-----------------------------------------------------------------------------
(* The answers each operation has, with their status. A type is named by what *)
(* follows the name of the operation: Unauthorized is AcknowledgeAlertUnauth- *)
(* orized for AcknowledgeAlert.                                               *)
EncodeAcknowledgeAlertResponse == [AlertResponse |-> 200, Unauthorized |-> 401,
                                   NotFound |-> 404, UnprocessableEntity |-> 422,
                                   InternalServerError |-> 500]
EncodeCancelExecutionResponse == [ExecutionResponse |-> 200, Unauthorized |-> 401,
                                  NotFound |-> 404, UnprocessableEntity |-> 422,
                                  InternalServerError |-> 500]
EncodeCreateAlertResponse == [AlertResponse |-> 201, BadRequest |-> 400,
                              Unauthorized |-> 401, InternalServerError |-> 500]
EncodeCreateWorkflowResponse == [WorkflowResponse |-> 201, BadRequest |-> 400,
                                 Unauthorized |-> 401, Conflict |-> 409,
                                 InternalServerError |-> 500]
EncodeDeleteWorkflowResponse == [NoContent |-> 204, Unauthorized |-> 401, NotFound |-> 404,
                                 InternalServerError |-> 500]
EncodeExecuteWorkflowResponse == [ExecutionResponse |-> 202, BadRequest |-> 400,
                                  Unauthorized |-> 401, NotFound |-> 404,
                                  UnprocessableEntity |-> 422, InternalServerError |-> 500]
EncodeGetAlertResponse == [AlertResponse |-> 200, Unauthorized |-> 401, NotFound |-> 404,
                           InternalServerError |-> 500]
EncodeGetExecutionResponse == [ExecutionResponse |-> 200, Unauthorized |-> 401,
                               NotFound |-> 404, InternalServerError |-> 500]
EncodeGetWorkflowResponse == [WorkflowResponse |-> 200, Unauthorized |-> 401,
                              NotFound |-> 404, InternalServerError |-> 500]
EncodeHealthCheckResponse == [OK |-> 200, ServiceUnavailable |-> 503]
EncodeListAlertsResponse == [PaginatedAlerts |-> 200, Unauthorized |-> 401,
                             InternalServerError |-> 500]
EncodeListAuditLogsResponse == [PaginatedAuditLogs |-> 200, Unauthorized |-> 401,
                                InternalServerError |-> 500]
EncodeListAuditLogsByResourceResponse == [PaginatedAuditLogs |-> 200, Unauthorized |-> 401,
                                          NotFound |-> 404, InternalServerError |-> 500]
EncodeListAuditLogsByUserResponse == [PaginatedAuditLogs |-> 200, Unauthorized |-> 401,
                                      NotFound |-> 404, InternalServerError |-> 500]
EncodeListExecutionsResponse == [PaginatedExecutions |-> 200, Unauthorized |-> 401,
                                 InternalServerError |-> 500]
EncodeListWorkflowExecutionsResponse == [PaginatedExecutions |-> 200, Unauthorized |-> 401,
                                         NotFound |-> 404, InternalServerError |-> 500]
EncodeListWorkflowsResponse == [PaginatedWorkflows |-> 200, Unauthorized |-> 401,
                                InternalServerError |-> 500]
EncodeLivenessProbeResponse == [OK |-> 200, ServiceUnavailable |-> 503]
EncodeReadinessProbeResponse == [OK |-> 200, ServiceUnavailable |-> 503]
EncodeResolveAlertResponse == [AlertResponse |-> 200, Unauthorized |-> 401,
                               NotFound |-> 404, UnprocessableEntity |-> 422,
                               InternalServerError |-> 500]
EncodeUpdateWorkflowResponse == [WorkflowResponse |-> 200, BadRequest |-> 400,
                                 Unauthorized |-> 401, NotFound |-> 404,
                                 InternalServerError |-> 500]

EncodeResponse == [AcknowledgeAlert |-> EncodeAcknowledgeAlertResponse,
                   CancelExecution |-> EncodeCancelExecutionResponse,
                   CreateAlert |-> EncodeCreateAlertResponse,
                   CreateWorkflow |-> EncodeCreateWorkflowResponse,
                   DeleteWorkflow |-> EncodeDeleteWorkflowResponse,
                   ExecuteWorkflow |-> EncodeExecuteWorkflowResponse,
                   GetAlert |-> EncodeGetAlertResponse,
                   GetExecution |-> EncodeGetExecutionResponse,
                   GetWorkflow |-> EncodeGetWorkflowResponse,
                   HealthCheck |-> EncodeHealthCheckResponse,
                   ListAlerts |-> EncodeListAlertsResponse,
                   ListAuditLogs |-> EncodeListAuditLogsResponse,
                   ListAuditLogsByResource |-> EncodeListAuditLogsByResourceResponse,
                   ListAuditLogsByUser |-> EncodeListAuditLogsByUserResponse,
                   ListExecutions |-> EncodeListExecutionsResponse,
                   ListWorkflowExecutions |-> EncodeListWorkflowExecutionsResponse,
                   ListWorkflows |-> EncodeListWorkflowsResponse,
                   LivenessProbe |-> EncodeLivenessProbeResponse,
                   ReadinessProbe |-> EncodeReadinessProbeResponse,
                   ResolveAlert |-> EncodeResolveAlertResponse,
                   UpdateWorkflow |-> EncodeUpdateWorkflowResponse]

(* The message an answer is an alias of.                                      *)
Aliased(type) ==
    CASE type \in {"OK", "ServiceUnavailable"} -> "HealthStatus"
      [] type \in {"Unauthorized", "NotFound", "UnprocessableEntity", "BadRequest", "Conflict",
                   "InternalServerError"} -> "Error"
      [] type = "NoContent" -> "Nothing"
      [] OTHER -> type
=============================================================================
