------------------------------ MODULE OasClient ------------------------------
(* The client half of package oas as tables: the request each method sends and*)
(* what it makes of the answers. It is generated from the same document as the*)
(* server half, by other templates.                                           *)
EXTENDS OasSchemas, Integers, Sequences

Request(method, path, query, body, secured) ==
    [method |-> method, path |-> path, query |-> query, body |-> body, secured |-> secured]

SendAcknowledgeAlert ==
    Request("POST", <<"alerts", "id", "acknowledge">>,
            {}, "Nothing", TRUE)
SendCancelExecution == Request("POST", <<"executions", "id", "cancel">>, {}, "Nothing", TRUE)
SendCreateAlert == Request("POST", <<"alerts">>, {}, "CreateAlertRequest", TRUE)
SendCreateWorkflow == Request("POST", <<"workflows">>, {}, "CreateWorkflowRequest", TRUE)
SendDeleteWorkflow == Request("DELETE", <<"workflows", "id">>, {}, "Nothing", TRUE)
SendExecuteWorkflow ==
    Request("POST", <<"workflows", "id", "execute">>,
            {}, "ExecuteWorkflowRequest", TRUE)
SendGetAlert == Request("GET", <<"alerts", "id">>, {}, "Nothing", TRUE)
SendGetExecution == Request("GET", <<"executions", "id">>, {}, "Nothing", TRUE)
SendGetWorkflow == Request("GET", <<"workflows", "id">>, {}, "Nothing", TRUE)
SendHealthCheck == Request("GET", <<"health">>, {}, "Nothing", FALSE)
SendListAlerts ==
    Request("GET", <<"alerts">>,
            {"page", "limit", "status", "severity"}, "Nothing", TRUE)
SendListAuditLogs ==
    Request("GET", <<"audit-logs">>,
            {"page", "limit", "event_type", "resource_type", "action"}, "Nothing", TRUE)
SendListAuditLogsByResource ==
    Request("GET", <<"audit-logs", "resource", "resourceType", "resourceId">>,
            {"page", "limit"}, "Nothing", TRUE)
SendListAuditLogsByUser ==
    Request("GET", <<"audit-logs", "user", "userId">>,
            {"page", "limit"}, "Nothing", TRUE)
SendListExecutions ==
    Request("GET", <<"executions">>,
            {"page", "limit", "status"}, "Nothing", TRUE)
SendListWorkflowExecutions ==
    Request("GET", <<"workflows", "id", "executions">>,
            {"page", "limit", "status"}, "Nothing", TRUE)
SendListWorkflows ==
    Request("GET", <<"workflows">>,
            {"page", "limit", "status", "search"}, "Nothing", TRUE)
SendLivenessProbe == Request("GET", <<"health", "live">>, {}, "Nothing", FALSE)
SendReadinessProbe == Request("GET", <<"health", "ready">>, {}, "Nothing", FALSE)
SendResolveAlert == Request("POST", <<"alerts", "id", "resolve">>, {}, "Nothing", TRUE)
SendUpdateWorkflow ==
    Request("PUT", <<"workflows", "id">>,
            {}, "UpdateWorkflowRequest", TRUE)

Send == [AcknowledgeAlert |-> SendAcknowledgeAlert, CancelExecution |-> SendCancelExecution,
         CreateAlert |-> SendCreateAlert, CreateWorkflow |-> SendCreateWorkflow,
         DeleteWorkflow |-> SendDeleteWorkflow, ExecuteWorkflow |-> SendExecuteWorkflow,
         GetAlert |-> SendGetAlert, GetExecution |-> SendGetExecution,
         GetWorkflow |-> SendGetWorkflow, HealthCheck |-> SendHealthCheck,
         ListAlerts |-> SendListAlerts, ListAuditLogs |-> SendListAuditLogs,
         ListAuditLogsByResource |-> SendListAuditLogsByResource,
         ListAuditLogsByUser |-> SendListAuditLogsByUser,
         ListExecutions |-> SendListExecutions,
         ListWorkflowExecutions |-> SendListWorkflowExecutions,
         ListWorkflows |-> SendListWorkflows, LivenessProbe |-> SendLivenessProbe,
         ReadinessProbe |-> SendReadinessProbe, ResolveAlert |-> SendResolveAlert,
         UpdateWorkflow |-> SendUpdateWorkflow]

Segment == {"id", "userId", "resourceType", "resourceId"}

(* BuildURL: the path with the texts of its parameters.                       *)
BuildURL(op, args) ==
    [i \in DOMAIN Send[op].path |->
        IF Send[op].path[i] \in Segment THEN args[Send[op].path[i]] ELSE Send[op].path[i]]

(* A body is sent unless the optional request is not set.                     *)
EncodeCreateAlertRequest(req) == [ct |-> "json", content |-> <<Encoded("CreateAlertRequest", req[1])>>]
EncodeCreateWorkflowRequest(req) ==
    [ct |-> "json", content |-> <<Encoded("CreateWorkflowRequest", req[1])>>]
EncodeExecuteWorkflowRequest(req) ==
    IF req = <<>> THEN [ct |-> "", content |-> <<>>]
    ELSE [ct |-> "json", content |-> <<Encoded("ExecuteWorkflowRequest", req[1])>>]
EncodeUpdateWorkflowRequest(req) ==
    [ct |-> "json", content |-> <<Encoded("UpdateWorkflowRequest", req[1])>>]

EncodeRequest(op, req) ==
    CASE op = "CreateAlert"     -> EncodeCreateAlertRequest(req)
      [] op = "CreateWorkflow"  -> EncodeCreateWorkflowRequest(req)
      [] op = "ExecuteWorkflow" -> EncodeExecuteWorkflowRequest(req)
      [] op = "UpdateWorkflow"  -> EncodeUpdateWorkflowRequest(req)
      [] OTHER                  -> [ct |-> "", content |-> <<>>]

-----------------------------------------------------------------------------
(* The type each declared status is decoded as: one of success, and those of  *)
(* errors, which are named alike for every operation.                         *)
ErrorType(status) ==
    CASE status = 400 -> "BadRequest"
      [] status = 401 -> "Unauthorized"
      [] status = 404 -> "NotFound"
      [] status = 409 -> "Conflict"
      [] status = 422 -> "UnprocessableEntity"
      [] status = 500 -> "InternalServerError"
      [] status = 503 -> "ServiceUnavailable"

Switch(success, type, errors) ==
    [status \in {success} \union errors |-> IF status = success THEN type ELSE ErrorType(status)]

DecodeAcknowledgeAlertResponse == Switch(200, "AlertResponse", {401, 404, 422, 500})
DecodeCancelExecutionResponse == Switch(200, "ExecutionResponse", {401, 404, 422, 500})
DecodeCreateAlertResponse == Switch(201, "AlertResponse", {400, 401, 500})
DecodeCreateWorkflowResponse == Switch(201, "WorkflowResponse", {400, 401, 409, 500})
DecodeDeleteWorkflowResponse == Switch(204, "NoContent", {401, 404, 500})
DecodeExecuteWorkflowResponse == Switch(202, "ExecutionResponse", {400, 401, 404, 422, 500})
DecodeGetAlertResponse == Switch(200, "AlertResponse", {401, 404, 500})
DecodeGetExecutionResponse == Switch(200, "ExecutionResponse", {401, 404, 500})
DecodeGetWorkflowResponse == Switch(200, "WorkflowResponse", {401, 404, 500})
DecodeHealthCheckResponse == Switch(200, "OK", {503})
DecodeListAlertsResponse == Switch(200, "PaginatedAlerts", {401, 500})
DecodeListAuditLogsResponse == Switch(200, "PaginatedAuditLogs", {401, 500})
DecodeListAuditLogsByResourceResponse == Switch(200, "PaginatedAuditLogs", {401, 404, 500})
DecodeListAuditLogsByUserResponse == Switch(200, "PaginatedAuditLogs", {401, 404, 500})
DecodeListExecutionsResponse == Switch(200, "PaginatedExecutions", {401, 500})
DecodeListWorkflowExecutionsResponse == Switch(200, "PaginatedExecutions", {401, 404, 500})
DecodeListWorkflowsResponse == Switch(200, "PaginatedWorkflows", {401, 500})
DecodeLivenessProbeResponse == Switch(200, "OK", {503})
DecodeReadinessProbeResponse == Switch(200, "OK", {503})
DecodeResolveAlertResponse == Switch(200, "AlertResponse", {401, 404, 422, 500})
DecodeUpdateWorkflowResponse == Switch(200, "WorkflowResponse", {400, 401, 404, 500})

DecodeResponse == [AcknowledgeAlert |-> DecodeAcknowledgeAlertResponse,
                   CancelExecution |-> DecodeCancelExecutionResponse,
                   CreateAlert |-> DecodeCreateAlertResponse,
                   CreateWorkflow |-> DecodeCreateWorkflowResponse,
                   DeleteWorkflow |-> DecodeDeleteWorkflowResponse,
                   ExecuteWorkflow |-> DecodeExecuteWorkflowResponse,
                   GetAlert |-> DecodeGetAlertResponse,
                   GetExecution |-> DecodeGetExecutionResponse,
                   GetWorkflow |-> DecodeGetWorkflowResponse,
                   HealthCheck |-> DecodeHealthCheckResponse,
                   ListAlerts |-> DecodeListAlertsResponse,
                   ListAuditLogs |-> DecodeListAuditLogsResponse,
                   ListAuditLogsByResource |-> DecodeListAuditLogsByResourceResponse,
                   ListAuditLogsByUser |-> DecodeListAuditLogsByUserResponse,
                   ListExecutions |-> DecodeListExecutionsResponse,
                   ListWorkflowExecutions |-> DecodeListWorkflowExecutionsResponse,
                   ListWorkflows |-> DecodeListWorkflowsResponse,
                   LivenessProbe |-> DecodeLivenessProbeResponse,
                   ReadinessProbe |-> DecodeReadinessProbeResponse,
                   ResolveAlert |-> DecodeResolveAlertResponse,
                   UpdateWorkflow |-> DecodeUpdateWorkflowResponse]
=============================================================================
