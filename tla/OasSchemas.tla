----------------------------- MODULE OasSchemas -----------------------------
(* The messages of package oas: which JSON fields a message always has, which *)
(* it may have, and which its Validate method looks at.                       *)
(* A Go value of a message is [set, bad, data]: the optional fields that are  *)
(* set, the fields whose value a Validate method refuses, and what its "data" *)
(* holds, at most one element standing for those of a page. A body is [fields,*)
(* bad, data]: the fields on the wire and the bad ones of them.               *)

Obj(required, optional) == [required |-> required, optional |-> optional]

\* The encoder writes every required field; the decoder wants all of them back
\* and skips the fields it does not know.
Alert == Obj({"id", "tenant_id", "severity", "title", "status", "created_at"},
             {"workflow_id", "execution_id", "message", "acknowledged_at",
              "acknowledged_by", "resolved_at", "resolved_by"})
AuditLog == Obj({"id", "tenant_id", "event_type", "resource_type", "action", "created_at"},
                {"user_id", "resource_id", "old_value", "new_value", "ip_address", "user_agent"})
Execution == Obj({"id", "tenant_id", "workflow_id", "status", "created_at"},
                 {"temporal_workflow_id", "temporal_run_id", "input", "output", "error",
                  "started_at", "completed_at", "created_by"})
Workflow == Obj({"id", "tenant_id", "name", "definition", "status", "version",
                 "created_at", "updated_at"},
                {"description", "schedule", "created_by"})
HealthStatus == Obj({"status"}, {"checks"})
AlertResponse == Obj({"data"}, {})
ExecutionResponse == Obj({"data"}, {})
WorkflowResponse == Obj({"data"}, {})
PaginatedAlerts == Obj({"data", "total", "page", "limit"}, {})
PaginatedAuditLogs == Obj({"data", "total", "page", "limit"}, {})
PaginatedExecutions == Obj({"data", "total", "page", "limit"}, {})
PaginatedWorkflows == Obj({"data", "total", "page", "limit"}, {})

Error == Obj({"code", "message"}, {"details"})

CreateAlertRequest == Obj({"severity", "title"}, {"workflow_id", "execution_id", "message"})
CreateWorkflowRequest == Obj({"name", "definition"}, {"description", "schedule"})
ExecuteWorkflowRequest == Obj({}, {"input"})
UpdateWorkflowRequest == Obj({}, {"name", "description", "definition", "schedule", "status"})

Schema == [Alert |-> Alert, AuditLog |-> AuditLog, Execution |-> Execution,
           Workflow |-> Workflow, HealthStatus |-> HealthStatus, Error |-> Error,
           AlertResponse |-> AlertResponse, ExecutionResponse |-> ExecutionResponse,
           WorkflowResponse |-> WorkflowResponse, PaginatedAlerts |-> PaginatedAlerts,
           PaginatedAuditLogs |-> PaginatedAuditLogs,
           PaginatedExecutions |-> PaginatedExecutions,
           PaginatedWorkflows |-> PaginatedWorkflows,
           CreateAlertRequest |-> CreateAlertRequest,
           CreateWorkflowRequest |-> CreateWorkflowRequest,
           ExecuteWorkflowRequest |-> ExecuteWorkflowRequest,
           UpdateWorkflowRequest |-> UpdateWorkflowRequest,
           Nothing |-> Obj({}, {})]

-----------------------------------------------------------------------------
(* The fields each Validate method looks at; a message without one is not in  *)
(* the table. Validating "data" is validating the element of the message.     *)
ValidateAlert == {"severity", "title", "status"}
ValidateExecution == {"status"}
ValidateWorkflow == {"name", "description", "status", "version"}
ValidateHealthStatus == {"status"}
ValidateAlertResponse == {"data"}
ValidateExecutionResponse == {"data"}
ValidateWorkflowResponse == {"data"}
ValidatePaginatedAlerts == {"data", "total", "page", "limit"}
ValidatePaginatedAuditLogs == {"data", "total", "page", "limit"}
ValidatePaginatedExecutions == {"data", "total", "page", "limit"}
ValidatePaginatedWorkflows == {"data", "total", "page", "limit"}
ValidateCreateAlertRequest == {"severity", "title"}
ValidateCreateWorkflowRequest == {"name", "description"}
ValidateUpdateWorkflowRequest == {"name", "description", "status"}

Checked == [Alert |-> ValidateAlert, AuditLog |-> {}, Execution |-> ValidateExecution,
            Workflow |-> ValidateWorkflow, HealthStatus |-> ValidateHealthStatus, Error |-> {},
            AlertResponse |-> ValidateAlertResponse,
            ExecutionResponse |-> ValidateExecutionResponse,
            WorkflowResponse |-> ValidateWorkflowResponse,
            PaginatedAlerts |-> ValidatePaginatedAlerts,
            PaginatedAuditLogs |-> ValidatePaginatedAuditLogs,
            PaginatedExecutions |-> ValidatePaginatedExecutions,
            PaginatedWorkflows |-> ValidatePaginatedWorkflows,
            CreateAlertRequest |-> ValidateCreateAlertRequest,
            CreateWorkflowRequest |-> ValidateCreateWorkflowRequest,
            ExecuteWorkflowRequest |-> {}, UpdateWorkflowRequest |-> ValidateUpdateWorkflowRequest,
            Nothing |-> {}]

(* What the "data" of a message is made of; "Nothing" for a message without.  *)
Element == [m \in DOMAIN Schema |->
    CASE m \in {"AlertResponse", "PaginatedAlerts"}         -> "Alert"
      [] m \in {"ExecutionResponse", "PaginatedExecutions"} -> "Execution"
      [] m \in {"WorkflowResponse", "PaginatedWorkflows"}   -> "Workflow"
      [] m = "PaginatedAuditLogs"                           -> "AuditLog"
      [] OTHER                                              -> "Nothing"]

-----------------------------------------------------------------------------
(* What a message can hold in "data": pages may be empty.                     *)
DataOf(m, flat) ==
    CASE Element[m] = "Nothing" -> {<<>>}
      [] m \in {"AlertResponse", "ExecutionResponse", "WorkflowResponse"} -> {<<w>> : w \in flat}
      [] OTHER -> {<<>>} \union {<<w>> : w \in flat}

(* The flat values of a message: the optional fields all set or none, at most *)
(* one bad field.                                                             *)
Flat(m) == {v \in [set : {{}, Schema[m].optional},
                   bad : {{}} \union {{f} : f \in Checked[m] \ {"data"}}] :
                v.bad \subseteq Schema[m].required \union v.set}

Value(m) == {[set |-> v.set, bad |-> v.bad, data |-> d] :
                v \in Flat(m), d \in DataOf(m, Flat(Element[m]))}

(* Encode.                                                                    *)
EncodedFlat(m, v) == [fields |-> Schema[m].required \union v.set, bad |-> v.bad]
Encoded(m, v) == [fields |-> EncodedFlat(m, v).fields, bad |-> v.bad,
                  data |-> [i \in DOMAIN v.data |-> EncodedFlat(Element[m], v.data[i])]]

(* Decode: whether it succeeds, and the value it gives.                       *)
Decodes(m, body) ==
    /\ Schema[m].required \subseteq body.fields
    /\ \A i \in DOMAIN body.data : Schema[Element[m]].required \subseteq body.data[i].fields
DecodedFlat(m, body) == [set |-> body.fields \intersect Schema[m].optional, bad |-> body.bad]
Decoded(m, body) == [set |-> DecodedFlat(m, body).set, bad |-> body.bad,
                     data |-> [i \in DOMAIN body.data |-> DecodedFlat(Element[m], body.data[i])]]

(* Validate.                                                                  *)
Valid(m, v) ==
    /\ v.bad \intersect Checked[m] = {}
    /\ "data" \in Checked[m] =>
           \A i \in DOMAIN v.data : v.data[i].bad \intersect Checked[Element[m]] = {}
=============================================================================
