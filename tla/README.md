# Orchestrix API: a verification development in TLA+

Orchestrix is a Go service that stores workflows, starts them on a Temporal
server, executes their steps in a Temporal worker, ingests metrics and raises
alerts when a metric crosses the threshold of a rule. This directory holds TLA+
models of the parts of it whose behaviour depends on order, concurrency or
failure, the configurations with which TLC checks them, and theorems about them
that the TLA+ proof system (TLAPS) proves for every value of the constants.

All paths below are relative to `src/`. `PROJECT.json` lists, definition by
definition, the lines each model was written from.

## The system

### Processes and shared state

| Process | Code | What runs concurrently in it |
| --- | --- | --- |
| API | `cmd/api/main.go` | one goroutine per HTTP request; one goroutine per ingested metric or batch, which outlives its request; one goroutine per workflow triggered by an alert |
| Worker | `cmd/worker/main.go` | Temporal workflow code (replayed, survives the worker) and activity attempts (do not) |
| PostgreSQL | `sql/`, `internal/adapter/driven/postgres/` | every statement is its own transaction: no service opens one |
| Temporal server | outside the repository | starts, cancels and closes runs; dispatches activity attempts; retries |

No lock, channel or shared Go variable connects two requests. What they share
is the tables and the Temporal server, and everything that can go wrong between
two of them goes wrong between two statements. So the models take **one SQL
statement or one call to Temporal, together with the in-memory code up to the
next, as one step**, and a program counter per request says which is next.

### Components

| Component | State it keeps | Operations | What is hard, and what makes it correct |
| --- | --- | --- | --- |
| Workflow service (`core/service/workflow.go`, `adapter/driven/postgres/workflow.go`) | `workflows`: definition, status, version | Create, Update, Delete, Execute; reads | read-then-write without a transaction; Execute is save, start, update, audit. Every run has a record; a version stands for one content; the audit log is truthful |
| Execution service (`core/service/execution.go`, `.../execution.go`) | `executions`: status, Temporal ids | Cancel; reads | Cancel and Execute write one status without looking at the stored one. A row keeps to the life cycle of the domain model; cancelling an execution cancels its run |
| Temporal executor (`adapter/driven/temporal/executor.go`) | none (runs live in Temporal) | Execute, Cancel, GetStatus (never called) | the id `workflow-<id>-<version>` decides which starts join an open run; the argument must be what the worker decodes |
| Dynamic workflow (`internal/workflow/dynamic.go`, `definition.go`) | loop position, `stepOutputs`, `StepResults`, status | parse, steps, handlers | retries, `continue_on_error`, cancellation at any point. Status, results, handlers and stored outputs agree; the run ends |
| Alert rule evaluation (`core/service/metric.go`, `alertrule.go`) | `alert_rules.last_triggered_at`, `alerts`, goroutines nobody waits for | Ingest, IngestBatch, Evaluate | overlapping evaluations, errors of single statements, shutdown. Cooldown holds, nothing is missed, alerts are justified, a rule is not silenced without an alert |
| Alert rule handlers (`internal/alertrule/handler.go`) | `alert_rules` | Create, Update, Delete, Test | read-merge-write while evaluations run. An edit undoes neither a cooldown nor fields it does not name |
| Alert service (`core/service/alert.go`, `.../alert.go`) | `alerts` | Create, Acknowledge, Resolve | check-then-write. Nobody's action is lost; a resolved alert stays resolved |
| Audit service (`core/service/audit.go`) | `audit_logs` | Log (best effort), reads | the entry is a statement of its own after the operation: it may be missing, it must not lie |
| Metric definitions (`metric.go:231-326`) | `metric_definitions` | Create, Update, Delete | check-then-insert against a unique constraint |
| Metrics (`.../metric.go`) | `metrics` hypertable | Insert; Query, by labels too; aggregates | many rows share a timestamp, which is what pages are ordered by |
| Paged reads (`List` of every service and handler, `parsePagination`) | none | one page: SELECT, then COUNT | rows come and go between the two and between pages; `(page - 1) * limit` is narrowed to int32. A walk over a table is whole; a page and its total fit each other |
| Tenant context (`.../tenant.go`, `internal/auth/tenant.go`, migration 002) | a setting of a pooled connection | set, clear | the setting ends with its own statement's transaction, on any connection of the pool. Nobody reads another tenant's rows |
| Authentication (`internal/auth/middleware.go`) | the JWKS key set, fetched once | verify | the first fetch is final, and requests wait for it. All requests of a process meet the same keys, and each is answered |
| Generated API contract (`internal/api/oas`, `internal/api/handlers.go`) | none between calls | client and server of 21 operations | two halves of 25,000 lines that must agree on paths, bodies, statuses and error messages, over a connection that breaks. The caller gets what the handler meant; not mounted by `cmd/api/main.go` |
| Older evaluator (`internal/alertrule/evaluator.go`) | as the evaluation above | EvaluateMetric | other rules, other operators, the same tables; nothing calls it |
| Older handlers (`internal/workflow/handler.go`, `internal/execution/handler.go`, `internal/alert`, `internal/audit`, `internal/tenant`, `pkg/temporal`) | the same tables | the same operations, written before the services | not mounted by `cmd/api/main.go` |
| Process workflow (`internal/workflow/process.go`) | none | validate, process, notify | started by the older code only |

### How they interact

* HTTP handler → service → repository → one SQL statement; errors end the request.
* Execute → `executions` row → Temporal start → update of the row → audit entry.
  Nothing in the mounted code listens to the end of a run.
* Ingest → row in `metrics` → goroutine `evaluateAlerts` → `AlertRuleService.Evaluate`
  for every enabled rule → alert row → `last_triggered_at` → (if the rule names a
  workflow) `WorkflowService.Execute` in another goroutine.
* Alert handlers act on the alert rows that evaluations insert.
* Every request under `/api/v1` → key set and token → tenant setting on some
  connection → handler, whose statements run on any connection.
* Generated client → HTTP → generated router, security, decoders → `api.Server`
  → encoder → client's decoder and validators.

## Modules

| Module | What it is |
| --- | --- |
| `ExecutionLifecycle` | abstract: the life of an execution row that `core/domain/execution.go` defines |
| `WorkflowExecution` | the workflow and execution services over their tables and Temporal |
| `WorkflowExecutionProofs` | the theorems about its runs and versions, that it implements `ExecutionLifecycle`, and that the audit log tells the truth |
| `DynamicWorkflow` | the step engine of the worker |
| `DynamicWorkflowProofs` | the theorems about it |
| `RunDispatch` | extends `DynamicWorkflow`: the argument a run starts with, as the mounted executor sends it |
| `AlertEvaluation` | ingestion, evaluation by the service and by the older evaluator, and the handlers that edit rules meanwhile |
| `AlertEvaluationProofs` | the theorems about it |
| `AlertHandling` | the alert service over the alerts table |
| `AlertHandlingProofs` | the theorems about it |
| `LegacyExecution` | executions as the older handlers run them, with the goroutine that records their end |
| `LegacyExecutionProofs` | the theorems about it |
| `MetricDefinitions` | creation, edits and deletion of a metric's definition |
| `MetricDefinitionsProofs` | the theorems about it |
| `Admission` | what every request under `/api/v1` passes: the key set, the token, the tenant setting on the connections |
| `Listing` | extends `Admission` by the paged reads of all endpoints |
| `ListingProofs` | the theorems about both |
| `OasSchemas` | the messages of the generated package: fields, what Validate checks, what decodes as what |
| `OasServer` | the server's half: routers, stages, decoders, encoders, as tables by operation |
| `OasClient` | the client's half: URLs, requests, the decoders of answers |
| `ApiContract` | composes the two halves with the network and with `api.Server` |
| `ApiContractProofs` | the theorems about the three |
| `MC...` | the instances for TLC: finite sets of inputs and symmetry |

### WorkflowExecution

`workflows`, `executions`, `audited` are the tables (`NoRow` for no row), `runs`
what Temporal has started on behalf of each request. `pc`, `op`, `arg`,
`workflow`, `execution`, `joined` are per request: the next statement, the
operation, the id of the URL, the objects in memory, and whose run Temporal
answered with. Definitions of workflows are opaque values; `Run.definition` is
the content that was sent, whatever the worker makes of it (`RunDispatch`).

Each service method is a chain of actions: `ExecuteRead`, `Save`, `Start` or
`StartFails`, `Settle` or `GiveUp`, `Audit`, and so on. `Abort` cuts a chain
anywhere: a statement fails, its answer is lost, the client goes away, the
60 s timeout expires, the process is killed. As the API keeps no state between
requests, this is also its crash and restart. `StartFails` may or may not have
reached Temporal. A request is served once; a client that retries is another
request, which is why there are several.

Two facts of the code matter more than they look. No `INSERT` of the
repositories passes on the id that the service generated, so every object has
an id in memory (`MemoryID`) and another in the table (`StoredID`); every later
statement of the request that names the first has no effect. And the
`UPDATE` of an execution sets its status only, so the Temporal ids are never
stored. Both are modelled as they are.

### DynamicWorkflow and RunDispatch

`pos` is the loop variable, `activity` and `attempt` describe the activity that
is waited for, `results` are the `Success` flags of `StepResults`, `outputs`
says for each key of `stepOutputs` which step's output stands under it, `ran`
remembers which steps a worker really began. An attempt ends in success, in
another attempt (`Retry`: error, timeout, lost worker) or, when the policy is
exhausted or the context cancelled, in an error. `executeStep` is shared by the
loops over steps and over handlers, and so are `Schedule`, `Error` and
`Result`. The attempt counter stays at 1 for unlimited policies, which is the
only abstraction of it. A step's `timeout` becomes the `StartToCloseTimeout` of its
activity and its `retry_policy` the policy, neither of them checked; `MaxAttempts`
is the `int32` conversion of `max_attempts`, of which `Width` is the width. A
timeout of zero or less, a negative number of attempts or a multiplier below 1
makes Temporal refuse the schedule command (`OptionsAccepted`), so that `Schedule`
is disabled for ever (the workflow task fails and is tried again) and only a
cancellation gets the run out of it; 2^32 attempts are none, which is unlimited. `stepOutputs` is one map for the input of the run (under `input`), the
positions and the ids of the authors: `uninformed` remembers the steps that looked
for the input and found the output of a step named `input`. `RunDispatch` replaces the initial definition by what
the worker decodes from the argument of `WorkflowExecutor.Execute`.

### AlertEvaluation

A job is a request to ingest one metric or a batch, and the goroutine it starts.
`left` are the names of the batch still to be evaluated (a Go map: any order),
`sample` the value evaluated now, `todo` the rules of the snapshot still to be
dealt with, `rules` and `alerts` the tables, `now` a clock in ticks. `Insert`,
`Touch` and their failures are the two statements of a triggering rule.
Editors are requests of the rule handlers: `EditRead` and `EditWrite` are the
two statements of Update. `cooldown_seconds` is any int of Go, which the handlers
convert to int32 without a check (`Narrow`; `Half` is half the range); `asked` keeps
what the user wrote. Create refuses one operator (`OperatorAccepted`), Update
none. `Stop` and `Restart` are the shutdown, which waits
for requests and not for their evaluations. `since`, `steady`, `clean`,
`touches` and `known` are history variables for the properties; no guard reads
them.

Jobs in `Evaluators` are calls of the older `EvaluateMetric`: they read the rules
that are due for the metric by its name (`RulesFor`), in any order, accept the
condition type `metric_threshold` and the operator `ne` where the service accepts
`threshold` and `neq`, store the alert, touch the rule and go on whatever fails.
Both kinds of jobs, and their editors, share the tables. What a rule of either
type is worth to either code is part of `EvaluationIsExact`: each evaluation
alerts for the rules it accepts and for no other.

### AlertHandling

`Read` is `FindByID` with the domain's check, `Update` the statement that sets
the status and the columns of its own operation, `Audit` the entry. Created
alerts are `open` whatever status the service gave them.

### LegacyExecution

The code that was there before the services: `Handler.Execute` with
`waitForWorkflowCompletion`, `Handler.Cancel`, `Handler.Delete`, and the start
of a workflow by an alert in `Evaluator.triggerWorkflow`. It is not mounted, but
it is the only code of the repository that records how a run ended, and so the
yardstick for what the services lack. Here the row names its Temporal workflow
from the beginning and the database's id is used, and nearly every error after
`CreateExecution` is dropped: `Update` may or may not take effect. `waiting` are
the goroutines in `run.Get`; they die with the process (`Crash`).
`Recorded` is what they make of a run: `DynamicWorkflow` reports a failure in
its output and never as an error, so that its failed and cancelled runs are
recorded as completed; only `ProcessWorkflow` fails. `endless` are runs of a
definition that never comes to its end by itself (`RunsEnd` of `DynamicWorkflow`
says which). Nor does this code ask
whether a workflow is active. `ProcessWorkflow` schedules `Notify` without
waiting for it and returns, so that the notification may never be made.

### MetricDefinitions

One name of one tenant, as no statement names two. `memory` is the definition a
request holds and answers with, `Columns` its way into the table: a
`retention_days` that is not positive becomes NULL, a positive one is narrowed
to 32 bits. `Inserted` is the INSERT, to which the database gives an id of its own
(`StoredID`) while the service answers with another (`MemoryID`), and `Written` the
UPDATE with its COALESCEs. `Half` scales the
integers: int32 ranges over `-Half .. Half - 1`. `overlapped` is a history
variable.

### Admission and Listing

`once` and `jwks` are the `sync.Once` and what its function left: keys, no keys
(keyfunc may report a failed fetch to its log only) or an error. Requests that
come during the fetch wait in `Do`. `setting` is `app.current_tenant_id` on each
connection, which `set_config(..., true)` outside a transaction leaves as it
was, or empty where it had never been set; `PolicyOf` is what the policies of
migration 002 make of it. `role` is whom the pool logs in as: the superuser, as
`docker-compose.yml` has it, or the role the migration creates. `Restart` makes
all of this new.

`Listing` runs the two statements of a page on any connections, with rows
inserted and deleted by others in between. Endpoints differ in data, not in
control: whether the SELECT filters by tenant or by more, has an OFFSET, sets the
tenant again, where the total comes from, and whether the table has a policy.
There is one record per endpoint, the older handlers' included (16 in all). A
client asks for one page, or walks until a page is not full. `Offset` is the
narrowed product; a negative one is an error of PostgreSQL. Rows with equal keys
may come in any order (`Orders`), and in another one the next time. `size`, `gone`
and the variables of the walk are history.

### OasSchemas, OasServer, OasClient, ApiContract

The generated package is large and regular: per operation one handler, decoder,
encoder, client method, and per message one codec and validator. The regular part
is modelled by tables indexed by operations and messages, each entry translated
from its function, and by one operator per idea (`ServeHTTP`, `FindPath`,
`ParamsDecode`, `RequestError`, `Decodes`, `Valid`, `BuildURL`). A message is the
set of its optional fields that are set, the set of those that break a
constraint, and its elements (`AnyValue` has all that a Go struct can hold, valid or
not); a path is a sequence of segments, of which `Segment` names the parameters.

`ApiContract` is one call. The client builds the request, asks its security
source, sends it and decodes the answer; each attempt runs through the stages of
its handler (`todo`), each of which may refuse it, to `api.Server` or another
implementation of the interface, which may return anything, nil, an error of its
own (an error that wraps one of ogen's would be answered with the status of that
one, and is left out), or panic. `Break` cuts a connection at any point, and the transport sends a request
without a body once more. `status` and `failed` are what the server's metrics
record, `wire` what it wrote.

## What TLC checks

Runs that pass:

| Run | Instance | Properties |
| --- | --- | --- |
| `execution` | 3 requests of any kind, 1 stored workflow (plus those created), 2 definitions | `TypeOK`; `RunHasRecord`: no run without its row; `VersionPinsDefinition`: one Temporal id, one content; `JoinedRunIsTheOneRead`; `AuditTellsTruth`; `LifecycleSpec`: every row refines `ExecutionLifecycle` |
| `dynamic` | all definitions of up to 2 steps with up to 2 handlers on each side, up to 3 steps without handlers; ids given, missing, shared, or `input`; retries 1, 2, default, unlimited, negative and wrapping; steps without an activity; timeouts given, missing, zero and negative; a cancellation anywhere | `TypeOK`; `ResultsTellTheRun`: nothing after a fatal failure, and a status that follows from the results; `HandlersTellTheStatus`: the handlers of the status, all of them, no other; `KeysNameTheirSteps`: aliases, ids and the input are found under their keys; `RunsEnd` (liveness): runs with bounded policies and valid timeouts end by themselves, cancelled runs always |
| `alerts` | three scenarios: two ingestions and an editor on one rule (`overlap`); one job of either kind with batches of up to two samples on two rules of five kinds (`batch`); two calls of the older evaluator (`older`); 2 points of time | `TypeOK`; `CooldownAfterKnownTriggers`: the stored cooldown, and the one asked for if an int32 holds it; `SilencedByAlert`; `EvaluationIsExact`: no rule missed, no alert without its value; `EvaluationEnds` (liveness) |
| `handling` | 4 requests, 2 users | `TypeOK`; `AuditedActionsShow`; `ReopenedOnlyByOverlap` |
| `legacy` | 2 requests that execute, cancel, or are alerts that trigger; runs that end and that never do; deletion and crashes anywhere | `TypeOK`; `RunOnRecord`; `CompletedMeansReturned`; `EndsAreFinal`; `WaitsEnd` (liveness): but for a run that never ends |
| `definitions` | 3 requests with 12 bodies, one optional and one required column, integers of 4 bits | `TypeOK`; `RetentionIsPositive`; `NothingCleared`; `UnnamedFieldsStay`; `AnswersShowTheRow`: but for the id of a creation |
| `listing` | 2 requests, 2 connections, 2 lives of the process, 4 rows of 2 tenants, 6 endpoints that cover all the differences | `TypeOK`; `OneVerdictPerLife`: no process admits and refuses for want of keys; `WalksAreWhole`: a walk gives every row that stays, and none twice; `PagesFitTheTable`: far pages are empty, totals cover their pages; `TenantsAreApart`: a page narrowed to a tenant, by its statement or a policy, is the caller's; `EveryRequestEnds` (liveness) |
| `contract` | every operation with good and bad arguments, values and handlers, 93 requests made without the client, 2 attempts | `TypeOK`; `AnswersArrive`: a typed answer is the handler's, and is denied to the caller only by faults; `RoutedAsCalled`: both routers and the client agree; `StatusesAreHonest`: a 4xx means the handler did not run, metrics record what was written; `EveryCallReturns` (liveness) |

Runs in which a statement of the repository is refuted:

| Run | The statement, and what happens |
| --- | --- |
| `dispatch_executor` | "Start the workflow with the definition and input" (`executor.go:52`). The executor sends the definition and the input as two arguments; `DynamicWorkflow` takes one object with a field `definition`. It finds none, and every run ends as failed without a step. |
| `execution_cancel` | "Cancel in Temporal" (`core/service/execution.go:90`). The stored row has no Temporal ids, so the run goes on. |
| `alerts_metric` | A condition names its metric (`004_alert_rules.up.sql:11`). `Evaluate` compares any metric's value with it. |
| `listing_rls` | "This sets the session variable that RLS policies use" (`internal/auth/tenant.go:37`), for the "Row-level security" of `README.md` and migration 002. `set_config(..., true)` outside a transaction sets it for its own statement only, so that the policies of the next one find no tenant (or an empty one, an error): a role they bind gets an empty page of a table that holds its rows. |

Read while modelling, and described by a passing property or by the text of a
module rather than by a run of its own: the Temporal ids that `workflow.go:193`
says are updated are not (the cause of `execution_cancel`); two overlapping
evaluations alert twice within a cooldown (`CooldownAfterKnownTriggers` says
what does hold); a rule of the documented type `metric_threshold` never
triggers, as `ParseThresholdCondition` accepts `threshold` only
(`EvaluateThreshold`); the on_error steps of a cancelled run are asked for in
the cancelled context and do not run (`Error`; `EveryHandlerRuns` excludes
cancelled runs); the id answered to the creation of a workflow, an execution or
an alert finds nothing, as the row got another one (`StoredID`), although
`integration_test.go:208-213` saves a workflow and looks it up by its id, and the
id answered to the creation of a metric definition is nowhere either, which matters
less as definitions are found by name (`AnswersShowTheRow`);
default ids of steps are `step_<i+1>` and aliases `step_<i>`, so that the alias
of a step overwrites the output under the default id of the step before
(`AliasNamesItsStep` and `AuthoredIDNamesItsStep` say what does hold of
`stepOutputs`); a step named `input` hides the input of the run from the steps
after it (`InputReachesSteps`); `timeout` and `retry_policy` of a whole definition
(`definition.go:28-29`) are parsed and never read; a `timeout` of "0s" holds its run
until it is cancelled (`RunsEnd` excludes it), and with it the goroutine of the older
code that waits for it (`WaitsEnd`); "workflowService will be set after"
(`cmd/api/main.go:93`), but nothing sets it, so that a rule with a workflow ends the
process when it triggers (`TriggerWorkflow`, after which nothing happens but a
restart); a `cooldown_seconds` that an int32 does not hold may leave a rule without
a cooldown (`CooldownAfterKnownTriggers` says of which cooldown it speaks); a
`retention_days` of 2^31 or
more is stored as zero or negative (`RetentionIsPositive` excludes it); the older
evaluator accepts the operator `ne` and the condition type `metric_threshold`,
the mounted one `neq` and `threshold`, so that no rule triggers in both
(`EvaluationIsExact`).

Also, of alerts: "CanAcknowledge checks if the alert can be acknowledged"
(`core/domain/alert.go:53`), but an acknowledgement that was overtaken by a
resolution reopens the alert; `ReopenedOnlyByOverlap` says that nothing else does.

Of the paged reads: the query of metrics by labels has no OFFSET
(`postgres/metric.go:92`), so that every page is the first; a page number beyond
2^31 / limit wraps and may be an early page again (`FarPagesAreEmpty` holds below);
the total of the older filtered lists ignores the filter (`TotalCoversThePage`);
rows with one timestamp may be missed or given twice (`WalksAreWhole` excludes
ties); the executions of a workflow are listed without a look at the tenant
(`TenantsAreApart` excludes them for the superuser; a policy does narrow them).

Of the admission: the context that keyfunc keeps for its refreshes is cancelled when the fetch ends
(`middleware.go:81`); a process whose first fetch failed refuses everybody until it
is restarted (`OneVerdictPerLife` is the other side of it).

Of the generated package: the default error handler answers `{"error_message"}`,
while 400, 401 and 500 are declared as `Error`, so that the caller gets a decoding
error in place of them; a status overwritten after the header was sent is the one
that metrics record (`RecordedIsWritten` says when); the client validates answers,
so that a workflow stored by the other API with an empty name cannot be read
(`LostOnlyToFaults`); `DeleteWorkflow` answers 204 for a workflow that is not
there and 404 for any error of the database (`handlers.go`).

### Bounds, and why they are enough

* `execution`: two requests show every race of two; the third is needed for
  start / update / start (two runs of one id with an edit in between) and for
  start / cancel / delete. Rows reachable by more requests differ only by ids.
  Two definitions suffice to tell apart contents. Versions grow by one per
  update, so that 3 requests bound them without an extra constraint.
* `dynamic`: the loops treat a step by its own flags and its position; a third
  step distinguishes "next" from "later", and the shared-id cases need two. With
  `Width` 3 the numbers 2^2 and 2^3 wrap to a negative and to zero as 2^31 and 2^32
  do. No counter grows without bound.
* `alerts`: the cooldown races involve two evaluations and one edit; `Half` 4, a
  stored cooldown of -1 and one of 8 asked for, which wraps to 0, stand for the ints
  that are no cooldown; others of 0 to 2 ticks within a clock of 0 to 1 cover none,
  one that may expire and one that does not. `MaxTime` is the only artificial bound; `Tick` is disabled at it.
  Two names of a batch give both orders of the map, two rules give "before" and
  "after" within one snapshot, values 0, 1, 2 around the threshold 1 give below, at
  and above. The scenarios keep apart what would only multiply: overlaps of jobs
  need one rule, orders within a job need one job.
* `handling`: three requests are needed for create, acknowledge, resolve, and
  the fourth for a second acknowledgement or resolution.
* `legacy`: two requests give every pair of an execution or a trigger with its
  cancellation, and two executions at once, which share the workflow only.
* `definitions`: four bits give every case of the conversion (negative, zero,
  small, wrapping to negative, wrapping to zero). Lost updates need two
  requests, and the third has to create the row.
* `listing`: either two requests of any credentials at a table that does not
  change (`Crowd`: the fetch, a restart, the connections they share), or one client
  at a table that does (`OneClient`: three rows of its tenant, two with one key,
  one filtered out, and a fourth row of another tenant). Limits 1 and 2 for 20 and
  100 give walks of several pages. With `Half` 8 the pages asked for have offsets
  that are in the table, past it, negative and wrapped to 0. `MaxPage` and
  `MaxLives` are artificial bounds.
* `contract`: calls do not share state but for the row they name, so that one call
  at a time is enough; two attempts are what one retry of the transport makes. Every
  query parameter is missing, good and out of its limits in turn; values are
  plain, full, and full with one field that Validate refuses.

Requests, users and definitions are declared symmetric where the run has
no liveness property. `CHECK_DEADLOCK FALSE` stands in every configuration
because every system here may stop: requests and jobs are served once and a run
of a workflow ends.

### Fairness

* `DynamicWorkflow`: weak fairness of the workflow code together with the end of
  an attempt, and of the beginning of an attempt. Temporal calls a workflow that
  has something to do, dispatches activity tasks as long as a worker polls, and
  ends every attempt at its `StartToCloseTimeout`. A cancellation is an event of
  its own for which Temporal calls the workflow, whatever its activity does: hence
  the third condition, weak fairness of the workflow code in a cancelled run.
  Neither success nor cancellation is fair. `Terminates` is restricted to
  definitions with bounded retries (`retry_policy` without `max_attempts` means 0,
  Temporal's "no limit") and with timeouts and policies that Temporal accepts.
  `CancelledRunEnds` is not restricted.
* `AlertEvaluation`: weak fairness of each job. The Go scheduler runs every
  goroutine, and every statement returns, be it with the error of the 5 s
  context. Ingestion, editing, time and shutdown are not fair. `EvaluationEnds`
  says that again and again no evaluation is under way.
* `LegacyExecution`: weak fairness of the end of a run that is not `endless`
  (`Terminates` of `DynamicWorkflow`; `ProcessWorkflow` has bounded retries and
  timeouts) or that was cancelled (`CancelledRunEnds`), and of the goroutine that
  waits for it. An `endless` run may go on for ever, and `run.Get` has no deadline.
  Handlers, cancellations, deletions and
  crashes are not fair.
* `Listing`: weak fairness of each request that was begun, and of the fetch, which
  its ten seconds end. Inserts, deletes, restarts and arrivals are not fair.
* `ApiContract`: weak fairness of the client's steps and of each attempt's on the
  server. Breaking connections is not fair, nor does anything depend on it.
* The other modules have safety properties only.

## What is proved

`WorkflowExecutionProofs` proves, for any sets of requests, seeded workflows and
definitions, finite or not, under `ConstantsAssumption` (the values that stand
for "nothing" are not values of the data, and the ids of stored workflows are
not those that requests generate):

| Theorem | Statement |
| --- | --- |
| `TypeCorrect` | `Spec => []TypeOK` |
| `RunsAreRecorded` | `Spec => []RunHasRecord` |
| `VersionsPinDefinitions` | `Spec => []VersionPinsDefinition` |
| `JoinedRunsAreTheOnesRead` | `Spec => []JoinedRunIsTheOneRead` |
| `Invariance` | `Spec => []IInv`, from which they follow |

None of the three safety properties is inductive. What they need, and `IInv`
adds, is: where a request is in its operation and what it holds in memory there
(`Stages`); that the id of a row is allocated once, and a deleted row never
comes back (`NoReuse`); that versions in the table never decrease, so that a version read earlier is at
most the stored one; and that whatever active content any request has read at
the version still stored is the stored content. The last is what makes the
unguarded UPDATE harmless for `VersionPinsDefinition`: it may lose somebody's
fields, but `version = version + 1` is computed by the database on the row it
replaces. Computing it in the service instead (the mutant `UpdatedInMemory`)
breaks the property, as it should.

The proof has one lemma per part of the invariant, one step per action, and
nothing but the SMT and PTL back ends.

Its second part builds on that and proves, under the same assumption,
`RowsLiveTheirLife` (`Spec => LifecycleSpec`) and `EntriesAreTrue`
(`Spec => []AuditTellsTruth`). The refinement needs to know why the unguarded
`UPDATE executions` of `Execute` never overwrites a cancelled row: every stored
row has the id the database gave it, and the update carries the id the service
gave (`Rows`, `Held`), so it finds none. `RowStep` then says that a step of the
table inserts a pending row, cancels one, deletes those of a workflow or does
nothing; each is mapped to a step of the abstract specification or to a stutter.
The theorem thus holds for the code as it is: once the ids are made the same, the
mutant `StoredIDKept` lets a cancellation overwrite the row of a start that has
failed meanwhile, and a guard in the UPDATE will be needed. For the audit, the invariant adds the foreign key
(`ForeignKey`), that versions start at 1 (`Versions`), and that what an entry
will say is true from the statement it is about on (`Told`), with `NoReuse` from
the first part: nobody brings a deleted workflow back.

`LegacyExecutionProofs` proves for any set of requests that `TypeOK`,
`RunOnRecord` and `CompletedMeansReturned` are invariant and that `EndsAreFinal`
holds (`TypeCorrect`, `RunsAreOnRecord`, `CompletedRunsReturned`, `EndsStay`).
Its invariant says what the order of the statements achieves: rows come before
runs (`Records`), a request that has not been answered has a row without an end
(`Unended`), and only requests that have been answered have a goroutine
(`Waits`). Starting the goroutine one statement earlier (`SetIDsAndWait`) breaks
`Waits` and with it `EndsAreFinal`.

`MetricDefinitionsProofs` proves all the properties of `MetricDefinitions`, for
integers of any width and any fields, values and requests: `TypeCorrect`,
`RetentionsArePositive`, `NothingIsCleared`, `UnnamedFieldsDoStay` and
`AnswersDoShowTheRow`. The conversions have lemmas of their own (`NarrowFits`:
the narrowing yields an int32 and leaves the positive ones alone; `ColumnsType`,
`WrittenType`). The invariant adds that no definition in memory wraps unless its
request asked for that, and that a creation holds the id of its own making
(`Retentions`), and that an undisturbed update holds the merge of the stored row
(`Fresh`).

`AlertHandlingProofs` proves for any sets of requests and users `TypeCorrect`,
`AuditedActionsDoShow` and `ReopeningNeedsOverlap`. Its invariant says that a
request reaches the UPDATE only with a row that `CanAcknowledge` or `CanResolve`
let through (`Stages`), that only its own request inserts a row (`Inserted`), that
an open alert, stored or read, has not been resolved (`OpenIsUnresolved`: what
turns the check on an old row into a statement about the stored one), and that
a row shows an operation from its UPDATE on, not only once it is audited (`Shown`).

`DynamicWorkflowProofs` proves all the safety properties of `DynamicWorkflow`, for
definitions of any length, any ids and policies and an int32 of any width:
`TypeCorrect`, `ResultsDoTell`, `HandlersDoTell` and `KeysDoName`. `Run` says where
the run is: the loop variable counts the results while the steps run (`Placed`),
every step has an id after parsing (`Named`), and a key of `stepOutputs` is the id
or alias of a step that succeeded and stands there under its own position
(`Origins`); without these not even the types are inductive, as `Store` names the
step by the loop variable. On top of it, a fatal failure is the last result and
the reason of the status (`Verdict`), no attempt was begun past the results or in
handlers of the other status (`Marks`), and in a run that is not cancelled every
handler passed was begun (`Begun`). For the keys, `Own` and `Uninformed` say of the
steps so far what the property says of all; `DefinitionsAssumption` has that no
author's id is one of the names `step_n` the parser and the aliases use, except
where the property speaks of those.

`ListingProofs` proves for any rows, orders, tenants, requests, endpoints,
connections and widths `TypeCorrect`, `OneVerdict`, `TenantsStayApart` and
`PagesDoFit`. `KeysInv` says that the verdicts given follow from the outcome of the
one fetch, and that exactly one request makes it while the Once runs (`OneFetch`).
`ApartInv` says that no connection ever carries a tenant, as `SettingAfter` never
yields one (so that a bound role reads nothing, its own rows neither: what
`listing_rls` shows), and that an answer is given once, at the end. `FitInv` relates the page to the number
of rows it was cut from, and the table to that number until a row is deleted.
Cardinalities of the rows (`SelectedRows`, `CountedCoversSelected`) need the set of
rows to be finite (`RowAssumption`).

`WalksAreComplete` proves `WalksAreWhole` from `WalkInv`, which places a walk in
the order of the table. The rank of a row is the number of the caller's rows above
it; `Reached` is how many of them the pages fetched so far have gone past. Rows
the walk has not shown have a rank of at least that (`MissingIsAhead`), rows it has
shown, in a walk that nobody disturbed, a smaller one (`SeenIsBehind`), and the
offset of the next page is `Reached` and has not wrapped (`InRange`). An insert,
wherever it enters the order, makes ranks grow, so that nothing ahead falls behind
the offset; a delete makes them shrink, which is where page numbers lose a row and
why the property excepts it. Rows that tie have no rank the ORDER BY would keep,
the other exception. The heart is `PageOfWalk`: the
window that a page reads from any order of the rows holds exactly those whose rank
lies in it (`PlaceIsRank`, `WindowsHold`). The theorem assumes that a walk begins at
the first page (`AskAssumption`) and that the largest limit is no more than half
the range of an offset (`LimitAssumption`: 100, and 2^31).

`AlertEvaluationProofs` proves for any jobs, editors, metrics, bodies, edits and any
number of rules `TypeCorrect`, `CooldownIsKept` (`CooldownAfterKnownTriggers`),
`RulesAreSilencedByAlerts` (`SilencedByAlert`) and `EvaluationsAreExact`
(`EvaluationIsExact`), all from one invariant (`InvCorrect`), which adds to the properties:

* `TouchesRecorded`: `last_triggered_at` is the latest of the triggerings and none
  of them lies in the future. The UPDATE takes the time of the write and not that of
  the evaluation, so that overlapping evaluations of one rule cannot set it back.
* `RulesRead`, `SteadyStored`: what a job has read of a rule is a row that existed,
  with the last of the triggerings known then, and the content is still the stored one
  for the rules that nobody edited. With `TouchesRecorded` the check of the cooldown
  against one time covers every triggering known.
* `TouchIsBacked`: a job about to set `last_triggered_at` has its alert in the table.
  The alert is inserted first, so that an evaluation that stops between the two
  statements leaves a rule that fires again too early, never one silenced without
  an alert.
* `ValuesAreLast`, `AlertsHaveJobs`: an evaluation compares the last value of each
  metric of its batch, and an alert is that of a job that was begun. `AlertsAreJustified`,
  one half of `EvaluationIsExact`, follows.
* `NothingForgotten`: in an undisturbed job every rule that calls for an alert has
  triggered or is still ahead in the list the job goes through. Once the job is done
  nothing is ahead, which is the other half, `NothingMissed`.

`ApiContractProofs` proves for any calls, any requests made without the client, any
values, any implementation of the interface and any number of attempts `TypeCorrect`,
`AnswersDoArrive` (`AnswersArrive`), `RoutedRight` (`RoutedAsCalled`) and
`HonestStatuses` (`StatusesAreHonest`), all from one invariant (`InvCorrect`). The
run goes through a sample of the values and paths; the theorems hold for all. They
rest on lemmas about the tables, which are proved operation by operation, so that the
steps of a call need not open them:

* `RoutersDoAgree`: the two walks of the tree give the same operation and arguments
  for every method and path, subtree by subtree (`AlertsAgree` and four others).
  `CallsAreRouted`: the URL of a call is the path of its own operation and of no other.
* `BodiesArrive`, `RoundTrip`: what a codec writes it reads back, with the fields
  that were set and those that are bad, at both levels of a message.
* `AnswersMatch`, `AnswersAreUnderstood`: the statuses an encoder writes are those its
  decoder knows, with the same type. `MessagesAreErrors`: the `error_message` of the default
  error handler decodes as no declared answer, as every one of these has a required
  field it lacks.
* `StagesMatch`, `RefusalsAreDeclared`: a handler has the stages its tables have
  something to do for.

The invariant follows each attempt. `Pending`: an attempt that still has stages was
routed to what `ServeHTTP` makes of the request, and every check that is no longer
ahead of it has been passed. `HandledInv`: the handler was called with what the
request says and returned a value of a type it may return, valid if it came from
`api.Server` and a sound row. `WireInv`: what was written answers an unrouted
request, a refusal with its reason (`Reason`: a 400 has a parameter or body behind
it that does not decode, and so on), or the handler's answer; it is whole unless
the connection broke. `ResultInv` says which of these the client's result was
decoded from. With `Built`, the request being the one the client's method builds,
a refusal with a 4xx that the operation does not declare is impossible once a
handler ran, because every attempt carries the same request.

The assumptions on the constants say what the Go types say. A call has the
parameters of its method and a body of its type, which only `ExecuteWorkflow` may
leave out (`CallAssumption`); values have the fields of their struct
(`SampleAssumption`, `StoredAssumption`); a body made by hand has some media type
(`RawAssumption`); a request is sent at least once (`AttemptAssumption`). None says
that a value is valid.

Every safety invariant and action property of the passing runs is thus stated by a
theorem. Model-checked only: liveness (`RunsEnd`, `EvaluationEnds`, `WaitsEnd`,
`EveryRequestEnds`, `EveryCallReturns`), as the prover handles neither ENABLED nor
fairness; and, in the violation runs, the counterexamples, which are behaviours and
not theorems.

## What is not modelled, and why

* Reads of one object, and aggregates and statistics (`GetLatest`, `GetAggregate`,
  `GetSeries`, `ListNames`): a single read-only statement each, whose result is
  PostgreSQL's and not the program's. Formatting, and validation of request fields
  outside the generated package, but for the operator of a new rule: no state changes.
* The key set's refresh and the cryptography of tokens (keyfunc, jwt): a token
  verifies or not.
* `AlertRuleService.Create/Update/Delete`: not mounted; the handlers of
  `internal/alertrule` write the table themselves.
* The body of activities (HTTP calls, transformation, delays, notifications):
  an activity succeeds, fails, times out or is lost.
* Rows of `tenants` and `users`: those that `created_by`, `acknowledged_by` or an
  audit entry refer to are taken to exist (nothing in the API inserts them);
  where one does not, the statement fails, which the models allow anywhere.
* The older Create and Update of workflows, and the older writes of alerts and audit
  entries: the same statements as in `AlertHandling` and `WorkflowExecution`,
  without the services around them.
* `internal/db`, which sqlc generates: modelled from `sql/queries`, statement by
  statement, where a component uses it. Of `internal/api/oas`, tracing, metrics
  other than the recorded status, and the texts of errors.

## Plan

Done, in this order: `WorkflowExecution` with `ExecutionLifecycle`, their proofs,
`DynamicWorkflow`, `RunDispatch`, `AlertEvaluation`, `AlertHandling`,
`LegacyExecution` and `MetricDefinitions`, the last three with
their proofs; then `Admission` and `Listing` with their proofs, the generated
package, the older evaluator within `AlertEvaluation`, the input of the run and
refused policies within `DynamicWorkflow`, and the proofs of that module.

Then came the proofs of `AlertEvaluation`, of the walks of `Listing`, and of
`ApiContract` with the tables of the generated package, which completed the
theorems about safety.

Left: `ProcessWorkflow` as a module of its own, should anything mounted come to
start it.
