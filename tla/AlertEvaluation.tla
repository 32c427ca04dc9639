----------------------------- MODULE AlertEvaluation ------------------------------
(* From an ingested metric to the alerts it triggers.  MetricService.Ingest and    *)
(* IngestBatch (core/service/metric.go) answer the client and leave the evaluation *)
(* of the alert rules to a goroutine, which runs AlertRuleService.Evaluate         *)
(* (core/service/alertrule.go) once for every metric name; meanwhile the handlers  *)
(* of internal/alertrule/handler.go create, edit and delete rules.  The older      *)
(* Evaluator (internal/alertrule/evaluator.go), which the repository builds and    *)
(* calls nowhere, is here as calls of EvaluateMetric by whoever would: it reads    *)
(* other rules, understands other operators, and lives on the same tables.         *)
(*                                                                                 *)
(* A statement of a goroutine may fail by itself, or because the 5 s or 30 s of    *)
(* its context are over, in which case the ones that follow fail as well; each     *)
(* action for a statement has a partner for its failure.  The goroutines, and      *)
(* nothing else, are lost when the process ends.                                   *)
EXTENDS Integers, Sequences, SequencesExt

CONSTANTS
    Job,            \* requests to ingest metrics, each served once
    Evaluators,     \* those that are calls of Evaluator.EvaluateMetric instead
    Editor,         \* concurrent requests to edit a rule
    NumRules,       \* alert rules, numbered in the order of their names
    Metric,         \* names of metrics
    Batches,        \* the bodies that a request may have
    Contents,       \* what users write into rules
    Patches,        \* what users send to edit them
    Half,           \* an int32 ranges over -Half .. Half - 1: 2^31
    MaxTime,        \* bound of the clock
    Never,          \* last_triggered_at IS NULL
    NoRow,          \* a rule that does not exist yet
    Gone,           \* a rule that was deleted
    NoEdit,         \* an editor that is between two requests
    Nil             \* an absent field of a JSON body

Rule == 1 .. NumRules
Time == 0 .. MaxTime
Int32 == -Half .. Half - 1

\* int32(*req.CooldownSeconds): what does not fit wraps around.
Narrow(n) == ((n + Half) % (2 * Half)) - Half

\* What condition_config says, besides its condition_type.
Condition == [type : {"threshold", "metric_threshold"}, metric : Metric,
              operator : {"gt", "gte", "lt", "lte", "eq", "neq", "ne"},
              threshold : Nat]
\* workflow: trigger_workflow_id is not NULL.  Time is counted in units of cooldown.
\* asked: history, the cooldown as the user asked for it, of which the row has an int32.
Content   == {c \in [enabled : BOOLEAN, condition : Condition, cooldown : Int32, asked : Int,
                    workflow : BOOLEAN] : c.cooldown = Narrow(c.asked)}
\* A body may ask for any cooldown: it is an int of Go, and not validated.
Body      == [enabled : BOOLEAN, condition : Condition, cooldown : Int, workflow : BOOLEAN]
Patch     == [enabled : BOOLEAN \cup {Nil}, condition : Condition \cup {Nil},
              cooldown : Int \cup {Nil}, workflow : BOOLEAN \cup {Nil}]
RuleRow   == [content : Content, lastTriggered : Time \cup {Never}]
Sample    == [metric : Metric, value : Nat]
\* A rule as an evaluation has read it.
Snapshot  == [rule : Rule, row : RuleRow]
AlertRow  == [rule : Rule \cup {NoRow}, job : Job, sample : Sample, at : Time,
              content : Content, known : SUBSET Time]

ASSUME ConstantsAssumption ==
    /\ Evaluators \subseteq Job
    /\ NumRules \in Nat
    /\ MaxTime \in Nat
    /\ Half \in Nat \ {0}
    /\ Contents \subseteq Body
    /\ Patches \subseteq Patch
    /\ Nil \notin Int
    /\ Batches \subseteq Seq(Sample) \ {<<>>}
    /\ Never \notin Time
    /\ NoRow \notin RuleRow
    /\ Gone \notin RuleRow
    /\ NoRow # Gone

VARIABLES
    rules,      \* table alert_rules
    alerts,     \* table alerts, in the order of the INSERTs
    now,        \* the clock of the API and of the database
    process,    \* the API process: "up", "stopped" or "panicked"
    edit,       \* per editor: the rule and the content it is about to write
    pc,         \* per job: "idle", "evaluating", "touch", "done" or "lost"
    left,       \* per job: lastValues, without the names evaluated so far
    sample,     \* per job: the name and value under evaluation
    todo,       \* per job: the rules read for that name, without those dealt with
    \* History, which no action reads.
    batch,      \* per job: the body of its request
    since,      \* per job: when it was ingested
    clean,      \* per job: no statement has failed, but for the want of the rule
    steady,     \* per job: the rules that nobody edited since it was ingested
    touches,    \* per rule: the times last_triggered_at was ever set to
    known       \* per job: touches when it last read the rules

tables  == <<rules, alerts>>
locals  == <<pc, left, sample, todo>>
history == <<batch, since, clean, steady, touches, known>>
vars == <<rules, alerts, now, process, edit, pc, left, sample, todo,
          batch, since, clean, steady, touches, known>>

NoSample == [metric |-> Nil, value |-> 0]
Stored(r) == rules[r] \notin {NoRow, Gone}

\* The row that a body makes.
ContentOf(body) ==
    [enabled |-> body.enabled, condition |-> body.condition, workflow |-> body.workflow,
     cooldown |-> Narrow(body.cooldown), asked |-> body.cooldown]

Init ==
    /\ rules \in [Rule -> {NoRow}
          \cup [content : {ContentOf(body) : body \in Contents}, lastTriggered : {Never}]]
    /\ alerts = <<>>
    /\ now = 0
    /\ process = "up"
    /\ edit = [e \in Editor |-> NoEdit]
    /\ pc = [j \in Job |-> "idle"]
    /\ left = [j \in Job |-> [m \in {} |-> 0]]
    /\ sample = [j \in Job |-> NoSample]
    /\ todo = [j \in Job |-> <<>>]
    /\ batch = [j \in Job |-> <<>>]
    /\ since = [j \in Job |-> 0]
    /\ clean = [j \in Job |-> TRUE]
    /\ steady = [j \in Job |-> {}]
    /\ touches = [r \in Rule |-> {}]
    /\ known = [j \in Job |-> [r \in Rule |-> {}]]

-----------------------------------------------------------------------------------
(* MetricService. *)

NamesOf(samples) == {samples[i].metric : i \in DOMAIN samples}

\* Mutant: the first value of a name is kept.
FirstValues(samples) ==
    [m \in NamesOf(samples) |->
        samples[CHOOSE i \in DOMAIN samples :
            /\ samples[i].metric = m
            /\ \A k \in 1 .. i - 1 : samples[k].metric # m].value]

\* evaluateBatchAlerts: the last value of each name.
LastValues(samples) ==
    [m \in NamesOf(samples) |->
        samples[CHOOSE i \in DOMAIN samples :
            /\ samples[i].metric = m
            /\ \A k \in i + 1 .. Len(samples) : samples[k].metric # m].value]

Begin(j, samples) ==
    /\ process = "up"
    /\ pc[j] = "idle"
    /\ pc' = [pc EXCEPT ![j] = "evaluating"]
    /\ left' = [left EXCEPT ![j] = LastValues(samples)]
    /\ batch' = [batch EXCEPT ![j] = samples]
    /\ since' = [since EXCEPT ![j] = now]
    /\ steady' = [steady EXCEPT ![j] = {r \in Rule : Stored(r)}]
    /\ UNCHANGED <<tables, now, process, edit, sample, todo, clean, touches, known>>

\* The metrics are stored, the client is answered and the goroutine starts.
Ingest(j, samples) == j \notin Evaluators /\ Begin(j, samples)

\* A call of the older code is about one metric.
EvaluateMetric(j, metric) == j \in Evaluators /\ Begin(j, <<metric>>)

-----------------------------------------------------------------------------------
(* AlertRuleService.Evaluate and Evaluator.EvaluateMetric. *)

\* FindEnabledByTenant: the enabled rules.
EnabledRules == {r \in Rule : Stored(r) /\ rules[r].content.enabled}

\* GetAlertRulesForMetric: the enabled rules about the metric whose cooldown is over,
\* in no order; the cooldown is not looked at again.
DueFor(m) ==
    {r \in Rule : /\ Stored(r)
                  /\ rules[r].content.enabled
                  /\ rules[r].content.condition.type = "metric_threshold"
                  /\ rules[r].content.condition.metric = m
                  /\ \/ rules[r].lastTriggered = Never
                     \/ rules[r].lastTriggered + rules[r].content.cooldown < now}

\* The rows that the statement of j for metric m may return, of EnabledRules in the
\* order of their names.
RulesFor(j, m) ==
    {[i \in DOMAIN s |-> [rule |-> s[i], row |-> rules[s[i]]]] : s \in
        IF j \in Evaluators THEN SetToSeqs(DueFor(m))
        ELSE {s \in SetToSeqs(EnabledRules) : \A i, k \in DOMAIN s : i < k => s[i] < s[k]}}

\* Mutant: a name stays among those to evaluate.
NameKept(j, m) ==
    /\ pc[j] = "evaluating"
    /\ todo[j] = <<>>
    /\ m \in DOMAIN left[j]
    /\ UNCHANGED left

\* The loop over lastValues takes the next name, in the order of a Go map.
NextName(j, m) ==
    /\ pc[j] = "evaluating"
    /\ todo[j] = <<>>
    /\ m \in DOMAIN left[j]
    /\ left' = [left EXCEPT ![j] = [n \in DOMAIN @ \ {m} |-> @[n]]]

Read(j) ==
    /\ \E m \in Metric :
          /\ NextName(j, m)
          /\ sample' = [sample EXCEPT ![j] = [metric |-> m, value |-> left[j][m]]]
          /\ \E read \in RulesFor(j, m) : todo' = [todo EXCEPT ![j] = read]
    /\ known' = [known EXCEPT ![j] = touches]
    /\ UNCHANGED <<tables, now, process, edit, pc, batch, since, clean, steady, touches>>

\* Evaluate returns the error, and the loop goes on with the next name.
ReadFails(j) ==
    /\ \E m \in Metric : NextName(j, m)
    /\ clean' = [clean EXCEPT ![j] = FALSE]
    /\ UNCHANGED <<tables, now, process, edit, pc, sample, todo,
                   batch, since, steady, touches, known>>

\* CanTrigger of a rule as it was read.
CanTrigger(row) ==
    /\ row.content.enabled
    /\ row.lastTriggered # Never => now - row.lastTriggered >= row.content.cooldown

Compare(operator, value, threshold) ==
    CASE operator = "gt"  -> value > threshold
      [] operator = "gte" -> value >= threshold
      [] operator = "lt"  -> value < threshold
      [] operator = "lte" -> value <= threshold
      [] operator = "eq"  -> value = threshold
      [] operator = "neq" -> value # threshold
      [] OTHER            -> FALSE    \* ErrInvalidOperator

\* EvaluateThreshold; ErrInvalidConditionType for any other type.  The name of the
\* metric is not compared with anything.
EvaluateThreshold(condition, value) ==
    /\ condition.type = "threshold"
    /\ Compare(condition.operator, value, condition.threshold)

\* The older one compares the name, and has "ne" for "neq".
EvaluateRule(condition, metric) ==
    /\ condition.metric = metric.metric
    /\ \/ /\ condition.operator # "neq"
          /\ Compare(condition.operator, metric.value, condition.threshold)
       \/ condition.operator = "ne" /\ metric.value # condition.threshold

\* The first rule to deal with is to trigger.
Triggered(j) ==
    /\ pc[j] = "evaluating"
    /\ todo[j] # <<>>
    /\ LET row == Head(todo[j]).row
       IN  IF j \in Evaluators THEN EvaluateRule(row.content.condition, sample[j])
           ELSE CanTrigger(row) /\ EvaluateThreshold(row.content.condition, sample[j].value)

NextRule(j) == todo' = [todo EXCEPT ![j] = Tail(@)]

Skip(j) ==
    /\ pc[j] = "evaluating"
    /\ todo[j] # <<>>
    /\ ~ Triggered(j)
    /\ NextRule(j)
    /\ UNCHANGED <<tables, now, process, edit, pc, left, sample, history>>

\* The alert; the row of the rule as it was read, and what the job knew of its past.
Alert(j) ==
    [rule |-> Head(todo[j]).rule, job |-> j, sample |-> sample[j], at |-> now,
     content |-> Head(todo[j]).row.content, known |-> known[j][Head(todo[j]).rule]]

\* alertService.Create: the foreign key wants the rule to exist still.
Insert(j) ==
    /\ Triggered(j)
    /\ Stored(Head(todo[j]).rule)
    /\ alerts' = Append(alerts, Alert(j))
    /\ pc' = [pc EXCEPT ![j] = "touch"]
    /\ UNCHANGED <<rules, now, process, edit, left, sample, todo, history>>

\* Mutant: the error is dropped.
InsertErrorDropped(j) ==
    /\ Triggered(j)
    /\ pc' = [pc EXCEPT ![j] = "touch"]
    /\ UNCHANGED <<tables, now, process, edit, left, sample, todo, history>>

\* The error may come after the INSERT took effect; the rule is left as it is.
InsertFails(j) ==
    /\ Triggered(j)
    /\ \/ UNCHANGED alerts
       \/ Stored(Head(todo[j]).rule) /\ alerts' = Append(alerts, Alert(j))
    /\ NextRule(j)
    /\ clean' = [clean EXCEPT ![j] = @ /\ ~ Stored(Head(todo[j]).rule)]
    /\ UNCHANGED <<rules, now, process, edit, pc, left, sample,
                   batch, since, steady, touches, known>>

\* UPDATE alert_rules SET last_triggered_at = NOW(), of a row that may be gone.
SetLastTriggered(r) ==
    /\ rules' = IF Stored(r) THEN [rules EXCEPT ![r].lastTriggered = now] ELSE rules
    /\ touches' = IF Stored(r) THEN [touches EXCEPT ![r] = @ \cup {now}] ELSE touches

\* Goroutines and requests end with the process.
InFlight == {k \in Job : pc[k] \in {"evaluating", "touch"}}
Die(how) ==
    /\ process' = how
    /\ edit' = [e \in Editor |-> NoEdit]
    /\ pc' = [k \in Job |-> IF k \in InFlight THEN "lost" ELSE pc[k]]
    /\ todo' = [k \in Job |-> IF k \in InFlight THEN <<>> ELSE todo[k]]

\* Execute of the workflowService, an interface that main leaves nil: the goroutine
\* panics, no Recoverer is above it, and the process ends.  The triggerWorkflow of the
\* older code (LegacyExecution) returns, and its error is logged.
TriggerWorkflow(j) ==
    IF Head(todo[j]).row.content.workflow /\ j \notin Evaluators
    THEN Die("panicked")
    ELSE /\ NextRule(j)
         /\ pc' = [pc EXCEPT ![j] = "evaluating"]
         /\ UNCHANGED <<process, edit>>

Touch(j) ==
    /\ pc[j] = "touch"
    /\ SetLastTriggered(Head(todo[j]).rule)
    /\ TriggerWorkflow(j)
    /\ UNCHANGED <<alerts, now, left, sample, batch, since, clean, steady, known>>

\* The error of UpdateLastTriggered is dropped.
TouchFails(j) ==
    /\ pc[j] = "touch"
    /\ clean' = [clean EXCEPT ![j] = FALSE]
    /\ TriggerWorkflow(j)
    /\ UNCHANGED <<tables, now, left, sample, batch, since, steady, touches, known>>

\* The goroutine returns.
Finish(j) ==
    /\ pc[j] = "evaluating"
    /\ todo[j] = <<>>
    /\ DOMAIN left[j] = {}
    /\ pc' = [pc EXCEPT ![j] = "done"]
    /\ UNCHANGED <<tables, now, process, edit, left, sample, todo, history>>

-----------------------------------------------------------------------------------
(* The handlers for rules. *)

Disturb(r) == steady' = [j \in Job |-> steady[j] \ {r}]

\* The handler knows the operators of the older code, and asks for one of them where
\* that code would look.
OperatorAccepted(condition) ==
    condition.type = "metric_threshold" => condition.operator # "neq"

CreateRule(r, body) ==
    /\ process = "up"
    /\ rules[r] = NoRow
    /\ OperatorAccepted(body.condition)
    /\ rules' = [rules EXCEPT ![r] = [content |-> ContentOf(body), lastTriggered |-> Never]]
    /\ UNCHANGED <<alerts, now, process, edit, locals, history>>

\* Mutant: the absent fields of the request are laid over the row as well.
MergeAbsent(content, patch) == patch
\* The fields of the request laid over those of the row.  Update validates none of them.
Over(field, sent) == IF sent = Nil THEN field ELSE sent
Merge(content, patch) ==
    [enabled   |-> Over(content.enabled, patch.enabled),
     condition |-> Over(content.condition, patch.condition),
     workflow  |-> Over(content.workflow, patch.workflow),
     cooldown  |-> IF patch.cooldown = Nil THEN content.cooldown ELSE Narrow(patch.cooldown),
     asked     |-> Over(content.asked, patch.cooldown)]

\* Update reads the rule and merges, ...
EditRead(e, r, patch) ==
    /\ process = "up"
    /\ edit[e] = NoEdit
    /\ Stored(r)
    /\ edit' = [edit EXCEPT ![e] =
          [rule |-> r, row |-> [rules[r] EXCEPT !.content = Merge(@, patch)]]]
    /\ UNCHANGED <<tables, now, process, locals, history>>

\* Mutant: the UPDATE names last_triggered_at too.
RowWritten(stored, read) == read
\* What the UPDATE of the handler makes of the stored row.
ContentWritten(stored, read) == [stored EXCEPT !.content = read.content]

\* ... and writes the result, unless the rule is gone or the statement fails.
EditWrite(e) ==
    /\ edit[e] # NoEdit
    /\ LET r == edit[e].rule
       IN  \/ /\ Stored(r)
              /\ rules' = [rules EXCEPT ![r] = ContentWritten(@, edit[e].row)]
              /\ Disturb(r)
           \/ UNCHANGED <<rules, steady>>
    /\ edit' = [edit EXCEPT ![e] = NoEdit]
    /\ UNCHANGED <<alerts, now, process, locals, batch, since, clean, touches, known>>

\* ON DELETE SET NULL takes the rule from its alerts.
DeleteRule(r) ==
    /\ process = "up"
    /\ Stored(r)
    /\ rules' = [rules EXCEPT ![r] = Gone]
    /\ alerts' = [i \in DOMAIN alerts |->
          IF alerts[i].rule = r THEN [alerts[i] EXCEPT !.rule = NoRow] ELSE alerts[i]]
    /\ Disturb(r)
    /\ UNCHANGED <<now, process, edit, locals, batch, since, clean, touches, known>>

-----------------------------------------------------------------------------------
Tick ==
    /\ now < MaxTime
    /\ now' = now + 1
    /\ UNCHANGED <<tables, process, edit, locals, history>>

\* A deployment or a crash; a graceful shutdown does not wait for the goroutines.
Stop ==
    /\ process = "up"
    /\ Die("stopped")
    /\ UNCHANGED <<tables, now, left, sample, history>>

Restart ==
    /\ process # "up"
    /\ process' = "up"
    /\ UNCHANGED <<tables, now, edit, locals, history>>

Evaluate(j) ==
    \/ Read(j)
    \/ ReadFails(j)
    \/ Skip(j)
    \/ Insert(j)
    \/ InsertFails(j)
    \/ Touch(j)
    \/ TouchFails(j)
    \/ Finish(j)

Manage ==
    \/ \E r \in Rule :
          \/ \E body \in Contents : CreateRule(r, body)
          \/ \E e \in Editor, patch \in Patches : EditRead(e, r, patch)
          \/ DeleteRule(r)
    \/ \E e \in Editor : EditWrite(e)

Next ==
    \/ \E j \in Job, samples \in Batches :
          Ingest(j, samples) \/ EvaluateMetric(j, samples[1])
    \/ \E j \in Job : Evaluate(j)
    \/ Manage
    \/ Tick
    \/ Stop
    \/ Restart

Spec == Init /\ [][Next]_vars

\* The Go scheduler runs every goroutine, and its statements return, be it with the
\* error of an expired context.
FairSpec == Spec /\ \A j \in Job : WF_vars(Evaluate(j))

-----------------------------------------------------------------------------------
(* Properties. *)

TablesOK ==
    /\ rules \in [Rule -> RuleRow \cup {NoRow, Gone}]
    /\ touches \in [Rule -> SUBSET Time]
    /\ alerts \in Seq(AlertRow)
    /\ now \in Time
    /\ process \in {"up", "stopped", "panicked"}
    /\ edit \in [Editor -> Snapshot \cup {NoEdit}]

RequestsOK ==
    /\ batch \in [Job -> Seq(Sample)]
    /\ since \in [Job -> Time]
    /\ clean \in [Job -> BOOLEAN]
    /\ steady \in [Job -> SUBSET Rule]

LocalsOK ==
    /\ pc \in [Job -> {"idle", "evaluating", "touch", "done", "lost"}]
    /\ DOMAIN left = Job
    /\ sample \in [Job -> Sample \cup {NoSample}]
    /\ todo \in [Job -> Seq(Snapshot)]
    /\ known \in [Job -> [Rule -> SUBSET Time]]

\* A goroutine lives in a process, and has a value while it has rules to deal with.
JobOK(j) ==
    /\ left[j] \in [DOMAIN left[j] -> Nat]
    /\ DOMAIN left[j] \subseteq NamesOf(batch[j])
    /\ pc[j] \in {"evaluating", "touch"} => process = "up"
    /\ pc[j] = "touch" => todo[j] # <<>>
    /\ todo[j] # <<>> => pc[j] \in {"evaluating", "touch"} /\ sample[j] \in Sample

TypeOK == TablesOK /\ RequestsOK /\ LocalsOK /\ \A j \in Job : JobOK(j)

\* The cooldown works between evaluations that do not overlap: an alert comes at least
\* the cooldown after every triggering of its rule that was recorded when its job read
\* the rules, however the rule was edited in between.  The cooldown is the one that the
\* last body asked for, provided that it is not negative and fits into an int32.  For the
\* others nothing more is promised than what the row has: a negative one, or one that
\* wraps around to a negative one or to 0, is no cooldown (handler.go:169, 332).
CooldownAfterKnownTriggers ==
    \A i \in DOMAIN alerts :
        LET content == alerts[i].content
        IN  \A t \in alerts[i].known :
               /\ alerts[i].at >= t + content.cooldown
               /\ content.asked \in 0 .. Half - 1 => alerts[i].at >= t + content.asked

\* A rule is silenced by alerts only: when its last_triggered_at is set, an alert of
\* the rule was stored before.
SilencedByAlert ==
    \A r \in Rule : Stored(r) /\ rules[r].lastTriggered # Never =>
        \E i \in DOMAIN alerts : /\ alerts[i].rule = r
                                 /\ alerts[i].at <= rules[r].lastTriggered

\* The value crosses the threshold of the condition.
Crosses(condition, value) ==
    LET t == condition.threshold
        o == condition.operator
    IN  \/ o \in {"gt", "gte", "neq", "ne"} /\ value > t
        \/ o \in {"lt", "lte", "neq", "ne"} /\ value < t
        \/ o \in {"gte", "lte", "eq"} /\ value = t

\* What an evaluation understands: the one wants "threshold" and "neq" and takes any
\* metric, the other "metric_threshold", "ne" and the metric that the rule names.
Concerns(j, condition, m) ==
    IF j \in Evaluators
    THEN condition.type = "metric_threshold" /\ condition.operator # "neq" /\ condition.metric = m
    ELSE condition.type = "threshold" /\ condition.operator # "ne"

\* The evaluation of a request that went well misses no rule: a rule that was there
\* all the time, enabled, and whose threshold the last value of some metric crosses,
\* has triggered since, or had triggered no longer ago than its cooldown.
NothingMissed ==
    \A j \in Job : pc[j] = "done" /\ clean[j] =>
        \A r \in steady[j], m \in DOMAIN LastValues(batch[j]) :
            LET content == rules[r].content
            IN  /\ content.enabled
                /\ Concerns(j, content.condition, m)
                /\ \E i \in DOMAIN batch[j] :
                      /\ batch[j][i].metric = m
                      /\ \A k \in i + 1 .. Len(batch[j]) : batch[j][k].metric # m
                      /\ Crosses(content.condition, batch[j][i].value)
                => \E t \in touches[r] :
                       \/ t >= since[j]
                       \/ t + content.cooldown > since[j]
                       \/ j \in Evaluators /\ t + content.cooldown = since[j]

\* An alert is about a value that crossed: of all the values of one name in its
\* request the last one, and on the right side of the threshold of its rule; and about
\* the metric of the rule, where the older code is asked.
AlertsAreJustified ==
    \A i \in DOMAIN alerts :
        /\ Concerns(alerts[i].job, alerts[i].content.condition, alerts[i].sample.metric)
        /\ Crosses(alerts[i].content.condition, alerts[i].sample.value)
        /\ \E k \in DOMAIN batch[alerts[i].job] :
              /\ batch[alerts[i].job][k] = alerts[i].sample
              /\ \A n \in k + 1 .. Len(batch[alerts[i].job]) :
                    batch[alerts[i].job][n].metric # alerts[i].sample.metric

\* An evaluation alerts on what crosses its thresholds, all of it, and on nothing else.
EvaluationIsExact == NothingMissed /\ AlertsAreJustified

\* Every evaluation comes to its end, or is lost with the process: a job begins once, so
\* one that stayed for ever would keep InFlight from becoming empty again.
EvaluationEnds == []<>(InFlight = {})

-----------------------------------------------------------------------------------
(* What the repository says and the code does not do. *)

\* A condition names its metric (sql/migrations/004_alert_rules.up.sql:11): alerts of a
\* rule about one metric are not caused by values of another.
AlertAboutItsMetric ==
    \A i \in DOMAIN alerts : alerts[i].sample.metric = alerts[i].content.condition.metric
===================================================================================
