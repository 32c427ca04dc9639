----------------------------- MODULE MetricDefinitions -----------------------------
(* The definition of one metric of one tenant: CreateDefinition, UpdateDefinition and *)
(* DeleteDefinition of the metric service, over the unique row of metric_definitions.  *)
(* All statements name the row by (tenant_id, name), so that definitions of other      *)
(* names do not matter.  A step is one SQL statement with the code up to the next.     *)
EXTENDS Integers

CONSTANTS
    Request,
    Field,        \* the text columns
    Required,     \* those that the handler fills in: type and aggregation
    Value,
    Default,      \* what it fills in
    Day,          \* retention days that clients ask for: any int of Go
    DefaultDays,
    Half,         \* int32 ranges over -Half..(Half - 1)
    Input,        \* the bodies of the requests
    Null, NoRow

Int32 == -Half .. (Half - 1)

\* A body: Null for what it does not name.
Body == [texts : [Field -> Value \cup {Null}], days : Day \cup {Null}]
\* An id is made by uuid.New() in the service, or by the database for a row.
MemoryID(r) == <<"memory", r>>
StoredID(r) == <<"stored", r>>
ID == {"memory", "stored"} \X Request
\* domain.MetricDefinition, and a row; the columns of the former may not fit the latter.
Definition == [id : ID \cup {Null}, texts : [Field -> Value \cup {Null}], retention : Int]
Row        == [id : ID, texts : [Field -> Value \cup {Null}], retention : Int32]

ASSUME ConstantsAssumption ==
    /\ Half \in Nat \ {0}
    /\ Day \subseteq Int
    /\ DefaultDays \in 1 .. (Half - 1)
    /\ Required \subseteq Field
    /\ Default \in Value
    /\ Input \subseteq Body
    /\ Null \notin Value \cup Int
    /\ NoRow \notin Row

VARIABLES
    row,         \* metric_definitions
    pc,          \* per request: next statement
    arg,         \* per request: its body
    memory,      \* per request: the definition it holds, and answers with
    overlapped   \* history: the requests during which another one changed the row

vars == <<row, pc, arg, memory, overlapped>>

Blank == [id |-> Null, texts |-> [f \in Field |-> Null], retention |-> 0]

Init ==
    /\ row = NoRow
    /\ pc = [r \in Request |-> "idle"]
    /\ arg = [r \in Request |-> [texts |-> Blank.texts, days |-> Null]]
    /\ memory = [r \in Request |-> Blank]
    /\ overlapped = {}

Goto(r, next) == pc' = [pc EXCEPT ![r] = next]
Answers(r) == Goto(r, "done")
Refuses(r) == Goto(r, "refused")

\* r writes the row; whoever is under way did not see it.
Store(r, new) ==
    /\ row' = new
    /\ overlapped' = overlapped \cup {q \in Request \ {r} : pc[q] \in {"insert", "update", "delete"}}

\* int32(n)
Narrow(n) == ((n + Half) % (2 * Half)) - Half

\* Mutant: the test comes after the conversion and asks for a value other than 0 only.
ColumnsNonZero(d) ==
    [texts |-> d.texts, retention |-> IF d.retention # 0 THEN Narrow(d.retention) ELSE Null]
\* convertDefinitionToDBFields: no retention_days unless they are positive, and no id.
Columns(d) ==
    [texts |-> d.texts, retention |-> IF d.retention > 0 THEN Narrow(d.retention) ELSE Null]

\* The first that is not NULL.
Coalesce(a, b) == IF a = Null THEN b ELSE a

-----------------------------------------------------------------------------------
(* CreateDefinition. *)

\* The handler's defaults.
WithDefaults(texts) ==
    [f \in Field |-> IF f \in Required THEN Coalesce(texts[f], Default) ELSE texts[f]]

\* Mutant: no default for retention_days.
NewWithoutRetention(r, body) ==
    [id        |-> MemoryID(r),
     texts     |-> WithDefaults(body.texts),
     retention |-> IF body.days # Null /\ body.days > 0 THEN body.days ELSE 0]
\* The definition that the service makes of them, with a new id.
New(r, body) ==
    [id        |-> MemoryID(r),
     texts     |-> WithDefaults(body.texts),
     retention |-> IF body.days # Null /\ body.days > 0 THEN body.days ELSE DefaultDays]

\* Refused at once if the name is taken, as the others are if it is not.
CreateRead(r, body) ==
    /\ pc[r] = "idle"
    /\ row = NoRow
    /\ Goto(r, "insert")
    /\ arg' = [arg EXCEPT ![r] = body]
    /\ memory' = [memory EXCEPT ![r] = New(r, body)]
    /\ UNCHANGED <<row, overlapped>>

\* INSERT names no id: the column has its default, an id of the database's own, and nobody
\* looks at the row it returns.
Inserted(r, columns) ==
    [id |-> StoredID(r), texts |-> columns.texts, retention |-> columns.retention]

\* UNIQUE (tenant_id, name)
Insert(r) ==
    /\ pc[r] = "insert"
    /\ row = NoRow
    /\ Store(r, Inserted(r, Columns(memory[r])))
    /\ Answers(r)
    /\ UNCHANGED <<arg, memory>>

-----------------------------------------------------------------------------------
(* UpdateDefinition. *)

\* Mutant: the handler's defaults, as for a creation.
MergeWithDefaults(d, body) ==
    [id        |-> d.id,
     texts     |-> WithDefaults(body.texts),
     retention |-> Coalesce(body.days, d.retention)]
\* toDomain, and the fields of the body.
Merge(d, body) ==
    [id        |-> d.id,
     texts     |-> [f \in Field |-> Coalesce(body.texts[f], d.texts[f])],
     retention |-> Coalesce(body.days, d.retention)]

UpdateRead(r, body) ==
    /\ pc[r] = "idle"
    /\ row # NoRow
    /\ Goto(r, "update")
    /\ arg' = [arg EXCEPT ![r] = body]
    /\ memory' = [memory EXCEPT ![r] = Merge(row, body)]
    /\ UNCHANGED <<row, overlapped>>

\* Mutant: no COALESCE but for retention_days.
WrittenAsIs(old, new) ==
    [id        |-> old.id,
     texts     |-> new.texts,
     retention |-> Coalesce(new.retention, old.retention)]
\* Mutant: the stored value goes first.
WrittenOnce(old, new) ==
    [id        |-> old.id,
     texts     |-> [f \in Field |-> Coalesce(old.texts[f], new.texts[f])],
     retention |-> Coalesce(new.retention, old.retention)]
\* UPDATE ... SET column = COALESCE($n, column), of every column but the id
Written(old, new) ==
    [id        |-> old.id,
     texts     |-> [f \in Field |-> Coalesce(new.texts[f], old.texts[f])],
     retention |-> Coalesce(new.retention, old.retention)]

Update(r) ==
    /\ pc[r] = "update"
    /\ row # NoRow
    /\ Store(r, Written(row, Columns(memory[r])))
    /\ Answers(r)
    /\ UNCHANGED <<arg, memory>>

-----------------------------------------------------------------------------------
(* DeleteDefinition. *)

DeleteRead(r) ==
    /\ pc[r] = "idle"
    /\ row # NoRow
    /\ Goto(r, "delete")
    /\ UNCHANGED <<row, arg, memory, overlapped>>

\* Answered like any other if the row is gone already.
Delete(r) ==
    /\ pc[r] = "delete"
    /\ Store(r, NoRow)
    /\ Answers(r)
    /\ UNCHANGED <<arg, memory>>

-----------------------------------------------------------------------------------
\* A statement fails, and always does when the row came or went after it was looked for.
Fail(r) ==
    /\ pc[r] \in {"insert", "update", "delete"}
    /\ Refuses(r)
    /\ UNCHANGED <<row, arg, memory, overlapped>>

Next ==
    \E r \in Request :
        \/ \E body \in Input : CreateRead(r, body) \/ UpdateRead(r, body)
        \/ Insert(r)
        \/ Update(r)
        \/ DeleteRead(r)
        \/ Delete(r)
        \/ Fail(r)

Spec == Init /\ [][Next]_vars

-----------------------------------------------------------------------------------
(* Properties. *)

TypeOK ==
    /\ row \in Row \cup {NoRow}
    /\ pc \in [Request -> {"idle", "insert", "update", "delete", "done", "refused"}]
    /\ arg \in [Request -> Body]
    /\ memory \in [Request -> Definition]
    /\ overlapped \subseteq Request

\* retention_days stay positive, whatever is asked for by whom and in which order, as
\* long as nobody asks for more than an int32 holds: then the conversion that follows
\* the test "> 0" makes it zero or negative.
RetentionIsPositive ==
    row = NoRow \/ row.retention > 0
    \/ \E r \in Request : arg[r].days \in {d \in Day : d >= Half}

\* An update empties no field, not even one that another update set after it had read
\* the definition.
NothingCleared ==
    [][\A f \in Field : row # NoRow /\ row' # NoRow =>
          (row.texts[f] # Null => row'.texts[f] # Null)]_vars

\* An update changes a field that its body does not name only if it overlaps with
\* another request that wrote.
UnnamedFieldsStay ==
    [][\A r \in Request \ overlapped : pc[r] = "update" /\ pc'[r] = "done" =>
          /\ \A f \in Field : arg[r].texts[f] = Null => row'.texts[f] = row.texts[f]
          /\ arg[r].days = Null => row'.retention = row.retention]_vars

\* The definition answered to a creation or an update shows what is stored, unless it
\* overlaps with another writer or its retention is not a positive int32, with one
\* exception: the id answered to an update is that of the row, and the one answered to a
\* creation never is, and is stored nowhere (service/metric.go:250, metrics.sql:141).
AnswersShowTheRow ==
    [][\A r \in Request \ overlapped :
          pc[r] \in {"insert", "update"} /\ pc'[r] = "done" =>
             /\ memory[r].retention \in 1 .. (Half - 1) =>
                   row'.texts = memory[r].texts /\ row'.retention = memory[r].retention
             /\ pc[r] = "update" <=> row'.id = memory[r].id]_vars
===================================================================================
