-------------------------- MODULE MetricDefinitionsProofs --------------------------
(* Theorems about MetricDefinitions, for integers of any width, any set of requests    *)
(* and any fields.                                                                  *)
EXTENDS MetricDefinitions, TLAPS

-----------------------------------------------------------------------------------
(* Facts about the conversions. *)

\* The conversion yields an int32, and leaves the positive ones alone.
LEMMA NarrowFits ==
    ASSUME NEW n \in Int
    PROVE  /\ Narrow(n) \in Int32
           /\ n \in 1 .. (Half - 1) => Narrow(n) = n
<1> DEFINE w == 2 * Half
<1>1. Half \in Nat \ {0}
  BY ConstantsAssumption
<1>2. w \in Nat \ {0} /\ w = Half + Half
  BY <1>1
<1>3. (n + Half) % w \in 0 .. (w - 1)
  <2> HIDE DEF w
  <2> QED BY <1>1, <1>2
<1>4. Narrow(n) = ((n + Half) % w) - Half
  BY DEF Narrow
<1>5. Narrow(n) \in Int32
  <2> HIDE DEF w
  <2> QED BY <1>1, <1>2, <1>3, <1>4 DEF Int32
<1>6. ASSUME n \in 1 .. (Half - 1)
      PROVE  Narrow(n) = n
  <2> HIDE DEF w
  <2>1. n + Half \in 0 .. (w - 1)
    BY <1>1, <1>2, <1>6
  <2>2. (n + Half) % w = n + Half
    BY <1>2, <2>1
  <2> QED
    BY <1>1, <1>4, <2>2
<1> QED
  BY <1>5, <1>6

LEMMA CoalesceType ==
    ASSUME NEW S, NEW a \in S \cup {Null}, NEW b \in S \cup {Null}
    PROVE  /\ Coalesce(a, b) \in S \cup {Null}
           /\ a # Null \/ b # Null => Coalesce(a, b) \in S
           /\ a = Null => Coalesce(a, b) = b
BY DEF Coalesce

\* What a definition becomes on its way to the table: its positive int32 is kept.
LEMMA ColumnsType ==
    ASSUME NEW d \in Definition
    PROVE  /\ Columns(d).texts = d.texts
           /\ Columns(d).texts \in [Field -> Value \cup {Null}]
           /\ Columns(d).retention \in Int32 \cup {Null}
           /\ d.retention > 0 => Columns(d).retention \in Int32
           /\ d.retention < Half =>
                 Columns(d).retention = Null \/ Columns(d).retention > 0
<1>1. d.retention \in Int /\ d.texts \in [Field -> Value \cup {Null}]
  BY DEF Definition
<1>2. /\ Narrow(d.retention) \in Int32
      /\ d.retention \in 1 .. (Half - 1) => Narrow(d.retention) = d.retention
  BY <1>1, NarrowFits
<1>3. Half \in Nat
  BY ConstantsAssumption
<1> QED
  BY <1>1, <1>2, <1>3 DEF Columns

\* COALESCE keeps the type of the row, every field that is set, and a positive retention.
LEMMA WrittenType ==
    ASSUME NEW old \in Row, NEW d \in Definition
    PROVE  /\ Written(old, Columns(d)) \in Row
           /\ \A f \in Field :
                 old.texts[f] # Null => Written(old, Columns(d)).texts[f] # Null
           /\ old.retention > 0 /\ d.retention < Half =>
                 Written(old, Columns(d)).retention > 0
<1> DEFINE new == Columns(d)
<1>1. /\ new.texts \in [Field -> Value \cup {Null}]
      /\ new.retention \in Int32 \cup {Null}
      /\ d.retention < Half => new.retention = Null \/ new.retention > 0
  BY ColumnsType
<1>2. /\ old.id \in ID
      /\ old.texts \in [Field -> Value \cup {Null}] /\ old.retention \in Int32
  BY DEF Row
<1> HIDE DEF new
<1>3. /\ Coalesce(new.retention, old.retention) \in Int32
      /\ old.retention > 0 /\ d.retention < Half =>
            Coalesce(new.retention, old.retention) > 0
  BY <1>1, <1>2, ConstantsAssumption DEF Coalesce, Int32
<1>4. /\ [f \in Field |-> Coalesce(new.texts[f], old.texts[f])]
            \in [Field -> Value \cup {Null}]
      /\ \A f \in Field :
            old.texts[f] # Null => Coalesce(new.texts[f], old.texts[f]) # Null
  BY <1>1, <1>2 DEF Coalesce
<1>5. Written(old, new) \in Row
  BY <1>2, <1>3, <1>4 DEF Written, Row
<1> QED
  BY <1>3, <1>4, <1>5 DEF Written, new

-----------------------------------------------------------------------------------
(* The inductive invariant. *)

\* Nobody has asked for a retention that no int32 holds.
NobodyWraps == \A r \in Request : arg[r].days \notin {d \in Day : d >= Half}

\* A request that has not begun has no body; one that is about to insert has an id of its
\* own making and the positive retention of the handler, and none holds one that wraps if
\* none asked for it.
Retentions ==
    \A r \in Request :
        /\ pc[r] = "idle" => arg[r].days = Null
        /\ pc[r] = "insert" => memory[r].retention > 0 /\ memory[r].id = MemoryID(r)
        /\ NobodyWraps => memory[r].retention < Half

\* What a request holds that nobody has disturbed since it read.
Fresh ==
    \A r \in Request \ overlapped :
        pc[r] = "update" => row # NoRow /\ memory[r] = Merge(row, arg[r])

IInv == TypeOK /\ Retentions /\ RetentionIsPositive /\ Fresh

LEMMA Initial == Init => IInv
<1> SUFFICES ASSUME Init PROVE IInv
  OBVIOUS
<1>1. Half \in Nat \ {0} /\ Null \notin Day
  BY ConstantsAssumption
<1>2. Blank \in Definition /\ Blank.retention = 0
  BY DEF Blank, Definition
<1>3. [texts |-> Blank.texts, days |-> Null] \in Body
  BY <1>2 DEF Blank, Body
<1> QED
  BY <1>1, <1>2, <1>3
     DEF Init, IInv, TypeOK, Retentions, RetentionIsPositive, Fresh

\* What the handlers make of a body.
LEMMA NewType ==
    ASSUME NEW r \in Request, NEW body \in Body
    PROVE  /\ New(r, body) \in Definition
           /\ New(r, body).id = MemoryID(r)
           /\ New(r, body).retention > 0
           /\ body.days \notin {d \in Day : d >= Half} => New(r, body).retention < Half
<1>1. /\ body.texts \in [Field -> Value \cup {Null}]
      /\ body.days \in Day \cup {Null}
  BY DEF Body
<1>2. /\ Half \in Nat /\ Day \subseteq Int
      /\ DefaultDays \in Int /\ DefaultDays > 0 /\ DefaultDays < Half
      /\ Default \in Value
  BY ConstantsAssumption
<1>3. WithDefaults(body.texts) \in [Field -> Value \cup {Null}]
  BY <1>1, <1>2 DEF WithDefaults, Coalesce
<1>4. MemoryID(r) \in ID /\ New(r, body).id = MemoryID(r)
  BY DEF MemoryID, ID, New
<1>5. CASE body.days # Null /\ body.days > 0
  <2>1. body.days \in Int /\ New(r, body).retention = body.days
    BY <1>1, <1>2, <1>5 DEF New
  <2> QED
    BY <1>1, <1>2, <1>3, <1>4, <1>5, <2>1 DEF New, Definition
<1>6. CASE ~ (body.days # Null /\ body.days > 0)
  <2>1. New(r, body).retention = DefaultDays
    BY <1>6 DEF New
  <2> QED
    BY <1>2, <1>3, <1>4, <1>6, <2>1 DEF New, Definition
<1> QED
  BY <1>5, <1>6

LEMMA MergeType ==
    ASSUME NEW body \in Body, NEW old \in Row
    PROVE  /\ Merge(old, body) \in Definition
           /\ Merge(old, body).id = old.id
           /\ body.days \notin {d \in Day : d >= Half} => Merge(old, body).retention < Half
           /\ body.days = Null => Merge(old, body).retention = old.retention
           /\ \A f \in Field : /\ body.texts[f] = Null => Merge(old, body).texts[f] = old.texts[f]
                               /\ old.texts[f] # Null => Merge(old, body).texts[f] # Null
<1>1. /\ body.texts \in [Field -> Value \cup {Null}]
      /\ body.days \in Day \cup {Null}
      /\ old.id \in ID
      /\ old.texts \in [Field -> Value \cup {Null}]
      /\ old.retention \in Int32
  BY DEF Body, Row
<1>2. Half \in Nat /\ Day \subseteq Int
  BY ConstantsAssumption
<1>3. [f \in Field |-> Coalesce(body.texts[f], old.texts[f])] \in [Field -> Value \cup {Null}]
  BY <1>1 DEF Coalesce
<1>4. /\ Coalesce(body.days, old.retention) \in Int
      /\ body.days \notin {d \in Day : d >= Half} => Coalesce(body.days, old.retention) < Half
      /\ body.days = Null => Coalesce(body.days, old.retention) = old.retention
  <2>1. old.retention \in Int /\ old.retention < Half
    BY <1>1, <1>2 DEF Int32
  <2>2. CASE body.days = Null
    BY <2>1, <2>2 DEF Coalesce
  <2>3. CASE body.days # Null
    <3>1. body.days \in Day /\ body.days \in Int
      BY <1>1, <1>2, <2>3
    <3>2. Coalesce(body.days, old.retention) = body.days
      BY <2>3 DEF Coalesce
    <3>3. body.days \notin {d \in Day : d >= Half} => body.days < Half
      BY <1>2, <3>1
    <3> QED
      BY <2>3, <3>1, <3>2, <3>3
  <2> QED
    BY <2>2, <2>3
<1> QED
  BY <1>1, <1>3, <1>4 DEF Merge, Definition, Coalesce

-----------------------------------------------------------------------------------
(* Every step keeps the invariant, and does what the action properties say. *)

\* The action properties of MetricDefinitions, without their boxes.
Kept ==
    \A f \in Field : row # NoRow /\ row' # NoRow =>
        (row.texts[f] # Null => row'.texts[f] # Null)
UnnamedKept ==
    \A r \in Request \ overlapped : pc[r] = "update" /\ pc'[r] = "done" =>
        /\ \A f \in Field : arg[r].texts[f] = Null => row'.texts[f] = row.texts[f]
        /\ arg[r].days = Null => row'.retention = row.retention
Answered ==
    \A r \in Request \ overlapped :
        pc[r] \in {"insert", "update"} /\ pc'[r] = "done" =>
           /\ memory[r].retention \in 1 .. (Half - 1) =>
                 row'.texts = memory[r].texts /\ row'.retention = memory[r].retention
           /\ pc[r] = "update" <=> row'.id = memory[r].id
Promised == Kept /\ UnnamedKept /\ Answered

\* A read: the table stays, and the reader holds its body and a definition made of it.
LEMMA ReadStep ==
    ASSUME IInv, NEW r \in Request, NEW body \in Input,
           CreateRead(r, body) \/ UpdateRead(r, body)
    PROVE  IInv' /\ Promised
<1>1. body \in Body
  BY ConstantsAssumption
<1>2. /\ row' = row /\ overlapped' = overlapped
      /\ pc[r] = "idle" /\ arg' = [arg EXCEPT ![r] = body]
      /\ \/ /\ pc' = [pc EXCEPT ![r] = "insert"]
            /\ memory' = [memory EXCEPT ![r] = New(r, body)]
         \/ /\ pc' = [pc EXCEPT ![r] = "update"]
            /\ row \in Row /\ row # NoRow
            /\ memory' = [memory EXCEPT ![r] = Merge(row, body)]
  BY DEF CreateRead, UpdateRead, Goto, IInv, TypeOK
<1>3. /\ memory'[r] \in Definition
      /\ memory' = [memory EXCEPT ![r] = memory'[r]]
      /\ pc' = [pc EXCEPT ![r] = pc'[r]] /\ pc'[r] \in {"insert", "update"}
      /\ pc'[r] = "insert" => memory'[r].retention > 0 /\ memory'[r].id = MemoryID(r)
      /\ body.days \notin {d \in Day : d >= Half} => memory'[r].retention < Half
      /\ pc'[r] = "update" => row # NoRow /\ memory'[r] = Merge(row, body)
  BY <1>1, <1>2, NewType, MergeType DEF IInv, TypeOK
<1>4. TypeOK'
  BY <1>1, <1>2, <1>3 DEF IInv, TypeOK
<1>5. NobodyWraps' => NobodyWraps /\ body.days \notin {d \in Day : d >= Half}
  <2>1. arg[r].days = Null /\ Null \notin Day
    BY <1>2, ConstantsAssumption DEF IInv, Retentions
  <2> QED
    BY <1>2, <2>1 DEF IInv, TypeOK, NobodyWraps
<1>6. Retentions'
  BY <1>2, <1>3, <1>5 DEF IInv, TypeOK, Retentions
<1>7. RetentionIsPositive'
  <2>1. CASE NobodyWraps'
    BY <1>2, <1>5, <2>1 DEF IInv, RetentionIsPositive, NobodyWraps
  <2>2. CASE ~ NobodyWraps'
    BY <2>2 DEF RetentionIsPositive, NobodyWraps
  <2> QED
    BY <2>1, <2>2
<1>8. Fresh'
  BY <1>2, <1>3 DEF IInv, TypeOK, Fresh
<1>9. Promised
  BY <1>2, <1>3 DEF IInv, TypeOK, Promised, Kept, UnnamedKept, Answered
<1> QED
  BY <1>4, <1>6, <1>7, <1>8, <1>9 DEF IInv

\* A write: the requests under way come to know of it, and memories stay.
LEMMA InsertStep ==
    ASSUME IInv, NEW r \in Request, Insert(r)
    PROVE  IInv' /\ Promised
<1>1. /\ pc[r] = "insert" /\ row = NoRow
      /\ row' = Inserted(r, Columns(memory[r]))
      /\ overlapped' =
            overlapped \cup {q \in Request \ {r} : pc[q] \in {"insert", "update", "delete"}}
      /\ pc' = [pc EXCEPT ![r] = "done"] /\ arg' = arg /\ memory' = memory
  BY DEF Insert, Store, Answers, Goto
<1>2. /\ memory[r] \in Definition
      /\ memory[r].retention > 0 /\ memory[r].id = MemoryID(r)
      /\ NobodyWraps => memory[r].retention < Half
  BY <1>1 DEF IInv, TypeOK, Retentions
<1>3. /\ row' \in Row
      /\ NobodyWraps => row'.retention > 0
      /\ row'.texts = memory[r].texts /\ row'.retention = Columns(memory[r]).retention
      /\ row'.id = StoredID(r)
  <2>1. StoredID(r) \in ID
    BY DEF StoredID, ID
  <2>2. /\ Columns(memory[r]).texts = memory[r].texts
        /\ Columns(memory[r]).texts \in [Field -> Value \cup {Null}]
        /\ Columns(memory[r]).retention \in Int32
        /\ NobodyWraps => Columns(memory[r]).retention > 0
    BY <1>2, ColumnsType, ConstantsAssumption DEF Int32
  <2> QED
    BY <1>1, <2>1, <2>2 DEF Inserted, Row
<1>4. TypeOK'
  BY <1>1, <1>3 DEF IInv, TypeOK
<1>5. Retentions'
  BY <1>1 DEF IInv, TypeOK, Retentions, NobodyWraps
<1>6. RetentionIsPositive'
  BY <1>1, <1>3 DEF RetentionIsPositive, NobodyWraps
<1>7. Fresh'
  BY <1>1 DEF IInv, TypeOK, Fresh
<1>8. /\ memory[r].retention \in 1 .. (Half - 1) => row'.retention = memory[r].retention
      /\ row'.id # memory[r].id
  BY <1>2, <1>3, NarrowFits DEF Columns, Definition, MemoryID, StoredID
<1>9. Promised
  BY <1>1, <1>3, <1>8 DEF IInv, TypeOK, Promised, Kept, UnnamedKept, Answered
<1> QED
  BY <1>4, <1>5, <1>6, <1>7, <1>9 DEF IInv

LEMMA UpdateStep ==
    ASSUME IInv, NEW r \in Request, Update(r)
    PROVE  IInv' /\ Promised
<1> DEFINE new == Columns(memory[r])
<1>1. /\ pc[r] = "update" /\ row # NoRow
      /\ row' = Written(row, new)
      /\ overlapped' =
            overlapped \cup {q \in Request \ {r} : pc[q] \in {"insert", "update", "delete"}}
      /\ pc' = [pc EXCEPT ![r] = "done"] /\ arg' = arg /\ memory' = memory
  BY DEF Update, Store, Answers, Goto
<1>2. /\ memory[r] \in Definition /\ row \in Row /\ arg[r] \in Body
      /\ NobodyWraps => memory[r].retention < Half /\ row.retention > 0
      /\ r \notin overlapped => memory[r] = Merge(row, arg[r])
  BY <1>1 DEF IInv, TypeOK, Retentions, RetentionIsPositive, NobodyWraps, Fresh
<1>3. /\ row' \in Row
      /\ \A f \in Field : row.texts[f] # Null => row'.texts[f] # Null
      /\ NobodyWraps => row'.retention > 0
      /\ row'.id = row.id
  BY <1>1, <1>2, WrittenType DEF Written
<1>4. TypeOK'
  BY <1>1, <1>3 DEF IInv, TypeOK
<1>5. Retentions'
  BY <1>1 DEF IInv, TypeOK, Retentions, NobodyWraps
<1>6. RetentionIsPositive'
  BY <1>1, <1>3 DEF RetentionIsPositive, NobodyWraps
<1>7. Fresh'
  BY <1>1 DEF IInv, TypeOK, Fresh
<1>8. new.texts = memory[r].texts /\ new.retention \in Int32 \cup {Null}
  BY <1>2, ColumnsType
<1>9. ASSUME r \notin overlapped
      PROVE  /\ \A f \in Field : row'.texts[f] = memory[r].texts[f]
             /\ \A f \in Field : arg[r].texts[f] = Null => row'.texts[f] = row.texts[f]
  <2>1. \A f \in Field :
           /\ arg[r].texts[f] = Null => memory[r].texts[f] = row.texts[f]
           /\ row.texts[f] # Null => memory[r].texts[f] # Null
    BY <1>2, <1>9, MergeType
  <2>2. \A f \in Field : row'.texts[f] = Coalesce(memory[r].texts[f], row.texts[f])
    BY <1>1, <1>8 DEF Written
  <2> QED
    BY <2>1, <2>2 DEF Coalesce
<1>10. ASSUME r \notin overlapped, arg[r].days = Null
       PROVE  row'.retention = row.retention
  <2>1. memory[r].retention = row.retention /\ row.retention \in Int32
    BY <1>2, <1>10, MergeType DEF Row
  <2>2. new.retention \in {Null, row.retention}
    BY <2>1, NarrowFits, ConstantsAssumption DEF Columns, Int32
  <2> QED
    BY <1>1, <2>2 DEF Written, Coalesce
<1>11. ASSUME r \notin overlapped
       PROVE  /\ row'.id = memory[r].id
              /\ memory[r].retention \in 1 .. (Half - 1) =>
                    row'.texts = memory[r].texts /\ row'.retention = memory[r].retention
  <2>1. row'.id = memory[r].id
    BY <1>2, <1>3, <1>11, MergeType
  <2>2. row'.texts = memory[r].texts
    BY <1>2, <1>3, <1>9, <1>11 DEF Row, Definition
  <2>3. ASSUME memory[r].retention \in 1 .. (Half - 1)
        PROVE  row'.retention = memory[r].retention
    <3>1. new.retention = memory[r].retention
      BY <2>3, NarrowFits DEF Columns
    <3>2. memory[r].retention # Null
      BY <2>3, ConstantsAssumption
    <3> QED
      BY <1>1, <3>1, <3>2 DEF Written, Coalesce
  <2> QED
    BY <2>1, <2>2, <2>3
<1>12. Promised
  <2>1. Kept
    BY <1>3 DEF Kept
  <2>2. \A q \in Request : pc[q] \in {"insert", "update"} /\ pc'[q] = "done" => q = r
    BY <1>1 DEF IInv, TypeOK
  <2>3. UnnamedKept
    BY <1>9, <1>10, <2>2 DEF UnnamedKept
  <2>4. Answered
    BY <1>1, <1>11, <2>2 DEF Answered
  <2> QED
    BY <2>1, <2>3, <2>4 DEF Promised
<1> QED
  BY <1>4, <1>5, <1>6, <1>7, <1>12 DEF IInv

LEMMA OtherStep ==
    ASSUME IInv, NEW r \in Request, DeleteRead(r) \/ Delete(r) \/ Fail(r)
    PROVE  IInv' /\ Promised
<1> USE DEF IInv, TypeOK, Retentions, RetentionIsPositive, Fresh, NobodyWraps,
            Promised, Kept, UnnamedKept, Answered, Goto
<1>1. CASE DeleteRead(r)
  BY <1>1 DEF DeleteRead
<1>2. CASE Delete(r)
  BY <1>2 DEF Delete, Store, Answers
<1>3. CASE Fail(r)
  BY <1>3 DEF Fail, Refuses
<1> QED
  BY <1>1, <1>2, <1>3

LEMMA Step == IInv /\ [Next]_vars => IInv' /\ (Promised \/ UNCHANGED vars)
<1> SUFFICES ASSUME IInv, [Next]_vars
             PROVE  IInv' /\ (Promised \/ UNCHANGED vars)
  OBVIOUS
<1>1. CASE UNCHANGED vars
  BY <1>1 DEF vars, IInv, TypeOK, Retentions, RetentionIsPositive, Fresh, NobodyWraps
<1>2. CASE Next
  BY <1>2, ReadStep, InsertStep, UpdateStep, OtherStep DEF Next
<1> QED
  BY <1>1, <1>2

-----------------------------------------------------------------------------------
\* The invariant holds in every reachable state.
THEOREM Invariance == Spec => []IInv
<1>1. IInv /\ [Next]_vars => IInv'
  BY Step
<1> QED
  BY Initial, <1>1, PTL DEF Spec

\* The types of all variables; in particular, only int32 values reach the table.
THEOREM TypeCorrect == Spec => []TypeOK
<1>1. IInv => TypeOK
  BY DEF IInv
<1> QED
  BY <1>1, Invariance, PTL

\* retention_days are positive unless a request asked for more than an int32 holds.
THEOREM RetentionsArePositive == Spec => []RetentionIsPositive
<1>1. IInv => RetentionIsPositive
  BY DEF IInv
<1> QED
  BY <1>1, Invariance, PTL

\* COALESCE keeps what is set, however updates overlap.
THEOREM NothingIsCleared == Spec => NothingCleared
<1>1. IInv /\ [Next]_vars => [Kept]_vars
  BY Step DEF Promised
<1> QED
  BY <1>1, Invariance, PTL DEF Spec, NothingCleared, Kept

\* What an undisturbed update does not name, it does not change.
THEOREM UnnamedFieldsDoStay == Spec => UnnamedFieldsStay
<1>1. IInv /\ [Next]_vars => [UnnamedKept]_vars
  BY Step DEF Promised
<1> QED
  BY <1>1, Invariance, PTL DEF Spec, UnnamedFieldsStay, UnnamedKept

\* An undisturbed creation or update answers with the columns that it stored; an update
\* with the id of the row, a creation with an id that is stored nowhere.
THEOREM AnswersDoShowTheRow == Spec => AnswersShowTheRow
<1>1. IInv /\ [Next]_vars => [Answered]_vars
  BY Step DEF Promised
<1> QED
  BY <1>1, Invariance, PTL DEF Spec, AnswersShowTheRow, Answered
===================================================================================
