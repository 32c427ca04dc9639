--------------------------- MODULE AlertEvaluationProofs ---------------------------
(* Theorems about AlertEvaluation, for any sets of jobs, editors and metrics, any     *)
(* number of rules, and any bodies, contents and edits of their types.                *)
EXTENDS AlertEvaluation, FiniteSetTheorems, SequenceTheorems, WellFoundedInduction, TLAPS

------------------------------------------------------------------------------------
(* The inductive invariant, after TypeOK.                                             *)

\* i is the last place of s that is about metric m.
LastOf(s, m, i) ==
    s[i].metric = m /\ \A k \in i + 1 .. Len(s) : s[k].metric # m

\* time is the latest of times, Never when there is none.
LatestOf(times, time) ==
    IF time = Never THEN times = {} ELSE time \in times /\ \A t \in times : t <= time

\* last_triggered_at is the latest of the triggerings, none of them in the future, and
\* a row that is not there yet has none.
TouchesRecorded ==
    \A r \in Rule :
        /\ rules[r] = NoRow => touches[r] = {}
        /\ Stored(r) => LatestOf(touches[r], rules[r].lastTriggered)
        /\ \A t \in touches[r] : t <= now

\* What a job has read of a rule: a row that existed, with the last of the triggerings
\* known then, and of a rule that nobody edited the content it still has.  The older code
\* reads what names the metric and is due.
ReadOf(j, snapshot) ==
    LET r == snapshot.rule
        row == snapshot.row
    IN  /\ rules[r] # NoRow
        /\ LatestOf(known[j][r], row.lastTriggered)
        /\ known[j][r] \subseteq touches[r]
        /\ r \in steady[j] => rules[r].content = row.content
        /\ j \in Evaluators =>
              /\ row.content.condition.type = "metric_threshold"
              /\ row.lastTriggered # Never => row.lastTriggered + row.content.cooldown < now

RulesRead == \A j \in Job : \A snapshot \in Range(todo[j]) : ReadOf(j, snapshot)

\* A rule that nobody edited is still stored, and no request comes from the future.
SteadyStored == \A j \in Job : since[j] <= now /\ \A r \in steady[j] : Stored(r)

\* The rule whose last_triggered_at is about to be set has an alert, unless it is gone.
Alerted(r, t) == \E i \in DOMAIN alerts : alerts[i].rule = r /\ alerts[i].at <= t
TouchIsBacked ==
    \A j \in Job : pc[j] = "touch" /\ Stored(Head(todo[j]).rule) =>
        Alerted(Head(todo[j]).rule, now)

\* A job evaluates values of its request, of each name the last.
ValuesAreLast ==
    \A j \in Job :
        /\ \A m \in DOMAIN left[j] : \E i \in DOMAIN batch[j] :
              LastOf(batch[j], m, i) /\ left[j][m] = batch[j][i].value
        /\ todo[j] # <<>> => \E i \in DOMAIN batch[j] :
              batch[j][i] = sample[j] /\ LastOf(batch[j], sample[j].metric, i)

\* An alert comes from a job that was begun, hence has its request.
AlertsHaveJobs == \A i \in DOMAIN alerts : pc[alerts[i].job] # "idle"

\* Rule r asks for an alert about metric m of the request of j.
Calls(j, r, m) ==
    LET content == rules[r].content
    IN  /\ content.enabled
        /\ Concerns(j, content.condition, m)
        /\ \E i \in DOMAIN batch[j] :
              LastOf(batch[j], m, i) /\ Crosses(content.condition, batch[j][i].value)

\* Rule r has triggered since j was ingested, or no longer ago than its cooldown.
Answered(j, r) ==
    \E t \in touches[r] :
        \/ t >= since[j]
        \/ t + rules[r].content.cooldown > since[j]
        \/ j \in Evaluators /\ t + rules[r].content.cooldown = since[j]

\* Rule r is still to be looked at for metric m.
Ahead(j, r, m) ==
    /\ pc[j] \in {"evaluating", "touch"}
    /\ \/ m \in DOMAIN left[j]
       \/ sample[j].metric = m /\ \E i \in DOMAIN todo[j] : todo[j][i].rule = r

\* NothingMissed, of the jobs that are not done as well.
NothingForgotten ==
    \A j \in Job : clean[j] /\ pc[j] \in {"evaluating", "touch", "done"} =>
        \A r \in steady[j], m \in NamesOf(batch[j]) :
            Calls(j, r, m) => Answered(j, r) \/ Ahead(j, r, m)

Inv ==
    /\ TypeOK
    /\ TouchesRecorded
    /\ RulesRead
    /\ SteadyStored
    /\ TouchIsBacked
    /\ SilencedByAlert
    /\ CooldownAfterKnownTriggers
    /\ ValuesAreLast
    /\ AlertsHaveJobs
    /\ AlertsAreJustified
    /\ NothingForgotten

------------------------------------------------------------------------------------
(* What the operators return.                                                         *)

LEMMA LeastNumber ==
    ASSUME NEW T, T \subseteq Nat, T # {}
    PROVE  \E x \in T : \A y \in T : x <= y
<1> DEFINE R == {ss \in Nat \X Nat : ss[1] < ss[2]}
<1>1. OpToRel(<, Nat) = R
  BY DEF OpToRel
<1>2. IsWellFoundedOn(R, Nat)
  BY <1>1, NatLessThanWellFounded
<1> HIDE DEF R
<1>3. PICK x \in T : \A y \in T : ~ (<<y, x>> \in R)
  BY <1>2, WFMin
<1> SUFFICES ASSUME NEW y \in T PROVE x <= y
  OBVIOUS
<1>4. ~ (y < x)
  <2>1. ~ (<<y, x>> \in R) /\ x \in Nat /\ y \in Nat
    BY <1>3
  <2> QED
    BY <2>1 DEF R
<1> QED
  BY <1>4

\* Every name of a request has a last value, and it is the one that is kept.
LEMMA LastValueOfName ==
    ASSUME NEW s \in Seq(Sample), NEW m \in NamesOf(s)
    PROVE  \E i \in DOMAIN s : LastOf(s, m, i) /\ LastValues(s)[m] = s[i].value
<1>1. Len(s) \in Nat /\ DOMAIN s = 1 .. Len(s)
  BY LenProperties
<1> DEFINE places == {i \in DOMAIN s : s[i].metric = m}
           T == {Len(s) - i : i \in places}
<1>2. places # {} /\ T # {}
  BY DEF NamesOf
<1>3. T \subseteq Nat
  BY <1>1
<1>4. PICK x \in T : \A y \in T : x <= y
  BY <1>2, <1>3, LeastNumber
<1>5. PICK i \in places : x = Len(s) - i
  BY <1>4
<1>6. LastOf(s, m, i)
  <2> SUFFICES ASSUME NEW k \in i + 1 .. Len(s), s[k].metric = m PROVE FALSE
    BY DEF LastOf
  <2>1. k \in places /\ i \in Nat /\ k \in Nat /\ k > i
    BY <1>1
  <2>2. Len(s) - k \in T
    BY <2>1
  <2>3. Len(s) - i <= Len(s) - k
    BY <1>4, <1>5, <2>2
  <2> QED
    BY <1>1, <2>1, <2>3
<1> DEFINE Chosen(k) == s[k].metric = m /\ \A n \in k + 1 .. Len(s) : s[n].metric # m
           c == CHOOSE k \in DOMAIN s : Chosen(k)
<1>7. Chosen(i)
  BY <1>6 DEF LastOf
<1>8. c \in DOMAIN s /\ Chosen(c)
  <2> HIDE DEF Chosen
  <2> QED
    BY <1>7
<1>9. LastValues(s)[m] = s[c].value
  BY DEF LastValues
<1> HIDE DEF c
<1> QED
  BY <1>8, <1>9 DEF LastOf

LEMMA LastIsUnique ==
    ASSUME NEW s \in Seq(Sample), NEW m, NEW i \in DOMAIN s, NEW k \in DOMAIN s,
           LastOf(s, m, i), LastOf(s, m, k)
    PROVE  i = k
<1>1. Len(s) \in Nat /\ DOMAIN s = 1 .. Len(s)
  BY LenProperties
<1>2. ~ (i < k) /\ ~ (k < i)
  BY <1>1 DEF LastOf
<1> QED
  BY <1>1, <1>2

LEMMA LastValuesType ==
    ASSUME NEW s \in Seq(Sample)
    PROVE  LastValues(s) \in [NamesOf(s) -> Nat]
<1>1. DOMAIN LastValues(s) = NamesOf(s)
  BY DEF LastValues
<1>2. \A m \in NamesOf(s) : LastValues(s)[m] \in Nat
  <2> SUFFICES ASSUME NEW m \in NamesOf(s) PROVE LastValues(s)[m] \in Nat
    OBVIOUS
  <2>1. PICK i \in DOMAIN s : LastValues(s)[m] = s[i].value
    BY LastValueOfName
  <2>2. s[i] \in Sample
    BY ElementOfSeq, LenProperties
  <2> QED
    BY <2>1, <2>2 DEF Sample
<1>3. LastValues(s) = [m \in NamesOf(s) |-> LastValues(s)[m]]
  BY <1>1 DEF LastValues
<1> QED
  BY <1>1, <1>2, <1>3

\* The conversion yields an int32, and leaves those alone that are one.
LEMMA NarrowFits ==
    ASSUME NEW n \in Int
    PROVE  /\ Narrow(n) \in Int32
           /\ n \in Int32 => Narrow(n) = n
<1> DEFINE w == 2 * Half
<1>1. Half \in Nat \ {0}
  BY ConstantsAssumption
<1>2. w \in Nat \ {0} /\ w = Half + Half
  BY <1>1
<1>3. (n + Half) % w \in 0 .. (w - 1)
  <2> HIDE DEF w
  <2> QED
    BY <1>1, <1>2
<1>4. Narrow(n) = ((n + Half) % w) - Half
  BY DEF Narrow
<1>5. Narrow(n) \in Int32
  <2> HIDE DEF w
  <2> QED
    BY <1>1, <1>2, <1>3, <1>4 DEF Int32
<1>6. ASSUME n \in Int32
      PROVE  Narrow(n) = n
  <2> HIDE DEF w
  <2>1. n + Half \in 0 .. (w - 1)
    BY <1>1, <1>2, <1>6 DEF Int32
  <2>2. (n + Half) % w = n + Half
    BY <1>2, <2>1
  <2> QED
    BY <1>1, <1>4, <2>2
<1> QED
  BY <1>5, <1>6

\* The fields of a content: the cooldown is an int32, and the one asked for if that is
\* one.
LEMMA ContentFields ==
    ASSUME NEW content \in Content
    PROVE  /\ content.enabled \in BOOLEAN /\ content.condition \in Condition
           /\ content.workflow \in BOOLEAN
           /\ content.cooldown \in Int32 /\ content.cooldown \in Int /\ content.asked \in Int
           /\ content.cooldown = Narrow(content.asked)
           /\ content.asked \in Int32 => content.cooldown = content.asked
<1>1. /\ content.enabled \in BOOLEAN /\ content.condition \in Condition
      /\ content.workflow \in BOOLEAN
      /\ content.cooldown \in Int32 /\ content.asked \in Int
      /\ content.cooldown = Narrow(content.asked)
  BY DEF Content
<1>2. Half \in Nat
  BY ConstantsAssumption
<1>3. content.cooldown \in Int
  BY <1>1, <1>2 DEF Int32
<1> QED
  BY <1>1, <1>3, NarrowFits

\* The conversion of a body that creates a rule gives a content.
LEMMA ContentOfType ==
    ASSUME NEW body \in Body
    PROVE  ContentOf(body) \in Content
<1>1. /\ body.enabled \in BOOLEAN /\ body.condition \in Condition
      /\ body.cooldown \in Int /\ body.workflow \in BOOLEAN
  BY DEF Body
<1>2. Narrow(body.cooldown) \in Int32
  BY <1>1, NarrowFits
<1> QED
  BY <1>1, <1>2 DEF ContentOf, Content

\* The merge of a content and an edit of it is a content.
LEMMA MergeType ==
    ASSUME NEW content \in Content, NEW patch \in Patch
    PROVE  Merge(content, patch) \in Content
<1>2. /\ content.enabled \in BOOLEAN /\ content.condition \in Condition
      /\ content.cooldown \in Int32 /\ content.asked \in Int /\ content.workflow \in BOOLEAN
      /\ content.cooldown = Narrow(content.asked)
  BY ContentFields
<1>3. /\ patch.enabled \in BOOLEAN \cup {Nil} /\ patch.condition \in Condition \cup {Nil}
      /\ patch.cooldown \in Int \cup {Nil} /\ patch.workflow \in BOOLEAN \cup {Nil}
  BY DEF Patch
<1> DEFINE cooldown == IF patch.cooldown = Nil THEN content.cooldown ELSE Narrow(patch.cooldown)
           asked == Over(content.asked, patch.cooldown)
<1>4. cooldown \in Int32 /\ asked \in Int /\ cooldown = Narrow(asked)
  BY <1>2, <1>3, NarrowFits DEF Over
<1>5. /\ Over(content.enabled, patch.enabled) \in BOOLEAN
      /\ Over(content.condition, patch.condition) \in Condition
      /\ Over(content.workflow, patch.workflow) \in BOOLEAN
  BY <1>2, <1>3 DEF Over
<1>6. Merge(content, patch) =
        [enabled |-> Over(content.enabled, patch.enabled),
         condition |-> Over(content.condition, patch.condition),
         workflow |-> Over(content.workflow, patch.workflow),
         cooldown |-> cooldown, asked |-> asked]
  BY DEF Merge
<1> HIDE DEF cooldown, asked
<1> QED
  BY <1>4, <1>5, <1>6 DEF Content

\* An injection of the numbers up to the size of a finite set reaches all of it.
LEMMA OrdersAreComplete ==
    ASSUME NEW S, IsFiniteSet(S), NEW s \in SetToSeqs(S)
    PROVE  /\ s \in Seq(S)
           /\ \A x \in S : \E i \in DOMAIN s : s[i] = x
<1> DEFINE n == Cardinality(S)
<1>1. n \in Nat
  BY FS_CardinalityType
<1>2. s \in [1 .. n -> S] /\ \A i, k \in 1 .. n : i # k => s[i] # s[k]
  BY DEF SetToSeqs
<1> HIDE DEF n
<1>3. s \in Injection(1 .. n, S)
  BY <1>2 DEF Injection, IsInjective
<1>4. IsFiniteSet(1 .. n) /\ Cardinality(1 .. n) = n
  BY <1>1, FS_Interval
<1>5. s \in Surjection(1 .. n, S)
  BY <1>3, <1>4, FS_Injection DEF n
<1> QED
  BY <1>1, <1>2, <1>5 DEF Surjection

\* The rules that the statement of j for metric m is about.
Wanted(j, m) == IF j \in Evaluators THEN DueFor(m) ELSE EnabledRules

\* A statement returns the stored rows of exactly these.
LEMMA RulesReturned ==
    ASSUME TypeOK, NEW j \in Job, NEW m, NEW read \in RulesFor(j, m)
    PROVE  /\ read \in Seq(Snapshot)
           /\ \A i \in DOMAIN read : /\ read[i].rule \in Wanted(j, m)
                                     /\ Stored(read[i].rule)
                                     /\ read[i].row = rules[read[i].rule]
           /\ \A r \in Wanted(j, m) : \E i \in DOMAIN read : read[i].rule = r
<1>1. Wanted(j, m) \subseteq Rule /\ \A r \in Wanted(j, m) : Stored(r)
  BY DEF Wanted, DueFor, EnabledRules
<1>2. IsFiniteSet(Wanted(j, m))
  <2>1. NumRules \in Int
    BY ConstantsAssumption
  <2>2. IsFiniteSet(Rule)
    BY <2>1, FS_Interval DEF Rule
  <2> QED
    BY <1>1, <2>2, FS_Subset
<1>3. PICK s \in SetToSeqs(Wanted(j, m)) :
         read = [i \in DOMAIN s |-> [rule |-> s[i], row |-> rules[s[i]]]]
  BY DEF RulesFor, Wanted
<1>4. s \in Seq(Wanted(j, m)) /\ \A r \in Wanted(j, m) : \E i \in DOMAIN s : s[i] = r
  BY <1>2, OrdersAreComplete
<1>5. DOMAIN read = DOMAIN s /\ \A i \in DOMAIN s : read[i] = [rule |-> s[i], row |-> rules[s[i]]]
  BY <1>3
<1>6. Len(s) \in Nat /\ DOMAIN s = 1 .. Len(s) /\ \A i \in DOMAIN s : s[i] \in Wanted(j, m)
  BY <1>4, LenProperties, ElementOfSeq
<1>7. \A i \in DOMAIN s : read[i] \in Snapshot
  <2> SUFFICES ASSUME NEW i \in DOMAIN s PROVE [rule |-> s[i], row |-> rules[s[i]]] \in Snapshot
    BY <1>5
  <2>1. s[i] \in Rule /\ Stored(s[i])
    BY <1>1, <1>6
  <2>2. rules[s[i]] \in RuleRow
    BY <2>1 DEF TypeOK, TablesOK, Stored
  <2> QED
    BY <2>1, <2>2 DEF Snapshot
<1>8. read \in Seq(Snapshot)
  <2>1. read \in [1 .. Len(s) -> Snapshot]
    BY <1>3, <1>6, <1>7
  <2> QED
    BY <1>6, <2>1
<1>9. \A i \in DOMAIN read : /\ read[i].rule \in Wanted(j, m)
                             /\ Stored(read[i].rule)
                             /\ read[i].row = rules[read[i].rule]
  BY <1>1, <1>5, <1>6
<1>10. \A r \in Wanted(j, m) : \E i \in DOMAIN read : read[i].rule = r
  BY <1>4, <1>5
<1> QED
  BY <1>8, <1>9, <1>10

------------------------------------------------------------------------------------
(* Types.                                                                             *)

LEMMA SequencesBegin ==
    ASSUME NEW S
    PROVE  <<>> \in Seq(S) /\ Len(<<>>) = 0
BY EmptySeq

LEMMA InitTypes ==
    ASSUME Init
    PROVE  TypeOK
<1> USE DEF Init
<1>1. TablesOK
  <2>1. \A r \in Rule : rules[r] \in RuleRow \cup {NoRow, Gone}
    <3> SUFFICES ASSUME NEW r \in Rule,
                        NEW body \in Contents,
                        rules[r] = [content |-> ContentOf(body), lastTriggered |-> Never]
                 PROVE  rules[r] \in RuleRow
      OBVIOUS
    <3> QED
      BY ContentOfType, ConstantsAssumption DEF RuleRow
  <2>2. now \in Time
    BY ConstantsAssumption DEF Time
  <2>3. rules \in [Rule -> RuleRow \cup {NoRow, Gone}]
    BY <2>1
  <2>4. alerts \in Seq(AlertRow)
    BY SequencesBegin
  <2> QED
    BY <2>2, <2>3, <2>4 DEF TablesOK
<1>2. RequestsOK
  <2>1. 0 \in Time
    BY ConstantsAssumption DEF Time
  <2>2. batch \in [Job -> Seq(Sample)]
    BY SequencesBegin
  <2> QED
    BY <2>1, <2>2 DEF RequestsOK
<1>3. LocalsOK
  <2>1. todo \in [Job -> Seq(Snapshot)]
    BY SequencesBegin
  <2> QED
    BY <2>1 DEF LocalsOK
<1>4. \A j \in Job : JobOK(j)
  BY DEF JobOK
<1> QED
  BY <1>1, <1>2, <1>3, <1>4 DEF TypeOK

\* A request begins.
LEMMA BeginTypes ==
    ASSUME TypeOK, NEW j \in Job, NEW samples \in Seq(Sample), Begin(j, samples)
    PROVE  TypeOK'
<1>1. TablesOK'
  BY DEF TypeOK, TablesOK, Begin, tables
<1>2. RequestsOK'
  BY DEF TypeOK, RequestsOK, TablesOK, Begin
<1>3. LocalsOK'
  BY DEF TypeOK, LocalsOK, Begin
<1>4. \A k \in Job : JobOK(k)'
  <2> SUFFICES ASSUME NEW k \in Job PROVE JobOK(k)'
    OBVIOUS
  <2>1. JobOK(k) /\ JobOK(j)
    BY DEF TypeOK
  <2>2. CASE k = j
    <3>1. LastValues(samples) \in [NamesOf(samples) -> Nat]
      BY LastValuesType
    <3>2. /\ left'[j] = LastValues(samples) /\ batch'[j] = samples
          /\ pc'[j] = "evaluating" /\ pc[j] = "idle" /\ todo' = todo /\ process' = "up"
      BY DEF Begin, TypeOK, LocalsOK, RequestsOK
    <3>3. todo'[j] = <<>>
      BY <2>1, <3>2 DEF JobOK
    <3> QED
      BY <2>2, <3>1, <3>2, <3>3 DEF JobOK, NamesOf
  <2>3. CASE k # j
    <3>1. /\ left'[k] = left[k] /\ batch'[k] = batch[k] /\ pc'[k] = pc[k]
          /\ todo'[k] = todo[k] /\ process' = process /\ sample'[k] = sample[k]
      BY <2>3 DEF Begin, TypeOK, LocalsOK, RequestsOK
    <3> QED
      BY <2>1, <3>1 DEF JobOK, NamesOf
  <2> QED
    BY <2>2, <2>3
<1> QED
  BY <1>1, <1>2, <1>3, <1>4 DEF TypeOK

LEMMA JobKept ==
    ASSUME NEW k, JobOK(k), left'[k] = left[k], batch'[k] = batch[k], pc'[k] = pc[k],
           todo'[k] = todo[k], sample'[k] = sample[k],
           process' = process \/ (process' = "up")
    PROVE  JobOK(k)'
BY DEF JobOK, NamesOf

\* A job that has something to do: the first rule, and the others.
LEMMA FirstAndRest ==
    ASSUME TypeOK, NEW j \in Job, todo[j] # <<>>
    PROVE  /\ Head(todo[j]) \in Snapshot /\ Head(todo[j]) = todo[j][1]
           /\ 1 \in DOMAIN todo[j]
           /\ Tail(todo[j]) \in Seq(Snapshot)
           /\ \A i \in DOMAIN Tail(todo[j]) :
                 i + 1 \in DOMAIN todo[j] /\ Tail(todo[j])[i] = todo[j][i + 1]
           /\ \A i \in DOMAIN todo[j] :
                 i # 1 => i - 1 \in DOMAIN Tail(todo[j]) /\ Tail(todo[j])[i - 1] = todo[j][i]
           /\ sample[j] \in Sample
<1> DEFINE s == todo[j]
<1>1. s \in Seq(Snapshot) /\ s # <<>> /\ sample[j] \in Sample
  BY DEF TypeOK, LocalsOK, JobOK
<1>2. s # <<>> /\ Len(s) \in Nat /\ DOMAIN s = 1 .. Len(s) /\ Len(s) # 0
  BY <1>1, LenProperties, EmptySeq
<1>3. /\ Tail(s) \in Seq(Snapshot) /\ Len(Tail(s)) = Len(s) - 1
      /\ \A i \in 1 .. Len(Tail(s)) : Tail(s)[i] = s[i + 1]
      /\ Head(s) \in Snapshot
  BY <1>1, HeadTailProperties
<1>4. DOMAIN Tail(s) = 1 .. Len(Tail(s))
  BY <1>3, LenProperties
<1>5. Head(s) = s[1]
  BY <1>1
<1> HIDE DEF s
<1>6. \A i \in DOMAIN Tail(s) : i + 1 \in DOMAIN s /\ Tail(s)[i] = s[i + 1]
  BY <1>2, <1>3, <1>4
<1>7. \A i \in DOMAIN s : i # 1 => i - 1 \in DOMAIN Tail(s) /\ Tail(s)[i - 1] = s[i]
  <2> SUFFICES ASSUME NEW i \in DOMAIN s, i # 1
               PROVE  i - 1 \in DOMAIN Tail(s) /\ Tail(s)[i - 1] = s[i]
    OBVIOUS
  <2>1. i - 1 \in 1 .. Len(Tail(s)) /\ (i - 1) + 1 = i
    BY <1>2, <1>3
  <2> QED
    BY <1>3, <1>4, <2>1
<1> QED
  BY <1>1, <1>2, <1>3, <1>5, <1>6, <1>7 DEF s

\* What the steps of a job do with its own variables.
LEMMA ReadTypes ==
    ASSUME TypeOK, NEW j \in Job, Read(j) \/ ReadFails(j)
    PROVE  TypeOK'
<1>1. PICK m \in Metric : NextName(j, m)
  BY DEF Read, ReadFails
<1> DEFINE rest == [n \in DOMAIN left[j] \ {m} |-> left[j][n]]
<1>2. /\ JobOK(j) /\ pc[j] = "evaluating" /\ todo[j] = <<>> /\ m \in DOMAIN left[j]
      /\ left' = [left EXCEPT ![j] = rest] /\ left'[j] = rest /\ DOMAIN left = Job
  BY <1>1 DEF NextName, TypeOK, LocalsOK
<1>3. TablesOK'
  BY DEF TypeOK, TablesOK, Read, ReadFails, tables
<1>4. RequestsOK'
  BY DEF TypeOK, RequestsOK, Read, ReadFails
<1>5. rest \in [DOMAIN rest -> Nat] /\ DOMAIN rest \subseteq NamesOf(batch[j])
  BY <1>2 DEF JobOK
<1>6. /\ pc' = pc /\ process' = process /\ batch' = batch
      /\ \A k \in Job : k # j => /\ left'[k] = left[k] /\ sample'[k] = sample[k]
                                 /\ todo'[k] = todo[k]
  BY <1>2 DEF Read, ReadFails, TypeOK, LocalsOK
<1>7. LocalsOK' /\ (todo'[j] # <<>> => sample'[j] \in Sample)
  <2>1. DOMAIN left' = Job
    BY <1>2
  <2>2. CASE ReadFails(j)
    BY <1>2, <2>1, <2>2 DEF ReadFails, TypeOK, LocalsOK
  <2>3. CASE Read(j)
    <3>1. PICK n \in Metric :
             /\ NextName(j, n)
             /\ sample' = [sample EXCEPT ![j] = [metric |-> n, value |-> left[j][n]]]
             /\ \E read \in RulesFor(j, n) : todo' = [todo EXCEPT ![j] = read]
      BY <2>3 DEF Read
    <3>2. [metric |-> n, value |-> left[j][n]] \in Sample
      BY <1>2, <3>1 DEF NextName, JobOK, Sample
    <3>3. \A read \in RulesFor(j, n) : read \in Seq(Snapshot)
      BY RulesReturned
    <3>4. todo' \in [Job -> Seq(Snapshot)]
      BY <3>1, <3>3 DEF TypeOK, LocalsOK
    <3>5. sample' \in [Job -> Sample \cup {NoSample}] /\ sample'[j] \in Sample
      BY <3>1, <3>2 DEF TypeOK, LocalsOK
    <3>6. known' \in [Job -> [Rule -> SUBSET Time]] /\ pc' = pc
      BY <2>3 DEF Read, TypeOK, LocalsOK, TablesOK
    <3> QED
      BY <2>1, <3>4, <3>5, <3>6 DEF TypeOK, LocalsOK, NoSample
  <2> QED
    BY <2>2, <2>3
<1>8. \A k \in Job : JobOK(k)'
  <2> SUFFICES ASSUME NEW k \in Job PROVE JobOK(k)'
    OBVIOUS
  <2>1. JobOK(k)
    BY DEF TypeOK
  <2>2. CASE k = j
    BY <1>2, <1>5, <1>6, <1>7, <2>1, <2>2 DEF JobOK, NamesOf
  <2>3. CASE k # j
    BY <1>6, <2>1, <2>3, JobKept
  <2> QED
    BY <2>2, <2>3
<1> QED
  BY <1>3, <1>4, <1>7, <1>8 DEF TypeOK

\* The alert of a rule that triggers.
LEMMA AlertType ==
    ASSUME TypeOK, NEW j \in Job, Triggered(j)
    PROVE  /\ Alert(j) \in AlertRow
           /\ Append(alerts, Alert(j)) \in Seq(AlertRow)
<1>1. Head(todo[j]) \in Snapshot /\ sample[j] \in Sample
  BY FirstAndRest DEF Triggered
<1>2. /\ Head(todo[j]).rule \in Rule /\ Head(todo[j]).row \in RuleRow
      /\ Head(todo[j]).row.content \in Content
  BY <1>1 DEF Snapshot, RuleRow
<1>3. known[j][Head(todo[j]).rule] \in SUBSET Time
  BY <1>2 DEF TypeOK, LocalsOK
<1>4. now \in Time /\ alerts \in Seq(AlertRow)
  BY DEF TypeOK, TablesOK
<1>5. Alert(j) \in AlertRow
  BY <1>1, <1>2, <1>3, <1>4 DEF Alert, AlertRow
<1> QED
  BY <1>4, <1>5, AppendProperties

LEMMA InsertTypes ==
    ASSUME TypeOK, NEW j \in Job, Skip(j) \/ Insert(j) \/ InsertFails(j)
    PROVE  TypeOK'
<1>1. pc[j] = "evaluating" /\ todo[j] # <<>>
  BY DEF Skip, Insert, InsertFails, Triggered
<1>2. alerts' \in Seq(AlertRow)
  <2>1. alerts \in Seq(AlertRow)
    BY DEF TypeOK, TablesOK
  <2>2. alerts' = alerts \/ (Triggered(j) /\ alerts' = Append(alerts, Alert(j)))
    BY DEF Skip, Insert, InsertFails, tables
  <2> QED
    BY <2>1, <2>2, AlertType
<1>3. TablesOK'
  BY <1>2 DEF TypeOK, TablesOK, Skip, Insert, InsertFails, tables, history
<1>4. RequestsOK'
  BY DEF TypeOK, RequestsOK, Skip, Insert, InsertFails, history
<1>5. Tail(todo[j]) \in Seq(Snapshot) /\ todo[j] \in Seq(Snapshot)
  BY <1>1, FirstAndRest DEF TypeOK, LocalsOK
<1>6. /\ todo' \in {todo, [todo EXCEPT ![j] = Tail(todo[j])]}
      /\ \/ pc' = pc
         \/ pc' = [pc EXCEPT ![j] = "touch"] /\ todo' = todo
      /\ left' = left /\ sample' = sample /\ known' = known /\ process' = process /\ batch' = batch
  BY DEF Skip, Insert, InsertFails, NextRule, history
<1>7. LocalsOK'
  BY <1>5, <1>6 DEF TypeOK, LocalsOK, NoSample
<1>8. \A k \in Job : JobOK(k)'
  <2> SUFFICES ASSUME NEW k \in Job PROVE JobOK(k)'
    OBVIOUS
  <2>1. JobOK(k) /\ DOMAIN todo = Job /\ DOMAIN pc = Job
    BY DEF TypeOK, LocalsOK
  <2>2. CASE k = j
    <3>1. sample[j] \in Sample /\ process = "up"
      BY <1>1, <2>1, <2>2 DEF JobOK
    <3>2. /\ pc'[j] \in {"evaluating", "touch"}
          /\ pc'[j] = "touch" => todo'[j] # <<>>
      BY <1>1, <1>6, <2>1
    <3> QED
      BY <1>6, <2>1, <2>2, <3>1, <3>2 DEF JobOK, NamesOf
  <2>3. CASE k # j
    <3>1. todo'[k] = todo[k] /\ pc'[k] = pc[k]
      BY <1>6, <2>1, <2>3
    <3> QED
      BY <1>6, <2>1, <3>1, JobKept
  <2> QED
    BY <2>2, <2>3
<1> QED
  BY <1>3, <1>4, <1>7, <1>8 DEF TypeOK

\* The end of the process takes the goroutines with it.
LEMMA DieTypes ==
    ASSUME TypeOK, NEW how, Die(how), left' = left, sample' = sample, known' = known,
           batch' = batch
    PROVE  LocalsOK' /\ \A k \in Job : JobOK(k)'
<1>1. /\ pc' = [k \in Job |-> IF k \in InFlight THEN "lost" ELSE pc[k]]
      /\ todo' = [k \in Job |-> IF k \in InFlight THEN <<>> ELSE todo[k]]
  BY DEF Die
<1>2. <<>> \in Seq(Snapshot)
  BY SequencesBegin
<1>3. LocalsOK'
  BY <1>1, <1>2 DEF TypeOK, LocalsOK, NoSample
<1>4. \A k \in Job : JobOK(k)'
  <2> SUFFICES ASSUME NEW k \in Job PROVE JobOK(k)'
    OBVIOUS
  <2>1. JobOK(k)
    BY DEF TypeOK
  <2>2. pc'[k] \notin {"evaluating", "touch"} /\ todo'[k] = <<>>
    BY <1>1, <2>1 DEF InFlight, JobOK
  <2> QED
    BY <2>1, <2>2 DEF JobOK, NamesOf
<1> QED
  BY <1>3, <1>4

\* What last_triggered_at is set to.
LEMMA SetLastTriggeredType ==
    ASSUME TablesOK, NEW r \in Rule, SetLastTriggered(r)
    PROVE  /\ rules' \in [Rule -> RuleRow \cup {NoRow, Gone}]
           /\ touches' \in [Rule -> SUBSET Time]
           /\ Stored(r) => /\ rules'[r] = [content |-> rules[r].content, lastTriggered |-> now]
                           /\ touches'[r] = touches[r] \cup {now}
           /\ ~ Stored(r) => rules' = rules /\ touches' = touches
           /\ \A s \in Rule : s # r => rules'[s] = rules[s] /\ touches'[s] = touches[s]
<1>1. /\ rules \in [Rule -> RuleRow \cup {NoRow, Gone}] /\ touches \in [Rule -> SUBSET Time]
      /\ now \in Time
  BY DEF TablesOK
<1>2. ASSUME Stored(r) PROVE rules[r] \in RuleRow
  BY <1>1, <1>2 DEF Stored
<1>3. ASSUME Stored(r)
      PROVE  /\ [rules[r] EXCEPT !.lastTriggered = now] = [content |-> rules[r].content, lastTriggered |-> now]
             /\ [rules[r] EXCEPT !.lastTriggered = now] \in RuleRow
  BY <1>1, <1>2, <1>3 DEF RuleRow
<1>4. ASSUME Stored(r)
      PROVE  /\ rules' = [rules EXCEPT ![r] = [rules[r] EXCEPT !.lastTriggered = now]]
             /\ touches' = [touches EXCEPT ![r] = touches[r] \cup {now}]
  BY <1>4 DEF SetLastTriggered
<1>5. ASSUME ~ Stored(r) PROVE rules' = rules /\ touches' = touches
  BY <1>5 DEF SetLastTriggered
<1> QED
  BY <1>1, <1>3, <1>4, <1>5

LEMMA TouchTypes ==
    ASSUME TypeOK, NEW j \in Job, Touch(j) \/ TouchFails(j)
    PROVE  TypeOK'
<1>1. pc[j] = "touch" /\ todo[j] # <<>> /\ TriggerWorkflow(j)
  BY DEF Touch, TouchFails, TypeOK, JobOK
<1>2. Head(todo[j]).rule \in Rule /\ Tail(todo[j]) \in Seq(Snapshot) /\ sample[j] \in Sample
  BY <1>1, FirstAndRest DEF Snapshot
<1>3. TablesOK'
  <2>1. rules' \in [Rule -> RuleRow \cup {NoRow, Gone}] /\ touches' \in [Rule -> SUBSET Time]
    <3>1. CASE Touch(j)
      BY <1>2, <3>1, SetLastTriggeredType DEF Touch, TypeOK
    <3>2. CASE TouchFails(j)
      BY <3>2 DEF TouchFails, TypeOK, TablesOK, tables
    <3> QED
      BY <3>1, <3>2
  <2>2. alerts' = alerts /\ now' = now
    BY DEF Touch, TouchFails, tables
  <2>3. process' \in {process, "panicked"} /\ edit' \in {edit, [e \in Editor |-> NoEdit]}
    BY <1>1 DEF TriggerWorkflow, Die
  <2> QED
    BY <2>1, <2>2, <2>3 DEF TypeOK, TablesOK
<1>4. RequestsOK'
  BY DEF TypeOK, RequestsOK, Touch, TouchFails
<1>5. left' = left /\ sample' = sample /\ known' = known /\ batch' = batch
  BY DEF Touch, TouchFails
<1>6. LocalsOK' /\ \A k \in Job : JobOK(k)'
  <2>1. CASE Die("panicked")
    BY <1>5, <2>1, DieTypes
  <2>2. CASE ~ Die("panicked")
    <3>1. /\ todo' = [todo EXCEPT ![j] = Tail(todo[j])]
          /\ pc' = [pc EXCEPT ![j] = "evaluating"] /\ process' = process
      BY <1>1, <2>2 DEF TriggerWorkflow, NextRule
    <3>2. LocalsOK'
      BY <1>2, <1>5, <3>1 DEF TypeOK, LocalsOK, NoSample
    <3>3. \A k \in Job : JobOK(k)'
      <4> SUFFICES ASSUME NEW k \in Job PROVE JobOK(k)'
        OBVIOUS
      <4>1. JobOK(k) /\ DOMAIN todo = Job /\ DOMAIN pc = Job
        BY DEF TypeOK, LocalsOK
      <4>2. CASE k = j
        <5>1. pc'[j] = "evaluating" /\ process = "up"
          BY <1>1, <3>1, <4>1, <4>2 DEF JobOK
        <5> QED
          BY <1>2, <1>5, <3>1, <4>1, <4>2, <5>1 DEF JobOK, NamesOf
      <4>3. CASE k # j
        <5>1. todo'[k] = todo[k] /\ pc'[k] = pc[k]
          BY <3>1, <4>1, <4>3
        <5> QED
          BY <1>5, <3>1, <4>1, <5>1, JobKept
      <4> QED
        BY <4>2, <4>3
    <3> QED
      BY <3>2, <3>3
  <2> QED
    BY <2>1, <2>2
<1> QED
  BY <1>3, <1>4, <1>6 DEF TypeOK

LEMMA FinishTypes ==
    ASSUME TypeOK, NEW j \in Job, Finish(j)
    PROVE  TypeOK'
<1>1. TablesOK' /\ RequestsOK' /\ LocalsOK'
  BY DEF TypeOK, TablesOK, RequestsOK, LocalsOK, NoSample, Finish, tables, history
<1>2. \A k \in Job : JobOK(k)'
  <2> SUFFICES ASSUME NEW k \in Job PROVE JobOK(k)'
    OBVIOUS
  <2>1. JobOK(k) /\ DOMAIN pc = Job
    BY DEF TypeOK, LocalsOK
  <2>2. /\ todo[j] = <<>> /\ pc' = [pc EXCEPT ![j] = "done"] /\ left' = left /\ sample' = sample
        /\ todo' = todo /\ process' = process /\ batch' = batch
    BY DEF Finish, history
  <2>3. CASE k = j
    BY <2>1, <2>2, <2>3 DEF JobOK, NamesOf
  <2>4. CASE k # j
    BY <2>1, <2>2, <2>4, JobKept
  <2> QED
    BY <2>3, <2>4
<1> QED
  BY <1>1, <1>2 DEF TypeOK

\* The handlers write rows; they touch no goroutine.
LEMMA ManageTypes ==
    ASSUME TypeOK, Manage
    PROVE  TypeOK'
<1>1. /\ now' = now /\ process' = process /\ pc' = pc /\ left' = left /\ sample' = sample
      /\ todo' = todo /\ known' = known /\ batch' = batch /\ since' = since /\ clean' = clean
      /\ touches' = touches
  BY DEF Manage, CreateRule, EditRead, EditWrite, DeleteRule, locals, history
<1>2. LocalsOK' /\ \A k \in Job : JobOK(k)'
  BY <1>1, JobKept DEF TypeOK, LocalsOK, NoSample
<1>3. RequestsOK'
  <2>1. steady' = steady \/ \E r \in Rule : steady' = [j \in Job |-> steady[j] \ {r}]
    <3>1. ASSUME NEW e \in Editor, EditWrite(e)
          PROVE  steady' = steady \/ (Disturb(edit[e].rule) /\ edit[e].rule \in Rule)
      <4>1. edit[e] \in Snapshot
        BY <3>1 DEF EditWrite, TypeOK, TablesOK
      <4> QED
        BY <3>1, <4>1 DEF EditWrite, Snapshot
    <3> QED
      BY <3>1 DEF Manage, CreateRule, EditRead, DeleteRule, Disturb, history
  <2> QED
    BY <1>1, <2>1 DEF TypeOK, RequestsOK
<1>4. /\ rules' \in [Rule -> RuleRow \cup {NoRow, Gone}]
      /\ alerts' \in Seq(AlertRow)
      /\ edit' \in [Editor -> Snapshot \cup {NoEdit}]
  <2> USE DEF TypeOK, TablesOK
  <2>1. ASSUME NEW r \in Rule, NEW body \in Contents, CreateRule(r, body)
        PROVE  <1>4!:
    <3>1. [content |-> ContentOf(body), lastTriggered |-> Never] \in RuleRow
      BY ContentOfType, ConstantsAssumption DEF RuleRow
    <3> QED
      BY <2>1, <3>1 DEF CreateRule
  <2>2. ASSUME NEW r \in Rule, NEW e \in Editor, NEW patch \in Patches, EditRead(e, r, patch)
        PROVE  <1>4!:
    <3>1. rules[r] \in RuleRow
      BY <2>2 DEF EditRead, Stored
    <3>2. Merge(rules[r].content, patch) \in Content
      BY <3>1, MergeType, ConstantsAssumption DEF RuleRow
    <3>3. [rules[r] EXCEPT !.content = Merge(rules[r].content, patch)] \in RuleRow
      BY <3>1, <3>2 DEF RuleRow
    <3>4. edit' = [edit EXCEPT ![e] = [rule |-> r,
               row |-> [rules[r] EXCEPT !.content = Merge(rules[r].content, patch)]]]
      BY <2>2 DEF EditRead
    <3>5. edit' \in [Editor -> Snapshot \cup {NoEdit}]
      BY <3>3, <3>4 DEF Snapshot
    <3> QED
      BY <2>2, <3>5 DEF EditRead, tables
  <2>3. ASSUME NEW e \in Editor, EditWrite(e)
        PROVE  <1>4!:
    <3> DEFINE r == edit[e].rule
               row == edit[e].row
    <3>1. r \in Rule /\ row \in RuleRow
      BY <2>3 DEF EditWrite, Snapshot
    <3>2. ASSUME Stored(r)
          PROVE  ContentWritten(rules[r], row) \in RuleRow
      <4>1. rules[r] \in RuleRow
        BY <3>1, <3>2 DEF Stored
      <4> HIDE DEF r, row
      <4> QED
        BY <3>1, <4>1 DEF ContentWritten, RuleRow
    <3>3. \/ Stored(r) /\ rules' = [rules EXCEPT ![r] = ContentWritten(rules[r], row)]
          \/ rules' = rules
      BY <2>3 DEF EditWrite
    <3>4. edit' = [edit EXCEPT ![e] = NoEdit] /\ alerts' = alerts
      BY <2>3 DEF EditWrite
    <3> HIDE DEF r, row
    <3> QED
      BY <3>1, <3>2, <3>3, <3>4
  <2>4. ASSUME NEW r \in Rule, DeleteRule(r)
        PROVE  <1>4!:
    <3>1. Len(alerts) \in Nat /\ DOMAIN alerts = 1 .. Len(alerts)
      BY LenProperties
    <3>2. \A i \in DOMAIN alerts : alerts[i] \in AlertRow
      BY <3>1, ElementOfSeq
    <3>3. \A i \in DOMAIN alerts : [alerts[i] EXCEPT !.rule = NoRow] \in AlertRow
      BY <3>2 DEF AlertRow
    <3>4. alerts' = [i \in 1 .. Len(alerts) |->
             IF alerts[i].rule = r THEN [alerts[i] EXCEPT !.rule = NoRow] ELSE alerts[i]]
      BY <2>4, <3>1 DEF DeleteRule
    <3>5. alerts' \in [1 .. Len(alerts) -> AlertRow]
      BY <3>1, <3>2, <3>3, <3>4
    <3>6. alerts' \in Seq(AlertRow)
      BY <3>1, <3>5
    <3> QED
      BY <2>4, <3>6 DEF DeleteRule
  <2> QED
    BY <2>1, <2>2, <2>3, <2>4 DEF Manage
<1> QED
  BY <1>1, <1>2, <1>3, <1>4 DEF TypeOK, TablesOK

\* A step begins a job, is a step of a job, is a handler's, or one of these three.
LEMMA StepCases ==
    ASSUME TypeOK, Next
    PROVE  \/ \E j \in Job : (\E samples \in Seq(Sample) : Begin(j, samples)) \/ Evaluate(j)
           \/ Manage \/ Tick \/ Stop \/ Restart
<1>1. ASSUME NEW j \in Job, NEW samples \in Batches,
             Ingest(j, samples) \/ EvaluateMetric(j, samples[1])
      PROVE  \E s \in Seq(Sample) : Begin(j, s)
  <2>1. samples \in Seq(Sample) /\ samples # <<>>
    BY ConstantsAssumption
  <2>2. 1 \in 1 .. Len(samples)
    BY <2>1, EmptySeq
  <2>3. samples[1] \in Sample
    BY <2>1, <2>2, ElementOfSeq
  <2>4. <<samples[1]>> \in Seq(Sample)
    BY <2>3
  <2> QED
    BY <1>1, <2>1, <2>4 DEF Ingest, EvaluateMetric
<1> QED
  BY <1>1 DEF Next

LEMMA StepTypes ==
    ASSUME TypeOK, [Next]_vars
    PROVE  TypeOK'
<1>1. CASE UNCHANGED vars
  <2>1. TablesOK' /\ RequestsOK' /\ LocalsOK'
    BY <1>1 DEF vars, TypeOK, TablesOK, RequestsOK, LocalsOK, NoSample
  <2>2. \A j \in Job : JobOK(j)'
    BY <1>1, JobKept DEF vars, TypeOK
  <2> QED
    BY <2>1, <2>2 DEF TypeOK
<1>2. ASSUME NEW j \in Job, NEW samples \in Seq(Sample), Begin(j, samples) PROVE TypeOK'
  BY <1>2, BeginTypes
<1>3. ASSUME NEW j \in Job, Evaluate(j) PROVE TypeOK'
  BY <1>3, ReadTypes, InsertTypes, TouchTypes, FinishTypes DEF Evaluate
<1>4. CASE Tick
  <2>1. now' \in Time
    <3>1. now \in Nat /\ MaxTime \in Nat /\ now' = now + 1 /\ now < MaxTime
      BY <1>4, ConstantsAssumption DEF Tick, TypeOK, TablesOK, Time
    <3> QED
      BY <3>1 DEF Time
  <2>2. TablesOK' /\ RequestsOK' /\ LocalsOK'
    BY <1>4, <2>1 DEF Tick, tables, locals, history, TypeOK, TablesOK, RequestsOK, LocalsOK, NoSample
  <2>3. \A j \in Job : JobOK(j)'
    BY <1>4, JobKept DEF Tick, locals, history, TypeOK
  <2> QED
    BY <2>2, <2>3 DEF TypeOK
<1>5. CASE Stop
  <2>1. LocalsOK' /\ \A j \in Job : JobOK(j)'
    BY <1>5, DieTypes DEF Stop, history
  <2>2. TablesOK' /\ RequestsOK'
    BY <1>5 DEF Stop, Die, tables, history, TypeOK, TablesOK, RequestsOK
  <2> QED
    BY <2>1, <2>2 DEF TypeOK
<1>6. CASE Restart
  <2>1. TablesOK' /\ RequestsOK' /\ LocalsOK'
    BY <1>6 DEF Restart, tables, locals, history, TypeOK, TablesOK, RequestsOK, LocalsOK, NoSample
  <2>2. \A j \in Job : JobOK(j)'
    BY <1>6, JobKept DEF Restart, locals, history, TypeOK
  <2> QED
    BY <2>1, <2>2 DEF TypeOK
<1> QED
  BY <1>1, <1>2, <1>3, <1>4, <1>5, <1>6, ManageTypes, StepCases

\* Types: the rows of both tables, and what every goroutine holds between two statements.
THEOREM TypeCorrect == Spec => []TypeOK
<1>1. Init => TypeOK
  BY InitTypes
<1>2. TypeOK /\ [Next]_vars => TypeOK'
  BY StepTypes
<1> QED
  BY <1>1, <1>2, PTL DEF Spec

------------------------------------------------------------------------------------
(* A step, as one job, one rule and the alerts see it.                                *)

JobStays(j) ==
    /\ pc'[j] = pc[j] /\ left'[j] = left[j] /\ sample'[j] = sample[j] /\ todo'[j] = todo[j]
    /\ batch'[j] = batch[j] /\ since'[j] = since[j] /\ clean'[j] = clean[j]
    /\ known'[j] = known[j] /\ steady'[j] \subseteq steady[j]

JobLost(j) ==
    /\ pc'[j] = "lost" /\ todo'[j] = <<>>
    /\ left'[j] = left[j] /\ batch'[j] = batch[j] /\ since'[j] = since[j]
    /\ steady' = steady

\* No job is touched by another, but that they are lost together.
LEMMA JobMoves ==
    ASSUME TypeOK, Next, NEW k \in Job
    PROVE  \/ JobStays(k) \/ JobLost(k)
           \/ \E samples \in Seq(Sample) : Begin(k, samples)
           \/ Evaluate(k)
<1>1. /\ DOMAIN pc = Job /\ DOMAIN left = Job /\ DOMAIN sample = Job /\ DOMAIN todo = Job
      /\ DOMAIN batch = Job /\ DOMAIN since = Job /\ DOMAIN clean = Job /\ DOMAIN known = Job
      /\ DOMAIN steady = Job /\ (pc[k] \notin {"evaluating", "touch"} => todo[k] = <<>>)
  BY DEF TypeOK, LocalsOK, RequestsOK, JobOK
<1>2. ASSUME NEW how, Die(how), UNCHANGED <<left, sample, history>>
      PROVE  JobStays(k) \/ JobLost(k)
  BY <1>1, <1>2 DEF Die, InFlight, JobStays, JobLost, history
<1>3. ASSUME NEW j \in Job, NEW samples \in Seq(Sample), Begin(j, samples), j # k
      PROVE  JobStays(k)
  BY <1>1, <1>3 DEF Begin, JobStays
<1>4. ASSUME NEW j \in Job, Evaluate(j), j # k
      PROVE  JobStays(k) \/ JobLost(k)
  <2>1. CASE Read(j) \/ ReadFails(j)
    BY <1>1, <1>4, <2>1 DEF Read, ReadFails, NextName, JobStays
  <2>2. CASE Skip(j) \/ Insert(j) \/ InsertFails(j)
    BY <1>1, <1>4, <2>2 DEF Skip, Insert, InsertFails, NextRule, history, JobStays
  <2>3. CASE Touch(j) \/ TouchFails(j)
    <3>1. /\ TriggerWorkflow(j) /\ left' = left /\ sample' = sample /\ batch' = batch
          /\ since' = since /\ steady' = steady /\ known' = known /\ clean'[k] = clean[k]
      BY <1>1, <1>4, <2>3 DEF Touch, TouchFails
    <3>2. CASE Die("panicked")
      BY <1>1, <3>1, <3>2 DEF Die, InFlight, JobStays, JobLost
    <3>3. CASE ~ Die("panicked")
      BY <1>1, <1>4, <3>1, <3>3 DEF TriggerWorkflow, NextRule, JobStays
    <3> QED
      BY <3>2, <3>3
  <2>4. CASE Finish(j)
    BY <1>1, <1>4, <2>4 DEF Finish, history, JobStays
  <2> QED
    BY <1>4, <2>1, <2>2, <2>3, <2>4 DEF Evaluate
<1>5. CASE Manage
  <2>1. steady'[k] \subseteq steady[k]
    BY <1>1, <1>5 DEF Manage, CreateRule, EditRead, EditWrite, DeleteRule, Disturb, history
  <2> QED
    BY <1>1, <1>5, <2>1 DEF Manage, CreateRule, EditRead, EditWrite, DeleteRule, locals, history, JobStays
<1>6. CASE Tick \/ Restart
  BY <1>6 DEF Tick, Restart, locals, history, JobStays
<1>7. CASE Stop
  BY <1>2, <1>7 DEF Stop
<1> QED
  BY <1>3, <1>4, <1>5, <1>6, <1>7, StepCases

RuleStays(r)   == rules'[r] = rules[r] /\ touches'[r] = touches[r]
RuleTouched(r) ==
    /\ Stored(r)
    /\ rules'[r] = [content |-> rules[r].content, lastTriggered |-> now]
    /\ touches'[r] = touches[r] \cup {now}
    /\ now' = now /\ alerts' = alerts
    /\ \E j \in Job : pc[j] = "touch" /\ todo[j] # <<>> /\ Head(todo[j]).rule = r
RuleCreated(r) ==
    /\ rules[r] = NoRow
    /\ \E content \in Content : rules'[r] = [content |-> content, lastTriggered |-> Never]
    /\ touches'[r] = touches[r]
RuleEdited(r)  ==
    /\ Stored(r)
    /\ \E content \in Content :
          rules'[r] = [content |-> content, lastTriggered |-> rules[r].lastTriggered]
    /\ touches'[r] = touches[r] /\ alerts' = alerts
    /\ \A j \in Job : r \notin steady'[j]
RuleDeleted(r) ==
    /\ rules'[r] = Gone
    /\ touches'[r] = touches[r]
    /\ \A j \in Job : r \notin steady'[j]

\* A row is written whole by nobody but its creator.
LEMMA RuleMoves ==
    ASSUME TypeOK, Next, NEW r \in Rule
    PROVE  RuleStays(r) \/ RuleTouched(r) \/ RuleCreated(r) \/ RuleEdited(r) \/ RuleDeleted(r)
<1>1. ASSUME rules' = rules, touches' = touches PROVE RuleStays(r)
  BY <1>1 DEF RuleStays
<1>2. ASSUME NEW j \in Job, NEW samples \in Seq(Sample), Begin(j, samples) PROVE RuleStays(r)
  BY <1>1, <1>2 DEF Begin, tables
<1>3. ASSUME NEW j \in Job, Evaluate(j), ~ Touch(j) PROVE RuleStays(r)
  BY <1>1, <1>3 DEF Evaluate, Read, ReadFails, Skip, Insert, InsertFails, TouchFails, Finish,
                    tables, history
<1>4. ASSUME NEW j \in Job, Touch(j) PROVE RuleStays(r) \/ RuleTouched(r)
  <2> DEFINE s == Head(todo[j]).rule
  <2>1. todo[j] # <<>> /\ pc[j] = "touch" /\ SetLastTriggered(s) /\ now' = now /\ alerts' = alerts
    BY <1>4 DEF Touch, TypeOK, JobOK
  <2>2. s \in Rule
    BY <2>1, FirstAndRest DEF Snapshot
  <2> HIDE DEF s
  <2>3. /\ Stored(s) => /\ rules'[s] = [content |-> rules[s].content, lastTriggered |-> now]
                        /\ touches'[s] = touches[s] \cup {now}
        /\ ~ Stored(s) => rules' = rules /\ touches' = touches
        /\ \A q \in Rule : q # s => rules'[q] = rules[q] /\ touches'[q] = touches[q]
    BY <2>1, <2>2, SetLastTriggeredType DEF TypeOK
  <2>4. CASE r = s /\ Stored(s)
    BY <2>1, <2>3, <2>4 DEF RuleTouched, s
  <2>5. CASE ~ (r = s /\ Stored(s))
    BY <2>3, <2>5 DEF RuleStays
  <2> QED
    BY <2>4, <2>5
<1>5. CASE Manage
  <2>1. DOMAIN rules = Rule /\ touches' = touches
    BY <1>5 DEF Manage, CreateRule, EditRead, EditWrite, DeleteRule, TypeOK, TablesOK, history
  <2>2. ASSUME NEW q \in Rule, NEW body \in Contents, CreateRule(q, body)
        PROVE  RuleStays(r) \/ RuleCreated(r)
    <3>1. /\ rules[q] = NoRow
          /\ rules' = [rules EXCEPT ![q] = [content |-> ContentOf(body), lastTriggered |-> Never]]
          /\ ContentOf(body) \in Content
      BY <2>2, ContentOfType, ConstantsAssumption DEF CreateRule
    <3> QED
      BY <2>1, <3>1 DEF RuleStays, RuleCreated
  <2>3. ASSUME NEW e \in Editor, EditWrite(e)
        PROVE  RuleStays(r) \/ RuleEdited(r)
    <3> DEFINE q == edit[e].rule
    <3>1. q \in Rule /\ edit[e].row \in RuleRow
      BY <2>3 DEF EditWrite, Snapshot, TypeOK, TablesOK
    <3>2. \/ /\ Stored(q) /\ Disturb(q)
             /\ rules' = [rules EXCEPT ![q] = ContentWritten(rules[q], edit[e].row)]
          \/ rules' = rules
      BY <2>3 DEF EditWrite
    <3>3. alerts' = alerts
      BY <2>3 DEF EditWrite
    <3> HIDE DEF q
    <3>4. CASE rules' = rules
      BY <2>1, <3>4 DEF RuleStays
    <3>5. CASE /\ Stored(q) /\ Disturb(q)
               /\ rules' = [rules EXCEPT ![q] = ContentWritten(rules[q], edit[e].row)]
      <4>1. rules[q] \in RuleRow
        BY <3>1, <3>5 DEF Stored, TypeOK, TablesOK
      <4>2. rules'[q] = [content |-> edit[e].row.content, lastTriggered |-> rules[q].lastTriggered]
        BY <2>1, <3>1, <3>5, <4>1 DEF ContentWritten, RuleRow
      <4>3. edit[e].row.content \in Content
        BY <3>1 DEF RuleRow
      <4>4. \A j \in Job : q \notin steady'[j]
        BY <3>5 DEF Disturb
      <4>5. r # q => rules'[r] = rules[r]
        BY <2>1, <3>5
      <4>6. CASE r = q
        BY <2>1, <3>3, <3>5, <4>2, <4>3, <4>4, <4>6 DEF RuleEdited
      <4>7. CASE r # q
        BY <2>1, <4>5, <4>7 DEF RuleStays
      <4> QED
        BY <4>6, <4>7
    <3> QED
      BY <3>2, <3>4, <3>5
  <2>4. ASSUME NEW q \in Rule, DeleteRule(q)
        PROVE  RuleStays(r) \/ RuleDeleted(r)
    BY <2>1, <2>4 DEF DeleteRule, Disturb, RuleStays, RuleDeleted
  <2>5. ASSUME NEW q \in Rule, NEW e \in Editor, NEW patch \in Patches, EditRead(e, q, patch)
        PROVE  RuleStays(r)
    BY <2>1, <2>5, <1>1 DEF EditRead, tables
  <2> QED
    BY <1>5, <2>2, <2>3, <2>4, <2>5 DEF Manage
<1>6. CASE Tick \/ Stop \/ Restart
  BY <1>1, <1>6 DEF Tick, Stop, Restart, tables, history
<1> QED
  BY <1>2, <1>3, <1>4, <1>5, <1>6, StepCases

\* An alert is stored by a job that triggers, and loses its rule with the rule.
AlertStored(j) ==
    /\ Triggered(j) /\ Stored(Head(todo[j]).rule)
    /\ alerts' = Append(alerts, Alert(j))
    /\ rules' = rules /\ now' = now
AlertsUntied(r) ==
    /\ rules'[r] = Gone
    /\ alerts' = [i \in DOMAIN alerts |->
          IF alerts[i].rule = r THEN [alerts[i] EXCEPT !.rule = NoRow] ELSE alerts[i]]

LEMMA AlertMoves ==
    ASSUME TypeOK, Next
    PROVE  /\ \/ alerts' = alerts
              \/ \E j \in Job : AlertStored(j)
              \/ \E r \in Rule : AlertsUntied(r)
           /\ now \in Nat /\ now' \in Nat /\ now <= now'
<1>1. now \in Nat
  BY DEF TypeOK, TablesOK, Time
<1>2. ASSUME NEW j \in Job, Insert(j) \/ InsertFails(j)
      PROVE  now' = now /\ (alerts' = alerts \/ AlertStored(j))
  BY <1>2 DEF Insert, InsertFails, AlertStored
<1>3. ASSUME NEW j \in Job, Evaluate(j), ~ Insert(j), ~ InsertFails(j)
      PROVE  now' = now /\ alerts' = alerts
  BY <1>3 DEF Evaluate, Read, ReadFails, Skip, Touch, TouchFails, Finish, tables
<1>4. ASSUME NEW r \in Rule, DeleteRule(r) PROVE now' = now /\ AlertsUntied(r)
  BY <1>4 DEF DeleteRule, AlertsUntied, TypeOK, TablesOK
<1>5. CASE Manage
  BY <1>1, <1>4, <1>5 DEF Manage, CreateRule, EditRead, EditWrite, tables
<1>6. CASE Tick \/ Stop \/ Restart
  BY <1>1, <1>6 DEF Tick, Stop, Restart, tables
<1>7. ASSUME NEW j \in Job, NEW samples \in Seq(Sample), Begin(j, samples)
      PROVE  now' = now /\ alerts' = alerts
  BY <1>7 DEF Begin, tables
<1> QED
  BY <1>1, <1>2, <1>3, <1>5, <1>6, <1>7, StepCases

------------------------------------------------------------------------------------
(* The triggerings of a rule.                                                         *)

LEMMA StoredRows ==
    ASSUME TypeOK, NEW r \in Rule
    PROVE  /\ Stored(r) => rules[r] \in RuleRow /\ rules[r].lastTriggered \in Time \cup {Never}
           /\ \A row \in RuleRow : row \notin {NoRow, Gone}
           /\ touches[r] \subseteq Nat /\ NoRow # Gone /\ now # Never /\ Never \notin Time
           /\ now \in Nat /\ Time \subseteq Nat
  BY ConstantsAssumption DEF TypeOK, TablesOK, Stored, RuleRow, Time

\* The rows after a step.
LEMMA RowsAfter ==
    ASSUME TypeOK, Next, NEW r \in Rule
    PROVE  /\ RuleTouched(r) \/ RuleEdited(r) \/ RuleCreated(r) => rules'[r] \in RuleRow /\ Stored(r)'
           /\ RuleDeleted(r) => ~ Stored(r)' /\ rules'[r] # NoRow
           /\ RuleStays(r) => (Stored(r)' <=> Stored(r))
           /\ touches[r] \subseteq touches'[r]
<1>1. /\ Stored(r) => rules[r] \in RuleRow /\ rules[r].content \in Content
      /\ Stored(r) => rules[r].lastTriggered \in Time \cup {Never}
      /\ now \in Time
  BY StoredRows DEF TypeOK, TablesOK, RuleRow
<1>2. RuleTouched(r) \/ RuleEdited(r) \/ RuleCreated(r) => rules'[r] \in RuleRow
  <2>1. \A content \in Content, time \in Time \cup {Never} :
           [content |-> content, lastTriggered |-> time] \in RuleRow
    BY DEF RuleRow
  <2>2. RuleTouched(r) => rules'[r] \in RuleRow
    BY <1>1, <2>1 DEF RuleTouched
  <2>3. RuleEdited(r) => rules'[r] \in RuleRow
    BY <1>1, <2>1 DEF RuleEdited
  <2>4. RuleCreated(r) => rules'[r] \in RuleRow
    BY <2>1 DEF RuleCreated
  <2> QED
    BY <2>2, <2>3, <2>4
<1>3. \A row \in RuleRow : row \notin {NoRow, Gone}
  BY StoredRows
<1>4. touches[r] \subseteq touches'[r]
  BY RuleMoves DEF RuleTouched, RuleEdited, RuleCreated, RuleStays, RuleDeleted
<1>5. RuleDeleted(r) => ~ Stored(r)' /\ rules'[r] # NoRow
  BY ConstantsAssumption DEF RuleDeleted, Stored
<1> QED
  BY <1>2, <1>3, <1>4, <1>5 DEF RuleStays, Stored

LEMMA TouchesStep ==
    ASSUME TypeOK, Next, TouchesRecorded
    PROVE  TouchesRecorded'
<1> SUFFICES ASSUME NEW r \in Rule
             PROVE  /\ rules'[r] = NoRow => touches'[r] = {}
                    /\ Stored(r)' => LatestOf(touches'[r], rules'[r].lastTriggered)
                    /\ \A t \in touches'[r] : t <= now'
  BY DEF TouchesRecorded, LatestOf
<1>1. /\ rules[r] = NoRow => touches[r] = {}
      /\ Stored(r) => LatestOf(touches[r], rules[r].lastTriggered)
      /\ \A t \in touches[r] : t <= now
  BY DEF TouchesRecorded
<1>2. now \in Nat /\ now' \in Nat /\ now <= now' /\ touches[r] \subseteq Nat /\ now # Never
  BY AlertMoves, StoredRows
<1>3. \A t \in touches[r] : t <= now'
  BY <1>1, <1>2
<1>4. CASE RuleStays(r)
  BY <1>1, <1>3, <1>4, RowsAfter DEF RuleStays
<1>5. CASE RuleTouched(r)
  <2>1. rules'[r] # NoRow /\ rules'[r].lastTriggered = now /\ touches'[r] = touches[r] \cup {now}
    <3>1. Stored(r)'
      BY <1>5, RowsAfter
    <3> QED
      BY <1>5, <3>1 DEF RuleTouched, Stored
  <2>2. LatestOf(touches'[r], now)
    BY <1>1, <1>2, <2>1 DEF LatestOf
  <2> QED
    BY <1>2, <1>3, <2>1, <2>2
<1>6. CASE RuleCreated(r)
  <2>1. rules'[r] # NoRow /\ rules'[r].lastTriggered = Never /\ touches'[r] = {}
    BY <1>1, <1>6, RowsAfter DEF RuleCreated, Stored
  <2> QED
    BY <2>1 DEF LatestOf
<1>7. CASE RuleEdited(r)
  <2>1. /\ rules'[r] # NoRow /\ rules'[r].lastTriggered = rules[r].lastTriggered /\ Stored(r)
        /\ touches'[r] = touches[r]
    BY <1>7, RowsAfter DEF RuleEdited, Stored
  <2> QED
    BY <1>1, <1>3, <2>1
<1>8. CASE RuleDeleted(r)
  <2>1. touches'[r] = touches[r]
    BY <1>8 DEF RuleDeleted
  <2> QED
    BY <1>3, <1>8, <2>1, RowsAfter
<1> QED
  BY <1>4, <1>5, <1>6, <1>7, <1>8, RuleMoves

LEMMA SteadyStep ==
    ASSUME TypeOK, Next, SteadyStored
    PROVE  SteadyStored'
<1> SUFFICES ASSUME NEW j \in Job
             PROVE  since'[j] <= now' /\ \A r \in steady'[j] : Stored(r)'
  BY DEF SteadyStored
<1>1. since[j] <= now /\ \A r \in steady[j] : Stored(r)
  BY DEF SteadyStored
<1>2. since[j] \in Nat /\ now \in Nat /\ now' \in Nat /\ now <= now' /\ steady[j] \subseteq Rule
  BY AlertMoves DEF TypeOK, RequestsOK, Time
<1>3. \A r \in steady[j] : r \in steady'[j] => Stored(r)'
  BY <1>1, <1>2, RuleMoves, RowsAfter DEF RuleDeleted
<1>4. CASE since'[j] = since[j] /\ steady'[j] \subseteq steady[j]
  BY <1>1, <1>2, <1>3, <1>4
<1>5. ASSUME NEW samples \in Seq(Sample), Begin(j, samples)
      PROVE  since'[j] <= now' /\ \A r \in steady'[j] : Stored(r)'
  <2>1. /\ since'[j] = now /\ now' = now /\ rules' = rules
        /\ steady'[j] = {r \in Rule : Stored(r)}
    BY <1>5 DEF Begin, tables, TypeOK, RequestsOK
  <2> QED
    BY <1>2, <2>1 DEF Stored
<1>6. CASE Evaluate(j)
  BY <1>4, <1>6 DEF Evaluate, Read, ReadFails, Skip, Insert, InsertFails, Touch, TouchFails, Finish,
                    history
<1> QED
  BY <1>4, <1>5, <1>6, JobMoves DEF JobStays, JobLost

\* What was read stays as good as it was.
LEMMA ReadOfKept ==
    ASSUME TypeOK, Next, NEW j \in Job, NEW snapshot \in Snapshot, ReadOf(j, snapshot),
           known'[j] = known[j], steady'[j] \subseteq steady[j]
    PROVE  ReadOf(j, snapshot)'
<1> DEFINE r == snapshot.rule
           row == snapshot.row
<1>1. r \in Rule /\ row \in RuleRow
  BY DEF Snapshot
<1>2. /\ row.lastTriggered # Never => row.lastTriggered \in Nat
      /\ row.content.cooldown \in Int
  BY <1>1, StoredRows, ContentFields DEF RuleRow
<1> HIDE DEF r, row
<1>3. /\ rules[r] # NoRow
      /\ LatestOf(known[j][r], row.lastTriggered)
      /\ known[j][r] \subseteq touches[r]
      /\ r \in steady[j] => rules[r].content = row.content
      /\ j \in Evaluators =>
            /\ row.content.condition.type = "metric_threshold"
            /\ row.lastTriggered # Never => row.lastTriggered + row.content.cooldown < now
  BY DEF ReadOf, r, row
<1>4. now \in Nat /\ now' \in Nat /\ now <= now'
  BY AlertMoves
<1>5. rules'[r] # NoRow
  BY <1>1, <1>3, RuleMoves, RowsAfter DEF RuleStays, Stored
<1>6. r \in steady'[j] => rules'[r].content = rules[r].content
  <2>1. RuleTouched(r) => rules'[r].content = rules[r].content
    BY DEF RuleTouched
  <2>2. RuleStays(r) => rules'[r].content = rules[r].content
    BY DEF RuleStays
  <2>3. ~ RuleCreated(r)
    BY <1>3 DEF RuleCreated
  <2>4. RuleEdited(r) \/ RuleDeleted(r) => r \notin steady'[j]
    BY DEF RuleEdited, RuleDeleted
  <2> QED
    BY <1>1, <2>1, <2>2, <2>3, <2>4, RuleMoves
<1>7. touches[r] \subseteq touches'[r]
  BY <1>1, RowsAfter
<1>8. row.lastTriggered # Never /\ row.lastTriggered + row.content.cooldown < now =>
         row.lastTriggered + row.content.cooldown < now'
  BY <1>2, <1>4
<1>9. LatestOf(known'[j][r], row.lastTriggered)
  BY <1>3
<1>10. LatestOf(known[j][r], row.lastTriggered)'
  BY <1>9 DEF LatestOf, r, row
<1>11. /\ rules'[r] # NoRow
       /\ known'[j][r] \subseteq touches'[r]
       /\ r \in steady'[j] => rules'[r].content = row.content
       /\ j \in Evaluators =>
             /\ row.content.condition.type = "metric_threshold"
             /\ row.lastTriggered # Never => row.lastTriggered + row.content.cooldown < now'
  BY <1>3, <1>5, <1>6, <1>7, <1>8
<1> QED
  BY <1>10, <1>11 DEF ReadOf, r, row

\* A job reads its rules in one step, and otherwise only goes on to the next.
LEMMA EvaluateKeeps ==
    ASSUME TypeOK, NEW j \in Job, Evaluate(j)
    PROVE  /\ batch' = batch /\ since' = since /\ steady' = steady
           /\ ~ Read(j) =>
                 /\ known' = known /\ sample' = sample
                 /\ \/ todo'[j] = todo[j]
                    \/ todo'[j] = <<>>
                    \/ todo[j] # <<>> /\ todo'[j] = Tail(todo[j])
<1>1. batch' = batch /\ since' = since /\ steady' = steady
  BY DEF Evaluate, Read, ReadFails, Skip, Insert, InsertFails, Touch, TouchFails, Finish, history
<1>2. ~ Read(j) => known' = known /\ sample' = sample
  BY DEF Evaluate, ReadFails, Skip, Insert, InsertFails, Touch, TouchFails, Finish, history
<1>3. ASSUME ~ Read(j)
      PROVE  \/ todo'[j] = todo[j] \/ todo'[j] = <<>>
             \/ todo[j] # <<>> /\ todo'[j] = Tail(todo[j])
  <2>1. DOMAIN todo = Job /\ (pc[j] = "touch" => todo[j] # <<>>)
    BY DEF TypeOK, LocalsOK, JobOK
  <2>2. CASE Touch(j) \/ TouchFails(j)
    BY <2>1, <2>2 DEF Touch, TouchFails, TriggerWorkflow, NextRule, Die
  <2>3. CASE ReadFails(j) \/ Insert(j) \/ Finish(j)
    BY <2>3 DEF ReadFails, Insert, Finish
  <2>4. CASE Skip(j) \/ InsertFails(j)
    BY <2>1, <2>4 DEF Skip, InsertFails, Triggered, NextRule
  <2> QED
    BY <1>3, <2>2, <2>3, <2>4 DEF Evaluate
<1> QED
  BY <1>1, <1>2, <1>3

LEMMA RulesReadStep ==
    ASSUME TypeOK, TypeOK', Next, TouchesRecorded, RulesRead
    PROVE  RulesRead'
<1> SUFFICES ASSUME NEW j \in Job, NEW x \in Range(todo[j])' PROVE ReadOf(j, x)'
  BY DEF RulesRead
<1>0. PICK i \in DOMAIN todo'[j] : x = todo'[j][i]
  BY DEF Range
<1>1. todo[j] \in Seq(Snapshot) /\ todo'[j] \in Seq(Snapshot)
  BY DEF TypeOK, LocalsOK
<1>2. \A k \in DOMAIN todo[j] : todo[j][k] \in Snapshot /\ ReadOf(j, todo[j][k])
  BY <1>1, LenProperties, ElementOfSeq DEF RulesRead, Range
<1>3. \A s : s = <<>> => DOMAIN s = {}
  OBVIOUS
<1>4. ASSUME todo'[j] = todo[j] \/ (todo[j] # <<>> /\ todo'[j] = Tail(todo[j]))
      PROVE  \E k \in DOMAIN todo[j] : todo'[j][i] = todo[j][k]
  <2>1. CASE todo'[j] = todo[j]
    BY <2>1
  <2>2. CASE todo[j] # <<>> /\ todo'[j] = Tail(todo[j])
    BY <2>2, FirstAndRest
  <2> QED
    BY <1>4, <2>1, <2>2
<1>5. ASSUME todo'[j] = todo[j] \/ (todo[j] # <<>> /\ todo'[j] = Tail(todo[j])),
             known'[j] = known[j], steady'[j] \subseteq steady[j]
      PROVE  ReadOf(j, x)'
  <2>1. PICK k \in DOMAIN todo[j] : todo'[j][i] = todo[j][k]
    BY <1>4, <1>5
  <2>2. todo[j][k] \in Snapshot /\ ReadOf(j, todo[j][k])
    BY <1>2
  <2>3. x \in Snapshot /\ ReadOf(j, x)
    BY <1>0, <2>1, <2>2
  <2> QED
    BY <1>5, <2>3, ReadOfKept
<1>6. CASE JobStays(j)
  BY <1>5, <1>6 DEF JobStays
<1>7. CASE JobLost(j)
  BY <1>0, <1>3, <1>7 DEF JobLost
<1>8. ASSUME NEW samples \in Seq(Sample), Begin(j, samples)
      PROVE  ReadOf(j, x)'
  <2>1. todo'[j] = <<>>
    BY <1>8 DEF Begin, TypeOK, JobOK
  <2> QED
    BY <1>0, <1>3, <2>1
<1>9. CASE Evaluate(j) /\ ~ Read(j)
  BY <1>0, <1>3, <1>5, <1>9, EvaluateKeeps
<1>10. CASE Read(j)
  <2>1. /\ rules' = rules /\ touches' = touches /\ steady' = steady /\ now' = now
        /\ known'[j] = touches
    BY <1>10 DEF Read, tables, TypeOK, LocalsOK
  <2>2. PICK m \in Metric : \E read \in RulesFor(j, m) : todo' = [todo EXCEPT ![j] = read]
    BY <1>10 DEF Read
  <2>3. PICK read \in RulesFor(j, m) : todo'[j] = read
    BY <2>2 DEF TypeOK, LocalsOK
  <2>4. x = read[i] /\ i \in DOMAIN read
    BY <1>0, <2>3
  <2> DEFINE r == x.rule
             row == x.row
  <2>5. r \in Wanted(j, m) /\ Stored(r) /\ row = rules[r]
    BY <2>4, RulesReturned
  <2>6. r \in Rule
    BY <2>5 DEF Wanted, DueFor, EnabledRules
  <2> HIDE DEF r, row
  <2>7. rules[r] # NoRow /\ LatestOf(touches[r], row.lastTriggered)
    BY <2>5, <2>6 DEF TouchesRecorded, Stored
  <2>8. j \in Evaluators =>
            /\ row.content.condition.type = "metric_threshold"
            /\ row.lastTriggered # Never => row.lastTriggered + row.content.cooldown < now
    BY <2>5 DEF Wanted, DueFor
  <2>9. LatestOf(known[j][r], row.lastTriggered)'
    BY <2>1, <2>7 DEF LatestOf, r, row
  <2> QED
    BY <2>1, <2>5, <2>7, <2>8, <2>9 DEF ReadOf, r, row
<1> QED
  BY <1>6, <1>7, <1>8, <1>9, <1>10, JobMoves

------------------------------------------------------------------------------------
(* The alerts of a rule.                                                              *)

LEMMA AlertRows ==
    ASSUME TypeOK
    PROVE  /\ Len(alerts) \in Nat /\ DOMAIN alerts = 1 .. Len(alerts)
           /\ \A i \in DOMAIN alerts : alerts[i] \in AlertRow /\ alerts[i].at \in Nat
<1>1. alerts \in Seq(AlertRow)
  BY DEF TypeOK, TablesOK
<1> QED
  <2>1. /\ Len(alerts) \in Nat /\ DOMAIN alerts = 1 .. Len(alerts)
        /\ \A i \in DOMAIN alerts : alerts[i] \in AlertRow
    BY <1>1, LenProperties, ElementOfSeq
  <2>2. \A a \in AlertRow : a.at \in Nat
    BY DEF AlertRow, Time
  <2> QED
    BY <2>1, <2>2

\* Alerts stay, and all but their rules with them; one may come behind.
LEMMA AlertsGrow ==
    ASSUME TypeOK, Next
    PROVE  /\ DOMAIN alerts \subseteq DOMAIN alerts'
           /\ \A i \in DOMAIN alerts :
                 /\ alerts'[i].at = alerts[i].at /\ alerts'[i].known = alerts[i].known
                 /\ alerts'[i].content = alerts[i].content /\ alerts'[i].job = alerts[i].job
                 /\ alerts'[i].sample = alerts[i].sample
                 /\ \A r \in Rule : Stored(r)' /\ alerts[i].rule = r => alerts'[i].rule = r
           /\ \A i \in DOMAIN alerts' : i \notin DOMAIN alerts =>
                 \E j \in Job : AlertStored(j) /\ alerts'[i] = Alert(j)
<1>1. /\ Len(alerts) \in Nat /\ DOMAIN alerts = 1 .. Len(alerts)
      /\ \A i \in DOMAIN alerts : alerts[i] \in AlertRow
  BY AlertRows
<1>2. ASSUME NEW r \in Rule, AlertsUntied(r)
      PROVE  /\ DOMAIN alerts' = DOMAIN alerts
             /\ \A i \in DOMAIN alerts :
                   /\ alerts'[i].at = alerts[i].at /\ alerts'[i].known = alerts[i].known
                   /\ alerts'[i].content = alerts[i].content /\ alerts'[i].job = alerts[i].job
                   /\ alerts'[i].sample = alerts[i].sample
                   /\ \A q \in Rule : Stored(q)' /\ alerts[i].rule = q => alerts'[i].rule = q
  <2>1. DOMAIN alerts' = DOMAIN alerts
    BY <1>2 DEF AlertsUntied
  <2> SUFFICES ASSUME NEW i \in DOMAIN alerts
               PROVE  /\ alerts'[i].at = alerts[i].at /\ alerts'[i].known = alerts[i].known
                      /\ alerts'[i].content = alerts[i].content /\ alerts'[i].job = alerts[i].job
                      /\ alerts'[i].sample = alerts[i].sample
                      /\ \A q \in Rule : Stored(q)' /\ alerts[i].rule = q => alerts'[i].rule = q
    BY <2>1
  <2>2. alerts'[i] = IF alerts[i].rule = r THEN [alerts[i] EXCEPT !.rule = NoRow] ELSE alerts[i]
    BY <1>2 DEF AlertsUntied
  <2>3. ~ Stored(r)'
    BY <1>2 DEF AlertsUntied, Stored
  <2>4. alerts[i] \in AlertRow
    BY <1>1
  <2> QED
    BY <2>2, <2>3, <2>4 DEF AlertRow
<1>3. ASSUME NEW j \in Job, AlertStored(j)
      PROVE  /\ DOMAIN alerts' = 1 .. Len(alerts) + 1
             /\ \A i \in DOMAIN alerts : alerts'[i] = alerts[i]
             /\ alerts'[Len(alerts) + 1] = Alert(j)
  <2>1. alerts \in Seq(AlertRow) /\ Alert(j) \in AlertRow /\ alerts' = Append(alerts, Alert(j))
    BY <1>3, AlertType DEF AlertStored, TypeOK, TablesOK
  <2>2. alerts' \in Seq(AlertRow) /\ Len(alerts') = Len(alerts) + 1
    BY <2>1, AppendProperties
  <2>3. DOMAIN alerts' = 1 .. Len(alerts')
    BY <2>2, LenProperties
  <2> QED
    BY <1>1, <2>1, <2>2, <2>3, AppendProperties
<1>4. CASE alerts' = alerts
  BY <1>4
<1>5. ASSUME NEW j \in Job, AlertStored(j)
      PROVE  /\ DOMAIN alerts \subseteq DOMAIN alerts'
             /\ \A i \in DOMAIN alerts : alerts'[i] = alerts[i]
             /\ \A i \in DOMAIN alerts' : i \notin DOMAIN alerts => alerts'[i] = Alert(j)
  BY <1>1, <1>3, <1>5
<1> QED
  BY <1>2, <1>4, <1>5, AlertMoves

LEMMA AlertedKept ==
    ASSUME TypeOK, Next, NEW r \in Rule, NEW t, Alerted(r, t), Stored(r)'
    PROVE  \E i \in DOMAIN alerts' : alerts'[i].rule = r /\ alerts'[i].at <= t
<1>1. PICK i \in DOMAIN alerts : alerts[i].rule = r /\ alerts[i].at <= t
  BY DEF Alerted
<1> QED
  BY <1>1, AlertsGrow

LEMMA TouchIsBackedStep ==
    ASSUME TypeOK, TypeOK', Next, RulesRead, TouchIsBacked
    PROVE  TouchIsBacked'
<1> SUFFICES ASSUME NEW j \in Job, NEW r, r = Head(todo[j]).rule', pc'[j] = "touch", Stored(r)'
             PROVE  \E i \in DOMAIN alerts' : alerts'[i].rule = r /\ alerts'[i].at <= now'
  BY DEF TouchIsBacked, Alerted, Stored
<1>1. CASE pc[j] = "touch" /\ todo'[j] = todo[j]
  <2>1. todo[j] # <<>>
    BY <1>1 DEF TypeOK, JobOK
  <2>2. Head(todo[j]) \in Snapshot /\ Head(todo[j]) = todo[j][1] /\ 1 \in DOMAIN todo[j]
    BY <2>1, FirstAndRest
  <2>3. r = Head(todo[j]).rule /\ r \in Rule
    BY <1>1, <2>2 DEF Snapshot
  <2>4. ReadOf(j, Head(todo[j]))
    BY <2>2 DEF RulesRead, Range
  <2>5. rules[r] # NoRow
    BY <2>3, <2>4 DEF ReadOf
  <2>6. Stored(r)
    BY <2>3, <2>5, RuleMoves, RowsAfter DEF RuleStays, RuleTouched, RuleEdited, RuleCreated
  <2>7. Alerted(r, now)
    BY <1>1, <2>3, <2>6 DEF TouchIsBacked
  <2>8. PICK i \in DOMAIN alerts' : alerts'[i].rule = r /\ alerts'[i].at <= now
    BY <2>3, <2>7, AlertedKept
  <2>9. alerts'[i].at \in Nat
    <3>1. \A a \in AlertRow : a.at \in Nat
      BY DEF AlertRow, Time
    <3>2. alerts' \in Seq(AlertRow)
      BY DEF TypeOK, TablesOK
    <3>3. alerts'[i] \in AlertRow
      BY <2>8, <3>2, LenProperties, ElementOfSeq
    <3> QED
      BY <3>1, <3>3
  <2> QED
    BY <2>8, <2>9, AlertMoves
<1>2. CASE Insert(j)
  <2>1. AlertStored(j) /\ todo' = todo /\ now' = now
    BY <1>2 DEF Insert, AlertStored
  <2>2. r = Head(todo[j]).rule
    BY <2>1
  <2>3. alerts' = Append(alerts, Alert(j)) /\ alerts \in Seq(AlertRow) /\ Alert(j) \in AlertRow
    BY <2>1, AlertType DEF AlertStored, TypeOK, TablesOK
  <2>4. alerts' \in Seq(AlertRow) /\ Len(alerts') = Len(alerts) + 1 /\ Len(alerts) \in Nat
        /\ alerts'[Len(alerts) + 1] = Alert(j)
    BY <2>3, AppendProperties, LenProperties
  <2>5. Len(alerts) + 1 \in DOMAIN alerts'
    BY <2>4, LenProperties
  <2>6. Alert(j).rule = r /\ Alert(j).at = now /\ now \in Nat
    BY <2>2, AlertMoves DEF Alert
  <2> QED
    BY <2>1, <2>4, <2>5, <2>6
<1>3. CASE Evaluate(j) /\ ~ Insert(j)
  <2>1. DOMAIN pc = Job /\ DOMAIN todo = Job
    BY DEF TypeOK, LocalsOK
  <2>2. CASE Touch(j) \/ TouchFails(j)
    BY <2>1, <2>2 DEF Touch, TouchFails, TriggerWorkflow, Die, InFlight
  <2>3. CASE ~ Touch(j) /\ ~ TouchFails(j)
    BY <1>3, <2>1, <2>3 DEF Evaluate, Read, ReadFails, NextName, Skip, InsertFails, Triggered, Finish
  <2> QED
    BY <2>2, <2>3
<1>4. ASSUME NEW samples \in Seq(Sample), Begin(j, samples) PROVE FALSE
  BY <1>4 DEF Begin, TypeOK, LocalsOK
<1> QED
  BY <1>1, <1>2, <1>3, <1>4, JobMoves DEF JobStays, JobLost

LEMMA SilencedStep ==
    ASSUME TypeOK, Next, TouchIsBacked, SilencedByAlert
    PROVE  SilencedByAlert'
<1> SUFFICES ASSUME NEW r \in Rule, Stored(r)', rules'[r].lastTriggered # Never
             PROVE  \E i \in DOMAIN alerts' :
                       alerts'[i].rule = r /\ alerts'[i].at <= rules'[r].lastTriggered
  BY DEF SilencedByAlert
<1>1. CASE RuleStays(r) \/ RuleEdited(r)
  <2>1. Stored(r) /\ rules'[r].lastTriggered = rules[r].lastTriggered
    <3>1. CASE RuleStays(r)
      BY <3>1, RowsAfter DEF RuleStays
    <3>2. CASE RuleEdited(r)
      BY <3>2 DEF RuleEdited
    <3> QED
      BY <1>1, <3>1, <3>2
  <2>2. Alerted(r, rules[r].lastTriggered)
    BY <2>1 DEF SilencedByAlert, Alerted
  <2> QED
    BY <2>1, <2>2, AlertedKept
<1>2. CASE RuleTouched(r)
  <2>1. Alerted(r, now) /\ rules'[r].lastTriggered = now
    BY <1>2 DEF RuleTouched, TouchIsBacked
  <2> QED
    BY <2>1, AlertedKept
<1>3. CASE RuleCreated(r)
  BY <1>3 DEF RuleCreated
<1>4. CASE RuleDeleted(r)
  BY <1>4, RowsAfter
<1> QED
  BY <1>1, <1>2, <1>3, <1>4, RuleMoves

\* An alert keeps the cooldown after the triggerings that its job knew of.
LEMMA AlertIsCool ==
    ASSUME TypeOK, RulesRead, NEW j \in Job, Triggered(j), NEW t \in Alert(j).known
    PROVE  LET content == Alert(j).content
           IN  /\ Alert(j).at >= t + content.cooldown
               /\ content.asked \in 0 .. Half - 1 => Alert(j).at >= t + content.asked
<1> DEFINE r == Head(todo[j]).rule
           row == Head(todo[j]).row
<1>1. /\ Head(todo[j]) \in Snapshot /\ Head(todo[j]) \in Range(todo[j])
  BY FirstAndRest DEF Triggered, Range
<1>2. r \in Rule /\ row \in RuleRow /\ ReadOf(j, Head(todo[j]))
  BY <1>1 DEF Snapshot, RulesRead
<1>3. Alert(j).known = known[j][r] /\ Alert(j).at = now /\ Alert(j).content = row.content
  BY DEF Alert
<1>4. /\ LatestOf(known[j][r], row.lastTriggered)
      /\ j \in Evaluators /\ row.lastTriggered # Never =>
            row.lastTriggered + row.content.cooldown < now
  BY <1>2 DEF ReadOf
<1>5. j \notin Evaluators => CanTrigger(row)
  BY DEF Triggered
<1>6. known[j][r] \subseteq Nat
  BY <1>2 DEF TypeOK, LocalsOK, Time
<1>7. row.content.cooldown \in Int /\ row.lastTriggered \in Nat \cup {Never} /\ now \in Nat
  BY <1>2, ContentFields DEF RuleRow, Time, TypeOK, TablesOK
<1>0. row.content.asked \in 0 .. Half - 1 => row.content.cooldown = row.content.asked
  <2>1. 0 .. Half - 1 \subseteq Int32
    BY ConstantsAssumption DEF Int32
  <2> QED
    BY <1>2, <2>1, ContentFields DEF RuleRow
<1> HIDE DEF r, row
<1>8. row.lastTriggered # Never /\ t <= row.lastTriggered /\ t \in Nat /\ row.lastTriggered \in Nat
  BY <1>3, <1>4, <1>6, <1>7 DEF LatestOf
<1>9. row.lastTriggered + row.content.cooldown <= now
  <2>1. CASE j \in Evaluators
    BY <1>4, <1>7, <1>8, <2>1
  <2>2. CASE j \notin Evaluators
    <3>1. now - row.lastTriggered >= row.content.cooldown
      BY <1>5, <1>8, <2>2 DEF CanTrigger
    <3> QED
      BY <1>7, <1>8, <3>1
  <2> QED
    BY <2>1, <2>2
<1>10. now >= t + row.content.cooldown
  BY <1>7, <1>8, <1>9
<1> QED
  BY <1>0, <1>3, <1>10

LEMMA CooldownStep ==
    ASSUME TypeOK, Next, RulesRead, CooldownAfterKnownTriggers
    PROVE  CooldownAfterKnownTriggers'
<1> SUFFICES ASSUME NEW i \in DOMAIN alerts', NEW t \in alerts'[i].known
             PROVE  LET content == alerts'[i].content
                    IN  /\ alerts'[i].at >= t + content.cooldown
                        /\ content.asked \in 0 .. Half - 1 => alerts'[i].at >= t + content.asked
  BY DEF CooldownAfterKnownTriggers
<1>1. CASE i \in DOMAIN alerts
  <2>1. /\ alerts'[i].at = alerts[i].at /\ alerts'[i].known = alerts[i].known
        /\ alerts'[i].content = alerts[i].content
    BY <1>1, AlertsGrow
  <2> QED
    BY <1>1, <2>1 DEF CooldownAfterKnownTriggers
<1>2. CASE i \notin DOMAIN alerts
  <2>1. PICK j \in Job : AlertStored(j) /\ alerts'[i] = Alert(j)
    BY <1>2, AlertsGrow
  <2> QED
    BY <2>1, AlertIsCool DEF AlertStored
<1> QED
  BY <1>1, <1>2

------------------------------------------------------------------------------------
(* The values of a request.                                                           *)

LEMMA BatchesKept ==
    ASSUME TypeOK, Next, NEW j \in Job, pc[j] # "idle"
    PROVE  pc'[j] # "idle" /\ batch'[j] = batch[j]
<1>1. DOMAIN pc = Job
  BY DEF TypeOK, LocalsOK
<1>2. CASE Evaluate(j)
  <2>1. batch' = batch
    BY <1>2, EvaluateKeeps
  <2>2. CASE Touch(j) \/ TouchFails(j)
    BY <1>1, <2>1, <2>2 DEF Touch, TouchFails, TriggerWorkflow, Die
  <2>3. CASE ~ Touch(j) /\ ~ TouchFails(j)
    BY <1>1, <1>2, <2>1, <2>3 DEF Evaluate, Read, ReadFails, Skip, Insert, InsertFails, Finish
  <2> QED
    BY <2>2, <2>3
<1> QED
  BY <1>2, JobMoves DEF JobStays, JobLost, Begin

LEMMA ValuesStep ==
    ASSUME TypeOK, TypeOK', Next, ValuesAreLast
    PROVE  ValuesAreLast'
<1> SUFFICES ASSUME NEW j \in Job
             PROVE  /\ \A m \in DOMAIN left'[j] : \E i \in DOMAIN batch'[j] :
                          LastOf(batch'[j], m, i) /\ left'[j][m] = batch'[j][i].value
                    /\ todo'[j] # <<>> => \E i \in DOMAIN batch'[j] :
                          batch'[j][i] = sample'[j] /\ LastOf(batch'[j], sample'[j].metric, i)
  BY DEF ValuesAreLast, LastOf
<1>1. /\ \A m \in DOMAIN left[j] : \E i \in DOMAIN batch[j] :
            LastOf(batch[j], m, i) /\ left[j][m] = batch[j][i].value
      /\ todo[j] # <<>> => \E i \in DOMAIN batch[j] :
            batch[j][i] = sample[j] /\ LastOf(batch[j], sample[j].metric, i)
  BY DEF ValuesAreLast
<1>2. CASE JobStays(j)
  BY <1>1, <1>2 DEF JobStays
<1>3. CASE JobLost(j)
  BY <1>1, <1>3 DEF JobLost
<1>4. ASSUME NEW samples \in Seq(Sample), Begin(j, samples)
      PROVE  /\ \A m \in DOMAIN left'[j] : \E i \in DOMAIN batch'[j] :
                   LastOf(batch'[j], m, i) /\ left'[j][m] = batch'[j][i].value
             /\ todo'[j] = <<>>
  <2>1. left'[j] = LastValues(samples) /\ batch'[j] = samples /\ todo'[j] = <<>>
    BY <1>4 DEF Begin, TypeOK, LocalsOK, RequestsOK, JobOK
  <2>2. DOMAIN LastValues(samples) = NamesOf(samples)
    BY DEF LastValues
  <2> QED
    BY <2>1, <2>2, LastValueOfName
<1>5. CASE Read(j) \/ ReadFails(j)
  <2>1. PICK m \in Metric :
           /\ NextName(j, m)
           /\ \/ sample' = [sample EXCEPT ![j] = [metric |-> m, value |-> left[j][m]]]
              \/ sample' = sample /\ todo' = todo
    BY <1>5 DEF Read, ReadFails
  <2>2. batch' = batch /\ DOMAIN sample = Job /\ DOMAIN left = Job
    BY <1>5 DEF Read, ReadFails, TypeOK, LocalsOK
  <2>3. /\ m \in DOMAIN left[j] /\ todo[j] = <<>>
        /\ left'[j] = [n \in DOMAIN left[j] \ {m} |-> left[j][n]]
    BY <2>1, <2>2 DEF NextName
  <2>4. \A n \in DOMAIN left'[j] : n \in DOMAIN left[j] /\ left'[j][n] = left[j][n]
    BY <2>3
  <2>5. PICK i \in DOMAIN batch[j] : LastOf(batch[j], m, i) /\ left[j][m] = batch[j][i].value
    BY <1>1, <2>3
  <2>6. batch[j][i] = [metric |-> m, value |-> left[j][m]]
    <3>1. batch[j][i] \in Sample
      BY LenProperties, ElementOfSeq DEF TypeOK, RequestsOK
    <3> QED
      BY <2>5, <3>1 DEF Sample, LastOf
  <2>7. todo'[j] # <<>> => sample'[j] = [metric |-> m, value |-> left[j][m]]
    BY <2>1, <2>2, <2>3
  <2> QED
    <3>1. \A n \in DOMAIN left'[j] : \E k \in DOMAIN batch'[j] :
             LastOf(batch'[j], n, k) /\ left'[j][n] = batch'[j][k].value
      BY <1>1, <2>2, <2>4
    <3>2. todo'[j] # <<>> => batch'[j][i] = sample'[j] /\ LastOf(batch'[j], sample'[j].metric, i)
      BY <2>2, <2>5, <2>6, <2>7
    <3> QED
      BY <2>2, <3>1, <3>2
<1>6. CASE Evaluate(j) /\ ~ Read(j) /\ ~ ReadFails(j)
  <2>1. left' = left
    BY <1>6 DEF Evaluate, Skip, Insert, InsertFails, Touch, TouchFails, Finish
  <2>2. sample' = sample /\ batch' = batch /\ (todo'[j] # <<>> => todo[j] # <<>>)
    BY <1>6, EvaluateKeeps
  <2> QED
    BY <1>1, <2>1, <2>2
<1> QED
  BY <1>2, <1>3, <1>4, <1>5, <1>6, JobMoves

------------------------------------------------------------------------------------
(* What triggers.                                                                     *)

\* Both comparisons find exactly the values that cross, with the operators they know.
LEMMA ComparisonsAreExact ==
    ASSUME NEW c \in Condition, NEW v \in Nat
    PROVE  /\ EvaluateThreshold(c, v) <=>
                 c.type = "threshold" /\ c.operator # "ne" /\ Crosses(c, v)
           /\ \A metric : metric.value = v =>
                 (EvaluateRule(c, metric) <=>
                     c.metric = metric.metric /\ c.operator # "neq" /\ Crosses(c, v))
<1> DEFINE o == c.operator
           t == c.threshold
<1>1. o \in {"gt", "gte", "lt", "lte", "eq", "neq", "ne"} /\ t \in Nat
  BY DEF Condition
<1>2. Crosses(c, v) <=> \/ o \in {"gt", "gte", "neq", "ne"} /\ v > t
                        \/ o \in {"lt", "lte", "neq", "ne"} /\ v < t
                        \/ o \in {"gte", "lte", "eq"} /\ v = t
  BY DEF Crosses
<1> HIDE DEF o, t
<1>3. Compare(o, v, t) <=> o # "ne" /\ Crosses(c, v)
  <2>1. CASE o = "gt"
    BY <1>1, <1>2, <2>1 DEF Compare
  <2>2. CASE o = "gte"
    BY <1>1, <1>2, <2>2 DEF Compare
  <2>3. CASE o = "lt"
    BY <1>1, <1>2, <2>3 DEF Compare
  <2>4. CASE o = "lte"
    BY <1>1, <1>2, <2>4 DEF Compare
  <2>5. CASE o = "eq"
    BY <1>1, <1>2, <2>5 DEF Compare
  <2>6. CASE o = "neq"
    BY <1>1, <1>2, <2>6 DEF Compare
  <2>7. CASE o = "ne"
    BY <1>1, <1>2, <2>7 DEF Compare
  <2> QED
    BY <1>1, <2>1, <2>2, <2>3, <2>4, <2>5, <2>6, <2>7
<1>4. o = "ne" => (Crosses(c, v) <=> v # t)
  BY <1>1, <1>2
<1>5. EvaluateThreshold(c, v) <=> c.type = "threshold" /\ Compare(o, v, t)
  BY DEF EvaluateThreshold, o, t
<1>6. ASSUME NEW metric, metric.value = v
      PROVE  EvaluateRule(c, metric) <=>
                c.metric = metric.metric /\ ((o # "neq" /\ Compare(o, v, t)) \/ (o = "ne" /\ v # t))
  BY <1>6 DEF EvaluateRule, o, t
<1>7. c.operator = o
  BY DEF o
<1> QED
  BY <1>3, <1>4, <1>5, <1>6, <1>7

\* A job triggers a rule for a value that concerns it and crosses.
LEMMA TriggeredIsJustified ==
    ASSUME TypeOK, RulesRead, NEW j \in Job, Triggered(j)
    PROVE  LET condition == Head(todo[j]).row.content.condition
           IN  Concerns(j, condition, sample[j].metric) /\ Crosses(condition, sample[j].value)
<1> DEFINE row == Head(todo[j]).row
           c == row.content.condition
<1>1. /\ Head(todo[j]) \in Snapshot /\ Head(todo[j]) \in Range(todo[j]) /\ sample[j] \in Sample
  BY FirstAndRest DEF Triggered, Range
<1>2. c \in Condition /\ sample[j].value \in Nat
  BY <1>1 DEF Snapshot, RuleRow, Content, Sample
<1>3. j \in Evaluators => c.type = "metric_threshold"
  BY <1>1 DEF RulesRead, ReadOf
<1>4. /\ j \in Evaluators => EvaluateRule(c, sample[j])
      /\ j \notin Evaluators => EvaluateThreshold(c, sample[j].value)
  BY DEF Triggered
<1> HIDE DEF row
<1>5. CASE j \in Evaluators
  <2>1. c.metric = sample[j].metric /\ c.operator # "neq" /\ Crosses(c, sample[j].value)
    BY <1>2, <1>4, <1>5, ComparisonsAreExact
  <2> QED
    BY <1>3, <1>5, <2>1 DEF Concerns, row
<1>6. CASE j \notin Evaluators
  <2>1. c.type = "threshold" /\ c.operator # "ne" /\ Crosses(c, sample[j].value)
    BY <1>2, <1>4, <1>6, ComparisonsAreExact
  <2> QED
    BY <1>6, <2>1 DEF Concerns, row
<1> QED
  BY <1>5, <1>6

LEMMA AlertsJustifiedStep ==
    ASSUME TypeOK, TypeOK', Next, RulesRead, ValuesAreLast, AlertsHaveJobs, AlertsAreJustified
    PROVE  AlertsHaveJobs' /\ AlertsAreJustified'
<1> DEFINE Good(a, s) ==
              /\ Concerns(a.job, a.content.condition, a.sample.metric)
              /\ Crosses(a.content.condition, a.sample.value)
              /\ \E k \in DOMAIN s : /\ s[k] = a.sample
                                     /\ \A n \in k + 1 .. Len(s) : s[n].metric # a.sample.metric
<1> SUFFICES ASSUME NEW i \in DOMAIN alerts'
             PROVE  pc'[alerts'[i].job] # "idle" /\ Good(alerts'[i], batch'[alerts'[i].job])
  BY DEF AlertsHaveJobs, AlertsAreJustified, Concerns, Crosses
<1>1. CASE i \in DOMAIN alerts
  <2>1. PICK j \in Job : j = alerts[i].job
    BY <1>1, AlertRows DEF AlertRow
  <2>2. pc[j] # "idle" /\ Good(alerts[i], batch[j])
    BY <1>1, <2>1 DEF AlertsHaveJobs, AlertsAreJustified
  <2>3. pc'[j] # "idle" /\ batch'[j] = batch[j]
    BY <2>2, BatchesKept
  <2>4. /\ alerts'[i].job = j /\ alerts'[i].content = alerts[i].content
        /\ alerts'[i].sample = alerts[i].sample
    BY <1>1, <2>1, AlertsGrow
  <2> QED
    BY <2>1, <2>2, <2>3, <2>4
<1>2. CASE i \notin DOMAIN alerts
  <2>1. PICK j \in Job : AlertStored(j) /\ alerts'[i] = Alert(j)
    BY <1>2, AlertsGrow
  <2>2. pc[j] = "evaluating" /\ todo[j] # <<>> /\ Triggered(j)
    BY <2>1 DEF AlertStored, Triggered
  <2>3. pc'[j] # "idle" /\ batch'[j] = batch[j]
    BY <2>2, BatchesKept
  <2>4. /\ Alert(j).job = j /\ Alert(j).sample = sample[j]
        /\ Alert(j).content = Head(todo[j]).row.content
    BY DEF Alert
  <2>5. /\ Concerns(j, Alert(j).content.condition, sample[j].metric)
        /\ Crosses(Alert(j).content.condition, sample[j].value)
    BY <2>2, <2>4, TriggeredIsJustified
  <2>6. \E k \in DOMAIN batch[j] : batch[j][k] = sample[j] /\ LastOf(batch[j], sample[j].metric, k)
    BY <2>2 DEF ValuesAreLast
  <2>7. Good(Alert(j), batch[j])
    BY <2>4, <2>5, <2>6 DEF LastOf
  <2> QED
    BY <2>1, <2>3, <2>4, <2>7
<1> QED
  BY <1>1, <1>2

------------------------------------------------------------------------------------
(* No rule is forgotten.                                                              *)

\* The rules that nobody edits keep their content.
LEMMA SteadyContent ==
    ASSUME TypeOK, Next, SteadyStored, NEW j \in Job, NEW r \in steady[j], r \in steady'[j]
    PROVE  r \in Rule /\ rules'[r].content = rules[r].content /\ touches[r] \subseteq touches'[r]
<1>1. r \in Rule /\ Stored(r)
  BY DEF SteadyStored, TypeOK, RequestsOK
<1>2. ~ RuleCreated(r) /\ ~ RuleEdited(r) /\ ~ RuleDeleted(r)
  BY <1>1 DEF RuleCreated, RuleEdited, RuleDeleted, Stored
<1>3. RuleTouched(r) => rules'[r].content = rules[r].content
  BY DEF RuleTouched
<1>4. RuleStays(r) => rules'[r].content = rules[r].content
  BY DEF RuleStays
<1> QED
  BY <1>1, <1>2, <1>3, <1>4, RuleMoves, RowsAfter

\* Hence what they ask for, and whether it was answered.
LEMMA CallsKept ==
    ASSUME TypeOK, Next, SteadyStored, NEW j \in Job, NEW r \in steady[j], r \in steady'[j],
           batch'[j] = batch[j], since'[j] = since[j]
    PROVE  /\ \A m : Calls(j, r, m)' => Calls(j, r, m)
           /\ Answered(j, r) => Answered(j, r)'
<1>1. rules'[r].content = rules[r].content /\ touches[r] \subseteq touches'[r]
  BY SteadyContent
<1>2. \A m : Calls(j, r, m)' => Calls(j, r, m)
  <2> SUFFICES ASSUME NEW m, Calls(j, r, m)' PROVE Calls(j, r, m)
    OBVIOUS
  <2>1. rules'[r].content.enabled /\ Concerns(j, rules'[r].content.condition, m)
    BY DEF Calls, Concerns
  <2>2. PICK i \in DOMAIN batch'[j] :
           LastOf(batch'[j], m, i) /\ Crosses(rules'[r].content.condition, batch'[j][i].value)
    BY DEF Calls, LastOf, Crosses
  <2> QED
    BY <1>1, <2>1, <2>2 DEF Calls
<1>3. Answered(j, r) => Answered(j, r)'
  BY <1>1 DEF Answered
<1> QED
  BY <1>2, <1>3

\* A triggering that kept the rule from triggering again is recent enough.
LEMMA CooldownAnswers ==
    ASSUME TypeOK, SteadyStored, NEW j \in Job, NEW r \in steady[j], NEW t \in touches[r],
           \/ t + rules[r].content.cooldown > now
           \/ j \in Evaluators /\ ~ (t + rules[r].content.cooldown < now)
    PROVE  Answered(j, r)
<1>1. r \in Rule /\ Stored(r) /\ since[j] <= now /\ since[j] \in Nat /\ now \in Nat
  BY DEF SteadyStored, TypeOK, RequestsOK, TablesOK, Time
<1>2. rules[r] \in RuleRow /\ t \in Nat
  BY <1>1, StoredRows
<1>3. rules[r].content.cooldown \in Int
  BY <1>2, ContentFields DEF RuleRow
<1>4. PICK c \in Int : c = rules[r].content.cooldown
  BY <1>3
<1>5. \/ t + c > since[j]
      \/ j \in Evaluators /\ t + c = since[j]
  BY <1>1, <1>2, <1>4
<1> QED
  BY <1>4, <1>5 DEF Answered

\* A rule that a reading leaves out though it asks for an alert has triggered of late.
LEMMA ReadFindsCallers ==
    ASSUME TypeOK, TouchesRecorded, SteadyStored, NEW j \in Job, NEW r \in steady[j], NEW m,
           Calls(j, r, m), r \notin Wanted(j, m)
    PROVE  Answered(j, r)
<1>1. r \in Rule /\ Stored(r)
  BY DEF SteadyStored, TypeOK, RequestsOK
<1>2. rules[r].content.enabled /\ Concerns(j, rules[r].content.condition, m)
  BY DEF Calls
<1>3. j \in Evaluators
  BY <1>1, <1>2 DEF Wanted, EnabledRules
<1>4. /\ rules[r].content.condition.type = "metric_threshold"
      /\ rules[r].content.condition.metric = m
  BY <1>2, <1>3 DEF Concerns
<1> DEFINE t == rules[r].lastTriggered
<1>5. t # Never /\ ~ (t + rules[r].content.cooldown < now)
  BY <1>1, <1>2, <1>3, <1>4 DEF Wanted, DueFor
<1>6. t \in touches[r]
  BY <1>1, <1>5 DEF TouchesRecorded, LatestOf
<1> HIDE DEF t
<1> QED
  BY <1>3, <1>5, <1>6, CooldownAnswers

\* A rule that is skipped though it asks for an alert has triggered of late.
LEMMA SkippedIsAnswered ==
    ASSUME TypeOK, RulesRead, SteadyStored, ValuesAreLast, NEW j \in Job, NEW r \in steady[j],
           pc[j] = "evaluating", todo[j] # <<>>, ~ Triggered(j),
           Head(todo[j]).rule = r, Calls(j, r, sample[j].metric)
    PROVE  Answered(j, r)
<1> DEFINE row == Head(todo[j]).row
           m == sample[j].metric
           c == rules[r].content.condition
<1>1. Head(todo[j]) \in Snapshot /\ Head(todo[j]) \in Range(todo[j]) /\ sample[j] \in Sample
  BY FirstAndRest DEF Range
<1>2. ReadOf(j, Head(todo[j])) /\ row \in RuleRow /\ r \in Rule
  BY <1>1 DEF RulesRead, Snapshot
<1>3. row.content = rules[r].content
  BY <1>2 DEF ReadOf
<1>4. /\ row.lastTriggered # Never => row.lastTriggered \in touches[r]
      /\ touches[r] \subseteq Nat /\ now \in Nat
  BY <1>2, StoredRows DEF ReadOf, LatestOf
<1>5. rules[r].content.enabled /\ Concerns(j, c, m)
  BY DEF Calls
<1>6. PICK i \in DOMAIN batch[j] : LastOf(batch[j], m, i) /\ Crosses(c, batch[j][i].value)
  BY DEF Calls
<1>7. PICK k \in DOMAIN batch[j] : batch[j][k] = sample[j] /\ LastOf(batch[j], m, k)
  BY DEF ValuesAreLast
<1>8. i = k
  BY <1>6, <1>7, LastIsUnique DEF TypeOK, RequestsOK
<1>9. Crosses(c, sample[j].value)
  BY <1>6, <1>7, <1>8
<1>10. c \in Condition /\ sample[j].value \in Nat /\ rules[r].content.cooldown \in Int
  BY <1>1, <1>2, <1>3, ContentFields DEF RuleRow, Sample
<1>11. j \notin Evaluators /\ EvaluateThreshold(row.content.condition, sample[j].value)
  <2>1. CASE j \in Evaluators
    <3>1. c.metric = m /\ c.operator # "neq"
      BY <1>5, <2>1 DEF Concerns
    <3>2. EvaluateRule(c, sample[j])
      BY <1>9, <1>10, <3>1, ComparisonsAreExact
    <3> QED
      BY <1>3, <2>1, <3>2 DEF Triggered
  <2>2. CASE j \notin Evaluators
    <3>1. c.type = "threshold" /\ c.operator # "ne"
      BY <1>5, <2>2 DEF Concerns
    <3>2. EvaluateThreshold(c, sample[j].value)
      BY <1>9, <1>10, <3>1, ComparisonsAreExact
    <3> QED
      BY <1>3, <2>2, <3>2
  <2> QED
    BY <2>1, <2>2
<1>12. ~ CanTrigger(row)
  BY <1>11 DEF Triggered
<1> HIDE DEF row, c, m
<1>13. /\ row.lastTriggered # Never
       /\ ~ (now - row.lastTriggered >= rules[r].content.cooldown)
  BY <1>3, <1>5, <1>12 DEF CanTrigger
<1>14. row.lastTriggered \in touches[r] /\ row.lastTriggered + rules[r].content.cooldown > now
  BY <1>4, <1>10, <1>13
<1> QED
  BY <1>14, CooldownAnswers

\* The steps of a job itself.
LEMMA EvaluateForgetsNothing ==
    ASSUME TypeOK, TypeOK', Next, TouchesRecorded, RulesRead, SteadyStored, ValuesAreLast,
           NEW j \in Job, Evaluate(j), clean'[j], pc'[j] \in {"evaluating", "touch", "done"},
           NEW r \in steady[j], r \in steady'[j], NEW m,
           Calls(j, r, m), Answered(j, r) \/ Ahead(j, r, m), ~ Answered(j, r)'
    PROVE  Ahead(j, r, m)'
<1>1. /\ DOMAIN pc = Job /\ DOMAIN left = Job /\ DOMAIN sample = Job /\ DOMAIN todo = Job
      /\ DOMAIN clean = Job
  BY DEF TypeOK, LocalsOK, RequestsOK
<1>2. ~ Answered(j, r) /\ Ahead(j, r, m)
  BY CallsKept, EvaluateKeeps
<1>3. r \in Rule /\ Stored(r)
  BY DEF SteadyStored, TypeOK, RequestsOK
<1>4. ASSUME pc'[j] \in {"evaluating", "touch"}, left' = left, sample' = sample,
             \/ todo'[j] = todo[j]
             \/ todo[j] # <<>> /\ todo'[j] = Tail(todo[j]) /\ ~ (Head(todo[j]).rule = r /\ sample[j].metric = m)
      PROVE  Ahead(j, r, m)'
  <2>1. CASE m \in DOMAIN left[j]
    BY <1>4, <2>1 DEF Ahead
  <2>2. CASE m \notin DOMAIN left[j]
    <3>1. PICK i \in DOMAIN todo[j] : todo[j][i].rule = r
      BY <1>2, <2>2 DEF Ahead
    <3>2. sample[j].metric = m
      BY <1>2, <2>2 DEF Ahead
    <3>3. CASE todo'[j] = todo[j]
      BY <1>4, <3>1, <3>2, <3>3 DEF Ahead
    <3>4. CASE /\ todo[j] # <<>> /\ todo'[j] = Tail(todo[j])
               /\ ~ (Head(todo[j]).rule = r /\ sample[j].metric = m)
      <4>1. i # 1
        BY <3>1, <3>2, <3>4, FirstAndRest
      <4>2. i - 1 \in DOMAIN Tail(todo[j]) /\ Tail(todo[j])[i - 1] = todo[j][i]
        BY <3>1, <3>4, <4>1, FirstAndRest
      <4>3. \E k \in DOMAIN todo'[j] : todo'[j][k].rule = r
        BY <3>1, <3>4, <4>2
      <4> QED
        BY <1>4, <3>2, <4>3 DEF Ahead
    <3> QED
      BY <1>4, <3>3, <3>4
  <2> QED
    BY <2>1, <2>2
<1>5. CASE Read(j)
  <2>1. PICK n \in Metric :
           /\ NextName(j, n)
           /\ sample' = [sample EXCEPT ![j] = [metric |-> n, value |-> left[j][n]]]
           /\ \E read \in RulesFor(j, n) : todo' = [todo EXCEPT ![j] = read]
    BY <1>5 DEF Read
  <2>2. todo[j] = <<>> /\ left'[j] = [x \in DOMAIN left[j] \ {n} |-> left[j][x]] /\ pc' = pc
    BY <1>1, <1>5, <2>1 DEF NextName, Read
  <2>3. m \in DOMAIN left[j]
    BY <1>2, <2>2 DEF Ahead
  <2>4. CASE m # n
    BY <1>2, <2>2, <2>3, <2>4 DEF Ahead
  <2>5. CASE m = n
    <3>1. PICK read \in RulesFor(j, n) : todo'[j] = read
      BY <1>1, <2>1
    <3>2. r \in Wanted(j, n)
      BY <1>2, <2>5, ReadFindsCallers
    <3>3. \E i \in DOMAIN todo'[j] : todo'[j][i].rule = r
      BY <3>1, <3>2, RulesReturned
    <3>4. sample'[j].metric = m
      BY <1>1, <2>1, <2>5
    <3> QED
      BY <1>2, <2>2, <3>3, <3>4 DEF Ahead
  <2> QED
    BY <2>4, <2>5
<1>6. CASE Skip(j)
  <2>1. /\ pc[j] = "evaluating" /\ todo[j] # <<>> /\ ~ Triggered(j)
        /\ todo'[j] = Tail(todo[j]) /\ pc' = pc /\ left' = left /\ sample' = sample
    BY <1>1, <1>6 DEF Skip, NextRule
  <2>2. ~ (Head(todo[j]).rule = r /\ sample[j].metric = m)
    BY <1>2, <2>1, SkippedIsAnswered
  <2> QED
    BY <1>4, <2>1, <2>2
<1>7. CASE Insert(j)
  BY <1>1, <1>4, <1>7 DEF Insert
<1>8. CASE InsertFails(j)
  <2>1. /\ pc[j] = "evaluating" /\ todo[j] # <<>>
        /\ todo'[j] = Tail(todo[j]) /\ pc' = pc /\ left' = left /\ sample' = sample
    BY <1>1, <1>8 DEF InsertFails, NextRule, Triggered
  <2>2. ~ Stored(Head(todo[j]).rule)
    BY <1>1, <1>8 DEF InsertFails
  <2> QED
    BY <1>3, <1>4, <2>1, <2>2
<1>9. CASE Touch(j)
  <2>1. pc[j] = "touch" /\ TriggerWorkflow(j) /\ left' = left /\ sample' = sample
    BY <1>9 DEF Touch
  <2>2. /\ todo[j] # <<>> /\ todo'[j] = Tail(todo[j]) /\ pc'[j] = "evaluating"
    BY <1>1, <2>1 DEF TriggerWorkflow, Die, InFlight, NextRule, TypeOK, JobOK
  <2>3. Head(todo[j]).rule # r
    <3> SUFFICES ASSUME Head(todo[j]).rule = r PROVE FALSE
      OBVIOUS
    <3>1. SetLastTriggered(r)
      BY <1>9 DEF Touch
    <3>2. touches'[r] = touches[r] \cup {now}
      BY <1>3, <3>1, SetLastTriggeredType DEF TypeOK
    <3>3. since'[j] = since[j] /\ since[j] <= now /\ now \in Nat /\ since[j] \in Nat
      BY <1>9 DEF Touch, SteadyStored, TypeOK, RequestsOK, TablesOK, Time
    <3>4. now \in touches'[r] /\ now >= since'[j]
      BY <3>2, <3>3
    <3>5. \E t \in touches'[r] : t >= since'[j]
      BY <3>4
    <3>6. Answered(j, r)'
      BY <3>5 DEF Answered
    <3> QED
      BY <3>6
  <2> QED
    BY <1>4, <2>1, <2>2, <2>3
<1>10. CASE ReadFails(j) \/ TouchFails(j)
  BY <1>1, <1>10 DEF ReadFails, TouchFails
<1>11. CASE Finish(j)
  BY <1>2, <1>11 DEF Finish, Ahead
<1> QED
  BY <1>5, <1>6, <1>7, <1>8, <1>9, <1>10, <1>11 DEF Evaluate

LEMMA NothingForgottenStep ==
    ASSUME TypeOK, TypeOK', Next, TouchesRecorded, RulesRead, SteadyStored, ValuesAreLast,
           NothingForgotten
    PROVE  NothingForgotten'
<1> SUFFICES ASSUME NEW j \in Job, clean'[j], pc'[j] \in {"evaluating", "touch", "done"},
                    NEW r \in steady'[j], NEW m \in NamesOf(batch[j])', Calls(j, r, m)'
             PROVE  Answered(j, r)' \/ Ahead(j, r, m)'
  BY DEF NothingForgotten
<1>1. ASSUME batch'[j] = batch[j], since'[j] = since[j], r \in steady[j], clean[j],
             pc[j] \in {"evaluating", "touch", "done"}
      PROVE  /\ Calls(j, r, m)
             /\ Answered(j, r) \/ Ahead(j, r, m)
             /\ Answered(j, r) => Answered(j, r)'
  <2>1. Calls(j, r, m) /\ (Answered(j, r) => Answered(j, r)')
    BY <1>1, CallsKept
  <2>2. m \in NamesOf(batch[j])
    BY <1>1 DEF NamesOf
  <2> QED
    BY <1>1, <2>1, <2>2 DEF NothingForgotten
<1>2. CASE JobStays(j)
  <2>1. Answered(j, r)' \/ Ahead(j, r, m)
    BY <1>1, <1>2 DEF JobStays
  <2>2. Ahead(j, r, m) => Ahead(j, r, m)'
    BY <1>2 DEF JobStays, Ahead
  <2> QED
    BY <2>1, <2>2
<1>3. CASE JobLost(j)
  BY <1>3 DEF JobLost
<1>4. ASSUME NEW samples \in Seq(Sample), Begin(j, samples)
      PROVE  Ahead(j, r, m)'
  <2>1. left'[j] = LastValues(samples) /\ batch'[j] = samples /\ pc'[j] = "evaluating"
    BY <1>4 DEF Begin, TypeOK, LocalsOK, RequestsOK
  <2>2. m \in DOMAIN left'[j]
    BY <2>1 DEF LastValues, NamesOf
  <2> QED
    BY <2>1, <2>2 DEF Ahead
<1>5. CASE Evaluate(j)
  <2>1. clean[j] /\ pc[j] \in {"evaluating", "touch", "done"}
    BY <1>5 DEF Evaluate, Read, ReadFails, NextName, Skip, Insert, InsertFails, Triggered, Touch,
                TouchFails, Finish, history, TypeOK, RequestsOK
  <2>2. batch'[j] = batch[j] /\ since'[j] = since[j] /\ r \in steady[j]
    BY <1>5, EvaluateKeeps
  <2> QED
    BY <1>1, <1>5, <2>1, <2>2, EvaluateForgetsNothing
<1> QED
  BY <1>2, <1>3, <1>4, <1>5, JobMoves

------------------------------------------------------------------------------------
(* The theorems.                                                                      *)

LEMMA InvHoldsAtFirst ==
    ASSUME Init
    PROVE  Inv
<1> USE DEF Init
<1>1. TypeOK
  BY InitTypes
<1>2. TouchesRecorded
  <2> SUFFICES ASSUME NEW r \in Rule
               PROVE  Stored(r) => LatestOf(touches[r], rules[r].lastTriggered)
    BY DEF TouchesRecorded
  <2>1. Stored(r) => rules[r].lastTriggered = Never
    BY DEF Stored
  <2> QED
    BY <2>1 DEF LatestOf
<1>3. RulesRead
  BY DEF RulesRead, Range
<1>4. SteadyStored /\ TouchIsBacked /\ ValuesAreLast /\ NothingForgotten
  BY DEF SteadyStored, TouchIsBacked, ValuesAreLast, NothingForgotten
<1>5. SilencedByAlert
  <2>1. \A r \in Rule : Stored(r) => rules[r].lastTriggered = Never
    BY DEF Stored
  <2> QED
    BY <2>1 DEF SilencedByAlert
<1>6. CooldownAfterKnownTriggers /\ AlertsHaveJobs /\ AlertsAreJustified
  BY DEF CooldownAfterKnownTriggers, AlertsHaveJobs, AlertsAreJustified
<1> QED
  BY <1>1, <1>2, <1>3, <1>4, <1>5, <1>6 DEF Inv

LEMMA InvStutters ==
    ASSUME Inv, UNCHANGED vars
    PROVE  Inv'
<1> USE DEF vars
<1>1. TypeOK'
  BY StepTypes DEF Inv
<1>2. TouchesRecorded' /\ RulesRead' /\ SteadyStored'
  BY DEF Inv, TouchesRecorded, LatestOf, RulesRead, Range, ReadOf, SteadyStored, Stored
<1>3. TouchIsBacked' /\ SilencedByAlert' /\ CooldownAfterKnownTriggers'
  BY DEF Inv, TouchIsBacked, Alerted, SilencedByAlert, CooldownAfterKnownTriggers, Stored
<1>4. ValuesAreLast' /\ AlertsHaveJobs' /\ AlertsAreJustified'
  BY DEF Inv, ValuesAreLast, LastOf, AlertsHaveJobs, AlertsAreJustified, Concerns, Crosses
<1>5. NothingForgotten'
  <2>1. \A j, r, m : /\ Calls(j, r, m)' <=> Calls(j, r, m)
                     /\ Ahead(j, r, m)' <=> Ahead(j, r, m)
    BY DEF Calls, LastOf, Concerns, Crosses, Ahead
  <2>2. \A j, r : Answered(j, r)' <=> Answered(j, r)
    BY DEF Answered
  <2>3. \A j : NamesOf(batch[j])' = NamesOf(batch[j])
    BY DEF NamesOf
  <2> QED
    BY <2>1, <2>2, <2>3 DEF Inv, NothingForgotten
<1> QED
  BY <1>1, <1>2, <1>3, <1>4, <1>5 DEF Inv

\* The inductive invariant of the evaluation.
THEOREM InvCorrect == Spec => []Inv
<1>1. Init => Inv
  BY InvHoldsAtFirst
<1>2. Inv /\ [Next]_vars => Inv'
  <2> SUFFICES ASSUME Inv, [Next]_vars PROVE Inv'
    OBVIOUS
  <2>1. TypeOK'
    BY StepTypes DEF Inv
  <2>2. CASE Next
    BY <2>1, <2>2, TouchesStep, RulesReadStep, SteadyStep, TouchIsBackedStep, SilencedStep,
       CooldownStep, ValuesStep, AlertsJustifiedStep, NothingForgottenStep DEF Inv
  <2>3. CASE UNCHANGED vars
    BY <2>3, InvStutters
  <2> QED
    BY <2>2, <2>3
<1> QED
  BY <1>1, <1>2, PTL DEF Spec

\* Evaluate and EvaluateMetric: an alert keeps the cooldown of its rule after every
\* triggering recorded when its job read the rules, whatever edits, other jobs and
\* restarts come between the reading and the INSERT: the cooldown that the last body asked
\* for if that is an int32 and not negative, and for any integer what int32() made of it.
THEOREM CooldownIsKept == Spec => []CooldownAfterKnownTriggers
<1>1. Inv => CooldownAfterKnownTriggers
  BY DEF Inv
<1> QED
  BY <1>1, InvCorrect, PTL

\* UpdateLastTriggered: whoever finds a rule within its cooldown finds an alert of it too,
\* though the two are written in two statements, and either may fail.
THEOREM RulesAreSilencedByAlerts == Spec => []SilencedByAlert
<1>1. Inv => SilencedByAlert
  BY DEF Inv
<1> QED
  BY <1>1, InvCorrect, PTL

\* evaluateAlerts, evaluateBatchAlerts and EvaluateMetric: an evaluation that comes to its
\* end without an error has answered every rule that nobody edited meanwhile, and every
\* alert is about the last value of a name of its request and on the right side of the
\* threshold.
THEOREM EvaluationsAreExact == Spec => []EvaluationIsExact
<1>1. Inv => NothingMissed
  <2> SUFFICES ASSUME Inv, NEW j \in Job, pc[j] = "done", clean[j], NEW r \in steady[j],
                      NEW m \in DOMAIN LastValues(batch[j]),
                      rules[r].content.enabled, Concerns(j, rules[r].content.condition, m),
                      \E i \in DOMAIN batch[j] :
                         /\ batch[j][i].metric = m
                         /\ \A k \in i + 1 .. Len(batch[j]) : batch[j][k].metric # m
                         /\ Crosses(rules[r].content.condition, batch[j][i].value)
               PROVE  Answered(j, r)
    BY DEF NothingMissed, Answered
  <2>1. Calls(j, r, m)
    BY DEF Calls, LastOf
  <2>2. m \in NamesOf(batch[j])
    BY DEF LastValues
  <2>3. ~ Ahead(j, r, m)
    BY DEF Ahead
  <2> QED
    BY <2>1, <2>2, <2>3 DEF Inv, NothingForgotten
<1>2. Inv => AlertsAreJustified
  BY DEF Inv
<1>3. Inv => EvaluationIsExact
  BY <1>1, <1>2 DEF EvaluationIsExact
<1> QED
  BY <1>3, InvCorrect, PTL

====================================================================================
