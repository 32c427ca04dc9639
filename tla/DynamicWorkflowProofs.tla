--------------------------- MODULE DynamicWorkflowProofs ---------------------------
(* Theorems about DynamicWorkflow, for any set of definitions: any number of steps *)
(* and handlers, any ids, any retry policies and an int32 of any width.            *)
EXTENDS DynamicWorkflow, SequenceTheorems, TLAPS

-----------------------------------------------------------------------------------
(* Types. *)

\* A definition that was parsed has typed steps and handlers, and so has the loop.
LEMMA StepsType ==
    ASSUME TypeOK, def # Invalid
    PROVE  /\ def \in Definition
           /\ def.steps \in Seq(Step) /\ def.onSuccess \in Seq(Step) /\ def.onError \in Seq(Step)
           /\ Steps \in Seq(Step) /\ Len(Steps) \in Nat /\ Len(def.steps) \in Nat
<1>1. def \in Definition
  BY DEF TypeOK
<1>2. def.steps \in Seq(Step) /\ def.onSuccess \in Seq(Step) /\ def.onError \in Seq(Step)
  BY <1>1 DEF Definition
<1>3. Steps \in Seq(Step)
  BY <1>2 DEF Steps, Loop
<1> QED
  BY <1>1, <1>2, <1>3, LenProperties

\* Naming the steps keeps their number, their order and all but their ids.
LEMMA WithIDsType ==
    ASSUME NEW steps \in Seq(Step) \ {<<>>}
    PROVE  /\ WithIDs(steps) \in Seq(Step) \ {<<>>}
           /\ Len(WithIDs(steps)) = Len(steps)
<1>1. Len(steps) \in Nat /\ DOMAIN steps = 1 .. Len(steps) /\ steps # <<>>
  BY LenProperties
<1>2. ASSUME NEW n \in DOMAIN steps
      PROVE  (IF steps[n].id = NoID THEN [steps[n] EXCEPT !.id = StepName(n)] ELSE steps[n])
                \in Step
  <2>1. steps[n] \in Step /\ n \in Nat
    BY <1>1, <1>2, ElementOfSeq
  <2>2. StepName(n) \in Name
    BY <2>1 DEF StepName, Name
  <2> QED
    BY <2>1, <2>2 DEF Step
<1>3. WithIDs(steps) \in [1 .. Len(steps) -> Step]
  BY <1>1, <1>2 DEF WithIDs
<1>4. WithIDs(steps) \in Seq(Step) /\ Len(WithIDs(steps)) = Len(steps)
  BY <1>1, <1>3
<1>5. Len(steps) # 0
  BY <1>1, EmptySeq
<1> QED
  BY <1>4, <1>5, EmptySeq

\* What Store adds to stepOutputs, and what it leaves.
LEMMA StoreKeys ==
    ASSUME NEW i \in Nat
    PROVE  /\ DOMAIN Store(i) = DOMAIN outputs \cup {def.steps[i + 1].id, Alias(i)}
           /\ Store(i)[def.steps[i + 1].id] = i
           /\ Store(i)[Alias(i)] = i
           /\ \A key \in DOMAIN outputs \ {def.steps[i + 1].id, Alias(i)} :
                 Store(i)[key] = outputs[key]
BY DEF Store

\* The sequence of results with one more.
LEMMA AppendResult ==
    ASSUME results \in Seq(BOOLEAN), NEW b \in BOOLEAN, results' = Append(results, b)
    PROVE  /\ results' \in Seq(BOOLEAN)
           /\ Len(results) \in Nat /\ Len(results') = Len(results) + 1
           /\ \A i \in 0 .. Len(results) - 1 : results'[i + 1] = results[i + 1]
           /\ results'[Len(results) + 1] = b
           /\ results' # <<>>
<1>1. Len(results) \in Nat
  BY LenProperties
<1>2. /\ results' \in Seq(BOOLEAN) /\ Len(results') = Len(results) + 1
      /\ \A i \in 1 .. Len(results) : results'[i] = results[i]
      /\ results'[Len(results) + 1] = b
  BY AppendProperties
<1>3. \A i \in 0 .. Len(results) - 1 : i + 1 \in 1 .. Len(results)
  BY <1>1
<1>4. results' # <<>>
  BY <1>1, <1>2, EmptySeq
<1> QED
  BY <1>1, <1>2, <1>3, <1>4

LEMMA TypeInit == Init => TypeOK
<1> SUFFICES ASSUME Init PROVE TypeOK
  OBVIOUS
<1>1. <<>> \in Seq(BOOLEAN)
  BY EmptySeq
<1>2. InputKey \in Name
  BY DEF Name
<1> QED
  BY <1>1, <1>2, DefinitionsAssumption DEF Init, TypeOK

\* Positions a step may be stored under or marked with.
LoopTypes == {"steps", "onSuccess", "onError"}

\* The loop variable, the activity and the marks have their types after any step.
LEMMA CountersType ==
    ASSUME TypeOK, Next
    PROVE  /\ phase' \in {"parse", "steps", "handlers", "done"}
           /\ pos' \in Nat
           /\ activity' \in {"none", "scheduled", "running"}
           /\ attempt' \in Nat
           /\ status' \in {"", "completed", "failed"}
           /\ cancelled' \in BOOLEAN
<1>a. pos \in Nat /\ attempt \in Nat
  BY DEF TypeOK
<1>b. pos + 1 \in Nat /\ attempt + 1 \in Nat
  BY <1>a
<1>0. /\ phase \in {"parse", "steps", "handlers", "done"}
      /\ pos \in Nat
      /\ activity \in {"none", "scheduled", "running"}
      /\ attempt \in Nat
      /\ status \in {"", "completed", "failed"}
      /\ cancelled \in BOOLEAN
      /\ pos + 1 \in Nat /\ attempt + 1 \in Nat 
  BY <1>a, <1>b DEF TypeOK
<1>1. CASE Parse
  BY <1>0, <1>1 DEF Parse
<1>2. CASE Schedule
  BY <1>0, <1>2 DEF Schedule
<1>3. CASE BeginAttempt
  BY <1>0, <1>3 DEF BeginAttempt
<1>4. CASE Retry
  BY <1>0, <1>4 DEF Retry
<1>5. CASE Cancel
  BY <1>0, <1>5 DEF Cancel
<1>6. CASE StepSucceeds
  BY <1>0, <1>6 DEF StepSucceeds
<1>7. CASE StepFailsTolerated
  BY <1>0, <1>7 DEF StepFailsTolerated
<1>8. CASE StepFails
  BY <1>0, <1>8 DEF StepFails
<1>9. CASE StepsDone
  BY <1>0, <1>9 DEF StepsDone
<1>10. CASE HandlerEnds
  BY <1>0, <1>10 DEF HandlerEnds
<1>11. CASE Return
  BY <1>0, <1>11 DEF Return
<1> QED
  BY <1>1, <1>2, <1>3, <1>4, <1>5, <1>6, <1>7, <1>8, <1>9, <1>10, <1>11 DEF Next, Workflow

\* Names of loops with positions.
LEMMA MarksType ==
    ASSUME TypeOK, Next
    PROVE  /\ ran' \subseteq LoopTypes \X Nat
           /\ uninformed' \subseteq LoopTypes \X Nat
<1>1. ran \subseteq LoopTypes \X Nat /\ uninformed \subseteq LoopTypes \X Nat /\ pos \in Nat
  BY DEF TypeOK, LoopTypes
<1>2. <<Loop, pos>> \in LoopTypes \X Nat
  BY <1>1 DEF Loop, LoopTypes
<1>3. ran' \subseteq ran \cup {<<Loop, pos>>} /\ uninformed' \subseteq uninformed \cup {<<Loop, pos>>}
  BY DEF Next, Workflow, Parse, Schedule, BeginAttempt, Retry, Cancel, StepSucceeds,
         StepFailsTolerated, StepFails, StepsDone, HandlerEnds, Return
<1> QED
  BY <1>1, <1>2, <1>3

\* Parsing a definition keeps its handlers and the number of its steps.
LEMMA ParseType ==
    ASSUME TypeOK, Parse
    PROVE  /\ def = Invalid => def' = Invalid
           /\ def # Invalid => /\ def' \in Definition /\ def' # Invalid
                               /\ def'.onSuccess = def.onSuccess /\ def'.onError = def.onError
                               /\ def'.steps = WithIDs(def.steps)
<1>1. CASE def = Invalid
  BY <1>1 DEF Parse
<1>2. CASE def # Invalid
  <2>1. /\ def \in Definition /\ def.steps \in Seq(Step) \ {<<>>}
        /\ def.onSuccess \in Seq(Step) /\ def.onError \in Seq(Step)
    BY <1>2 DEF TypeOK, Definition
  <2>2. WithIDs(def.steps) \in Seq(Step) \ {<<>>}
    BY <2>1, WithIDsType
  <2>3. def' = [def EXCEPT !.steps = WithIDs(@)]
    BY <1>2 DEF Parse
  <2>4. def' \in Definition
    BY <2>1, <2>2, <2>3 DEF Definition
  <2>5. /\ def'.onSuccess = def.onSuccess /\ def'.onError = def.onError
        /\ def'.steps = WithIDs(def.steps)
    BY <2>1, <2>3 DEF Definition
  <2> QED
    BY <1>2, <2>4, <2>5, DefinitionsAssumption
<1> QED
  BY <1>1, <1>2

\* Only parsing changes the definition, and only the ends of steps the results: each
\* appends one.
LEMMA ResultsGrow ==
    ASSUME TypeOK, Next
    PROVE  /\ Parse \/ UNCHANGED def
           /\ \/ UNCHANGED results
              \/ StepSucceeds /\ results' = Append(results, TRUE)
              \/ (StepFailsTolerated \/ StepFails) /\ results' = Append(results, FALSE)
BY DEF Next, Workflow, Parse, Schedule, BeginAttempt, Retry, Cancel, StepSucceeds,
       StepFailsTolerated, StepFails, StepsDone, HandlerEnds, Return

-----------------------------------------------------------------------------------
(* Where the run is, and what it has then. *)

\* The loop variable counts the results while the steps run, and stays within the loop
\* it is of; an activity belongs to the step or handler it stands at.
Placed ==
    /\ phase = "parse" => /\ pos = 0 /\ activity = "none" /\ results = <<>> /\ status = ""
                          /\ ran = {} /\ uninformed = {}
    /\ phase \in {"steps", "handlers"} => def # Invalid
    /\ phase = "steps" => status = "" /\ pos = Len(results) /\ pos <= Len(def.steps)
    /\ phase = "handlers" => status # "" /\ pos <= Len(Steps)
    /\ phase = "done" => /\ status # "" /\ activity = "none"
                         /\ def # Invalid => pos = Len(Steps)
    /\ activity # "none" => InLoop /\ Current.kind = "activity"
    /\ def = Invalid => results = <<>> /\ ran = {} /\ uninformed = {}

\* After parsing every step has an id.
Named == phase # "parse" /\ def # Invalid => \A n \in DOMAIN def.steps : def.steps[n].id \in Name

\* The list that the loop goes through.
LEMMA LoopIs ==
    /\ phase = "steps" => Loop = "steps" /\ Steps = def.steps
    /\ phase # "steps" /\ status = "completed" => Loop = "onSuccess" /\ Steps = def.onSuccess
    /\ phase # "steps" /\ status # "completed" => Loop = "onError" /\ Steps = def.onError
BY DEF Loop, Steps

\* A step that stays in the phase, or leaves the handlers, keeps the list.
LEMMA SameLoop ==
    ASSUME UNCHANGED <<def, status>>, phase = "steps" <=> phase' = "steps"
    PROVE  Loop' = Loop /\ Steps' = Steps
BY DEF Loop, Steps

\* What the actions that only concern the activity leave alone.
LEMMA ActivityFrame ==
    ASSUME Schedule \/ BeginAttempt \/ Retry \/ Cancel
    PROVE  /\ UNCHANGED <<def, phase, pos, results, outputs, status>>
           /\ Loop' = Loop /\ Steps' = Steps /\ InLoop' = InLoop /\ Current' = Current
<1>1. UNCHANGED <<def, phase, pos, results, outputs, status>>
  BY DEF Schedule, BeginAttempt, Retry, Cancel
<1>2. Loop' = Loop /\ Steps' = Steps
  BY <1>1, SameLoop
<1> QED
  BY <1>1, <1>2 DEF InLoop, Current

LEMMA PlacedStep ==
    ASSUME TypeOK, Placed, Next
    PROVE  Placed'
<1>0. /\ phase \in {"parse", "steps", "handlers", "done"} /\ pos \in Nat
      /\ results \in Seq(BOOLEAN) /\ Len(results) \in Nat
  BY LenProperties DEF TypeOK
<1>1. CASE Parse
  <2>1. phase = "parse" /\ pos' = 0 /\ activity' = "none" /\ results' = <<>>
        /\ ran' = {} /\ uninformed' = {}
    BY <1>1 DEF Parse, Placed
  <2>2. CASE def = Invalid
    <3>1. def' = Invalid /\ phase' = "done" /\ status' = "failed"
      BY <1>1, <2>2 DEF Parse
    <3> QED
      BY <2>1, <3>1 DEF Placed
  <2>3. CASE def # Invalid
    <3>1. phase' = "steps" /\ status' = ""
      BY <1>1, <2>1, <2>3 DEF Parse, Placed
    <3>2. def' \in Definition /\ def' # Invalid
      BY <1>1, <2>3, ParseType
    <3>3. def'.steps \in Seq(Step)
      BY <3>2 DEF Definition
    <3>4. Len(def'.steps) \in Nat /\ Len(results') = 0
      BY <2>1, <3>3, LenProperties
    <3>5. pos' = Len(results') /\ pos' <= Len(def'.steps)
      BY <2>1, <3>4
    <3> QED
      BY <2>1, <3>1, <3>2, <3>5 DEF Placed
  <2> QED
    BY <2>2, <2>3
<1>2. CASE Schedule \/ BeginAttempt \/ Retry \/ Cancel
  <2>1. /\ UNCHANGED <<def, phase, pos, results, status>>
        /\ Steps' = Steps /\ InLoop' = InLoop /\ Current' = Current
    BY <1>2, ActivityFrame
  <2>2. activity' # "none" => InLoop /\ Current.kind = "activity"
    BY <1>2 DEF Schedule, BeginAttempt, Retry, Cancel, Placed
  <2>3. InLoop => phase \in {"steps", "handlers"}
    BY DEF InLoop
  <2>4. (UNCHANGED <<activity, ran, uninformed>>) \/ InLoop
    BY <1>2 DEF Schedule, BeginAttempt, Retry, Cancel, Placed
  <2> QED
    BY <2>1, <2>2, <2>3, <2>4 DEF Placed
<1>3. ASSUME phase = "steps", Error \/ Result
      PROVE  pos < Len(def.steps)
  BY <1>3, LoopIs DEF Error, Result, InLoop
<1>4. CASE StepSucceeds \/ StepFailsTolerated
  <2>1. /\ UNCHANGED <<def, phase, status>> /\ phase = "steps"
        /\ activity' = "none" /\ pos' = pos + 1 /\ pos < Len(def.steps)
        /\ \E b \in BOOLEAN : results' = Append(results, b)
    BY <1>3, <1>4 DEF StepSucceeds, StepFailsTolerated
  <2>2. def # Invalid /\ status = "" /\ pos = Len(results)
    BY <2>1 DEF Placed
  <2>3. Len(def.steps) \in Nat
    BY <2>2, StepsType
  <2>4. Len(results') = Len(results) + 1
    BY <1>0, <2>1, AppendResult
  <2>5. pos + 1 <= Len(def.steps)
    BY <1>0, <2>1, <2>3
  <2> QED
    BY <2>1, <2>2, <2>4, <2>5 DEF Placed
<1>5. CASE StepFails \/ StepsDone
  <2>1. /\ UNCHANGED def /\ phase = "steps" /\ phase' = "handlers" /\ pos' = 0
        /\ status' \in {"failed", "completed"}
    BY <1>5 DEF StepFails, StepsDone
  <2>2. def # Invalid /\ pos \in Nat
    BY <1>0, <2>1 DEF Placed
  <2>3. activity' = "none"
    <3>1. CASE StepFails
      BY <3>1 DEF StepFails
    <3>2. CASE StepsDone
      <4>1. pos = Len(Steps) /\ UNCHANGED activity
        BY <2>1, <3>2, LoopIs DEF StepsDone
      <4>2. ~ InLoop
        BY <1>0, <4>1 DEF InLoop
      <4> QED
        BY <4>1, <4>2 DEF Placed
    <3> QED
      BY <1>5, <3>1, <3>2
  <2>4. def.onSuccess \in Seq(Step) /\ def.onError \in Seq(Step)
    BY <2>2, StepsType
  <2>5. Len(def.onSuccess) \in Nat /\ Len(def.onError) \in Nat
    BY <2>4, LenProperties
  <2>6. Steps' \in {def.onSuccess, def.onError}
    BY <2>1 DEF Steps, Loop
  <2>7. 0 <= Len(Steps')
    BY <2>5, <2>6
  <2> QED
    BY <2>1, <2>2, <2>3, <2>7 DEF Placed
<1>6. CASE HandlerEnds
  <2>1. /\ UNCHANGED <<def, phase, status, results>> /\ phase = "handlers"
        /\ activity' = "none" /\ pos' = pos + 1 /\ pos < Len(Steps)
    BY <1>6 DEF HandlerEnds, Error, Result, InLoop
  <2>2. def # Invalid /\ status # ""
    BY <2>1 DEF Placed
  <2>3. Steps' = Steps /\ Len(Steps) \in Nat
    BY <2>1, <2>2, SameLoop, StepsType
  <2>4. pos + 1 <= Len(Steps)
    BY <1>0, <2>1, <2>3
  <2> QED
    BY <2>1, <2>2, <2>3, <2>4 DEF Placed
<1>7. CASE Return
  <2>1. /\ UNCHANGED <<def, pos, status, results, activity>> /\ phase = "handlers"
        /\ phase' = "done" /\ pos = Len(Steps)
    BY <1>7 DEF Return
  <2>2. status # "" /\ def # Invalid
    BY <2>1 DEF Placed
  <2>3. ~ InLoop
    BY <1>0, <2>1 DEF InLoop
  <2>4. Steps' = Steps
    BY <2>1, SameLoop
  <2> QED
    BY <2>1, <2>2, <2>3, <2>4 DEF Placed
<1> QED
  BY <1>1, <1>2, <1>4, <1>5, <1>6, <1>7 DEF Next, Workflow

LEMMA NamedStep ==
    ASSUME TypeOK, Placed, Named, Next
    PROVE  Named'
<1>1. CASE Parse /\ def = Invalid
  BY <1>1, ParseType DEF Named
<1>2. CASE Parse /\ def # Invalid
  <2>1. def'.steps = WithIDs(def.steps) /\ def.steps \in Seq(Step)
    BY <1>2, ParseType, StepsType
  <2>2. ASSUME NEW n \in DOMAIN def.steps
        PROVE  WithIDs(def.steps)[n].id \in Name
    <3>1. def.steps[n] \in Step /\ n \in Nat
      BY <2>1, <2>2, LenProperties, ElementOfSeq
    <3>2. CASE def.steps[n].id = NoID
      BY <3>1, <3>2 DEF WithIDs, StepName, Name, Step
    <3>3. CASE def.steps[n].id # NoID
      BY <3>1, <3>3 DEF WithIDs, Step
    <3> QED
      BY <3>2, <3>3
  <2>3. DOMAIN WithIDs(def.steps) = DOMAIN def.steps
    BY DEF WithIDs
  <2> QED
    BY <2>1, <2>2, <2>3 DEF Named
<1>3. CASE ~ Parse
  <2>1. UNCHANGED def
    BY <1>3, ResultsGrow
  <2>2. phase' # "parse" => phase # "parse"
    BY <1>3 DEF Next, Workflow, Schedule, BeginAttempt, Retry, Cancel, StepSucceeds,
                StepFailsTolerated, StepFails, StepsDone, HandlerEnds, Return
  <2> QED
    BY <2>1, <2>2 DEF Named
<1> QED
  BY <1>1, <1>2, <1>3

\* Results that there are stay as they are, and the definition they are results of.
LEMMA ResultsStay ==
    ASSUME TypeOK, Placed, Next
    PROVE  /\ Len(results) \in Nat /\ Len(results') \in Nat /\ Len(results) <= Len(results')
           /\ results' \in Seq(BOOLEAN)
           /\ \A i \in 0 .. Len(results) - 1 : results'[i + 1] = results[i + 1]
           /\ Parse => results = <<>> /\ Len(results) = 0 /\ Len(results') = 0
           /\ ~ Parse => UNCHANGED def
<1>0. results \in Seq(BOOLEAN) /\ Len(results) \in Nat
  BY LenProperties DEF TypeOK
<1>1. UNCHANGED results \/ \E b \in BOOLEAN : results' = Append(results, b)
  BY ResultsGrow
<1>2. Len(results') \in Nat /\ Len(results) <= Len(results') /\ results' \in Seq(BOOLEAN)
      /\ \A i \in 0 .. Len(results) - 1 : results'[i + 1] = results[i + 1]
  <2>1. CASE UNCHANGED results
    BY <1>0, <2>1
  <2>2. CASE \E b \in BOOLEAN : results' = Append(results, b)
    BY <1>0, <2>2, AppendResult
  <2> QED
    BY <1>1, <2>1, <2>2
<1>3. ASSUME Parse
      PROVE  results = <<>> /\ Len(results) = 0 /\ Len(results') = 0
  <2>1. results = <<>> /\ results' = results
    BY <1>3 DEF Parse, Placed
  <2>2. Len(results) = 0
    BY <2>1, EmptySeq
  <2> QED
    BY <2>1, <2>2
<1> QED
  BY <1>0, <1>2, <1>3, ResultsGrow

\* The step that succeeds stores its position, which is that of its result.
LEMMA StoreStep ==
    ASSUME TypeOK, Placed, Named, StepSucceeds
    PROVE  /\ UNCHANGED <<def, uninformed>> /\ def # Invalid /\ outputs' = Store(pos)
           /\ pos \in Nat /\ pos = Len(results) /\ results' = Append(results, TRUE)
           /\ Len(results') = pos + 1 /\ results'[pos + 1] = TRUE
           /\ pos + 1 \in DOMAIN def.steps /\ def.steps[pos + 1].id \in Name
           /\ Alias(pos) \in Name
<1>1. /\ UNCHANGED <<def, uninformed>> /\ outputs' = Store(pos) /\ phase = "steps"
      /\ results' = Append(results, TRUE) /\ pos < Len(Steps)
  BY DEF StepSucceeds, Result, InLoop
<1>2. pos = Len(results) /\ def # Invalid /\ pos \in Nat /\ results \in Seq(BOOLEAN)
  BY <1>1 DEF Placed, TypeOK
<1>3. pos < Len(def.steps) /\ Len(def.steps) \in Nat /\ def.steps \in Seq(Step)
  BY <1>1, <1>2, LoopIs, StepsType
<1>4. pos + 1 \in DOMAIN def.steps
  BY <1>2, <1>3, LenProperties
<1>5. def.steps[pos + 1].id \in Name
  BY <1>1, <1>2, <1>4 DEF Named
<1>6. Len(results') = pos + 1 /\ results'[pos + 1] = TRUE
  BY <1>1, <1>2, AppendResult
<1>7. Alias(pos) \in Name
  BY <1>2 DEF Alias, StepName, Name
<1> QED
  BY <1>1, <1>2, <1>4, <1>5, <1>6, <1>7

\* No other step stores anything.
LEMMA OutputsStay ==
    ASSUME Next, ~ StepSucceeds
    PROVE  UNCHANGED outputs
BY DEF Next, Workflow, Parse, Schedule, BeginAttempt, Retry, Cancel, StepFailsTolerated,
       StepFails, StepsDone, HandlerEnds, Return

\* What stands under a key of stepOutputs: the input of the run, or the position of a
\* step that has succeeded and has that key as its id or its alias.
Stored(key) ==
    \/ key = InputKey /\ outputs[key] = RunInput
    \/ /\ outputs[key] \in 0 .. Len(results) - 1
       /\ results[outputs[key] + 1]
       /\ key \in {def.steps[outputs[key] + 1].id, Alias(outputs[key])}

Origins ==
    /\ InputKey \in DOMAIN outputs
    /\ DOMAIN outputs \subseteq Name
    /\ \A key \in DOMAIN outputs : Stored(key)

LEMMA OriginsStep ==
    ASSUME TypeOK, Placed, Named, Origins, Next
    PROVE  Origins'
<1>0. Len(results) \in Nat /\ Len(results') \in Nat /\ Len(results) <= Len(results')
  BY ResultsStay
<1>1. ASSUME NEW key \in DOMAIN outputs, outputs'[key] = outputs[key]
      PROVE  Stored(key)'
  <2>1. CASE key = InputKey /\ outputs[key] = RunInput
    BY <1>1, <2>1 DEF Stored
  <2>2. CASE /\ outputs[key] \in 0 .. Len(results) - 1
             /\ results[outputs[key] + 1]
             /\ key \in {def.steps[outputs[key] + 1].id, Alias(outputs[key])}
    <3>1. results'[outputs[key] + 1] /\ UNCHANGED def
      BY <1>0, <2>2, ResultsStay
    <3>2. outputs'[key] \in 0 .. Len(results') - 1
      BY <1>0, <1>1, <2>2
    <3> QED
      BY <1>1, <2>2, <3>1, <3>2 DEF Stored, Alias
  <2> QED
    BY <1>1, <2>1, <2>2 DEF Origins, Stored
<1>2. CASE StepSucceeds
  <2>a. /\ outputs' = Store(pos) /\ pos \in Nat
        /\ Len(results') = pos + 1 /\ results'[pos + 1] = TRUE
    BY <1>2, StoreStep
  <2>b. \A key \in DOMAIN outputs \ {def.steps[pos + 1].id, Alias(pos)} :
           Store(pos)[key] = outputs[key]
    BY <2>a, StoreKeys
  <2>1. ASSUME NEW key \in {def.steps[pos + 1].id, Alias(pos)}
        PROVE  Stored(key)'
    <3>1. outputs'[key] = pos /\ UNCHANGED def
      BY <1>2, <2>1, StoreStep, StoreKeys
    <3>2. pos \in 0 .. Len(results') - 1 /\ results'[pos + 1] = TRUE
      BY <2>a
    <3> QED
      BY <2>1, <3>1, <3>2 DEF Stored, Alias
  <2>2. /\ DOMAIN outputs' = DOMAIN outputs \cup {def.steps[pos + 1].id, Alias(pos)}
        /\ def.steps[pos + 1].id \in Name /\ Alias(pos) \in Name
    BY <1>2, StoreStep, StoreKeys
  <2>3. \A key \in DOMAIN outputs \ {def.steps[pos + 1].id, Alias(pos)} : outputs'[key] = outputs[key]
    BY <2>a, <2>b
  <2>4. \A key \in DOMAIN outputs' : Stored(key)'
    BY <1>1, <2>1, <2>2, <2>3
  <2> QED
    BY <2>2, <2>4 DEF Origins
<1>3. CASE ~ StepSucceeds
  <2>1. UNCHANGED outputs
    BY <1>3, OutputsStay
  <2>2. \A key \in DOMAIN outputs' : Stored(key)'
    BY <1>1, <2>1
  <2> QED
    BY <2>1, <2>2 DEF Origins
<1> QED
  BY <1>2, <1>3

\* The parts of the invariant that the types rest on.
Run == TypeOK /\ Placed /\ Named /\ Origins

LEMMA RunInit == Init => Run
<1> SUFFICES ASSUME Init PROVE Run
  OBVIOUS
<1>1. TypeOK
  BY TypeInit
<1>2. Placed
  BY DEF Init, Placed, InLoop
<1>3. Named
  BY DEF Init, Named
<1>4. Origins
  BY DEF Init, Origins, Stored, Name
<1> QED
  BY <1>1, <1>2, <1>3, <1>4 DEF Run

LEMMA TypeStep ==
    ASSUME Run, Next
    PROVE  TypeOK'
<1>1. TypeOK /\ Placed /\ Named /\ Origins
  BY DEF Run
<1>2. def' \in Definition \cup {Invalid}
  <2>1. CASE Parse
    BY <1>1, <2>1, ParseType
  <2>2. CASE UNCHANGED def
    BY <1>1, <2>2 DEF TypeOK
  <2> QED
    BY <1>1, <2>1, <2>2, ResultsGrow
<1>3. results' \in Seq(BOOLEAN)
  BY <1>1, ResultsStay
<1>4. Origins'
  BY <1>1, OriginsStep
<1>5. /\ DOMAIN outputs' \subseteq Name
      /\ \A key \in DOMAIN outputs' :
            outputs'[key] \in 0 .. Len(results') - 1 \/ (key = InputKey /\ outputs'[key] = RunInput)
  BY <1>4 DEF Origins, Stored, RunInput
<1>6. /\ ran' \subseteq LoopTypes \X Nat /\ uninformed' \subseteq LoopTypes \X Nat
  BY <1>1, MarksType
<1> QED
  BY <1>1, <1>2, <1>3, <1>5, <1>6, CountersType DEF TypeOK, LoopTypes, RunInput

\* Nothing of this depends on more than the variables.
LEMMA RunStep == Run /\ [Next]_vars => Run'
<1> SUFFICES ASSUME Run, [Next]_vars PROVE Run'
  OBVIOUS
<1>1. CASE Next
  <2>1. TypeOK /\ Placed /\ Named /\ Origins
    BY DEF Run
  <2> QED
    BY <1>1, <2>1, TypeStep, PlacedStep, NamedStep, OriginsStep DEF Run
<1>2. CASE UNCHANGED vars
  <2>1. Steps' = Steps /\ InLoop' = InLoop /\ Current' = Current
    BY <1>2 DEF vars, Steps, Loop, InLoop, Current
  <2>2. TypeOK' /\ Named' /\ Origins'
    BY <1>2 DEF vars, Run, TypeOK, Named, Origins, Stored
  <2>3. Placed'
    BY <1>2, <2>1 DEF vars, Run, Placed
  <2> QED
    BY <2>2, <2>3 DEF Run
<1> QED
  BY <1>1, <1>2

\* Every state of a run has its types: no key of stepOutputs is anything but a name, and
\* none refers to a step without a result.
THEOREM TypeCorrect == Spec => []TypeOK
<1>1. Run => TypeOK
  BY DEF Run
<1> QED
  BY <1>1, RunInit, RunStep, PTL DEF Spec

-----------------------------------------------------------------------------------
(* Results, status and handlers. *)

\* A fatal failure is the last result and the reason of the status "failed", which has
\* no other reason; "completed" comes with a result for every step.
Verdict ==
    def # Invalid =>
        /\ \A i \in 0 .. Len(results) - 1 : Fatal(i) => status = "failed" /\ i = Len(results) - 1
        /\ status = "completed" => Len(results) = Len(def.steps)
        /\ status = "failed" => results # <<>> /\ Fatal(Len(results) - 1)

\* Steps that a worker began have a result, but for the last one; handlers that a worker
\* began are those of the status.
Marks ==
    \A mark \in ran :
        /\ mark[1] = "steps" => mark[2] <= Len(results) /\ (status = "failed" => mark[2] < Len(results))
        /\ mark[1] = "onSuccess" => status = "completed"
        /\ mark[1] = "onError"   => status = "failed"

\* The attempt that is running was begun, and in a run that is not cancelled no handler
\* with an activity is passed without that.
Begun ==
    /\ activity = "running" => <<Loop, pos>> \in ran
    /\ phase \in {"handlers", "done"} /\ def # Invalid /\ ~ cancelled =>
          \A i \in 0 .. pos - 1 : Steps[i + 1].kind = "activity" => <<Loop, i>> \in ran

IInv == Run /\ Verdict /\ Marks /\ Begun

\* The end of a step, with the result b.
LEMMA EndOfStep ==
    ASSUME TypeOK, Placed, StepSucceeds \/ StepFailsTolerated \/ StepFails
    PROVE  /\ phase = "steps" /\ status = "" /\ def # Invalid /\ UNCHANGED <<def, ran, cancelled>>
           /\ pos = Len(results) /\ Len(results) \in Nat /\ Len(results') = Len(results) + 1
           /\ results' # <<>> /\ activity' = "none"
           /\ StepSucceeds => results'[Len(results) + 1] = TRUE
           /\ StepFailsTolerated => def.steps[Len(results) + 1].continueOnError
           /\ StepFails => /\ results'[Len(results) + 1] = FALSE
                           /\ ~ def.steps[Len(results) + 1].continueOnError
<1>1. /\ phase = "steps" /\ UNCHANGED <<def, ran, cancelled>> /\ activity' = "none"
      /\ StepSucceeds => results' = Append(results, TRUE)
      /\ StepFailsTolerated => results' = Append(results, FALSE) /\ Current.continueOnError
      /\ StepFails => results' = Append(results, FALSE) /\ ~ Current.continueOnError
  BY DEF StepSucceeds, StepFailsTolerated, StepFails
<1>2. status = "" /\ def # Invalid /\ pos = Len(results)
  BY <1>1 DEF Placed
<1>3. results \in Seq(BOOLEAN) /\ Len(results) \in Nat
  BY LenProperties DEF TypeOK
<1>4. Current = def.steps[Len(results) + 1]
  BY <1>1, <1>2, LoopIs DEF Current
<1>5. Len(results') = Len(results) + 1 /\ results' # <<>>
  BY <1>1, <1>3, AppendResult
<1>6. StepSucceeds => results'[Len(results) + 1] = TRUE
  BY <1>1, <1>3, AppendResult
<1>7. StepFails => results'[Len(results) + 1] = FALSE
  BY <1>1, <1>3, AppendResult
<1> QED
  BY <1>1, <1>2, <1>3, <1>4, <1>5, <1>6, <1>7

\* Fatal failures of earlier steps are neither added nor removed.
LEMMA FatalStays ==
    ASSUME TypeOK, Placed, Next, NEW i \in 0 .. Len(results) - 1
    PROVE  UNCHANGED def /\ Fatal(i)' = Fatal(i)
<1>1. UNCHANGED def /\ results'[i + 1] = results[i + 1]
  BY ResultsStay
<1> QED
  BY <1>1 DEF Fatal

LEMMA VerdictStep ==
    ASSUME TypeOK, Placed, Verdict, Next
    PROVE  Verdict'
<1>0. Len(results) \in Nat
  BY ResultsStay
<1>1. CASE Parse
  <2>1. /\ results' = <<>>
        /\ def' # Invalid => status' = ""
    BY <1>1, ResultsStay, ParseType DEF Parse, Placed
  <2>a. Len(results') = 0
    BY <1>1, ResultsStay
  <2>2. 0 .. Len(results') - 1 = {}
    BY <2>a
  <2> QED
    BY <2>1, <2>2 DEF Verdict
<1>2. CASE StepSucceeds \/ StepFailsTolerated \/ StepFails
  <2>1. /\ status = "" /\ def # Invalid /\ UNCHANGED def /\ results' # <<>>
    BY <1>2, EndOfStep
  <2>0. Len(results') = Len(results) + 1
    BY <1>2, EndOfStep
  <2> PICK n \in Nat : n = Len(results)
    BY <1>0
  <2>a. Len(results') = n + 1 /\ Len(results') - 1 = n
    BY <2>0
  <2>b. \A i \in 0 .. Len(results') - 1 : i \in 0 .. n - 1 \/ i = n
    BY <2>a
  <2>2. \A i \in 0 .. n - 1 : ~ Fatal(i)'
    BY <2>1, FatalStays DEF Verdict
  <2>3. CASE StepFails
    <3>1. status' = "failed"
      BY <2>3 DEF StepFails
    <3>2. Fatal(n)'
      BY <2>1, <2>3, EndOfStep DEF Fatal
    <3>3. Fatal(Len(results) - 1)'
      BY <2>a, <3>2 DEF Fatal
    <3>4. \A i \in 0 .. Len(results') - 1 : Fatal(i)' => i = Len(results') - 1
      BY <2>a, <2>b, <2>2
    <3> QED
      BY <2>1, <3>1, <3>3, <3>4 DEF Verdict
  <2>4. CASE StepSucceeds \/ StepFailsTolerated
    <3>1. status' = ""
      BY <2>1, <2>4 DEF StepSucceeds, StepFailsTolerated
    <3>2. ~ Fatal(n)'
      BY <2>1, <2>4, EndOfStep DEF Fatal
    <3>4. \A i \in 0 .. Len(results') - 1 : ~ Fatal(i)'
      BY <2>b, <2>2, <3>2
    <3> QED
      BY <3>1, <3>4 DEF Verdict
  <2> QED
    BY <1>2, <2>3, <2>4
<1>3. CASE StepsDone
  <2>1. /\ UNCHANGED <<def, results>> /\ status' = "completed" /\ phase = "steps"
        /\ Len(results) = Len(def.steps)
    BY <1>3 DEF StepsDone, Placed
  <2>2. def # Invalid /\ status = ""
    BY <2>1 DEF Placed
  <2>3. \A i \in 0 .. Len(results) - 1 : ~ Fatal(i)'
    BY <2>2, FatalStays DEF Verdict
  <2> QED
    BY <2>1, <2>3 DEF Verdict
<1>4. CASE UNCHANGED <<def, results, status>>
  BY <1>4 DEF Verdict, Fatal
<1>5. Parse \/ StepSucceeds \/ StepFailsTolerated \/ StepFails \/ StepsDone
      \/ UNCHANGED <<def, results, status>>
  BY DEF Next, Workflow, Schedule, BeginAttempt, Retry, Cancel, HandlerEnds, Return
<1> QED
  BY <1>1, <1>2, <1>3, <1>4, <1>5

LEMMA MarksStep ==
    ASSUME TypeOK, Placed, Marks, Next
    PROVE  Marks'
<1>0. Len(results) \in Nat /\ ran \subseteq LoopTypes \X Nat
  BY ResultsStay DEF TypeOK, LoopTypes
<1>1. CASE Parse
  BY <1>1 DEF Parse, Placed, Marks
<1>2. CASE StepSucceeds \/ StepFailsTolerated \/ StepFails
  <2>1. /\ status = "" /\ UNCHANGED ran /\ Len(results') = Len(results) + 1
    BY <1>2, EndOfStep
  <2>2. ASSUME NEW mark \in ran
        PROVE  /\ mark[1] \notin {"onSuccess", "onError"} 
               /\ mark[1] = "steps" => mark[2] <= Len(results) /\ mark[2] \in Nat
    BY <1>0, <2>1, <2>2 DEF Marks
  <2>3. ASSUME NEW mark \in ran, mark[1] = "steps"
        PROVE  mark[2] < Len(results') /\ mark[2] <= Len(results')
    <3>1. mark[2] \in Nat /\ mark[2] <= Len(results)
      BY <2>2, <2>3
    <3>2. Len(results') = Len(results) + 1
      BY <2>1
    <3> QED
      BY <1>0, <3>1, <3>2
  <2> QED
    BY <2>1, <2>2, <2>3 DEF Marks
<1>3. CASE StepsDone
  BY <1>3 DEF StepsDone, Placed, Marks
<1>4. CASE BeginAttempt
  <2>1. /\ UNCHANGED <<results, status, phase, pos>> /\ ran' = ran \cup {<<Loop, pos>>}
        /\ phase \in {"steps", "handlers"}
    BY <1>4 DEF BeginAttempt, Placed, InLoop
  <2>a. pos \in Nat
    BY DEF TypeOK
  <2>2. CASE phase = "steps"
    <3>1. Loop = "steps" /\ pos = Len(results) /\ status = ""
      BY <2>2, LoopIs DEF Placed
    <3>a. pos = Len(results)
      BY <3>1
    <3>2. pos <= Len(results)
      BY <2>a, <3>a
    <3>3. status' = ""
      BY <2>1, <3>1
    <3>4. ran' = ran \cup {<<"steps", pos>>} /\ UNCHANGED results
      BY <2>1, <3>1
    <3>5. \A mark \in ran' : mark \in ran \/ mark = <<"steps", pos>>
      BY <3>4
    <3>6. ASSUME NEW mark \in ran
          PROVE  /\ mark[1] = "steps" => mark[2] <= Len(results)
                 /\ mark[1] # "onSuccess" /\ mark[1] # "onError"
      BY <3>1 DEF Marks
    <3>7. ASSUME NEW mark \in ran'
          PROVE  /\ mark[1] = "steps" => mark[2] <= Len(results)
                 /\ mark[1] # "onSuccess" /\ mark[1] # "onError"
      BY <3>2, <3>5, <3>6
    <3> QED
      BY <3>3, <3>4, <3>7 DEF Marks
  <2>3. CASE phase = "handlers"
    <3>1. status \in {"completed", "failed"}
      BY <2>3 DEF Placed, TypeOK
    <3>2. /\ status = "completed" => Loop = "onSuccess"
          /\ status = "failed" => Loop = "onError"
      BY <2>3, LoopIs
    <3> QED
      BY <2>1, <3>1, <3>2 DEF Marks
  <2> QED
    BY <2>1, <2>2, <2>3
<1>5. CASE UNCHANGED <<results, status, ran>>
  BY <1>5 DEF Marks
<1>6. Parse \/ StepSucceeds \/ StepFailsTolerated \/ StepFails \/ StepsDone \/ BeginAttempt
      \/ UNCHANGED <<results, status, ran>>
  BY DEF Next, Workflow, Schedule, Retry, Cancel, HandlerEnds, Return
<1> QED
  BY <1>1, <1>2, <1>3, <1>4, <1>5, <1>6

LEMMA BegunStep ==
    ASSUME TypeOK, Placed, Begun, Next
    PROVE  Begun'
<1>0. pos \in Nat
  BY DEF TypeOK
<1>1. CASE Parse
  <2>1. activity' = "none" /\ (phase' \in {"handlers", "done"} => def' = Invalid)
    BY <1>1, ParseType DEF Parse, Placed
  <2> QED
    BY <2>1 DEF Begun
<1>2. CASE StepSucceeds \/ StepFailsTolerated
  BY <1>2 DEF StepSucceeds, StepFailsTolerated, Begun
<1>3. CASE StepFails \/ StepsDone
  <2>1. UNCHANGED activity \/ activity' = "none"
    BY <1>3 DEF StepFails, StepsDone
  <2>2. pos' = 0 /\ phase = "steps"
    BY <1>3 DEF StepFails, StepsDone
  <2>3. StepsDone => activity = "none"
    <3> SUFFICES ASSUME StepsDone PROVE activity = "none"
      OBVIOUS
    <3>1. pos = Len(Steps)
      BY <2>2, LoopIs DEF StepsDone
    <3>2. ~ InLoop
      BY <1>0, <3>1 DEF InLoop
    <3> QED
      BY <3>2 DEF Placed
  <2>4. activity' = "none"
    BY <1>3, <2>1, <2>3 DEF StepFails, StepsDone
  <2>5. 0 .. pos' - 1 = {}
    BY <2>2
  <2> QED
    BY <2>4, <2>5 DEF Begun
<1>4. CASE Schedule \/ BeginAttempt \/ Retry \/ Cancel
  <2>1. UNCHANGED <<def, phase, pos>> /\ Loop' = Loop /\ Steps' = Steps
    BY <1>4, ActivityFrame
  <2>2. ran \subseteq ran' /\ (cancelled => cancelled')
    BY <1>4 DEF Schedule, BeginAttempt, Retry, Cancel
  <2>3. activity' = "running" => <<Loop, pos>> \in ran'
    BY <1>4 DEF Schedule, BeginAttempt, Retry, Cancel, Begun
  <2> QED
    BY <2>1, <2>2, <2>3 DEF Begun
<1>5. CASE HandlerEnds
  <2>1. /\ phase = "handlers" /\ activity' = "none" /\ pos' = pos + 1
        /\ UNCHANGED <<def, phase, status, ran, cancelled>> /\ (Error \/ Result)
    BY <1>5 DEF HandlerEnds
  <2>2. Loop' = Loop /\ Steps' = Steps
    BY <2>1, SameLoop
  <2>3. ASSUME ~ cancelled, Steps[pos + 1].kind = "activity"
        PROVE  <<Loop, pos>> \in ran
    BY <2>1, <2>3 DEF Error, Result, Current, Begun
  <2>4. \A i \in 0 .. pos' - 1 : i \in 0 .. pos - 1 \/ i = pos
    BY <1>0, <2>1
  <2> QED
    BY <2>1, <2>2, <2>3, <2>4 DEF Begun
<1>6. CASE Return
  <2>1. /\ phase = "handlers" /\ phase' = "done"
        /\ UNCHANGED <<def, pos, activity, status, ran, cancelled>>
    BY <1>6 DEF Return
  <2>2. Loop' = Loop /\ Steps' = Steps
    BY <2>1, SameLoop
  <2> QED
    BY <2>1, <2>2 DEF Begun
<1> QED
  BY <1>1, <1>2, <1>3, <1>4, <1>5, <1>6 DEF Next, Workflow

LEMMA IInvInit == Init => IInv
<1> SUFFICES ASSUME Init PROVE IInv
  OBVIOUS
<1>1. results = <<>>
  BY DEF Init
<1>2. Len(results) = 0
  BY <1>1, EmptySeq
<1>3. 0 .. Len(results) - 1 = {}
  BY <1>2
<1> QED
  BY <1>3, RunInit DEF Init, IInv, Verdict, Marks, Begun

LEMMA IInvStep == IInv /\ [Next]_vars => IInv'
<1> SUFFICES ASSUME IInv, [Next]_vars PROVE IInv'
  OBVIOUS
<1>1. Run'
  BY RunStep DEF IInv
<1>2. CASE Next
  <2>1. TypeOK /\ Placed /\ Verdict /\ Marks /\ Begun
    BY DEF IInv, Run
  <2> QED
    BY <1>1, <1>2, <2>1, VerdictStep, MarksStep, BegunStep DEF IInv
<1>3. CASE UNCHANGED vars
  <2>1. Steps' = Steps /\ Loop' = Loop
    BY <1>3 DEF vars, Steps, Loop
  <2> QED
    BY <1>1, <1>3, <2>1 DEF vars, IInv, Verdict, Fatal, Marks, Begun
<1> QED
  BY <1>2, <1>3

LEMMA Invariance == Spec => []IInv
BY IInvInit, IInvStep, PTL DEF Spec

\* The results of a run tell how it went: nothing ran or has a result past a failure that
\* ends the run, and the status says whether there was one (dynamic.go:99-125).
THEOREM ResultsDoTell == Spec => []ResultsTellTheRun
<1>1. IInv => ResultsTellTheRun
  <2> SUFFICES ASSUME IInv PROVE ResultsTellTheRun
    OBVIOUS
  <2>0. /\ TypeOK /\ Placed /\ Verdict /\ Marks
        /\ Len(results) \in Nat /\ ran \subseteq LoopTypes \X Nat
    BY LenProperties DEF IInv, Run, TypeOK, LoopTypes
  <2>1. CASE def = Invalid
    <3>1. Len(results) = 0 /\ ran = {}
      BY <2>0, <2>1, EmptySeq DEF Placed
    <3>2. 0 .. Len(results) - 2 = {}
      BY <3>1
    <3> QED
      BY <2>1, <3>1, <3>2 DEF ResultsTellTheRun, NothingAfterFatalFailure, StatusMatchesResults
  <2>2. CASE def # Invalid
    <3>1. \A i \in 0 .. Len(results) - 2 : i \in 0 .. Len(results) - 1 /\ i # Len(results) - 1
      BY <2>0
    <3>2. \A i \in 0 .. Len(results) - 2 : ~ Fatal(i)
      BY <2>0, <2>2, <3>1 DEF Verdict
    <3>3. ASSUME NEW mark \in ran, mark[1] = "steps"
          PROVE  /\ mark[2] <= Len(results)
                 /\ \A i \in 0 .. mark[2] - 1 : ~ Fatal(i)
      <4>1. mark[2] \in Nat /\ mark[2] <= Len(results)
            /\ (status = "failed" => mark[2] < Len(results))
        BY <2>0, <3>3 DEF Marks
      <4>2. ASSUME NEW i \in 0 .. mark[2] - 1, Fatal(i)
            PROVE  FALSE
        <5>1. i \in 0 .. Len(results) - 1
          BY <2>0, <4>1, <4>2
        <5>2. status = "failed" /\ i = Len(results) - 1
          BY <2>0, <2>2, <4>2, <5>1 DEF Verdict
        <5> QED
          BY <2>0, <4>1, <4>2, <5>2
      <4> QED
        BY <4>1, <4>2
    <3>4. StatusMatchesResults
      <4>1. phase \in {"handlers", "done"} => status # ""
        BY <2>0 DEF Placed
      <4>2. status = "completed" => \A i \in 0 .. Len(results) - 1 : ~ Fatal(i)
        BY <2>0, <2>2 DEF Verdict
      <4> QED
        BY <2>0, <2>2, <4>1, <4>2 DEF Verdict, StatusMatchesResults
    <3> QED
      BY <3>2, <3>3, <3>4 DEF ResultsTellTheRun, NothingAfterFatalFailure
  <2> QED
    BY <2>1, <2>2
<1> QED
  BY <1>1, Invariance, PTL

\* The handlers of the status run, all of them in a run that nobody cancels, and no other
\* (dynamic.go:127-136).
THEOREM HandlersDoTell == Spec => []HandlersTellTheStatus
<1>1. IInv => HandlersTellTheStatus
  <2> SUFFICES ASSUME IInv PROVE HandlersTellTheStatus
    OBVIOUS
  <2>1. HandlersMatchStatus
    BY DEF IInv, Marks, HandlersMatchStatus
  <2>2. EveryHandlerRuns
    BY DEF IInv, Run, Placed, Begun, EveryHandlerRuns
  <2> QED
    BY <2>1, <2>2 DEF HandlersTellTheStatus
<1> QED
  BY <1>1, Invariance, PTL

-----------------------------------------------------------------------------------
(* The keys of stepOutputs. *)

\* Whoever looked for the input of the run and did not find it came after a step named
\* "input" that succeeded.
Uninformed ==
    \A mark \in uninformed :
        \E i \in 0 .. Len(results) - 1 :
            /\ results[i + 1] /\ def.steps[i + 1].id = InputKey
            /\ mark[1] = "steps" => i < mark[2]

\* Ids that authors give, one to each step.
OwnIDs ==
    /\ def # Invalid
    /\ \A n \in DOMAIN def.steps : def.steps[n].id \in Id
    /\ \A m, n \in DOMAIN def.steps : def.steps[m].id = def.steps[n].id => m = n

\* Under its own id the output of a step that succeeded stays where it is.
Own == OwnIDs => \A i \in 0 .. Len(results) - 1 : results[i + 1] =>
                     /\ def.steps[i + 1].id \in DOMAIN outputs
                     /\ outputs[def.steps[i + 1].id] = i

\* Every position with a result is one of a step.
Counted == def # Invalid => Len(results) <= Len(def.steps)

KeysInv == Run /\ AliasNamesItsStep /\ Own /\ Counted /\ Uninformed

\* A success after a step is one before it, or that of the step.
LEMMA NewSuccess ==
    ASSUME TypeOK, Placed, Named, Next, NEW i \in 0 .. Len(results') - 1, results'[i + 1]
    PROVE  /\ UNCHANGED def
           /\ \/ i \in 0 .. Len(results) - 1 /\ results[i + 1]
              \/ StepSucceeds /\ i = pos
<1>0. results \in Seq(BOOLEAN) /\ Len(results) \in Nat
  BY LenProperties DEF TypeOK
<1>1. CASE UNCHANGED results
  <2>1. i \in 0 .. Len(results) - 1 /\ results[i + 1]
    BY <1>1
  <2>2. UNCHANGED def
    BY <2>1, ResultsStay
  <2> QED
    BY <2>1, <2>2
<1>2. ASSUME NEW b \in BOOLEAN, results' = Append(results, b), ~ Parse
      PROVE  /\ UNCHANGED def
             /\ \/ i \in 0 .. Len(results) - 1 /\ results[i + 1]
                \/ i = Len(results) /\ b
  <2>1. /\ Len(results') = Len(results) + 1 /\ results'[Len(results) + 1] = b
        /\ \A k \in 0 .. Len(results) - 1 : results'[k + 1] = results[k + 1]
    BY <1>0, <1>2, AppendResult
  <2>2. i \in 0 .. Len(results) - 1 \/ i = Len(results)
    BY <1>0, <2>1
  <2>3. UNCHANGED def
    BY <1>2, ResultsStay
  <2>4. CASE i \in 0 .. Len(results) - 1
    <3>1. results'[i + 1] = results[i + 1]
      BY <2>1, <2>4
    <3>2. results[i + 1]
      BY <3>1
    <3> QED
      BY <2>3, <2>4, <3>2
  <2>5. CASE i = Len(results)
    BY <2>1, <2>3, <2>5
  <2> QED
    BY <2>2, <2>4, <2>5
<1>3. CASE StepSucceeds
  BY <1>2, <1>3, StoreStep DEF StepSucceeds, Parse
<1>4. CASE (StepFailsTolerated \/ StepFails) /\ results' = Append(results, FALSE)
  BY <1>2, <1>4 DEF StepFailsTolerated, StepFails, Parse
<1> QED
  BY <1>1, <1>3, <1>4, ResultsGrow

LEMMA AliasStep ==
    ASSUME Run, AliasNamesItsStep, Next
    PROVE  AliasNamesItsStep'
<1>0. TypeOK /\ Placed /\ Named /\ Origins
  BY DEF Run
<1> SUFFICES ASSUME (def # Invalid /\ \A n \in DOMAIN def.steps :
                          def.steps[n].id \in Id \cup {InputKey, NoID, StepName(n)})',
                    NEW i \in 0 .. Len(results') - 1, results'[i + 1]
             PROVE  Alias(i) \in DOMAIN outputs' /\ outputs'[Alias(i)] = i
  BY DEF AliasNamesItsStep, Alias
<1>1. UNCHANGED def
  BY <1>0, NewSuccess
<1>2. ASSUME i \in 0 .. Len(results) - 1, results[i + 1]
      PROVE  Alias(i) \in DOMAIN outputs /\ outputs[Alias(i)] = i
  BY <1>1, <1>2 DEF AliasNamesItsStep
<1>3. CASE ~ StepSucceeds
  BY <1>0, <1>2, <1>3, NewSuccess, OutputsStay
<1>4. CASE StepSucceeds /\ i = pos
  BY <1>0, <1>4, StoreStep, StoreKeys
<1>5. CASE StepSucceeds /\ i \in 0 .. Len(results) - 1 /\ results[i + 1]
  <2>1. /\ outputs' = Store(pos) /\ pos \in Nat /\ pos = Len(results)
        /\ pos + 1 \in DOMAIN def.steps /\ def.steps[pos + 1].id \in Name
    BY <1>0, <1>5, StoreStep
  <2>2. i \in Nat /\ i # pos /\ i # pos + 1
    BY <1>5, <2>1
  <2>3. Alias(i) # Alias(pos) /\ Alias(i) # StepName(pos + 1)
    BY <2>2 DEF Alias, StepName
  <2>4. def.steps[pos + 1].id \in Id \cup {InputKey, StepName(pos + 1)}
    BY <1>1, <2>1, DefinitionsAssumption DEF StepName
  <2>5. Alias(i) \in {"step_"} \X Nat
    BY <2>2 DEF Alias, StepName
  <2>6. Alias(i) # def.steps[pos + 1].id
    BY <2>3, <2>4, <2>5, DefinitionsAssumption
  <2>7. Alias(i) \in DOMAIN outputs \ {def.steps[pos + 1].id, Alias(pos)}
    BY <1>2, <1>5, <2>3, <2>6
  <2>8. Alias(i) \in DOMAIN Store(pos) /\ Store(pos)[Alias(i)] = outputs[Alias(i)]
    BY <2>1, <2>7, StoreKeys
  <2> QED
    BY <1>2, <1>5, <2>1, <2>8
<1> QED
  BY <1>0, <1>3, <1>4, <1>5, NewSuccess

LEMMA OwnStep ==
    ASSUME Run, Own, Next
    PROVE  Own'
<1>0. TypeOK /\ Placed /\ Named /\ Origins
  BY DEF Run
<1> SUFFICES ASSUME OwnIDs', NEW i \in 0 .. Len(results') - 1, results'[i + 1]
             PROVE  /\ def'.steps[i + 1].id \in DOMAIN outputs'
                    /\ outputs'[def'.steps[i + 1].id] = i
  BY DEF Own
<1>1. UNCHANGED def /\ OwnIDs
  BY <1>0, NewSuccess DEF OwnIDs
<1>2. ASSUME i \in 0 .. Len(results) - 1, results[i + 1]
      PROVE  def.steps[i + 1].id \in DOMAIN outputs /\ outputs[def.steps[i + 1].id] = i
  BY <1>1, <1>2 DEF Own
<1>3. CASE ~ StepSucceeds
  BY <1>0, <1>1, <1>2, <1>3, NewSuccess, OutputsStay
<1>4. CASE StepSucceeds /\ i = pos
  BY <1>0, <1>1, <1>4, StoreStep, StoreKeys
<1>5. CASE StepSucceeds /\ i \in 0 .. Len(results) - 1 /\ results[i + 1]
  <2>1. /\ outputs' = Store(pos) /\ pos \in Nat /\ pos = Len(results)
        /\ pos + 1 \in DOMAIN def.steps
    BY <1>0, <1>5, StoreStep
  <2>2. i \in Nat /\ i < pos
    BY <1>5, <2>1
  <2>3. def.steps \in Seq(Step)
    BY <1>0, <1>1, StepsType DEF OwnIDs
  <2>4. Len(def.steps) \in Nat /\ DOMAIN def.steps = 1 .. Len(def.steps)
    BY <2>3, LenProperties
  <2>5. i + 1 \in DOMAIN def.steps /\ i + 1 # pos + 1
    BY <2>1, <2>2, <2>4
  <2>6. def.steps[i + 1].id # def.steps[pos + 1].id /\ def.steps[i + 1].id \in Id
    BY <1>1, <2>1, <2>5 DEF OwnIDs
  <2>7. Alias(pos) \in {"step_"} \X Nat
    BY <2>1 DEF Alias, StepName
  <2>8. def.steps[i + 1].id # Alias(pos)
    BY <2>6, <2>7, DefinitionsAssumption
  <2>9. def.steps[i + 1].id \in DOMAIN outputs \ {def.steps[pos + 1].id, Alias(pos)}
    BY <1>2, <1>5, <2>6, <2>8
  <2>10. /\ def.steps[i + 1].id \in DOMAIN Store(pos)
         /\ Store(pos)[def.steps[i + 1].id] = outputs[def.steps[i + 1].id]
    BY <2>1, <2>9, StoreKeys
  <2> QED
    BY <1>1, <1>2, <1>5, <2>1, <2>10
<1> QED
  BY <1>0, <1>3, <1>4, <1>5, NewSuccess

LEMMA UninformedStep ==
    ASSUME Run, Uninformed, Next
    PROVE  Uninformed'
<1>0. TypeOK /\ Placed /\ Named /\ Origins
  BY DEF Run
<1>1. Len(results) \in Nat /\ Len(results') \in Nat /\ Len(results) <= Len(results')
  BY <1>0, ResultsStay
<1>2. ASSUME NEW i \in 0 .. Len(results) - 1, results[i + 1], def.steps[i + 1].id = InputKey
      PROVE  /\ i \in 0 .. Len(results') - 1 /\ results'[i + 1]
             /\ def'.steps[i + 1].id = InputKey
  <2>1. i \in 0 .. Len(results') - 1
    BY <1>1
  <2>2. results'[i + 1] = results[i + 1] /\ UNCHANGED def
    BY <1>0, ResultsStay
  <2> QED
    BY <1>2, <2>1, <2>2
<1>3. ASSUME NEW mark \in uninformed
      PROVE  \E i \in 0 .. Len(results') - 1 :
                /\ results'[i + 1] /\ def'.steps[i + 1].id = InputKey
                /\ mark[1] = "steps" => i < mark[2]
  <2>1. PICK i \in 0 .. Len(results) - 1 :
                /\ results[i + 1] /\ def.steps[i + 1].id = InputKey
                /\ mark[1] = "steps" => i < mark[2]
    BY <1>3 DEF Uninformed
  <2> QED
    BY <1>2, <2>1
<1>4. CASE Schedule /\ InputHidden
  <2>1. uninformed' = uninformed \cup {<<Loop, pos>>} /\ InLoop
    BY <1>4 DEF Schedule
  <2>2. InputKey \in DOMAIN outputs /\ outputs[InputKey] # RunInput
    BY <1>0, <1>4 DEF Origins, InputHidden
  <2>3. PICK i \in 0 .. Len(results) - 1 : i = outputs[InputKey] /\ results[i + 1]
                /\ InputKey \in {def.steps[i + 1].id, Alias(i)}
    BY <1>0, <2>2 DEF Origins, Stored
  <2>4. Alias(i) \in {"step_"} \X Nat
    BY <1>1 DEF Alias, StepName
  <2>5. def.steps[i + 1].id = InputKey
    BY <2>3, <2>4, DefinitionsAssumption
  <2>6. Loop = "steps" => i < pos
    <3>1. Loop = "steps" => phase = "steps"
      BY DEF Loop
    <3>2. phase = "steps" => pos = Len(results)
      BY <1>0 DEF Placed
    <3>3. i < Len(results)
      BY <1>1
    <3> QED
      BY <3>1, <3>2, <3>3
  <2>7. \A mark \in uninformed' : mark \in uninformed \/ mark = <<Loop, pos>>
    BY <2>1
  <2> QED
    BY <1>2, <1>3, <2>3, <2>5, <2>6, <2>7 DEF Uninformed
<1>5. CASE UNCHANGED uninformed
  BY <1>3, <1>5 DEF Uninformed
<1>6. (Schedule /\ InputHidden) \/ UNCHANGED uninformed
  BY DEF Next, Workflow, Parse, Schedule, BeginAttempt, Retry, Cancel, StepSucceeds,
         StepFailsTolerated, StepFails, StepsDone, HandlerEnds, Return
<1> QED
  BY <1>4, <1>5, <1>6

LEMMA CountedStep ==
    ASSUME Run, Counted, Next
    PROVE  Counted'
<1>0. TypeOK /\ Placed
  BY DEF Run
<1>1. CASE Parse
  <2> SUFFICES ASSUME def' # Invalid PROVE Len(results') <= Len(def'.steps)
    BY DEF Counted
  <2>1. def' \in Definition /\ Len(results') = 0
    BY <1>0, <1>1, ParseType, ResultsStay
  <2>2. def'.steps \in Seq(Step)
    BY <2>1 DEF Definition
  <2>3. Len(def'.steps) \in Nat
    BY <2>2, LenProperties
  <2> QED
    BY <2>1, <2>3
<1>2. CASE StepSucceeds \/ StepFailsTolerated \/ StepFails
  <2>1. /\ phase = "steps" /\ def # Invalid /\ UNCHANGED def
        /\ pos = Len(results) /\ Len(results) \in Nat
    BY <1>0, <1>2, EndOfStep
  <2>2. Len(results') = Len(results) + 1
    BY <1>0, <1>2, EndOfStep
  <2>3. pos < Len(def.steps)
    BY <1>2, <2>1, LoopIs DEF StepSucceeds, StepFailsTolerated, StepFails, Error, Result, InLoop
  <2>4. Len(def.steps) \in Nat
    BY <1>0, <2>1, StepsType
  <2>5. Len(results) + 1 <= Len(def.steps)
    BY <2>1, <2>3, <2>4
  <2> QED
    BY <2>1, <2>2, <2>5 DEF Counted
<1>3. CASE UNCHANGED <<def, results>>
  BY <1>3 DEF Counted
<1>4. Parse \/ StepSucceeds \/ StepFailsTolerated \/ StepFails \/ UNCHANGED <<def, results>>
  BY DEF Next, Workflow, Schedule, BeginAttempt, Retry, Cancel, StepsDone, HandlerEnds, Return
<1> QED
  BY <1>1, <1>2, <1>3, <1>4

LEMMA KeysInit == Init => KeysInv
<1> SUFFICES ASSUME Init PROVE KeysInv
  OBVIOUS
<1>0. TypeOK /\ Run
  BY RunInit DEF Run
<1>1. results = <<>> /\ uninformed = {}
  BY DEF Init
<1>2. Len(results) = 0
  BY <1>1, EmptySeq
<1>3. 0 .. Len(results) - 1 = {}
  BY <1>2
<1>4. Counted
  <2> SUFFICES ASSUME def # Invalid PROVE Len(results) <= Len(def.steps)
    BY DEF Counted
  <2>1. Len(def.steps) \in Nat
    BY <1>0, StepsType
  <2> QED
    BY <1>2, <2>1
<1> QED
  BY <1>0, <1>1, <1>3, <1>4 DEF KeysInv, AliasNamesItsStep, Own, Uninformed

LEMMA KeysStep == KeysInv /\ [Next]_vars => KeysInv'
<1> SUFFICES ASSUME KeysInv, [Next]_vars PROVE KeysInv'
  OBVIOUS
<1>1. Run'
  BY RunStep DEF KeysInv
<1>2. CASE Next
  BY <1>1, <1>2, AliasStep, OwnStep, CountedStep, UninformedStep DEF KeysInv
<1>3. CASE UNCHANGED vars
  BY <1>1, <1>3 DEF vars, KeysInv, AliasNamesItsStep, Alias, Own, OwnIDs, Counted, Uninformed
<1> QED
  BY <1>2, <1>3

\* stepOutputs is one map for the input of the run, the positions of the steps and the ids
\* of the authors: each finds what it names, as long as no author uses a name of the
\* others (dynamic.go:70, 117, 118).
THEOREM KeysDoName == Spec => []KeysNameTheirSteps
<1>1. KeysInv => KeysNameTheirSteps
  <2> SUFFICES ASSUME KeysInv PROVE KeysNameTheirSteps
    OBVIOUS
  <2>0. /\ TypeOK /\ Origins /\ AliasNamesItsStep /\ Own /\ Counted /\ Uninformed
        /\ Len(results) \in Nat /\ uninformed \subseteq LoopTypes \X Nat
    BY LenProperties DEF KeysInv, Run, TypeOK, LoopTypes
  <2>1. ASSUME OwnIDs, NEW i \in 0 .. Len(results) - 1, ~ results[i + 1]
        PROVE  def.steps[i + 1].id \notin DOMAIN outputs
    <3> DEFINE id == def.steps[i + 1].id
    <3>1. def.steps \in Seq(Step) /\ Len(results) <= Len(def.steps)
      BY <2>0, <2>1, StepsType DEF OwnIDs, Counted
    <3>2. Len(def.steps) \in Nat /\ DOMAIN def.steps = 1 .. Len(def.steps)
      BY <3>1, LenProperties
    <3>3. \A k \in 0 .. Len(results) - 1 : k + 1 \in DOMAIN def.steps
      BY <2>0, <3>1, <3>2
    <3>4. id \in Id
      BY <2>1, <3>3 DEF OwnIDs
    <3>5. ASSUME id \in DOMAIN outputs
          PROVE  FALSE
      <4>1. id # InputKey
        BY <3>4, DefinitionsAssumption
      <4>2. PICK j \in 0 .. Len(results) - 1 : results[j + 1] /\ id \in {def.steps[j + 1].id, Alias(j)}
        BY <2>0, <3>5, <4>1 DEF Origins, Stored
      <4>3. Alias(j) \in {"step_"} \X Nat
        BY <2>0 DEF Alias, StepName
      <4>4. id = def.steps[j + 1].id
        BY <3>4, <4>2, <4>3, DefinitionsAssumption
      <4>5. j + 1 = i + 1
        BY <2>1, <3>3, <4>4 DEF OwnIDs
      <4>6. j = i
        BY <4>5
      <4> QED
        BY <2>1, <4>2, <4>6
    <3> QED
      BY <3>5
  <2>2. AuthoredIDNamesItsStep
    BY <2>0, <2>1 DEF AuthoredIDNamesItsStep, Own, OwnIDs
  <2>3. InputReachesSteps
    <3>1. ASSUME NEW mark \in uninformed
          PROVE  \E i \in 0 .. (IF mark[1] = "steps" THEN mark[2] ELSE Len(results)) - 1 :
                    results[i + 1] /\ def.steps[i + 1].id = InputKey
      <4>1. PICK i \in 0 .. Len(results) - 1 :
                  /\ results[i + 1]
                  /\ def.steps[i + 1].id = InputKey
                  /\ mark[1] = "steps" => i < mark[2]
        BY <2>0, <3>1 DEF Uninformed
      <4>2. mark[2] \in Nat /\ i \in Nat
        BY <2>0, <3>1
      <4>3. CASE mark[1] = "steps"
        <5>1. i < mark[2]
          BY <4>1, <4>3
        <5>2. i \in 0 .. mark[2] - 1
          BY <4>2, <5>1
        <5>3. i \in 0 .. (IF mark[1] = "steps" THEN mark[2] ELSE Len(results)) - 1
          BY <4>3, <5>2
        <5> QED
          BY <4>1, <5>3
      <4>4. CASE mark[1] # "steps"
        <5>1. i \in 0 .. (IF mark[1] = "steps" THEN mark[2] ELSE Len(results)) - 1
          BY <4>4
        <5> QED
          BY <4>1, <5>1
      <4> QED
        BY <4>3, <4>4
    <3> QED
      BY <3>1 DEF InputReachesSteps
  <2> QED
    BY <2>0, <2>2, <2>3 DEF KeysNameTheirSteps
<1> QED
  BY <1>1, KeysInit, KeysStep, PTL DEF Spec

===================================================================================
