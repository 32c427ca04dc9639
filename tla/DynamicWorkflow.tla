----------------------------- MODULE DynamicWorkflow ------------------------------
(* The workflow that the worker runs for a definition made of steps               *)
(* (internal/workflow/dynamic.go), over the activities Temporal runs for it.       *)
(*                                                                                *)
(* Workflow code is replayed and survives the worker; an activity attempt is not, *)
(* and may fail, time out, or be lost with the worker that ran it.  Temporal then *)
(* schedules another attempt as far as the step's retry policy allows.  A         *)
(* cancellation may arrive at any time: the activity that is waited for, and any  *)
(* activity asked for later in the same context, then ends with CanceledError.    *)
EXTENDS Integers, Sequences

CONSTANTS
    Definitions,   \* the definitions a run may be given, and Invalid
    Invalid,       \* JSON that ParseDefinition refuses
    Id,            \* ids that authors give to steps
    NoID,          \* a step without an id
    InputKey,      \* "input", the key of the input of the run; an author may use it as id
    NoPolicy,      \* a step without a retry_policy
    NoTimeout,     \* a step without a timeout, or with one that does not parse
    Width          \* the width of the integer max_attempts is converted to: 32

-----------------------------------------------------------------------------------
(* Steps.  Keys of stepOutputs are ids, which are names or "step_n".              *)

StepName(n) == <<"step_", n>>
Name == Id \cup {InputKey} \cup ({"step_"} \X Nat)

\* A step has its activity, or fails without one: a type without a case in the
\* switch of executeStep (condition, script, parallel), a config that does not parse.
\* The HTTP activity answers Success: false without an error, so that a request that
\* failed is the result of its step, like any other.
Kind == {"activity", "unsupported"}

\* A timeout that parses is any duration, "0s" and negative ones included.  A retry
\* policy has an int for max_attempts, and a multiplier and intervals that Temporal
\* accepts or not.  A validate, process or notify step without an id in its config reads
\* the one in the input of the run.
Step == [id : Name \cup {NoID}, kind : Kind, continueOnError : BOOLEAN,
         timeout : Int \cup {NoTimeout}, maxAttempts : Int \cup {NoPolicy},
         intervalsAccepted : BOOLEAN, readsInput : BOOLEAN]
Definition == [steps : Seq(Step) \ {<<>>}, onSuccess : Seq(Step), onError : Seq(Step)]

ASSUME DefinitionsAssumption ==
    /\ NoID \notin Name
    /\ InputKey \notin Id
    /\ \A name \in Id \cup {InputKey} : name \notin {"step_"} \X Nat
    /\ NoPolicy \notin Int
    /\ NoTimeout \notin Int
    /\ Width \in Nat \ {0}
    /\ Invalid \notin Definition
    /\ Definitions \subseteq Definition \cup {Invalid}

\* MaximumAttempts 0 is Temporal's "no limit"; it is what a retry_policy without
\* max_attempts gives.
Unlimited == 0

VARIABLES
    def,        \* the definition, as parsed once the run has begun
    phase,      \* where the workflow function is
    pos,        \* the loop variable i, of the steps or of the handlers
    activity,   \* the activity waited for: "none", "scheduled", "running"
    attempt,    \* attempts begun of that activity
    results,    \* output.StepResults: the Success of each step so far
    outputs,    \* stepOutputs: under each key, the position of the step, or RunInput
    uninformed, \* the steps and handlers that looked for the input and did not find it
    status,     \* output.Status
    ran,        \* the steps and handlers with an attempt that a worker began
    cancelled   \* Temporal has delivered a cancellation

vars == <<def, phase, pos, activity, attempt, results, outputs, uninformed, status, ran,
          cancelled>>

\* What stepOutputs holds under InputKey before a step stores something there.
RunInput == -1

Init ==
    /\ def \in Definitions
    /\ phase = "parse"
    /\ pos = 0
    /\ activity = "none"
    /\ attempt = 0
    /\ results = <<>>
    /\ outputs = [key \in {InputKey} |-> RunInput]
    /\ uninformed = {}
    /\ status = ""
    /\ ran = {}
    /\ cancelled = FALSE

\* ParseDefinition gives a step without id the name "step_<i+1>", i counted from 0.
WithIDs(steps) ==
    [n \in DOMAIN steps |->
        IF steps[n].id = NoID THEN [steps[n] EXCEPT !.id = StepName(n)] ELSE steps[n]]

Parse ==
    /\ phase = "parse"
    /\ IF def = Invalid
       THEN /\ status' = "failed"
            /\ phase' = "done"
            /\ UNCHANGED def
       ELSE /\ def' = [def EXCEPT !.steps = WithIDs(@)]
            /\ phase' = "steps"
            /\ UNCHANGED status
    /\ UNCHANGED <<pos, activity, attempt, results, outputs, uninformed, ran, cancelled>>

-----------------------------------------------------------------------------------
(* executeStep. *)

\* The loop the function is in, and its list of steps.
Loop  == IF phase = "steps" THEN "steps"
         ELSE IF status = "completed" THEN "onSuccess" ELSE "onError"
Steps == CASE Loop = "steps"     -> def.steps
           [] Loop = "onSuccess" -> def.onSuccess
           [] Loop = "onError"   -> def.onError
InLoop == phase \in {"steps", "handlers"} /\ pos < Len(Steps)
Current == Steps[pos + 1]

\* int32(max_attempts).
Narrow(n) == ((n + 2^(Width - 1)) % (2^Width)) - 2^(Width - 1)

\* MaximumAttempts of the activity: the step's own, or that of defaultAO.
MaxAttempts == IF Current.maxAttempts = NoPolicy THEN 3 ELSE Narrow(Current.maxAttempts)

\* The server takes the schedule command.  If it does not, the workflow task fails and
\* is tried again, with the same command, until the run is cancelled.  The step's timeout
\* and policy are passed on as they are; those of defaultAO are accepted.
OptionsAccepted ==
    /\ Current.timeout # NoTimeout => Current.timeout > 0
    /\ Current.maxAttempts # NoPolicy => MaxAttempts >= 0 /\ Current.intervalsAccepted

\* The step looks for the input of the run and finds the result of another step.
InputHidden == Current.readsInput /\ outputs[InputKey] # RunInput

\* The step asks Temporal for its activity.
Schedule ==
    /\ InLoop
    /\ activity = "none"
    /\ Current.kind = "activity"
    /\ OptionsAccepted
    /\ ~ cancelled
    /\ activity' = "scheduled"
    /\ attempt' = 0
    /\ uninformed' = IF InputHidden THEN uninformed \cup {<<Loop, pos>>} ELSE uninformed
    /\ UNCHANGED <<def, phase, pos, results, outputs, status, ran, cancelled>>

\* A worker takes the next attempt.
BeginAttempt ==
    /\ activity = "scheduled"
    /\ activity' = "running"
    /\ attempt' = IF MaxAttempts = Unlimited THEN 1 ELSE attempt + 1
    /\ ran' = ran \cup {<<Loop, pos>>}
    /\ UNCHANGED <<def, phase, pos, results, outputs, uninformed, status, cancelled>>

MayRetry == MaxAttempts = Unlimited \/ attempt < MaxAttempts

\* The attempt fails, or its timeout passes, and there is another one.
Retry ==
    /\ activity = "running"
    /\ MayRetry
    /\ activity' = "scheduled"
    /\ UNCHANGED <<def, phase, pos, attempt, results, outputs, status, uninformed, ran, cancelled>>

\* Mutant: a step whose context is cancelled waits for its activity all the same.
ErrorUnlessCancelled ==
    /\ InLoop
    /\ \/ activity = "running" /\ ~ MayRetry
       \/ activity = "none" /\ Current.kind = "unsupported"

\* executeStep returns an error: the last attempt failed, the type has no case, or
\* the context is cancelled.
Error ==
    /\ InLoop
    /\ \/ activity = "running" /\ ~ MayRetry
       \/ activity = "none" /\ Current.kind = "unsupported"
       \/ cancelled

\* executeStep returns the result of an attempt.
Result ==
    /\ InLoop
    /\ activity = "running"
    /\ ~ cancelled

-----------------------------------------------------------------------------------
(* The loop over the steps. *)

\* The key under which the output of the step at position i is stored besides its id.
Alias(i) == StepName(i)

\* Mutant: positions are counted from 1.
StoreFromOne(i) ==
    LET keys == {def.steps[i + 1].id, Alias(i)}
    IN  [key \in DOMAIN outputs \cup keys |-> IF key \in keys THEN i + 1 ELSE outputs[key]]

Store(i) ==
    LET keys == {def.steps[i + 1].id, Alias(i)}
    IN  [key \in DOMAIN outputs \cup keys |-> IF key \in keys THEN i ELSE outputs[key]]

StepSucceeds ==
    /\ phase = "steps"
    /\ Result
    /\ activity' = "none"
    /\ results' = Append(results, TRUE)
    /\ outputs' = Store(pos)
    /\ pos' = pos + 1
    /\ UNCHANGED <<def, phase, attempt, status, uninformed, ran, cancelled>>

\* Mutant: the result is stored before the error is looked at.
FailureStored ==
    /\ phase = "steps"
    /\ Error
    /\ Current.continueOnError
    /\ activity' = "none"
    /\ results' = Append(results, FALSE)
    /\ outputs' = Store(pos)
    /\ pos' = pos + 1
    /\ UNCHANGED <<def, phase, attempt, status, uninformed, ran, cancelled>>

\* continue_on_error: the failure is recorded and the loop goes on.
StepFailsTolerated ==
    /\ phase = "steps"
    /\ Error
    /\ Current.continueOnError
    /\ activity' = "none"
    /\ results' = Append(results, FALSE)
    /\ pos' = pos + 1
    /\ UNCHANGED <<def, phase, attempt, outputs, status, uninformed, ran, cancelled>>

\* Mutant: the loop is not left.
StepFailsWithoutBreak ==
    /\ phase = "steps"
    /\ Error
    /\ ~ Current.continueOnError
    /\ activity' = "none"
    /\ results' = Append(results, FALSE)
    /\ status' = "failed"
    /\ pos' = pos + 1
    /\ UNCHANGED <<def, phase, attempt, outputs, uninformed, ran, cancelled>>

\* The loop is left; on_error comes next.
StepFails ==
    /\ phase = "steps"
    /\ Error
    /\ ~ Current.continueOnError
    /\ activity' = "none"
    /\ results' = Append(results, FALSE)
    /\ status' = "failed"
    /\ phase' = "handlers"
    /\ pos' = 0
    /\ UNCHANGED <<def, attempt, outputs, uninformed, ran, cancelled>>

\* Every step has a result; on_success comes next.
StepsDone ==
    /\ phase = "steps"
    /\ pos = Len(def.steps)
    /\ status' = "completed"
    /\ phase' = "handlers"
    /\ pos' = 0
    /\ UNCHANGED <<def, activity, attempt, results, outputs, uninformed, ran, cancelled>>

-----------------------------------------------------------------------------------
(* The loop over on_success or on_error: results and errors are dropped. *)

\* Mutant: a handler that fails ends the loop.
HandlersStopAtError ==
    /\ phase = "handlers"
    /\ Error \/ Result
    /\ activity' = "none"
    /\ pos' = IF Error THEN Len(Steps) ELSE pos + 1
    /\ UNCHANGED <<def, phase, attempt, results, outputs, status, uninformed, ran, cancelled>>

HandlerEnds ==
    /\ phase = "handlers"
    /\ Error \/ Result
    /\ activity' = "none"
    /\ pos' = pos + 1
    /\ UNCHANGED <<def, phase, attempt, results, outputs, status, uninformed, ran, cancelled>>

Return ==
    /\ phase = "handlers"
    /\ pos = Len(Steps)
    /\ phase' = "done"
    /\ UNCHANGED <<def, pos, activity, attempt, results, outputs, status, uninformed, ran, cancelled>>

\* Somebody cancels the run in Temporal.
Cancel ==
    /\ phase # "done"
    /\ ~ cancelled
    /\ cancelled' = TRUE
    /\ UNCHANGED <<def, phase, pos, activity, attempt, results, outputs, status, uninformed, ran>>

\* The workflow code, which Temporal keeps calling as long as it has something to do.
Workflow ==
    \/ Parse
    \/ Schedule
    \/ StepSucceeds
    \/ StepFailsTolerated
    \/ StepFails
    \/ StepsDone
    \/ HandlerEnds
    \/ Return

Next == Workflow \/ BeginAttempt \/ Retry \/ Cancel

Spec == Init /\ [][Next]_vars

\* Temporal calls the workflow, dispatches the attempts and times them out, as long as
\* a worker polls; a cancellation is a reason of its own to call the workflow, which
\* does not wait for the activity then.  No attempt has to succeed, and nobody has to
\* cancel.
FairSpec == /\ Spec
            /\ WF_vars(Workflow \/ Retry) /\ WF_vars(BeginAttempt)
            /\ WF_vars(cancelled /\ Workflow)

-----------------------------------------------------------------------------------
(* Properties. *)

TypeOK ==
    /\ def \in Definition \cup {Invalid}
    /\ phase \in {"parse", "steps", "handlers", "done"}
    /\ pos \in Nat
    /\ activity \in {"none", "scheduled", "running"}
    /\ attempt \in Nat
    /\ results \in Seq(BOOLEAN)
    /\ DOMAIN outputs \subseteq Name
    /\ \A key \in DOMAIN outputs :
          outputs[key] \in 0 .. Len(results) - 1 \/ (key = InputKey /\ outputs[key] = RunInput)
    /\ uninformed \subseteq {"steps", "onSuccess", "onError"} \X Nat
    /\ status \in {"", "completed", "failed"}
    /\ ran \subseteq {"steps", "onSuccess", "onError"} \X Nat
    /\ cancelled \in BOOLEAN

\* The step at position i has failed without continue_on_error.
Fatal(i) == ~ results[i + 1] /\ ~ def.steps[i + 1].continueOnError

\* Nothing runs past a failure: when an attempt of a step, or a later result, exists,
\* every earlier step has its result, and none of these is a failure that ends the run.
NothingAfterFatalFailure ==
    /\ \A i \in 0 .. Len(results) - 2 : ~ Fatal(i)
    /\ \A mark \in ran : mark[1] = "steps" =>
          /\ mark[2] <= Len(results)
          /\ \A i \in 0 .. mark[2] - 1 : ~ Fatal(i)

\* The status that the run returns follows from its step results: "completed" with a
\* result for every step and no fatal failure, "failed" with the fatal failure last.
StatusMatchesResults ==
    def # Invalid =>
        /\ status = "completed" => /\ Len(results) = Len(def.steps)
                                   /\ \A i \in 0 .. Len(results) - 1 : ~ Fatal(i)
        /\ status = "failed"    => results # <<>> /\ Fatal(Len(results) - 1)
        /\ phase \in {"handlers", "done"} => status # ""

\* The results tell how the run went: a fatal failure is the end of the steps and of the
\* results, and makes the status (dynamic.go:99-125).
ResultsTellTheRun == NothingAfterFatalFailure /\ StatusMatchesResults

\* The handlers that run are those of the status the run ends with, and only of that.
HandlersMatchStatus ==
    \A mark \in ran : /\ mark[1] = "onSuccess" => status = "completed"
                      /\ mark[1] = "onError"   => status = "failed"

\* Without a cancellation every handler with an activity gets its attempt, whatever
\* became of the handlers before it.
EveryHandlerRuns ==
    phase = "done" /\ def # Invalid /\ ~ cancelled =>
        \A i \in 0 .. Len(Steps) - 1 :
            Steps[i + 1].kind = "activity" => <<Loop, i>> \in ran

\* The handlers of the status run, all of them, and no other (dynamic.go:127-136).
HandlersTellTheStatus == HandlersMatchStatus /\ EveryHandlerRuns

\* Under "step_<i>" a later step finds the output of the step at position i counted
\* from 0, if that step succeeded and the author has named no step so.
AliasNamesItsStep ==
    (def # Invalid /\ \A n \in DOMAIN def.steps :
                          def.steps[n].id \in Id \cup {InputKey, NoID, StepName(n)})
    => \A i \in 0 .. Len(results) - 1 :
          results[i + 1] => /\ Alias(i) \in DOMAIN outputs
                            /\ outputs[Alias(i)] = i

\* Authors who give every step an id of its own find under it the output of that step,
\* and nothing if the step failed.
AuthoredIDNamesItsStep ==
    (/\ def # Invalid
     /\ \A n \in DOMAIN def.steps : def.steps[n].id \in Id
     /\ \A m, n \in DOMAIN def.steps : def.steps[m].id = def.steps[n].id => m = n)
    => \A i \in 0 .. Len(results) - 1 :
          LET id == def.steps[i + 1].id
          IN  IF results[i + 1] THEN id \in DOMAIN outputs /\ outputs[id] = i
                                ELSE id \notin DOMAIN outputs

\* A step or handler that takes an id from the input of the run gets it, unless a step
\* before it succeeded whose author named it "input" (dynamic.go:70, 117).
InputReachesSteps ==
    \A mark \in uninformed :
        \E i \in 0 .. (IF mark[1] = "steps" THEN mark[2] ELSE Len(results)) - 1 :
            results[i + 1] /\ def.steps[i + 1].id = InputKey

\* stepOutputs is one map for the input, the positions and the authors' ids, and each of
\* them is found under its key (dynamic.go:70, 117, 118).
KeysNameTheirSteps == AliasNamesItsStep /\ AuthoredIDNamesItsStep /\ InputReachesSteps

\* Every run ends if the timeouts and retry policies of its steps are bounded: no failure,
\* loss or cancellation leaves it waiting.  Bounded means that a timeout that parses is
\* positive, max_attempts is positive as an int32, where 2^32 is 0, and the rest of the
\* policy is one that Temporal accepts.
Bounded(steps) ==
    \A n \in DOMAIN steps :
        /\ steps[n].timeout # NoTimeout => steps[n].timeout > 0
        /\ steps[n].maxAttempts # NoPolicy =>
              Narrow(steps[n].maxAttempts) > 0 /\ steps[n].intervalsAccepted
Terminates ==
    (def # Invalid => Bounded(def.steps) /\ Bounded(def.onSuccess) /\ Bounded(def.onError))
        ~> phase = "done"

\* A cancelled run ends, whatever its timeouts and policies are: also one with unlimited
\* attempts, and one whose schedule commands Temporal refuses.  No handler holds it up.
CancelledRunEnds == cancelled ~> phase = "done"

\* A run ends, by itself as far as its timeouts and policies let it (dynamic.go:155-179),
\* and by a cancellation always.
RunsEnd == Terminates /\ CancelledRunEnds

========================================
