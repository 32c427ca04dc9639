------------------------------- MODULE RunDispatch --------------------------------
(* From the definition in the workflows table to the one that the worker's        *)
(* DynamicWorkflow parses, by way of WorkflowExecutor.Execute                      *)
(* (adapter/driven/temporal/executor.go).  Sender and receiver agree on a JSON      *)
(* argument that nothing checks.                                                   *)
EXTENDS DynamicWorkflow

VARIABLE stored       \* the definition of the workflow's row

\* domain.WorkflowDefinition has steps only, and those have neither an id, nor a
\* continue_on_error, nor a timeout, nor a retry_policy.
Bare(step) == [step EXCEPT !.id = NoID, !.continueOnError = FALSE, !.timeout = NoTimeout,
                           !.maxAttempts = NoPolicy]

\* The first argument of ExecuteWorkflow: the definition as the domain parses it.
Sent(definition) ==
    [steps |-> [n \in DOMAIN definition.steps |-> Bare(definition.steps[n])]]

\* The worker decodes the first argument as a DynamicWorkflowInput and ignores the
\* others.  Without a field "definition" nothing is left to parse, which is an error.
Received(argument) ==
    IF "definition" \in DOMAIN argument THEN argument.definition ELSE Invalid

DispatchInit ==
    /\ Init
    /\ stored \in Definitions \ {Invalid}
    /\ def = Received(Sent(stored))

DispatchSpec == DispatchInit /\ [][Next /\ UNCHANGED stored]_<<vars, stored>>

-----------------------------------------------------------------------------------
\* "Start the workflow with the definition and input" (executor.go:52): a run that has
\* ended has a result for every step of the stored definition, or for those up to a
\* failure that the stored definition does not tolerate.
StoredStepsAccountedFor ==
    phase = "done" =>
        \/ Len(results) = Len(stored.steps)
        \/ /\ results # <<>>
           /\ ~ results[Len(results)]
           /\ ~ stored.steps[Len(results)].continueOnError
===================================================================================
