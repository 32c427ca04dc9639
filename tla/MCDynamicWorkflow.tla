---------------------------- MODULE MCDynamicWorkflow -----------------------------
(* Small instances of DynamicWorkflow: all the definitions with up to three steps  *)
(* and up to two handlers made of a few kinds of steps.                            *)
EXTENDS DynamicWorkflow, SequencesExt

CONSTANTS a, b

StepsWith(ids, kinds, attempts, accepted, reads) ==
    [id : ids, kind : kinds, continueOnError : BOOLEAN, timeout : {NoTimeout},
     maxAttempts : attempts, intervalsAccepted : accepted, readsInput : reads]

StepsOf(ids, attempts) ==
    StepsWith(ids, {"activity"}, attempts, {TRUE}, {FALSE})
      \cup StepsWith(ids, {"unsupported"}, {1}, {TRUE}, {FALSE})

Handlers == {<<>>} \cup BoundedSeq(
    [id : {NoID}, kind : Kind, continueOnError : {FALSE}, timeout : {NoTimeout},
     maxAttempts : {1}, intervalsAccepted : {TRUE}, readsInput : {FALSE}], 2)

\* Steps with a timeout of their own, with and without a policy.
TimedSteps ==
    [id : {NoID}, kind : {"activity"}, continueOnError : BOOLEAN, timeout : {-1, 0, 1},
     maxAttempts : {NoPolicy, 1}, intervalsAccepted : {TRUE}, readsInput : {FALSE}]

\* A handler that reads the input, and two that Temporal refuses.
ReadingHandler == <<[id |-> NoID, kind |-> "activity", continueOnError |-> FALSE,
                     timeout |-> NoTimeout, maxAttempts |-> 1, intervalsAccepted |-> TRUE,
                     readsInput |-> TRUE]>>
RefusedHandler == <<[ReadingHandler[1] EXCEPT !.maxAttempts = -1]>>
UntimedHandler == <<[ReadingHandler[1] EXCEPT !.timeout = 0]>>

DefinitionsOf(steps, n, handlers) ==
    [steps : BoundedSeq(steps, n) \ {<<>>}, onSuccess : handlers, onError : handlers]

\* Steps that rely on the default ids; steps with ids of their own, two with the same id
\* included, and steps that are tried for ever; a mixture of both; steps named "input"
\* before steps and handlers that read it; policies that are negative, that wrap to a
\* negative or to 0, or that Temporal refuses; timeouts that are negative, zero or
\* positive, in steps and in handlers.
MCDefinitions ==
    {Invalid} \cup DefinitionsOf(StepsOf({NoID}, {1, 2}), 2, Handlers)
              \cup DefinitionsOf(StepsOf({NoID}, {NoPolicy}), 3, {<<>>})
              \cup DefinitionsOf(StepsOf({a, b}, {Unlimited, 1}), 3, {<<>>})
              \cup DefinitionsOf(StepsOf({NoID, a}, {1}), 2, {<<>>})
              \cup DefinitionsOf(StepsWith({NoID, InputKey}, {"activity"}, {1}, {TRUE}, BOOLEAN),
                                3, {ReadingHandler})
              \cup DefinitionsOf(StepsWith({NoID}, {"activity"}, {-1, 1, 2^(Width - 1), 2^Width},
                                          BOOLEAN, {FALSE}), 2, {<<>>, RefusedHandler})
              \cup DefinitionsOf(TimedSteps, 2, {<<>>, UntimedHandler})
===================================================================================
