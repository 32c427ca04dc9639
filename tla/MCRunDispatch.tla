------------------------------ MODULE MCRunDispatch -------------------------------
(* Small instances of RunDispatch: definitions of up to two steps and one handler. *)
EXTENDS RunDispatch, SequencesExt

Steps1 == [id : {NoID}, kind : Kind, continueOnError : BOOLEAN, timeout : {NoTimeout},
           maxAttempts : {1, 2}, intervalsAccepted : {TRUE}, readsInput : {FALSE}]
Handlers1 == {<<>>, <<[id |-> NoID, kind |-> "activity", continueOnError |-> FALSE,
                       timeout |-> NoTimeout, maxAttempts |-> 1, intervalsAccepted |-> TRUE,
                       readsInput |-> FALSE]>>}

MCDefinitions ==
    {Invalid} \cup [steps : BoundedSeq(Steps1, 2) \ {<<>>}, onSuccess : {<<>>},
                    onError : Handlers1]
===================================================================================
