---------------------------- MODULE MCAlertEvaluation -----------------------------
(* Small instances of AlertEvaluation: two metrics with the values 0, 1 and 2, a   *)
(* few rules that tell them apart, and cooldowns of 0, 1 and 2 ticks, asked for as  *)
(* they are, by a negative number, or by one that wraps around.                    *)
EXTENDS AlertEvaluation

CONSTANTS cpu, memory, j1, j2, e1, e2

VARIABLE scenario   \* which of the scenarios below a behaviour belongs to

RuleOf(type, operator, cooldown, workflow) ==
    [enabled |-> TRUE, cooldown |-> cooldown, workflow |-> workflow,
     condition |-> [type |-> type, metric |-> cpu, operator |-> operator, threshold |-> 1]]

Above  == RuleOf("threshold", "gt", 2, FALSE)
AtMost == RuleOf("threshold", "lte", 1, TRUE)

\* Up to two samples, of one metric or of two.
MCBatches == BoundedSeq([metric : {cpu}, value : {0, 1}] \cup
                        [metric : {memory}, value : {2}], 2) \ {<<>>}
MCSingles == {<<[metric |-> cpu, value |-> v]>> : v \in 1 .. 2}

NoPatch == [enabled |-> Nil, condition |-> Nil, cooldown |-> Nil, workflow |-> Nil]
MCPatches == {[NoPatch EXCEPT !.enabled = FALSE]}
                 \cup {[NoPatch EXCEPT !.cooldown = c] : c \in {1, 2 * Half}}

\* Rules on both sides of a threshold, and rules that never trigger: one disabled, and
\* for each evaluation one of a type, and for one an operator, that it refuses.
MCOperators ==
    {RuleOf("threshold", o, 1, FALSE) : o \in {"gte", "lt", "ne"}}
      \cup {[Above EXCEPT !.enabled = FALSE],
            [RuleOf("metric_threshold", "ne", 1, TRUE) EXCEPT !.condition.metric = memory]}

\* Rules for the older code.
MCOlder == {RuleOf("metric_threshold", "gte", 1, TRUE), RuleOf("metric_threshold", "ne", -1, FALSE),
            RuleOf("metric_threshold", "neq", 1, FALSE)}

MCRules == {Above, AtMost} \cup MCOperators \cup MCOlder

\* "overlap": two requests and an editor on one rule, who disables the one or gives the
\* other another cooldown; "older": two calls of the older
\* code on one rule; "batch": one of either kind, on up to two rules
\* that stay as they are. Rules are created in "older" only.
RulesOf(s) == CASE s = "overlap" -> {Above, AtMost}
                [] s = "batch"   -> MCOperators
                [] s = "older"   -> MCOlder
JobsOf(s) == CASE s = "overlap" -> {<<j1>>, <<j1, j2>>}
               [] s = "batch"   -> {<<j1>>, <<e1>>}
               [] s = "older"   -> {<<e1>>, <<e1, e2>>}
AllBatches == MCBatches \cup MCSingles
BatchesOf(s) == IF s = "batch" THEN MCBatches ELSE MCSingles

\* The jobs that were begun, of interchangeable ones the first.
Begun == {j \in Job : batch[j] # <<>>}
Within(s) ==
    /\ Begun = {} \/ \E jobs \in JobsOf(s) : Begun = {jobs[i] : i \in DOMAIN jobs}
    /\ \A j \in Begun : batch[j] \in BatchesOf(s)
    /\ IF s = "batch" THEN \A r \in Rule : rules[r] # Gone ELSE rules[2] = NoRow
    /\ \A e \in Editor : edit[e] # NoEdit =>
          /\ s = "overlap"
          /\ edit[e].row.content.condition = AtMost.condition <=> edit[e].row.content.enabled = FALSE

MCInit ==
    /\ Init
    /\ scenario \in {"overlap", "batch", "older"}
    /\ \A r \in Rule : Stored(r) =>
           rules[r].content \in {ContentOf(body) : body \in RulesOf(scenario)}
    /\ Within(scenario)
MCNext ==
    /\ Next
    /\ UNCHANGED scenario
    /\ Within(scenario)'
    /\ \A e \in Editor : edit[e] = NoEdit /\ edit'[e] # NoEdit =>
           edit'[e].row # rules[edit'[e].rule]
    /\ \A r \in Rule : rules[r] = NoRow /\ Stored(r)' =>
           scenario = "older" /\ rules'[r].content \in {ContentOf(body) : body \in RulesOf(scenario)}
MCSpec == MCInit /\ [][MCNext]_<<vars, scenario>> /\ \A j \in Job : WF_vars(Evaluate(j))
===================================================================================
