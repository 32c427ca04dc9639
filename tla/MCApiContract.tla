---------------------------- MODULE MCApiContract ----------------------------
(* Every operation of the generated client, each with good arguments and with *)
(* arguments outside its limits, and requests no method of the client sends.  *)
EXTENDS ApiContract

\* Values of a message: plain, full, and full with one field Validate refuses.
OneOf(S) == IF S = {} THEN {} ELSE {CHOOSE f \in S : TRUE}
Samples(m) == {[set |-> {}, bad |-> {}], [set |-> Schema[m].optional, bad |-> {}],
               [set |-> Schema[m].optional, bad |-> OneOf(Checked[m] \ {"data"})]}
SampleOf(m) ==
    {[set |-> v.set, bad |-> v.bad, data |-> d] :
        v \in {w \in Samples(m) : m # "Error" \/ w.set # {}}, d \in DataOf(m, Samples(Element[m]))}

StoredRows == {<<>>, <<[set |-> {"schedule"}, bad |-> {}]>>,
               <<[set |-> {"description"}, bad |-> {"name"}]>>}

\* Queries: everything left out, everything given, one parameter out of limits.
Good(name) == CASE name = "page" -> 7 [] name = "limit" -> MaxLimit [] OTHER -> "ok"
OutOfLimits(name) == CASE name = "page" -> 0 [] name = "limit" -> MaxLimit + 1 [] OTHER -> "bad"
Queries(op) ==
    LET q == Send[op].query
    IN  {[n \in q |-> <<>>], [n \in q |-> <<Good(n)>>]}
        \union {[n \in q |-> IF n = x THEN <<OutOfLimits(n)>> ELSE <<Good(n)>>] : x \in q}

ArgTexts(s) == IF s = "resourceType" THEN {"workflow", "other", ""} ELSE {"uuid"}
Arguments(op) ==
    LET names == {Send[op].path[i] : i \in DOMAIN Send[op].path} \intersect Segment
    IN  {f \in [names -> {"workflow", "other", "", "uuid"}] : \A s \in names : f[s] \in ArgTexts(s)}

Requests(op) ==
    CASE Send[op].body = "Nothing" -> {<<>>}
      [] op = "ExecuteWorkflow" -> {<<>>} \union {<<v>> : v \in Value(Send[op].body)}
      [] OTHER -> {<<v>> : v \in Value(Send[op].body)}

Calls == UNION {{[op |-> o, args |-> a, query |-> q, req |-> r] :
                    a \in Arguments(o), q \in Queries(o), r \in Requests(o)} : o \in Operation}

\* Requests made by hand: no token, no such path or method, no proper body.
NoQuery == [x \in {} |-> <<>>]
Absent == [ct |-> "", content |-> <<>>]
RawBodies == {Absent, [ct |-> "json", content |-> <<>>], [ct |-> "other", content |-> <<ErrorMessage>>],
              [ct |-> "", content |-> <<ErrorMessage>>], [ct |-> "json", content |-> <<ErrorMessage>>]}
RawPaths == {<<>>, <<"">>, <<"alerts", "">>, <<"alerts", "uuid", "">>, <<"alerts", "uuid", "resolve", "x">>,
             <<"executions", "other">>, <<"health", "deep">>, <<"audit-logs", "user">>,
             <<"audit-logs", "user", "">>, <<"audit-logs", "resource", "workflow">>,
             <<"workflows", "uuid", "execute">>, <<"workflows", "uuid">>, <<"alerts">>}
RawRequests ==
    {WireRequest(m, p, auth, NoQuery, Absent) :
        m \in {"GET", "DELETE", "OPTIONS"}, p \in RawPaths, auth \in {"none", "bearer"}}
    \union {WireRequest("POST", p, "bearer", NoQuery, b) :
        p \in {<<"alerts">>, <<"workflows">>, <<"workflows", "uuid", "execute">>}, b \in RawBodies}
=============================================================================
