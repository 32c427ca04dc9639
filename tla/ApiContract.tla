----------------------------- MODULE ApiContract -----------------------------
(* One call through package oas: the generated client (or a request made      *)
(* without it), the network, the generated server, and behind it api.Server   *)
(* of internal/api or another implementation of oas.Handler. The connection   *)
(* may break at any point; net/http sends a request without a body again when *)
(* it broke before the answer, so two attempts of one call may be under way.  *)
(* No middleware is configured and the error handlers are the default ones.   *)
EXTENDS OasServer, OasClient

CONSTANTS
    Call,        \* calls of the client: [op, args, query, req]
    RawRequest,  \* requests made without the client
    Sample(_),   \* the values of a message that handlers answer with
    Stored,      \* <<>> and the rows of workflows, as <<value of a Workflow>>
    MaxAttempts  \* bound: how often the transport sends one request

ASSUME AttemptAssumption == MaxAttempts \in Nat \ {0}

(* The values a Go struct of the message can hold, whether they are valid.    *)
AnyFlat(m) == [set : SUBSET Schema[m].optional,
               bad : SUBSET (Schema[m].required \union Schema[m].optional)]
AnyValue(m) ==
    {v \in [set : SUBSET Schema[m].optional,
            bad : SUBSET (Schema[m].required \union Schema[m].optional),
            data : Seq(AnyFlat(Element[m]))] : Element[m] = "Nothing" => v.data = <<>>}

(* A caller passes what the method takes: a parameter of the query may be     *)
(* left out, and so may the body of ExecuteWorkflow.                          *)
ASSUME CallAssumption ==
    \A c \in Call :
        /\ c.op \in Operation
        /\ DOMAIN c.query = Send[c.op].query
        /\ IF Send[c.op].body = "Nothing" THEN c.req = <<>>
           ELSE \/ c.req = <<>> /\ DecodeRequest[c.op].optional
                \/ c.req = <<c.req[1]>> /\ c.req[1] \in AnyValue(Send[c.op].body)

(* A body made by hand has some media type, or no header for it.              *)
ASSUME RawAssumption == \A q \in RawRequest : q.body.ct \in {"", "json", "other"}

ASSUME SampleAssumption == \A m \in DOMAIN Schema : \A v \in Sample(m) : v \in AnyValue(m)

ASSUME StoredAssumption ==
    <<>> \in Stored /\ \A r \in Stored : r = <<>> \/ \E w \in AnyFlat("Workflow") : r = <<w>>

Attempt == 1..MaxAttempts

VARIABLES
    client,    \* the call of the client, or NoCall
    impl,      \* what implements oas.Handler: "api.Server" or "other"
    row,       \* the row of the workflow the call names
    stage,     \* the stage the client is in
    sent,      \* the request it sends
    attempts,  \* how often it was sent
    result,    \* what the caller got
    todo,      \* todo[a]: the stages the server still has for attempt a
    target,    \* target[a]: the operation a was routed to
    seen,      \* seen[a]: what its handler was called with, <<>> before
    response,  \* response[a]: what its handler returned
    status,    \* status[a]: codeRecorder.status, 0 before
    failed,    \* failed[a]: the stages recorded as errors
    wire,      \* wire[a]: the answer the server wrote, <<>> before
    conn       \* conn[a]: "unused", "open" or "broken"

callVars == <<client, impl, sent>>
clientVars == <<stage, attempts, result>>
serverVars == <<todo, target, seen, response, status, failed>>
vars == <<callVars, row, clientVars, serverVars, wire, conn>>

NoCall == [op |-> "none"]
NoResult == [kind |-> "none"]
Failure(at) == [kind |-> "error", at |-> at, status |-> 0]
Unexpected(s) == [kind |-> "error", at |-> "DecodeResponse", status |-> s]
Typed(t, v) == [kind |-> "typed", type |-> t, value |-> v]
Nil == [kind |-> "nil"]
Outcome(kind) == [kind |-> kind]

NoValue == [set |-> {}, bad |-> {}, data |-> <<>>]
NoContents == [fields |-> {}, bad |-> {}, data |-> <<>>]
ErrorMessage == [fields |-> {"error_message"}, bad |-> {}, data |-> <<>>]

WireRequest(method, path, auth, query, body) ==
    [method |-> method, path |-> path, auth |-> auth, query |-> query, body |-> body]
Answer(s, ct, body) == [status |-> s, ct |-> ct, body |-> body, whole |-> TRUE]

Init ==
    /\ impl \in {"api.Server", "other"}
    /\ row \in Stored
    /\ \/ /\ client \in Call
          /\ sent = WireRequest("", <<>>, "none", [x \in {} |-> <<>>], [ct |-> "", content |-> <<>>])
          /\ stage = "BuildURL"
       \/ client = NoCall /\ sent \in RawRequest /\ stage = "SendRequest"
    /\ attempts = 0 /\ result = NoResult
    /\ todo = [a \in Attempt |-> <<>>]
    /\ target = [a \in Attempt |-> "none"]
    /\ seen = [a \in Attempt |-> <<>>]
    /\ response = [a \in Attempt |-> Outcome("none")]
    /\ status = [a \in Attempt |-> 0]
    /\ failed = [a \in Attempt |-> {}]
    /\ wire = [a \in Attempt |-> <<>>]
    /\ conn = [a \in Attempt |-> "unused"]

-----------------------------------------------------------------------------
(* The client: sendX up to the security source.                               *)
BuildRequest ==
    /\ stage = "BuildURL"
    /\ sent' = WireRequest(Send[client.op].method, BuildURL(client.op, client.args), "none",
                           client.query, EncodeRequest(client.op, client.req))
    /\ stage' = IF Send[client.op].secured THEN "Security" ELSE "SendRequest"
    /\ UNCHANGED <<client, impl, row, attempts, result, serverVars, wire, conn>>

(* The source gives a token; or it fails, or skips: both end the call.        *)
SecureRequest ==
    /\ stage = "Security"
    /\ \/ /\ sent' = [sent EXCEPT !.auth = "bearer"]
          /\ stage' = "SendRequest"
          /\ UNCHANGED result
       \/ /\ stage' = "done" /\ result' = Failure("Security:BearerAuth")
          /\ UNCHANGED sent
    /\ UNCHANGED <<client, impl, row, attempts, serverVars, wire, conn>>

SendRequest ==
    /\ stage = "SendRequest" /\ attempts < MaxAttempts
    /\ attempts' = attempts + 1
    /\ conn' = [conn EXCEPT ![attempts'] = "open"]
    /\ todo' = [todo EXCEPT ![attempts'] = <<"Route">>]
    /\ stage' = "wait"
    /\ UNCHANGED <<callVars, row, result, target, seen, response, status, failed, wire>>

\* Mutant: only what can be sent again is looked after.
ConnectionLostUnseen ==
    /\ stage = "wait" /\ conn[attempts] = "broken" /\ wire[attempts] = <<>>
    /\ sent.method \in {"GET", "OPTIONS"}
    /\ stage' = "done" /\ result' = Failure("SendRequest")
    /\ UNCHANGED <<callVars, row, attempts, serverVars, wire, conn>>

(* Before any of the answer came: the transport sends a request that has no   *)
(* body and an idempotent method once more, or Do returns the error.          *)
ConnectionLost ==
    /\ stage = "wait" /\ conn[attempts] = "broken" /\ wire[attempts] = <<>>
    /\ \/ /\ sent.method \in {"GET", "OPTIONS"} /\ attempts < MaxAttempts
          /\ stage' = "SendRequest" /\ UNCHANGED result
       \/ stage' = "done" /\ result' = Failure("SendRequest")
    /\ UNCHANGED <<callVars, row, attempts, serverVars, wire, conn>>

(* decodeXResponse of an answer.                                              *)
ResultOf(op, ans) ==
    IF ans.status \notin DOMAIN DecodeResponse[op] THEN Unexpected(ans.status)
    ELSE LET t == DecodeResponse[op][ans.status]
             m == Aliased(t)
         IN  CASE t = "NoContent" -> Typed(t, NoValue)
               [] t # "NoContent" /\ ans.ct = "json" /\ ans.whole /\ Decodes(m, ans.body)
                  /\ Valid(m, Decoded(m, ans.body)) -> Typed(t, Decoded(m, ans.body))
               [] OTHER -> Failure("DecodeResponse")

ReceiveAnswer ==
    /\ stage = "wait" /\ wire[attempts] # <<>>
    /\ stage' = "done"
    /\ result' = IF client = NoCall THEN Outcome("raw")
                 ELSE ResultOf(client.op, wire[attempts][1])
    /\ UNCHANGED <<callVars, row, attempts, serverVars, wire, conn>>

-----------------------------------------------------------------------------
(* The connection of an attempt breaks: an answer already written may be cut. *)
Break(a) ==
    /\ conn[a] = "open" /\ result = NoResult
    /\ conn' = [conn EXCEPT ![a] = "broken"]
    /\ wire' = [wire EXCEPT ![a] = IF @ = <<>> THEN @ ELSE <<[@[1] EXCEPT !.whole = FALSE]>>]
    /\ UNCHANGED <<callVars, row, clientVars, serverVars>>

(* What the server writes arrives on a connection that is open.               *)
Write(a, answer) == wire' = [wire EXCEPT ![a] = IF conn[a] = "open" THEN <<answer>> ELSE @]

(* A stage fails: the default error handler writes a message with the status, *)
(* and the stage is recorded.                                                 *)
Refuse(a, s, at) ==
    /\ todo' = [todo EXCEPT ![a] = <<>>]
    /\ status' = [status EXCEPT ![a] = s]
    /\ failed' = [failed EXCEPT ![a] = @ \union {at}]
    /\ Write(a, Answer(s, "json", ErrorMessage))

Proceed(a) == todo' = [todo EXCEPT ![a] = Tail(@)] /\ UNCHANGED <<status, failed, wire>>

At(a, s) == todo[a] # <<>> /\ Head(todo[a]) = s

RouteTo(a) == ServeHTTP(sent.method, sent.path)

(* ServeHTTP: outside a handler nothing is recorded.                          *)
RouteRequest(a) ==
    /\ At(a, "Route")
    /\ target' = [target EXCEPT ![a] = RouteTo(a).op]
    /\ CASE RouteTo(a).op = "NotFound" ->
              todo' = [todo EXCEPT ![a] = <<>>] /\ Write(a, Answer(404, "text", NoContents))
         [] RouteTo(a).op = "NotAllowed" ->
              /\ todo' = [todo EXCEPT ![a] = <<>>]
              /\ Write(a, Answer(IF sent.method = "OPTIONS" THEN 204 ELSE 405, "", NoContents))
         [] RouteTo(a).op \in Operation ->
              todo' = [todo EXCEPT ![a] = Handle[RouteTo(a).op]] /\ UNCHANGED wire
    /\ UNCHANGED <<callVars, row, clientVars, seen, response, status, failed, conn>>

(* securityBearerAuth: the SecurityHandler accepts a token, refuses it, or    *)
(* skips; without a bearer token, or skipped, the requirement is not met.     *)
CheckSecurity(a) ==
    /\ At(a, "Security")
    /\ \/ sent.auth = "bearer" /\ Proceed(a)
       \/ Refuse(a, 401, "Security")
    /\ UNCHANGED <<callVars, row, clientVars, target, seen, response, conn>>

DecodeParamsStage(a) ==
    /\ At(a, "DecodeParams")
    /\ IF ParamsDecode(target[a], RouteTo(a).args, sent.query) THEN Proceed(a)
       ELSE Refuse(a, 400, "DecodeParams")
    /\ UNCHANGED <<callVars, row, clientVars, target, seen, response, conn>>

DecodeRequestStage(a) ==
    /\ At(a, "DecodeRequest")
    /\ IF RequestError(target[a], sent.body) = 0 THEN Proceed(a)
       ELSE Refuse(a, RequestError(target[a], sent.body), "DecodeRequest")
    /\ UNCHANGED <<callVars, row, clientVars, target, seen, response, conn>>

-----------------------------------------------------------------------------
(* api.Server. What one of its methods may return, with the row it leaves: an *)
(* error of the database is a NotFound, a workflow is mapped as it is stored, *)
(* a page is empty and repeats the page and limit it was asked for.           *)
Healthy(q) == {<<Typed("OK", NoValue), row>>}
HealthCheck(q) == Healthy(q)
LivenessProbe(q) == Healthy(q)
ReadinessProbe(q) == Healthy(q)

EmptyPage(type, q) ==
    {<<Typed(type, [NoValue EXCEPT !.bad =
           (IF q.page[1] < 1 THEN {"page"} ELSE {}) \union
           (IF q.limit[1] \notin 1..100 THEN {"limit"} ELSE {})]), row>>}
ListWorkflows(q) == EmptyPage("PaginatedWorkflows", q)
ListExecutions(q) == EmptyPage("PaginatedExecutions", q)
ListAlerts(q) == EmptyPage("PaginatedAlerts", q)
ListAuditLogs(q) == EmptyPage("PaginatedAuditLogs", q)

MapWorkflowToAPI(w) ==
    [set |-> {f \in {"description", "schedule", "created_by"} : f \in w.set}, bad |-> w.bad]

GetWorkflow(q) ==
    {<<Typed("NotFound", NoValue), row>>} \union
    {<<Typed("WorkflowResponse", [NoValue EXCEPT !.data = <<MapWorkflowToAPI(row[i])>>]), row>> :
        i \in DOMAIN row}

DeleteWorkflow(q) == {<<Typed("NoContent", NoValue), <<>>>>, <<Typed("NotFound", NoValue), row>>}

Unimplemented == {<<Outcome("unimplemented"), row>>}

ServerOutcome(op, q) ==
    CASE op = "HealthCheck"    -> HealthCheck(q)
      [] op = "LivenessProbe"  -> LivenessProbe(q)
      [] op = "ReadinessProbe" -> ReadinessProbe(q)
      [] op = "ListWorkflows"  -> ListWorkflows(q)
      [] op = "ListExecutions" -> ListExecutions(q)
      [] op = "ListAlerts"     -> ListAlerts(q)
      [] op = "ListAuditLogs"  -> ListAuditLogs(q)
      [] op = "GetWorkflow"    -> GetWorkflow(q)
      [] op = "DeleteWorkflow" -> DeleteWorkflow(q)
      [] OTHER                 -> Unimplemented

(* Another implementation may return any answer of the operation, nil, an     *)
(* error, or panic. Its errors are its own: none of them wraps an error of    *)
(* ogen, to which the error handler would give the status of that error.      *)
OtherOutcome(op) ==
    {<<r, row>> : r \in
        (UNION {{Typed(t, v) : v \in Sample(Aliased(t))} : t \in DOMAIN EncodeResponse[op]})
        \union {Nil, Outcome("error"), Outcome("unimplemented"), Outcome("panic")}}

(* The handler is called. net/http recovers a panic and closes the connection.*)
CallHandler(a) ==
    /\ At(a, "Internal")
    /\ seen' = [seen EXCEPT ![a] = <<[args |-> RouteTo(a).args,
                                      query |-> QuerySeen(target[a], sent.query),
                                      req |-> RequestSeen(target[a], sent.body)]>>]
    /\ \E o \in IF impl = "api.Server" THEN ServerOutcome(target[a], seen'[a][1].query)
                ELSE OtherOutcome(target[a]) :
          /\ response' = [response EXCEPT ![a] = o[1]]
          /\ row' = o[2]
          /\ \/ o[1].kind \in {"typed", "nil"} /\ Proceed(a) /\ UNCHANGED conn
             \/ o[1].kind = "error" /\ Refuse(a, 500, "Internal") /\ UNCHANGED conn
             \/ o[1].kind = "unimplemented" /\ Refuse(a, 501, "Internal") /\ UNCHANGED conn
             \/ /\ o[1].kind = "panic"
                /\ todo' = [todo EXCEPT ![a] = <<>>]
                /\ conn' = [conn EXCEPT ![a] = "broken"]
                /\ UNCHANGED <<status, failed, wire>>
    /\ UNCHANGED <<callVars, clientVars, target>>

StatusOf(a) == EncodeResponse[target[a]][response[a].type]

AnswerOf(a) ==
    LET m == Aliased(response[a].type)
    IN  IF response[a].type = "NoContent" THEN Answer(StatusOf(a), "", NoContents)
        ELSE Answer(StatusOf(a), "json", Encoded(m, response[a].value))

\* Mutant: the status is written before the type of the response is looked at.
WriteResponseEarly(a) ==
    /\ At(a, "EncodeResponse")
    /\ todo' = [todo EXCEPT ![a] = <<>>]
    /\ status' = [status EXCEPT ![a] = IF response[a] = Nil THEN 500 ELSE StatusOf(a)]
    /\ failed' = [failed EXCEPT ![a] = IF response[a] = Nil THEN {"EncodeResponse"} ELSE @]
    /\ Write(a, IF response[a] = Nil THEN Answer(200, "json", ErrorMessage) ELSE AnswerOf(a))
    /\ UNCHANGED <<callVars, row, clientVars, target, seen, response, conn>>

(* encodeXResponse: the header, then the body. When the body cannot be written*)
(* because the connection breaks, the error handler is called with the header *)
(* already sent, and the status it asks for is the one the recorder keeps.    *)
WriteResponse(a) ==
    /\ At(a, "EncodeResponse")
    /\ \/ response[a] = Nil /\ Refuse(a, 500, "EncodeResponse") /\ UNCHANGED conn
       \/ /\ response[a] # Nil
          /\ todo' = [todo EXCEPT ![a] = <<>>]
          /\ status' = [status EXCEPT ![a] = StatusOf(a)]
          /\ Write(a, AnswerOf(a))
          /\ UNCHANGED <<failed, conn>>
       \/ /\ response[a] # Nil /\ response[a].type # "NoContent"
          /\ todo' = [todo EXCEPT ![a] = <<>>]
          /\ status' = [status EXCEPT ![a] = 500]
          /\ failed' = [failed EXCEPT ![a] = @ \union {"EncodeResponse"}]
          /\ Write(a, [AnswerOf(a) EXCEPT !.whole = FALSE])
          /\ conn' = [conn EXCEPT ![a] = "broken"]
    /\ UNCHANGED <<callVars, row, clientVars, target, seen, response>>

ClientStep == BuildRequest \/ SecureRequest \/ SendRequest \/ ConnectionLost \/ ReceiveAnswer

ServerStep(a) ==
    \/ RouteRequest(a) \/ CheckSecurity(a) \/ DecodeParamsStage(a) \/ DecodeRequestStage(a)
    \/ CallHandler(a) \/ WriteResponse(a)

Next == ClientStep \/ \E a \in Attempt : ServerStep(a) \/ Break(a)

(* The caller and the server go on; nothing makes a connection break.         *)
Spec == Init /\ [][Next]_vars /\ WF_vars(ClientStep)
             /\ \A a \in Attempt : WF_vars(ServerStep(a))

-----------------------------------------------------------------------------
Operations == Operation \union {"none", "NotFound", "NotAllowed"}

TypeOK ==
    /\ impl \in {"api.Server", "other"} /\ row \in Stored
    /\ stage \in {"BuildURL", "Security", "SendRequest", "wait", "done"}
    /\ attempts \in 0..MaxAttempts
    /\ result.kind \in {"none", "raw", "error", "typed"}
    /\ target \in [Attempt -> Operations]
    /\ \A a \in Attempt :
          /\ status[a] \in {0} \union 200..599
          /\ failed[a] \subseteq {"Security", "DecodeParams", "DecodeRequest", "Internal", "EncodeResponse"}
          /\ conn[a] \in {"unused", "open", "broken"}
          /\ response[a].kind = "typed" => response[a].type \in DOMAIN EncodeResponse[target[a]]
          /\ seen[a] # <<>> => seen[a][1].args = DecodeParams[target[a]].path

Called == client # NoCall
Ran(a) == seen[a] # <<>>

(* A typed value the client's caller gets is the one that the handler of its  *)
(* own operation returned, whole and valid: never an error message of the     *)
(* server, never the answer of another route (oas_response_decoders_gen.go).  *)
TypedAnswerIsTheHandlers ==
    result.kind = "typed" =>
        /\ target[attempts] = client.op
        /\ response[attempts] = result
        /\ Valid(Aliased(result.type), result.value)

(* Whatever attempt reaches a handler reaches that of the call's operation,   *)
(* with the body the caller passed, its arguments in order and its query, the *)
(* defaults 1 and 20 for the page and limit left out, and within 1..100.      *)
HandlerSeesTheCall ==
    \A a \in Attempt : Called /\ Ran(a) =>
        /\ target[a] = client.op
        /\ seen[a][1].req = client.req
        /\ \A name \in DOMAIN client.query :
              client.query[name] # <<>> => seen[a][1].query[name] = client.query[name]
        /\ \A name \in DOMAIN seen[a][1].query :
              /\ name = "page" /\ client.query[name] = <<>> => seen[a][1].query[name] = <<1>>
              /\ name = "limit" /\ client.query[name] = <<>> => seen[a][1].query[name] = <<20>>
              /\ name = "limit" => seen[a][1].query[name][1] \in 1..100

(* A status the operation does not declare and that blames the request means  *)
(* that no attempt of the call reached a handler.                             *)
RefusedMeansUntouched ==
    (Called /\ result.kind = "error" /\ result.status \in 400..499) =>
        \A a \in Attempt : ~Ran(a)

(* The caller is denied the answer a handler returned only when a connection  *)
(* broke or the answer breaks the document; api.Server breaks it only with a  *)
(* row that does.                                                             *)
LostOnlyToFaults ==
    (Called /\ result.kind = "error" /\ attempts > 0 /\ response[attempts].kind = "typed") =>
        \/ \E a \in Attempt : conn[a] = "broken"
        \/ /\ ~Valid(Aliased(response[attempts].type), response[attempts].value)
           /\ impl = "api.Server" => row # <<>> /\ row[1].bad # {}

(* What the server counts as an error of an attempt is an error for the caller*)
(* too: the message of the error handler never decodes as a declared answer.  *)
CountedErrorsAreSeen ==
    (Called /\ result.kind = "typed") => failed[attempts] = {}

(* The status on the server's metrics is the status the client was sent,      *)
(* unless the body could not be written (codeRecorder, oas_handlers_gen.go:22)*)
RecordedIsWritten ==
    \A a \in Attempt :
        (wire[a] # <<>> /\ target[a] \in Operation) =>
            \/ status[a] = wire[a][1].status
            \/ status[a] = 500 /\ ~wire[a][1].whole /\ conn[a] = "broken"

(* ServeHTTP and FindPath, which walk the same tree in two functions, agree on*)
(* the operation and the arguments of every request.                          *)
RoutersAgree ==
    LET s == ServeHTTP(sent.method, sent.path)
        f == FindPath(sent.method, sent.path)
    IN  IF s.op \in Operation THEN f.name = s.op /\ f.args = s.args /\ f.count = Len(s.args)
        ELSE f = NotFoundRoute

(* A caller of api.Server that is told NoContent can rely on it: the workflow *)
(* is gone (handlers.go:102). The transport never sends a DELETE again.       *)
DeletedIsGone ==
    (impl = "api.Server" /\ result.kind = "typed" /\ result.type = "NoContent") => row = <<>>

(* What the caller gets from the operation is what its handler meant, and it  *)
(* gets it: no error passes for an answer, and no answer for an error.        *)
AnswersArrive ==
    TypedAnswerIsTheHandlers /\ CountedErrorsAreSeen /\ LostOnlyToFaults /\ DeletedIsGone

(* Both routers, the client's URL and the decoders lead to the same call.     *)
RoutedAsCalled == RoutersAgree /\ HandlerSeesTheCall

(* A status tells the truth to the caller and to the server's metrics.        *)
StatusesAreHonest == RefusedMeansUntouched /\ RecordedIsWritten

(* Every call returns, whatever breaks.                                       *)
EveryCallReturns == <>(stage = "done")
=============================================================================
