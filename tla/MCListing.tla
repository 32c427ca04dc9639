----------------------------- MODULE MCListing -----------------------------
(* Small instances of Listing: either one client, walking or asking for one   *)
(* page of a table others write to, or several clients at a table of one row  *)
(* that stays as it is. Half is 8: offsets from -8 to 7.                      *)
EXTENDS Listing

CONSTANTS t1, t2, x1, x2, x3, x4

MCRowTenant == (x1 :> t1) @@ (x2 :> t1) @@ (x3 :> t1) @@ (x4 :> t2)
MCRowKey == (x1 :> 1) @@ (x2 :> 2) @@ (x3 :> 2) @@ (x4 :> 3)
MCRowMarked == [x \in Row |-> x # x2]

MCEndpoint == {ListWorkflows, ListRules, QueryMetrics, QueryMetricsByLabels, WorkflowExecutions,
               OlderListAlertsByStatus}

Genuine(t) == [header |-> "bearer", genuine |-> TRUE, tenant |-> t]
Forged == [header |-> "bearer", genuine |-> FALSE, tenant |-> t1]
NoHeader == [header |-> "none", genuine |-> FALSE, tenant |-> NoTenant]

MCCredential == {Genuine(t1), Genuine(NoTenant), Forged, NoHeader}

FirstPage == [page |-> 1, limit |-> 1, walk |-> FALSE]

MCAsk == [page : {1}, limit : {1, 2}, walk : {TRUE}]
           \union {FirstPage,
                  [page |-> 9, limit |-> 1, walk |-> FALSE],
                  [page |-> 17, limit |-> 1, walk |-> FALSE],
                  [page |-> 3, limit |-> 2, walk |-> FALSE],
                  [page |-> 2, limit |-> 7, walk |-> FALSE]}

Somebody == CHOOSE r \in Request : TRUE

\* One client of t1, with a process that has its keys and a pool of the superuser.
OneClient ==
    /\ pc = [s \in Request |-> IF s = Somebody THEN "idle" ELSE "done"]
    /\ once = "done" /\ setting = [c \in Conn |-> Blank]
    /\ life = MaxLives /\ role = "postgres"
    /\ cred = [r \in Request |-> Genuine(t1)]
    /\ table \in {S \union {x4} : S \in SUBSET {x1, x2, x3}} /\ future = Row \ table
    /\ \E e \in Endpoint : endpoint = [r \in Request |-> e]
    /\ \E a \in Ask : ask = [r \in Request |-> a] /\ (a.walk \/ table = Row)

Crowd ==
    /\ pc = [r \in Request |-> "idle"]
    /\ life = 1 /\ once = "new" /\ setting = [c \in Conn |-> Unset]
    /\ table = {x1} /\ future = {}
    /\ cred \in [Request -> Credential]
    /\ \E e \in {ListWorkflows, WorkflowExecutions, QueryMetrics} : endpoint = [r \in Request |-> e]
    /\ ask = [r \in Request |-> FirstPage]

MCInit == (OneClient \/ Crowd) /\ Init

MCSpec == MCInit /\ [][Next]_vars /\ Fairness
============================================================================
