----------------------------- MODULE Admission -----------------------------
(* The middleware chain in front of the routes under /api/v1 and the          *)
(* connections its statements run on: auth.Middleware fetches the key set of  *)
(* Keycloak once per life of the process and checks the bearer token, then    *)
(* auth.TenantMiddleware writes the tenant of the token into a setting of a   *)
(* pooled connection, for the policies of migration 002 to read.              *)
(*                                                                            *)
(* SkipPaths is {"/health"} and the chain is mounted under /api/v1 only, so   *)
(* the skip at the top of Handler is never taken there and is left out.       *)
(* The key server, keyfunc, jwt and PostgreSQL are external.                  *)
EXTENDS Naturals

CONSTANTS
    Request,      \* requests a client may send
    Credential,   \* Authorization headers: see CredentialAssumption
    Tenant,       \* tenants with an id of their own
    NoTenant,     \* uuid.Nil: a token that names no tenant, or none that parses
    NoUser,       \* no user in the context of the request
    Conn,         \* connections of the pool
    MaxLives      \* bound: how often the process may be started

Unset == "unset"   \* current_setting(..., true) is NULL on this connection
Blank == "blank"   \* ... is '': a setting local to a transaction that ended

(* header: what Authorization holds; genuine: signed by the realm with RS256, *)
(* by its issuer, not expired; tenant: what its tenant_id claim parses to.    *)
ASSUME CredentialAssumption ==
    Credential \subseteq [header : {"none", "malformed", "bearer"},
                          genuine : BOOLEAN, tenant : Tenant \union {NoTenant}]

ASSUME NullAssumption == NoTenant \notin Tenant /\ NoUser \notin Tenant \union {NoTenant}

ASSUME LivesAssumption == MaxLives \in Nat \ {0}

VARIABLES
    once,       \* the sync.Once around the fetch of the key set
    jwks,       \* m.jwks and m.jwksErr: unset, keys, empty or error
    life,       \* how often the process has been started
    verdicts,   \* what this life has told its clients: "refused", "admitted"
    setting,    \* setting[c]: app.current_tenant_id on connection c
    role,       \* the role the pool logs in as
    cred,       \* cred[r]: the header request r carries
    pc,         \* pc[r]: where request r is
    user,       \* user[r]: the tenant of the user in the context of r
    code        \* code[r]: the HTTP status r was answered with, 0 before

admissionVars == <<once, jwks, life, verdicts, setting, role, cred, pc, user, code>>

Stages == {"idle", "keys", "fetching", "tenant", "handler", "select", "count", "done"}

AdmissionTypeOK ==
    /\ once \in {"new", "running", "done"}
    /\ jwks \in {"unset", "keys", "empty", "error"}
    /\ life \in 1..MaxLives
    /\ verdicts \subseteq {"refused", "admitted"}
    /\ setting \in [Conn -> Tenant \union {Unset, Blank}]
    /\ role \in {"postgres", "orchestrix_app"}
    /\ cred \in [Request -> Credential]
    /\ pc \in [Request -> Stages]
    /\ user \in [Request -> Tenant \union {NoTenant, NoUser}]
    /\ code \in [Request -> {0, 200, 401, 500, 503}]

\* The process has just been started, or has been up for a while.
AdmissionInit ==
    /\ \/ once = "new" /\ jwks = "unset"
       \/ once = "done" /\ jwks = "keys"
    /\ life \in 1..MaxLives /\ verdicts = {}
    /\ setting \in [Conn -> {Unset, Blank}]
    /\ role \in {"postgres", "orchestrix_app"}
    /\ cred \in [Request -> Credential]
    /\ pc \in [Request -> {"idle", "done"}]   \* done: a client that does not come
    /\ user = [r \in Request |-> NoUser]
    /\ code = [r \in Request |-> 0]

InFlight(r) == pc[r] \notin {"idle", "done"}

(* The request leaves with status s. *)
Answer(r, s) == pc' = [pc EXCEPT ![r] = "done"] /\ code' = [code EXCEPT ![r] = s]

-----------------------------------------------------------------------------
\* Mutant: a setting of the session, as in pkg/database.
SettingOfSession(c, t) == t

(* A statement runs on any connection. set_config with is_local TRUE outside  *)
(* a transaction lasts for that one statement: a connection that never had    *)
(* the setting keeps an empty one, a connection with a setting returns to it. *)
SettingAfter(c, t) == IF setting[c] = Unset THEN Blank ELSE setting[c]

SetConfig(t) == \E c \in Conn : setting' = [setting EXCEPT ![c] = SettingAfter(c, t)]

(* What a policy of migration 002 decides for the statement of a connection:  *)
(* the superuser reads everything, NULL matches nothing, '' is no uuid.       *)
PolicyOf(c) ==
    IF role = "postgres" THEN "bypassed"
    ELSE CASE setting[c] = Unset -> "nothing"
           [] setting[c] = Blank -> "error"
           [] OTHER              -> "own"

-----------------------------------------------------------------------------
Arrive(r) ==
    /\ pc[r] = "idle"
    /\ pc' = [pc EXCEPT ![r] = "keys"]
    /\ UNCHANGED <<once, jwks, life, verdicts, setting, role, cred, user, code>>

(* The first request runs the function of the Once; the others wait in Do.    *)
StartFetch(r) ==
    /\ pc[r] = "keys" /\ once = "new"
    /\ once' = "running"
    /\ pc' = [pc EXCEPT ![r] = "fetching"]
    /\ UNCHANGED <<jwks, life, verdicts, setting, role, cred, user, code>>

\* Mutant: a fetch that failed is made again.
EndFetchForgotten(r) ==
    /\ pc[r] = "fetching"
    /\ jwks' \in {"keys", "empty", "error"}
    /\ once' = IF jwks' = "error" THEN "new" ELSE "done"
    /\ IF jwks' = "error" THEN Answer(r, 503) /\ verdicts' = verdicts \union {"refused"}
       ELSE pc' = [pc EXCEPT ![r] = "keys"] /\ UNCHANGED <<verdicts, code>>
    /\ UNCHANGED <<life, setting, role, cred, user>>

\* Mutant: a fetch that fails never leaves the Once.
EndFetchStuck(r) ==
    /\ pc[r] = "fetching"
    /\ jwks' \in {"keys", "empty"}
    /\ once' = IF jwks' = "keys" THEN "done" ELSE "running"
    /\ pc' = [pc EXCEPT ![r] = "keys"]
    /\ UNCHANGED <<life, verdicts, setting, role, cred, user, code>>

(* keyfunc answers, or its ten seconds are over: it has keys, or an error, or *)
(* no error and no keys, since it may report a failed first fetch to its log. *)
EndFetch(r) ==
    /\ pc[r] = "fetching"
    /\ jwks' \in {"keys", "empty", "error"}
    /\ once' = "done"
    /\ pc' = [pc EXCEPT ![r] = "keys"]
    /\ UNCHANGED <<life, verdicts, setting, role, cred, user, code>>

(* jwt.ParseWithClaims: without keys it fails, unless the library looks an    *)
(* unknown key up again.                                                      *)
Verified(r) == cred[r].genuine /\ jwks \in {"keys", "empty"}
Rejected(r) == ~cred[r].genuine \/ jwks = "empty"

KeysUnavailable(r) ==
    /\ pc[r] = "keys" /\ once = "done" /\ jwks = "error"
    /\ Answer(r, 503)
    /\ verdicts' = verdicts \union {"refused"}
    /\ UNCHANGED <<once, jwks, life, setting, role, cred, user>>

Unauthorized(r) ==
    /\ pc[r] = "keys" /\ once = "done" /\ jwks # "error"
    /\ cred[r].header = "bearer" => Rejected(r)
    /\ Answer(r, 401)
    /\ UNCHANGED <<once, jwks, life, verdicts, setting, role, cred, user>>

Authorized(r) ==
    /\ pc[r] = "keys" /\ once = "done" /\ jwks # "error"
    /\ cred[r].header = "bearer" /\ Verified(r)
    /\ user' = [user EXCEPT ![r] = cred[r].tenant]
    /\ pc' = [pc EXCEPT ![r] = "tenant"]
    /\ verdicts' = verdicts \union {"admitted"}
    /\ UNCHANGED <<once, jwks, life, setting, role, cred, code>>

(* TenantMiddleware: a user without a tenant is let through as it is.         *)
SetTenant(r) ==
    /\ pc[r] = "tenant"
    /\ \/ /\ user[r] = NoTenant
          /\ pc' = [pc EXCEPT ![r] = "handler"]
          /\ UNCHANGED <<setting, code>>
       \/ /\ user[r] # NoTenant
          /\ SetConfig(user[r])
          /\ pc' = [pc EXCEPT ![r] = "handler"]
          /\ UNCHANGED code
       \/ /\ user[r] # NoTenant
          /\ Answer(r, 500)
          /\ UNCHANGED setting
    /\ UNCHANGED <<once, jwks, life, verdicts, role, cred, user>>

(* The process ends and is started again: the requests in it are lost, the    *)
(* Once and the key set are new, and so are the connections of the pool.      *)
Restart ==
    /\ life < MaxLives
    /\ life' = life + 1
    /\ once' = "new" /\ jwks' = "unset" /\ verdicts' = {}
    /\ setting' = [c \in Conn |-> Unset]
    /\ pc' = [r \in Request |-> IF InFlight(r) THEN "done" ELSE pc[r]]
    /\ UNCHANGED <<role, cred, user, code>>

AdmissionStep(r) ==
    \/ Arrive(r) \/ StartFetch(r) \/ EndFetch(r)
    \/ KeysUnavailable(r) \/ Unauthorized(r) \/ Authorized(r) \/ SetTenant(r)

-----------------------------------------------------------------------------
(* In one life of the process nobody is admitted once somebody was told that  *)
(* the authentication service is unavailable, nor the other way round: the    *)
(* outcome of the first fetch is every later request's (middleware.go:76).    *)
OneVerdictPerLife == ~({"refused", "admitted"} \subseteq verdicts)

(* Requests that wait in the Once wait for one that is fetching: nobody waits *)
(* for a fetch that no request is making, and no two requests make it.        *)
OneFetch ==
    /\ once = "running" <=> \E r \in Request : pc[r] = "fetching"
    /\ \A r, s \in Request : pc[r] = "fetching" /\ pc[s] = "fetching" => r = s
=============================================================================
