---------------------------- MODULE RequestPath ----------------------------
(***************************************************************************)
(* The way of a request through apps/api: the route table and its handlers *)
(* (internal/router/router.go), the guards (internal/middleware/auth.go)   *)
(* and the two middlewares around all of them, chi's Recoverer and, inside *)
(* it, Logger (internal/middleware/logger.go).                             *)
(*                                                                         *)
(* What the login and OTP handlers do is in AuthSessions and OtpService;   *)
(* here they answer one of the statuses of AuthReplies.                    *)
(***************************************************************************)
EXTENDS Sequences, Integers

CONSTANTS
    Requests,
    Roles, Allowed,  \* the roles that are tried, and those RequireRole is given
    AuthReplies,     \* statuses the handlers under /auth answer
    None

\* The roles of domain/auth.go.
Role == {"consumer", "merchant", "courier", "wholesaler", "backoffice_admin",
         "superadmin"}

VARIABLE req         \* the requests of the process that is running

\* "managed" is the chain of middleware/auth_test.go, the only one with
\* RequireRole: no route of the program is mounted behind it yet.
Routes == {"health", "auth", "me", "managed", "unknown"}

\* Mutant: /me is mounted behind RequireAuth alone.
Chain_AnyStatus(route) ==
    CASE route = "me" -> <<"RequireAuth", "handler">>
      [] route = "managed" -> <<"RequireAuth", "RequireRole", "handler">>
      [] OTHER -> <<"handler">>

\* The middlewares a route is mounted behind, then its handler.
Chain(route) ==
    CASE route = "me" -> <<"RequireAuth", "RequireActiveAccount", "handler">>
      [] route = "managed" -> <<"RequireAuth", "RequireRole", "handler">>
      [] OTHER -> <<"handler">>

Guarded(route) == Len(Chain(route)) > 1

\* What decides of an access token.  A request without a header, or with one
\* that is no bearer token of this service, carries None.
Claims == [role : Roles, status : {"active", "other"}]

\* No guard reads the header of an open route.
HeadersOf(route) == IF Guarded(route) THEN Claims \cup {None} ELSE {None}

\* at      the middlewares passed, then the end: 0 before the request is read
\* claims  in the context of the request
\* status  written to the client, 0 while nothing is
\* log     the status in the line Logger has written
Waiting == [at |-> "none", next |-> 0, route |-> None, header |-> None,
            claims |-> None, status |-> 0, log |-> None]

Status == {0, 200, 401, 403, 404, 405, 500} \cup AuthReplies

ASSUME PathAssumption ==
    /\ Roles \subseteq Role /\ Allowed \subseteq Roles
    /\ AuthReplies \subseteq Nat \ {0}
    /\ None \notin Routes \cup Claims \cup Status

RequestType ==
    [at : {"none", "chain", "returned", "panicking", "recovering", "done"},
     next : 0..3, route : Routes \cup {None}, header : Claims \cup {None},
     claims : Claims \cup {None}, status : Status, log : Status \cup {None}]

InFlight == {r \in Requests : req[r].at \notin {"none", "done"}}

----------------------------------------------------------------------------
PathInit == req = [r \in Requests |-> Waiting]

\* A connection is accepted and the request of it read: Recoverer and Logger
\* are entered, and the route is looked up.
Accept(r) ==
    /\ req[r] = Waiting
    /\ \E route \in Routes : \E h \in HeadersOf(route) :
          req' = [req EXCEPT ![r].at = "chain", ![r].next = 1,
                             ![r].route = route, ![r].header = h]

Reached(r, middleware) ==
    req[r].at = "chain" /\ Chain(req[r].route)[req[r].next] = middleware

\* next.ServeHTTP, with the claims in the context.
ServeNext(r, claims) ==
    req' = [req EXCEPT ![r].next = @ + 1, ![r].claims = claims]

\* The status is written and the middleware or handler returns.
Reply(r, status) ==
    req' = [req EXCEPT ![r].at = "returned", ![r].status = status]

\* The token is validated; it may be expired whatever its claims are.
RequireAuth(r) ==
    /\ Reached(r, "RequireAuth")
    /\ \/ req[r].header # None /\ ServeNext(r, req[r].header)
       \/ Reply(r, 401)

RequireRole(r) ==
    /\ Reached(r, "RequireRole")
    /\ CASE req[r].claims = None -> Reply(r, 401)
         [] req[r].claims # None /\ req[r].claims.role \notin Allowed ->
               Reply(r, 403)
         [] OTHER -> ServeNext(r, req[r].claims)

RequireActiveAccount(r) ==
    /\ Reached(r, "RequireActiveAccount")
    /\ CASE req[r].claims = None -> Reply(r, 401)
         [] req[r].claims # None /\ req[r].claims.status # "active" ->
               Reply(r, 403)
         [] OTHER -> ServeNext(r, req[r].claims)

\* What the handler of a route answers; chi answers for routes it has not.
Answers(r) ==
    CASE req[r].route = "auth" -> AuthReplies
      [] req[r].route = "unknown" -> {404, 405}
      [] req[r].route = "me" /\ req[r].claims = None -> {401}
      [] OTHER -> {200}

Handle(r) ==
    /\ Reached(r, "handler")
    /\ \E status \in Answers(r) : Reply(r, status)

\* A handler panics, before or after it has written its status.
Panic(r) ==
    /\ Reached(r, "handler")
    /\ \E status \in {0} \cup Answers(r) :
          req' = [req EXCEPT ![r].at = "panicking", ![r].status = status]

\* The request has ended, and its context is gone.
End(r, status, log) ==
    req' = [req EXCEPT ![r] = [Waiting EXCEPT !.at = "done",
                                              !.status = status, !.log = log]]

\* Mutant: Logger does not defer the line.
Log_NotDeferred(r) ==
    \/ req[r].at = "returned" /\ End(r, req[r].status, req[r].status)
    \/ req[r].at = "panicking" /\ req' = [req EXCEPT ![r].at = "recovering"]

\* Logger's deferred call runs, whether the handler returned or panicked.
Log(r) ==
    \/ req[r].at = "returned" /\ End(r, req[r].status, req[r].status)
    \/ /\ req[r].at = "panicking"
       /\ req' = [req EXCEPT ![r].at = "recovering", ![r].log = req[r].status]

\* chi's Recoverer: a status that is written already stays.
Recover(r) ==
    /\ req[r].at = "recovering"
    /\ End(r, IF req[r].status = 0 THEN 500 ELSE req[r].status, req[r].log)

Respond(r) ==
    \/ RequireAuth(r) \/ RequireRole(r) \/ RequireActiveAccount(r)
    \/ Handle(r) \/ Panic(r) \/ Log(r) \/ Recover(r)

----------------------------------------------------------------------------
(***************************************************************************)
(* Properties                                                              *)
(***************************************************************************)

\* Whatever a request carries, the handler of a guarded route is reached, and a
\* success told, only for an access token that was accepted and whose claims
\* satisfy every guard the route is mounted behind.
OnlyAdmitted ==
    \A r \in Requests :
        Guarded(req[r].route) /\ (Reached(r, "handler") \/ req[r].status = 200)
            => /\ req[r].header # None
               /\ req[r].claims = req[r].header
               /\ req[r].route = "me" => req[r].header.status = "active"
               /\ req[r].route = "managed" => req[r].header.role \in Allowed

\* The access log tells of every request that has ended, and what the client was
\* told; only a panic that Recoverer answers, outside Logger, is logged as 0.
AnswerIsLogged ==
    \A r \in Requests :
        req[r].at = "done" =>
            \/ req[r].log = req[r].status
            \/ req[r].log = 0 /\ req[r].status = 500

============================================================================
