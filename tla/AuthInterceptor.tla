-------------------------- MODULE AuthInterceptor --------------------------
(***************************************************************************)
(* The Flutter package core_network: requests on their way through an      *)
(* AuthInterceptor and a RetryInterceptor.                                 *)
(*                                                                         *)
(* AuthInterceptor is a QueuedInterceptor of the library dio: onError is   *)
(* entered by one failed request at a time, in the order they failed.      *)
(* onRequest has a queue of its own, which that one does not hold back; it *)
(* matters only when its head never leaves it.  RetryInterceptor is        *)
(* reached by the errors AuthInterceptor lets through and sends a request  *)
(* again through both, which nests in the code and is flat here.           *)
(*                                                                         *)
(* The app's callbacks may throw.  Where nothing catches that, dio is never *)
(* told that the handler is done, and the queue it is in does not move on. *)
(*                                                                         *)
(* Access tokens are numbered as the refreshes create them.                *)
(***************************************************************************)
EXTENDS Naturals, Sequences

CONSTANTS
    Requests,
    Public,         \* requests with requiresAuth = false
    Retryable,      \* requests with an idempotent method, or marked retryable
    maxRetries,
    MaxToken        \* bound of the model: refreshes that may succeed

VARIABLES
    token,          \* what getAccessToken returns
    dead,           \* the tokens below this one have expired
    errors,         \* AuthInterceptor's error queue; its head is in onError
    phase,          \* where onError is
    req,            \* the requests
    told            \* the requests for which onAuthFailure has been called

vars == <<token, dead, errors, phase, req, told>>

Tokens == 0 .. MaxToken

Errors == {"none", "unauthorized", "transient", "other"}

\* sent   the token the request carries       sends   times it has been sent
\* count  retryCount                          err     its last error
\* at "lost": its onRequest has thrown
Request == [at : {"new", "sent", "onError", "retry", "backoff", "resolved",
                  "rejected", "lost"},
            sent : Tokens, sends : Nat, count : 0 .. maxRetries,
            err : Errors]

ASSUME RequestAssumption ==
    /\ Public \subseteq Requests
    /\ Retryable \subseteq Requests
    /\ maxRetries \in Nat
    /\ MaxToken \in Nat

TypeOK ==
    /\ token \in Tokens
    /\ dead \in 0 .. token + 1
    /\ errors \in Seq(Requests)
    /\ phase \in {"idle", "refresh", "retry", "fail", "stuck"}
    /\ req \in [Requests -> Request]
    /\ told \subseteq Requests

----------------------------------------------------------------------------
Init ==
    /\ token = 0
    /\ dead = 0
    /\ errors = <<>>
    /\ phase = "idle"
    /\ req = [r \in Requests |-> [at |-> "new", sent |-> 0, sends |-> 0,
                                  count |-> 0, err |-> "none"]]
    /\ told = {}

\* onRequest is busy with a request that will not leave it.
Blocked == \E q \in Requests : req[q].at = "lost"

\* onRequest: the token of the moment is put on the request.
Send(r) ==
    /\ req[r].at \in {"new", "backoff"}
    /\ ~Blocked
    /\ req' = [req EXCEPT ![r] = [at |-> "sent", sent |-> token,
                                  sends |-> @.sends + 1, count |-> @.count,
                                  err |-> @.err]]
    /\ UNCHANGED <<token, dead, errors, phase, told>>

\* getAccessToken throws, and handler.next is not reached.
SendThrows(r) ==
    /\ req[r].at \in {"new", "backoff"}
    /\ ~Blocked
    /\ r \notin Public
    /\ req' = [req EXCEPT ![r].at = "lost"]
    /\ UNCHANGED <<token, dead, errors, phase, told>>

\* A refresh does not end the tokens before it: each has its own lifetime.
Unauthorized(r) == r \notin Public /\ req[r].sent < dead

\* The API answers, or the network fails.
Resolved(r) ==
    /\ req[r].at = "sent"
    /\ ~Unauthorized(r)
    /\ req' = [req EXCEPT ![r].at = "resolved", ![r].err = "none"]
    /\ UNCHANGED <<token, dead, errors, phase, told>>

Failed(r, e) ==
    /\ req[r].at = "sent"
    /\ e \in CASE r \in Public     -> {"unauthorized", "transient", "other"}
              [] Unauthorized(r) -> {"unauthorized", "transient"}
              [] OTHER           -> {"transient", "other"}
    /\ req' = [req EXCEPT ![r].at = "onError", ![r].err = e]
    /\ errors' = Append(errors, r)
    /\ UNCHANGED <<token, dead, phase, told>>

----------------------------------------------------------------------------
(***************************************************************************)
(* AuthInterceptor.onError, for the head of the queue                      *)
(***************************************************************************)

\* The error is the next interceptor's, and onError is free.
PassOn(r) ==
    /\ req' = [req EXCEPT ![r].at = "retry"]
    /\ errors' = Tail(errors)
    /\ phase' = "idle"

IsHead(r) == errors # <<>> /\ r = Head(errors)

NotMine(r) ==
    /\ phase = "idle" /\ IsHead(r)
    /\ r \in Public \/ req[r].err # "unauthorized"
    /\ PassOn(r)
    /\ UNCHANGED <<token, dead, told>>

BeginRefresh(r) ==
    /\ phase = "idle" /\ IsHead(r)
    /\ r \notin Public /\ req[r].err = "unauthorized"
    /\ phase' = "refresh"
    /\ UNCHANGED <<token, dead, errors, req, told>>

RefreshSucceeds ==
    /\ phase = "refresh"
    /\ token < MaxToken
    /\ token' = token + 1
    /\ phase' = "retry"
    /\ UNCHANGED <<dead, errors, req, told>>

\* The callback returned false or threw, or there is no new token.
RefreshFails ==
    /\ phase = "refresh"
    /\ phase' = "fail"
    /\ UNCHANGED <<token, dead, errors, req, told>>

\* The retry goes through a Dio of its own and resolves the request.
RetrySent(r) ==
    /\ phase = "retry" /\ IsHead(r)
    /\ token >= dead
    /\ req' = [req EXCEPT ![r] = [at |-> "resolved", sent |-> @.sent,
                                  sends |-> @.sends + 1, count |-> @.count,
                                  err |-> "none"]]
    /\ errors' = Tail(errors)
    /\ phase' = "idle"
    /\ UNCHANGED <<token, dead, told>>

\* The retry fails, in any way: a 401 again, another status, the network.
RetryFails(r) ==
    /\ phase = "retry" /\ IsHead(r)
    /\ req' = [req EXCEPT ![r].sends = @ + 1]
    /\ phase' = "fail"
    /\ UNCHANGED <<token, dead, errors, told>>

\* Mutant: onAuthFailure is not called.
AuthFailure_Silent(r) ==
    /\ phase = "fail" /\ IsHead(r)
    /\ PassOn(r)
    /\ UNCHANGED <<token, dead, told>>

\* Mutant: after onAuthFailure the handler is forgotten.
AuthFailure_NoNext(r) ==
    /\ phase = "fail" /\ IsHead(r)
    /\ told' = told \cup {r}
    /\ UNCHANGED <<token, dead, errors, phase, req>>

\* onAuthFailure, then the first error goes on.
AuthFailure(r) ==
    /\ phase = "fail" /\ IsHead(r)
    /\ PassOn(r)
    /\ told' = told \cup {r}
    /\ UNCHANGED <<token, dead>>

\* onAuthFailure throws, outside the try, and handler.next is not reached.
AuthFailureThrows(r) ==
    /\ phase = "fail" /\ IsHead(r)
    /\ phase' = "stuck"
    /\ told' = told \cup {r}
    /\ UNCHANGED <<token, dead, errors, req>>

----------------------------------------------------------------------------
(***************************************************************************)
(* RetryInterceptor.onError                                                *)
(***************************************************************************)

ShouldRetry(r) == r \in Retryable /\ req[r].err = "transient"

\* Mutant: one retry too many.
Backoff_Over(r) ==
    /\ req[r].at = "retry"
    /\ ShouldRetry(r) /\ req[r].count <= maxRetries
    /\ req' = [req EXCEPT ![r].at = "backoff", ![r].count = @ + 1]
    /\ UNCHANGED <<token, dead, errors, phase, told>>

Backoff(r) ==
    /\ req[r].at = "retry"
    /\ ShouldRetry(r) /\ req[r].count < maxRetries
    /\ req' = [req EXCEPT ![r].at = "backoff", ![r].count = @ + 1]
    /\ UNCHANGED <<token, dead, errors, phase, told>>

Rejected(r) ==
    /\ req[r].at = "retry"
    /\ ~(ShouldRetry(r) /\ req[r].count < maxRetries)
    /\ req' = [req EXCEPT ![r].at = "rejected"]
    /\ UNCHANGED <<token, dead, errors, phase, told>>

\* Time passes and tokens expire, in the order they were issued.
Expire ==
    /\ dead' \in dead + 1 .. token + 1
    /\ UNCHANGED <<token, errors, phase, req, told>>

\* The token is refreshed from elsewhere, as the timer of AuthService does.
RefreshedElsewhere ==
    /\ token < MaxToken
    /\ token' = token + 1
    /\ UNCHANGED <<dead, errors, phase, req, told>>

----------------------------------------------------------------------------
Answer(r) == Resolved(r) \/ \E e \in Errors \ {"none"} : Failed(r, e)

OnError ==
    \/ RefreshSucceeds \/ RefreshFails
    \/ \E r \in Requests :
          \/ NotMine(r) \/ BeginRefresh(r)
          \/ RetrySent(r) \/ RetryFails(r)
          \/ AuthFailure(r)

Retry(r) == Backoff(r) \/ Rejected(r)

Throws(r) == SendThrows(r) \/ AuthFailureThrows(r)

Next ==
    \/ OnError
    \/ \E r \in Requests : Send(r) \/ Answer(r) \/ Retry(r) \/ Throws(r)
    \/ Expire
    \/ RefreshedElsewhere

\* Every request has a timeout, onError awaits only requests and callbacks, which
\* end, and a backoff ends.  Nothing obliges a callback to throw.
Fairness ==
    /\ WF_vars(OnError)
    /\ \A r \in Requests :
          /\ WF_vars(req[r].at = "backoff" /\ Send(r))
          /\ WF_vars(Answer(r))
          /\ WF_vars(Retry(r))

Spec == Init /\ [][Next]_vars /\ Fairness

----------------------------------------------------------------------------
(***************************************************************************)
(* Properties                                                              *)
(***************************************************************************)

Over(r) == req[r].at \in {"resolved", "rejected"}

\* A callback that has thrown keeps a request for good: one that waits for an
\* onError that is stuck, or one that would go out, again, by a blocked onRequest.
Hangs(r) ==
    \/ phase = "stuck" /\ req[r].at = "onError"
    \/ Blocked /\ req[r].at \in {"lost", "backoff"}

\* "preventing re-entrant calls back into the same queue, which would deadlock":
\* every request that is sent is resolved or rejected, whatever the network, the
\* API and the refresh do.  A callback that throws outside the try stops the queue
\* it is called from and no other: a request that need not pass there ends too.
EveryRequestEnds ==
    \A r \in Requests : req[r].at = "sent" ~> (Over(r) \/ Hangs(r))

\* The two interceptors together do not multiply: a request is sent once, again
\* for each retry, and once more after a refresh.
SendsAreBounded ==
    \A r \in Requests :
        req[r].sends <= 1 + maxRetries + (IF r \in Public THEN 0 ELSE 1)

\* The app never sees a 401 of a request that needs a token without having been
\* told of the failure.
UnauthorizedIsTold ==
    \A r \in Requests \ Public :
        req[r].at = "rejected" /\ req[r].err = "unauthorized" => r \in told

\* What the documents and comments claim and the code does not do.

\* "handles refresh failure by notifying onAuthFailure and rejecting queued
\* requests": not if onAuthFailure throws.
FailureRejects ==
    \A r \in Requests : req[r].at = "onError" ~> req[r].at # "onError"

\* "Refresh failed or returned an invalid token": a retry that fails leads to
\* onAuthFailure only if the new token is refused.
FailureMeansNoToken ==
    [][phase = "retry" /\ phase' = "fail" => token < dead]_vars

\* "If refresh succeeds, replay the queued requests with the new access token":
\* a request refused with the token another request has been replayed from is
\* not the cause of a second refresh.
Replayed(q) == req[q].at = "resolved" /\ req[q].sends > req[q].count + 1

QueuedIsReplayed ==
    [][\A q, r \in Requests :
          /\ BeginRefresh(r)
          /\ Replayed(q)
          /\ req[q].sent = req[r].sent
          => token < dead]_vars

=============================================================================
