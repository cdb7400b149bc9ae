----------------------- MODULE AuthInterceptorProofs -----------------------
(***************************************************************************)
(* Proofs about AuthInterceptor, for any set of requests, any number of    *)
(* retries and of refreshes: its types, how often a request is sent, and   *)
(* that the app is told of every 401 it has to know of.                    *)
(***************************************************************************)
EXTENDS AuthInterceptor, SequenceTheorems, TLAPS

\* The queue holds requests that failed, each once; past "idle" onError works
\* for a request that needs a token and was refused.
QueueOK ==
    /\ \A n \in 1 .. Len(errors) : req[errors[n]].at = "onError"
    /\ \A m, n \in 1 .. Len(errors) : errors[m] = errors[n] => m = n
    /\ phase # "idle" =>
          /\ errors # <<>>
          /\ errors[1] \notin Public
          /\ req[errors[1]].err = "unauthorized"

\* The replay that follows a refresh is the one time a request is sent beyond its
\* retries.  What it leaves behind is final: the first error, a 401, goes on, and
\* no 401 is retried.
Replay(r) ==
    /\ r \notin Public
    /\ req[r].sends = req[r].count + 2
    /\ \/ req[r].at = "resolved"
       \/ req[r].at \in {"retry", "rejected"} /\ req[r].err = "unauthorized"
       \/ /\ req[r].at = "onError"
          /\ phase \in {"fail", "stuck"} /\ errors # <<>> /\ errors[1] = r

\* A request that is about to be sent, or will not be.
Unsent == {"new", "backoff", "lost"}

SendsOK(r) ==
    \/ Replay(r)
    \/ req[r].sends = req[r].count
                         + (IF req[r].at \in Unsent THEN 0 ELSE 1)

\* Past onError a 401 has been told.
ToldOK(r) ==
    req[r].at \in {"retry", "rejected"} /\ req[r].err = "unauthorized"
        => r \in Public \cup told

Inv ==
    /\ TypeOK
    /\ QueueOK
    /\ \A r \in Requests : SendsOK(r) /\ ToldOK(r)

\* The initial state.
LEMMA InitInv == Init => Inv
BY RequestAssumption
   DEF Init, Inv, TypeOK, QueueOK, SendsOK, Unsent, ToldOK, Tokens, Request,
       Errors

\* The queue holds requests.
LEMMA QueueType ==
    ASSUME TypeOK
    PROVE  /\ Len(errors) \in Nat
           /\ \A n \in 1 .. Len(errors) : errors[n] \in Requests
           /\ errors # <<>> => /\ Len(errors) >= 1
                               /\ Head(errors) = errors[1]
                               /\ errors[1] \in Requests
BY DEF TypeOK

\* A request that is not in the queue moves, and the queue stays.
LEMMA OutsideMoves ==
    ASSUME Inv, NEW r \in Requests, req[r].at # "onError",
           NEW v \in Request, req' = [req EXCEPT ![r] = v],
           errors' = errors, phase' = phase, told' = told,
           token' = token, dead' = dead, v.at # "onError",
           v.sends = v.count + (IF v.at \in Unsent THEN 0 ELSE 1)
           \/ /\ Replay(r)
              /\ v.sends = req[r].sends /\ v.count = req[r].count
              /\ v.err = req[r].err /\ req[r].at = "retry"
              /\ v.at = "rejected",
           v.at \in {"retry", "rejected"} /\ v.err = "unauthorized"
              => r \in Public \cup told
    PROVE  Inv'
<1>1. req'[r] = v /\ \A q \in Requests : q # r => req'[q] = req[q]
  BY DEF Inv, TypeOK
<1>2. \A n \in 1 .. Len(errors) : errors[n] \in Requests /\ errors[n] # r
  BY QueueType DEF Inv, QueueOK
<1>3. TypeOK'
  BY DEF Inv, TypeOK
<1>4. QueueOK'
  BY <1>1, <1>2, QueueType DEF Inv, QueueOK
<1>5. ASSUME NEW q \in Requests PROVE SendsOK(q)' /\ ToldOK(q)'
  <2>1. CASE q = r
    BY <1>1, <2>1 DEF Inv, SendsOK, Unsent, Replay, ToldOK
  <2>2. CASE q # r
    BY <1>1, <2>2 DEF Inv, SendsOK, Unsent, Replay, ToldOK
  <2> QED
    BY <2>1, <2>2
<1> QED
  BY <1>3, <1>4, <1>5 DEF Inv

\* A request is sent, first or after a backoff.
LEMMA SendInv == ASSUME Inv, NEW r \in Requests, Send(r) PROVE Inv'
<1> DEFINE v == [at |-> "sent", sent |-> token, sends |-> req[r].sends + 1,
                 count |-> req[r].count, err |-> req[r].err]
<1>1. req[r] \in Request /\ v \in Request
  BY DEF Inv, TypeOK, Request
<1>2. req' = [req EXCEPT ![r] = v]
  BY <1>1 DEF Send, Request
<1>3. v.sends = v.count + 1
  BY <1>1 DEF Send, Inv, SendsOK, Unsent, Replay, Request
<1> HIDE DEF v
<1> QED
  BY <1>1, <1>2, <1>3, OutsideMoves DEF Send, v, Unsent

\* Or it does not come out of onRequest.
LEMMA SendThrowsInv ==
    ASSUME Inv, NEW r \in Requests, SendThrows(r) PROVE Inv'
<1> DEFINE v == [req[r] EXCEPT !.at = "lost"]
<1>1. req[r] \in Request
  BY DEF Inv, TypeOK
<1>2. /\ v \in Request /\ v.at = "lost"
      /\ v.sends = req[r].sends /\ v.count = req[r].count
  BY <1>1 DEF Request
<1>3. req' = [req EXCEPT ![r] = v]
  BY <1>1 DEF SendThrows
<1>4. v.sends = v.count
  BY <1>1, <1>2 DEF SendThrows, Inv, SendsOK, Unsent, Replay, Request
<1>5. v.sends = v.count + (IF v.at \in Unsent THEN 0 ELSE 1)
  BY <1>1, <1>2, <1>4 DEF Unsent, Request
<1> HIDE DEF v
<1> QED
  BY <1>2, <1>3, <1>5, OutsideMoves DEF SendThrows

\* The request is answered.
LEMMA ResolvedInv == ASSUME Inv, NEW r \in Requests, Resolved(r) PROVE Inv'
<1> DEFINE v == [req[r] EXCEPT !.at = "resolved", !.err = "none"]
<1>1. req[r] \in Request
  BY DEF Inv, TypeOK
<1>2. /\ v \in Request /\ v.at = "resolved" /\ v.err = "none"
      /\ v.sends = req[r].sends /\ v.count = req[r].count
  BY <1>1 DEF Request, Errors
<1>3. req' = [req EXCEPT ![r] = v]
  BY <1>1 DEF Resolved
<1>4. v.sends = v.count + 1
  BY <1>2 DEF Resolved, Inv, SendsOK, Unsent, Replay
<1> HIDE DEF v
<1> QED
  BY <1>2, <1>3, <1>4, OutsideMoves DEF Resolved, Unsent

\* RetryInterceptor sends the request again after a backoff.  It was not replayed:
\* its last error is no 401.
LEMMA BackoffInv == ASSUME Inv, NEW r \in Requests, Backoff(r) PROVE Inv'
<1> DEFINE v == [req[r] EXCEPT !.at = "backoff", !.count = @ + 1]
<1>1. /\ req[r] \in Request
      /\ req[r].count \in Nat /\ req[r].count + 1 \in 0 .. maxRetries
  BY RequestAssumption DEF Inv, TypeOK, Request, Backoff
<1>2. /\ v \in Request /\ v.at = "backoff"
      /\ v.sends = req[r].sends /\ v.count = req[r].count + 1
  BY <1>1 DEF Request
<1>3. req' = [req EXCEPT ![r] = v]
  BY <1>1 DEF Backoff
<1>4. v.sends = v.count /\ v.count \in Nat
  BY <1>1, <1>2 DEF Backoff, ShouldRetry, Inv, SendsOK, Unsent, Replay
<1>5. v.sends = v.count + (IF v.at \in Unsent THEN 0 ELSE 1)
  BY <1>2, <1>4 DEF Unsent
<1> HIDE DEF v
<1> QED
  BY <1>2, <1>3, <1>5, OutsideMoves DEF Backoff

\* The request is given up.
LEMMA RejectedInv == ASSUME Inv, NEW r \in Requests, Rejected(r) PROVE Inv'
<1> DEFINE v == [req[r] EXCEPT !.at = "rejected"]
<1>1. req[r] \in Request
  BY DEF Inv, TypeOK
<1>2. /\ v \in Request /\ v.at = "rejected" /\ v.err = req[r].err
      /\ v.sends = req[r].sends /\ v.count = req[r].count
  BY <1>1 DEF Request
<1>3. req' = [req EXCEPT ![r] = v]
  BY <1>1 DEF Rejected
<1>4. Replay(r) \/ v.sends = v.count + 1
  BY <1>2 DEF Rejected, Inv, SendsOK, Unsent
<1>5. v.err = "unauthorized" => r \in Public \cup told
  BY <1>2 DEF Rejected, Inv, ToldOK
<1> HIDE DEF v
<1> QED
  BY <1>2, <1>3, <1>4, <1>5, OutsideMoves DEF Rejected, Unsent

\* The request fails and waits for onError.
LEMMA FailedInv ==
    ASSUME Inv, NEW r \in Requests, NEW e \in Errors, Failed(r, e) PROVE Inv'
<1> DEFINE v == [req[r] EXCEPT !.at = "onError", !.err = e]
<1>1. req[r] \in Request
  BY DEF Inv, TypeOK
<1>2. /\ v \in Request /\ v.at = "onError"
      /\ v.sends = req[r].sends /\ v.count = req[r].count
  BY <1>1 DEF Request
<1>3. req' = [req EXCEPT ![r] = v]
  BY <1>1 DEF Failed
<1> HIDE DEF v
<1>4. req'[r] = v /\ \A q \in Requests : q # r => req'[q] = req[q]
  BY <1>3 DEF Inv, TypeOK
<1>5. \A n \in 1 .. Len(errors) : errors[n] \in Requests /\ errors[n] # r
  BY QueueType DEF Inv, QueueOK, Failed
<1>6. TypeOK'
  <2>1. errors' \in Seq(Requests)
    BY DEF Inv, TypeOK, Failed
  <2>2. req' \in [Requests -> Request]
    BY <1>2, <1>3 DEF Inv, TypeOK
  <2> QED
    BY <2>1, <2>2 DEF Inv, TypeOK, Failed
<1>7. /\ Len(errors') = Len(errors) + 1 /\ errors'[Len(errors) + 1] = r
      /\ \A n \in 1 .. Len(errors) : errors'[n] = errors[n]
      /\ Len(errors) \in Nat
  BY DEF Inv, TypeOK, Failed
<1>8. errors # <<>> => Len(errors) >= 1
  BY QueueType DEF Inv
<1>9. QueueOK'
  <2>1. \A n \in 1 .. Len(errors') : n \in 1 .. Len(errors) \/ n = Len(errors) + 1
    BY <1>7
  <2>2. (\A n \in 1 .. Len(errors) : req[errors[n]].at = "onError")'
    BY <1>2, <1>4, <1>5, <1>7, <2>1 DEF Inv, QueueOK
  <2>3. (\A m, n \in 1 .. Len(errors) : errors[m] = errors[n] => m = n)'
    BY <1>5, <1>7, <2>1 DEF Inv, QueueOK
  <2>4. phase' # "idle" =>
          /\ errors' # <<>> /\ errors'[1] \notin Public
          /\ req'[errors'[1]].err = "unauthorized"
    <3> SUFFICES ASSUME phase # "idle"
                 PROVE  /\ errors' # <<>> /\ errors'[1] \notin Public
                        /\ req'[errors'[1]].err = "unauthorized"
      BY DEF Failed
    <3>1. /\ errors # <<>> /\ errors[1] \notin Public
          /\ req[errors[1]].err = "unauthorized"
      BY DEF Inv, QueueOK
    <3>2. 1 \in 1 .. Len(errors)
      BY <1>7, <1>8, <3>1
    <3>3. errors'[1] = errors[1] /\ req'[errors[1]] = req[errors[1]]
      BY <1>4, <1>5, <1>7, <3>2
    <3>4. errors' # <<>>
      BY <1>7
    <3> QED
      BY <3>1, <3>3, <3>4
  <2> QED
    BY <2>2, <2>3, <2>4 DEF QueueOK
<1>10. errors # <<>> => errors' # <<>> /\ errors'[1] = errors[1]
  BY <1>7, <1>8
<1>11. ASSUME NEW q \in Requests PROVE SendsOK(q)' /\ ToldOK(q)'
  <2>1. CASE q = r
    BY <1>2, <1>4, <2>1 DEF Inv, SendsOK, Unsent, Replay, ToldOK, Failed
  <2>2. CASE q # r
    BY <1>4, <1>10, <2>2 DEF Inv, SendsOK, Unsent, Replay, ToldOK, Failed
  <2> QED
    BY <2>1, <2>2
<1> QED
  BY <1>6, <1>9, <1>11 DEF Inv

\* onError has dealt with the head of the queue, which leaves it.
LEMMA HeadLeaves ==
    ASSUME Inv, NEW r \in Requests, IsHead(r), NEW v \in Request,
           req' = [req EXCEPT ![r] = v], v.at # "onError",
           errors' = Tail(errors), phase' = "idle",
           token' = token, dead' = dead,
           told' \in SUBSET Requests, told \subseteq told',
           \/ v.sends = v.count + (IF v.at \in Unsent THEN 0 ELSE 1)
           \/ /\ r \notin Public /\ v.sends = v.count + 2
              /\ \/ v.at = "resolved"
                 \/ v.at \in {"retry", "rejected"} /\ v.err = "unauthorized",
           v.at \in {"retry", "rejected"} /\ v.err = "unauthorized"
              => r \in Public \cup told'
    PROVE  Inv'
<1>1. req'[r] = v /\ \A q \in Requests : q # r => req'[q] = req[q]
  BY DEF Inv, TypeOK
<1>2. /\ errors # <<>> /\ r = errors[1] /\ Len(errors) \in Nat
      /\ Len(errors) >= 1
      /\ \A n \in 1 .. Len(errors) : errors[n] \in Requests
  BY QueueType DEF Inv, IsHead
<1>3. /\ errors' \in Seq(Requests) /\ Len(errors') = Len(errors) - 1
      /\ \A n \in 1 .. Len(errors') : errors'[n] = errors[n + 1]
  BY <1>2, HeadTailProperties DEF Inv, TypeOK
<1>4. \A n \in 1 .. Len(errors') :
         errors'[n] \in Requests /\ errors'[n] # r
  BY <1>2, <1>3 DEF Inv, QueueOK
<1>5. TypeOK'
  BY <1>1, <1>3 DEF Inv, TypeOK
<1>6. QueueOK'
  BY <1>1, <1>2, <1>3, <1>4 DEF Inv, QueueOK
<1>7. ASSUME NEW q \in Requests PROVE SendsOK(q)' /\ ToldOK(q)'
  <2>1. CASE q = r
    BY <1>1, <2>1 DEF SendsOK, Unsent, Replay, ToldOK
  <2>2. CASE q # r
    BY <1>1, <1>2, <2>2 DEF Inv, SendsOK, Unsent, Replay, ToldOK
  <2> QED
    BY <2>1, <2>2
<1> QED
  BY <1>5, <1>6, <1>7 DEF Inv

\* The head of the queue has been sent once for each try, until its replay fails.
LEMMA HeadSends ==
    ASSUME Inv, NEW r \in Requests, IsHead(r)
    PROVE  /\ req[r] \in Request /\ req[r].at = "onError"
           /\ errors # <<>> /\ r = errors[1]
           /\ phase # "idle" => r \notin Public /\ req[r].err = "unauthorized"
           /\ \/ req[r].sends = req[r].count + 1
              \/ /\ phase \in {"fail", "stuck"} /\ r \notin Public
                 /\ req[r].sends = req[r].count + 2
<1>1. errors # <<>> /\ r = errors[1] /\ 1 \in 1 .. Len(errors)
  BY QueueType DEF Inv, IsHead
<1>2. req[r].at = "onError"
  BY <1>1 DEF Inv, QueueOK
<1> QED
  BY <1>1, <1>2 DEF Inv, TypeOK, QueueOK, SendsOK, Unsent, Replay

\* The error of a request is passed on, after onAuthFailure if it is a 401 of a
\* request that needs a token.
LEMMA PassOnInv ==
    ASSUME Inv, NEW r \in Requests, IsHead(r), PassOn(r),
           phase \in {"idle", "fail"},
           token' = token, dead' = dead,
           told' \in SUBSET Requests, told \subseteq told',
           r \in Public \/ req[r].err # "unauthorized" \/ r \in told'
    PROVE  Inv'
<1> DEFINE v == [req[r] EXCEPT !.at = "retry"]
<1>1. /\ req[r] \in Request
      /\ \/ req[r].sends = req[r].count + 1
         \/ /\ r \notin Public /\ req[r].err = "unauthorized"
            /\ req[r].sends = req[r].count + 2
  BY HeadSends
<1>2. /\ v \in Request /\ v.at = "retry" /\ v.err = req[r].err
      /\ v.sends = req[r].sends /\ v.count = req[r].count
  BY <1>1 DEF Request
<1>3. req' = [req EXCEPT ![r] = v] /\ errors' = Tail(errors) /\ phase' = "idle"
  BY <1>1 DEF PassOn
<1> HIDE DEF v
<1>4. \/ v.sends = v.count + (IF v.at \in Unsent THEN 0 ELSE 1)
      \/ /\ r \notin Public /\ v.sends = v.count + 2
         /\ \/ v.at = "resolved"
            \/ v.at \in {"retry", "rejected"} /\ v.err = "unauthorized"
  BY <1>1, <1>2 DEF Unsent
<1>5. v.at \in {"retry", "rejected"} /\ v.err = "unauthorized"
         => r \in Public \cup told'
  BY <1>2
<1> QED
  BY <1>2, <1>3, <1>4, <1>5, HeadLeaves

\* After the refresh the request is sent once more, and resolved.
LEMMA RetrySentInv == ASSUME Inv, NEW r \in Requests, RetrySent(r) PROVE Inv'
<1> DEFINE v == [at |-> "resolved", sent |-> req[r].sent,
                 sends |-> req[r].sends + 1, count |-> req[r].count,
                 err |-> "none"]
<1>1. /\ req[r] \in Request /\ r \notin Public
      /\ req[r].sends = req[r].count + 1
  BY HeadSends DEF RetrySent
<1>2. v \in Request /\ v.at = "resolved" /\ v.sends = v.count + 2
  BY <1>1 DEF Request, Errors
<1>3. req' = [req EXCEPT ![r] = v] /\ told \in SUBSET Requests
  BY <1>1 DEF RetrySent, Inv, TypeOK
<1> HIDE DEF v
<1> QED
  BY <1>1, <1>2, <1>3, HeadLeaves DEF RetrySent

\* Or that fails, which onError has still to report.
LEMMA RetryFailsInv == ASSUME Inv, NEW r \in Requests, RetryFails(r) PROVE Inv'
<1> DEFINE v == [req[r] EXCEPT !.sends = @ + 1]
<1>1. /\ req[r] \in Request /\ r \notin Public /\ req[r].at = "onError"
      /\ errors # <<>> /\ r = errors[1] /\ req[r].err = "unauthorized"
      /\ req[r].sends = req[r].count + 1
  BY HeadSends DEF RetryFails
<1>2. /\ v \in Request /\ v.at = "onError" /\ v.err = "unauthorized"
      /\ v.sends = v.count + 2
  BY <1>1 DEF Request
<1>3. req' = [req EXCEPT ![r] = v]
  BY <1>1 DEF RetryFails
<1> HIDE DEF v
<1>4. req'[r] = v /\ \A q \in Requests : q # r => req'[q] = req[q]
  BY <1>3 DEF Inv, TypeOK
<1>5. TypeOK'
  BY <1>2, <1>3 DEF Inv, TypeOK, RetryFails
<1>6. QueueOK'
  BY <1>1, <1>2, <1>4, QueueType DEF Inv, QueueOK, RetryFails
<1>7. ASSUME NEW q \in Requests PROVE SendsOK(q)' /\ ToldOK(q)'
  <2>1. CASE q = r
    BY <1>1, <1>2, <1>4, <2>1 DEF SendsOK, Unsent, Replay, ToldOK, RetryFails
  <2>2. CASE q # r
    BY <1>4, <2>2 DEF Inv, SendsOK, Unsent, Replay, ToldOK, RetryFails
  <2> QED
    BY <2>1, <2>2
<1> QED
  BY <1>5, <1>6, <1>7 DEF Inv

\* onAuthFailure throws: the head stays where it is.
LEMMA AuthFailureThrowsInv ==
    ASSUME Inv, NEW r \in Requests, AuthFailureThrows(r) PROVE Inv'
<1>1. TypeOK'
  BY DEF Inv, TypeOK, AuthFailureThrows
<1>2. QueueOK'
  BY DEF Inv, QueueOK, AuthFailureThrows
<1>3. ASSUME NEW q \in Requests PROVE SendsOK(q)' /\ ToldOK(q)'
  BY DEF Inv, SendsOK, Replay, ToldOK, AuthFailureThrows
<1> QED
  BY <1>1, <1>2, <1>3 DEF Inv

\* A refresh begins, succeeds or fails, and tokens are issued and expire.
LEMMA TokenInv ==
    ASSUME Inv,
           \/ \E r \in Requests : BeginRefresh(r)
           \/ RefreshSucceeds \/ RefreshFails \/ Expire \/ RefreshedElsewhere
           \/ UNCHANGED vars
    PROVE  Inv'
<1>1. req' = req /\ errors' = errors /\ told' = told
  BY DEF BeginRefresh, RefreshSucceeds, RefreshFails, Expire,
         RefreshedElsewhere, vars
<1>2. TypeOK'
  BY <1>1, RequestAssumption
     DEF Inv, TypeOK, Tokens, BeginRefresh, RefreshSucceeds, RefreshFails,
         Expire, RefreshedElsewhere, vars
<1>3. phase' = phase \/ phase \in {"idle", "refresh", "retry"}
  BY DEF BeginRefresh, RefreshSucceeds, RefreshFails, Expire,
         RefreshedElsewhere, vars
<1>4. phase' # "idle" =>
         /\ errors # <<>> /\ errors[1] \notin Public
         /\ req[errors[1]].err = "unauthorized"
  <2>1. CASE \E r \in Requests : BeginRefresh(r)
    BY <2>1, QueueType DEF Inv, BeginRefresh, IsHead
  <2>2. CASE ~ \E r \in Requests : BeginRefresh(r)
    BY <2>2 DEF Inv, QueueOK, RefreshSucceeds, RefreshFails, Expire,
                RefreshedElsewhere, vars
  <2> QED
    BY <2>1, <2>2
<1>5. QueueOK'
  BY <1>1, <1>4 DEF Inv, QueueOK
<1>6. ASSUME NEW q \in Requests PROVE SendsOK(q)' /\ ToldOK(q)'
  BY <1>1, <1>3 DEF Inv, SendsOK, Unsent, Replay, ToldOK
<1> QED
  BY <1>2, <1>5, <1>6 DEF Inv

\* Every step of the app, the network and the API keeps the invariant.
LEMMA NextInv == Inv /\ [Next]_vars => Inv'
<1> SUFFICES ASSUME Inv, [Next]_vars PROVE Inv'
  OBVIOUS
<1>1. ASSUME NEW r \in Requests, NotMine(r) PROVE Inv'
  BY <1>1, PassOnInv DEF NotMine, Inv, TypeOK
<1>2. ASSUME NEW r \in Requests, AuthFailure(r) PROVE Inv'
  BY <1>2, PassOnInv DEF AuthFailure, Inv, TypeOK
<1>3. ASSUME NEW r \in Requests, RetrySent(r) \/ RetryFails(r) PROVE Inv'
  BY <1>3, RetrySentInv, RetryFailsInv
<1>4. ASSUME NEW r \in Requests, Send(r) \/ Retry(r) PROVE Inv'
  BY <1>4, SendInv, BackoffInv, RejectedInv DEF Retry
<1>5. ASSUME NEW r \in Requests, Answer(r) \/ Throws(r) PROVE Inv'
  BY <1>5, ResolvedInv, FailedInv, SendThrowsInv, AuthFailureThrowsInv
     DEF Answer, Throws
<1>6. CASE UNCHANGED vars
  BY <1>6, TokenInv
<1>7. CASE Next
  BY <1>1, <1>2, <1>3, <1>4, <1>5, <1>7, TokenInv DEF Next, OnError
<1> QED
  BY <1>6, <1>7

\* What is always so.
THEOREM Invariant == Spec => []Inv
BY InitInv, NextInv, PTL DEF Spec

\* Every variable keeps its type, whatever fails and in whatever order.
THEOREM TypeCorrect == Spec => []TypeOK
<1>1. Inv => TypeOK
  BY DEF Inv
<1> QED
  BY <1>1, Invariant, PTL

\* The two interceptors do not multiply: AuthInterceptor adds one replay to the
\* sends of a request, however often RetryInterceptor has it sent, because what a
\* replay leaves behind is never retried.
THEOREM SendsBounded == Spec => []SendsAreBounded
<1>1. ASSUME Inv, NEW r \in Requests
      PROVE  req[r].sends <= 1 + maxRetries + (IF r \in Public THEN 0 ELSE 1)
  <2>1. /\ req[r].count \in 0 .. maxRetries /\ maxRetries \in Nat
        /\ req[r].sends \in Nat
    BY <1>1, RequestAssumption DEF Inv, TypeOK, Request
  <2>2. /\ req[r].sends <= req[r].count + 2
        /\ r \in Public => req[r].sends <= req[r].count + 1
    BY <1>1, <2>1 DEF Inv, SendsOK, Unsent, Replay
  <2> QED
    BY <2>1, <2>2
<1>2. Inv => SendsAreBounded
  BY <1>1 DEF SendsAreBounded
<1> QED
  BY <1>2, Invariant, PTL

\* The app never sees a 401 of a request that needs a token before onAuthFailure
\* has been called for it.
THEOREM ToldOfUnauthorized == Spec => []UnauthorizedIsTold
<1>1. Inv => UnauthorizedIsTold
  BY DEF Inv, ToldOK, UnauthorizedIsTold
<1> QED
  BY <1>1, Invariant, PTL

=============================================================================
