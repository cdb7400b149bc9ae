--------------------------- MODULE ApiServerProofs ---------------------------
(***************************************************************************)
(* Proofs about ApiServer and the RequestPath it runs, for any requests,   *)
(* roles, replies and settings: types, who is admitted, what is logged,    *)
(* and that no request is cut off by a shutdown before its time.           *)
(***************************************************************************)
EXTENDS ApiServer, TLAPS

----------------------------------------------------------------------------
(***************************************************************************)
(* Requests                                                                *)
(***************************************************************************)

\* The guards before the n-th of a route's chain have let the request through.
Passed(q, n) ==
    /\ q.header # None /\ q.claims = q.header
    /\ q.route = "managed" /\ n > 2 => q.header.role \in Allowed
    /\ q.route = "me" /\ n > 2 => q.header.status = "active"

\* Where a request is says what has been found out about it.
PathOK(q) ==
    /\ q.at \in {"chain", "returned", "panicking"} => q.route \in Routes
    /\ q.at = "chain" =>
          /\ q.next \in 1 .. Len(Chain(q.route))
          /\ q.status = 0
    /\ Guarded(q.route) /\ q.at # "none" =>
          /\ q.next > 1 => Passed(q, q.next)
          /\ q.status = 200 => q.next = 3
    /\ q.at = "recovering" => q.log = q.status
    /\ q.at = "done" => q.log = q.status \/ (q.log = 0 /\ q.status = 500)
    /\ q.at \in {"none", "done"} => q.route = None
    /\ q.at = "none" => q.status = 0

PathInv ==
    /\ req \in [Requests -> RequestType]
    /\ \A r \in Requests : PathOK(req[r])

\* The chains of the route table.
LEMMA Chains ==
    ASSUME NEW route
    PROVE  /\ route = "me" => Chain(route) =
                 <<"RequireAuth", "RequireActiveAccount", "handler">>
           /\ route = "managed" => Chain(route) =
                 <<"RequireAuth", "RequireRole", "handler">>
           /\ route \notin {"me", "managed"} => Chain(route) = <<"handler">>
BY DEF Chain

LEMMA GuardedRoutes ==
    ASSUME NEW route
    PROVE  /\ Guarded(route) <=> route \in {"me", "managed"}
           /\ Len(Chain(route)) = IF route \in {"me", "managed"} THEN 3 ELSE 1
<1>1. CASE route \in {"me", "managed"}
  <2>1. Len(Chain(route)) = 3
    BY <1>1, Chains
  <2> QED
    BY <1>1, <2>1 DEF Guarded
<1>2. CASE route \notin {"me", "managed"}
  <2>1. Chain(route) = <<"handler">>
    BY <1>2, Chains
  <2>2. Len(<<"handler">>) = 1
    OBVIOUS
  <2>3. Len(Chain(route)) = 1
    BY <2>1, <2>2
  <2> QED
    BY <1>2, <2>3 DEF Guarded
<1> QED
  BY <1>1, <1>2

\* Which route and which place in it a middleware is reached at.
LEMMA Places ==
    ASSUME PathInv, NEW r \in Requests
    PROVE  /\ Reached(r, "RequireAuth") =>
                 req[r].route \in {"me", "managed"} /\ req[r].next = 1
           /\ Reached(r, "RequireRole") =>
                 req[r].route = "managed" /\ req[r].next = 2
           /\ Reached(r, "RequireActiveAccount") =>
                 req[r].route = "me" /\ req[r].next = 2
           /\ Reached(r, "handler") =>
                 IF req[r].route \in {"me", "managed"} THEN req[r].next = 3
                 ELSE req[r].next = 1
<1>0. PathOK(req[r])
  BY DEF PathInv
<1>1. CASE req[r].at # "chain"
  BY <1>1 DEF Reached
<1>2. CASE req[r].at = "chain" /\ req[r].route = "me"
  <2>1. req[r].next \in 1 .. 3
    BY <1>0, <1>2, GuardedRoutes DEF PathOK
  <2> QED
    BY <1>2, <2>1, Chains DEF Reached
<1>3. CASE req[r].at = "chain" /\ req[r].route = "managed"
  <2>1. req[r].next \in 1 .. 3
    BY <1>0, <1>3, GuardedRoutes DEF PathOK
  <2> QED
    BY <1>3, <2>1, Chains DEF Reached
<1>4. CASE req[r].at = "chain" /\ req[r].route \notin {"me", "managed"}
  <2>1. Len(Chain(req[r].route)) = 1
    BY <1>4, GuardedRoutes
  <2>2. req[r].next \in 1 .. Len(Chain(req[r].route))
    BY <1>0, <1>4 DEF PathOK
  <2>3. req[r].next = 1
    BY <2>1, <2>2
  <2>4. Chain(req[r].route) = <<"handler">>
    BY <1>4, Chains
  <2> QED
    BY <1>4, <2>3, <2>4 DEF Reached
<1> QED
  BY <1>1, <1>2, <1>3, <1>4

\* It is enough to look at the request that moves.
LEMMA OneMoves ==
    ASSUME PathInv, NEW r \in Requests, NEW q \in RequestType,
           PathOK(q), req' = [req EXCEPT ![r] = q]
    PROVE  PathInv'
BY DEF PathInv

LEMMA StatusFacts ==
    /\ {0, 200, 401, 403, 404, 405, 500} \subseteq Status
    /\ AuthReplies \subseteq Status
BY DEF Status

\* A request goes on, or is answered by a guard or a handler.
LEMMA ServeNextKeeps ==
    ASSUME PathInv, NEW r \in Requests, NEW claims \in Claims,
           req[r].at = "chain", req[r].route \in {"me", "managed"},
           req[r].next < 3, ServeNext(r, claims),
           claims = req[r].header, req[r].header # None,
           req[r].next = 2 /\ req[r].route = "managed" => claims.role \in Allowed,
           req[r].next = 2 /\ req[r].route = "me" => claims.status = "active"
    PROVE  PathInv'
<1> DEFINE q == [req[r] EXCEPT !.next = @ + 1, !.claims = claims]
<1>0. req[r] \in RequestType /\ PathOK(req[r])
  BY DEF PathInv
<1>1. req' = [req EXCEPT ![r] = q]
  BY DEF ServeNext, PathInv
<1>a. req[r].next \in 1 .. 2
  <2>1. Len(Chain(req[r].route)) = 3
    BY GuardedRoutes
  <2> QED
    BY <1>0, <2>1 DEF RequestType, PathOK
<1>b. req[r].next + 1 \in 0 .. 3
  BY <1>a
<1>2. q.next \in 2 .. 3 /\ q.next = req[r].next + 1
  BY <1>0, <1>a DEF RequestType
<1>3. q \in RequestType
  BY <1>0, <1>b DEF RequestType
<1>4. /\ q.at = "chain" /\ q.route = req[r].route /\ q.header = req[r].header
      /\ q.claims = claims /\ q.status = req[r].status /\ q.log = req[r].log
  BY <1>0 DEF RequestType
<1>5. req[r].status = 0
  BY <1>0 DEF PathOK
<1>6. Passed(q, q.next)
  BY <1>2, <1>4, <1>0 DEF Passed, RequestType
<1>7. PathOK(q)
  <2> HIDE DEF q
  <2>1. q.route \in Routes
    BY <1>4 DEF Routes
  <2>2. q.next \in 1 .. Len(Chain(q.route))
    <3>1. Len(Chain(q.route)) = 3
      BY <1>4, GuardedRoutes
    <3> QED
      BY <1>2, <3>1
  <2> QED
    BY <1>4, <1>5, <1>6, <2>1, <2>2 DEF PathOK
<1> QED
  BY <1>1, <1>3, <1>7, OneMoves

LEMMA ReplyKeeps ==
    ASSUME PathInv, NEW r \in Requests, NEW status \in Status,
           NEW at \in {"returned", "panicking"},
           req[r].at = "chain",
           req' = [req EXCEPT ![r].at = at, ![r].status = status],
           status = 200 => ~Guarded(req[r].route) \/ req[r].next = 3
    PROVE  PathInv'
<1> DEFINE q == [req[r] EXCEPT !.at = at, !.status = status]
<1>0. req[r] \in RequestType /\ PathOK(req[r])
  BY DEF PathInv
<1>1. req' = [req EXCEPT ![r] = q]
  BY DEF PathInv
<1>2. q \in RequestType
  BY <1>0 DEF RequestType
<1>3. /\ q.at = at /\ q.route = req[r].route /\ q.header = req[r].header
      /\ q.claims = req[r].claims /\ q.status = status /\ q.next = req[r].next
  BY <1>0 DEF RequestType
<1>4. PathOK(q)
  <2> HIDE DEF q
  <2> QED
    BY <1>0, <1>3 DEF PathOK, Passed
<1> QED
  BY <1>1, <1>2, <1>4, OneMoves

LEMMA RefusalKeeps ==
    ASSUME PathInv, NEW r \in Requests, NEW status \in Status,
           status # 200, req[r].at = "chain", Reply(r, status)
    PROVE  PathInv'
<1>2. req' = [req EXCEPT ![r].at = "returned", ![r].status = status]
  BY DEF Reply
<1>3. "returned" \in {"returned", "panicking"}
  OBVIOUS
<1> QED
  BY <1>2, <1>3, ReplyKeeps

LEMMA EndKeeps ==
    ASSUME PathInv, NEW r \in Requests, NEW status \in Status,
           NEW line \in Status, End(r, status, line),
           line = status \/ (line = 0 /\ status = 500)
    PROVE  PathInv'
<1> DEFINE q == [Waiting EXCEPT !.at = "done", !.status = status, !.log = line]
<1>1. req' = [req EXCEPT ![r] = q]
  BY DEF End
<1>2. /\ q.at = "done" /\ q.next = 0 /\ q.route = None /\ q.header = None
      /\ q.claims = None /\ q.status = status /\ q.log = line
  BY DEF Waiting
<1>3. q \in RequestType
  <2>1. Waiting \in RequestType
    BY DEF Waiting, RequestType, Status
  <2>2. line \in Status \cup {None}
    OBVIOUS
  <2>3. ASSUME NEW p \in RequestType
        PROVE  [p EXCEPT !.log = line] \in RequestType
    BY <2>2 DEF RequestType
  <2>4. ASSUME NEW p \in RequestType
        PROVE  [p EXCEPT !.status = status] \in RequestType
    BY DEF RequestType
  <2>5. [Waiting EXCEPT !.at = "done"] \in RequestType
    BY <2>1 DEF RequestType
  <2>6. q = [[[Waiting EXCEPT !.at = "done"] EXCEPT !.status = status]
                EXCEPT !.log = line]
    OBVIOUS
  <2> HIDE DEF q
  <2> QED
    BY <2>3, <2>4, <2>5, <2>6
<1>4. ~Guarded(None)
  BY GuardedRoutes, PathAssumption DEF Routes
<1>5. PathOK(q)
  <2> HIDE DEF q
  <2> QED
    BY <1>2, <1>4 DEF PathOK
<1> QED
  BY <1>1, <1>3, <1>5, OneMoves

LEMMA AcceptKeeps ==
    ASSUME PathInv, NEW r \in Requests, Accept(r)
    PROVE  PathInv'
<1>a. PICK route \in Routes : \E h \in HeadersOf(route) :
         req' = [req EXCEPT ![r].at = "chain", ![r].next = 1,
                            ![r].route = route, ![r].header = h]
  BY DEF Accept
<1>1. PICK h \in HeadersOf(route) :
         req' = [req EXCEPT ![r].at = "chain", ![r].next = 1,
                            ![r].route = route, ![r].header = h]
  BY <1>a
<1> DEFINE q == [req[r] EXCEPT !.at = "chain", !.next = 1,
                               !.route = route, !.header = h]
<1>2. req[r] = Waiting
  BY DEF Accept
<1>3. /\ q.at = "chain" /\ q.next = 1 /\ q.route = route
      /\ q.status = 0 /\ q.claims = None
  BY <1>2 DEF Waiting
<1>4. req' = [req EXCEPT ![r] = q]
  BY <1>1 DEF PathInv
<1>5. h \in Claims \cup {None}
  BY DEF HeadersOf
<1>6. q \in RequestType
  <2>1. \A p \in RequestType : [p EXCEPT !.at = "chain"] \in RequestType
    BY DEF RequestType
  <2>2. \A p \in RequestType : [p EXCEPT !.next = 1] \in RequestType
    BY DEF RequestType
  <2>3. \A p \in RequestType : [p EXCEPT !.route = route] \in RequestType
    BY DEF RequestType
  <2>4. \A p \in RequestType : [p EXCEPT !.header = h] \in RequestType
    BY <1>5 DEF RequestType
  <2>5. q = [[[[req[r] EXCEPT !.at = "chain"] EXCEPT !.next = 1]
                 EXCEPT !.route = route] EXCEPT !.header = h]
    OBVIOUS
  <2>6. req[r] \in RequestType
    BY DEF PathInv
  <2> HIDE DEF q
  <2> QED
    BY <2>1, <2>2, <2>3, <2>4, <2>5, <2>6
<1> HIDE DEF q
<1>7. q.next \in 1 .. Len(Chain(q.route))
  <2>1. CASE Len(Chain(q.route)) = 1
    BY <1>3, <2>1
  <2>2. CASE Len(Chain(q.route)) = 3
    BY <1>3, <2>2
  <2> QED
    BY <2>1, <2>2, GuardedRoutes
<1>8. PathOK(q)
  BY <1>3, <1>7 DEF PathOK
<1> QED
  BY <1>4, <1>6, <1>8, OneMoves

LEMMA RespondKeeps ==
    ASSUME PathInv, NEW r \in Requests, Respond(r)
    PROVE  PathInv'
<1>0. req[r] \in RequestType /\ PathOK(req[r])
  BY DEF PathInv
<1>1. CASE RequireAuth(r)
  <2>1. /\ req[r].at = "chain" /\ req[r].route \in {"me", "managed"}
        /\ req[r].next = 1
    BY <1>1, Places DEF RequireAuth, Reached
  <2>2. CASE req[r].header # None /\ ServeNext(r, req[r].header)
    <3>1. req[r].header \in Claims
      BY <1>0, <2>2 DEF RequestType
    <3> QED
      BY <2>1, <2>2, <3>1, ServeNextKeeps
  <2>3. CASE Reply(r, 401)
    BY <2>1, <2>3, RefusalKeeps, StatusFacts
  <2> QED
    BY <1>1, <2>2, <2>3 DEF RequireAuth
<1>2. CASE RequireRole(r)
  <2>1. req[r].at = "chain" /\ req[r].route = "managed" /\ req[r].next = 2
    BY <1>2, Places DEF RequireRole, Reached
  <2>2. Passed(req[r], 2)
    BY <1>0, <2>1, GuardedRoutes DEF PathOK
  <2>3. CASE Reply(r, 401) \/ Reply(r, 403)
    BY <2>1, <2>3, RefusalKeeps, StatusFacts
  <2>4. CASE /\ ServeNext(r, req[r].claims)
             /\ req[r].claims.role \in Allowed
    <3>1. req[r].claims \in Claims
      BY <1>0, <2>2 DEF RequestType, Passed
    <3> QED
      BY <2>1, <2>2, <2>4, <3>1, ServeNextKeeps DEF Passed
  <2> QED
    BY <1>2, <2>2, <2>3, <2>4 DEF RequireRole, Passed
<1>3. CASE RequireActiveAccount(r)
  <2>1. req[r].at = "chain" /\ req[r].route = "me" /\ req[r].next = 2
    BY <1>3, Places DEF RequireActiveAccount, Reached
  <2>2. Passed(req[r], 2)
    BY <1>0, <2>1, GuardedRoutes DEF PathOK
  <2>3. CASE Reply(r, 401) \/ Reply(r, 403)
    BY <2>1, <2>3, RefusalKeeps, StatusFacts
  <2>4. CASE /\ ServeNext(r, req[r].claims)
             /\ req[r].claims.status = "active"
    <3>1. req[r].claims \in Claims
      BY <1>0, <2>2 DEF RequestType, Passed
    <3> QED
      BY <2>1, <2>2, <2>4, <3>1, ServeNextKeeps DEF Passed
  <2> QED
    BY <1>3, <2>2, <2>3, <2>4 DEF RequireActiveAccount, Passed
<1>4. Answers(r) \subseteq Status
  BY DEF Answers, Status
<1>5. CASE Handle(r)
  <2>1. PICK status \in Answers(r) : Reply(r, status)
    BY <1>5 DEF Handle
  <2>2. req[r].at = "chain" /\ (Guarded(req[r].route) => req[r].next = 3)
    BY <1>5, Places, GuardedRoutes DEF Handle, Reached
  <2> QED
    BY <1>4, <2>1, <2>2, ReplyKeeps DEF Reply
<1>6. CASE Panic(r)
  <2>1. PICK status \in {0} \cup Answers(r) :
           req' = [req EXCEPT ![r].at = "panicking", ![r].status = status]
    BY <1>6 DEF Panic
  <2>2. req[r].at = "chain" /\ (Guarded(req[r].route) => req[r].next = 3)
    BY <1>6, Places, GuardedRoutes DEF Panic, Reached
  <2>3. status \in Status
    BY <1>4, StatusFacts
  <2> QED
    BY <2>1, <2>2, <2>3, ReplyKeeps
<1>7. CASE Log(r)
  <2>1. CASE End(r, req[r].status, req[r].status)
    <3>1. req[r].status \in Status
      BY <1>0 DEF RequestType
    <3> QED
      BY <2>1, <3>1, EndKeeps
  <2>2. CASE /\ req[r].at = "panicking"
             /\ req' = [req EXCEPT ![r].at = "recovering",
                                   ![r].log = req[r].status]
    <3> DEFINE q == [req[r] EXCEPT !.at = "recovering", !.log = req[r].status]
    <3>1. req' = [req EXCEPT ![r] = q]
      BY <2>2 DEF PathInv
    <3>2. q \in RequestType
      BY <1>0 DEF RequestType
    <3>3. /\ q.at = "recovering" /\ q.route = req[r].route
          /\ q.header = req[r].header /\ q.claims = req[r].claims
          /\ q.status = req[r].status /\ q.next = req[r].next
          /\ q.log = req[r].status
      BY <1>0 DEF RequestType
    <3>4. PathOK(q)
      <4> HIDE DEF q
      <4> QED
        BY <1>0, <2>2, <3>3 DEF PathOK, Passed
    <3> QED
      BY <3>1, <3>2, <3>4, OneMoves
  <2> QED
    BY <1>7, <2>1, <2>2 DEF Log
<1>8. CASE Recover(r)
  <2>1. req[r].status \in Status /\ req[r].log = req[r].status
    BY <1>0, <1>8 DEF Recover, RequestType, PathOK
  <2>2. CASE req[r].status = 0
    <3>1. End(r, 500, 0)
      BY <1>8, <2>1, <2>2 DEF Recover
    <3> QED
      BY <3>1, EndKeeps, StatusFacts
  <2>3. CASE req[r].status # 0
    <3>1. End(r, req[r].status, req[r].status)
      BY <1>8, <2>1, <2>3 DEF Recover
    <3> QED
      BY <2>1, <3>1, EndKeeps
  <2> QED
    BY <2>2, <2>3
<1> QED
  BY <1>1, <1>2, <1>3, <1>5, <1>6, <1>7, <1>8 DEF Respond

----------------------------------------------------------------------------
(***************************************************************************)
(* The process                                                             *)
(***************************************************************************)

\* How main, the watcher and the requests under way are tied together.
ServerInv ==
    /\ main = "waiting" => Closing
    /\ main = "clean" => watcher = "done"
    /\ main = "error" => ~Closing
    /\ main = "killed" => watcher = "starting"
    /\ watcher = "done" => InFlight = {} \/ waited >= ShutdownTimeout

Inv == TypeOK /\ PathInv /\ ServerInv

\* A Duration stays in its width, and one that fits is what it was.
LEMMA WrappedRange ==
    ASSUME NEW n \in Int
    PROVE  /\ Wrapped(n) \in -Half .. Half - 1
           /\ n \in 0 .. Half - 1 => Wrapped(n) = n
<1>1. Half \in Nat /\ Half > 1
  BY ServerAssumption
<1>2. (n + Half) % (2 * Half) \in 0 .. 2 * Half - 1
  BY <1>1
<1>3. ASSUME n \in 0 .. Half - 1
      PROVE  (n + Half) % (2 * Half) = n + Half
  BY <1>1, <1>3
<1> QED
  BY <1>1, <1>2, <1>3 DEF Wrapped

LEMMA SettingKinds ==
    ASSUME NEW s \in Settings
    PROVE  s = None \/ s \in Int
BY ServerAssumption

LEMMA TimeoutRange ==
    ASSUME setting \in Settings
    PROVE  ShutdownTimeout \in -Half .. Half - 1
<1> DEFINE n == IF setting # None /\ setting > 0 THEN setting
                ELSE DefaultSeconds
<1>1. CASE setting = None
  <2>1. DefaultSeconds * Second \in Int
    BY ServerAssumption
  <2> QED
    BY <1>1, <2>1, WrappedRange DEF ShutdownTimeout
<1>2. CASE setting \in Int /\ setting > 0 /\ setting # None
  <2>1. setting * Second \in Int
    BY <1>2, ServerAssumption
  <2> QED
    BY <1>2, <2>1, WrappedRange DEF ShutdownTimeout
<1>3. CASE setting \in Int /\ ~(setting > 0)
  <2>1. DefaultSeconds * Second \in Int
    BY ServerAssumption
  <2> QED
    BY <1>3, <2>1, WrappedRange DEF ShutdownTimeout
<1> QED
  BY <1>1, <1>2, <1>3, SettingKinds

\* A timeout that fits into a Duration is the one that was promised.
LEMMA TimeoutPromised ==
    ASSUME setting \in Settings, Promised < Half
    PROVE  ShutdownTimeout = Promised
<1>0. /\ Half \in Nat /\ Second \in 1 .. Half - 1
      /\ DefaultSeconds * Second \in 1 .. Half - 1 /\ None \notin Int
  BY ServerAssumption
<1>1. CASE setting \in Int /\ setting > 0
  <2>1. setting \in 1 .. Half - 1 /\ setting # None
    BY <1>0, <1>1, ServerAssumption
  <2>2. setting * Second \in Nat
    BY <1>0, <2>1
  <2>3. setting * Second < Half
    BY <2>1 DEF Promised
  <2>4. setting * Second \in 0 .. Half - 1
    BY <1>0, <2>2, <2>3
  <2>5. Wrapped(setting * Second) = setting * Second
    BY <2>4, WrappedRange
  <2> QED
    BY <1>1, <2>1, <2>5 DEF ShutdownTimeout, Promised
<1>2. CASE setting = None \/ (setting \in Int /\ ~(setting > 0))
  <2>1. setting \notin 1 .. Half - 1
    BY <1>0, <1>2
  <2>2. ~(setting # None /\ setting > 0)
    BY <1>2
  <2>3. Wrapped(DefaultSeconds * Second) = DefaultSeconds * Second
    BY <1>0, WrappedRange
  <2> QED
    BY <2>1, <2>2, <2>3 DEF ShutdownTimeout, Promised
<1> QED
  BY <1>1, <1>2, SettingKinds

LEMMA InitInv == Init => Inv
<1> SUFFICES ASSUME Init PROVE Inv
  OBVIOUS
<1>1. Waiting \in RequestType
  BY DEF Waiting, RequestType, Status
<1>2. ~Guarded(None)
  BY GuardedRoutes, PathAssumption DEF Routes
<1>3. PathOK(Waiting)
  BY <1>2 DEF PathOK, Waiting
<1>4. PathInv
  BY <1>1, <1>3 DEF Init, PathInit, PathInv
<1>5. 0 \in 0 .. Half - 1
  BY ServerAssumption
<1>6. TypeOK
  BY <1>4, <1>5 DEF Init, TypeOK, PathInv
<1>7. ServerInv
  BY DEF Init, ServerInv
<1> QED
  BY <1>4, <1>6, <1>7 DEF Inv

\* A request that is not under way does not go on.
LEMMA RespondInFlight ==
    ASSUME PathInv, NEW r \in Requests, Respond(r)
    PROVE  r \in InFlight /\ InFlight' \subseteq InFlight
<1>1. req[r].at \in {"chain", "returned", "panicking", "recovering"}
  BY DEF Respond, RequireAuth, RequireRole, RequireActiveAccount, Handle,
         Panic, Log, Recover, Reached
<1>2. \E q : req' = [req EXCEPT ![r] = q]
  BY DEF Respond, RequireAuth, RequireRole, RequireActiveAccount, Handle,
         Panic, Log, Recover, ServeNext, Reply, End, PathInv
<1>3. \A p \in Requests : p # r => req'[p] = req[p]
  BY <1>2 DEF PathInv
<1> QED
  BY <1>1, <1>3 DEF InFlight

LEMMA StepInv == Inv /\ [Next]_vars => Inv'
<1> SUFFICES ASSUME Inv, [Next]_vars PROVE Inv'
  OBVIOUS
<1>0. TypeOK /\ PathInv /\ ServerInv
  BY DEF Inv
<1>1. ASSUME UNCHANGED <<req, setting>>
      PROVE  /\ PathInv' /\ InFlight' = InFlight
             /\ ShutdownTimeout' = ShutdownTimeout
  BY <1>0, <1>1 DEF PathInv, InFlight, ShutdownTimeout
<1>2. CASE Listen
  BY <1>0, <1>1, <1>2 DEF Listen, Inv, TypeOK, ServerInv, Closing
<1>3. CASE ServeFails
  BY <1>0, <1>1, <1>3 DEF ServeFails, Inv, TypeOK, ServerInv, Closing
<1>4. CASE ServeReturns
  BY <1>0, <1>1, <1>4 DEF ServeReturns, Inv, TypeOK, ServerInv, Closing
<1>5. CASE MainReturns
  BY <1>0, <1>1, <1>5 DEF MainReturns, Inv, TypeOK, ServerInv, Closing
<1>6. CASE Notify
  BY <1>0, <1>1, <1>6 DEF Notify, Inv, TypeOK, ServerInv, Closing, Running
<1>7. CASE Signal
  BY <1>0, <1>1, <1>7 DEF Signal, Inv, TypeOK, ServerInv, Closing, Running
<1>8. CASE Catch
  BY <1>0, <1>1, <1>8 DEF Catch, Inv, TypeOK, ServerInv, Closing, Running
<1>9. CASE ShutdownReturns
  BY <1>0, <1>1, <1>9
     DEF ShutdownReturns, Complete, Inv, TypeOK, ServerInv, Closing, Running
<1>10. CASE Tick
  <2>1. waited + 1 \in 0 .. Half - 1
    <3>1. ShutdownTimeout \in -Half .. Half - 1
      BY <1>0, TimeoutRange DEF TypeOK
    <3>2. Half \in Nat /\ waited \in 0 .. Half - 1 /\ waited < ShutdownTimeout
      BY <1>0, <1>10, ServerAssumption DEF Tick, TypeOK
    <3> QED
      BY <3>1, <3>2
  <2> QED
    BY <1>0, <1>1, <1>10, <2>1
       DEF Tick, Inv, TypeOK, ServerInv, Closing, Running
<1>11. CASE \E r \in Requests : Request(r)
  <2>1. PICK r \in Requests : Request(r)
    BY <1>11
  <2>2. UNCHANGED <<setting, main, watcher, pending, waited>>
    BY <2>1 DEF Request, process
  <2>3. PathInv'
    BY <1>0, <2>1, AcceptKeeps, RespondKeeps DEF Request
  <2>4. TypeOK'
    BY <1>0, <2>2, <2>3 DEF TypeOK, PathInv
  <2>5. watcher = "done" /\ InFlight = {} => InFlight' = {}
    BY <1>0, <2>1, RespondInFlight DEF Request, Closing
  <2>6. ShutdownTimeout' = ShutdownTimeout
    BY <2>2 DEF ShutdownTimeout
  <2>7. ServerInv'
    BY <1>0, <2>2, <2>5, <2>6 DEF ServerInv, Closing
  <2> QED
    BY <2>3, <2>4, <2>7 DEF Inv
<1>12. CASE UNCHANGED vars
  <2>1. UNCHANGED <<req, setting, main, watcher, pending, waited>>
    BY <1>12 DEF vars, process
  <2> QED
    BY <1>0, <1>1, <2>1 DEF Inv, TypeOK, ServerInv, Closing
<1> QED
  BY <1>2, <1>3, <1>4, <1>5, <1>6, <1>7, <1>8, <1>9, <1>10, <1>11, <1>12
     DEF Next

LEMMA Invariant == Spec => []Inv
BY InitInv, StepInv, PTL DEF Spec

\* Every variable of the process and of its requests keeps its type; above all,
\* the wait of Shutdown stays in the width of a Duration.
THEOREM TypeCorrect == Spec => []TypeOK
<1>1. Inv => TypeOK
  BY DEF Inv
<1> QED
  BY <1>1, Invariant, PTL

\* No request reaches the handler of a guarded route, or is told a success
\* there, but by a token that passed RequireAuth and the guard behind it.
THEOREM Admission == Spec => []OnlyAdmitted
<1>1. ASSUME Inv PROVE OnlyAdmitted
  <2> SUFFICES ASSUME NEW r \in Requests, Guarded(req[r].route),
                      Reached(r, "handler") \/ req[r].status = 200
               PROVE  /\ req[r].header # None
                      /\ req[r].claims = req[r].header
                      /\ req[r].route = "me" => req[r].header.status = "active"
                      /\ req[r].route = "managed" =>
                            req[r].header.role \in Allowed
    BY DEF OnlyAdmitted
  <2>1. PathOK(req[r]) /\ PathInv
    BY <1>1 DEF Inv, PathInv
  <2>2. req[r].route \in {"me", "managed"}
    BY GuardedRoutes
  <2>3. req[r].next = 3 /\ req[r].at # "none"
    BY <2>1, <2>2, Places DEF PathOK, Reached
  <2>4. Passed(req[r], 3)
    BY <2>1, <2>3 DEF PathOK
  <2> QED
    BY <2>4 DEF Passed
<1> QED
  BY <1>1, Invariant, PTL

\* The access log misses no request that has ended, and tells what the client was
\* told unless Recoverer answered.
THEOREM Logged == Spec => []AnswerIsLogged
<1>1. ASSUME Inv PROVE AnswerIsLogged
  BY <1>1 DEF Inv, PathInv, PathOK, AnswerIsLogged
<1> QED
  BY <1>1, Invariant, PTL

\* A request that is under way when the process ends had all of the timeout,
\* unless the listener failed or a signal came before Notify.
THEOREM Drained == Spec => []EveryLossIsExplained
<1>1. ASSUME Inv PROVE EveryLossIsExplained
  <2> SUFFICES ASSUME ~Running, InFlight # {}, Promised < Half
               PROVE  \/ Closing /\ waited >= Promised
                      \/ ~Closing /\ main = "error"
                      \/ watcher = "starting" /\ main = "killed"
    BY DEF EveryLossIsExplained
  <2>0. TypeOK /\ ServerInv
    BY <1>1 DEF Inv
  <2>1. main \in {"clean", "error", "killed"}
    BY <2>0 DEF TypeOK, Running
  <2>2. ShutdownTimeout = Promised
    BY <2>0, TimeoutPromised DEF TypeOK
  <2> QED
    BY <2>0, <2>1, <2>2 DEF ServerInv, Closing
<1> QED
  BY <1>1, Invariant, PTL

============================================================================
