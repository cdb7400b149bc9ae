-------------------------- MODULE AuthSessionsProofs --------------------------
(***************************************************************************)
(* Proofs about AuthSessions, for any sets of accounts, agents, calls and  *)
(* tokens and any lifetimes.                                               *)
(***************************************************************************)
EXTENDS AuthSessions, TLAPS

USE DEF Past, CreateSession, RevokeSession

\* What a call holds at each of its steps.
CallOK(c) ==
    /\ call[c].at # "idle" =>
          call[c].acct \in Accounts /\ call[c].agent \in Agents
    /\ call[c].at \in {"password", "issue", "store", "rotate"} =>
          call[c].seen \in Statuses
    /\ call[c].at \in {"account", "issue", "rotate"} => call[c].token \in Tokens

TypeInv == TypeOK /\ \A c \in Calls : CallOK(c)

----------------------------------------------------------------------------
\* The arithmetic of deadlines stays within the range of a deadline.
LEMMA LeftAfterRange ==
    ASSUME NEW ttl \in Nat, NEW a \in Nat
    PROVE  LeftAfter(ttl, a) \in Past .. ttl
BY DEF LeftAfter

\* A tick keeps what is left of a lifetime in its range.
LEMMA LessRange ==
    ASSUME NEW ttl \in Nat, NEW left \in Past .. ttl
    PROVE  Less(left) \in Past .. ttl
BY DEF Less

\* What a call about to enter the store would store and hand out has the right
\* type.
LEMMA NewSessionType ==
    ASSUME TypeInv, NEW c \in Calls, call[c].at \in {"store", "rotate"}
    PROVE  NewSession(c) \in Session
<1>1. call[c] \in Call /\ CallOK(c)
  BY DEF TypeInv, TypeOK
<1>2. call[c].age \in Nat /\ RefreshTTL \in Nat
  BY <1>1, TTLAssumption DEF Call
<1>3. LeftAfter(RefreshTTL, call[c].age) \in Past .. RefreshTTL
  BY <1>2, LeftAfterRange
<1> QED
  BY <1>1, <1>3 DEF CallOK, NewSession, Session

\* GenerateAccessToken returns an access token.
LEMMA NewAccessTokenType ==
    ASSUME TypeInv, NEW c \in Calls, call[c].at \in {"store", "rotate"}
    PROVE  NewAccessToken(c) \in AccessToken
<1>1. call[c] \in Call /\ CallOK(c)
  BY DEF TypeInv, TypeOK
<1>2. call[c].age \in Nat /\ AccessTTL \in Nat
  BY <1>1, TTLAssumption DEF Call
<1>3. LeftAfter(AccessTTL, call[c].age) \in Past .. AccessTTL
  BY <1>2, LeftAfterRange
<1> QED
  BY <1>1, <1>3 DEF CallOK, NewAccessToken, AccessToken

\* A call that is over is a typed record.
LEMMA IdleType == Idle \in Call
BY TTLAssumption DEF Idle, Call

----------------------------------------------------------------------------
\* The type invariant, with what each call holds.
LEMMA TypeInit == Init => TypeInv
<1> SUFFICES ASSUME Init PROVE TypeInv
  OBVIOUS
<1>1. TypeOK
  BY IdleType DEF Init, TypeOK
<1>2. \A c \in Calls : CallOK(c)
  BY DEF Init, Idle, CallOK
<1> QED
  BY <1>1, <1>2 DEF TypeInv

\* A step that moves only the call c keeps the type invariant when the call's new
\* variables have their types.
LEMMA TypeOneCall ==
    ASSUME TypeInv, NEW c \in Calls, NEW x \in Call,
           call' = [call EXCEPT ![c] = x],
           CallOK(c)',
           UNCHANGED <<status, sessions, issued, family>>
    PROVE  TypeInv'
<1>1. TypeOK'
  BY DEF TypeInv, TypeOK
<1>2. \A d \in Calls : CallOK(d)'
  BY DEF TypeInv, TypeOK, CallOK
<1> QED
  BY <1>1, <1>2 DEF TypeInv

\* Every step keeps the types and what the calls know.
LEMMA TypeNext == TypeInv /\ [Next]_vars => TypeInv'
<1> SUFFICES ASSUME TypeInv, [Next]_vars PROVE TypeInv'
  OBVIOUS
<1> USE TTLAssumption, IdleType
<1>0. /\ call \in [Calls -> Call]
      /\ \A c \in Calls : CallOK(c)
  BY DEF TypeInv, TypeOK
<1>1. CASE \E c \in Calls, a \in Accounts, g \in Agents : LoginLookup(c, a, g)
  <2>1. PICK c \in Calls, a \in Accounts, g \in Agents : LoginLookup(c, a, g)
    BY <1>1
  <2>2. status[a] \in Statuses
    BY <2>1 DEF LoginLookup, TypeInv, TypeOK
  <2> DEFINE x == [Idle EXCEPT !.at = "password", !.acct = a,
                               !.seen = status[a], !.agent = g,
                               !.open = (status[a] = "active")]
  <2>3. x \in Call
    BY <2>2 DEF Idle, Call
  <2>4. call' = [call EXCEPT ![c] = x]
    BY <2>1 DEF LoginLookup
  <2>5. CallOK(c)'
    BY <1>0, <2>2, <2>4 DEF CallOK, Idle
  <2> QED
    BY <2>1, <2>3, <2>4, <2>5, TypeOneCall DEF LoginLookup
<1>2. CASE \E c \in Calls, t \in Tokens, g \in Agents : RefreshLookup(c, t, g)
  <2>1. PICK c \in Calls, t \in Tokens, g \in Agents : RefreshLookup(c, t, g)
    BY <1>2
  <2>2. sessions[t] \in Session
    BY <2>1 DEF RefreshLookup, IsActive, TypeInv, TypeOK
  <2> DEFINE x == [Idle EXCEPT !.at = "account", !.acct = sessions[t].account,
                               !.agent = g, !.token = t,
                               !.open =
                                 (status[sessions[t].account] = "active")]
  <2>3. x \in Call
    BY <2>2 DEF Idle, Call, Session
  <2>4. call' = [call EXCEPT ![c] = x]
    BY <2>1 DEF RefreshLookup
  <2>5. CallOK(c)'
    BY <1>0, <2>2, <2>4 DEF CallOK, Idle, Session
  <2> QED
    BY <2>1, <2>3, <2>4, <2>5, TypeOneCall DEF RefreshLookup
<1>3. CASE \E c \in Calls : Serve(c)
  <2>0. PICK c \in Calls : Serve(c)
    BY <1>3
  <2>c. call[c] \in Call /\ CallOK(c)
    BY <1>0
  <2>1. CASE LoginIssue(c)
    <3> DEFINE x == [call[c] EXCEPT !.at = "store"]
    <3>1. x \in Call /\ call' = [call EXCEPT ![c] = x]
      BY <1>0, <2>c, <2>1 DEF LoginIssue, Call
    <3>2. CallOK(c)'
      BY <1>0, <2>c, <2>1, <3>1 DEF LoginIssue, CallOK, Call
    <3> QED
      BY <2>1, <3>1, <3>2, TypeOneCall DEF LoginIssue
  <2>2. CASE LoginRefuse(c) \/ RefreshRefuse(c) \/ RefreshConflict(c)
    <3>1. /\ call' = [call EXCEPT ![c] = Idle]
          /\ UNCHANGED <<status, sessions, issued, family>>
      BY <2>2 DEF LoginRefuse, RefreshRefuse, RefreshConflict
    <3>2. CallOK(c)'
      BY <1>0, <3>1 DEF CallOK, Idle
    <3> QED
      BY <3>1, <3>2, TypeOneCall
  <2>3. CASE \E t \in Tokens : LoginStore(c, t)
    <3>1. PICK t \in Tokens : LoginStore(c, t)
      BY <2>3
    <3>2. NewSession(c) \in Session /\ NewAccessToken(c) \in AccessToken
      BY <3>1, NewSessionType, NewAccessTokenType DEF LoginStore
    <3>3. TypeOK'
      BY <3>1, <3>2 DEF LoginStore, TypeInv, TypeOK
    <3>4. \A d \in Calls : CallOK(d)'
      BY <1>0, <3>1 DEF LoginStore, CallOK, Idle
    <3> QED
      BY <3>3, <3>4 DEF TypeInv
  <2>4. CASE RefreshAccount(c)
    <3> DEFINE x == [call[c] EXCEPT !.at = "issue",
                                    !.seen = status[call[c].acct]]
    <3>1. x \in Call /\ call' = [call EXCEPT ![c] = x]
      BY <1>0, <2>c, <2>4 DEF RefreshAccount, Call, Statuses
    <3>2. CallOK(c)'
      BY <1>0, <2>c, <2>4, <3>1 DEF RefreshAccount, CallOK, Call, Statuses
    <3> QED
      BY <2>4, <3>1, <3>2, TypeOneCall DEF RefreshAccount
  <2>5. CASE RefreshIssue(c)
    <3> DEFINE x == [call[c] EXCEPT !.at = "rotate"]
    <3>1. x \in Call /\ call' = [call EXCEPT ![c] = x]
      BY <1>0, <2>c, <2>5 DEF RefreshIssue, Call
    <3>2. CallOK(c)'
      BY <1>0, <2>c, <2>5, <3>1 DEF RefreshIssue, CallOK, Call
    <3> QED
      BY <2>5, <3>1, <3>2, TypeOneCall DEF RefreshIssue
  <2>6. CASE \E u \in Tokens : RefreshRotate(c, u)
    <3>1. PICK u \in Tokens : RefreshRotate(c, u)
      BY <2>6
    <3>2. NewSession(c) \in Session /\ NewAccessToken(c) \in AccessToken
      BY <3>1, NewSessionType, NewAccessTokenType DEF RefreshRotate
    <3> DEFINE t == call[c].token
    <3>3. t \in Tokens /\ sessions[t] \in Session
      BY <2>c, <3>1 DEF RefreshRotate, MayRotate, CallOK, TypeInv, TypeOK
    <3>4. [sessions[t] EXCEPT !.revoked = TRUE] \in Session
      BY <3>3 DEF Session
    <3>5. sessions' = [sessions EXCEPT ![t] = [sessions[t] EXCEPT !.revoked = TRUE],
                                      ![u] = NewSession(c)]
      BY <3>1 DEF RefreshRotate
    <3>6. sessions' \in [Tokens -> Session \cup {None}]
      BY <3>2, <3>3, <3>4, <3>5 DEF TypeInv, TypeOK
    <3>7. TypeOK'
      BY <3>1, <3>2, <3>3, <3>6 DEF RefreshRotate, TypeInv, TypeOK
    <3>8. \A d \in Calls : CallOK(d)'
      BY <1>0, <3>1 DEF RefreshRotate, CallOK, Idle
    <3> QED
      BY <3>7, <3>8 DEF TypeInv
  <2> QED
    BY <2>0, <2>1, <2>2, <2>3, <2>4, <2>5, <2>6 DEF Serve
<1>4. CASE \E t \in Tokens : Logout(t)
  <2>1. PICK t \in Tokens : Logout(t)
    BY <1>4
  <2>2. [sessions[t] EXCEPT !.revoked = TRUE] \in Session
    BY <2>1 DEF Logout, TypeInv, TypeOK, Session
  <2>3. TypeOK'
    BY <2>1, <2>2 DEF Logout, TypeInv, TypeOK
  <2>4. \A c \in Calls : CallOK(c)'
    BY <1>0, <2>1 DEF Logout, CallOK
  <2> QED
    BY <2>3, <2>4 DEF TypeInv
<1>5. CASE \E a \in Accounts, s \in Statuses : StoreAccount(a, s)
  <2>1. PICK a \in Accounts, s \in Statuses : StoreAccount(a, s)
    BY <1>5
  <2>2. call' \in [Calls -> Call]
    BY <1>0, <2>1 DEF StoreAccount, Call
  <2>3. TypeOK'
    BY <2>1, <2>2 DEF StoreAccount, TypeInv, TypeOK
  <2>4. \A c \in Calls : CallOK(c)'
    BY <1>0, <2>1 DEF StoreAccount, CallOK, Call
  <2> QED
    BY <2>3, <2>4 DEF TypeInv
<1>6. CASE Restart
  <2>1. TypeOK'
    BY <1>6 DEF Restart, TypeInv, TypeOK
  <2>2. \A c \in Calls : CallOK(c)'
    BY <1>6 DEF Restart, CallOK, Idle
  <2> QED
    BY <2>1, <2>2 DEF TypeInv
<1>7. CASE Tick
  <2>1. ASSUME NEW t \in Tokens, sessions[t] # None
        PROVE  [sessions[t] EXCEPT !.left = Less(@)] \in Session
    <3>1. sessions[t] \in Session
      BY <2>1 DEF TypeInv, TypeOK
    <3>2. Less(sessions[t].left) \in Past .. RefreshTTL
      BY <3>1, LessRange DEF Session
    <3> QED
      BY <3>1, <3>2 DEF Session
  <2>2. sessions' \in [Tokens -> Session \cup {None}]
    BY <1>7, <2>1 DEF Tick
  <2>3. ASSUME NEW k \in issued
        PROVE  [k EXCEPT !.left = Less(@)] \in AccessToken
    <3>1. k \in AccessToken
      BY DEF TypeInv, TypeOK
    <3>2. Less(k.left) \in Past .. AccessTTL
      BY <3>1, LessRange DEF AccessToken
    <3> QED
      BY <3>1, <3>2 DEF AccessToken
  <2>4. issued' \subseteq AccessToken
    BY <1>7, <2>3 DEF Tick
  <2>5. ASSUME NEW c \in Calls
        PROVE  call'[c] \in Call /\ CallOK(c)'
    <3>1. call[c] \in Call /\ CallOK(c)
      BY <1>0
    <3>2. CASE call[c].at \notin {"store", "rotate"}
      BY <1>7, <3>1, <3>2 DEF Tick, CallOK
    <3>3. CASE call[c].at \in {"store", "rotate"}
      <4> DEFINE x == [call[c] EXCEPT !.age =
                         IF call[c].age > RefreshTTL THEN call[c].age
                         ELSE call[c].age + 1]
      <4>1. call'[c] = x
        BY <1>7, <3>3 DEF Tick
      <4>2. (IF call[c].age > RefreshTTL THEN call[c].age
             ELSE call[c].age + 1) \in 0 .. RefreshTTL + 1
        BY <3>1 DEF Call
      <4>3. x \in Call
        BY <3>1, <4>2 DEF Call
      <4>4. CallOK(c)'
        BY <3>1, <4>1 DEF CallOK, Call
      <4> QED
        BY <4>1, <4>3, <4>4
    <3> QED
      BY <3>2, <3>3
  <2>6. call' \in [Calls -> Call]
    BY <1>7, <2>5 DEF Tick
  <2>7. TypeOK'
    BY <1>7, <2>2, <2>4, <2>6 DEF Tick, TypeInv, TypeOK
  <2> QED
    BY <2>5, <2>7 DEF TypeInv
<1>8. CASE UNCHANGED vars
  BY <1>8 DEF vars, TypeInv, TypeOK, CallOK
<1> QED
  BY <1>1, <1>2, <1>3, <1>4, <1>5, <1>6, <1>7, <1>8 DEF Next

\* Every variable of the service keeps its type, whatever the calls do.
THEOREM TypeCorrect == Spec => []TypeOK
<1>1. Init => TypeInv
  BY TypeInit
<1>2. TypeInv /\ [Next]_vars => TypeInv'
  BY TypeNext
<1>3. TypeInv => TypeOK
  BY DEF TypeInv
<1> QED
  BY <1>1, <1>2, <1>3, PTL DEF Spec

----------------------------------------------------------------------------
\* The shape of the chains: a session in the store has a drawn token, and the
\* token that names a login is the first of its own login.
ChainOK ==
    /\ \A t \in Tokens : sessions[t] # None => family[t] # None
    /\ \A t \in Tokens : family[t] # None => family[family[t]] = family[t]

\* OneLivePerLogin is inductive together with the shape of the chains: the token
\* a login draws must not name an older login, and the token Refresh rotates
\* must be in the chain it extends.
ChainInv == TypeInv /\ ChainOK /\ OneLivePerLogin

\* Nothing is stored, so nothing forks.
LEMMA ChainInit == Init => ChainInv
<1> SUFFICES ASSUME Init PROVE ChainInv
  OBVIOUS
<1>1. ChainOK /\ OneLivePerLogin
  BY DEF Init, ChainOK, OneLivePerLogin, Live
<1> QED
  BY <1>1, TypeInit DEF ChainInv

\* A new session is live and stands for itself in the store.
LEMMA NewSessionStored ==
    ASSUME TypeInv, NEW c \in Calls, call[c].at \in {"store", "rotate"}
    PROVE  /\ NewSession(c) # None
           /\ ~NewSession(c).revoked
           /\ NewSession(c).account = call[c].acct
BY NewSessionType, NoneAssumption DEF NewSession

\* What CreateSession does to the tokens: t becomes live and begins a login of
\* its own, nothing else changes.
LEMMA LoginStoreEffect ==
    ASSUME ChainInv, NEW c \in Calls, NEW t \in Tokens, LoginStore(c, t)
    PROVE  /\ family[t] = None /\ family' = [family EXCEPT ![t] = t]
           /\ ~Live(t) /\ Live(t)'
           /\ \A v \in Tokens \ {t} : /\ sessions'[v] = sessions[v]
                                      /\ Live(v)' <=> Live(v)
<1>1. sessions' = [sessions EXCEPT ![t] = NewSession(c)]
  BY DEF LoginStore
<1>2. NewSession(c) # None /\ ~NewSession(c).revoked
  BY NewSessionStored DEF LoginStore, ChainInv
<1>3. Live(t)' /\ \A v \in Tokens \ {t} : sessions'[v] = sessions[v]
  BY <1>1, <1>2 DEF Live, ChainInv, TypeInv, TypeOK
<1> QED
  BY <1>3 DEF LoginStore, Fresh, Live, ChainInv, ChainOK

\* What RotateSession does to the tokens: the token presented, live until now,
\* dies; u becomes live in its login; nothing else changes.
LEMMA RotateEffect ==
    ASSUME ChainInv, NEW c \in Calls, NEW u \in Tokens, RefreshRotate(c, u),
           NEW t \in Tokens, t = call[c].token
    PROVE  /\ t # u
           /\ Live(t) /\ sessions[t].left >= 0 /\ ~Live(t)'
           /\ ~Live(u) /\ Live(u)'
           /\ sessions'[u].account = call[c].acct
           /\ family[u] = None /\ family[t] # None
           /\ family' = [family EXCEPT ![u] = family[t]]
           /\ \A v \in Tokens \ {t, u} : /\ sessions'[v] = sessions[v]
                                         /\ Live(v)' <=> Live(v)
<1>2. Live(t) /\ sessions[t].left >= 0 /\ family[t] # None
  BY DEF RefreshRotate, MayRotate, Live, ChainInv, ChainOK
<1>3. family[u] = None /\ t # u /\ ~Live(u)
  BY <1>2 DEF RefreshRotate, Fresh, Live, ChainInv, ChainOK
<1>4. sessions[t] \in Session
  BY <1>2 DEF Live, ChainInv, TypeInv, TypeOK
<1>5. sessions' = [sessions EXCEPT ![t] = [sessions[t] EXCEPT !.revoked = TRUE],
                                  ![u] = NewSession(c)]
  BY DEF RefreshRotate
<1>6. /\ NewSession(c) # None /\ ~NewSession(c).revoked
      /\ NewSession(c).account = call[c].acct
  BY NewSessionStored DEF RefreshRotate, ChainInv
<1>7. /\ sessions'[u] = NewSession(c)
      /\ sessions'[t] = [sessions[t] EXCEPT !.revoked = TRUE]
      /\ \A v \in Tokens \ {t, u} : sessions'[v] = sessions[v]
  BY <1>3, <1>5 DEF ChainInv, TypeInv, TypeOK
<1>8. sessions'[t].revoked
  BY <1>4, <1>7 DEF Session
<1>9. Live(u)' /\ ~Live(t)' /\ \A v \in Tokens \ {t, u} : Live(v)' <=> Live(v)
  <2>0. sessions'[u] # None /\ ~sessions'[u].revoked
    BY <1>6, <1>7
  <2>1. Live(u)' /\ ~Live(t)'
    BY <2>0, <1>8 DEF Live
  <2>2. ASSUME NEW v \in Tokens \ {t, u} PROVE Live(v)' <=> Live(v)
    BY <1>7, <2>2 DEF Live
  <2> QED
    BY <2>1, <2>2
<1>10. family' = [family EXCEPT ![u] = family[t]]
  BY DEF RefreshRotate
<1> QED
  BY <1>2, <1>3, <1>6, <1>7, <1>9, <1>10

\* No other step makes a token live or draws one.
Shrinks ==
    /\ family' = family
    /\ \A v \in Tokens : /\ Live(v)' => Live(v)
                         /\ sessions'[v] # None => sessions[v] # None

\* The steps that store no session only revoke sessions.
LEMMA OtherStepsShrink ==
    ASSUME ChainInv, [Next]_vars,
           ~\E c \in Calls, t \in Tokens : LoginStore(c, t) \/ RefreshRotate(c, t)
    PROVE  Shrinks
<1>1. CASE \E t \in Tokens : Logout(t)
  <2>1. PICK t \in Tokens : Logout(t)
    BY <1>1
  <2>2. sessions[t] \in Session /\ sessions \in [Tokens -> Session \cup {None}]
    BY <2>1 DEF Logout, ChainInv, TypeInv, TypeOK
  <2>3. sessions' = [sessions EXCEPT ![t] = [sessions[t] EXCEPT !.revoked = TRUE]]
    BY <2>1 DEF Logout
  <2>4. sessions'[t].revoked /\ \A v \in Tokens \ {t} : sessions'[v] = sessions[v]
    BY <2>2, <2>3 DEF Session
  <2> QED
    BY <2>1, <2>4 DEF Logout, Shrinks, Live
<1>2. CASE Restart
  BY <1>2 DEF Restart, Shrinks, Live
<1>3. CASE Tick
  <2>1. ASSUME NEW v \in Tokens, sessions[v] # None
        PROVE  sessions'[v].revoked = sessions[v].revoked
    <3>1. sessions[v] \in Session
      BY <2>1 DEF ChainInv, TypeInv, TypeOK
    <3>2. sessions'[v] = [sessions[v] EXCEPT !.left = Less(sessions[v].left)]
      BY <1>3, <2>1 DEF Tick
    <3> QED
      BY <3>1, <3>2 DEF Session
  <2>2. \A v \in Tokens : sessions[v] = None => sessions'[v] = None
    BY <1>3 DEF Tick
  <2> QED
    BY <1>3, <2>1, <2>2 DEF Tick, Shrinks, Live
<1>4. CASE UNCHANGED <<sessions, family>>
  BY <1>4 DEF Shrinks, Live
<1> QED
  BY <1>1, <1>2, <1>3, <1>4
     DEF Next, vars, Serve, LoginLookup, LoginIssue, LoginRefuse, RefreshLookup,
         RefreshAccount, RefreshRefuse, RefreshIssue, RefreshConflict,
         StoreAccount

\* Every step keeps the chains in order.
LEMMA ChainNext == ChainInv /\ [Next]_vars => ChainInv'
<1> SUFFICES ASSUME ChainInv, [Next]_vars PROVE ChainInv'
  OBVIOUS
<1>0. /\ TypeInv' /\ family \in [Tokens -> Tokens \cup {None}]
      /\ None \notin Tokens
  BY TypeNext, NoneAssumption DEF ChainInv, TypeInv, TypeOK
<1>1. CASE \E c \in Calls, t \in Tokens : LoginStore(c, t)
  <2>1. PICK c \in Calls, t \in Tokens : LoginStore(c, t)
    BY <1>1
  <2>2. \A v \in Tokens : v # t => family[v] # t
    BY <1>0, <2>1, LoginStoreEffect DEF ChainInv, ChainOK
  <2>3. ChainOK'
    BY <1>0, <2>1, <2>2, LoginStoreEffect DEF ChainInv, ChainOK
  <2>4. OneLivePerLogin'
    BY <1>0, <2>1, <2>2, LoginStoreEffect DEF ChainInv, OneLivePerLogin
  <2> QED
    BY <1>0, <2>3, <2>4 DEF ChainInv
<1>2. CASE \E c \in Calls, u \in Tokens : RefreshRotate(c, u)
  <2>1. PICK c \in Calls, u \in Tokens : RefreshRotate(c, u)
    BY <1>2
  <2>0. PICK t \in Tokens : t = call[c].token
    BY <2>1 DEF RefreshRotate, CallOK, ChainInv, TypeInv
  <2>a. /\ Live(t) /\ ~Live(t)' /\ family[u] = None
        /\ family' = [family EXCEPT ![u] = family[t]] /\ family[t] # None
        /\ \A v \in Tokens \ {t, u} : /\ sessions'[v] = sessions[v]
                                      /\ Live(v)' <=> Live(v)
    BY <2>0, <2>1, RotateEffect
  <2>2. \A v \in Tokens : v # u => family'[v] = family[v]
    BY <1>0, <2>a
  <2>3. \A v \in Tokens : family[v] # None => family[v] # u
    BY <1>0, <2>a DEF ChainInv, ChainOK
  <2>4. ChainOK'
    <3>1. \A v \in Tokens : sessions'[v] # None => family'[v] # None
      BY <1>0, <2>a, <2>2 DEF ChainInv, ChainOK
    <3>2. \A v \in Tokens : family'[v] # None => family'[family'[v]] = family'[v]
      BY <1>0, <2>a, <2>2, <2>3 DEF ChainInv, ChainOK
    <3> QED
      BY <3>1, <3>2 DEF ChainOK
  <2>5. OneLivePerLogin'
    <3>1. SUFFICES ASSUME NEW v \in Tokens, NEW w \in Tokens,
                          Live(v)', Live(w)', family'[v] = family'[w]
                   PROVE  v = w
      BY DEF OneLivePerLogin
    <3>2. family'[u] = family[t] /\ v # t /\ w # t
      BY <1>0, <2>a, <3>1 DEF Live
    <3>3. CASE v # u /\ w # u
      BY <2>a, <2>2, <3>1, <3>2, <3>3 DEF ChainInv, OneLivePerLogin
    <3>4. CASE v = u /\ w # u
      BY <2>a, <2>2, <3>1, <3>2, <3>4 DEF ChainInv, OneLivePerLogin
    <3>5. CASE v # u /\ w = u
      BY <2>a, <2>2, <3>1, <3>2, <3>5 DEF ChainInv, OneLivePerLogin
    <3> QED
      BY <3>3, <3>4, <3>5
  <2> QED
    BY <1>0, <2>4, <2>5 DEF ChainInv
<1>3. CASE ~\E c \in Calls, t \in Tokens : LoginStore(c, t) \/ RefreshRotate(c, t)
  BY <1>0, <1>3, OtherStepsShrink DEF Shrinks, ChainInv, ChainOK, OneLivePerLogin
<1> QED
  BY <1>1, <1>2, <1>3

\* However logins, refreshes and logouts interleave, the tokens of a login never
\* fork.
THEOREM NoFork == Spec => []OneLivePerLogin
<1>1. Init => ChainInv
  BY ChainInit
<1>2. ChainInv /\ [Next]_vars => ChainInv'
  BY ChainNext
<1>3. ChainInv => OneLivePerLogin
  BY DEF ChainInv
<1> QED
  BY <1>1, <1>2, <1>3, PTL DEF Spec

----------------------------------------------------------------------------
\* Once a login has no live token it never has one again: a rotation needs a
\* live token of the login at the very step that stores the next one.
LEMMA EndedStep == ChainInv /\ [Next]_vars =>
    \A f \in Tokens : family[f] = f /\ Ended(f) => Ended(f)'
<1> SUFFICES ASSUME ChainInv, [Next]_vars,
                    NEW f \in Tokens, family[f] = f, Ended(f)
             PROVE  Ended(f)'
  OBVIOUS
<1>0. family \in [Tokens -> Tokens \cup {None}] /\ None \notin Tokens
  BY NoneAssumption DEF ChainInv, TypeInv, TypeOK
<1>1. CASE \E c \in Calls, t \in Tokens : LoginStore(c, t)
  <2>1. PICK c \in Calls, t \in Tokens : LoginStore(c, t)
    BY <1>1
  <2>2. /\ family[t] = None /\ family' = [family EXCEPT ![t] = t]
        /\ \A v \in Tokens \ {t} : Live(v)' <=> Live(v)
    BY <2>1, LoginStoreEffect
  <2>3. ASSUME NEW v \in Tokens, family'[v] = f PROVE ~Live(v)'
    BY <1>0, <2>2, <2>3 DEF Ended
  <2> QED
    BY <2>3 DEF Ended
<1>2. CASE \E c \in Calls, u \in Tokens : RefreshRotate(c, u)
  <2>1. PICK c \in Calls, u \in Tokens : RefreshRotate(c, u)
    BY <1>2
  <2>2. PICK t \in Tokens : t = call[c].token
    BY <2>1 DEF RefreshRotate, CallOK, ChainInv, TypeInv
  <2>3. /\ Live(t) /\ ~Live(t)'
        /\ family' = [family EXCEPT ![u] = family[t]]
        /\ \A v \in Tokens \ {t, u} : Live(v)' <=> Live(v)
    BY <2>1, <2>2, RotateEffect
  <2>4. family[t] # f
    BY <2>3 DEF Ended
  <2>5. ASSUME NEW v \in Tokens, family'[v] = f PROVE ~Live(v)'
    <3>1. v # u
      BY <1>0, <2>3, <2>4, <2>5
    <3>2. family[v] = f /\ v # t
      BY <1>0, <2>3, <2>4, <2>5, <3>1
    <3> QED
      BY <2>3, <3>1, <3>2 DEF Ended
  <2> QED
    BY <2>5 DEF Ended
<1>3. CASE ~\E c \in Calls, t \in Tokens : LoginStore(c, t) \/ RefreshRotate(c, t)
  BY <1>3, OtherStepsShrink DEF Shrinks, Ended
<1> QED
  BY <1>1, <1>2, <1>3

\* A login that is over - logged out, or lost in a restart - stays over, even
\* with refreshes of its tokens in flight.
THEOREM LogoutIsFinal == Spec => EndedStaysEnded
<1>1. Init => ChainInv
  BY ChainInit
<1>2. ChainInv /\ [Next]_vars => ChainInv'
  BY ChainNext
<1>3. ChainInv /\ [Next]_vars
        => [\A f \in Tokens : family[f] = f /\ Ended(f) => Ended(f)']_vars
  BY EndedStep
<1> QED
  BY <1>1, <1>2, <1>3, PTL DEF Spec, EndedStaysEnded

----------------------------------------------------------------------------
\* The token a refresh works on has been drawn, and while its session is in the
\* store the account the call read belongs to it.
OwnerOK ==
    \A c \in Calls :
        call[c].at \in {"account", "issue", "rotate"} =>
            /\ family[call[c].token] # None
            /\ sessions[call[c].token] # None =>
                  sessions[call[c].token].account = call[c].acct

OwnerInv == ChainInv /\ OwnerOK

\* No call holds a token yet.
LEMMA OwnerInit == Init => OwnerInv
<1>1. Init => OwnerOK
  BY DEF Init, OwnerOK, Idle
<1> QED
  BY <1>1, ChainInit DEF OwnerInv

\* A step that forgets, revokes or ages sessions, and moves no call on, keeps
\* the owners.
LEMMA OwnerKept ==
    ASSUME OwnerInv, family' = family,
           \A t \in Tokens : sessions'[t] # None =>
               /\ sessions[t] # None
               /\ sessions'[t].account = sessions[t].account,
           \A c \in Calls :
               \/ call'[c].at \notin {"account", "issue", "rotate"}
               \/ /\ call[c].at \in {"account", "issue", "rotate"}
                  /\ call'[c].token = call[c].token
                  /\ call'[c].acct = call[c].acct
    PROVE  OwnerOK'
BY DEF OwnerInv, OwnerOK, ChainInv, TypeInv, CallOK

\* Every step keeps a call and the session it refreshes on one account.
LEMMA OwnerNext == OwnerInv /\ [Next]_vars => OwnerInv'
<1> SUFFICES ASSUME OwnerInv, [Next]_vars PROVE OwnerOK'
  BY ChainNext DEF OwnerInv
<1>0. /\ call \in [Calls -> Call] /\ \A c \in Calls : CallOK(c)
      /\ sessions \in [Tokens -> Session \cup {None}]
      /\ family \in [Tokens -> Tokens \cup {None}]
  BY DEF OwnerInv, ChainInv, TypeInv, TypeOK
<1>1. CASE \E c \in Calls, a \in Accounts, g \in Agents : LoginLookup(c, a, g)
  BY <1>0, <1>1, OwnerKept DEF LoginLookup, Idle
<1>2. CASE \E c \in Calls, t \in Tokens, g \in Agents : RefreshLookup(c, t, g)
  <2>1. PICK c \in Calls, t \in Tokens, g \in Agents : RefreshLookup(c, t, g)
    BY <1>2
  <2>2. family[t] # None
    BY <2>1 DEF RefreshLookup, IsActive, OwnerInv, ChainInv, ChainOK
  <2>3. call'[c].token = t /\ call'[c].acct = sessions[t].account
    BY <1>0, <2>1 DEF RefreshLookup, Idle
  <2> QED
    BY <1>0, <2>1, <2>2, <2>3 DEF RefreshLookup, OwnerInv, OwnerOK
<1>3. CASE \E c \in Calls : Serve(c)
  <2>0. PICK c \in Calls : Serve(c)
    BY <1>3
  <2>1. CASE LoginIssue(c)
    BY <1>0, <2>1, OwnerKept DEF LoginIssue, Call
  <2>2. CASE LoginRefuse(c) \/ RefreshRefuse(c) \/ RefreshConflict(c)
    BY <1>0, <2>2, OwnerKept DEF LoginRefuse, RefreshRefuse, RefreshConflict, Idle
  <2>3. CASE \E t \in Tokens : LoginStore(c, t)
    <3>1. PICK t \in Tokens : LoginStore(c, t)
      BY <2>3
    <3>2. /\ family[t] = None /\ family' = [family EXCEPT ![t] = t]
          /\ \A v \in Tokens \ {t} : sessions'[v] = sessions[v]
      BY <3>1, LoginStoreEffect DEF OwnerInv
    <3>3. ASSUME NEW d \in Calls,
                 call'[d].at \in {"account", "issue", "rotate"}
          PROVE  /\ family'[call'[d].token] # None
                 /\ sessions'[call'[d].token] # None =>
                       sessions'[call'[d].token].account = call'[d].acct
      <4>1. call'[d] = call[d] /\ call[d].token \in Tokens
        BY <1>0, <3>1, <3>3 DEF LoginStore, Idle, CallOK
      <4>2. call[d].token # t
        BY <3>2, <3>3, <4>1 DEF OwnerInv, OwnerOK
      <4> QED
        BY <1>0, <3>2, <3>3, <4>1, <4>2 DEF OwnerInv, OwnerOK
    <3> QED
      BY <3>3 DEF OwnerOK
  <2>4. CASE RefreshAccount(c)
    BY <1>0, <2>4, OwnerKept DEF RefreshAccount, Call
  <2>5. CASE RefreshIssue(c)
    BY <1>0, <2>5, OwnerKept DEF RefreshIssue, Call
  <2>6. CASE \E u \in Tokens : RefreshRotate(c, u)
    <3>1. PICK u \in Tokens : RefreshRotate(c, u)
      BY <2>6
    <3>2. PICK t \in Tokens : t = call[c].token
      BY <1>0, <3>1 DEF RefreshRotate, CallOK
    <3>3. /\ family[u] = None /\ family' = [family EXCEPT ![u] = family[t]]
          /\ t # u /\ Live(t)
          /\ \A v \in Tokens \ {t, u} : sessions'[v] = sessions[v]
      BY <3>1, <3>2, RotateEffect DEF OwnerInv
    <3>4. sessions'[t].account = sessions[t].account
      <4>1. sessions[t] \in Session
        BY <1>0, <3>3 DEF Live
      <4>2. sessions'[t] = [sessions[t] EXCEPT !.revoked = TRUE]
        BY <1>0, <3>1, <3>2, <3>3 DEF RefreshRotate
      <4> QED
        BY <4>1, <4>2 DEF Session
    <3>5. ASSUME NEW d \in Calls,
                 call'[d].at \in {"account", "issue", "rotate"}
          PROVE  /\ family'[call'[d].token] # None
                 /\ sessions'[call'[d].token] # None =>
                       sessions'[call'[d].token].account = call'[d].acct
      <4>1. call'[d] = call[d] /\ call[d].token \in Tokens
        BY <1>0, <3>1, <3>5 DEF RefreshRotate, Idle, CallOK
      <4>2. call[d].token # u
        BY <3>3, <3>5, <4>1 DEF OwnerInv, OwnerOK
      <4>3. CASE call[d].token = t
        BY <1>0, <3>3, <3>4, <3>5, <4>1, <4>3 DEF OwnerInv, OwnerOK, Live
      <4>4. CASE call[d].token # t
        BY <1>0, <3>3, <3>5, <4>1, <4>2, <4>4 DEF OwnerInv, OwnerOK
      <4> QED
        BY <4>3, <4>4
    <3> QED
      BY <3>5 DEF OwnerOK
  <2> QED
    BY <2>0, <2>1, <2>2, <2>3, <2>4, <2>5, <2>6 DEF Serve
<1>4. CASE \E t \in Tokens : Logout(t)
  <2>1. PICK t \in Tokens : Logout(t)
    BY <1>4
  <2>2. sessions'[t] = [sessions[t] EXCEPT !.revoked = TRUE]
        /\ \A v \in Tokens \ {t} : sessions'[v] = sessions[v]
    BY <1>0, <2>1 DEF Logout
  <2>3. sessions[t] # None /\ sessions'[t].account = sessions[t].account
    BY <1>0, <2>1, <2>2 DEF Logout, Session
  <2> QED
    BY <1>0, <2>1, <2>2, <2>3, OwnerKept DEF Logout
<1>5. CASE \E a \in Accounts, s \in Statuses : StoreAccount(a, s)
  BY <1>0, <1>5, OwnerKept DEF StoreAccount, Call
<1>6. CASE Restart
  BY <1>6, OwnerKept DEF Restart, Idle
<1>7. CASE Tick
  <2>1. \A c \in Calls : /\ call'[c].at = call[c].at
                         /\ call'[c].token = call[c].token
                         /\ call'[c].acct = call[c].acct
    BY <1>0, <1>7 DEF Tick, Call
  <2>2. ASSUME NEW t \in Tokens, sessions'[t] # None
        PROVE  sessions[t] # None /\ sessions'[t].account = sessions[t].account
    <3>1. sessions[t] # None
      BY <1>7, <2>2 DEF Tick
    <3>2. sessions'[t] = [sessions[t] EXCEPT !.left = Less(sessions[t].left)]
      BY <1>7, <3>1 DEF Tick
    <3> QED
      BY <1>0, <3>1, <3>2 DEF Session
  <2> QED
    BY <1>7, <2>1, <2>2, OwnerKept DEF Tick
<1>8. CASE UNCHANGED vars
  BY <1>8 DEF vars, OwnerInv, OwnerOK
<1> QED
  BY <1>1, <1>2, <1>3, <1>4, <1>5, <1>6, <1>7, <1>8 DEF Next

\* Each rotation spends a token that is live and in time at that step, for the
\* account it was issued to.
LEMMA SuccessorStep == OwnerInv /\ [Next]_vars =>
    \A u \in Tokens : family[u] = None /\ family'[u] \notin {None, u}
        => \E t \in Tokens : SuccessorOf(u, t)
<1> SUFFICES ASSUME OwnerInv, [Next]_vars, NEW u \in Tokens,
                    family[u] = None, family'[u] \notin {None, u}
             PROVE  \E t \in Tokens : SuccessorOf(u, t)
  OBVIOUS
<1>0. family \in [Tokens -> Tokens \cup {None}]
  BY DEF OwnerInv, ChainInv, TypeInv, TypeOK
<1>1. CASE \E c \in Calls, t \in Tokens : LoginStore(c, t)
  BY <1>0, <1>1 DEF LoginStore
<1>2. CASE \E c \in Calls, v \in Tokens : RefreshRotate(c, v)
  <2>1. PICK c \in Calls, v \in Tokens : RefreshRotate(c, v)
    BY <1>2
  <2>2. v = u
    BY <1>0, <2>1 DEF RefreshRotate
  <2>3. PICK t \in Tokens : t = call[c].token
    BY <2>1 DEF RefreshRotate, CallOK, OwnerInv, ChainInv, TypeInv
  <2>4. /\ Live(t) /\ sessions[t].left >= 0 /\ ~Live(t)'
        /\ family' = [family EXCEPT ![u] = family[t]]
        /\ sessions'[u].account = call[c].acct
    BY <2>1, <2>2, <2>3, RotateEffect DEF OwnerInv
  <2>5. sessions[t].account = call[c].acct
    BY <2>1, <2>3, <2>4 DEF RefreshRotate, OwnerInv, OwnerOK, Live
  <2>6. SuccessorOf(u, t)
    BY <1>0, <2>4, <2>5 DEF SuccessorOf
  <2> QED
    BY <2>6
<1>3. CASE ~\E c \in Calls, t \in Tokens : LoginStore(c, t) \/ RefreshRotate(c, t)
  BY <1>3, OtherStepsShrink DEF Shrinks, OwnerInv
<1> QED
  BY <1>1, <1>2, <1>3

\* A refresh token is exchanged while it is live and in time, or not at all.
THEOREM ExchangesAreChecked == Spec => SuccessorsReplaceLiveTokens
<1>1. Init => OwnerInv
  BY OwnerInit
<1>2. OwnerInv /\ [Next]_vars => OwnerInv'
  BY OwnerNext
<1>3. OwnerInv /\ [Next]_vars
        => [\A u \in Tokens :
              family[u] = None /\ family'[u] \notin {None, u}
                => \E t \in Tokens : SuccessorOf(u, t)]_vars
  BY SuccessorStep
<1> QED
  BY <1>1, <1>2, <1>3, PTL DEF Spec, SuccessorsReplaceLiveTokens

----------------------------------------------------------------------------
\* A call whose copy of the account says active began, or read the account,
\* while it was.
GrantOK ==
    \A c \in Calls :
        /\ call[c].at = "password" /\ call[c].seen = "active" => call[c].open
        /\ call[c].at \in {"issue", "store", "rotate"} => call[c].open

\* While the account is active a call that works for it is open: this is what
\* the reads of the account in RefreshAccount rely on.
OpenOK ==
    \A c \in Calls :
        call[c].at # "idle" /\ status[call[c].acct] = "active" => call[c].open

GrantInv == TypeInv /\ GrantOK /\ OpenOK

\* No call has begun.
LEMMA GrantInit == Init => GrantInv
<1>1. Init => GrantOK /\ OpenOK
  BY DEF Init, GrantOK, OpenOK, Idle
<1> QED
  BY <1>1, TypeInit DEF GrantInv

\* Every step keeps tokens from calls whose account was never active.
LEMMA GrantNext == GrantInv /\ [Next]_vars => GrantInv'
<1> SUFFICES ASSUME GrantInv, [Next]_vars PROVE (GrantOK /\ OpenOK)'
  BY TypeNext DEF GrantInv
<1>0. /\ call \in [Calls -> Call] /\ \A c \in Calls : CallOK(c)
      /\ status \in [Accounts -> Statuses \cup {"absent"}]
  BY DEF GrantInv, TypeInv, TypeOK
<1>1. CASE \E c \in Calls, a \in Accounts, g \in Agents : LoginLookup(c, a, g)
  <2>1. PICK c \in Calls, a \in Accounts, g \in Agents : LoginLookup(c, a, g)
    BY <1>1
  <2>2. /\ call'[c].at = "password" /\ call'[c].acct = a
        /\ call'[c].seen = status[a]
        /\ call'[c].open <=> status[a] = "active"
    BY <1>0, <2>1 DEF LoginLookup, Idle
  <2>3. status' = status /\ \A d \in Calls \ {c} : call'[d] = call[d]
    BY <1>0, <2>1 DEF LoginLookup
  <2> QED
    BY <2>2, <2>3 DEF GrantInv, GrantOK, OpenOK
<1>2. CASE \E c \in Calls, t \in Tokens, g \in Agents : RefreshLookup(c, t, g)
  <2>1. PICK c \in Calls, t \in Tokens, g \in Agents : RefreshLookup(c, t, g)
    BY <1>2
  <2>2. /\ call'[c].at = "account" /\ call'[c].acct = sessions[t].account
        /\ call'[c].open <=> status[sessions[t].account] = "active"
    BY <1>0, <2>1 DEF RefreshLookup, Idle
  <2>3. status' = status /\ \A d \in Calls \ {c} : call'[d] = call[d]
    BY <1>0, <2>1 DEF RefreshLookup
  <2> QED
    BY <2>2, <2>3 DEF GrantInv, GrantOK, OpenOK
<1>3. CASE \E c \in Calls : Serve(c)
  <2>0. PICK c \in Calls : Serve(c)
    BY <1>3
  <2>1. CASE LoginIssue(c)
    BY <1>0, <2>1 DEF LoginIssue, Call, GrantInv, GrantOK, OpenOK
  <2>2. CASE LoginRefuse(c) \/ RefreshRefuse(c) \/ RefreshConflict(c)
    BY <1>0, <2>2 DEF LoginRefuse, RefreshRefuse, RefreshConflict, Idle,
                      GrantInv, GrantOK, OpenOK
  <2>3. CASE \E t \in Tokens : LoginStore(c, t) \/ RefreshRotate(c, t)
    BY <1>0, <2>3 DEF LoginStore, RefreshRotate, Idle, GrantInv, GrantOK, OpenOK
  <2>4. CASE RefreshAccount(c)
    BY <1>0, <2>4 DEF RefreshAccount, Call, GrantInv, GrantOK, OpenOK
  <2>5. CASE RefreshIssue(c)
    BY <1>0, <2>5 DEF RefreshIssue, Call, GrantInv, GrantOK, OpenOK
  <2> QED
    BY <2>0, <2>1, <2>2, <2>3, <2>4, <2>5 DEF Serve
<1>4. CASE \E t \in Tokens : Logout(t)
  BY <1>4 DEF Logout, GrantInv, GrantOK, OpenOK
<1>5. CASE \E a \in Accounts, s \in Statuses : StoreAccount(a, s)
  <2>1. PICK a \in Accounts, s \in Statuses : StoreAccount(a, s)
    BY <1>5
  <2>2. ASSUME NEW c \in Calls
        PROVE  /\ call'[c].at = call[c].at /\ call'[c].seen = call[c].seen
               /\ call'[c].acct = call[c].acct
               /\ call[c].open => call'[c].open
               /\ call[c].acct = a /\ s = "active" => call'[c].open
    <3>1. call[c] \in Call
      BY <1>0
    <3> QED
      BY <2>1, <3>1 DEF StoreAccount, Call
  <2>3. GrantOK'
    BY <2>2 DEF GrantInv, GrantOK
  <2>4. OpenOK'
    <3>1. SUFFICES ASSUME NEW c \in Calls, call'[c].at # "idle",
                          status'[call'[c].acct] = "active"
                   PROVE  call'[c].open
      BY DEF OpenOK
    <3>2. call'[c].acct = call[c].acct /\ call[c].acct \in Accounts
      BY <1>0, <2>2, <3>1 DEF CallOK
    <3>3. CASE call[c].acct = a
      <4>1. s = "active"
        BY <1>0, <2>1, <3>1, <3>2, <3>3 DEF StoreAccount
      <4> QED
        BY <2>2, <3>3, <4>1
    <3>4. CASE call[c].acct # a
      <4>1. status[call[c].acct] = "active"
        BY <1>0, <2>1, <3>1, <3>2, <3>4 DEF StoreAccount
      <4>2. call[c].open
        BY <2>2, <3>1, <4>1 DEF GrantInv, OpenOK
      <4> QED
        BY <2>2, <4>2
    <3> QED
      BY <3>3, <3>4
  <2> QED
    BY <2>3, <2>4
<1>6. CASE Restart
  BY <1>6 DEF Restart, Idle, GrantOK, OpenOK
<1>7. CASE Tick
  <2>1. \A c \in Calls : /\ call'[c].at = call[c].at
                         /\ call'[c].seen = call[c].seen
                         /\ call'[c].acct = call[c].acct
                         /\ call'[c].open = call[c].open
    BY <1>0, <1>7 DEF Tick, Call
  <2>2. status' = status
    BY <1>7 DEF Tick
  <2> QED
    BY <2>1, <2>2 DEF GrantInv, GrantOK, OpenOK
<1>8. CASE UNCHANGED vars
  BY <1>8 DEF vars, GrantInv, GrantOK, OpenOK
<1> QED
  BY <1>1, <1>2, <1>3, <1>4, <1>5, <1>6, <1>7, <1>8 DEF Next

\* No call during which the account was never active reaches the store with
\* tokens to hand out.
THEOREM ClosedAccountsGetNothing == Spec => []GrantsOnlyWhileActive
<1>1. Init => GrantInv
  BY GrantInit
<1>2. GrantInv /\ [Next]_vars => GrantInv'
  BY GrantNext
<1>3. GrantInv => GrantsOnlyWhileActive
  BY DEF GrantInv, GrantOK, GrantsOnlyWhileActive
<1> QED
  BY <1>1, <1>2, <1>3, PTL DEF Spec

\* The API and the apps hold the same table of moves of an account, in which
\* "deactivated" is final.
THEOREM TablesAgree ==
    ASSUME NEW current \in Statuses, NEW next \in Statuses
    PROVE  /\ CanTransition(current, next) <=> canTransitionTo(current, next)
           /\ TransitionStatus(current, next) # current
                 <=> canTransitionTo(current, next)
           /\ ~CanTransition("deactivated", next)
<1>1. CASE current = "pending"
  BY <1>1 DEF Statuses, CanTransition, canTransitionTo, TransitionStatus,
              accountStatusTransitions
<1>2. CASE current = "active"
  BY <1>2 DEF Statuses, CanTransition, canTransitionTo, TransitionStatus,
              accountStatusTransitions
<1>3. CASE current = "suspended"
  BY <1>3 DEF Statuses, CanTransition, canTransitionTo, TransitionStatus,
              accountStatusTransitions
<1>4. CASE current = "deactivated"
  BY <1>4 DEF Statuses, CanTransition, canTransitionTo, TransitionStatus,
              accountStatusTransitions
<1> QED
  BY <1>1, <1>2, <1>3, <1>4 DEF Statuses

----------------------------------------------------------------------------
(***************************************************************************)
(* AuthSessions implements RotatingTokens.                                 *)
(***************************************************************************)

\* The refinement mapping.
chain == [f \in Tokens |-> OpenEnd(f)]
used == {t \in Tokens : ~Fresh(t)}

\* The open end of a login is its live token, when it has one.
OpenEndIs ==
    \A f, t \in Tokens :
        Live(t) /\ family[t] = f =>
            OpenEnd(f) = [token |-> t, account |-> sessions[t].account]

OpenEndIsNone == \A f \in Tokens : Ended(f) => OpenEnd(f) = None

\* While no login forks, OpenEnd finds the live token, and nothing if there is none.
LEMMA OpenEndValue == OneLivePerLogin => OpenEndIs /\ OpenEndIsNone
<1> SUFFICES ASSUME OneLivePerLogin PROVE OpenEndIs /\ OpenEndIsNone
  OBVIOUS
<1>1. ASSUME NEW f \in Tokens, NEW t \in Tokens, Live(t), family[t] = f
      PROVE  OpenEnd(f) = [token |-> t, account |-> sessions[t].account]
  <2> DEFINE P(v) == Live(v) /\ family[v] = f
  <2>1. P(t) /\ \A v \in Tokens : P(v) => v = t
    BY <1>1 DEF OneLivePerLogin
  <2> HIDE DEF P
  <2>2. (CHOOSE v \in Tokens : P(v)) = t
    BY <2>1
  <2> QED
    BY <1>1, <2>2 DEF P, OpenEnd
<1>2. OpenEndIsNone
  BY DEF OpenEndIsNone, OpenEnd, Ended
<1> QED
  BY <1>1, <1>2 DEF OpenEndIs

\* The same after a step.
LEMMA OpenEndValueNext == OneLivePerLogin' => (OpenEndIs /\ OpenEndIsNone)'
BY OpenEndValue, PTL

\* The open ends are records of a token and an account.
LEMMA OpenEndType ==
    ASSUME ChainInv, NEW f \in Tokens, NEW t \in Tokens, Live(t), family[t] = f
    PROVE  /\ OpenEnd(f) = [token |-> t, account |-> sessions[t].account]
           /\ OpenEnd(f) # None
<1>1. OpenEnd(f) = [token |-> t, account |-> sessions[t].account]
  BY OpenEndValue DEF ChainInv, OpenEndIs
<1>2. sessions[t] \in Session
  BY DEF Live, ChainInv, TypeInv, TypeOK
<1>3. OpenEnd(f) \in ChainEnd
  BY <1>1, <1>2 DEF Session, ChainEnd
<1> QED
  BY <1>1, <1>3, NoneAssumption

\* With no session stored, no chain is open and no token used.
LEMMA MapInit == Init => RT!Init
<1> SUFFICES ASSUME Init PROVE RT!Init
  OBVIOUS
<1>1. \A f \in Tokens : OpenEnd(f) = None
  BY DEF Init, OpenEnd, Live
<1> QED
  BY <1>1 DEF RT!Init, Init, Fresh

\* How the open ends move when every live token of the logins but f keeps its
\* place.
LEMMA OpenEndKept ==
    ASSUME ChainInv, ChainInv', NEW f \in Tokens,
           \A v \in Tokens : family'[v] = f <=> family[v] = f,
           \A v \in Tokens : family[v] = f =>
               /\ Live(v)' <=> Live(v)
               /\ Live(v) => sessions'[v].account = sessions[v].account
    PROVE  OpenEnd(f)' = OpenEnd(f)
<1>0. (OpenEndIs /\ OpenEndIsNone) /\ (OpenEndIs /\ OpenEndIsNone)'
  BY OpenEndValue, OpenEndValueNext DEF ChainInv
<1>1. CASE Ended(f)
  BY <1>0, <1>1 DEF Ended, OpenEndIsNone
<1>2. CASE ~Ended(f)
  <2>1. PICK t \in Tokens : Live(t) /\ family[t] = f
    BY <1>2 DEF Ended
  <2>2. Live(t)' /\ family'[t] = f /\ sessions'[t].account = sessions[t].account
    BY <2>1
  <2>3. OpenEnd(f) = [token |-> t, account |-> sessions[t].account]
    BY <1>0, <2>1 DEF OpenEndIs
  <2>4. OpenEnd(f)' = [token |-> t, account |-> sessions'[t].account]
    BY <1>0, <2>2 DEF OpenEndIs
  <2> QED
    BY <2>2, <2>3, <2>4
<1> QED
  BY <1>1, <1>2

\* A login opens a chain.
LEMMA MapLoginStore ==
    ASSUME OwnerInv, OwnerInv', NEW c \in Calls, NEW t \in Tokens,
           LoginStore(c, t)
    PROVE  RT!Next
<1>0. /\ TypeInv /\ family \in [Tokens -> Tokens \cup {None}]
      /\ None \notin Tokens
  BY NoneAssumption DEF OwnerInv, ChainInv, TypeInv, TypeOK
<1>1. /\ family[t] = None /\ family' = [family EXCEPT ![t] = t]
      /\ Live(t)'
      /\ \A v \in Tokens \ {t} : /\ sessions'[v] = sessions[v]
                                 /\ Live(v)' <=> Live(v)
  BY LoginStoreEffect DEF OwnerInv
<1> DEFINE a == call[c].acct
<1>2. PICK b \in Accounts : b = a
  BY <1>0 DEF LoginStore, CallOK, TypeInv
<1>3. sessions'[t].account = b
  <2>1. sessions'[t] = NewSession(c)
    BY DEF LoginStore, CreateSession, OwnerInv, ChainInv, TypeInv, TypeOK
  <2> QED
    BY <1>2, <2>1 DEF NewSession
<1>4. \A v \in Tokens : family[v] # t
  BY <1>0, <1>1 DEF OwnerInv, ChainInv, ChainOK
<1>5. OpenEnd(t)' = [token |-> t, account |-> b]
  BY <1>0, <1>1, <1>3, OpenEndValueNext DEF OwnerInv, ChainInv, OpenEndIs
<1>6. ASSUME NEW f \in Tokens, f # t PROVE OpenEnd(f)' = OpenEnd(f)
  <2>1. \A v \in Tokens : family'[v] = f <=> family[v] = f
    BY <1>0, <1>1, <1>6
  <2>2. \A v \in Tokens : family[v] = f => v # t
    BY <1>0, <1>1
  <2> QED
    BY <1>1, <2>1, <2>2, OpenEndKept DEF OwnerInv
<1>7. chain' = [chain EXCEPT ![t] = [token |-> t, account |-> b]]
  BY <1>5, <1>6 DEF chain
<1>8. t \notin used /\ used' = used \cup {t}
  BY <1>0, <1>1 DEF used, Fresh
<1>9. RT!Open(t, b)
  BY <1>7, <1>8 DEF RT!Open, chain, used
<1> QED
  BY <1>9 DEF RT!Next

\* A rotation is one exchange at the open end of its chain.
LEMMA MapRefreshRotate ==
    ASSUME OwnerInv, OwnerInv', NEW c \in Calls, NEW u \in Tokens,
           RefreshRotate(c, u)
    PROVE  RT!Next
<1>0. /\ TypeInv /\ family \in [Tokens -> Tokens \cup {None}]
      /\ None \notin Tokens
  BY NoneAssumption DEF OwnerInv, ChainInv, TypeInv, TypeOK
<1>1. PICK t \in Tokens : t = call[c].token
  BY <1>0 DEF RefreshRotate, CallOK, TypeInv
<1>2. /\ t # u /\ Live(t) /\ ~Live(t)' /\ Live(u)'
      /\ sessions'[u].account = call[c].acct
      /\ family[u] = None /\ family[t] # None
      /\ family' = [family EXCEPT ![u] = family[t]]
      /\ \A v \in Tokens \ {t, u} : /\ sessions'[v] = sessions[v]
                                    /\ Live(v)' <=> Live(v)
  BY <1>1, RotateEffect DEF OwnerInv
<1>3. sessions[t].account = call[c].acct
  BY <1>1, <1>2 DEF RefreshRotate, OwnerInv, OwnerOK, Live
<1>4. PICK f \in Tokens : f = family[t]
  BY <1>0, <1>2
<1>5. OpenEnd(f) = [token |-> t, account |-> sessions[t].account]
      /\ OpenEnd(f) # None
  BY <1>2, <1>4, OpenEndType DEF OwnerInv
<1>6. OpenEnd(f)' = [token |-> u, account |-> sessions[t].account]
  <2>1. family'[u] = f
    BY <1>0, <1>2, <1>4
  <2> QED
    BY <1>2, <1>3, <2>1, OpenEndValueNext DEF OwnerInv, ChainInv, OpenEndIs
<1>7. ASSUME NEW h \in Tokens, h # f PROVE OpenEnd(h)' = OpenEnd(h)
  <2>1. \A v \in Tokens : family'[v] = h <=> family[v] = h
    BY <1>0, <1>2, <1>4, <1>7
  <2>2. \A v \in Tokens : family[v] = h => v # u /\ v # t
    BY <1>0, <1>2, <1>4, <1>7
  <2> QED
    BY <1>2, <2>1, <2>2, OpenEndKept DEF OwnerInv
<1>8. chain' = [chain EXCEPT ![f].token = u]
  <2>1. [OpenEnd(f) EXCEPT !.token = u]
           = [token |-> u, account |-> sessions[t].account]
    BY <1>5
  <2> QED
    BY <1>6, <1>7, <2>1 DEF chain
<1>9. u \notin used /\ used' = used \cup {u} /\ chain[f] # None
  BY <1>0, <1>2, <1>5 DEF used, Fresh, chain
<1>10. RT!Exchange(f, u)
  BY <1>8, <1>9 DEF RT!Exchange, chain, used
<1> QED
  BY <1>10 DEF RT!Next

\* A logout closes the chain whose open end it presents, and does nothing when
\* it presents any other token.
LEMMA MapLogout ==
    ASSUME OwnerInv, OwnerInv', NEW t \in Tokens, Logout(t)
    PROVE  RT!Next \/ UNCHANGED <<chain, used>>
<1>1. sessions[t] \in Session /\ sessions \in [Tokens -> Session \cup {None}]
  BY DEF Logout, RevokeSession, OwnerInv, ChainInv, TypeInv, TypeOK
<1>2. sessions' = [sessions EXCEPT ![t] = [sessions[t] EXCEPT !.revoked = TRUE]]
  BY DEF Logout, RevokeSession
<1>3. sessions'[t].revoked /\ \A v \in Tokens \ {t} : sessions'[v] = sessions[v]
  BY <1>1, <1>2 DEF Session
<1>4. ~Live(t)' /\ \A v \in Tokens \ {t} : Live(v)' <=> Live(v)
  BY <1>3 DEF Live
<1>5. family' = family /\ used' = used
  BY DEF Logout, used, Fresh
<1>6. CASE ~Live(t)
  <2>1. ASSUME NEW f \in Tokens PROVE OpenEnd(f)' = OpenEnd(f)
    BY <1>3, <1>4, <1>5, <1>6, OpenEndKept DEF OwnerInv
  <2> QED
    BY <1>5, <2>1 DEF chain
<1>7. CASE Live(t)
  <2>1. PICK f \in Tokens : f = family[t]
    BY <1>7 DEF Live, OwnerInv, ChainInv, ChainOK, TypeInv, TypeOK
  <2>2. OpenEnd(f) # None
    BY <1>7, <2>1, OpenEndType DEF OwnerInv
  <2>3. Ended(f)'
    BY <1>4, <1>5, <1>7, <2>1 DEF Ended, OwnerInv, ChainInv, OneLivePerLogin
  <2>4. OpenEnd(f)' = None
    BY <2>3, OpenEndValueNext DEF OwnerInv, ChainInv, OpenEndIsNone
  <2>5. ASSUME NEW h \in Tokens, h # f PROVE OpenEnd(h)' = OpenEnd(h)
    BY <1>3, <1>4, <1>5, <2>1, <2>5, OpenEndKept DEF OwnerInv
  <2>6. chain' = [chain EXCEPT ![f] = None] /\ chain[f] # None
    BY <2>2, <2>4, <2>5 DEF chain
  <2>7. RT!Close(f)
    BY <1>5, <2>6 DEF RT!Close, chain, used
  <2> QED
    BY <2>7 DEF RT!Next
<1> QED
  BY <1>6, <1>7

\* A restart closes every chain.
LEMMA MapRestart == Restart => RT!Next
<1> SUFFICES ASSUME Restart PROVE RT!Next
  OBVIOUS
<1>1. \A f \in Tokens : OpenEnd(f)' = None
  BY DEF Restart, OpenEnd, Live
<1>2. chain' = [f \in Tokens |-> None] /\ used' = used
  BY <1>1 DEF chain, used, Fresh, Restart
<1>3. RT!CloseAll
  BY <1>2 DEF RT!CloseAll, chain, used
<1> QED
  BY <1>3 DEF RT!Next

\* Time moves no open end: a session past its deadline is refused, not revoked.
LEMMA MapTick ==
    ASSUME OwnerInv, OwnerInv', Tick
    PROVE  UNCHANGED <<chain, used>>
<1>1. ASSUME NEW v \in Tokens
      PROVE  /\ Live(v)' <=> Live(v)
             /\ Live(v) => sessions'[v].account = sessions[v].account
  <2>1. CASE sessions[v] = None
    BY <2>1 DEF Tick, Live
  <2>2. CASE sessions[v] # None
    <3>1. sessions[v] \in Session /\ sessions'[v] \in Session \cup {None}
      BY <2>2 DEF OwnerInv, ChainInv, TypeInv, TypeOK
    <3>2. sessions'[v] = [sessions[v] EXCEPT !.left = Less(sessions[v].left)]
      BY <2>2 DEF Tick
    <3>3. sessions'[v] # None
      <4>1. Less(sessions[v].left) \in Past .. RefreshTTL
        BY <3>1, LessRange, TTLAssumption DEF Session
      <4>2. sessions'[v] \in Session
        BY <3>1, <3>2, <4>1 DEF Session
      <4> QED
        BY <4>2, NoneAssumption
    <3> QED
      BY <2>2, <3>1, <3>2, <3>3 DEF Session, Live
  <2> QED
    BY <2>1, <2>2
<1>2. family' = family /\ used' = used
  BY DEF Tick, used, Fresh
<1>3. \A f \in Tokens : OpenEnd(f)' = OpenEnd(f)
  BY <1>1, <1>2, OpenEndKept DEF OwnerInv
<1> QED
  BY <1>2, <1>3 DEF chain

\* Every step of the service is a step of the chains or leaves them alone.
LEMMA MapNext ==
    OwnerInv /\ OwnerInv' /\ [Next]_vars => [RT!Next]_<<chain, used>>
<1> SUFFICES ASSUME OwnerInv, OwnerInv', [Next]_vars
             PROVE  RT!Next \/ UNCHANGED <<chain, used>>
  OBVIOUS
<1>1. CASE UNCHANGED <<sessions, family>>
  BY <1>1 DEF chain, used, OpenEnd, Live, Fresh
<1>2. CASE \E c \in Calls, t \in Tokens : LoginStore(c, t)
  BY <1>2, MapLoginStore
<1>3. CASE \E c \in Calls, u \in Tokens : RefreshRotate(c, u)
  BY <1>3, MapRefreshRotate
<1>4. CASE \E t \in Tokens : Logout(t)
  BY <1>4, MapLogout
<1>5. CASE Restart
  BY <1>5, MapRestart
<1>6. CASE Tick
  BY <1>6, MapTick
<1> QED
  BY <1>1, <1>2, <1>3, <1>4, <1>5, <1>6
     DEF Next, vars, Serve, LoginLookup, LoginIssue, LoginRefuse, RefreshLookup,
         RefreshAccount, RefreshRefuse, RefreshIssue, RefreshConflict,
         StoreAccount

\* The calls, whose steps interleave, implement chains on which every login,
\* refresh and logout takes effect in a single step.
THEOREM SessionsRefineChains == Spec => ImplementsRotatingTokens
<1>1. Init => OwnerInv
  BY OwnerInit
<1>2. OwnerInv /\ [Next]_vars => OwnerInv'
  BY OwnerNext
<1>3. Init => RT!Init
  BY MapInit
<1>4. OwnerInv /\ OwnerInv' /\ [Next]_vars => [RT!Next]_<<chain, used>>
  BY MapNext
<1> QED
  BY <1>1, <1>2, <1>3, <1>4, PTL
     DEF Spec, ImplementsRotatingTokens, RT!Spec, chain, used

===============================================================================
