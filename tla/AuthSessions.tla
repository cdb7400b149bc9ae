---------------------------- MODULE AuthSessions ----------------------------
(***************************************************************************)
(* The session half of the Go API: auth.Service (Login, Refresh, Logout)   *)
(* over MemorySessionStore and MemoryAccountRepo, and the access tokens    *)
(* RequireAuth and RequireActiveAccount later accept.                      *)
(*                                                                         *)
(* net/http serves every call in a goroutine of its own.  Only the store   *)
(* methods run under a lock, so a call is modelled as one action for each  *)
(* store method it uses and the computation next to it, and the actions of *)
(* different calls interleave.  A call that is refused before it reads     *)
(* anything changes no state: it is a stuttering step and has no action.   *)
(*                                                                         *)
(* Time is relative: a deadline is held as the number of ticks left until  *)
(* it, 0 at the deadline itself and Past once it has gone by, so the clock *)
(* needs no bound.                                                         *)
(***************************************************************************)
EXTENDS Integers, FiniteSets, AccountStatus

CONSTANTS
    Accounts,      \* account ids
    Agents,        \* User-Agent values: the device a call comes from
    Calls,         \* goroutines serving /auth/login and /auth/refresh
    Tokens,        \* the refresh tokens that can be generated (by their hash)
    None,          \* the absence of an account, an agent, a token, a session
    AccessTTL,     \* lifetime of an access token, in ticks
    RefreshTTL     \* lifetime of a session, in ticks

VARIABLES
    status,        \* accountRepo.accounts: id -> status, or "absent"
    sessions,      \* sessionStore.sessions: hash -> session, or None
    issued,        \* access tokens handed to clients
    call,          \* local variables of the calls being served
    family         \* history: the login a token descends from, or None

vars == <<status, sessions, issued, call, family>>

Past == -1

Session == [account : Accounts, agent : Agents,
            left : Past .. RefreshTTL, revoked : BOOLEAN]

AccessToken == [account : Accounts, status : Statuses,
                left : Past .. AccessTTL]

\* at     the store method the call waits to enter, or the computation before
\* acct   acc.ID           seen   acc.Status in the call's copy of the account
\* agent  userAgent        token  the refresh token given to Refresh
\* age    ticks since the call generated its tokens
\* open   history: the account was active at some moment since the call began
Call == [at : {"idle", "password", "account", "issue", "store", "rotate"},
         acct : Accounts \cup {None}, seen : Statuses \cup {"absent"},
         agent : Agents \cup {None}, token : Tokens \cup {None},
         age : 0 .. RefreshTTL + 1, open : BOOLEAN]

Idle == [at |-> "idle", acct |-> None, seen |-> "absent",
         agent |-> None, token |-> None, age |-> 0, open |-> FALSE]

\* The open end of a chain of tokens, in the refinement of RotatingTokens.
ChainEnd == [token : Tokens, account : Accounts]

ASSUME TTLAssumption ==
    /\ AccessTTL \in Nat \ {0}
    /\ RefreshTTL \in Nat \ {0}
    /\ AccessTTL <= RefreshTTL

ASSUME NoneAssumption ==
    None \notin Accounts \cup Agents \cup Tokens \cup Session \cup ChainEnd

TypeOK ==
    /\ status \in [Accounts -> Statuses \cup {"absent"}]
    /\ sessions \in [Tokens -> Session \cup {None}]
    /\ issued \subseteq AccessToken
    /\ call \in [Calls -> Call]
    /\ family \in [Tokens -> Tokens \cup {None}]

----------------------------------------------------------------------------
\* What is left of a lifetime of ttl ticks after a of them.
LeftAfter(ttl, a) == IF a > ttl THEN Past ELSE ttl - a

\* One tick less; what is past stays past.
Less(left) == IF left = Past THEN Past ELSE left - 1

\* Session.IsActive, on the copy GetSessionByHash returns.
IsActive(s) ==
    /\ s # None
    /\ ~s.revoked
    /\ s.left > 0

\* GenerateRefreshToken draws 32 random bytes: a token never drawn before.
\* The history variable tells which tokens have been drawn.
Fresh(t) == family[t] = None

\* The bound of the model: a call that will need a token starts only while one
\* is left for it.
TokenLeft ==
    Cardinality({c \in Calls : call[c].at # "idle"})
        < Cardinality({t \in Tokens : Fresh(t)})

\* The session Login and Refresh build, as it stands some ticks later when the
\* store takes it.
NewSession(c) ==
    [account |-> call[c].acct, agent |-> call[c].agent,
     left |-> LeftAfter(RefreshTTL, call[c].age), revoked |-> FALSE]

\* Mutant: the access token gets the lifetime of the session.
NewAccessToken_LongLived(c) ==
    [account |-> call[c].acct, status |-> call[c].seen,
     left |-> LeftAfter(RefreshTTL, call[c].age)]

\* GenerateAccessToken, as it stands when the response leaves.
NewAccessToken(c) ==
    [account |-> call[c].acct, status |-> call[c].seen,
     left |-> LeftAfter(AccessTTL, call[c].age)]

\* RequireAuth and RequireActiveAccount: the JWT library refuses a token at its
\* deadline, and the claim is the only status looked at.
Accepted(k) ==
    /\ k.left > 0
    /\ k.status = "active"

\* Some token of the account passes the middleware of the protected routes.
HasAccess(a) == \E k \in issued : k.account = a /\ Accepted(k)

\* The session is in the store and not revoked.
Live(t) == sessions[t] # None /\ ~sessions[t].revoked

----------------------------------------------------------------------------
Init ==
    /\ status = [a \in Accounts |-> "absent"]
    /\ sessions = [t \in Tokens |-> None]
    /\ issued = {}
    /\ call = [c \in Calls |-> Idle]
    /\ family = [t \in Tokens |-> None]

\* Login: GetByPhoneOrEmail finds the account and copies it.
LoginLookup(c, a, g) ==
    /\ call[c].at = "idle"
    /\ TokenLeft
    /\ status[a] # "absent"
    /\ call' = [call EXCEPT ![c] =
                  [Idle EXCEPT !.at = "password", !.acct = a,
                               !.seen = status[a], !.agent = g,
                               !.open = (status[a] = "active")]]
    /\ UNCHANGED <<status, sessions, issued, family>>

\* Login: bcrypt accepts the password, the copy says active, and both tokens are
\* generated.
LoginIssue(c) ==
    /\ call[c].at = "password"
    /\ call[c].seen = "active"
    /\ call' = [call EXCEPT ![c].at = "store"]
    /\ UNCHANGED <<status, sessions, issued, family>>

\* Login: no password, a wrong one, or a copy that is not active.
LoginRefuse(c) ==
    /\ call[c].at = "password"
    /\ call' = [call EXCEPT ![c] = Idle]
    /\ UNCHANGED <<status, sessions, issued, family>>

CreateSession(t, session) == sessions' = [sessions EXCEPT ![t] = session]

\* Login: CreateSession, and the response.
LoginStore(c, t) ==
    /\ call[c].at = "store"
    /\ Fresh(t)
    /\ CreateSession(t, NewSession(c))
    /\ issued' = issued \cup {NewAccessToken(c)}
    /\ family' = [family EXCEPT ![t] = t]
    /\ call' = [call EXCEPT ![c] = Idle]
    /\ UNCHANGED status

\* Refresh: GetSessionByHash returns a copy of an active session.
RefreshLookup(c, t, g) ==
    /\ call[c].at = "idle"
    /\ TokenLeft
    /\ IsActive(sessions[t])
    /\ call' = [call EXCEPT ![c] =
                  [Idle EXCEPT !.at = "account", !.acct = sessions[t].account,
                               !.agent = g, !.token = t,
                               !.open =
                                 (status[sessions[t].account] = "active")]]
    /\ UNCHANGED <<status, sessions, issued, family>>

\* Mutant: the status of the copy is not checked.
RefreshAccount_Any(c) ==
    /\ call[c].at = "account"
    /\ status[call[c].acct] # "absent"
    /\ call' = [call EXCEPT ![c].at = "issue",
                            ![c].seen = status[call[c].acct]]
    /\ UNCHANGED <<status, sessions, issued, family>>

\* Mutant: the status is not checked, and the claims say active as before.
RefreshAccount_Renewed(c) ==
    /\ call[c].at = "account"
    /\ status[call[c].acct] # "absent"
    /\ call' = [call EXCEPT ![c].at = "issue", ![c].seen = "active"]
    /\ UNCHANGED <<status, sessions, issued, family>>

\* Refresh: GetByID returns a copy of the account and the copy is active.
RefreshAccount(c) ==
    /\ call[c].at = "account"
    /\ status[call[c].acct] = "active"
    /\ call' = [call EXCEPT ![c].at = "issue",
                            ![c].seen = status[call[c].acct]]
    /\ UNCHANGED <<status, sessions, issued, family>>

\* Refresh: the account is unknown or not active.
RefreshRefuse(c) ==
    /\ call[c].at = "account"
    /\ status[call[c].acct] # "active"
    /\ call' = [call EXCEPT ![c] = Idle]
    /\ UNCHANGED <<status, sessions, issued, family>>

\* Refresh: both tokens are generated from the copy.
RefreshIssue(c) ==
    /\ call[c].at = "issue"
    /\ call' = [call EXCEPT ![c].at = "rotate"]
    /\ UNCHANGED <<status, sessions, issued, family>>

\* Mutant: the check of RevokedAt under the lock is left out.
MayRotate_Revoked(t) ==
    /\ sessions[t] # None
    /\ sessions[t].left >= 0

\* Mutant: the check of ExpiresAt under the lock is left out.
MayRotate_Expired(t) ==
    /\ sessions[t] # None
    /\ ~sessions[t].revoked

\* The checks RotateSession repeats under the store's lock.
MayRotate(t) ==
    /\ sessions[t] # None
    /\ ~sessions[t].revoked
    /\ sessions[t].left >= 0

\* Mutant: the new session is stored and the old one is left as it was.
RefreshRotate_Keep(c, u) ==
    /\ call[c].at = "rotate"
    /\ MayRotate(call[c].token)
    /\ Fresh(u)
    /\ sessions' = [sessions EXCEPT ![u] = NewSession(c)]
    /\ issued' = issued \cup {NewAccessToken(c)}
    /\ family' = [family EXCEPT ![u] = family[call[c].token]]
    /\ call' = [call EXCEPT ![c] = Idle]
    /\ UNCHANGED status

\* Refresh: RotateSession revokes the old session and adds the new one.
RefreshRotate(c, u) ==
    /\ call[c].at = "rotate"
    /\ MayRotate(call[c].token)
    /\ Fresh(u)
    /\ sessions' = [sessions EXCEPT ![call[c].token].revoked = TRUE,
                                    ![u] = NewSession(c)]
    /\ issued' = issued \cup {NewAccessToken(c)}
    /\ family' = [family EXCEPT ![u] = family[call[c].token]]
    /\ call' = [call EXCEPT ![c] = Idle]
    /\ UNCHANGED status

\* Refresh: RotateSession refuses and the tokens just generated are dropped.
RefreshConflict(c) ==
    /\ call[c].at = "rotate"
    /\ ~MayRotate(call[c].token)
    /\ call' = [call EXCEPT ![c] = Idle]
    /\ UNCHANGED <<status, sessions, issued, family>>

RevokeSession(t) ==
    /\ sessions[t] # None
    /\ sessions' = [sessions EXCEPT ![t].revoked = TRUE]

\* Logout revokes whatever session has the hash.
Logout(t) ==
    /\ RevokeSession(t)
    /\ UNCHANGED <<status, issued, call, family>>

\* accountRepo.Create stores an account under its id, new or not, whatever its
\* status was: nothing in the program restricts the caller to the legal edges.
StoreAccount(a, s) ==
    /\ status' = [status EXCEPT ![a] = s]
    /\ call' = [c \in Calls |->
                   IF call[c].acct # a THEN call[c]
                   ELSE [call[c] EXCEPT !.open = @ \/ s = "active"]]
    /\ UNCHANGED <<sessions, issued, family>>

\* The process ends and is started again: the stores are in memory, the calls
\* being served are gone, access tokens stay valid (the secret is configured).
Restart ==
    /\ status' = [a \in Accounts |-> "absent"]
    /\ sessions' = [t \in Tokens |-> None]
    /\ call' = [c \in Calls |-> Idle]
    /\ UNCHANGED <<issued, family>>

Tick ==
    /\ sessions' = [t \in Tokens |->
                       IF sessions[t] = None THEN None
                       ELSE [sessions[t] EXCEPT !.left = Less(@)]]
    /\ issued' = {[k EXCEPT !.left = Less(@)] : k \in issued}
    /\ call' = [c \in Calls |->
                   IF call[c].at \notin {"store", "rotate"} THEN call[c]
                   ELSE [call[c] EXCEPT !.age =
                           IF @ > RefreshTTL THEN @ ELSE @ + 1]]
    /\ UNCHANGED <<status, family>>

\* One step of the call c.
Serve(c) ==
    \/ LoginIssue(c)
    \/ LoginRefuse(c)
    \/ \E t \in Tokens : LoginStore(c, t)
    \/ RefreshAccount(c)
    \/ RefreshRefuse(c)
    \/ RefreshIssue(c)
    \/ \E u \in Tokens : RefreshRotate(c, u)
    \/ RefreshConflict(c)

Next ==
    \/ \E c \in Calls : Serve(c)
    \/ \E c \in Calls, a \in Accounts, g \in Agents : LoginLookup(c, a, g)
    \/ \E c \in Calls, t \in Tokens, g \in Agents : RefreshLookup(c, t, g)
    \/ \E t \in Tokens : Logout(t)
    \/ \E a \in Accounts, s \in Statuses : StoreAccount(a, s)
    \/ Restart
    \/ Tick

\* A goroutine that is running keeps running, and time goes by.  Nothing obliges
\* a client to call, an operator to store an account or the process to end.
Fairness ==
    /\ \A c \in Calls : WF_vars(Serve(c))
    /\ WF_vars(Tick)

Spec == Init /\ [][Next]_vars /\ Fairness

----------------------------------------------------------------------------
(***************************************************************************)
(* Properties                                                              *)
(***************************************************************************)

\* However the refreshes and logouts of one login interleave, its tokens never
\* fork: at most one of them is not revoked.  GetSessionByHash and RotateSession
\* take the lock separately, and two calls may both have seen the token active.
OneLivePerLogin ==
    \A t, u \in Tokens :
        Live(t) /\ Live(u) /\ family[t] = family[u] => t = u

\* Once no token of a login is live - its last one was revoked, or the process
\* was restarted - none ever is again, not even through a refresh that had
\* looked the session up before.
Ended(f) == \A t \in Tokens : family[t] = f => ~Live(t)

EndedStaysEnded ==
    [][\A f \in Tokens : family[f] = f /\ Ended(f) => Ended(f)']_vars

\* A token that is not the first of its login takes the place of exactly one
\* token, live and not past its deadline until that very step, and belongs to
\* the same account: what RotateSession re-reads under the lock decides, not
\* the copy Refresh looked at before.
SuccessorOf(u, t) ==
    /\ Live(t) /\ sessions[t].left >= 0
    /\ ~Live(t)'
    /\ family'[u] = family[t]
    /\ sessions'[u].account = sessions[t].account

SuccessorsReplaceLiveTokens ==
    [][\A u \in Tokens :
          family[u] = None /\ family'[u] \notin {None, u}
              => \E t \in Tokens : SuccessorOf(u, t)]_vars

\* The calls and the locks together implement the chains of RotatingTokens:
\* every refresh takes effect in one step although it reads in three.
OpenEnd(f) ==
    IF \E t \in Tokens : Live(t) /\ family[t] = f
    THEN LET t == CHOOSE t \in Tokens : Live(t) /\ family[t] = f
         IN  [token |-> t, account |-> sessions[t].account]
    ELSE None

RT == INSTANCE RotatingTokens
          WITH chain <- [f \in Tokens |-> OpenEnd(f)],
               used <- {t \in Tokens : ~Fresh(t)}

ImplementsRotatingTokens == RT!Spec

\* Tokens are generated only for a call during which the account was active at
\* some moment, whenever the account is closed or reopened around the reads: a
\* call that begins after the account was closed gets nothing.
GrantsOnlyWhileActive ==
    \A c \in Calls : call[c].at \in {"store", "rotate"} => call[c].open

\* RequireActiveAccount trusts the claim because "the status is refreshed when
\* the client exchanges a refresh token": an account that is never active again
\* is in the end locked out, whatever calls were in flight when it was closed.
ClosedAccountsLoseAccess ==
    \A a \in Accounts :
        <>[](status[a] # "active") => <>[]~HasAccess(a)

\* What the documents claim and the code does not do.

\* "Account suspensions made here immediately revoke access across all apps".
SuspensionIsImmediate ==
    \A a \in Accounts : status[a] = "suspended" => ~HasAccess(a)

\* "One active refresh token per device. New login on the same device replaces
\* the existing token."
OneTokenPerDevice ==
    \A t, u \in Tokens :
        /\ Live(t) /\ Live(u)
        /\ sessions[t].account = sessions[u].account
        /\ sessions[t].agent = sessions[u].agent
        => t = u

\* "Mitigation: accept reuse within a 30-second reuse window": a refresh whose
\* token was active when it was looked up is not refused because another refresh
\* of the same login overtook it.
OvertakenRefreshAccepted ==
    [][\A c \in Calls :
          /\ call[c].at = "rotate"
          /\ call'[c].at = "idle"
          /\ family' = family
          /\ sessions' = sessions
          => \A t \in Tokens \ {call[c].token} :
                ~(Live(t) /\ family[t] = family[call[c].token])]_vars

=============================================================================
