---------------------------- MODULE AuthService ----------------------------
(***************************************************************************)
(* The Flutter package core_auth: AuthService over TokenStorage,           *)
(* RefreshTokenTimer and AuthApiClient, on one device, against the API.    *)
(*                                                                         *)
(* Dart runs one event at a time, and a method runs up to its next await.  *)
(* So a call is one action for each await at which another call can change *)
(* what it sees: storage is read or written at an await, and no order      *)
(* among the storage operations of different calls is assumed.  The read   *)
(* of a token is one action although it awaits five keys: of these only    *)
(* the first two decide, and what they return is what the storage held     *)
(* when one of the two was read.                                           *)
(*                                                                         *)
(* The server is RotatingTokens, which AuthSessions implements; it also    *)
(* closes a chain on its own (expiry, restart) and may refuse a login or a *)
(* refresh at any time.                                                    *)
(* Access tokens expire at any moment: whether a stored one is found       *)
(* expired is left open.                                                   *)
(***************************************************************************)
EXTENDS Naturals

CONSTANTS
    Accounts, Tokens,  \* as in RotatingTokens
    Empty,             \* the refresh token of the pair an OTP is exchanged for
    Calls,             \* the methods of AuthService that may run at one time
    None

VARIABLES
    chain, used,       \* the server
    state,             \* _state
    store,             \* TokenStorage: access token, refresh token, account
    timer,             \* the RefreshTokenTimer is active
    call,              \* local variables of the methods that are running
    adrift,            \* history: chains whose open end was lost on the way
    torn,              \* history: a save was cut between token and account
    purged             \* history: a logout has ended and no login begun since

client == <<state, store, timer, call>>
history == <<adrift, torn, purged>>
vars == <<chain, used, client, history>>

Server == INSTANCE RotatingTokens

\* A pair of tokens is named after its refresh token: AuthToken.
Names == Tokens \cup {Empty}
Pair == [access : Names, refresh : Names]
PairOf(t) == [access |-> t, refresh |-> t]

State ==
    [kind : {"unauthenticated", "authenticating"},
     account : {None}, token : {None}]
    \cup [kind : {"offlineGrace"}, account : Accounts, token : {None}]
    \cup [kind : {"authenticated"}, account : Accounts, token : Pair]

Signed(k) == [kind |-> k, account |-> None, token |-> None]

\* op     the method         at     the await it is at
\* acct   account            token  currentToken, then the token of the reply
\* reply  how the request ended: answered, refused, or lost on the network
Call == [op : {"none", "login", "otp", "refresh", "restore", "unlock",
               "logout"},
         at : {"idle", "readToken", "readAccount", "sent", "answered",
               "saveToken", "saveAccount", "enter", "clearToken", "leave",
               "clearAll", "exit"},
         acct : Accounts \cup {None}, token : Pair \cup {None},
         reply : {"none", "ok", "refused", "lost"}]

Idle == [op |-> "none", at |-> "idle", acct |-> None, token |-> None,
         reply |-> "none"]

ASSUME NamesAssumption ==
    /\ Empty \notin Tokens
    /\ None \notin Accounts \cup Names \cup Pair \cup Server!End

TypeOK ==
    /\ Server!TypeOK
    /\ state \in State
    /\ store \in [access : Names \cup {None}, refresh : Names \cup {None},
                  account : Accounts \cup {None}]
    /\ timer \in BOOLEAN
    /\ call \in [Calls -> Call]
    /\ adrift \subseteq Tokens
    /\ torn \in BOOLEAN
    /\ purged \in BOOLEAN

----------------------------------------------------------------------------
At(c, op, at) == call[c].op = op /\ call[c].at = at

Begin(c, op, at) ==
    /\ call[c].at = "idle"
    /\ call' = [call EXCEPT ![c] = [Idle EXCEPT !.op = op, !.at = at]]

Go(c, at) == call' = [call EXCEPT ![c].at = at]

Running(ops) == \E c \in Calls : call[c].op \in ops

Quiet == \A c \in Calls : call[c] = Idle

Return(c) == call' = [call EXCEPT ![c] = Idle]

\* The chains a refresh token is the open end of: one at most.
ChainsOf(t) == {f \in Tokens : chain[f] # None /\ chain[f].token = t}

HeldChains(c) ==
    IF call[c].token = None THEN {} ELSE ChainsOf(call[c].token.refresh)

\* readAuthToken: both halves are there, or there is no token.
Stored ==
    IF store.access = None \/ store.refresh = None THEN None
    ELSE [access |-> store.access, refresh |-> store.refresh]

\* The storage once the operation the method awaits is done.
Target(c) ==
    CASE call[c].at = "saveToken" ->
            [store EXCEPT !.access = call[c].token.access,
                          !.refresh = call[c].token.refresh]
      [] call[c].at = "saveAccount" -> [store EXCEPT !.account = call[c].acct]
      [] call[c].at = "clearToken" ->
            [store EXCEPT !.access = None, !.refresh = None]
      [] call[c].at = "clearAll" ->
            [access |-> None, refresh |-> None, account |-> None]
      [] OTHER -> store

----------------------------------------------------------------------------
Init ==
    /\ Server!Init
    /\ state = Signed("unauthenticated")
    /\ store = [access |-> None, refresh |-> None, account |-> None]
    /\ timer = FALSE
    /\ call = [c \in Calls |-> Idle]
    /\ adrift = {}
    /\ torn = FALSE
    /\ purged = FALSE

(***************************************************************************)
(* What the app, the AuthInterceptor and the timer begin                   *)
(***************************************************************************)

\* login and verifyOtp: the request is sent for some account.
Login(c, op, a) ==
    /\ call[c].at = "idle"
    /\ call' = [call EXCEPT ![c] = [op |-> op, at |-> "sent", acct |-> a,
                                    token |-> None, reply |-> "none"]]
    /\ state' = Signed("authenticating")
    /\ purged' = FALSE
    /\ UNCHANGED <<chain, used, store, timer, adrift, torn>>

Refresh(c) ==
    /\ Begin(c, "refresh", "readToken")
    /\ UNCHANGED <<chain, used, state, store, timer, history>>

\* _trigger.  schedule calls it at once when little is left of the token: then
\* the timer fires as soon as it is set.
TimerFires(c) ==
    /\ timer
    /\ timer' = FALSE
    /\ Begin(c, "refresh", "readToken")
    /\ UNCHANGED <<chain, used, state, store, history>>

RestoreSession(c) ==
    /\ Begin(c, "restore", "readToken")
    /\ UNCHANGED <<chain, used, state, store, timer, history>>

\* unlockWithPin, after verifyPin has accepted the PIN.
UnlockWithPin(c) ==
    /\ Begin(c, "unlock", "readAccount")
    /\ UNCHANGED <<chain, used, state, store, timer, history>>

Logout(c) ==
    /\ Begin(c, "logout", "readToken")
    /\ timer' = FALSE
    /\ UNCHANGED <<chain, used, state, store, history>>

----------------------------------------------------------------------------
(***************************************************************************)
(* Reads                                                                   *)
(***************************************************************************)

\* refresh: without a stored token there is nothing to ask for.
RefreshRead(c) ==
    /\ At(c, "refresh", "readToken")
    /\ IF Stored = None
       THEN /\ Return(c)
            /\ state' = Signed("unauthenticated")
       ELSE /\ call' = [call EXCEPT ![c].at = "sent", ![c].token = Stored]
            /\ UNCHANGED state
    /\ UNCHANGED <<chain, used, store, timer, history>>

\* Mutant: the server is not told.
LogoutRead_Local(c) ==
    /\ At(c, "logout", "readToken")
    /\ Go(c, "clearAll")
    /\ UNCHANGED <<chain, used, state, store, timer, history>>

\* logout: the stored token is what the server is told to revoke.
LogoutRead(c) ==
    /\ At(c, "logout", "readToken")
    /\ IF Stored = None
       THEN Go(c, "clearAll")
       ELSE call' = [call EXCEPT ![c].at = "sent", ![c].token = Stored]
    /\ UNCHANGED <<chain, used, state, store, timer, history>>

RestoreRead(c) ==
    /\ At(c, "restore", "readToken")
    /\ call' = [call EXCEPT ![c].at = "readAccount", ![c].token = Stored]
    /\ UNCHANGED <<chain, used, state, store, timer, history>>

\* restoreSession, one half missing.
RestoreNothing(c) ==
    /\ At(c, "restore", "readAccount")
    /\ call[c].token = None \/ store.account = None
    /\ Return(c)
    /\ state' = Signed("unauthenticated")
    /\ UNCHANGED <<chain, used, store, timer, history>>

\* Mutant: the account is not looked at.
RestoreValid_NoAccount(c) ==
    /\ At(c, "restore", "readAccount")
    /\ call[c].token # None
    /\ Return(c)
    /\ state' = [kind |-> "authenticated", account |-> store.account,
                 token |-> call[c].token]
    /\ timer' = TRUE
    /\ UNCHANGED <<chain, used, store, history>>

\* restoreSession, the token is not expired.
RestoreValid(c) ==
    /\ At(c, "restore", "readAccount")
    /\ call[c].token # None /\ store.account # None
    /\ Return(c)
    /\ state' = [kind |-> "authenticated", account |-> store.account,
                 token |-> call[c].token]
    /\ timer' = TRUE
    /\ UNCHANGED <<chain, used, store, history>>

\* restoreSession, the token is expired: refresh, in the same method.
RestoreExpired(c) ==
    /\ At(c, "restore", "readAccount")
    /\ call[c].token # None /\ store.account # None
    /\ call' = [call EXCEPT ![c] = [Idle EXCEPT !.op = "refresh",
                                                !.at = "readToken"]]
    /\ UNCHANGED <<chain, used, state, store, timer, history>>

\* unlockWithPin: with an account in the storage the grace session begins, and
\* refresh goes on in the background when the method has returned.
UnlockRead(c) ==
    /\ At(c, "unlock", "readAccount")
    /\ IF store.account = None
       THEN /\ Return(c)
            /\ UNCHANGED state
       ELSE /\ call' = [call EXCEPT ![c] = [Idle EXCEPT !.op = "refresh",
                                                        !.at = "readToken"]]
            /\ state' = [kind |-> "offlineGrace", account |-> store.account,
                         token |-> None]
    /\ UNCHANGED <<chain, used, store, timer, history>>

----------------------------------------------------------------------------
(***************************************************************************)
(* The server and the network                                              *)
(***************************************************************************)

Answer(c, acct, token) ==
    call' = [call EXCEPT ![c] = [op |-> @.op, at |-> "answered", acct |-> acct,
                                 token |-> token, reply |-> "ok"]]

ServeLogin(c, t) ==
    /\ At(c, "login", "sent")
    /\ Server!Open(t, call[c].acct)
    /\ Answer(c, call[c].acct, PairOf(t))
    /\ UNCHANGED <<state, store, timer, history>>

\* An OTP is exchanged for an access token and no session, or for nothing.
ServeOtp(c) ==
    /\ At(c, "otp", "sent")
    /\ \/ Answer(c, call[c].acct, PairOf(Empty))
       \/ Answer(c, None, None)
    /\ UNCHANGED <<chain, used, state, store, timer, history>>

ServeRefresh(c, f, u) ==
    /\ At(c, "refresh", "sent")
    /\ f \in HeldChains(c)
    /\ Server!Exchange(f, u)
    /\ Answer(c, chain[f].account, PairOf(u))
    /\ UNCHANGED <<state, store, timer, history>>

\* /auth/logout answers the same whatever it is given.
ServeLogout(c) ==
    /\ At(c, "logout", "sent")
    /\ IF HeldChains(c) = {}
       THEN UNCHANGED <<chain, used>>
       ELSE \E f \in HeldChains(c) : Server!Close(f)
    /\ call' = [call EXCEPT ![c].at = "answered", ![c].reply = "ok"]
    /\ UNCHANGED <<state, store, timer, history>>

\* 4xx or 5xx: nothing changed at the server.
ServeRefusal(c) ==
    /\ call[c].at = "sent" /\ call[c].op # "logout"
    /\ call' = [call EXCEPT ![c].at = "answered", ![c].reply = "refused"]
    /\ UNCHANGED <<chain, used, state, store, timer, history>>

\* The request does not arrive.
RequestLost(c) ==
    /\ call[c].at = "sent"
    /\ call' = [call EXCEPT ![c].at = "answered", ![c].reply = "lost"]
    /\ adrift' = adrift \cup HeldChains(c)
    /\ UNCHANGED <<chain, used, state, store, timer, torn, purged>>

\* The request has been served and its answer does not arrive.
ResponseLost(c) ==
    /\ call[c].at = "answered" /\ call[c].reply = "ok"
    /\ call' = [call EXCEPT ![c].reply = "lost"]
    /\ adrift' = adrift \cup HeldChains(c)
    /\ UNCHANGED <<chain, used, state, store, timer, torn, purged>>

\* A session expires or is revoked, or the process of the API ends.
ServerCloses ==
    /\ \/ \E f \in Tokens : Server!Close(f)
       \/ Server!CloseAll
    /\ UNCHANGED <<client, history>>

----------------------------------------------------------------------------
(***************************************************************************)
(* What the client does with the answer                                    *)
(***************************************************************************)

\* Mutant: a failed login leaves the state as it is.
LoginFails_Silent(c) ==
    /\ call[c].op \in {"login", "otp"} /\ call[c].at = "answered"
    /\ call[c].reply # "ok" \/ call[c].token = None
    /\ Return(c)
    /\ UNCHANGED <<chain, used, state, store, timer, history>>

\* login, verifyOtp: refused, lost, or an OTP verified without a pair.
LoginFails(c) ==
    /\ call[c].op \in {"login", "otp"} /\ call[c].at = "answered"
    /\ call[c].reply # "ok" \/ call[c].token = None
    /\ Return(c)
    /\ state' = Signed("unauthenticated")
    /\ UNCHANGED <<chain, used, store, timer, history>>

\* login, verifyOtp, refresh: a pair to save.
Granted(c) ==
    /\ call[c].op # "logout" /\ call[c].at = "answered"
    /\ call[c].reply = "ok" /\ call[c].token # None
    /\ Go(c, "saveToken")
    /\ UNCHANGED <<chain, used, state, store, timer, history>>

\* refresh: whatever the failure, the tokens are cleared.
RefreshFails(c) ==
    /\ At(c, "refresh", "answered")
    /\ call[c].reply # "ok"
    /\ Go(c, "clearToken")
    /\ UNCHANGED <<chain, used, state, store, timer, history>>

\* logout: whatever the answer.
LogoutAnswered(c) ==
    /\ At(c, "logout", "answered")
    /\ Go(c, "clearAll")
    /\ UNCHANGED <<chain, used, state, store, timer, history>>

\* A login replaces the tokens of the session that was stored.  (If a logout is
\* under way as well, which of the two wins is not the code's to say.)
SaveToken(c) ==
    /\ call[c].at = "saveToken"
    /\ store' = Target(c)
    /\ Go(c, "saveAccount")
    /\ adrift' = IF call[c].op = "refresh" THEN adrift
                 ELSE adrift \cup ChainsOf(store.refresh)
                             \cup IF \E d \in Calls : call[d].op = "logout"
                                  THEN HeldChains(c) ELSE {}
    /\ UNCHANGED <<chain, used, state, timer, torn, purged>>

\* Mutant: the cached account is kept if there is one.
SaveAccount_Keep(c) ==
    /\ call[c].at = "saveAccount"
    /\ store' = IF store.account = None THEN Target(c) ELSE store
    /\ Go(c, "enter")
    /\ torn' = FALSE
    /\ UNCHANGED <<chain, used, state, timer, adrift, purged>>

SaveAccount(c) ==
    /\ call[c].at = "saveAccount"
    /\ store' = Target(c)
    /\ Go(c, "enter")
    /\ torn' = FALSE
    /\ UNCHANGED <<chain, used, state, timer, adrift, purged>>

\* Mutant: the timer is not scheduled.
Enter_NoTimer(c) ==
    /\ call[c].at = "enter"
    /\ Return(c)
    /\ state' = [kind |-> "authenticated", account |-> call[c].acct,
                 token |-> call[c].token]
    /\ UNCHANGED <<chain, used, store, timer, history>>

\* login, verifyOtp, refresh: both are saved.
Enter(c) ==
    /\ call[c].at = "enter"
    /\ Return(c)
    /\ state' = [kind |-> "authenticated", account |-> call[c].acct,
                 token |-> call[c].token]
    /\ timer' = TRUE
    /\ UNCHANGED <<chain, used, store, history>>

\* refresh: what the server still grants for the token, or for the one that is
\* stored by now, is given up.
ClearToken(c) ==
    /\ call[c].at = "clearToken"
    /\ store' = Target(c)
    /\ Go(c, "leave")
    /\ adrift' = adrift \cup HeldChains(c) \cup ChainsOf(store.refresh)
    /\ UNCHANGED <<chain, used, state, timer, torn, purged>>

Leave(c) ==
    /\ call[c].at = "leave"
    /\ Return(c)
    /\ timer' = FALSE
    /\ state' = Signed("unauthenticated")
    /\ UNCHANGED <<chain, used, store, history>>

ClearAll(c) ==
    /\ call[c].at = "clearAll"
    /\ store' = Target(c)
    /\ Go(c, "exit")
    /\ UNCHANGED <<chain, used, state, timer, history>>

Exit(c) ==
    /\ call[c].at = "exit"
    /\ Return(c)
    /\ state' = Signed("unauthenticated")
    /\ purged' = TRUE
    /\ UNCHANGED <<chain, used, store, timer, adrift, torn>>

\* The app is killed: the methods are gone, and of the keys one of them was
\* writing or deleting some are done and some are not.
Kill ==
    /\ \E c \in Calls :
          store' \in [access : {store.access, Target(c).access},
                      refresh : {store.refresh, Target(c).refresh},
                      account : {store.account, Target(c).account}]
    /\ torn' = (torn \/ \E c \in Calls :
                           call[c].at \in {"saveToken", "saveAccount"})
    /\ adrift' = IF Quiet THEN adrift
                 ELSE adrift \cup ChainsOf(store.refresh)
                             \cup (UNION {HeldChains(c) : c \in Calls})
    /\ call' = [c \in Calls |-> Idle]
    /\ state' = Signed("unauthenticated")
    /\ timer' = FALSE
    /\ UNCHANGED <<chain, used, purged>>

\* One step of a method that is running, or of the server on its behalf.
Step(c) ==
    \/ RefreshRead(c) \/ LogoutRead(c) \/ UnlockRead(c)
    \/ RestoreRead(c) \/ RestoreNothing(c)
    \/ RestoreValid(c) \/ RestoreExpired(c)
    \/ \E t \in Tokens : ServeLogin(c, t)
    \/ \E f, u \in Tokens : ServeRefresh(c, f, u)
    \/ ServeOtp(c) \/ ServeLogout(c) \/ ServeRefusal(c)
    \/ RequestLost(c)
    \/ LoginFails(c) \/ Granted(c) \/ RefreshFails(c) \/ LogoutAnswered(c)
    \/ SaveToken(c) \/ SaveAccount(c) \/ Enter(c)
    \/ ClearToken(c) \/ Leave(c)
    \/ ClearAll(c) \/ Exit(c)

\* Everything that happens but the end of the app.
Alive ==
    \/ \E c \in Calls : Step(c) \/ ResponseLost(c)
    \/ \E c \in Calls, a \in Accounts, op \in {"login", "otp"} :
          Login(c, op, a)
    \/ \E c \in Calls :
          \/ Refresh(c) \/ TimerFires(c) \/ RestoreSession(c)
          \/ UnlockWithPin(c) \/ Logout(c)
    \/ ServerCloses

Next == Alive \/ Kill

\* Requests have timeouts and awaited storage answers, so a method that runs
\* goes on; a timer that is set fires.  It fires whatever else runs: only the
\* bound on Calls can disable the action, so its fairness is strong.
Fairness ==
    /\ \A c \in Calls : WF_vars(Step(c))
    /\ SF_vars(\E c \in Calls : TimerFires(c))

Spec == Init /\ [][Next]_vars /\ Fairness

----------------------------------------------------------------------------
(***************************************************************************)
(* Properties                                                              *)
(***************************************************************************)

\* However methods overlap, no state is a dead end: a login under way will end
\* "authenticating", a refresh in the background will end the grace session,
\* and an authenticated app will refresh its token or is already at it.  No code
\* looks at graceExpiresAt, so the refresh is all that bounds a grace session.
StateIsAttended ==
    /\ state.kind = "authenticating" => Running({"login", "otp"})
    /\ state.kind = "offlineGrace" => Running({"refresh"})
    /\ state.kind = "authenticated" => timer \/ Running({"refresh", "logout"})

\* A session the server has closed for good does not keep the app authenticated:
\* every time, the proactive refresh finds out.
ClosedIsNoticed ==
    <>[](\A f \in Tokens : chain[f] = None)
        => []<>(state.kind # "authenticated")

\* At rest, an authenticated app shows what is stored: after a restart it would
\* find the same session again.  (With one method at a time.)
AuthenticatedIsStored ==
    Quiet /\ state.kind = "authenticated"
        => state.token = Stored /\ state.account = store.account

\* The app shows the account the server opened the chain for, unless it was
\* killed between saving the token and saving the account.
OwnIdentity ==
    \A f \in Tokens :
        /\ ~torn
        /\ state.kind = "authenticated"
        /\ f \in ChainsOf(state.token.refresh)
        => state.account = chain[f].account

\* "Revokes session on the server and purges all credentials locally": a chain
\* the server keeps open is in the storage or on its way there, unless a request
\* or an answer was lost, a refresh failed, a login replaced it, a logout met
\* a login or the app was killed.  Holds with one method at a time, and fails with
\* two.
ForgottenIsClosed ==
    \A f \in Tokens \ adrift :
        chain[f] # None =>
            \/ store.refresh = chain[f].token
            \/ \E c \in Calls : f \in HeldChains(c)

\* What the documents and comments claim and the code does not do.

\* "purges all credentials locally": after a logout no token comes back into the
\* storage but through a login.
LogoutPurges ==
    [][purged /\ store.refresh = None
          => store'.refresh = None \/ Running({"login", "otp"})]_vars

\* "If refresh failed due to token revocation/expiry, clear local storage": not
\* because the network failed.
OnlyRefusalClears ==
    [][\A c \in Calls :
          call[c].at = "clearToken" /\ call'[c].at = "leave"
              => call[c].reply = "refused"]_vars

\* "grants an OfflineGrace session lasting up to 8 hours to ensure POS
\* transaction continuity during network outages": the outage does not end it.
GraceSurvivesOutage ==
    [][state.kind = "offlineGrace" /\ state'.kind = "unauthenticated"
          => ~\E c \in Calls :
                 /\ call[c].at = "leave" /\ call[c].reply = "lost"
                 /\ call'[c] = Idle]_vars

\* "User is fully authenticated with a valid online session": at rest, an
\* authenticated app has a token to refresh that session with.
AuthenticatedHasToken ==
    Quiet /\ state.kind = "authenticated" /\ ~purged => Stored # None

\* "returns a full TokenPairResponse": an OTP login has a refresh token.
OtpPairIsFull ==
    state.kind = "authenticated" => state.token.refresh # Empty

=============================================================================
