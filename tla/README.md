# Lokalaku: a TLA+ model of authentication

Lokalaku is a monorepo: a Go API, Flutter packages the mobile and back-office
apps are to share, the first screens of two apps, a static site, and the
documents of what is to come. The logic that exists, and that runs
concurrently, is authentication: sessions and one-time passwords in the API,
and on the device the service, storage, timer and interceptors that keep a
session alive. That is what is modelled here.

Line numbers below are those of `src/`; `PROJECT.json` maps every definition to
the lines it models.

## The system

| component | state | operations | what is hard |
|---|---|---|---|
| API sessions: `apps/api/internal/auth/service.go`, `store.go`, `token.go` | sessions by hash of the refresh token; accounts | Login, Refresh, Logout | one goroutine per request, locks held only inside a store method; expiry between two of them; all sessions lost with the process |
| API one-time passwords: `auth/otp.go` | codes by id: attempts, deadline, verified | RequestOTP, VerifyOTP | lookup, comparison and update are three critical sections |
| API account lifecycle: `domain/auth.go` | none: a table of legal moves | CanTransition, TransitionStatus | terminal and illegal moves |
| API middleware and router: `middleware/auth.go`, `middleware/logger.go`, `router/router.go` | the claims in the context of a request, the status written | RequireAuth, RequireRole, RequireActiveAccount, Logger, the route table | guards that rely on the one before; a claim that may be out of date; panics |
| API process: `cmd/server/main.go`, `config` | two goroutines, the signal channel, `shutdownComplete` | start, graceful stop within a timeout | a signal before Notify; handlers that hang; requests in flight at the end; the range of the timeout |
| `core_auth` AuthService, with RefreshTokenTimer, DioAuthApiClient, SecureTokenStorage | auth state, timer, five token keys and one account key that survive the app | login, requestOtp, verifyOtp, refresh, restoreSession, logout, unlockWithPin, setPin, dispose | methods overlap at every await and nothing keeps them apart; requests and answers are lost; the app is killed between two keys |
| `core_auth` PIN: `token_storage.dart` | four keys: hash, salt, failed attempts, lockout | setPin, verifyPin, clearPin, clearAll | read-modify-write over awaits; half a lockout after a kill |
| `core_network` interceptors | queue of errors, retry counters in the request | onRequest, onError | one error handled at a time, retries that nest, a replay from inside the queue |
| `core_network` ApiClient, ApiResponse, ApiError | none | request, mapping | - |
| `domain` (Dart) | none | entities, enums, JSON | - |
| apps, site, `ui_kit`, `utils`, `data`, migrations, deployment | - | - | nothing of the above: shells, placeholders, configuration |

How they interact. An app calls AuthService; AuthService calls the API over
HTTP and the storage through platform channels; the timer calls
`AuthService.refresh`; AuthInterceptor calls a refresh callback and
`onAuthFailure`, which the app is to connect to AuthService. In the API the
handlers call `Service` and `OTPService`, these the stores; the middleware reads
only what is in the access token.

What makes each of them correct:

- sessions: the refresh tokens of one login never fork; a logout or a restart is
  final whatever was in flight; only a live token that is not expired is
  exchanged; only accounts that were active get tokens; closed accounts lose
  access in the end;
- one-time passwords: one active code per phone and purpose; guesses are counted
  and bounded; a dead code stays dead;
- middleware and router: nobody passes a guarded route but by all of its guards; the
  access log tells what the client was told;
- process: a caught signal ends it, and no request is cut off before the timeout;
- AuthService: what the app shows is what is stored, and the account it shows is
  the one the server opened the session for; the server holds no session the
  device has lost, save for losses nobody can repair; no state is a dead end, unless
  the storage throws; a session closed at the server is noticed; after dispose no
  timer is set;
- timer: an app that stays open never holds an expired access token, and refreshes
  do not chase each other;
- PIN: five wrong PINs lock it, and a lockout lasts, also over kills;
- interceptors: every request ends unless a callback stops a queue it has to pass, the
  number of sends is bounded, the app hears of every 401.

## The modules

| module | models | lines of code |
|---|---|---|
| `AccountStatus` | the status table, its two functions, and the table of the apps | `domain/auth.go`, `account_status.dart` |
| `RotatingTokens` | *abstract*: chains of refresh tokens on which login, refresh and logout are one step each | - |
| `AuthSessions` | the session half of the API, one action per critical section | `service.go`, `store.go`, `token.go`, `middleware/auth.go` |
| `OtpService` | one-time passwords, one action per critical section | `otp.go`, `handler.go` |
| `OneTimeCodes` | *abstract*: codes that are issued, admit calls, are hit or missed and close, one step each | - |
| `RequestPath` | routes, guards, Logger, Recoverer, for requests that interleave | `router.go`, `middleware/auth.go`, `middleware/logger.go` |
| `ApiServer` | the process around `RequestPath`: both goroutines of main, signals, Shutdown and its timeout | `main.go`, `config.go` |
| `AuthService` | the client's service, timer and storage, on top of `RotatingTokens` as the server | `auth_service.dart`, `auth_client.dart`, `refresh_token_timer.dart`, `token_storage.dart` |
| `AuthServiceFaults` | `AuthService` with a storage that throws, and with dispose | `auth_service.dart` |
| `RefreshTimer` | when the access token is refreshed, in time | `refresh_token_timer.dart`, `auth_token.dart`, `auth_service.dart` |
| `PinLock` | the offline PIN, one action per awaited key | `token_storage.dart` |
| `AuthInterceptor` | both interceptors around dio's error queue | `auth_interceptor.dart`, `retry_interceptor.dart` |
| `MCAuthSessions`, `MCOtpService`, `MCAuthService`, `MCAuthServiceFaults`, `MCPinLock` | the symmetry sets for TLC | - |
| `MCAuthSessionsLive` | `AuthSessions` with names of refresh tokens that are drawn again, for TLC | - |
| `AuthSessionsProofs`, `OtpServiceProofs`, `AuthServiceProofs`, `AuthServiceFaultsProofs`, `RefreshTimerProofs`, `PinLockProofs`, `AuthInterceptorProofs`, `ApiServerProofs` | theorems and proofs | - |

The composition of client and server is in two layers: `AuthSessions` implements
`RotatingTokens` (checked and proved), and `AuthService` runs against
`RotatingTokens` (`Server == INSTANCE RotatingTokens`). So the client is checked
against the server's promise, not against its 400 lines. `OtpService` implements
`OneTimeCodes` (checked and proved). `ApiServer` extends `RequestPath`: the process decides
when requests are accepted, and when they are lost.

### Correspondence

*AuthSessions.* `call[c]` holds the local variables of a goroutine and `at` the
store method it is about to enter: `LoginLookup` is GetByPhoneOrEmail,
`LoginIssue` and `LoginRefuse` what follows bcrypt, `LoginStore` CreateSession;
`RefreshLookup`, `RefreshAccount`, `RefreshIssue`/`RefreshRefuse`,
`RefreshRotate`/`RefreshConflict` are the parts of Refresh; `Logout` is one
critical section. `StoreAccount` is the only way an account changes (the API has
no endpoint for it yet: the repository method, at any time). `Restart` ends the
process, `Tick` lets time pass. `family` is a history variable: the login a
token descends from. `issued` are the access tokens in clients' hands.

*OtpService.* `RequestDraw` and `CreateOTP` are RequestOTP; `VerifyLookup`,
`VerifyMiss`, `VerifyRefuse`, `VerifyCompare`, `IncrementAttempts`,
`MarkVerified` and `VerifyAccount` the parts of VerifyOTP. `reply` is the
status HandleOTPVerify answers with. `wins` and `misses` are history variables.

`OneTimeCodes` is what OtpService promises: to be compared with a code a call must
be admitted while the code is open and has guesses left, and every admission is good
for one answer. In the mapping a code is open while it is stored, in time and not
verified; a call is admitted from its lookup to its answer, while its copy passes
the tests; wrong
answers are the attempts in the store, right ones the marks. That an admission
survives the close of its code is how a code may be used twice (`OtpUsedOnce.cfg`).

*RequestPath.* `req[r].next` is the place in the chain of middlewares: `ServeNext`
is `next.ServeHTTP`, `Reply` a status written followed by a return. `Panic` may come
before or after the handler has written its status; `Log` is the deferred call of
Logger, and `Recover` chi's Recoverer, which is outside Logger. The route "managed"
is the chain of `middleware/auth_test.go`: RequireRole is mounted on no route of the
program yet. What the handlers under `/auth` do is in the other modules; here they
answer some status.

*ApiServer.* `main` is where main is (before or in ListenAndServe, at
`<-shutdownComplete`) and how the process ended, `watcher` the goroutine of the
signal, `pending` the signal in `sigChan`. Of net/http the model has what main relies
on: Shutdown stops the accepting, makes ListenAndServe return, and returns when
nothing is under way or its context is done. A Duration is an integer of bounded
width, in which a large timeout wraps.

*AuthService.* `call[c].at` is the await a method has reached. Dart runs an event
to its next await, so these are all the interleavings there are. A method that
another one calls (`refresh` from `restoreSession` and from `unlockWithPin`)
goes on in the same slot. Storage keys: the five token keys are written by one
`Future.wait`, so a save is one action whose parts a `Kill` may leave done or not;
the model keeps the two keys that decide whether there is a token, and names a
pair after its refresh token. `adrift`, `torn` and `purged` are history
variables: they name the losses the properties make an exception for.

*AuthServiceFaults.* `StorageFails` may follow any await on the storage: one of its
keys throws, the others are written or not, and the method ends without a state of
its own, since none catches. After `Dispose` the stream of states is closed, so that
`_setState` throws once it has assigned a new state: those are the actions that end
in `Throws`; every other step is `Silent`. `broken` is a history variable.

*RefreshTimer.* `left` is what the server grants the stored access token,
`believed` what the client computes from the instant it saved the answer: the API
sends no `issued_at`. `trip` is a refresh under way. Methods do not overlap here, the
timer is punctual, and a request takes `MaxTrip` at most.

*PinLock.* One action per key read or written by `verifyPin`. `wrong` counts
the wrong PINs told since the counter began anew; `barred` is the lockout last
told to the user.

*AuthInterceptor.* `errors` is the queue of dio's QueuedInterceptor and `phase`
where its head is. Access tokens are numbers, those below `dead` have expired.
The nesting of `_dio.fetch` in RetryInterceptor is flat: the request goes
through the same states again with its retry count. The app's callbacks may throw.
Inside the `try` of onError that is `RefreshFails` or `RetryFails`; at the two awaits
nothing surrounds, getAccessToken in onRequest (line 43) and onAuthFailure (line 97),
it is `SendThrows` and `AuthFailureThrows`: the handler is never completed, the request
stays "lost" or the phase "stuck", and the queue it is in stands still for good.

## What is checked

Passing runs (times on two workers):

| run | instance | distinct states, time | shows |
|---|---|---|---|
| `auth_sessions` | 2 calls, 2 accounts, 1 agent, 3 tokens, lifetimes 1 and 2 | 299 k, 140 s | `GrantsOnlyWhileActive`, `OneLivePerLogin`, `EndedStaysEnded`, `SuccessorsReplaceLiveTokens`, and the refinement `ImplementsRotatingTokens` |
| `auth_sessions_live` | 2 calls, 1 account, 3 tokens that are drawn again | 621 k, 60 s | `ClosedAccountsLoseAccess` |
| `otp_service` | 2 calls, 1 phone, 2 purposes, 2 codes, 2 ids, limit 2, lifetime 1 | 573 k, 110 s | `AtMostOneActive`, `AttemptsOvershoot`, `EveryMissIsCounted`, `UnusableStaysUnusable`, and the refinement `ImplementsOneTimeCodes` |
| `api_server` | 2 requests, 2 roles, 4 settings of the timeout, Durations of -8 .. 7 ticks | 820 k, 60 s | `OnlyAdmitted`, `AnswerIsLogged`, `EveryLossIsExplained`, `SignalEndsProcess` |
| `auth_service_alone` | 1 method, 2 accounts, 3 tokens | 114 k, 12 s | `AuthenticatedIsStored` |
| `auth_service_faults` | the same, with a storage that throws and dispose; the behaviours of the run above are among these, but `AuthenticatedIsStored` fails here | 777 k, 45 s | `AttendedUnlessBroken`, `StoredUnlessBroken`, `OwnIdentity`, `ForgottenIsClosed`, `DisposedStaysQuiet` |
| `auth_service` | 2 methods, 1 account, 1 token | 388 k, 90 s | `StateIsAttended`, `ClosedIsNoticed` |
| `refresh_timer` | lifetime 12, lead time 5, travelling time up to 2 | 397, 1 s | `OnlineIsNeverExpired`, `ExpiredIsBeingRefreshed`, `RefreshesAreSpaced` |
| `pin_lock` | 1 call, 2 pins, 2 salts, limit 5, lockout 2 | 2.2 k, 1 s | `LockoutAtLimit`, `LockoutLasts` |
| `auth_interceptor` | 3 requests: retryable, not retryable, public; 2 retries, 1 refresh that succeeds; callbacks that throw | 538 k, 120 s | `SendsAreBounded`, `UnauthorizedIsTold`, `EveryRequestEnds` |

Each module has one type invariant besides. Every property of a passing run has a
mutant in `PROJECT.json`: a plausible bug in one mapped definition that breaks it.

Two runs are expected to be violated. Each states what a document, a comment or a
task says and the code does not do:

| run | claim | what the code does |
|---|---|---|
| `logout_revokes` | logout revokes the session on the server | not when a refresh rotates its token meanwhile |
| `pin_lockout` | five failed attempts lock the PIN | overlapping calls lose attempts |

`LockoutAtLimit` follows TASK-PKG-002:44, "lockout at 5 failed attempts". Another
document contradicts that one: by `docs/design/01-auth-flow.md:197` the PIN is cleared
after five incorrect attempts and the full login screen shown. The code keeps the PIN
behind a lockout of 15 minutes, and nothing calls clearPin but clearAll (see
`PinCleared.cfg` below).

`ForgottenIsClosed` and `LockoutAtLimit` are in both tables: they hold while
methods of the client do not overlap (with lost messages and kills), and fail
when two of them do. The code does nothing to keep them apart.

Some more disagreements of this kind were met while modelling. They are not runs of
the project; their properties are stated at the end of the modules and their
configurations kept, so that a change of the code can be tried against them
(`tlc -config <cfg> <module>`; TLC finds each one violated):

| configuration, module | claim | what the code does |
|---|---|---|
| `SuspensionImmediate.cfg`, MCAuthSessions | a suspension revokes access at once (`docs/GLOSSARY.md:55`) | the access token keeps its claim until it expires |
| `OneTokenPerDevice.cfg`, MCAuthSessions | a new login on a device replaces the old token (`docs/design/01-auth-flow.md:30`) | Login stores one more session |
| `RefreshReuse.cfg`, MCAuthSessions | a rotated token may be reused for 30 s (`docs/decisions/003-jwt-refresh-token-strategy.md:64`) | the slower of two refreshes is refused |
| `OtpUsedOnce.cfg`, MCOtpService | a code is invalidated after its first use (`docs/PROCESSES.md:82`) | two verifications in flight both succeed |
| `OtpAttemptLimit.cfg`, MCOtpService | five failed attempts lock a code | guesses in flight pass the limit together |
| `OtpInvalidated.cfg`, MCOtpService | a new code invalidates the old one (`otp.go:32`) | a verification in flight still succeeds |
| `OtpExpiredReport.cfg`, MCOtpService | an expired code is answered 422 (`docs/tasks/api/TASK-API-004-otp-verification.md:50`) | GetActiveOTP skips it, and the answer is 401 |
| `OtpExpiredReport.cfg` with `VerifiedIsReported` as its property | a verified code is answered 409 (same page) | it is answered 401 |
| `OtpPair.cfg`, MCAuthService | an OTP login returns a full pair | the refresh token is empty |
| `LogoutPurges.cfg`, MCAuthService | logout purges the credentials | a refresh in flight stores new ones |
| `RefusalClears.cfg`, MCAuthService | a refused refresh clears the tokens (`auth_service.dart:171`) | a lost request clears them too |
| `OfflineGrace.cfg`, MCAuthService | the PIN opens 8 hours of grace in an outage (`auth_service.dart:212`) | the refresh it starts fails on the outage and ends it |
| `OverlappingRefresh.cfg`, MCAuthService | authenticated means a valid session (`auth_state.dart:13`) | a failed refresh clears another method's tokens |
| `StuckAuthenticating.cfg`, MCAuthServiceFaults | authenticating means that a login is in flight (`auth_state.dart:10`) | it stays when the storage throws in the middle of one |
| `EarlySignal.cfg`, ApiServer | SIGTERM drains requests in flight (`docs/tasks/api/TASK-API-001-project-scaffold.md:45`) | a signal before Notify ends the process while the listener may be serving |
| `ShutdownOverflow.cfg`, ApiServer | ... within a configurable timeout (same line) | a timeout that overflows in nanoseconds is over at once |
| `PinCleared.cfg`, MCPinLock | after 5 incorrect PINs the local PIN is cleared (`docs/design/01-auth-flow.md:197`) | it is kept, and accepted again after the lockout |
| `LockoutStands.cfg`, MCPinLock | lockout at 5 failed attempts (`TASK-PKG-002:44`) | of two calls one deletes the new lockout for the old one it found expired |
| `HungRequests.cfg`, AuthInterceptor | a refresh that fails rejects the queued requests (`docs/tasks/pkg/TASK-PKG-003-core-network-interceptor.md:49`) | not when onAuthFailure throws: they wait for ever |
| `AuthFailure.cfg`, AuthInterceptor | onAuthFailure: the refresh failed or its token is invalid (`auth_interceptor.dart:96`) | a replay that fails counts as well |
| `QueuedReplay.cfg`, AuthInterceptor | queued requests are replayed with the new token | each starts a refresh of its own |

### Bounds

Two concurrent calls are what every race in these stores needs: one is between
two critical sections while the other runs. Three tokens allow a login with two
rotations, or a rotation beside a second login. Time is relative: a deadline is
held as the ticks left until it (0 at the deadline, then past), so the clock has
no bound, and lifetimes of one and two ticks are enough for "in time", "at the
deadline" and "over" to occur between any two steps. Two codes and a limit of two
failed attempts allow a hit, a miss and an overshoot; a code lives one tick there, so
that it is in time, at its deadline and over. Two requests of `ApiServer` let one hang
while another is served; the settings are none, zero, one that fits and one that
overflows (a second is two ticks, a Duration ends at seven). `RefreshTimer` has a
lead time of more than two trips and a lifetime of more than both, as 15 minutes, 3
minutes and the timeouts of dio are. The client's runs separate
what needs two accounts and three sessions (one method at a time) from what needs
overlapping methods; the latter has one token, so that its liveness can be checked:
there a login succeeds and a refresh is refused or lost, and what a successful
refresh adds to `StateIsAttended` is covered by its proof. In `auth_interceptor`
every request can be queued behind another. `MaxToken` bounds how often a refresh
may succeed. Symmetry is used for calls, agents, tokens and the like, in safety runs
only.

A token drawn at random is never drawn twice, so with three tokens no client could
refresh for long, and every account would lose access when they are used up.
`auth_sessions_live` has to let a closed account try for ever: in `MCAuthSessionsLive`
the name of a token that can do nothing any more (no session, or one that RotateSession
refuses, and no call holds it) becomes fresh again. Only the history variable `family`
could tell, and `ClosedAccountsLoseAccess` does not look at it. The mutant of that run
is a refresh that keeps renewing the claim of a closed account.

The runs of `AuthInterceptor` and `ApiServer` do not check deadlock: requests may all
be over, and the process has ended.

### Fairness

- `AuthSessions`: a goroutine goes on (`WF` of `Serve(c)`) and time passes.
  Requests, logouts, restarts and account changes are not fair.
- `AuthService`: a running method goes on, since requests have timeouts and
  storage answers (`WF` of `Step(c)`). A timer that is set fires: `SF`, because
  in the model, and only there, the bound on `Calls` can keep disabling it.
  What users do is not fair.
- `ApiServer`: the two goroutines go on when they can, and time passes (`WF`).
  Nothing is assumed of requests: a handler may hang. Signals are not fair.
- `AuthInterceptor`: onError goes on, answers arrive, a backoff ends. No callback has
  to throw, and one that is stuck stays so.

### Assumptions

- bcrypt, signatures and SHA-256 are abstracted: hashes of distinct values are
  distinct, a signature is valid or not, and random tokens and ids are fresh.
- No order is assumed among the storage operations of different methods; that they
  may fail is left to `AuthServiceFaults`.
- Of net/http and chi the models have the documented behaviour `main` and the router
  rely on.
- The server of `AuthService` may refuse a login or a refresh at any time (5xx,
  rate limits), and close a chain at any time.
- Whether a stored access token is found expired is left open in `AuthService`;
  `RefreshTimer` has its times, and its methods do not overlap.
- One kill cuts the writes of one method.
- Setting and clearing the PIN issues its keys together.

## What is proved

Every safety property a passing run checks is also a theorem, for all sets of
accounts, calls, tokens and the like, and for all numbers, under the named assumptions
on the constants that each module declares (`TTLAssumption`, `OtpAssumption` and the
others) and nothing else, but where `[]OneAtATime` is named. `Spec /\ []OneAtATime =>
[]P` says that P holds in every behaviour in which no call begins while another one
runs. It is the hypothesis under which the property is checked as well (a run with one
slot for calls), and where it is dropped TLC finds the violations of `logout_revokes`
and `pin_lockout`; but it does not bound the number of slots, of kills or of calls one
after the other.

### AuthSessionsProofs

1. `TypeCorrect`. `TypeInv` adds to `TypeOK` what a call knows at each point (a
   refresh past its lookup holds a token, a call that issues holds an account).
2. `NoFork` (`OneLivePerLogin`). Not inductive alone: a rotation inherits the
   login of its token, so `ChainInv` adds the shape of the chains - a token in the
   store has a login, a login is its own first token, a token never drawn is not
   stored. Then the live token that is rotated is the only one of its login, and
   it dies in the step in which its successor is stored.
3. `LogoutIsFinal` (`EndedStaysEnded`): only LoginStore and RefreshRotate create
   live tokens; the first opens a login nobody had, the second needs a live
   token of the same login.
4. `ExchangesAreChecked` (`SuccessorsReplaceLiveTokens`) needs `OwnerInv`: the
   account a refresh has read is still the one of the session it rotates, if that
   is in the store.
5. `ClosedAccountsGetNothing` (`GrantsOnlyWhileActive`) from `GrantInv`: a call whose
   copy of the account is active has been open, and while the account is active so
   is every call that works for it.
6. `SessionsRefineChains` (`ImplementsRotatingTokens`): the open end of a chain is the
   live token of the login, `used` the tokens drawn. LoginStore is Open, RefreshRotate
   is Exchange, Logout is Close, Restart is CloseAll, everything else stutters. It rests
   on `NoFork`: without it the CHOOSE of the mapping would not be a function of the
   step.
7. `TablesAgree`: the status tables of the API and the apps are the same.

### OtpServiceProofs

8. `TypeCorrect`: a call that looks at a code, counts or marks it holds the id of a
   record that is in the store, and a record that was never stored has no history.
9. `OneActiveCode` (`AtMostOneActive`): CreateOTP invalidates the active codes of its
   phone and purpose in the critical section that stores the new one, and `RecordsAge`
   says that no record becomes active again by itself.
10. `MissesAreCounted` (`EveryMissIsCounted`) and `OvershootIsBounded`
    (`AttemptsOvershoot`). `CountInv` is about numbers of calls: the attempts counted
    and the guesses on their way are the wrong answers found; and the attempts with all
    calls that may still come to count one stay below the limit plus the number of
    calls. The second is what a bound on the overshoot needs: a call is admitted by an
    old copy of the counter, so not the guesses but those who may guess are counted.
11. `DeadStaysDead` (`UnusableStaysUnusable`): a call comes to hold a code only by
    looking up one that is open, and a record that is not open never is again.
12. `ServiceRefinesCodes` (`ImplementsOneTimeCodes`): CreateOTP is Issue, with the codes
    it replaces; a lookup whose copy passes the tests is Admit; IncrementAttempts is
    Wrong, MarkVerified is Right, Tick is Lapse, Restart is Forget, everything else
    stutters. `TypeInv` is all it needs.

### AuthServiceProofs

For any number of overlapping methods:

13. `TypeCorrect`: `TypeInv` adds what a method holds at each await, above all that
    what is saved and entered is a pair and an account.
14. `AlwaysAttended` (`StateIsAttended`), inductive with `TypeInv`: a slot that is
    free runs no method, so what begins there replaces nothing that attends to
    the state; a step that ends a method either signs the app out, sets the timer,
    or turns the method into a refresh; a step that goes on keeps its method.

For methods that do not overlap:

15. `NothingForgotten` (`ForgottenIsClosed`). `NotForgotten` has the property, for a
    chain that is in the storage, in a method's hands or in `adrift` (`Kept`), and what
    each await relies on (`Keeps`): the token a method has read is still the stored
    one; once a refresh has been answered, the stored token is spent, so that
    overwriting it loses nothing; what a method is about to drop or delete is closed or
    lost - for a logout because the server has closed the chain of the token that
    is stored, of which there is one (`Distinct`). A write that was cut leaves half a
    pair in the storage, and nothing that counts ends in it (`Halves`).
16. `ShowsWhatIsStored` (`AuthenticatedIsStored`). `Shown` is the property with the
    awaits at which the storage is ahead of the state taken out, rather than
    only at rest; any step that sets the state establishes it (`StepShown`).
17. `ShowsOwnIdentity` (`OwnIdentity`). `Own` has the property of the storage and of the
    state, and `Owns` what a method contributes: from the answer on it knows the account
    of its pair, and until it enters the session the app shows either that it is
    authenticating (a login) or a token that is spent (a refresh). The latter needs
    `Matches`, which follows from `Shown`: the token the app shows is the stored one, or
    spent, or nothing is stored; so the token that is exchanged is the one it shows.

### AuthServiceFaultsProofs

For all of that with a storage that throws and with dispose:

18. `FaultsTypeCorrect`, and `BrokenByStorageAlone` (`AttendedUnlessBroken`): the
    invariant of 14 holds as long as the storage has not thrown, and `broken` is reset
    only by a step that sets a state, which attends to it again.
19. `QuietAfterDispose` (`DisposedStaysQuiet`): a step that sets the timer is one of
    `AuthService` that also sets a state, and after dispose such a step is `Silent`.
20. `NothingForgottenByFaults` (`ForgottenIsClosed`) and `StoredAfterFaults`
    (`StoredUnlessBroken`), for methods that do not overlap. `NotForgotten` stays
    inductive: a storage operation that throws is a kill of one method. `Shown` does
    not, but any step that sets the state repairs it, and just that resets `broken`.
21. `OwnIdentityAfterFaults` (`OwnIdentity`), for methods that do not overlap. Here
    `Shown` is no use, but `Matches` stays inductive together with `Own`: a save that
    is cut belongs to a refresh, and what the app shows by then is spent; a deletion
    that is cut leaves half a pair, which is nothing.

### RefreshTimerProofs

22. `NeverExpiredOnline`, `ExpiredIsRefreshed` and `Spaced`, for all lifetimes, lead
    times and travelling times of `TimesAssumption`. `TimerInv` says that the client is
    late by one trip at most (`believed <= left + MaxTrip`) and that timer or refresh
    match the belief; a lead time of more than two trips then leaves something of the
    token when the answer comes.

### PinLockProofs

23. `TypeCorrect`, for any number of overlapping calls: setPin stores the PIN and the
    salt it was called with.
24. `LockoutComes` (`LockoutAtLimit`) and `LockoutHolds` (`LockoutLasts`), for calls
    that do not overlap, any limit and any duration. A kill between the keys makes the
    count in the storage and the count of wrong PINs told differ, so `CountOK` has an
    inequality: the storage is never behind what was told. `BarOK` says that the lockout
    that is stored is not shorter than the one that was told, and `Knows` what a call
    relies on at each key, such as that past the test of the lockout there is none.

### AuthInterceptorProofs

25. `TypeCorrect`, `SendsBounded` (`SendsAreBounded`) and `ToldOfUnauthorized`
    (`UnauthorizedIsTold`), for any set of requests and any number of retries and
    refreshes. `QueueOK` says that the queue holds each failed request once, and that
    past "idle" its head is a 401 of a request that needs a token, also when it is stuck
    there. The bound needs
    `Replay`, the exact count: a request has been sent once for each retry and once
    more, and the one replay beyond that leaves a 401 that is never retried, or a result.

### ApiServerProofs

26. `Admission` and `Logged`. `PathOK` says what each place in a chain has found
    out: past RequireAuth the claims are those of the header, past the second guard
    they satisfy it, and 200 is written at the end of a guarded chain only.
27. `TypeCorrect` and `Drained` (`EveryLossIsExplained`). `ServerInv` ties the two
    goroutines: main is clean only when Shutdown has returned, and then nothing is
    under way or the timeout is over, which stays so since nothing is accepted any
    more. `TimeoutPromised` is the arithmetic: a timeout that fits is not wrapped.

### Only model-checked

Everything that is liveness, which the prover does not reach
(`ClosedAccountsLoseAccess`, `ClosedIsNoticed`, `EveryRequestEnds`,
`SignalEndsProcess`), as it does not reach ENABLED or induction over data. No module
declares a recursive operator.

## Not modelled

- requestOtp and ApiClient: they map a request to a response and keep no state;
- `AuthInterceptor` together with `AuthService`: no code in the repository connects
  them yet, so whether the refresh callback is `AuthService.refresh`, and what
  onAuthFailure does, is the apps' to decide; `RefreshedElsewhere` in
  `AuthInterceptor` stands for the other way in which tokens change;
- Account.Validate and the cluster of an account, which no code that runs calls; the
  Dart copies of the roles and the generated JSON code;
- PORT, ENV, JWT_SECRET, and the wording of answers and log lines;
- the memory the stores of the API use: nothing is ever deleted from them;
- two OTP requests in one nanosecond, whose ids would be the same;
- the SQL migrations, which no code uses yet; the apps' screens; the site;
  deployment;
- claims of the documents that have no counterpart in the code: a limit on OTP
  requests, revocation of tokens after a password reset, timers for resending.

## Plan

Done: inventory; `AccountStatus`, `RotatingTokens`, `AuthSessions`, `OtpService` with
`OneTimeCodes`, `AuthService` and `AuthServiceFaults`, `RefreshTimer`, `RequestPath` and
`ApiServer`, `PinLock`, `AuthInterceptor`; a theorem for every safety property of theirs
that a run checks, and for both refinements.

Next:

1. The abstract specifications: what follows from `RotatingTokens` and `OneTimeCodes`
   alone, so that a reader need not open the detailed modules for it.

When the code grows: the composition of `AuthInterceptor` and `AuthService`, once an
app connects them; the database behind the stores; RequireRole on real routes.
