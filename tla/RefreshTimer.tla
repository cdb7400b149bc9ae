---------------------------- MODULE RefreshTimer ----------------------------
(***************************************************************************)
(* When the client refreshes its access token: RefreshTokenTimer and       *)
(* AuthToken of packages/flutter, with the parts of AuthService that set   *)
(* the timer, in time.                                                     *)
(*                                                                         *)
(* The API sends no issued_at, so the client counts the lifetime from when *)
(* it saves the answer, and the server from when it issued the token.      *)
(* AuthService.tla has the methods and how they overlap; here one of them  *)
(* runs at a time, and a request takes MaxTrip at most (the timeouts of    *)
(* dio).                                                                   *)
(***************************************************************************)
EXTENDS Integers

CONSTANTS
    Lifetime,  \* AccessTokenTTL of internal/config/config.go: 15 minutes
    LeadTime,  \* leadTime of schedule: 3 minutes
    MaxTrip,   \* the longest a request takes
    None

\* What may be left of a token: below the floor it is as expired as can be.
Floor == -MaxTrip - 1
Remaining == Floor .. Lifetime
Trip == [age : 0 .. MaxTrip, issued : Remaining \cup {None}]

ASSUME TimesAssumption ==
    /\ MaxTrip \in Nat \ {0}
    /\ LeadTime \in Nat /\ 2 * MaxTrip < LeadTime
    /\ Lifetime \in Nat /\ LeadTime + MaxTrip < Lifetime
    /\ None \notin Int \cup Trip

VARIABLES
    app,       \* "off", or whether it is authenticated
    left,      \* of the access token that is stored, for the server
    believed,  \* the same as the stored issued_at has it
    timer,     \* until _timer fires
    trip,      \* a refresh under way: since when, and the token issued by now
    since,     \* history: since the app has had an answer to a refresh
    restored   \* history: the token in use is one restoreSession has found

stored == <<left, believed>>
vars == <<app, stored, timer, trip, since, restored>>

TypeOK ==
    /\ app \in {"off", "out", "in"}
    /\ left \in Remaining \cup {None} /\ believed \in Remaining \cup {None}
    /\ timer \in 0 .. Lifetime - LeadTime \cup {None}
    /\ trip \in Trip \cup {None}
    /\ since \in 0 .. Lifetime
    /\ restored \in BOOLEAN

----------------------------------------------------------------------------
Init ==
    /\ app = "off"
    /\ left = None /\ believed = None
    /\ timer = None
    /\ trip = None
    /\ since = Lifetime
    /\ restored = FALSE

Sent == [age |-> 0, issued |-> None]

\* Mutant: a token within the lead time is left alone.
Schedule_NotAtOnce(remaining) ==
    IF remaining <= LeadTime
    THEN timer' = None /\ trip' = None
    ELSE timer' = remaining - LeadTime /\ trip' = None

\* Mutant: the timer is set for the expiry.
Schedule_AtExpiry(remaining) ==
    IF remaining <= LeadTime
    THEN timer' = None /\ trip' = Sent
    ELSE timer' = remaining /\ trip' = None

\* Mutant: the timer is set to the lead time.
Schedule_Swapped(remaining) ==
    IF remaining <= LeadTime
    THEN timer' = None /\ trip' = Sent
    ELSE timer' = LeadTime /\ trip' = None

\* schedule: a token that is within the lead time is refreshed at once.
Schedule(remaining) ==
    IF remaining <= LeadTime
    THEN timer' = None /\ trip' = Sent
    ELSE timer' = remaining - LeadTime /\ trip' = None

\* A pair the server issued when `remaining` was its Lifetime is saved, with
\* the time of the saving as its issue.
Hold(remaining) ==
    /\ app' = "in"
    /\ left' = remaining
    /\ believed' = Lifetime
    /\ Schedule(Lifetime)
    /\ since' = 0
    /\ restored' = FALSE

\* login, answered `travel` after the server has issued the pair.
SignIn(travel) ==
    /\ app = "out" /\ trip = None
    /\ Hold(Lifetime - travel)

\* _trigger: refresh sends its request.
TimerFires ==
    /\ timer = 0
    /\ timer' = None
    /\ trip' = Sent
    /\ UNCHANGED <<app, stored, since, restored>>

\* Access tokens are not revoked, so the server issues a new one and the stored
\* one stays what it is.
ServerIssues ==
    /\ trip # None /\ trip.issued = None
    /\ trip' = [trip EXCEPT !.issued = Lifetime]
    /\ UNCHANGED <<app, stored, timer, since, restored>>

Answer ==
    /\ trip # None /\ trip.issued # None
    /\ Hold(trip.issued)

\* refresh fails: refused or lost.
RefreshFails ==
    /\ trip # None
    /\ trip' = None
    /\ app' = "out"
    /\ left' = None /\ believed' = None
    /\ timer' = None
    /\ UNCHANGED <<since, restored>>

Kill ==
    /\ app # "off"
    /\ app' = "off"
    /\ timer' = None
    /\ trip' = None
    /\ UNCHANGED <<stored, since, restored>>

\* restoreSession: isExpired is strict.
Restore ==
    /\ app = "off"
    /\ CASE left = None ->
              app' = "out" /\ UNCHANGED <<timer, trip, restored>>
         [] left # None /\ believed < 0 ->
              app' = "out" /\ trip' = Sent /\ UNCHANGED <<timer, restored>>
         [] OTHER ->
              app' = "in" /\ Schedule(believed) /\ restored' = TRUE
    /\ UNCHANGED <<stored, since>>

Sooner(n) == IF n = None \/ n = Floor THEN n ELSE n - 1

\* Time passes; the timer is punctual and a request ends in time.
Tick ==
    /\ timer # 0
    /\ trip # None => trip.age < MaxTrip
    /\ left' = Sooner(left) /\ believed' = Sooner(believed)
    /\ timer' = IF timer = None THEN None ELSE timer - 1
    /\ trip' = IF trip = None THEN None
               ELSE [age |-> trip.age + 1, issued |-> Sooner(trip.issued)]
    /\ since' = IF since = Lifetime THEN since ELSE since + 1
    /\ UNCHANGED <<app, restored>>

Next ==
    \/ \E travel \in 0 .. MaxTrip : SignIn(travel)
    \/ TimerFires \/ ServerIssues \/ Answer \/ RefreshFails
    \/ Kill \/ Restore
    \/ Tick

Spec == Init /\ [][Next]_vars

----------------------------------------------------------------------------
(***************************************************************************)
(* Properties                                                              *)
(***************************************************************************)

\* "preventing mid-route courier telemetry disruptions and checkout auth errors":
\* an app that stays open never holds an access token the server finds expired,
\* although it counts the lifetime later than the server does.
OnlineIsNeverExpired == app = "in" /\ ~restored => left > 0

\* After a restart the app may, and it is asking for a new one then.
ExpiredIsBeingRefreshed == app = "in" /\ left <= 0 => trip # None

\* Refreshes do not chase each other: between the answer to one and the start of
\* the next the token has lived all but its lead time, unless the app was
\* restarted in between.
RefreshesAreSpaced ==
    [][trip' = Sent /\ trip # Sent /\ app' = "in" /\ ~restored'
          => since' >= Lifetime - LeadTime]_vars

=============================================================================
