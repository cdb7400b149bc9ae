------------------------- MODULE RefreshTimerProofs -------------------------
(***************************************************************************)
(* Proofs about RefreshTimer, for all lifetimes, lead times and travelling *)
(* times that TimesAssumption allows: its type invariant, that an app that *)
(* stays open never holds an expired token, that one it restored expired   *)
(* is being refreshed, and that refreshes are spaced.                      *)
(***************************************************************************)
EXTENDS RefreshTimer, TLAPS

\* What the stored issue date, the timer and a refresh under way have to do with
\* each other.  The issue date is at most MaxTrip late.
TimerInv ==
    /\ left = None <=> believed = None
    /\ left # None => left <= believed /\ believed <= left + MaxTrip
    /\ app = "off" => timer = None /\ trip = None
    /\ app = "out" => timer = None
    /\ trip # None /\ trip.issued # None
          => trip.issued >= Lifetime - trip.age
    /\ trip # None /\ app = "in" => timer = None
    /\ app = "in" =>
          /\ left # None
          /\ trip = None => timer # None /\ timer = believed - LeadTime
          /\ trip # None => believed <= LeadTime
    /\ app = "in" /\ ~restored =>
          /\ since + believed = Lifetime
          /\ trip # None => believed + trip.age >= LeadTime

Inv == TypeOK /\ TimerInv

LEMMA InitInv == Init => Inv
<1> SUFFICES ASSUME Init PROVE Inv
  OBVIOUS
<1>1. TypeOK
  <2>1. since \in 0 .. Lifetime
    BY TimesAssumption DEF Init
  <2> QED
    BY <2>1 DEF Init, TypeOK
<1>2. TimerInv
  BY DEF Init, TimerInv
<1> QED
  BY <1>1, <1>2 DEF Inv

LEMMA StepInv == Inv /\ [Next]_vars => Inv'
<1> SUFFICES ASSUME Inv, [Next]_vars PROVE Inv'
  OBVIOUS
<1> USE TimesAssumption DEF Inv, TypeOK, TimerInv, Trip, Remaining, Floor, Sent,
        stored
<1>1. ASSUME NEW travel \in 0 .. MaxTrip, SignIn(travel) PROVE Inv'
  <2>1. /\ app' = "in" /\ left' = Lifetime - travel /\ believed' = Lifetime
        /\ timer' = Lifetime - LeadTime /\ trip' = None
        /\ since' = 0 /\ restored' = FALSE
    BY <1>1 DEF SignIn, Hold, Schedule
  <2>2. TypeOK'
    <3>1. /\ Lifetime - travel \in Remaining /\ Lifetime \in Remaining
          /\ Lifetime - LeadTime \in 0 .. Lifetime - LeadTime
          /\ 0 \in 0 .. Lifetime
      OBVIOUS
    <3> QED
      BY <2>1, <3>1
  <2>3. TimerInv'
    BY <2>1
  <2> QED
    BY <2>2, <2>3
<1>2. CASE TimerFires
  BY <1>2 DEF TimerFires
<1>3. CASE ServerIssues
  BY <1>3 DEF ServerIssues
<1>4. CASE Answer
  BY <1>4 DEF Answer, Hold, Schedule
<1>5. CASE RefreshFails
  BY <1>5 DEF RefreshFails
<1>6. CASE Kill
  BY <1>6 DEF Kill
<1>7. CASE Restore
  <2>1. CASE left = None
    BY <1>7, <2>1 DEF Restore
  <2>2. CASE left # None /\ believed < 0
    BY <1>7, <2>2 DEF Restore
  <2>3. CASE left # None /\ ~(believed < 0)
    <3>1. /\ app' = "in" /\ Schedule(believed) /\ restored' = TRUE
          /\ UNCHANGED <<stored, since>>
      BY <1>7, <2>3 DEF Restore
    <3>2. CASE believed <= LeadTime
      BY <2>3, <3>1, <3>2 DEF Schedule
    <3>3. CASE ~(believed <= LeadTime)
      BY <2>3, <3>1, <3>3 DEF Schedule
    <3> QED
      BY <3>2, <3>3
  <2> QED
    BY <2>1, <2>2, <2>3
<1>8. CASE Tick
  BY <1>8 DEF Tick, Sooner
<1>9. CASE UNCHANGED vars
  BY <1>9 DEF vars
<1> QED
  BY <1>1, <1>2, <1>3, <1>4, <1>5, <1>6, <1>7, <1>8, <1>9 DEF Next

LEMMA AlwaysInv == Spec => []Inv
BY InitInv, StepInv, PTL DEF Spec

\* The variables keep their types: no timer is set for longer than a lifetime
\* less the lead time, and no request outlasts MaxTrip.
THEOREM TypeCorrect == Spec => []TypeOK
BY AlwaysInv, PTL DEF Inv

\* An app that stays open never holds an expired access token, whatever the
\* lifetime, if the lead time is more than two trips to the server.
THEOREM NeverExpiredOnline == Spec => []OnlineIsNeverExpired
<1>1. Inv => OnlineIsNeverExpired
  BY TimesAssumption DEF Inv, TypeOK, TimerInv, OnlineIsNeverExpired,
     Trip, Remaining, Floor
<1> QED
  BY <1>1, AlwaysInv, PTL

\* An app that holds an expired access token is asking for another.
THEOREM ExpiredIsRefreshed == Spec => []ExpiredIsBeingRefreshed
<1>1. Inv => ExpiredIsBeingRefreshed
  BY TimesAssumption DEF Inv, TypeOK, TimerInv, ExpiredIsBeingRefreshed,
     Trip, Remaining, Floor
<1> QED
  BY <1>1, AlwaysInv, PTL

\* The refreshes of an app that stays open are spaced by a lifetime less the lead
\* time, so they cannot follow on each other without end.
THEOREM Spaced == Spec => RefreshesAreSpaced
<1>1. Inv /\ [Next]_vars
         => [trip' = Sent /\ trip # Sent /\ app' = "in" /\ ~restored'
                => since' >= Lifetime - LeadTime]_vars
  <2> SUFFICES ASSUME Inv, Next, trip' = Sent, trip # Sent, app' = "in",
                      ~restored'
               PROVE  since' >= Lifetime - LeadTime
    OBVIOUS
  <2> USE TimesAssumption DEF Inv, TypeOK, TimerInv, Trip, Remaining, Floor,
          Sent
  <2>1. CASE TimerFires
    BY <2>1 DEF TimerFires
  <2>2. ~ServerIssues /\ ~RefreshFails /\ ~Kill
    BY DEF ServerIssues, RefreshFails, Kill
  <2>3. ~Answer /\ \A travel \in 0 .. MaxTrip : ~SignIn(travel)
    BY DEF Answer, SignIn, Hold, Schedule
  <2>4. ~Restore
    BY DEF Restore
  <2>5. ~Tick
    BY DEF Tick, Sooner
  <2> QED
    BY <2>1, <2>2, <2>3, <2>4, <2>5 DEF Next
<1> QED
  BY <1>1, AlwaysInv, PTL DEF Spec, RefreshesAreSpaced

=============================================================================
