---------------------- MODULE AuthServiceFaultsProofs ----------------------
(***************************************************************************)
(* Proofs about AuthServiceFaults, from the lemmas about AuthService: its  *)
(* type invariant, that only the storage leaves a state unattended, that   *)
(* the timer is not set after dispose, and, as long as methods do not      *)
(* overlap, what is shown, stored and forgotten after a storage that threw.*)
(***************************************************************************)
EXTENDS AuthServiceFaults, AuthServiceProofs

FaultsInv == TypeInv /\ FaultsTypeOK /\ AttendedUnlessBroken

\* A method that a closed controller ends keeps the types, and sets no timer.
LEMMA ThrowsTyped ==
    ASSUME TypeInv, NEW c \in Calls, Throws(c)
    PROVE  TypeInv' /\ timer' = timer
<1> USE DEF TypeInv, TypeOK, Server!TypeOK, CallInv, Call, Idle, history
<1>1. CASE LoginThrows(c)
  BY <1>1 DEF LoginThrows, State, Signed
<1>2. CASE RestoreThrows(c)
  BY <1>2 DEF RestoreThrows, At, Return, State
<1>3. CASE UnlockThrows(c)
  BY <1>3 DEF UnlockThrows, At, Return, State
<1>4. CASE EnterThrows(c)
  BY <1>4 DEF EnterThrows, Return, State
<1> QED
  BY <1>1, <1>2, <1>3, <1>4 DEF Throws

\* A storage operation that throws leaves a typed storage.
LEMMA StorageFailsTyped ==
    ASSUME TypeInv, NEW c \in Calls, StorageFails(c)
    PROVE  TypeInv'
<1> USE DEF TypeInv, TypeOK, CallInv
<1>1. store' \in Store
  BY Helpers DEF StorageFails, Store
<1>2. adrift' \subseteq Tokens
  BY Helpers DEF StorageFails
<1>3. call' \in [Calls -> Call] /\ \A d \in Calls : CallInv(d)'
  BY DEF StorageFails, Return, Call, Idle
<1>4. torn' \in BOOLEAN /\ Server!TypeOK'
  BY DEF StorageFails, Server!TypeOK
<1> QED
  BY <1>1, <1>2, <1>3, <1>4 DEF StorageFails, Store

LEMMA DisposeTyped == ASSUME TypeInv, Dispose PROVE TypeInv'
BY DEF Dispose, TypeInv, TypeOK, Server!TypeOK, CallInv, history

\* The types are kept by every step.
LEMMA FaultsStepTyped ==
    TypeInv /\ FaultsTypeOK /\ [FaultsNext]_faultVars
        => TypeInv' /\ FaultsTypeOK'
<1> SUFFICES ASSUME TypeInv, FaultsTypeOK, [FaultsNext]_faultVars
             PROVE  TypeInv' /\ FaultsTypeOK'
  OBVIOUS
<1>1. TypeInv'
  <2>1. CASE Alive \/ Kill
    BY <2>1, StepTyped DEF Next
  <2>2. CASE \E c \in Calls : Throws(c)
    BY <2>2, ThrowsTyped
  <2>3. CASE \E c \in Calls : StorageFails(c)
    BY <2>3, StorageFailsTyped
  <2>4. CASE Dispose
    BY <2>4, DisposeTyped
  <2>5. CASE UNCHANGED faultVars
    BY <2>5, StepTyped DEF faultVars
  <2> QED
    BY <2>1, <2>2, <2>3, <2>4, <2>5 DEF FaultsNext, Silent
<1>2. disposed' \in BOOLEAN /\ broken' \in BOOLEAN
  BY DEF FaultsNext, StorageFails, Dispose, FaultsTypeOK, faultVars
<1> QED
  BY <1>1, <1>2 DEF FaultsTypeOK, TypeInv

\* The variables keep their types when the storage throws and after dispose.
THEOREM FaultsTypeCorrect == FaultsSpec => []FaultsTypeOK
<1>1. FaultsInit => TypeInv /\ FaultsTypeOK
  BY InitTyped DEF FaultsInit, FaultsTypeOK, TypeInv
<1> QED
  BY <1>1, FaultsStepTyped, PTL DEF FaultsSpec

----------------------------------------------------------------------------
\* However many methods overlap, only a storage that throws leaves a state with
\* nobody to attend to it, and only until a method sets the next one.
THEOREM BrokenByStorageAlone == FaultsSpec => []AttendedUnlessBroken
<1>1. FaultsInit => FaultsInv
  <2>1. Init => StateIsAttended
    BY DEF Init, Signed, StateIsAttended
  <2> QED
    BY <2>1, InitTyped DEF FaultsInit, FaultsInv, FaultsTypeOK, TypeInv,
                           AttendedUnlessBroken
<1>2. FaultsInv /\ [FaultsNext]_faultVars => FaultsInv'
  <2> SUFFICES ASSUME FaultsInv, [FaultsNext]_faultVars
               PROVE  AttendedUnlessBroken'
    BY FaultsStepTyped DEF FaultsInv
  <2>1. CASE ~disposed /\ Alive /\ broken' = (broken /\ state' = state)
    <3>1. CASE broken'
      BY <3>1 DEF AttendedUnlessBroken
    <3>2. CASE ~broken'
      <4>1. Attending
        BY <2>1, <3>2 DEF FaultsInv, AttendedUnlessBroken, Attending
      <4> QED
        BY <2>1, <4>1, StepAttended DEF Next, FaultsInv, AttendedUnlessBroken
    <3> QED
      BY <3>1, <3>2
  <2>2. CASE disposed /\ disposed' = disposed
    BY <2>2 DEF AttendedUnlessBroken
  <2>3. CASE Kill
    BY <2>3, SignedOut DEF Kill, AttendedUnlessBroken
  <2>4. CASE \E c \in Calls : StorageFails(c)
    BY <2>4 DEF StorageFails, AttendedUnlessBroken
  <2>5. CASE Dispose
    BY <2>5 DEF Dispose, AttendedUnlessBroken
  <2>6. CASE UNCHANGED faultVars
    BY <2>6 DEF faultVars, vars, client, AttendedUnlessBroken,
                StateIsAttended, Running, FaultsInv
  <2> QED
    BY <2>1, <2>2, <2>3, <2>4, <2>5, <2>6
       DEF FaultsNext, Silent, Throws, LoginThrows, RestoreThrows,
           UnlockThrows, EnterThrows
<1>3. FaultsInv => AttendedUnlessBroken
  BY DEF FaultsInv
<1> QED
  BY <1>1, <1>2, <1>3, PTL DEF FaultsSpec

----------------------------------------------------------------------------
\* The timer is set by the two steps that enter "authenticated".
LEMMA TimerIsSet ==
    ASSUME Alive, ~timer, timer'
    PROVE  state'.kind = "authenticated"
<1>1. ASSUME NEW c \in Calls, Step(c) \/ ResponseLost(c)
      PROVE  state'.kind = "authenticated"
  <2>1. CASE RestoreValid(c) \/ Enter(c)
    BY <2>1 DEF RestoreValid, Enter
  <2>2. CASE ~(RestoreValid(c) \/ Enter(c))
    BY <1>1, <2>2 DEF Step, ResponseLost, RefreshRead, LogoutRead,
       UnlockRead, RestoreRead, RestoreNothing, RestoreExpired, ServeLogin,
       ServeRefresh, ServeOtp, ServeLogout, ServeRefusal, RequestLost,
       LoginFails, Granted, RefreshFails, LogoutAnswered, SaveToken,
       SaveAccount, ClearToken, Leave, ClearAll, Exit
  <2> QED
    BY <2>1, <2>2
<1>2. ASSUME NEW c \in Calls
      PROVE  /\ \A a \in Accounts, op \in {"login", "otp"} : ~Login(c, op, a)
             /\ ~Refresh(c) /\ ~TimerFires(c) /\ ~RestoreSession(c)
             /\ ~UnlockWithPin(c) /\ ~Logout(c)
  BY DEF Login, Refresh, TimerFires, RestoreSession, UnlockWithPin, Logout
<1>3. ~ServerCloses
  BY DEF ServerCloses, client
<1> QED
  BY <1>1, <1>2, <1>3 DEF Alive

\* After dispose no method sets the timer again, unless it finds the very state
\* it was to set.
THEOREM QuietAfterDispose == FaultsSpec => DisposedStaysQuiet
<1>1. FaultsInv /\ [FaultsNext]_faultVars
         => [disposed /\ ~timer /\ timer' => state' = state]_faultVars
  <2> SUFFICES ASSUME FaultsInv, FaultsNext, disposed, ~timer, timer'
               PROVE  state' = state
    OBVIOUS
  <2>1. CASE Silent
    BY <2>1, TimerIsSet DEF Silent
  <2>2. CASE \E c \in Calls : Throws(c)
    BY <2>2, ThrowsTyped DEF FaultsInv
  <2>3. CASE Kill \/ Dispose \/ \E c \in Calls : StorageFails(c)
    BY <2>3 DEF Kill, Dispose, StorageFails
  <2> QED
    BY <2>1, <2>2, <2>3 DEF FaultsNext
<1>2. FaultsSpec => []FaultsInv
  <2>1. FaultsInit => TypeInv /\ FaultsTypeOK
    BY InitTyped DEF FaultsInit, FaultsTypeOK, TypeInv
  <2>2. FaultsSpec => [](TypeInv /\ FaultsTypeOK)
    BY <2>1, FaultsStepTyped, PTL DEF FaultsSpec
  <2> QED
    BY <2>2, BrokenByStorageAlone, PTL DEF FaultsInv
<1> QED
  BY <1>1, <1>2, PTL DEF FaultsSpec, DisposedStaysQuiet

----------------------------------------------------------------------------
(***************************************************************************)
(* One method at a time: what the app shows and what the server keeps open *)
(* after a storage that threw.                                             *)
(***************************************************************************)

\* A storage operation that throws gives up what was stored and what was held.
LEMMA StorageFailsChains ==
    ASSUME ChainInv, NEW c \in Calls, Alone(c), StorageFails(c)
    PROVE  NotForgotten'
<1>1. /\ chain' = chain /\ used' = used /\ adrift \subseteq adrift'
      /\ adrift' = adrift \cup HeldChains(c) \cup ChainsOf(store.refresh)
      /\ Cut(c)
  BY DEF StorageFails, Cut
<1>2. call'[c] = Idle /\ \A d \in Calls : d # c => call'[d] = call[d]
  BY DEF StorageFails, Return, ChainInv, TypeInv, TypeOK
<1>3. /\ \A f \in Tokens : Ends(f, store.refresh) => f \in adrift'
      /\ \A f \in Tokens : Holds(c, f) => f \in adrift'
      /\ \A f \in Tokens : ~Ends(f, None)
  BY <1>1, NoneEnds DEF ChainInv, HeldChains, ChainsOf, Holds, Ends
<1>4. Distinct'
  BY <1>1 DEF ChainInv, NotForgotten, Distinct, Ends
<1>5. FromServer'
  BY <1>1, <1>2, CutEnds, IdleTyped
     DEF ChainInv, NotForgotten, FromServer, Seen
<1>6. Halves'
  BY <1>1, <1>3, CutEnds DEF Halves, Lost, Holds, Ends
<1>7. ASSUME NEW f \in Tokens PROVE Kept(f)'
  <2>1. \A d \in Calls : Holds(d, f) => Holds(d, f)' \/ f \in adrift'
    BY <1>1, <1>2, <1>3 DEF Holds, Ends
  <2> QED
    BY <1>1, <1>3, <2>1 DEF ChainInv, NotForgotten, Kept, Ends
<1>8. Keeps(c)'
  BY <1>2, IdleTyped DEF Keeps
<1>9. \A d \in Calls : Keeps(d)'
  BY <1>2, <1>8, OneKeeps
<1> QED
  BY <1>4, <1>5, <1>6, <1>7, <1>9 DEF NotForgotten

\* A method that a closed controller ends leaves the storage and the server
\* alone, and what it shows is what it has read or saved.
LEMMA ThrowsChains ==
    ASSUME ChainInv, NEW c \in Calls, Throws(c)
    PROVE  NotForgotten' /\ Shown'
<1>1. CASE LoginThrows(c)
  <2>1. NotForgotten'
    BY <1>1, UntouchedChains DEF LoginThrows
  <2> QED
    BY <1>1, <2>1 DEF LoginThrows, Shown, Signed
<1>2. CASE RestoreThrows(c) \/ UnlockThrows(c) \/ EnterThrows(c)
  <2>1. NotForgotten'
    <3>1. call' = [call EXCEPT ![c] = Idle]
      BY <1>2 DEF RestoreThrows, UnlockThrows, EnterThrows, Return
    <3>2. chain' = chain /\ used' = used /\ store' = store /\ adrift' = adrift
      BY <1>2 DEF RestoreThrows, UnlockThrows, EnterThrows, history
    <3>3. \/ /\ call[c].op \in {"restore", "unlock"}
             /\ call[c].at = "readAccount"
          \/ call[c].at = "enter"
      BY <1>2 DEF RestoreThrows, UnlockThrows, EnterThrows, At
    <3> QED
      BY <3>1, <3>2, <3>3, IdleTyped, LeavesOff
  <2>2. CASE UnlockThrows(c)
    BY <2>1, <2>2 DEF UnlockThrows, Shown
  <2>3. CASE RestoreThrows(c) \/ EnterThrows(c)
    <3>1. Keeps(c)
      BY DEF ChainInv, NotForgotten
    <3>2. /\ state'.token = call[c].token /\ call[c].token = Stored
          /\ state'.account = store.account
      BY <2>3, <3>1 DEF RestoreThrows, EnterThrows, At, Keeps
    <3>3. Stored' = Stored /\ store' = store
      BY <2>3 DEF RestoreThrows, EnterThrows, Stored
    <3> QED
      BY <2>1, <3>2, <3>3 DEF Shown
  <2> QED
    BY <1>2, <2>2, <2>3
<1> QED
  BY <1>1, <1>2 DEF Throws

\* Every step keeps what is not forgotten, one method at a time.
LEMMA FaultsStepChains ==
    ChainInv /\ OneAtATime /\ [FaultsNext]_faultVars => ChainInv'
<1> SUFFICES ASSUME ChainInv, OneAtATime, [FaultsNext]_faultVars
             PROVE  ChainInv'
  OBVIOUS
<1>1. CASE Alive \/ Kill
  BY <1>1, StepChains DEF Next
<1>2. CASE \E c \in Calls : Throws(c)
  BY <1>2, ThrowsTyped, ThrowsChains DEF ChainInv
<1>3. CASE \E c \in Calls : StorageFails(c)
  <2> PICK c \in Calls : StorageFails(c)
    BY <1>3
  <2>1. Alone(c)
    BY DEF OneAtATime, Alone, StorageFails, StorageAwaits
  <2> QED
    BY <2>1, StorageFailsTyped, StorageFailsChains DEF ChainInv
<1>4. CASE Dispose
  <2>1. NotForgotten'
    BY <1>4, UntouchedChains DEF Dispose, history
  <2> QED
    BY <1>4, <2>1, DisposeTyped DEF ChainInv
<1>5. CASE UNCHANGED faultVars
  BY <1>5, StepChains DEF faultVars
<1> QED
  BY <1>1, <1>2, <1>3, <1>4, <1>5 DEF FaultsNext, Silent

\* Even if the storage throws or the service is disposed of, while methods do not
\* overlap a chain the server keeps open is in the storage or on its way there,
\* unless it was lost on the way.
THEOREM NothingForgottenByFaults ==
    FaultsSpec /\ []OneAtATime => []ForgottenIsClosed
<1>1. ChainInv => ForgottenIsClosed
  BY DEF ChainInv, NotForgotten, ForgottenIsClosed, Kept, Holds, Ends,
         HeldChains, ChainsOf
<1> QED
  BY <1>1, InitChains, FaultsStepChains, PTL DEF FaultsSpec, FaultsInit

\* Only a storage that throws leaves the app showing what is not stored, and only
\* until a method sets the next state.
LEMMA FaultsStepShown ==
    ChainInv /\ (broken \/ Shown) /\ [FaultsNext]_faultVars
        => (broken \/ Shown)'
<1> SUFFICES ASSUME ChainInv, broken \/ Shown, [FaultsNext]_faultVars
             PROVE  (broken \/ Shown)'
  OBVIOUS
<1>1. CASE Alive /\ broken' = (broken /\ state' = state)
  <2>1. CASE broken'
    BY <2>1
  <2>2. CASE ~broken'
    BY <1>1, <2>2, StepShown DEF Next
  <2> QED
    BY <2>1, <2>2
<1>2. CASE \E c \in Calls : Throws(c)
  BY <1>2, ThrowsChains
<1>3. CASE Kill
  BY <1>3 DEF Kill, Signed, Shown
<1>4. CASE \E c \in Calls : StorageFails(c)
  BY <1>4 DEF StorageFails
<1>5. CASE Dispose \/ UNCHANGED faultVars
  <2>1. /\ state' = state /\ store' = store /\ call' = call
        /\ broken' = broken
    BY <1>5 DEF Dispose, faultVars, vars, client
  <2> QED
    BY <2>1 DEF Shown, Stored
<1> QED
  BY <1>1, <1>2, <1>3, <1>4, <1>5 DEF FaultsNext, Silent

\* At rest, an authenticated app shows what is stored, unless the storage has
\* thrown and no state been set since: also after an earlier method was cut, the
\* next one to sign in saves both halves first.
THEOREM StoredAfterFaults ==
    FaultsSpec /\ []OneAtATime => []StoredUnlessBroken
<1>1. broken \/ Shown => StoredUnlessBroken
  BY ShownAtRest DEF StoredUnlessBroken
<1>2. ChainInv /\ (broken \/ Shown) /\ OneAtATime /\ [FaultsNext]_faultVars
         => ChainInv' /\ (broken \/ Shown)'
  BY FaultsStepChains, FaultsStepShown
<1>3. FaultsInit => ChainInv /\ (broken \/ Shown)
  BY InitChains, InitShown DEF FaultsInit
<1> QED
  BY <1>1, <1>2, <1>3, PTL DEF FaultsSpec

----------------------------------------------------------------------------
(***************************************************************************)
(* One method at a time: the account that is shown after a storage that    *)
(* threw.  The app may go on showing a token that is no longer stored, but *)
(* that one is spent, or nothing is stored to be exchanged in its stead.   *)
(***************************************************************************)

\* A method moves that has not written to the storage.
LEMMA MatchesSame ==
    ASSUME Matches, NEW c \in Calls, call[c].at \notin Ahead,
           \A d \in Calls : d # c => call'[d] = call[d],
           store' = store,
           \/ state'.kind # "authenticated"
           \/ /\ state' = state
              /\ Spent(state.token.refresh) => Spent(state.token.refresh)'
    PROVE  Matches'
<1>1. (\A d \in Calls : call[d].at \notin Ahead)'
         => \A d \in Calls : call[d].at \notin Ahead
  OBVIOUS
<1>2. Stored' = Stored
  BY DEF Stored
<1> QED
  BY <1>1, <1>2 DEF Matches

\* Chains that are closed bring no token back.
LEMMA ClosedSpent ==
    ASSUME Closes, NEW t, Spent(t)
    PROVE  Spent(t)'
BY DEF Closes, Spent, Seen, Dead, Ends

\* The steps of AuthService.
LEMMA StepMatches ==
    ChainInv /\ Matches /\ Own /\ Own' /\ [Next]_vars => Matches'
<1> SUFFICES ASSUME ChainInv, Matches, Own, Own', [Next]_vars PROVE Matches'
  OBVIOUS
<1> USE DEF At, Go, Return, Begin, history, client
<1>1. call \in [Calls -> Call] /\ \A c \in Calls : call[c] \in Call
  BY DEF ChainInv, TypeInv, TypeOK
<1>2. ASSUME chain' = chain, used' = used, state' = state
      PROVE  Spent(state.token.refresh) => Spent(state.token.refresh)'
  BY <1>2 DEF Spent, Seen, Dead, Ends
<1>3. ASSUME NEW c \in Calls,
             \/ RefreshRead(c) \/ LogoutRead(c) \/ RestoreRead(c)
             \/ RestoreNothing(c) \/ RestoreExpired(c) \/ UnlockRead(c)
             \/ ServeOtp(c) \/ ServeRefusal(c) \/ RequestLost(c)
             \/ ResponseLost(c) \/ LoginFails(c)
             \/ Granted(c) \/ RefreshFails(c) \/ LogoutAnswered(c)
      PROVE  Matches'
  <2>1. /\ call[c].at \notin Ahead /\ store' = store
        /\ chain' = chain /\ used' = used
    BY <1>3
       DEF RefreshRead, LogoutRead, RestoreRead, RestoreNothing,
           RestoreExpired, UnlockRead, ServeOtp, ServeRefusal, RequestLost,
           ResponseLost, LoginFails, Granted, RefreshFails, LogoutAnswered,
           Ahead
  <2>2. state' = state \/ state'.kind # "authenticated"
    BY <1>3
       DEF RefreshRead, LogoutRead, RestoreRead, RestoreNothing,
           RestoreExpired, UnlockRead, ServeOtp, ServeRefusal, RequestLost,
           ResponseLost, LoginFails, Granted, RefreshFails, LogoutAnswered,
           Signed
  <2>3. \A d \in Calls : d # c => call'[d] = call[d]
    BY <1>1, <1>3
       DEF RefreshRead, LogoutRead, RestoreRead, RestoreNothing,
           RestoreExpired, UnlockRead, ServeOtp, ServeRefusal, RequestLost,
           ResponseLost, LoginFails, Granted, RefreshFails, LogoutAnswered,
           Answer
  <2> QED
    BY <1>2, <2>1, <2>2, <2>3, MatchesSame
<1>4. ASSUME NEW c \in Calls,
             \/ \E a \in Accounts, op \in {"login", "otp"} : Login(c, op, a)
             \/ Refresh(c) \/ TimerFires(c) \/ RestoreSession(c)
             \/ UnlockWithPin(c) \/ Logout(c)
      PROVE  Matches'
  <2>1. /\ call[c].at \notin Ahead /\ store' = store
        /\ chain' = chain /\ used' = used
        /\ state' = state \/ state'.kind # "authenticated"
        /\ \A d \in Calls : d # c => call'[d] = call[d]
    BY <1>1, <1>4
       DEF Login, Refresh, TimerFires, RestoreSession, UnlockWithPin, Logout,
           Ahead, Signed
  <2> QED
    BY <1>2, <2>1, MatchesSame
<1>5. ASSUME NEW c \in Calls,
             \/ SaveToken(c) \/ SaveAccount(c) \/ ClearToken(c) \/ ClearAll(c)
             \/ Leave(c) \/ Exit(c)
      PROVE  Matches'
  <2>1. CASE Leave(c) \/ Exit(c)
    BY <2>1 DEF Leave, Exit, Signed, Matches
  <2>2. CASE SaveToken(c) \/ SaveAccount(c) \/ ClearToken(c) \/ ClearAll(c)
    <3>1. call'[c].at \in Ahead
      BY <1>1, <2>2
         DEF SaveToken, SaveAccount, ClearToken, ClearAll, Ahead, Call
    <3> QED
      BY <3>1 DEF Matches
  <2> QED
    BY <1>5, <2>1, <2>2
<1>6. ASSUME NEW c \in Calls, RestoreValid(c) \/ Enter(c) PROVE Matches'
  <2>1. /\ state'.token = call[c].token /\ call[c].token = Stored
        /\ store' = store
    BY <1>6 DEF RestoreValid, Enter, Keeps, ChainInv, NotForgotten
  <2> QED
    BY <2>1 DEF Matches, Stored
<1>7. ASSUME NEW c \in Calls, NEW f \in Tokens, NEW u \in Tokens,
             ServeLogin(c, f) \/ ServeRefresh(c, f, u)
      PROVE  Matches'
  <2>1. CASE ServeLogin(c, f)
    BY <2>1 DEF ServeLogin, Own, Owns, Matches
  <2>2. CASE ServeRefresh(c, f, u)
    <3>1. /\ call'[c].op = "refresh" /\ call'[c].at = "answered"
          /\ call'[c].reply = "ok"
      BY <1>1, <2>2 DEF ServeRefresh, Answer
    <3> QED
      BY <3>1 DEF Own, Owns, Won, Matches
  <2> QED
    BY <1>7, <2>1, <2>2
<1>8. ASSUME NEW c \in Calls, ServeLogout(c) PROVE Matches'
  <2>1. Closes
    BY <1>8 DEF ServeLogout, HeldChains, ChainsOf, Server!Close, Closes,
                ChainInv, TypeInv, TypeOK, Server!TypeOK
  <2>2. /\ call[c].at \notin Ahead /\ store' = store /\ state' = state
        /\ \A d \in Calls : d # c => call'[d] = call[d]
    BY <1>1, <1>8 DEF ServeLogout, Ahead
  <2> QED
    BY <2>1, <2>2, ClosedSpent, MatchesSame
<1>9. CASE ServerCloses
  <2>1. Closes
    BY <1>9 DEF ServerCloses, Server!Close, Server!CloseAll, Closes,
                ChainInv, TypeInv, TypeOK, Server!TypeOK
  <2>2. state' = state /\ store' = store /\ call' = call
    BY <1>9 DEF ServerCloses
  <2> QED
    BY <2>1, <2>2, ClosedSpent DEF Matches, Stored
<1>10. CASE Kill
  BY <1>10 DEF Kill, Signed, Matches
<1>11. CASE UNCHANGED vars
  BY <1>2, <1>11 DEF vars, Matches, Stored
<1> QED
  BY <1>3, <1>4, <1>5, <1>6, <1>7, <1>8, <1>9, <1>10, <1>11
     DEF Next, Alive, Step

\* A storage operation that throws: what is shown is still stored, or spent, or one
\* of its halves is gone.
LEMMA StorageFailsOwn ==
    ASSUME ChainInv, Matches, Own, NEW c \in Calls, Alone(c), StorageFails(c)
    PROVE  Own' /\ Matches'
<1>1. /\ chain' = chain /\ used' = used /\ state' = state /\ Cut(c)
      /\ torn' = (torn \/ call[c].at \in {"saveToken", "saveAccount"})
      /\ call[c].at \in StorageAwaits
      /\ TypeInv /\ Owns(c)
  BY DEF StorageFails, Cut, ChainInv, Own
<1>2. call'[c] = Idle /\ \A d \in Calls : d # c => call'[d] = call[d]
  BY DEF StorageFails, Return, ChainInv, TypeInv, TypeOK
<1>3. Own'
  <2>1. Owns(c)'
    BY <1>2, IdleTyped DEF Owns, Won
  <2>2. StoreOwn'
    BY <1>1, CutOwn DEF Alone
  <2>3. StateOwn'
    BY <1>1 DEF Own, StateOwn, Ends
  <2> QED
    BY <1>1, <1>2, <2>1, <2>2, <2>3, OneOwns DEF Own
<1>4. Matches'
  <2> SUFFICES ASSUME state.kind = "authenticated"
               PROVE  \/ state.token.refresh = store'.refresh
                      \/ Stored' = None
                      \/ Spent(state.token.refresh)'
    BY <1>1 DEF Matches
  <2>1. Spent(state.token.refresh) => Spent(state.token.refresh)'
    BY <1>1 DEF Spent, Seen, Dead, Ends
  <2>2. CASE call[c].at \in {"saveToken", "saveAccount"}
    BY <1>1, <2>1, <2>2 DEF Owns, Won
  <2>3. CASE call[c].at \notin {"saveToken", "saveAccount"}
    <3>1. \A d \in Calls : call[d].at \notin Ahead
      BY <1>1, <2>3 DEF Alone, Ahead, StorageAwaits
    <3>2. /\ Target(c).refresh \in {store.refresh, None}
          /\ Target(c).access \in {store.access, None}
      BY <1>1, <2>3 DEF Target, TypeInv, TypeOK
    <3>3. /\ store'.refresh \in {store.refresh, None}
          /\ store'.access \in {store.access, None}
      BY <1>1, <3>2 DEF Cut
    <3>4. \/ Stored' = None
          \/ store'.refresh = store.refresh /\ Stored # None
      BY <3>3 DEF Stored
    <3> QED
      BY <2>1, <3>1, <3>4 DEF Matches
  <2> QED
    BY <2>2, <2>3
<1> QED
  BY <1>3, <1>4

\* A method that a closed controller ends.
LEMMA ThrowsOwn ==
    ASSUME ChainInv, Own, NEW c \in Calls, OneAtATime, Throws(c)
    PROVE  Own' /\ Matches'
<1>1. Matches'
  <2>1. Shown'
    BY ThrowsChains
  <2> QED
    BY <2>1 DEF Shown, Matches, Stored
<1>2. CASE LoginThrows(c)
  <2>1. /\ state'.kind = "authenticating" /\ chain' = chain /\ used' = used
        /\ store' = store /\ call' = call /\ torn' = torn
    BY <1>2 DEF LoginThrows, Signed
  <2> QED
    BY <1>1, <2>1 DEF Own, Owns, Won, Holds, Ends, StoreOwn, StateOwn
<1>3. CASE RestoreThrows(c) \/ UnlockThrows(c) \/ EnterThrows(c)
  <2>1. Alone(c)
    BY <1>3 DEF RestoreThrows, UnlockThrows, EnterThrows, At, OneAtATime, Alone
  <2>2. /\ chain' = chain /\ store' = store /\ torn' = torn
        /\ call[c].at # "saveAccount"
        /\ call' = [call EXCEPT ![c] = Idle]
    BY <1>3 DEF RestoreThrows, UnlockThrows, EnterThrows, At, Return, history
  <2>3. \/ state'.kind # "authenticated"
        \/ /\ At(c, "restore", "readAccount")
           /\ call[c].token # None /\ store.account # None
           /\ state'.token = call[c].token /\ state'.account = store.account
        \/ /\ call[c].at = "enter"
           /\ state'.token = call[c].token /\ state'.account = call[c].acct
    BY <1>3 DEF RestoreThrows, UnlockThrows, EnterThrows
  <2> QED
    BY <1>1, <2>1, <2>2, <2>3, LeavesOwn
<1> QED
  BY <1>2, <1>3 DEF Throws

\* Every step keeps each token with its account, one method at a time.
LEMMA FaultsStepOwn ==
    ChainInv /\ Matches /\ Own /\ OneAtATime /\ [FaultsNext]_faultVars
        => Own' /\ Matches'
<1> SUFFICES ASSUME ChainInv, Matches, Own, OneAtATime,
                    [FaultsNext]_faultVars
             PROVE  Own' /\ Matches'
  OBVIOUS
<1>1. CASE Alive \/ Kill
  BY <1>1, StepOwn, StepMatches DEF Next
<1>2. CASE \E c \in Calls : Throws(c)
  BY <1>2, ThrowsOwn
<1>3. CASE \E c \in Calls : StorageFails(c)
  <2> PICK c \in Calls : StorageFails(c)
    BY <1>3
  <2>1. Alone(c)
    BY DEF OneAtATime, Alone, StorageFails, StorageAwaits
  <2> QED
    BY <2>1, StorageFailsOwn
<1>4. CASE Dispose
  <2>1. /\ state' = state /\ store' = store /\ call' = call
        /\ chain' = chain /\ used' = used /\ torn' = torn
    BY <1>4 DEF Dispose, history
  <2> QED
    BY <2>1 DEF Own, Owns, Won, Holds, StoreOwn, StateOwn, Matches, Stored,
                Spent, Seen, Dead, Ends
<1>5. CASE UNCHANGED faultVars
  BY <1>5, StepOwn, StepMatches DEF faultVars
<1> QED
  BY <1>1, <1>2, <1>3, <1>4, <1>5 DEF FaultsNext, Silent

\* Even if the storage throws or the service is disposed of, while methods do not
\* overlap an authenticated app shows the account the server opened its chain for,
\* unless a save was cut between the token and the account.
THEOREM OwnIdentityAfterFaults ==
    FaultsSpec /\ []OneAtATime => []OwnIdentity
<1>1. FaultsInit => ChainInv /\ Matches /\ Own
  BY InitChains, InitOwn, InitShown, ShownMatches DEF FaultsInit
<1>2. ChainInv /\ Matches /\ Own /\ OneAtATime /\ [FaultsNext]_faultVars
         => (ChainInv /\ Matches /\ Own)'
  BY FaultsStepChains, FaultsStepOwn
<1> QED
  BY <1>1, <1>2, OwnShown, PTL DEF FaultsSpec

=============================================================================
