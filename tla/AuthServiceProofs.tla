------------------------- MODULE AuthServiceProofs -------------------------
(***************************************************************************)
(* Proofs about AuthService: its type invariant, and that no state of the  *)
(* app is a dead end, for any number of methods running at a time; and,    *)
(* as long as methods do not overlap, that the server holds no session the *)
(* device has forgotten, that the app shows what is stored, and that it    *)
(* shows it for the account the session is for.                            *)
(***************************************************************************)
EXTENDS AuthService, TLAPS

\* What a method knows at its awaits: a login carries an account until it is
\* answered, and what is being saved is a pair and an account.
CallInv(c) ==
    /\ call[c].at = "idle" => call[c].op = "none"
    /\ call[c].op \in {"login", "otp"} /\ call[c].at = "sent"
          => call[c].acct \in Accounts
    /\ call[c].at = "answered" /\ call[c].reply = "ok"
          /\ call[c].op # "logout" /\ call[c].token # None
          => call[c].acct \in Accounts
    /\ call[c].at \in {"saveToken", "saveAccount", "enter"}
          => call[c].acct \in Accounts /\ call[c].token \in Pair

TypeInv == TypeOK /\ \A c \in Calls : CallInv(c)

\* The initial state is well typed.
LEMMA InitTyped == Init => TypeInv
<1> SUFFICES ASSUME Init PROVE TypeInv
  OBVIOUS
<1> USE DEF Init, Server!Init
<1>1. Server!TypeOK
  BY DEF Server!TypeOK
<1>2. state \in State
  BY DEF State, Signed
<1>3. call \in [Calls -> Call]
  BY DEF Call, Idle
<1>4. \A c \in Calls : CallInv(c)
  BY DEF CallInv, Idle
<1> QED
  BY <1>1, <1>2, <1>3, <1>4 DEF TypeInv, TypeOK

\* A typed record put in the place of one method's keeps the type of call, and
\* what is known of the other methods.
LEMMA CallUpdate ==
    ASSUME call \in [Calls -> Call], \A d \in Calls : CallInv(d),
           NEW c \in Calls, NEW v \in Call,
           call' = [call EXCEPT ![c] = v],
           /\ v.at = "idle" => v.op = "none"
           /\ v.op \in {"login", "otp"} /\ v.at = "sent"
                 => v.acct \in Accounts
           /\ v.at = "answered" /\ v.reply = "ok"
                 /\ v.op # "logout" /\ v.token # None
                 => v.acct \in Accounts
           /\ v.at \in {"saveToken", "saveAccount", "enter"}
                 => v.acct \in Accounts /\ v.token \in Pair
    PROVE  call' \in [Calls -> Call] /\ \A d \in Calls : CallInv(d)'
<1>1. call' \in [Calls -> Call]
  OBVIOUS
<1>2. ASSUME NEW d \in Calls PROVE CallInv(d)'
  <2>1. CASE d = c
    <3>1. call'[d] = v
      BY <2>1
    <3> QED
      BY <3>1 DEF CallInv
  <2>2. CASE d # c
    <3>1. call'[d] = call[d]
      BY <2>2
    <3> QED
      BY <3>1 DEF CallInv
  <2> QED
    BY <2>1, <2>2
<1> QED
  BY <1>1, <1>2

Store == [access : Names \cup {None}, refresh : Names \cup {None},
          account : Accounts \cup {None}]

\* What the helpers return: a pair or nothing, a storage, sets of chains.
LEMMA Helpers ==
    ASSUME TypeInv, NEW c \in Calls
    PROVE  /\ Stored \in Pair \cup {None}
           /\ Target(c) \in Store
           /\ HeldChains(c) \subseteq Tokens
           /\ \A t : ChainsOf(t) \subseteq Tokens
<1> USE DEF TypeInv, TypeOK, Pair
<1>1. Stored \in Pair \cup {None}
  BY DEF Stored
<1>2. Target(c) \in Store
  BY DEF Target, Store, Call, CallInv
<1>3. \A t : ChainsOf(t) \subseteq Tokens
  BY DEF ChainsOf
<1>4. HeldChains(c) \subseteq Tokens
  BY <1>3 DEF HeldChains
<1> QED
  BY <1>1, <1>2, <1>3, <1>4

\* Each operation of the server keeps the type of its state.
LEMMA ServerTyped ==
    ASSUME Server!TypeOK, NEW f \in Tokens, NEW u \in Tokens,
           NEW a \in Accounts,
           \/ Server!Open(f, a) \/ Server!Exchange(f, u)
           \/ Server!Close(f) \/ Server!CloseAll
    PROVE  Server!TypeOK'
<1> USE DEF Server!TypeOK, Server!End
<1>1. CASE Server!Open(f, a)
  BY <1>1 DEF Server!Open
<1>2. CASE Server!Exchange(f, u)
  BY <1>2, NamesAssumption DEF Server!Exchange
<1>3. CASE Server!Close(f)
  BY <1>3 DEF Server!Close
<1>4. CASE Server!CloseAll
  BY <1>4 DEF Server!CloseAll
<1> QED
  BY <1>1, <1>2, <1>3, <1>4

\* The methods begin well typed.
LEMMA BeginsTyped ==
    ASSUME TypeInv, NEW c \in Calls,
           \/ Refresh(c) \/ TimerFires(c) \/ RestoreSession(c)
           \/ UnlockWithPin(c) \/ Logout(c)
    PROVE  TypeInv'
<1> USE DEF TypeInv, TypeOK, Server!TypeOK, CallInv, Call, Idle, client,
           history
<1>1. CASE Refresh(c)
  BY <1>1 DEF Refresh, Begin
<1>2. CASE TimerFires(c)
  BY <1>2 DEF TimerFires, Begin
<1>3. CASE RestoreSession(c)
  BY <1>3 DEF RestoreSession, Begin
<1>4. CASE UnlockWithPin(c)
  BY <1>4 DEF UnlockWithPin, Begin
<1>5. CASE Logout(c)
  BY <1>5 DEF Logout, Begin
<1> QED
  BY <1>1, <1>2, <1>3, <1>4, <1>5

\* What is read from the storage is well typed.
LEMMA ReadsTyped ==
    ASSUME TypeInv, NEW c \in Calls,
           \/ RefreshRead(c) \/ LogoutRead(c) \/ RestoreRead(c)
           \/ RestoreNothing(c) \/ RestoreValid(c) \/ RestoreExpired(c)
           \/ UnlockRead(c)
    PROVE  TypeInv'
<1> USE DEF TypeInv, TypeOK, Server!TypeOK, CallInv, Call, Idle, client,
           history
<1>1. CASE RefreshRead(c)
  BY <1>1, Helpers DEF RefreshRead, At, Return, State, Signed
<1>2. CASE LogoutRead(c)
  BY <1>2, Helpers DEF LogoutRead, At, Go
<1>3. CASE RestoreRead(c)
  <2> DEFINE v == [call[c] EXCEPT !.at = "readAccount", !.token = Stored]
  <2>1. v \in Call /\ call' = [call EXCEPT ![c] = v]
    BY <1>3, Helpers DEF RestoreRead
  <2>2. v.at = "readAccount"
    OBVIOUS
  <2> HIDE DEF v
  <2>3. call' \in [Calls -> Call] /\ \A d \in Calls : CallInv(d)'
    BY <2>1, <2>2, CallUpdate
  <2> QED
    BY <1>3, <2>3 DEF RestoreRead
<1>4. CASE RestoreNothing(c)
  BY <1>4 DEF RestoreNothing, At, Return, State, Signed
<1>5. CASE RestoreValid(c)
  BY <1>5 DEF RestoreValid, At, Return, State
<1>6. CASE RestoreExpired(c)
  BY <1>6 DEF RestoreExpired, At
<1>7. CASE UnlockRead(c)
  <2>1. CASE store.account = None
    BY <1>7, <2>1 DEF UnlockRead, At, Return
  <2>2. CASE store.account # None
    <3>1. state' \in State
      BY <1>7, <2>2 DEF UnlockRead, State
    <3> DEFINE v == [Idle EXCEPT !.op = "refresh", !.at = "readToken"]
    <3>2. v \in Call /\ call' = [call EXCEPT ![c] = v]
      BY <1>7, <2>2 DEF UnlockRead
    <3>3. v.at = "readToken" /\ v.op = "refresh"
      OBVIOUS
    <3> HIDE DEF v
    <3>4. call' \in [Calls -> Call] /\ \A d \in Calls : CallInv(d)'
      BY <3>2, <3>3, CallUpdate
    <3> QED
      BY <1>7, <3>1, <3>4 DEF UnlockRead
  <2> QED
    BY <2>1, <2>2
<1> QED
  BY <1>1, <1>2, <1>3, <1>4, <1>5, <1>6, <1>7

\* What the client does with an answer is well typed.
LEMMA AnswersTyped ==
    ASSUME TypeInv, NEW c \in Calls,
           \/ LoginFails(c) \/ Granted(c) \/ RefreshFails(c)
           \/ LogoutAnswered(c) \/ SaveToken(c) \/ SaveAccount(c)
           \/ Enter(c) \/ ClearToken(c) \/ Leave(c) \/ ClearAll(c)
           \/ Exit(c)
    PROVE  TypeInv'
<1> USE DEF TypeInv, TypeOK, Server!TypeOK, CallInv, Call, Idle, client,
           history
<1>1. CASE LoginFails(c)
  BY <1>1 DEF LoginFails, Return, State, Signed
<1>2. CASE Granted(c)
  BY <1>2 DEF Granted, Go
<1>3. CASE RefreshFails(c)
  BY <1>3 DEF RefreshFails, Go, At
<1>4. CASE LogoutAnswered(c)
  BY <1>4 DEF LogoutAnswered, Go, At
<1>5. CASE SaveToken(c)
  BY <1>5, Helpers DEF SaveToken, Go, Store
<1>6. CASE SaveAccount(c)
  <2>1. /\ call' \in [Calls -> Call]
        /\ \A d \in Calls : CallInv(d)'
    BY <1>6 DEF SaveAccount, Go
  <2>2. store' \in Store
    BY <1>6, Helpers DEF SaveAccount
  <2> QED
    BY <1>6, <2>1, <2>2 DEF SaveAccount, Store
<1>7. CASE Enter(c)
  BY <1>7 DEF Enter, Return, State
<1>8. CASE ClearToken(c)
  BY <1>8, Helpers DEF ClearToken, Go, Store
<1>9. CASE Leave(c)
  BY <1>9 DEF Leave, Return, State, Signed
<1>10. CASE ClearAll(c)
  BY <1>10, Helpers DEF ClearAll, Go, Store
<1>11. CASE Exit(c)
  BY <1>11 DEF Exit, Return, State, Signed
<1> QED
  BY <1>1, <1>2, <1>3, <1>4, <1>5, <1>6, <1>7, <1>8, <1>9, <1>10, <1>11

\* Answers that do not change the server are well typed.
LEMMA RepliesTyped ==
    ASSUME TypeInv, NEW c \in Calls,
           \/ ServeOtp(c) \/ ServeRefusal(c) \/ RequestLost(c)
           \/ ResponseLost(c)
    PROVE  TypeInv'
<1> USE DEF TypeInv, TypeOK, Server!TypeOK, CallInv, Call, Idle, client,
           history
<1>1. CASE ServeOtp(c)
  BY <1>1 DEF ServeOtp, At, Answer, PairOf, Pair, Names
<1>2. CASE ServeRefusal(c)
  <2> DEFINE v == [call[c] EXCEPT !.at = "answered", !.reply = "refused"]
  <2>1. v \in Call /\ call' = [call EXCEPT ![c] = v]
    BY <1>2 DEF ServeRefusal
  <2>2. v.at = "answered" /\ v.reply = "refused"
    OBVIOUS
  <2> HIDE DEF v
  <2>3. call' \in [Calls -> Call] /\ \A d \in Calls : CallInv(d)'
    BY <2>1, <2>2, CallUpdate
  <2> QED
    BY <1>2, <2>3 DEF ServeRefusal
<1>3. CASE RequestLost(c)
  <2> DEFINE v == [call[c] EXCEPT !.at = "answered", !.reply = "lost"]
  <2>1. v \in Call /\ call' = [call EXCEPT ![c] = v]
    BY <1>3 DEF RequestLost
  <2>2. v.at = "answered" /\ v.reply = "lost"
    OBVIOUS
  <2> HIDE DEF v
  <2>3. call' \in [Calls -> Call] /\ \A d \in Calls : CallInv(d)'
    BY <2>1, <2>2, CallUpdate
  <2>4. adrift' \subseteq Tokens
    BY <1>3, Helpers DEF RequestLost
  <2> QED
    BY <1>3, <2>3, <2>4 DEF RequestLost
<1>4. CASE ResponseLost(c)
  BY <1>4, Helpers DEF ResponseLost, At
<1> QED
  BY <1>1, <1>2, <1>3, <1>4

\* Logins begin for an account.
LEMMA LoginTyped ==
    ASSUME TypeInv, NEW c \in Calls, NEW a \in Accounts,
           NEW op \in {"login", "otp"}, Login(c, op, a)
    PROVE  TypeInv'
<1> USE DEF TypeInv, TypeOK, Server!TypeOK, CallInv, Call, Idle
<1> QED
  BY DEF Login, State, Signed

\* What the server opens and exchanges is well typed, and so is its answer.
LEMMA ServesTyped ==
    ASSUME TypeInv, NEW c \in Calls, NEW f \in Tokens, NEW u \in Tokens,
           \/ ServeLogin(c, f) \/ ServeRefresh(c, f, u)
    PROVE  TypeInv'
<1> USE DEF TypeInv, TypeOK, CallInv
<1>1. CASE ServeLogin(c, f)
  <2> DEFINE v == [op |-> call[c].op, at |-> "answered",
                   acct |-> call[c].acct, token |-> PairOf(f), reply |-> "ok"]
  <2>1. call[c].acct \in Accounts
    BY <1>1 DEF ServeLogin, At
  <2>2. v \in Call /\ call' = [call EXCEPT ![c] = v]
    BY <1>1, <2>1 DEF ServeLogin, Answer, Call, PairOf, Pair, Names
  <2>3. v.at = "answered" /\ v.acct \in Accounts
    BY <2>1 DEF Call
  <2> HIDE DEF v
  <2>4. call' \in [Calls -> Call] /\ \A d \in Calls : CallInv(d)'
    BY <2>2, <2>3, CallUpdate
  <2>5. Server!TypeOK'
    BY <1>1, <2>1, ServerTyped DEF ServeLogin
  <2> QED
    BY <1>1, <2>4, <2>5 DEF ServeLogin, history
<1>2. CASE ServeRefresh(c, f, u)
  <2> DEFINE v == [op |-> call[c].op, at |-> "answered",
                   acct |-> chain[f].account, token |-> PairOf(u),
                   reply |-> "ok"]
  <2>1. chain[f].account \in Accounts
    BY <1>2, Helpers DEF ServeRefresh, HeldChains, ChainsOf, Server!TypeOK,
                         Server!End
  <2>2. v \in Call /\ call' = [call EXCEPT ![c] = v]
    <3>1. PairOf(u) \in Pair
      BY DEF PairOf, Pair, Names
    <3>2. v \in Call
      BY <2>1, <3>1 DEF Call
    <3> QED
      BY <1>2, <3>2 DEF ServeRefresh, Answer
  <2>3. v.at = "answered" /\ v.acct \in Accounts
    BY <2>1 DEF Call
  <2> HIDE DEF v
  <2>4. call' \in [Calls -> Call] /\ \A d \in Calls : CallInv(d)'
    BY <2>2, <2>3, CallUpdate
  <2>5. Server!TypeOK'
    BY <1>2, <2>1, ServerTyped DEF ServeRefresh
  <2> QED
    BY <1>2, <2>4, <2>5 DEF ServeRefresh, history
<1> QED
  BY <1>1, <1>2

\* A logout closes the chain of its token, if it is the open end of one.
LEMMA LogoutTyped ==
    ASSUME TypeInv, NEW c \in Calls, ServeLogout(c)
    PROVE  TypeInv'
<1> USE DEF TypeInv, TypeOK, CallInv
<1> DEFINE v == [call[c] EXCEPT !.at = "answered", !.reply = "ok"]
<1>1. v \in Call /\ call' = [call EXCEPT ![c] = v]
  BY DEF ServeLogout, Call
<1>2. v.at = "answered" /\ v.op = "logout"
  BY DEF ServeLogout, At, Call
<1> HIDE DEF v
<1>3. call' \in [Calls -> Call] /\ \A d \in Calls : CallInv(d)'
  BY <1>1, <1>2, CallUpdate
<1>4. Server!TypeOK'
  <2>1. CASE HeldChains(c) = {}
    BY <2>1 DEF ServeLogout, Server!TypeOK
  <2>2. CASE HeldChains(c) # {}
    <3>1. PICK g \in HeldChains(c) : Server!Close(g)
      BY <2>2 DEF ServeLogout
    <3>2. g \in Tokens
      BY <3>1, Helpers
    <3> QED
      BY <3>1, <3>2 DEF Server!Close, Server!TypeOK
  <2> QED
    BY <2>1, <2>2
<1> QED
  BY <1>3, <1>4 DEF ServeLogout, history

\* The server on its own, and the death of the app.
LEMMA ServerClosesTyped == ASSUME TypeInv, ServerCloses PROVE TypeInv'
<1> USE DEF TypeInv, TypeOK, CallInv
<1>1. Server!TypeOK'
  BY DEF ServerCloses, Server!Close, Server!CloseAll, Server!TypeOK
<1> QED
  BY <1>1 DEF ServerCloses, client, history

\* A kill leaves a typed storage, whatever part of a write was done.
LEMMA KillTyped == ASSUME TypeInv, Kill PROVE TypeInv'
<1> USE DEF TypeInv, TypeOK, CallInv
<1>1. store' \in Store
  <2>1. PICK c \in Calls :
           store' \in [access : {store.access, Target(c).access},
                       refresh : {store.refresh, Target(c).refresh},
                       account : {store.account, Target(c).account}]
    BY DEF Kill
  <2>2. Target(c) \in Store
    BY Helpers
  <2> QED
    BY <2>1, <2>2 DEF Store
<1>2. adrift' \subseteq Tokens
  <2>1. UNION {HeldChains(c) : c \in Calls} \subseteq Tokens
    BY Helpers
  <2>2. ChainsOf(store.refresh) \subseteq Tokens
    BY DEF ChainsOf
  <2> QED
    BY <2>1, <2>2 DEF Kill
<1>3. call' \in [Calls -> Call] /\ \A c \in Calls : CallInv(c)'
  BY DEF Kill, Call, Idle
<1>4. state' \in State
  BY DEF Kill, State, Signed
<1>5. Server!TypeOK' /\ timer' \in BOOLEAN /\ torn' \in BOOLEAN
      /\ purged' \in BOOLEAN
  BY DEF Kill, Server!TypeOK
<1> QED
  BY <1>1, <1>2, <1>3, <1>4, <1>5 DEF Store

\* Every step keeps the invariant.
LEMMA StepTyped == TypeInv /\ [Next]_vars => TypeInv'
<1> SUFFICES ASSUME TypeInv, [Next]_vars PROVE TypeInv'
  OBVIOUS
<1>1. ASSUME NEW c \in Calls, Step(c) \/ ResponseLost(c) PROVE TypeInv'
  <2>1. CASE \/ RefreshRead(c) \/ LogoutRead(c) \/ RestoreRead(c)
             \/ RestoreNothing(c) \/ RestoreValid(c) \/ RestoreExpired(c)
             \/ UnlockRead(c)
    BY <2>1, ReadsTyped
  <2>2. CASE \/ LoginFails(c) \/ Granted(c) \/ RefreshFails(c)
             \/ LogoutAnswered(c) \/ SaveToken(c) \/ SaveAccount(c)
             \/ Enter(c) \/ ClearToken(c) \/ Leave(c) \/ ClearAll(c)
             \/ Exit(c)
    BY <2>2, AnswersTyped
  <2>3. CASE \/ ServeOtp(c) \/ ServeRefusal(c) \/ RequestLost(c)
             \/ ResponseLost(c)
    BY <2>3, RepliesTyped
  <2>4. CASE \E f, u \in Tokens :
                \/ ServeLogin(c, f) \/ ServeRefresh(c, f, u)
    BY <2>4, ServesTyped
  <2>5. CASE ServeLogout(c)
    BY <2>5, LogoutTyped
  <2> QED
    BY <1>1, <2>1, <2>2, <2>3, <2>4, <2>5 DEF Step
<1>2. ASSUME NEW c \in Calls, NEW a \in Accounts, NEW op \in {"login", "otp"},
             Login(c, op, a)
      PROVE  TypeInv'
  BY <1>2, LoginTyped
<1>3. ASSUME NEW c \in Calls,
             \/ Refresh(c) \/ TimerFires(c) \/ RestoreSession(c)
             \/ UnlockWithPin(c) \/ Logout(c)
      PROVE  TypeInv'
  BY <1>3, BeginsTyped
<1>4. CASE UNCHANGED vars
  BY <1>4 DEF vars, client, history, TypeInv, TypeOK, Server!TypeOK, CallInv
<1> QED
  BY <1>1, <1>2, <1>3, <1>4, ServerClosesTyped, KillTyped DEF Next,
                               Alive

\* The variables of the client keep their types, for any number of methods
\* running at a time.
THEOREM TypeCorrect == Spec => []TypeOK
<1>1. TypeInv => TypeOK
  BY DEF TypeInv
<1> QED
  BY <1>1, InitTyped, StepTyped, PTL DEF Spec

----------------------------------------------------------------------------
\* Somebody attends to the state before a step, or the step sets it anew.
Attending == StateIsAttended \/ state' # state

\* A step that leaves the state alone, drops none of the methods that could
\* attend to it, and clears the timer only for a refresh or a logout.
LEMMA StillAttended ==
    ASSUME Attending, state' = state,
           \A d \in Calls : call[d].op \in {"login", "otp", "refresh", "logout"}
                               => call'[d].op = call[d].op,
           \/ timer' = timer
           \/ \E d \in Calls : call'[d].op \in {"refresh", "logout"}
    PROVE  StateIsAttended'
<1>1. Running({"login", "otp"}) => Running({"login", "otp"})'
  BY DEF Running
<1>2. Running({"refresh"}) => Running({"refresh"})'
  BY DEF Running
<1>3. timer \/ Running({"refresh", "logout"})
         => timer' \/ Running({"refresh", "logout"})'
  BY DEF Running
<1> QED
  BY <1>1, <1>2, <1>3 DEF StateIsAttended, Attending

\* A step that signs the app out.
LEMMA SignedOut ==
    ASSUME state' = Signed("unauthenticated") PROVE StateIsAttended'
BY DEF Signed, StateIsAttended

\* A step that signs the app in and sets the timer.
LEMMA SignedIn ==
    ASSUME state'.kind = "authenticated", timer' = TRUE
    PROVE  StateIsAttended'
BY DEF StateIsAttended

\* What begins attends, if only to itself.
LEMMA BeginsAttended ==
    ASSUME TypeInv, Attending, NEW c \in Calls,
           \/ Refresh(c) \/ TimerFires(c) \/ RestoreSession(c)
           \/ UnlockWithPin(c) \/ Logout(c)
    PROVE  StateIsAttended'
<1>1. call[c].op = "none" /\ call \in [Calls -> Call]
  BY DEF TypeInv, TypeOK, CallInv, Refresh, TimerFires, RestoreSession,
         UnlockWithPin, Logout, Begin
<1>2. \A d \in Calls : d # c => call'[d] = call[d]
  BY <1>1 DEF Refresh, TimerFires, RestoreSession, UnlockWithPin, Logout,
              Begin
<1>3. \/ timer' = timer
      \/ call'[c].op \in {"refresh", "logout"}
  BY <1>1 DEF Refresh, TimerFires, RestoreSession, UnlockWithPin, Logout,
              Begin, Idle
<1>4. state' = state
  BY DEF Refresh, TimerFires, RestoreSession, UnlockWithPin, Logout
<1> QED
  BY <1>1, <1>2, <1>3, <1>4, StillAttended

\* A step of a method that runs on.
LEMMA RunsOnAttended ==
    ASSUME TypeInv, Attending, NEW c \in Calls,
           \/ LogoutRead(c) \/ RestoreRead(c) \/ Granted(c)
           \/ RefreshFails(c) \/ LogoutAnswered(c) \/ SaveToken(c)
           \/ SaveAccount(c) \/ ClearToken(c) \/ ClearAll(c)
           \/ ServeOtp(c) \/ ServeRefusal(c) \/ RequestLost(c)
           \/ ResponseLost(c) \/ ServeLogout(c)
           \/ \E f, u \in Tokens : ServeLogin(c, f) \/ ServeRefresh(c, f, u)
    PROVE  StateIsAttended'
<1>1. call \in [Calls -> Call]
  BY DEF TypeInv, TypeOK
<1>2. state' = state /\ timer' = timer
  BY DEF LogoutRead, RestoreRead, Granted, RefreshFails, LogoutAnswered,
         SaveToken, SaveAccount, ClearToken, ClearAll, ServeOtp,
         ServeRefusal, RequestLost, ResponseLost, ServeLogout, ServeLogin,
         ServeRefresh
<1>3. \A d \in Calls : call'[d].op = call[d].op
  <2>1. CASE \/ LogoutRead(c) \/ Granted(c) \/ RefreshFails(c)
             \/ LogoutAnswered(c) \/ SaveToken(c) \/ SaveAccount(c)
             \/ ClearToken(c) \/ ClearAll(c)
    BY <1>1, <2>1 DEF Call, LogoutRead, Granted, RefreshFails, LogoutAnswered,
         SaveToken, SaveAccount, ClearToken, ClearAll, Go
  <2>2. CASE RestoreRead(c) \/ ServeRefusal(c) \/ RequestLost(c)
             \/ ResponseLost(c) \/ ServeLogout(c)
    BY <1>1, <2>2 DEF Call, RestoreRead, ServeRefusal, RequestLost,
         ResponseLost, ServeLogout
  <2>3. ASSUME NEW a, NEW t, Answer(c, a, t)
        PROVE  \A d \in Calls : call'[d].op = call[d].op
    BY <1>1, <2>3 DEF Call, Answer
  <2>4. CASE ServeOtp(c)
    BY <2>3, <2>4 DEF ServeOtp
  <2>5. CASE \E f, u \in Tokens : ServeLogin(c, f) \/ ServeRefresh(c, f, u)
    BY <2>3, <2>5 DEF ServeLogin, ServeRefresh
  <2> QED
    BY <2>1, <2>2, <2>4, <2>5
<1> QED
  BY <1>2, <1>3, StillAttended

\* A step that ends a method, or turns it into a refresh.
LEMMA EndsAttended ==
    ASSUME TypeInv, Attending, NEW c \in Calls,
           \/ RefreshRead(c) \/ RestoreNothing(c) \/ RestoreValid(c)
           \/ RestoreExpired(c) \/ UnlockRead(c) \/ LoginFails(c)
           \/ Enter(c) \/ Leave(c) \/ Exit(c)
    PROVE  StateIsAttended'
<1>1. call \in [Calls -> Call]
  BY DEF TypeInv, TypeOK
<1>2. CASE RestoreNothing(c) \/ LoginFails(c) \/ Leave(c) \/ Exit(c)
  BY <1>2, SignedOut DEF RestoreNothing, LoginFails, Leave, Exit
<1>3. CASE RestoreValid(c) \/ Enter(c)
  <2>1. state'.kind = "authenticated" /\ timer' = TRUE
    BY <1>3 DEF RestoreValid, Enter
  <2> QED
    BY <2>1, SignedIn
<1>4. CASE RefreshRead(c)
  <2>1. CASE Stored = None
    BY <1>4, <2>1, SignedOut DEF RefreshRead
  <2>2. CASE Stored # None
    <3>1. state' = state /\ timer' = timer
      BY <1>4, <2>2 DEF RefreshRead
    <3>2. \A d \in Calls : call'[d].op = call[d].op
      BY <1>1, <1>4, <2>2 DEF RefreshRead, Call
    <3> QED
      BY <3>1, <3>2, StillAttended
  <2> QED
    BY <2>1, <2>2
<1>5. CASE RestoreExpired(c)
  <2>1. state' = state /\ timer' = timer /\ call[c].op = "restore"
    BY <1>5 DEF RestoreExpired, At
  <2>2. \A d \in Calls : d # c => call'[d] = call[d]
    BY <1>1, <1>5 DEF RestoreExpired
  <2> QED
    BY <2>1, <2>2, StillAttended
<1>6. CASE UnlockRead(c)
  <2>1. call[c].op = "unlock" /\ timer' = timer
    BY <1>6 DEF UnlockRead, At
  <2>2. \A d \in Calls : d # c => call'[d] = call[d]
    BY <1>1, <1>6 DEF UnlockRead, Return
  <2>3. CASE store.account = None
    <3>1. state' = state
      BY <1>6, <2>3 DEF UnlockRead
    <3> QED
      BY <2>1, <2>2, <3>1, StillAttended
  <2>4. CASE store.account # None
    <3>1. state'.kind = "offlineGrace"
      BY <1>6, <2>4 DEF UnlockRead
    <3>2. call' = [call EXCEPT ![c] = [Idle EXCEPT !.op = "refresh",
                                                   !.at = "readToken"]]
      BY <1>6, <2>4 DEF UnlockRead
    <3>3. call'[c].op = "refresh"
      BY <1>1, <3>2 DEF Idle
    <3> QED
      BY <3>1, <3>3 DEF StateIsAttended, Running
  <2> QED
    BY <2>3, <2>4
<1> QED
  BY <1>2, <1>3, <1>4, <1>5, <1>6

\* A login attends to the state it enters.
LEMMA LoginAttended ==
    ASSUME TypeInv, NEW c \in Calls, NEW a \in Accounts,
           NEW op \in {"login", "otp"}, Login(c, op, a)
    PROVE  StateIsAttended'
<1>1. state'.kind = "authenticating"
  BY DEF Login, Signed
<1>2. call'[c].op = op
  BY DEF Login, Idle, TypeInv, TypeOK
<1> QED
  BY <1>1, <1>2 DEF StateIsAttended, Running

\* Every step leaves the state attended.
LEMMA StepAttended ==
    TypeInv /\ Attending /\ [Next]_vars => StateIsAttended'
<1> SUFFICES ASSUME TypeInv, Attending, [Next]_vars
             PROVE  StateIsAttended'
  OBVIOUS
<1>1. ASSUME NEW c \in Calls, Step(c) \/ ResponseLost(c)
      PROVE  StateIsAttended'
  <2>1. CASE \/ RefreshRead(c) \/ RestoreNothing(c) \/ RestoreValid(c)
             \/ RestoreExpired(c) \/ UnlockRead(c) \/ LoginFails(c)
             \/ Enter(c) \/ Leave(c) \/ Exit(c)
    BY <2>1, EndsAttended
  <2>2. CASE ~ \/ RefreshRead(c) \/ RestoreNothing(c) \/ RestoreValid(c)
               \/ RestoreExpired(c) \/ UnlockRead(c) \/ LoginFails(c)
               \/ Enter(c) \/ Leave(c) \/ Exit(c)
    BY <1>1, <2>2, RunsOnAttended DEF Step
  <2> QED
    BY <2>1, <2>2
<1>2. ASSUME NEW c \in Calls, NEW a \in Accounts, NEW op \in {"login", "otp"},
             Login(c, op, a)
      PROVE  StateIsAttended'
  BY <1>2, LoginAttended
<1>3. ASSUME NEW c \in Calls,
             \/ Refresh(c) \/ TimerFires(c) \/ RestoreSession(c)
             \/ UnlockWithPin(c) \/ Logout(c)
      PROVE  StateIsAttended'
  BY <1>3, BeginsAttended
<1>4. CASE Kill
  BY <1>4, SignedOut DEF Kill
<1>5. CASE ServerCloses \/ UNCHANGED vars
  BY <1>5 DEF ServerCloses, vars, client, StateIsAttended, Running,
              Attending
<1> QED
  BY <1>1, <1>2, <1>3, <1>4, <1>5 DEF Next, Alive

\* However many methods overlap, no state of the app is a dead end.
THEOREM AlwaysAttended == Spec => []StateIsAttended
<1>1. Init => StateIsAttended
  BY DEF Init, Signed, StateIsAttended
<1>2. TypeInv /\ StateIsAttended /\ [Next]_vars
         => (TypeInv /\ StateIsAttended)'
  BY StepTyped, StepAttended DEF Attending
<1> QED
  BY <1>1, <1>2, InitTyped, PTL DEF Spec

----------------------------------------------------------------------------
(***************************************************************************)
(* One method at a time: what the server keeps open is not forgotten.      *)
(***************************************************************************)

\* No method begins while another runs.
OneAtATime ==
    \A c, d \in Calls : call[c].at # "idle" /\ call[d].at # "idle" => c = d

\* The token t is the open end of the chain f.
Ends(f, t) == chain[f] # None /\ chain[f].token = t

\* No chain that still counts ends in t; none at all does.
Lost(t) == \A f \in Tokens : Ends(f, t) => f \in adrift
Dead(t) == \A f \in Tokens : ~Ends(f, t)

Holds(c, f) == call[c].token # None /\ Ends(f, call[c].token.refresh)
GivenUp(c) == call[c].token # None => Lost(call[c].token.refresh)

\* No two chains end in one token, and the server hands out no token twice.
Distinct ==
    \A f \in Tokens :
        chain[f] # None =>
            /\ f \in used /\ chain[f].token \in used
            /\ \A g \in Tokens : Ends(g, chain[f].token) => g = f

Seen == used \cup {Empty}

\* The client has its tokens from the server.
FromServer ==
    /\ store.refresh \in Seen \cup {None}
    /\ \A c \in Calls : call[c].token # None => call[c].token.refresh \in Seen

\* Half a pair in the storage is left of a write that was cut.
Halves == Stored = None => Lost(store.refresh)

\* A chain is in the storage, on its way there, or known to be lost.
Kept(f) ==
    chain[f] # None =>
        \/ f \in adrift
        \/ store.refresh = chain[f].token
        \/ \E c \in Calls : Holds(c, f)

\* What the only method that runs knows of the storage and the server: what it
\* read is still stored, the token it has exchanged is spent, and what it will
\* drop or delete is closed or lost.
Keeps(c) ==
    /\ call[c].at \in {"idle", "readToken"} \/ call[c].op = "unlock"
          => call[c].token = None
    /\ call[c].at = "sent" =>
          call[c].token = IF call[c].op \in {"login", "otp"}
                          THEN None ELSE Stored
    /\ (\/ call[c].op = "restore" /\ call[c].at = "readAccount"
        \/ call[c].at \in {"saveAccount", "enter"})
          => call[c].token = Stored
    /\ call[c].at = "enter" => store.account = call[c].acct
    /\ (/\ call[c].op = "refresh"
        /\ \/ call[c].at = "answered" /\ call[c].reply = "ok"
           \/ call[c].at = "saveToken")
          => Dead(store.refresh)
    /\ (\/ /\ call[c].op \in {"login", "otp"} /\ call[c].at = "answered"
           /\ call[c].reply # "ok"
        \/ call[c].op = "logout" /\ call[c].at = "answered"
        \/ call[c].at \in {"leave", "clearAll", "exit"})
          => GivenUp(c)
    /\ (\/ call[c].op = "logout" /\ call[c].at = "answered"
        \/ call[c].at = "clearAll")
          => Lost(store.refresh)

NotForgotten ==
    /\ Distinct /\ FromServer /\ Halves
    /\ \A c \in Calls : Keeps(c)
    /\ \A f \in Tokens : Kept(f)

ChainInv == TypeInv /\ NotForgotten

Alone(c) == \A d \in Calls : d # c => call[d].at = "idle"

\* Nothing is open, stored or held.
LEMMA InitChains == Init => ChainInv
<1> SUFFICES ASSUME Init PROVE ChainInv
  OBVIOUS
<1>1. /\ \A f \in Tokens : chain[f] = None
      /\ \A c \in Calls : /\ call[c].at = "idle" /\ call[c].op = "none"
                          /\ call[c].token = None
      /\ store.refresh = None
  BY DEF Init, Server!Init, Idle
<1>2. \A c \in Calls : Keeps(c)
  BY <1>1 DEF Keeps
<1> QED
  BY <1>1, <1>2, InitTyped
     DEF ChainInv, NotForgotten, Distinct, FromServer, Halves, Kept, Lost, Ends

\* A method that moves while the others are idle.
LEMMA OneKeeps ==
    ASSUME ChainInv, NEW c \in Calls, Alone(c),
           \A d \in Calls : d # c => call'[d] = call[d], Keeps(c)'
    PROVE  \A d \in Calls : Keeps(d)'
<1> SUFFICES ASSUME NEW d \in Calls, d # c PROVE Keeps(d)'
  OBVIOUS
<1>1. call'[d].at = "idle" /\ call'[d].op = "none" /\ call'[d].token = None
  BY DEF ChainInv, NotForgotten, TypeInv, CallInv, Keeps, Alone
<1> QED
  BY <1>1 DEF Keeps

\* A method that begins leaves to the others what they know.
LEMMA OthersKeep ==
    ASSUME ChainInv, NEW c \in Calls,
           \A d \in Calls : d # c => call'[d] = call[d], Keeps(c)',
           chain' = chain, store' = store, adrift' = adrift
    PROVE  \A d \in Calls : Keeps(d)'
<1> SUFFICES ASSUME NEW d \in Calls, d # c PROVE Keeps(d)'
  OBVIOUS
<1>1. call'[d] = call[d] /\ Keeps(d)
  BY DEF ChainInv, NotForgotten
<1> QED
  BY <1>1 DEF Keeps, GivenUp, Lost, Dead, Ends, Stored

\* A method moves, and neither the server nor the storage does: what it no longer
\* holds is stored or lost.
LEMMA CallStep ==
    ASSUME ChainInv, NEW c \in Calls, NEW v \in Call,
           call' = [call EXCEPT ![c] = v],
           chain' = chain, used' = used, store' = store, adrift \subseteq adrift',
           v.token # None => v.token.refresh \in Seen,
           \A f \in Tokens : Holds(c, f) =>
              \/ f \in adrift' \/ store.refresh = chain[f].token
              \/ v.token # None /\ Ends(f, v.token.refresh)
    PROVE  Distinct' /\ FromServer' /\ Halves' /\ \A f \in Tokens : Kept(f)'
<1>1. call'[c] = v /\ \A d \in Calls : d # c => call'[d] = call[d]
  BY DEF ChainInv, NotForgotten, TypeInv, TypeOK
<1>2. Distinct' /\ Halves'
  BY DEF ChainInv, NotForgotten, Distinct, Halves, Lost, Ends, Stored
<1>3. FromServer'
  BY <1>1 DEF ChainInv, NotForgotten, FromServer, Seen
<1>4. ASSUME NEW f \in Tokens PROVE Kept(f)'
  BY <1>1 DEF ChainInv, NotForgotten, Kept, Holds, Ends
<1> QED
  BY <1>2, <1>3, <1>4

\* What Go and Return do to the record of a method.
LEMMA GoFields ==
    ASSUME TypeInv, NEW c \in Calls, NEW at, Go(c, at),
           at \in {"saveToken", "saveAccount", "enter", "clearToken", "leave",
                   "clearAll", "exit"}
    PROVE  \E v \in Call :
              /\ call' = [call EXCEPT ![c] = v]
              /\ v.at = at /\ v.op = call[c].op /\ v.acct = call[c].acct
              /\ v.token = call[c].token /\ v.reply = call[c].reply
<1> DEFINE v == [call[c] EXCEPT !.at = at]
<1>1. call[c] \in Call
  BY DEF TypeInv, TypeOK
<1>2. call' = [call EXCEPT ![c] = v]
  BY <1>1 DEF Go
<1>3. v \in Call /\ v.at = at /\ v.op = call[c].op /\ v.acct = call[c].acct
      /\ v.token = call[c].token /\ v.reply = call[c].reply
  BY <1>1 DEF Call
<1> QED
  BY <1>2, <1>3

LEMMA IdleTyped ==
    /\ Idle \in Call /\ Idle.op = "none" /\ Idle.at = "idle"
    /\ Idle.token = None
BY DEF Idle, Call

\* The same, with what the method now knows.
LEMMA MethodMoves ==
    ASSUME ChainInv, NEW c \in Calls, NEW v \in Call,
           call' = [call EXCEPT ![c] = v],
           chain' = chain, used' = used, store' = store,
           \/ Alone(c) /\ adrift \subseteq adrift'
           \/ adrift' = adrift,
           v.token # None => v.token.refresh \in Seen,
           \A f \in Tokens : Holds(c, f) =>
              \/ f \in adrift' \/ store.refresh = chain[f].token
              \/ v.token # None /\ Ends(f, v.token.refresh),
           Keeps(c)'
    PROVE  NotForgotten'
<1>1. call'[c] = v /\ \A d \in Calls : d # c => call'[d] = call[d]
  BY DEF ChainInv, TypeInv, TypeOK
<1>2. Distinct' /\ FromServer' /\ Halves' /\ \A f \in Tokens : Kept(f)'
  BY CallStep
<1>3. \A d \in Calls : Keeps(d)'
  BY <1>1, OneKeeps, OthersKeep
<1> QED
  BY <1>2, <1>3 DEF NotForgotten

\* A method begins with nothing in its hands.
LEMMA BeginsChains ==
    ASSUME ChainInv, NEW c \in Calls,
           \/ \E a \in Accounts, op \in {"login", "otp"} : Login(c, op, a)
           \/ Refresh(c) \/ TimerFires(c) \/ RestoreSession(c)
           \/ UnlockWithPin(c) \/ Logout(c)
    PROVE  NotForgotten'
<1>1. call \in [Calls -> Call] /\ call[c].token = None
  BY DEF ChainInv, NotForgotten, TypeInv, TypeOK, Keeps, Login, Refresh,
         TimerFires, RestoreSession, UnlockWithPin, Logout, Begin
<1>2. chain' = chain /\ used' = used /\ store' = store /\ adrift' = adrift
  BY DEF Login, Refresh, TimerFires, RestoreSession, UnlockWithPin, Logout,
         history
<1>3. \E v \in Call :
         /\ call' = [call EXCEPT ![c] = v]
         /\ v.token = None
         /\ \/ v.at = "sent" /\ v.op \in {"login", "otp"}
            \/ v.at = "readToken" /\ v.op \in {"refresh", "restore", "logout"}
            \/ v.at = "readAccount" /\ v.op = "unlock"
  <2>1. CASE \E a \in Accounts, op \in {"login", "otp"} : Login(c, op, a)
    <3> PICK a \in Accounts, op \in {"login", "otp"} : Login(c, op, a)
      BY <2>1
    <3> DEFINE v == [op |-> op, at |-> "sent", acct |-> a, token |-> None,
                     reply |-> "none"]
    <3>1. /\ v \in Call /\ v.op = op /\ v.at = "sent" /\ v.token = None
          /\ call' = [call EXCEPT ![c] = v]
      BY DEF Login, Call
    <3> HIDE DEF v
    <3> QED
      BY <3>1
  <2>2. ASSUME NEW op \in {"refresh", "restore", "logout", "unlock"},
               NEW at \in {"readToken", "readAccount"},
               Begin(c, op, at), (at = "readAccount") <=> (op = "unlock")
        PROVE  \E v \in Call :
                  /\ call' = [call EXCEPT ![c] = v]
                  /\ v.token = None
                  /\ \/ v.at = "sent" /\ v.op \in {"login", "otp"}
                     \/ /\ v.at = "readToken"
                        /\ v.op \in {"refresh", "restore", "logout"}
                     \/ v.at = "readAccount" /\ v.op = "unlock"
    <3> DEFINE v == [Idle EXCEPT !.op = op, !.at = at]
    <3>1. /\ v \in Call /\ v.op = op /\ v.at = at /\ v.token = None
          /\ call' = [call EXCEPT ![c] = v]
      BY <2>2 DEF Begin, Idle, Call
    <3> HIDE DEF v
    <3> QED
      BY <2>2, <3>1
  <2>3. CASE Refresh(c) \/ TimerFires(c)
    <3>1. Begin(c, "refresh", "readToken")
      BY <2>3 DEF Refresh, TimerFires
    <3> QED
      BY <2>2, <3>1
  <2>4. CASE RestoreSession(c)
    <3>1. Begin(c, "restore", "readToken")
      BY <2>4 DEF RestoreSession
    <3> QED
      BY <2>2, <3>1
  <2>5. CASE UnlockWithPin(c)
    <3>1. Begin(c, "unlock", "readAccount")
      BY <2>5 DEF UnlockWithPin
    <3> QED
      BY <2>2, <3>1
  <2>6. CASE Logout(c)
    <3>1. Begin(c, "logout", "readToken")
      BY <2>6 DEF Logout
    <3> QED
      BY <2>2, <3>1
  <2> QED
    BY <2>1, <2>3, <2>4, <2>5, <2>6
<1> PICK v \in Call :
         /\ call' = [call EXCEPT ![c] = v]
         /\ v.token = None
         /\ \/ v.at = "sent" /\ v.op \in {"login", "otp"}
            \/ v.at = "readToken" /\ v.op \in {"refresh", "restore", "logout"}
            \/ v.at = "readAccount" /\ v.op = "unlock"
  BY <1>3
<1>4. call'[c] = v
  BY <1>1
<1>5. Keeps(c)'
  BY <1>4 DEF Keeps
<1> QED
  BY <1>1, <1>2, <1>5, MethodMoves DEF Holds

\* What is read from the storage stays in the storage.
LEMMA ReadsChains ==
    ASSUME ChainInv, NEW c \in Calls, Alone(c),
           RefreshRead(c) \/ LogoutRead(c) \/ RestoreRead(c)
    PROVE  NotForgotten'
<1>1. /\ call \in [Calls -> Call] /\ call[c] \in Call
      /\ call[c].token = None /\ call[c].at = "readToken"
      /\ Stored \in Pair \cup {None}
  BY Helpers DEF ChainInv, NotForgotten, TypeInv, TypeOK, Keeps, RefreshRead,
         LogoutRead, RestoreRead, At
<1>2. chain' = chain /\ used' = used /\ store' = store /\ adrift' = adrift
  BY DEF RefreshRead, LogoutRead, RestoreRead, history
<1>3. Stored # None => Stored.refresh = store.refresh /\ Stored.refresh \in Seen
  BY DEF Stored, ChainInv, NotForgotten, FromServer
<1>4. Stored' = Stored
  BY <1>2 DEF Stored
<1>5. CASE RefreshRead(c) /\ Stored = None
  <2>1. call' = [call EXCEPT ![c] = Idle]
    BY <1>5 DEF RefreshRead, Return
  <2>2. Keeps(c)'
    BY <1>1, <2>1, IdleTyped DEF Keeps
  <2> QED
    BY <1>1, <1>2, <2>1, <2>2, IdleTyped, MethodMoves DEF Holds
<1>6. CASE \/ RefreshRead(c) /\ Stored # None
           \/ LogoutRead(c) /\ Stored # None
  <2> DEFINE v == [call[c] EXCEPT !.at = "sent", !.token = Stored]
  <2>1. call' = [call EXCEPT ![c] = v] /\ call[c].op \in {"refresh", "logout"}
    BY <1>1, <1>6 DEF RefreshRead, LogoutRead, At
  <2>2. v \in Call /\ v.at = "sent" /\ v.op = call[c].op /\ v.token = Stored
    BY <1>1 DEF Call
  <2> HIDE DEF v
  <2>3. call'[c] = v
    BY <1>1, <2>1
  <2>4. Keeps(c)'
    BY <1>4, <2>1, <2>2, <2>3 DEF Keeps
  <2> QED
    BY <1>1, <1>2, <1>3, <2>1, <2>2, <2>4, MethodMoves DEF Holds
<1>7. CASE LogoutRead(c) /\ Stored = None
  <2>1. Go(c, "clearAll")
    BY <1>7 DEF LogoutRead
  <2>2. PICK v \in Call :
           /\ call' = [call EXCEPT ![c] = v]
           /\ v.at = "clearAll" /\ v.op = call[c].op /\ v.acct = call[c].acct
           /\ v.token = call[c].token /\ v.reply = call[c].reply
    BY <2>1, GoFields DEF ChainInv
  <2>3. call'[c] = v /\ call[c].op = "logout"
    BY <1>1, <1>7, <2>2 DEF LogoutRead, At
  <2>4. Lost(store.refresh)'
    BY <1>2, <1>7 DEF ChainInv, NotForgotten, Halves, Lost, Ends
  <2>5. Keeps(c)'
    BY <1>1, <2>2, <2>3, <2>4 DEF Keeps, GivenUp
  <2> QED
    BY <1>1, <1>2, <2>2, <2>5, MethodMoves DEF Holds
<1>8. CASE RestoreRead(c)
  <2> DEFINE v == [call[c] EXCEPT !.at = "readAccount", !.token = Stored]
  <2>1. call' = [call EXCEPT ![c] = v] /\ call[c].op = "restore"
    BY <1>1, <1>8 DEF RestoreRead, At
  <2>2. /\ v \in Call /\ v.at = "readAccount" /\ v.op = call[c].op
        /\ v.token = Stored
    BY <1>1 DEF Call
  <2> HIDE DEF v
  <2>3. call'[c] = v
    BY <1>1, <2>1
  <2>4. Keeps(c)'
    BY <1>4, <2>1, <2>2, <2>3 DEF Keeps
  <2> QED
    BY <1>1, <1>2, <1>3, <2>1, <2>2, <2>4, MethodMoves DEF Holds
<1> QED
  BY <1>5, <1>6, <1>7, <1>8

\* A method that ends, or begins anew as a refresh, drops what is stored or lost.
LEMMA LeavesOff ==
    ASSUME ChainInv, NEW c \in Calls, NEW v \in Call,
           call' = [call EXCEPT ![c] = v],
           v.token = None, v.at \in {"idle", "readToken"},
           chain' = chain, used' = used, store' = store, adrift' = adrift,
           \/ call[c].op \in {"restore", "unlock"} /\ call[c].at = "readAccount"
           \/ call[c].at \in {"enter", "leave", "exit"}
           \/ /\ call[c].op \in {"login", "otp"} /\ call[c].at = "answered"
              /\ call[c].reply # "ok" \/ call[c].token = None
    PROVE  NotForgotten'
<1>1. call'[c] = v
  BY DEF ChainInv, TypeInv, TypeOK
<1>2. Keeps(c)'
  BY <1>1 DEF Keeps
<1>3. Keeps(c)
  BY DEF ChainInv, NotForgotten
<1>4. \/ call[c].token = None \/ call[c].token = Stored \/ GivenUp(c)
  <2>1. CASE call[c].op \in {"restore", "unlock"} /\ call[c].at = "readAccount"
    BY <1>3, <2>1 DEF Keeps
  <2>2. CASE call[c].at = "enter"
    BY <1>3, <2>2 DEF Keeps
  <2>3. CASE call[c].at \in {"leave", "exit"}
    BY <1>3, <2>3 DEF Keeps
  <2>4. CASE /\ call[c].op \in {"login", "otp"} /\ call[c].at = "answered"
             /\ call[c].reply # "ok" \/ call[c].token = None
    BY <1>3, <2>4 DEF Keeps
  <2> QED
    BY <2>1, <2>2, <2>3, <2>4
<1>5. \A f \in Tokens : Holds(c, f) =>
         f \in adrift \/ store.refresh = chain[f].token
  BY <1>4 DEF Holds, GivenUp, Lost, Ends, Stored
<1> QED
  BY <1>2, <1>5, MethodMoves

\* The server's answer is no pair, or does not arrive.
LEMMA RepliesChains ==
    ASSUME ChainInv, NEW c \in Calls, Alone(c),
           \/ ServeOtp(c) \/ ServeRefusal(c) \/ RequestLost(c)
           \/ ResponseLost(c)
    PROVE  NotForgotten'
<1>1. /\ call \in [Calls -> Call] /\ call[c] \in Call /\ Keeps(c)
      /\ chain' = chain /\ used' = used /\ store' = store
      /\ adrift \subseteq adrift'
      /\ call[c].token # None => call[c].token.refresh \in Seen
  BY DEF ChainInv, NotForgotten, TypeInv, TypeOK, FromServer, ServeOtp,
         ServeRefusal, RequestLost, ResponseLost, Answer, history
<1>2. ASSUME NEW v \in Call, call' = [call EXCEPT ![c] = v],
             v.at = "answered", v.op = call[c].op, v.token = call[c].token,
             v.reply \in {"refused", "lost"},
             \/ v.op = "refresh"
             \/ v.op \in {"login", "otp"} /\ GivenUp(c)'
             \/ v.op = "logout" /\ GivenUp(c)' /\ Lost(store.refresh)'
             \/ v.op \notin {"refresh", "login", "otp", "logout", "unlock"}
      PROVE  NotForgotten'
  <2>1. call'[c] = v
    BY <1>1, <1>2
  <2>2. Keeps(c)'
    BY <1>2, <2>1 DEF Keeps
  <2> QED
    BY <1>1, <1>2, <2>2, MethodMoves DEF Holds
<1>3. CASE ServeOtp(c)
  <2>1. call[c].token = None
    BY <1>1, <1>3 DEF ServeOtp, At, Keeps
  <2>2. PICK t \in {PairOf(Empty), None} :
           \E a : Answer(c, a, t) /\ a \in Accounts \cup {None}
    BY <1>1, <1>3 DEF ServeOtp, Call
  <2>3. PICK a \in Accounts \cup {None} : Answer(c, a, t)
    BY <2>2
  <2> DEFINE v == [op |-> call[c].op, at |-> "answered", acct |-> a,
                   token |-> t, reply |-> "ok"]
  <2>4. t \in Pair \cup {None} /\ (t # None => t.refresh \in Seen)
    BY DEF PairOf, Pair, Names, Seen
  <2>5. /\ v \in Call /\ v.op = "otp" /\ v.at = "answered" /\ v.reply = "ok"
        /\ v.token = t /\ call' = [call EXCEPT ![c] = v]
    BY <1>1, <1>3, <2>3, <2>4 DEF Answer, Call, ServeOtp, At
  <2>6. adrift' = adrift
    BY <1>3 DEF ServeOtp, history
  <2> HIDE DEF v
  <2>7. call'[c] = v
    BY <1>1, <2>5
  <2>8. Keeps(c)'
    BY <2>5, <2>7 DEF Keeps
  <2> QED
    BY <1>1, <2>1, <2>4, <2>5, <2>6, <2>8, MethodMoves DEF Holds
<1>4. CASE ServeRefusal(c)
  <2> DEFINE v == [call[c] EXCEPT !.at = "answered", !.reply = "refused"]
  <2>1. /\ v \in Call /\ v.at = "answered" /\ v.reply = "refused"
        /\ v.op = call[c].op /\ v.token = call[c].token
    BY <1>1 DEF Call
  <2>2. call' = [call EXCEPT ![c] = v] /\ call[c].op # "logout"
        /\ call[c].at = "sent"
    BY <1>4 DEF ServeRefusal
  <2> HIDE DEF v
  <2>3. call'[c] = v
    BY <1>1, <2>2
  <2>4. call[c].op = "unlock" => call'[c].token = None
    BY <1>1, <2>1, <2>3 DEF Keeps
  <2>5. call[c].op \in {"login", "otp"} => GivenUp(c)'
    BY <1>1, <2>1, <2>2, <2>3 DEF Keeps, GivenUp
  <2>6. Keeps(c)'
    BY <2>1, <2>2, <2>3, <2>4, <2>5 DEF Keeps
  <2> QED
    BY <1>1, <2>1, <2>2, <2>6, MethodMoves DEF Holds
<1>5. CASE RequestLost(c) \/ ResponseLost(c)
  <2> DEFINE v == [call[c] EXCEPT !.at = "answered", !.reply = "lost"]
  <2>1. /\ v \in Call /\ v.at = "answered" /\ v.reply = "lost"
        /\ v.op = call[c].op /\ v.token = call[c].token
    BY <1>1 DEF Call
  <2>2. call' = [call EXCEPT ![c] = v] /\ call[c].at \in {"sent", "answered"}
    BY <1>1, <1>5 DEF RequestLost, ResponseLost, Call
  <2> HIDE DEF v
  <2>3. call'[c] = v
    BY <1>1, <2>2
  <2>4. GivenUp(c)'
    BY <1>1, <1>5, <2>1, <2>3
       DEF GivenUp, Lost, Ends, RequestLost, ResponseLost, HeldChains, ChainsOf
  <2>5. ASSUME call[c].op = "logout" PROVE Lost(store.refresh)'
    <3>1. CASE call[c].at = "answered"
      <4>1. Lost(store.refresh)
        BY <1>1, <2>5, <3>1 DEF Keeps
      <4> QED
        BY <1>1, <4>1 DEF Lost, Ends
    <3>2. CASE call[c].at = "sent" /\ Stored = None
      BY <1>1, <3>2 DEF ChainInv, NotForgotten, Halves, Lost, Ends
    <3>3. CASE call[c].at = "sent" /\ Stored # None
      <4>1. call[c].token = Stored
        BY <1>1, <2>5, <3>3 DEF Keeps
      <4> QED
        BY <1>1, <2>1, <2>3, <2>4, <3>3, <4>1 DEF GivenUp, Stored
    <3> QED
      BY <2>2, <3>1, <3>2, <3>3
  <2>6. call[c].op = "unlock" => call'[c].token = None
    BY <1>1, <2>1, <2>3 DEF Keeps
  <2>7. Keeps(c)'
    BY <2>1, <2>3, <2>4, <2>5, <2>6 DEF Keeps
  <2> QED
    BY <1>1, <2>1, <2>2, <2>7, MethodMoves DEF Holds
<1> QED
  BY <1>3, <1>4, <1>5

\* The answer decides what is done next.
LEMMA GoesOnChains ==
    ASSUME ChainInv, NEW c \in Calls,
           Granted(c) \/ RefreshFails(c) \/ LogoutAnswered(c)
    PROVE  NotForgotten'
<1>1. /\ call \in [Calls -> Call] /\ Keeps(c) /\ call[c].at = "answered"
      /\ chain' = chain /\ used' = used /\ store' = store /\ adrift' = adrift
      /\ call[c].token # None => call[c].token.refresh \in Seen
  BY DEF ChainInv, NotForgotten, TypeInv, TypeOK, FromServer, Granted,
         RefreshFails, LogoutAnswered, At, history
<1>2. PICK at \in {"saveToken", "clearToken", "clearAll"} :
         /\ Go(c, at)
         /\ at = "saveToken" => call[c].op # "logout" /\ call[c].reply = "ok"
         /\ at = "clearToken" => call[c].op = "refresh"
         /\ at = "clearAll" => call[c].op = "logout"
  BY DEF Granted, RefreshFails, LogoutAnswered, At
<1>3. PICK v \in Call :
         /\ call' = [call EXCEPT ![c] = v]
         /\ v.at = at /\ v.op = call[c].op /\ v.acct = call[c].acct
         /\ v.token = call[c].token /\ v.reply = call[c].reply
  BY <1>2, GoFields DEF ChainInv
<1>4. call'[c] = v
  BY <1>1, <1>3
<1>5. /\ Dead(store.refresh)' <=> Dead(store.refresh)
      /\ Lost(store.refresh)' <=> Lost(store.refresh)
      /\ GivenUp(c)' <=> GivenUp(c)
  BY <1>1, <1>3, <1>4 DEF GivenUp, Lost, Dead, Ends
<1>6. Keeps(c)'
  <2>1. CASE at = "saveToken"
    BY <1>1, <1>2, <1>3, <1>4, <1>5, <2>1 DEF Keeps
  <2>2. CASE at = "clearToken"
    BY <1>1, <1>2, <1>3, <1>4, <2>2 DEF Keeps
  <2>3. CASE at = "clearAll"
    BY <1>1, <1>2, <1>3, <1>4, <1>5, <2>3 DEF Keeps
  <2> QED
    BY <2>1, <2>2, <2>3
<1> QED
  BY <1>1, <1>3, <1>6, MethodMoves DEF Holds

\* A storage operation is done: what it takes from the storage is lost.
LEMMA StoreMoves ==
    ASSUME ChainInv, NEW c \in Calls, Alone(c), NEW v \in Call,
           call' = [call EXCEPT ![c] = v], v.token = call[c].token,
           chain' = chain, used' = used, adrift \subseteq adrift',
           store'.refresh \in Seen \cup {None},
           \A f \in Tokens : Ends(f, store.refresh) =>
              f \in adrift' \/ store'.refresh = store.refresh,
           Halves', Keeps(c)'
    PROVE  NotForgotten'
<1>1. call'[c] = v /\ \A d \in Calls : d # c => call'[d] = call[d]
  BY DEF ChainInv, TypeInv, TypeOK
<1>2. Distinct'
  BY DEF ChainInv, NotForgotten, Distinct, Ends
<1>3. FromServer'
  BY <1>1 DEF ChainInv, NotForgotten, FromServer, Seen
<1>4. ASSUME NEW f \in Tokens PROVE Kept(f)'
  <2>1. \A d \in Calls : Holds(d, f)' <=> Holds(d, f)
    BY <1>1 DEF Holds, Ends
  <2> QED
    BY <2>1 DEF ChainInv, NotForgotten, Kept, Ends
<1>5. \A d \in Calls : Keeps(d)'
  BY <1>1, OneKeeps
<1> QED
  BY <1>2, <1>3, <1>4, <1>5 DEF NotForgotten

\* What is in the hands of a method that saves is a pair.
LEMMA SavedPair ==
    ASSUME TypeInv, NEW c \in Calls,
           call[c].at \in {"saveToken", "saveAccount", "enter"}
    PROVE  /\ call[c].token \in Pair /\ call[c].token # None
           /\ call[c].token.access # None /\ call[c].token.refresh # None
           /\ call[c].token = [access |-> call[c].token.access,
                               refresh |-> call[c].token.refresh]
           /\ call[c].acct \in Accounts
BY NamesAssumption DEF TypeInv, CallInv, Pair

\* The token None is the end of no chain.
LEMMA NoneEnds == ASSUME TypeInv PROVE \A f \in Tokens : ~Ends(f, None)
BY NamesAssumption
   DEF TypeInv, TypeOK, Server!TypeOK, Server!End, Ends, Names

\* What the operations on the storage leave in it.
LEMMA StoreWrites ==
    ASSUME TypeInv, NEW c \in Calls
    PROVE  /\ SaveToken(c) =>
                 /\ store'.refresh = call[c].token.refresh
                 /\ store'.access = call[c].token.access
           /\ SaveAccount(c) =>
                 /\ store'.refresh = store.refresh
                 /\ store'.access = store.access
                 /\ store'.account = call[c].acct
           /\ ClearToken(c) \/ ClearAll(c) =>
                 store'.refresh = None /\ store'.access = None
<1>1. store \in Store
  BY DEF TypeInv, TypeOK, Store
<1>2. ASSUME SaveToken(c)
      PROVE  /\ store'.refresh = call[c].token.refresh
             /\ store'.access = call[c].token.access
  BY <1>1, <1>2 DEF SaveToken, Target, Store
<1>3. ASSUME SaveAccount(c)
      PROVE  /\ store'.refresh = store.refresh
             /\ store'.access = store.access
             /\ store'.account = call[c].acct
  BY <1>1, <1>3 DEF SaveAccount, Target, Store
<1>4. ASSUME ClearToken(c) \/ ClearAll(c)
      PROVE  store'.refresh = None /\ store'.access = None
  <2>1. CASE ClearToken(c)
    <3>1. store' = [store EXCEPT !.access = None, !.refresh = None]
      BY <2>1 DEF ClearToken, Target
    <3> QED
      BY <1>1, <3>1 DEF Store
  <2>2. CASE ClearAll(c)
    BY <2>2 DEF ClearAll, Target
  <2> QED
    BY <1>4, <2>1, <2>2
<1> QED
  BY <1>2, <1>3, <1>4

\* A method stores its pair, in two steps.
LEMMA SavesChains ==
    ASSUME ChainInv, NEW c \in Calls, Alone(c), SaveToken(c) \/ SaveAccount(c)
    PROVE  NotForgotten'
<1>1. /\ call \in [Calls -> Call] /\ Keeps(c) /\ TypeInv
      /\ chain' = chain /\ used' = used /\ adrift \subseteq adrift'
      /\ call[c].at \in {"saveToken", "saveAccount"}
      /\ call[c].token # None => call[c].token.refresh \in Seen
      /\ store \in Store
  BY DEF ChainInv, NotForgotten, TypeInv, TypeOK, FromServer, SaveToken,
         SaveAccount, Store
<1>2. PICK v \in Call :
         /\ call' = [call EXCEPT ![c] = v]
         /\ v.at = IF call[c].at = "saveToken" THEN "saveAccount" ELSE "enter"
         /\ v.op = call[c].op /\ v.acct = call[c].acct
         /\ v.token = call[c].token /\ v.reply = call[c].reply
  BY <1>1, GoFields DEF SaveToken, SaveAccount
<1>3. call'[c] = v
  BY <1>1, <1>2
<1>4. call[c].op # "unlock"
  BY <1>1, SavedPair DEF Keeps
<1>5. CASE SaveToken(c)
  <2>1. call[c].at = "saveToken"
    BY <1>5 DEF SaveToken
  <2>2. /\ store'.refresh = call[c].token.refresh
        /\ store'.access = call[c].token.access
    BY <1>1, <1>5, StoreWrites
  <2>3. Stored' = call[c].token /\ Stored' # None
    BY <1>1, <2>2, SavedPair DEF Stored
  <2>4. Halves'
    BY <2>3 DEF Halves
  <2>5. Keeps(c)'
    BY <1>2, <1>3, <1>4, <2>1, <2>3 DEF Keeps
  <2>6. ASSUME NEW f \in Tokens, Ends(f, store.refresh) PROVE f \in adrift'
    <3>1. call[c].op # "refresh"
      BY <1>1, <2>1, <2>6 DEF Keeps, Dead
    <3>2. f \in ChainsOf(store.refresh)
      BY <2>6 DEF ChainsOf, Ends
    <3> QED
      BY <1>5, <3>1, <3>2 DEF SaveToken
  <2>7. store'.refresh \in Seen \cup {None}
    BY <1>1, <2>2, SavedPair
  <2> QED
    BY <1>1, <1>2, <2>4, <2>5, <2>6, <2>7, StoreMoves
<1>6. CASE SaveAccount(c)
  <2>1. call[c].at = "saveAccount"
    BY <1>6 DEF SaveAccount
  <2>2. /\ store'.refresh = store.refresh /\ store'.access = store.access
        /\ store'.account = call[c].acct
    BY <1>1, <1>6, StoreWrites
  <2>3. Stored' = Stored
    BY <2>2 DEF Stored
  <2>4. Halves'
    BY <1>1, <2>2, <2>3 DEF ChainInv, NotForgotten, Halves, Lost, Ends
  <2>5. call[c].token = Stored
    BY <1>1, <2>1 DEF Keeps
  <2>6. Keeps(c)'
    BY <1>2, <1>3, <1>4, <2>1, <2>2, <2>3, <2>5 DEF Keeps
  <2>7. store'.refresh \in Seen \cup {None}
    BY <2>2 DEF ChainInv, NotForgotten, FromServer
  <2> QED
    BY <1>1, <1>2, <2>2, <2>4, <2>6, <2>7, StoreMoves
<1> QED
  BY <1>5, <1>6

\* A method deletes what is stored.
LEMMA ClearsChains ==
    ASSUME ChainInv, NEW c \in Calls, Alone(c), ClearToken(c) \/ ClearAll(c)
    PROVE  NotForgotten'
<1>1. /\ call \in [Calls -> Call] /\ Keeps(c) /\ TypeInv
      /\ chain' = chain /\ used' = used /\ adrift \subseteq adrift'
      /\ store \in Store
  BY DEF ChainInv, NotForgotten, TypeInv, TypeOK, ClearToken, ClearAll,
         history, Store
<1>2. PICK v \in Call :
         /\ call' = [call EXCEPT ![c] = v]
         /\ v.at = IF call[c].at = "clearToken" THEN "leave" ELSE "exit"
         /\ v.op = call[c].op /\ v.acct = call[c].acct
         /\ v.token = call[c].token /\ v.reply = call[c].reply
  BY <1>1, GoFields DEF ClearToken, ClearAll
<1>3. call'[c] = v
  BY <1>1, <1>2
<1>4. store'.refresh = None /\ store'.access = None
  BY <1>1, StoreWrites
<1>5. Halves'
  BY <1>1, <1>4, NoneEnds DEF Halves, Lost, Ends
<1>6. /\ \A f \in Tokens : Ends(f, store.refresh) => f \in adrift'
      /\ GivenUp(c)'
  <2>1. CASE ClearToken(c)
    BY <1>1, <1>2, <1>3, <2>1
       DEF ClearToken, GivenUp, Lost, Ends, HeldChains, ChainsOf
  <2>2. CASE ClearAll(c)
    <3>1. GivenUp(c) /\ Lost(store.refresh)
      BY <1>1, <2>2 DEF ClearAll, Keeps
    <3> QED
      BY <1>1, <1>2, <1>3, <3>1 DEF GivenUp, Lost, Ends
  <2> QED
    BY <2>1, <2>2
<1>7. Keeps(c)'
  <2>1. v.at \in {"leave", "exit"}
    BY <1>2
  <2>2. call[c].op = "unlock" => v.token = None
    BY <1>1, <1>2 DEF Keeps
  <2> QED
    BY <1>2, <1>3, <1>6, <2>1, <2>2 DEF Keeps
<1> QED
  BY <1>1, <1>2, <1>4, <1>5, <1>6, <1>7, StoreMoves

\* The server opens a chain for a login, which holds its end.
LEMMA OpensChains ==
    ASSUME ChainInv, NEW c \in Calls, Alone(c), NEW t \in Tokens,
           ServeLogin(c, t)
    PROVE  NotForgotten'
<1>1. /\ call \in [Calls -> Call] /\ Keeps(c) /\ TypeInv /\ Distinct
      /\ chain \in [Tokens -> Server!End \cup {None}]
      /\ store' = store /\ adrift' = adrift
      /\ call[c].op = "login" /\ call[c].at = "sent"
      /\ call[c].acct \in Accounts
      /\ t \notin used /\ used' = used \cup {t}
      /\ chain' = [chain EXCEPT ![t] = [token |-> t, account |-> call[c].acct]]
  BY DEF ChainInv, NotForgotten, TypeInv, TypeOK, CallInv, Server!TypeOK,
         ServeLogin, At, Server!Open, history
<1>2. /\ chain'[t] = [token |-> t, account |-> call[c].acct]
      /\ chain'[t] # None
      /\ \A f \in Tokens : f # t => chain'[f] = chain[f]
  <2>1. [token |-> t, account |-> call[c].acct] \in Server!End
    BY <1>1 DEF Server!End
  <2> QED
    BY <1>1, <2>1, NamesAssumption
<1>3. /\ call'[c] = [op |-> call[c].op, at |-> "answered",
                     acct |-> call[c].acct, token |-> PairOf(t), reply |-> "ok"]
      /\ \A d \in Calls : d # c => call'[d] = call[d]
  BY <1>1 DEF ServeLogin, Answer
<1>4. /\ call'[c].at = "answered" /\ call'[c].op = "login"
      /\ call'[c].reply = "ok" /\ call'[c].token = PairOf(t)
      /\ PairOf(t).refresh = t /\ PairOf(t) # None
  BY <1>1, <1>3, NamesAssumption DEF PairOf, Pair, Names
<1>5. store.refresh # t /\ call[c].token = None
  BY <1>1, NamesAssumption
     DEF ChainInv, NotForgotten, FromServer, Seen, Keeps, Names
<1>6. Distinct'
  BY <1>1, <1>2 DEF Distinct, Ends
<1>7. FromServer'
  BY <1>1, <1>3, <1>4 DEF ChainInv, NotForgotten, FromServer, Seen
<1>8. Halves'
  BY <1>1, <1>2, <1>5
     DEF ChainInv, NotForgotten, Halves, Lost, Ends, Stored
<1>9. ASSUME NEW f \in Tokens PROVE Kept(f)'
  <2>1. CASE f = t
    BY <1>2, <1>4, <2>1 DEF Kept, Holds, Ends
  <2>2. CASE f # t
    BY <1>1, <1>2, <1>3, <1>5, <2>2
       DEF ChainInv, NotForgotten, Kept, Holds, Ends
  <2> QED
    BY <2>1, <2>2
<1>10. Keeps(c)'
  BY <1>4 DEF Keeps
<1>11. \A d \in Calls : Keeps(d)'
  BY <1>3, <1>10, OneKeeps
<1> QED
  BY <1>6, <1>7, <1>8, <1>9, <1>11 DEF NotForgotten

\* The server exchanges the token a refresh presents: the stored one is spent.
LEMMA ExchangesChains ==
    ASSUME ChainInv, NEW c \in Calls, Alone(c), NEW f \in Tokens,
           NEW u \in Tokens, ServeRefresh(c, f, u)
    PROVE  NotForgotten'
<1>1. /\ call \in [Calls -> Call] /\ Keeps(c) /\ TypeInv /\ Distinct
      /\ chain \in [Tokens -> Server!End \cup {None}]
      /\ store' = store /\ adrift' = adrift
      /\ call[c].op = "refresh" /\ call[c].at = "sent"
      /\ f \in HeldChains(c) /\ chain[f] # None
      /\ u \notin used /\ used' = used \cup {u}
      /\ chain' = [chain EXCEPT ![f].token = u]
  BY DEF ChainInv, NotForgotten, TypeInv, TypeOK, Server!TypeOK,
         ServeRefresh, At, Server!Exchange, history
<1>2. /\ chain'[f] # None /\ chain'[f].token = u
      /\ \A g \in Tokens : g # f => chain'[g] = chain[g]
  <2> DEFINE e == [chain[f] EXCEPT !.token = u]
  <2>1. chain[f] \in Server!End
    BY <1>1
  <2>2. e \in Server!End /\ e.token = u
    BY <2>1 DEF Server!End
  <2>3. chain' = [chain EXCEPT ![f] = e]
    BY <1>1
  <2> HIDE DEF e
  <2> QED
    BY <1>1, <2>2, <2>3, NamesAssumption
<1>3. /\ call[c].token # None /\ chain[f].token = call[c].token.refresh
      /\ call[c].token = Stored
  BY <1>1 DEF HeldChains, ChainsOf, Keeps
<1>4. Stored # None /\ store.refresh = chain[f].token
  BY <1>3 DEF Stored
<1>5. /\ call'[c] = [op |-> call[c].op, at |-> "answered",
                     acct |-> chain[f].account, token |-> PairOf(u),
                     reply |-> "ok"]
      /\ \A d \in Calls : d # c => call'[d] = call[d]
  BY <1>1 DEF ServeRefresh, Answer
<1>6. /\ call'[c].at = "answered" /\ call'[c].op = "refresh"
      /\ call'[c].reply = "ok" /\ call'[c].token = PairOf(u)
      /\ PairOf(u).refresh = u /\ PairOf(u) # None
  BY <1>1, <1>5, NamesAssumption DEF PairOf, Pair, Names
<1>7. store.refresh # u
  BY <1>1, <1>4 DEF Distinct
<1>8. \A g \in Tokens : Ends(g, store.refresh) => g = f
  BY <1>1, <1>4 DEF Distinct
<1>9. Distinct'
  BY <1>1, <1>2 DEF Distinct, Ends
<1>10. FromServer'
  BY <1>1, <1>5, <1>6 DEF ChainInv, NotForgotten, FromServer, Seen
<1>11. Halves'
  BY <1>1, <1>4 DEF Halves, Stored
<1>12. ASSUME NEW g \in Tokens PROVE Kept(g)'
  <2>1. CASE g = f
    BY <1>2, <1>6, <2>1 DEF Kept, Holds, Ends
  <2>2. CASE g # f
    BY <1>1, <1>2, <1>3, <1>4, <1>5, <1>8, <2>2
       DEF ChainInv, NotForgotten, Kept, Holds, Ends
  <2> QED
    BY <2>1, <2>2
<1>13. Dead(store.refresh)'
  BY <1>1, <1>2, <1>7, <1>8 DEF Dead, Ends
<1>14. Keeps(c)'
  BY <1>6, <1>13 DEF Keeps
<1>15. \A d \in Calls : Keeps(d)'
  BY <1>5, <1>14, OneKeeps
<1> QED
  BY <1>9, <1>10, <1>11, <1>12, <1>15 DEF NotForgotten

\* Chains are closed, and nothing else happens to them.
Closes ==
    /\ chain' \in [Tokens -> Server!End \cup {None}] /\ used' = used
    /\ \A f \in Tokens : chain'[f] = chain[f] \/ chain'[f] = None

\* What is closed cannot be forgotten.
LEMMA ClosedStays ==
    ASSUME ChainInv, Closes, store' = store, adrift' = adrift
    PROVE  /\ Distinct' /\ Halves'
           /\ \A t : \A f \in Tokens : Ends(f, t)' => Ends(f, t)
<1>1. \A t : \A f \in Tokens : Ends(f, t)' => Ends(f, t)
  BY DEF Closes, Ends
<1>2. Distinct'
  BY <1>1 DEF ChainInv, NotForgotten, Distinct, Closes, Ends
<1>3. Halves'
  BY <1>1 DEF ChainInv, NotForgotten, Halves, Lost, Ends, Stored, Closes
<1> QED
  BY <1>1, <1>2, <1>3

\* The server closes chains on its own.
LEMMA ClosesChains == ASSUME ChainInv, ServerCloses PROVE NotForgotten'
<1>1. /\ Closes /\ store' = store /\ adrift' = adrift /\ call' = call
  BY DEF ServerCloses, Server!Close, Server!CloseAll, Closes, client, history,
         ChainInv, TypeInv, TypeOK, Server!TypeOK
<1>2. /\ Distinct' /\ Halves'
      /\ \A t : \A f \in Tokens : Ends(f, t)' => Ends(f, t)
  BY <1>1, ClosedStays
<1>3. FromServer'
  BY <1>1 DEF ChainInv, NotForgotten, FromServer, Seen, Closes
<1>4. ASSUME NEW f \in Tokens PROVE Kept(f)'
  BY <1>1 DEF ChainInv, NotForgotten, Kept, Holds, Ends, Closes
<1>5. ASSUME NEW d \in Calls PROVE Keeps(d)'
  <2>1. /\ Dead(store.refresh) => Dead(store.refresh)'
        /\ Lost(store.refresh) => Lost(store.refresh)'
        /\ GivenUp(d) => GivenUp(d)'
    BY <1>1, <1>2 DEF Dead, Lost, GivenUp
  <2>2. Stored' = Stored
    BY <1>1 DEF Stored
  <2> QED
    BY <1>1, <2>1, <2>2 DEF ChainInv, NotForgotten, Keeps
<1> QED
  BY <1>2, <1>3, <1>4, <1>5 DEF NotForgotten

\* The server closes the chain of the token a logout presents: the stored one.
LEMMA LogoutChains ==
    ASSUME ChainInv, NEW c \in Calls, Alone(c), ServeLogout(c)
    PROVE  NotForgotten'
<1>1. /\ call \in [Calls -> Call] /\ call[c] \in Call /\ Keeps(c)
      /\ Distinct /\ store' = store /\ adrift' = adrift
      /\ call[c].op = "logout" /\ call[c].at = "sent"
  BY DEF ChainInv, NotForgotten, TypeInv, TypeOK, ServeLogout, At, history
<1>2. Closes /\ \A f \in Tokens : Holds(c, f) => chain'[f] = None
  <2>1. CASE HeldChains(c) = {}
    <3>1. chain' = chain /\ used' = used
      BY <2>1 DEF ServeLogout
    <3>2. \A f \in Tokens : ~Holds(c, f)
      BY <2>1 DEF HeldChains, ChainsOf, Holds, Ends
    <3> QED
      BY <3>1, <3>2 DEF Closes, ChainInv, TypeInv, TypeOK, Server!TypeOK
  <2>2. CASE HeldChains(c) # {}
    <3>1. PICK f \in HeldChains(c) : Server!Close(f)
      BY <2>2 DEF ServeLogout
    <3>2. f \in Tokens /\ Holds(c, f)
      BY <3>1 DEF HeldChains, ChainsOf, Holds, Ends
    <3>3. \A g \in Tokens : Holds(c, g) => g = f
      BY <1>1, <3>2 DEF Holds, Ends, Distinct
    <3> QED
      BY <3>1, <3>2, <3>3
         DEF Server!Close, Closes, ChainInv, TypeInv, TypeOK, Server!TypeOK
  <2> QED
    BY <2>1, <2>2
<1>3. /\ Distinct' /\ Halves'
      /\ \A t : \A f \in Tokens : Ends(f, t)' => Ends(f, t)
  BY <1>1, <1>2, ClosedStays
<1> DEFINE v == [call[c] EXCEPT !.at = "answered", !.reply = "ok"]
<1>4. /\ v \in Call /\ v.at = "answered" /\ v.reply = "ok"
      /\ v.op = "logout" /\ v.token = call[c].token
  BY <1>1 DEF Call
<1>5. call' = [call EXCEPT ![c] = v]
  BY <1>1 DEF ServeLogout
<1> HIDE DEF v
<1>6. call'[c] = v /\ \A d \in Calls : d # c => call'[d] = call[d]
  BY <1>1, <1>5
<1>7. FromServer'
  BY <1>1, <1>2, <1>4, <1>6
     DEF ChainInv, NotForgotten, FromServer, Seen, Closes
<1>8. ASSUME NEW f \in Tokens PROVE Kept(f)'
  <2>1. \A d \in Calls : Holds(d, f) => Holds(d, f)' \/ chain'[f] = None
    BY <1>2, <1>4, <1>6 DEF Holds, Ends, Closes
  <2> QED
    BY <1>1, <1>2, <2>1 DEF ChainInv, NotForgotten, Kept, Closes
<1>9. GivenUp(c)'
  BY <1>2, <1>3, <1>4, <1>6 DEF GivenUp, Lost, Holds, Ends
<1>10. Lost(store.refresh)'
  <2>1. CASE Stored = None
    BY <1>1, <1>3, <2>1 DEF ChainInv, NotForgotten, Halves, Lost
  <2>2. CASE Stored # None
    <3>1. call[c].token = Stored /\ store.refresh = call[c].token.refresh
      BY <1>1, <2>2 DEF Keeps, Stored
    <3> QED
      BY <1>1, <1>4, <1>6, <1>9, <2>2, <3>1 DEF GivenUp
  <2> QED
    BY <2>1, <2>2
<1>11. Keeps(c)'
  BY <1>4, <1>6, <1>9, <1>10 DEF Keeps
<1>12. \A d \in Calls : Keeps(d)'
  BY <1>6, <1>11, OneKeeps
<1> QED
  BY <1>3, <1>7, <1>8, <1>12 DEF NotForgotten

\* A storage operation that is cut: of the keys some are done.
Cut(c) ==
    store' \in [access : {store.access, Target(c).access},
                refresh : {store.refresh, Target(c).refresh},
                account : {store.account, Target(c).account}]

\* What the storage ends in after a cut is what it ended in, what the method holds,
\* or nothing.
LEMMA CutEnds ==
    ASSUME ChainInv, NEW c \in Calls, Cut(c)
    PROVE  /\ \/ store'.refresh = store.refresh
              \/ store'.refresh = None
              \/ call[c].token # None /\ store'.refresh = call[c].token.refresh
           /\ store'.refresh \in Seen \cup {None}
           /\ call[c].at = "idle" => /\ store'.refresh = store.refresh
                                     /\ store'.access = store.access
<1>1. store'.refresh \in {store.refresh, Target(c).refresh}
      /\ store'.access \in {store.access, Target(c).access}
  BY DEF Cut
<1>2. store \in Store
  BY DEF ChainInv, TypeInv, TypeOK, Store
<1>3. CASE call[c].at = "saveToken"
  <2>1. Target(c).refresh = call[c].token.refresh
    BY <1>2, <1>3 DEF Target, Store
  <2> QED
    BY <1>1, <1>3, <2>1, SavedPair DEF ChainInv, NotForgotten, FromServer
<1>4. CASE call[c].at \in {"clearToken", "clearAll"}
  <2>1. Target(c).refresh = None
    BY <1>2, <1>4 DEF Target, Store
  <2> QED
    BY <1>1, <1>4, <2>1 DEF ChainInv, NotForgotten, FromServer
<1>5. CASE call[c].at \notin {"saveToken", "clearToken", "clearAll"}
  <2>1. Target(c).refresh = store.refresh /\ Target(c).access = store.access
    BY <1>2, <1>5 DEF Target, Store
  <2> QED
    BY <1>1, <1>5, <2>1 DEF ChainInv, NotForgotten, FromServer
<1> QED
  BY <1>3, <1>4, <1>5

\* A kill that meets a running method loses what is stored or held; at rest it
\* changes nothing that is stored.
LEMMA KillChains == ASSUME ChainInv, Kill PROVE NotForgotten'
<1>1. /\ chain' = chain /\ used' = used /\ adrift \subseteq adrift'
      /\ \A c \in Calls : call'[c] = Idle
  BY DEF Kill
<1>2. PICK c \in Calls : Cut(c)
  BY DEF Kill, Cut
<1>3. \A d \in Calls : Keeps(d)'
  BY <1>1, IdleTyped DEF Keeps
<1>4. Distinct'
  BY <1>1 DEF ChainInv, NotForgotten, Distinct, Ends
<1>5. FromServer'
  BY <1>1, <1>2, CutEnds, IdleTyped DEF FromServer, Seen
<1>6. CASE Quiet
  <2>1. store'.refresh = store.refresh /\ store'.access = store.access
    BY <1>2, <1>6, CutEnds, IdleTyped DEF Quiet
  <2>2. \A f \in Tokens, d \in Calls : ~Holds(d, f)
    BY <1>6, IdleTyped DEF Quiet, Holds
  <2>3. Halves'
    BY <1>1, <2>1 DEF ChainInv, NotForgotten, Halves, Lost, Ends, Stored
  <2>4. \A f \in Tokens : Kept(f)'
    BY <1>1, <2>1, <2>2 DEF ChainInv, NotForgotten, Kept
  <2> QED
    BY <1>3, <1>4, <1>5, <2>3, <2>4 DEF NotForgotten
<1>7. CASE ~Quiet
  <2>1. adrift' = adrift \cup ChainsOf(store.refresh)
                         \cup (UNION {HeldChains(d) : d \in Calls})
    BY <1>7 DEF Kill
  <2>2. \A f \in Tokens : Ends(f, store.refresh) => f \in adrift'
    BY <2>1 DEF ChainsOf, Ends
  <2>3. \A f \in Tokens, d \in Calls : Holds(d, f) => f \in adrift'
    <3>1. \A f \in Tokens, d \in Calls : Holds(d, f) => f \in HeldChains(d)
      BY DEF HeldChains, ChainsOf, Holds, Ends
    <3> QED
      BY <2>1, <3>1
  <2>4. \A f \in Tokens : ~Ends(f, None)
    BY NoneEnds DEF ChainInv
  <2>5. Halves'
    BY <1>1, <1>2, <2>2, <2>3, <2>4, CutEnds DEF Halves, Lost, Holds, Ends
  <2>6. \A f \in Tokens : Kept(f)'
    BY <1>1, <2>2, <2>3 DEF ChainInv, NotForgotten, Kept, Ends
  <2> QED
    BY <1>3, <1>4, <1>5, <2>5, <2>6 DEF NotForgotten
<1> QED
  BY <1>6, <1>7

\* A method ends, or goes on as a refresh.
LEMMA EndsChains ==
    ASSUME ChainInv, NEW c \in Calls,
           \/ RestoreNothing(c) \/ RestoreValid(c) \/ RestoreExpired(c)
           \/ UnlockRead(c) \/ LoginFails(c) \/ Enter(c) \/ Leave(c) \/ Exit(c)
    PROVE  NotForgotten'
<1>1. chain' = chain /\ used' = used /\ store' = store /\ adrift' = adrift
  BY DEF RestoreNothing, RestoreValid, RestoreExpired, UnlockRead, LoginFails,
         Enter, Leave, Exit, history
<1>2. \/ call[c].op \in {"restore", "unlock"} /\ call[c].at = "readAccount"
      \/ call[c].at \in {"enter", "leave", "exit"}
      \/ /\ call[c].op \in {"login", "otp"} /\ call[c].at = "answered"
         /\ call[c].reply # "ok" \/ call[c].token = None
  BY DEF RestoreNothing, RestoreValid, RestoreExpired, UnlockRead, LoginFails,
         Enter, Leave, Exit, At
<1> DEFINE w == [Idle EXCEPT !.op = "refresh", !.at = "readToken"]
<1>3. w \in Call /\ w.at = "readToken" /\ w.token = None
  BY DEF Idle, Call
<1>4. \/ call' = [call EXCEPT ![c] = Idle]
      \/ call' = [call EXCEPT ![c] = w]
  BY DEF RestoreNothing, RestoreValid, RestoreExpired, UnlockRead, LoginFails,
         Enter, Leave, Exit, Return
<1> HIDE DEF w
<1> QED
  BY <1>1, <1>2, <1>3, <1>4, IdleTyped, LeavesOff

\* A step that touches neither the methods nor the chains nor the storage.
LEMMA UntouchedChains ==
    ASSUME ChainInv, call' = call, chain' = chain, used' = used,
           store' = store, adrift' = adrift
    PROVE  NotForgotten'
BY DEF ChainInv, NotForgotten, Distinct, FromServer, Halves, Kept, Keeps,
       GivenUp, Holds, Lost, Dead, Ends, Seen, Stored

\* Every step keeps what is not forgotten, one method at a time.
LEMMA StepChains == ChainInv /\ OneAtATime /\ [Next]_vars => ChainInv'
<1> SUFFICES ASSUME ChainInv, OneAtATime, [Next]_vars PROVE NotForgotten'
  BY StepTyped DEF ChainInv
<1>1. ASSUME NEW c \in Calls, call[c].at # "idle" PROVE Alone(c)
  BY <1>1 DEF OneAtATime, Alone
<1>2. ASSUME NEW c \in Calls, Step(c) \/ ResponseLost(c) PROVE NotForgotten'
  <2>1. Alone(c)
    BY <1>1, <1>2
       DEF Step, ResponseLost, RefreshRead, LogoutRead, UnlockRead,
           RestoreRead, RestoreNothing, RestoreValid, RestoreExpired,
           ServeLogin, ServeRefresh, ServeOtp, ServeLogout, ServeRefusal,
           RequestLost, LoginFails, Granted, RefreshFails, LogoutAnswered,
           SaveToken, SaveAccount, Enter, ClearToken, Leave, ClearAll, Exit, At
  <2>2. CASE RefreshRead(c) \/ LogoutRead(c) \/ RestoreRead(c)
    BY <2>1, <2>2, ReadsChains
  <2>3. CASE \/ RestoreNothing(c) \/ RestoreValid(c) \/ RestoreExpired(c)
             \/ UnlockRead(c) \/ LoginFails(c) \/ Enter(c) \/ Leave(c)
             \/ Exit(c)
    BY <2>3, EndsChains
  <2>4. CASE \/ ServeOtp(c) \/ ServeRefusal(c) \/ RequestLost(c)
             \/ ResponseLost(c)
    BY <2>1, <2>4, RepliesChains
  <2>5. CASE \E f, u \in Tokens : ServeLogin(c, f) \/ ServeRefresh(c, f, u)
    BY <2>1, <2>5, OpensChains, ExchangesChains
  <2>6. CASE ServeLogout(c)
    BY <2>1, <2>6, LogoutChains
  <2>7. CASE Granted(c) \/ RefreshFails(c) \/ LogoutAnswered(c)
    BY <2>7, GoesOnChains
  <2>8. CASE SaveToken(c) \/ SaveAccount(c)
    BY <2>1, <2>8, SavesChains
  <2>9. CASE ClearToken(c) \/ ClearAll(c)
    BY <2>1, <2>9, ClearsChains
  <2> QED
    BY <1>2, <2>2, <2>3, <2>4, <2>5, <2>6, <2>7, <2>8, <2>9 DEF Step
<1>3. ASSUME NEW c \in Calls,
             \/ \E a \in Accounts, op \in {"login", "otp"} : Login(c, op, a)
             \/ Refresh(c) \/ TimerFires(c) \/ RestoreSession(c)
             \/ UnlockWithPin(c) \/ Logout(c)
      PROVE  NotForgotten'
  BY <1>3, BeginsChains
<1>4. CASE UNCHANGED vars
  BY <1>4, UntouchedChains DEF vars, client, history
<1> QED
  BY <1>2, <1>3, <1>4, ClosesChains, KillChains DEF Next, Alive

\* While methods do not overlap, a chain the server keeps open is in the storage or
\* on its way there, unless it was lost on the way: a logout that is answered has
\* closed the chain that was stored.
THEOREM NothingForgotten == Spec /\ []OneAtATime => []ForgottenIsClosed
<1>1. ChainInv => ForgottenIsClosed
  BY DEF ChainInv, NotForgotten, ForgottenIsClosed, Kept, Holds, Ends,
         HeldChains, ChainsOf
<1> QED
  BY <1>1, InitChains, StepChains, PTL DEF Spec

----------------------------------------------------------------------------
(***************************************************************************)
(* One method at a time: what the app shows is what is stored.             *)
(***************************************************************************)

\* Between the first of its writes to the storage and the state it sets, a method
\* has the storage ahead of the state.
Ahead == {"saveAccount", "enter", "leave", "exit"}

Shown ==
    /\ state.kind = "authenticated"
    /\ \A c \in Calls : call[c].at \notin Ahead
    => state.token = Stored /\ state.account = store.account

\* A step that changes neither the state nor the storage.
LEMMA ShownSame ==
    ASSUME Shown, NEW c \in Calls, call[c].at \notin Ahead,
           state' = state, store' = store,
           \A d \in Calls : d # c => call'[d] = call[d]
    PROVE  Shown'
<1>1. (\A d \in Calls : call[d].at \notin Ahead)'
         => \A d \in Calls : call[d].at \notin Ahead
  OBVIOUS
<1>2. Stored' = Stored
  BY DEF Stored
<1> QED
  BY <1>1, <1>2 DEF Shown

\* Any step that sets the state shows what is stored, and no other step has to.
LEMMA StepShown ==
    ChainInv /\ (Shown \/ state' # state) /\ [Next]_vars => Shown'
<1> SUFFICES ASSUME ChainInv, Shown \/ state' # state, [Next]_vars
             PROVE  Shown'
  OBVIOUS
<1>1. call \in [Calls -> Call]
  BY DEF ChainInv, TypeInv, TypeOK
<1>2. ASSUME state'.kind # "authenticated" PROVE Shown'
  BY <1>2 DEF Shown
<1>3. ASSUME NEW c \in Calls, call'[c].at \in Ahead PROVE Shown'
  BY <1>3 DEF Shown
<1>4. ASSUME NEW c \in Calls,
             \/ \E a \in Accounts, op \in {"login", "otp"} : Login(c, op, a)
             \/ LoginFails(c) \/ RestoreNothing(c) \/ Leave(c) \/ Exit(c)
      PROVE  Shown'
  BY <1>2, <1>4
     DEF Login, LoginFails, RestoreNothing, Leave, Exit, Signed
<1>5. ASSUME NEW c \in Calls,
             \/ RefreshRead(c) \/ LogoutRead(c) \/ RestoreRead(c)
             \/ RestoreExpired(c) \/ UnlockRead(c)
      PROVE  Shown'
  <2>1. /\ store' = store /\ call[c].at \notin Ahead
        /\ \A d \in Calls : d # c => call'[d] = call[d]
        /\ state' = state \/ state'.kind # "authenticated"
    BY <1>1, <1>5
       DEF RefreshRead, LogoutRead, RestoreRead, RestoreExpired, UnlockRead,
           At, Ahead, Go, Return, Signed
  <2> QED
    BY <1>2, <2>1, ShownSame
<1>6. ASSUME NEW c \in Calls,
             \/ Granted(c) \/ RefreshFails(c) \/ LogoutAnswered(c)
             \/ ServeOtp(c) \/ ServeRefusal(c) \/ RequestLost(c)
             \/ ResponseLost(c) \/ ServeLogout(c)
             \/ \E f, u \in Tokens : ServeLogin(c, f) \/ ServeRefresh(c, f, u)
      PROVE  Shown'
  <2>1. store' = store /\ state' = state /\ call[c].at \in {"sent", "answered"}
    BY <1>6
       DEF Granted, RefreshFails, LogoutAnswered, ServeOtp, ServeRefusal,
           RequestLost, ResponseLost, ServeLogout, ServeLogin, ServeRefresh, At
  <2>2. \A d \in Calls : d # c => call'[d] = call[d]
    BY <1>1, <1>6
       DEF Granted, RefreshFails, LogoutAnswered, ServeOtp, ServeRefusal,
           RequestLost, ResponseLost, ServeLogout, ServeLogin, ServeRefresh,
           Answer, Go
  <2> QED
    BY <2>1, <2>2, ShownSame DEF Ahead
<1>7. ASSUME NEW c \in Calls,
             \/ Refresh(c) \/ TimerFires(c) \/ RestoreSession(c)
             \/ UnlockWithPin(c) \/ Logout(c)
      PROVE  Shown'
  <2>1. /\ store' = store /\ state' = state /\ call[c].at = "idle"
        /\ \A d \in Calls : d # c => call'[d] = call[d]
    BY <1>1, <1>7
       DEF Refresh, TimerFires, RestoreSession, UnlockWithPin, Logout, Begin
  <2> QED
    BY <2>1, ShownSame DEF Ahead
<1>8. ASSUME NEW c \in Calls,
             SaveToken(c) \/ SaveAccount(c) \/ ClearToken(c) \/ ClearAll(c)
      PROVE  Shown'
  <2>1. call'[c].at \in Ahead
    BY <1>1, <1>8
       DEF SaveToken, SaveAccount, ClearToken, ClearAll, Go, Ahead, Call
  <2> QED
    BY <1>3, <2>1
<1>9. ASSUME NEW c \in Calls, RestoreValid(c) \/ Enter(c) PROVE Shown'
  <2>1. Keeps(c)
    BY DEF ChainInv, NotForgotten
  <2>2. /\ state'.token = call[c].token /\ call[c].token = Stored
        /\ state'.account = store.account
    BY <1>9, <2>1 DEF RestoreValid, Enter, At, Keeps
  <2>3. Stored' = Stored /\ store' = store
    BY <1>9 DEF RestoreValid, Enter, Stored
  <2> QED
    BY <2>2, <2>3 DEF Shown
<1>10. CASE ServerCloses \/ UNCHANGED vars
  <2>1. state' = state /\ store' = store /\ call' = call
    BY <1>10 DEF ServerCloses, vars, client
  <2> QED
    BY <2>1 DEF Shown, Stored
<1>11. CASE Kill
  BY <1>2, <1>11 DEF Kill, Signed
<1> QED
  BY <1>4, <1>5, <1>6, <1>7, <1>8, <1>9, <1>10, <1>11 DEF Next, Alive, Step

\* The app begins signed out.
LEMMA InitShown == Init => Shown
BY DEF Init, Shown, Signed

\* At rest every write to the storage has been followed by its state.
LEMMA ShownAtRest == Shown => AuthenticatedIsStored
BY IdleTyped DEF Shown, Ahead, AuthenticatedIsStored, Quiet

\* While methods do not overlap, an authenticated app at rest shows what is stored:
\* after a restart it would find the same session.
THEOREM ShowsWhatIsStored == Spec /\ []OneAtATime => []AuthenticatedIsStored
<1>1. ChainInv /\ Shown /\ OneAtATime /\ [Next]_vars => (ChainInv /\ Shown)'
  BY StepChains, StepShown
<1> QED
  BY <1>1, InitChains, InitShown, ShownAtRest, PTL DEF Spec

----------------------------------------------------------------------------
(***************************************************************************)
(* One method at a time: the app shows the account its chain is for.       *)
(***************************************************************************)

\* The method has a pair of the server's that is not yet in the storage with its
\* account.
Won(c) ==
    \/ call[c].at = "answered" /\ call[c].reply = "ok"
    \/ call[c].at \in {"saveToken", "saveAccount"}

\* A token of the server's that no chain ends in, and none will.
Spent(t) == t \in Seen /\ Dead(t)

\* A method knows which account its pair is for.  While it has not shown it, the
\* app shows nothing, or a token that is spent.
Owns(c) ==
    /\ call[c].op \in {"login", "otp"} => state.kind = "authenticating"
    /\ call[c].op = "refresh" /\ Won(c) /\ state.kind = "authenticated"
          => Spent(state.token.refresh)
    /\ call[c].op # "logout" /\ (Won(c) \/ call[c].at = "enter")
          => \A f \in Tokens : Holds(c, f) => chain[f].account = call[c].acct
    /\ call[c].at \in {"sent", "answered"}
          => call[c].op \in {"login", "otp", "refresh", "logout"}
    /\ call[c].at \in {"saveToken", "saveAccount", "enter"}
          => call[c].op \in {"login", "otp", "refresh"}

\* The stored token and the stored account belong together.
StoreOwn ==
    ~torn /\ (\A c \in Calls : call[c].at # "saveAccount")
        => \A f \in Tokens : Ends(f, store.refresh) =>
              store.account \in {None, chain[f].account}

StateOwn ==
    ~torn /\ state.kind = "authenticated"
        => \A f \in Tokens : Ends(f, state.token.refresh) =>
              state.account = chain[f].account

Own == (\A c \in Calls : Owns(c)) /\ StoreOwn /\ StateOwn

\* The token the app shows is the stored one, or spent, or nothing is stored.
Matches ==
    /\ state.kind = "authenticated"
    /\ \A c \in Calls : call[c].at \notin Ahead
    => \/ state.token.refresh = store.refresh
       \/ Stored = None
       \/ Spent(state.token.refresh)

LEMMA ShownMatches == Shown => Matches
BY DEF Shown, Matches, Stored

\* A method that moves while the others are idle.
LEMMA OneOwns ==
    ASSUME TypeInv, NEW c \in Calls, Alone(c),
           \A d \in Calls : d # c => call'[d] = call[d], Owns(c)'
    PROVE  \A d \in Calls : Owns(d)'
<1> SUFFICES ASSUME NEW d \in Calls, d # c PROVE Owns(d)'
  OBVIOUS
<1>1. call'[d].at = "idle" /\ call'[d].op = "none"
  BY DEF TypeInv, CallInv, Alone
<1> QED
  BY <1>1 DEF Owns, Won

\* Neither the server nor the storage moves, and no session is entered.
LEMMA StoredOwn ==
    ASSUME Own, NEW c \in Calls, call[c].at # "saveAccount",
           chain' = chain, store' = store, torn' = torn,
           state' = state \/ state'.kind # "authenticated",
           \A d \in Calls : d # c => call'[d] = call[d]
    PROVE  StoreOwn' /\ StateOwn'
<1>1. (\A d \in Calls : call[d].at # "saveAccount")'
         => \A d \in Calls : call[d].at # "saveAccount"
  OBVIOUS
<1>2. StoreOwn'
  BY <1>1 DEF Own, StoreOwn, Ends
<1>3. StateOwn'
  BY DEF Own, StateOwn, Ends
<1> QED
  BY <1>2, <1>3

\* A method begins: a login covers what was shown.
LEMMA BeginsOwn ==
    ASSUME TypeInv, Own, NEW c \in Calls,
           \/ \E a \in Accounts, op \in {"login", "otp"} : Login(c, op, a)
           \/ Refresh(c) \/ TimerFires(c) \/ RestoreSession(c)
           \/ UnlockWithPin(c) \/ Logout(c)
    PROVE  Own'
<1>1. /\ call \in [Calls -> Call] /\ call[c].at = "idle"
      /\ chain' = chain /\ used' = used /\ store' = store /\ torn' = torn
  BY DEF TypeInv, TypeOK, Login, Refresh, TimerFires, RestoreSession,
         UnlockWithPin, Logout, Begin, history
<1>2. \A d \in Calls : d # c => call'[d] = call[d]
  BY <1>1 DEF Login, Refresh, TimerFires, RestoreSession, UnlockWithPin,
              Logout, Begin
<1>3. \/ /\ call'[c].op \in {"login", "otp"} /\ call'[c].at = "sent"
         /\ state'.kind = "authenticating"
      \/ /\ call'[c].op \in {"refresh", "restore", "logout", "unlock"}
         /\ call'[c].at \in {"readToken", "readAccount"} /\ state' = state
  <2>1. CASE \E a \in Accounts, op \in {"login", "otp"} : Login(c, op, a)
    BY <1>1, <2>1 DEF Login, Signed
  <2>2. CASE \/ Refresh(c) \/ TimerFires(c) \/ RestoreSession(c)
             \/ UnlockWithPin(c) \/ Logout(c)
    <3>1. PICK op \in {"refresh", "restore", "logout", "unlock"},
               at \in {"readToken", "readAccount"} : Begin(c, op, at)
      BY <2>2 DEF Refresh, TimerFires, RestoreSession, UnlockWithPin, Logout
    <3>2. call'[c].op = op /\ call'[c].at = at
      BY <1>1, <3>1 DEF Begin, Idle
    <3> QED
      BY <2>2, <3>2
         DEF Refresh, TimerFires, RestoreSession, UnlockWithPin, Logout
  <2> QED
    BY <2>1, <2>2
<1>4. Owns(c)'
  BY <1>3 DEF Owns, Won
<1>5. ASSUME NEW d \in Calls, d # c PROVE Owns(d)'
  BY <1>1, <1>2, <1>3, <1>5
     DEF Own, Owns, Won, Spent, Seen, Dead, Holds, Ends
<1>6. StoreOwn' /\ StateOwn'
  BY <1>1, <1>2, <1>3, StoredOwn
<1> QED
  BY <1>4, <1>5, <1>6 DEF Own

\* A method that reads, or is answered no pair that can be exchanged.
LEMMA WaitsOwn ==
    ASSUME TypeInv, Own, NEW c \in Calls, Alone(c),
           \/ RefreshRead(c) /\ Stored # None
           \/ LogoutRead(c) \/ RestoreRead(c)
           \/ ServeOtp(c) \/ ServeRefusal(c) \/ RequestLost(c)
           \/ ResponseLost(c)
           \/ Granted(c) \/ RefreshFails(c) \/ LogoutAnswered(c)
    PROVE  Own'
<1>1. /\ call \in [Calls -> Call] /\ call[c] \in Call /\ Owns(c)
      /\ chain' = chain /\ store' = store /\ torn' = torn /\ state' = state
      /\ used' = used /\ call[c].at # "saveAccount"
      /\ Stored \in Pair \cup {None}
  BY Helpers
     DEF TypeInv, TypeOK, Own, RefreshRead, LogoutRead, RestoreRead, ServeOtp,
         ServeRefusal, RequestLost, ResponseLost, Granted, RefreshFails,
         LogoutAnswered, At, history
<1>2. \A d \in Calls : d # c => call'[d] = call[d]
  BY <1>1 DEF RefreshRead, LogoutRead, RestoreRead, ServeOtp, ServeRefusal,
              RequestLost, ResponseLost, Granted, RefreshFails,
              LogoutAnswered, Go, Answer
<1>3. Owns(c)'
  <2>1. CASE \/ RefreshRead(c) /\ Stored # None
             \/ LogoutRead(c) \/ RestoreRead(c)
    <3>1. /\ call'[c].op = call[c].op
          /\ call[c].op \in {"refresh", "logout", "restore"}
          /\ \/ call'[c].at \in {"readAccount", "clearAll"}
             \/ call'[c].at = "sent" /\ call[c].op # "restore"
      BY <1>1, <2>1 DEF RefreshRead, LogoutRead, RestoreRead, At, Go, Call
    <3> QED
      BY <3>1 DEF Owns, Won
  <2>2. CASE ServeOtp(c)
    <3>1. /\ call'[c].op = "otp" /\ call'[c].at = "answered"
          /\ call'[c].token \in {PairOf(Empty), None} /\ call[c].op = "otp"
      BY <1>1, <2>2 DEF ServeOtp, Answer, At
    <3>2. \A f \in Tokens : ~Ends(f, Empty)
      BY NamesAssumption
         DEF TypeInv, TypeOK, Server!TypeOK, Server!End, Ends, Names
    <3>3. \A f \in Tokens : ~Holds(c, f)'
      BY <1>1, <3>1, <3>2 DEF Holds, Ends, PairOf
    <3> QED
      BY <1>1, <3>1, <3>3 DEF Owns
  <2>3. CASE ServeRefusal(c) \/ RequestLost(c) \/ ResponseLost(c)
    <3>1. /\ call'[c].op = call[c].op /\ call'[c].at = "answered"
          /\ call'[c].reply # "ok" /\ call[c].at \in {"sent", "answered"}
      BY <1>1, <2>3 DEF ServeRefusal, RequestLost, ResponseLost, Call
    <3> QED
      BY <1>1, <3>1 DEF Owns, Won
  <2>4. CASE Granted(c)
    <3>1. /\ call'[c].op = call[c].op /\ call'[c].at = "saveToken"
          /\ call'[c].acct = call[c].acct /\ call'[c].token = call[c].token
          /\ call[c].op # "logout" /\ call[c].at = "answered"
          /\ call[c].reply = "ok"
      BY <1>1, <2>4 DEF Granted, Go, Call
    <3> QED
      BY <1>1, <3>1 DEF Owns, Won, Spent, Seen, Dead, Holds, Ends
  <2>5. CASE RefreshFails(c) \/ LogoutAnswered(c)
    <3>1. /\ call'[c].op = call[c].op
          /\ call'[c].at \in {"clearToken", "clearAll"}
      BY <1>1, <2>5 DEF RefreshFails, LogoutAnswered, Go, Call
    <3> QED
      BY <1>1, <3>1 DEF Owns, Won
  <2> QED
    BY <2>1, <2>2, <2>3, <2>4, <2>5
<1>4. StoreOwn' /\ StateOwn'
  BY <1>1, <1>2, StoredOwn
<1> QED
  BY <1>2, <1>3, <1>4, OneOwns DEF Own

\* A method lets go, and what it may show is what it has read or saved.
LEMMA LeavesOwn ==
    ASSUME ChainInv, Own, NEW c \in Calls, Alone(c),
           call[c].at # "saveAccount",
           \/ call' = [call EXCEPT ![c] = Idle]
           \/ call' = [call EXCEPT ![c] = [Idle EXCEPT !.op = "refresh",
                                                      !.at = "readToken"]],
           chain' = chain, store' = store, torn' = torn,
           \/ state' = state
           \/ state'.kind # "authenticated"
           \/ /\ At(c, "restore", "readAccount")
              /\ call[c].token # None /\ store.account # None
              /\ state'.token = call[c].token /\ state'.account = store.account
           \/ /\ call[c].at = "enter"
              /\ state'.token = call[c].token /\ state'.account = call[c].acct
    PROVE  Own'
<1>1. TypeInv /\ Keeps(c) /\ Owns(c)
  BY DEF ChainInv, NotForgotten, Own
<1>2. /\ \A d \in Calls : d # c => call'[d] = call[d]
      /\ \/ call'[c] = Idle
         \/ call'[c].op = "refresh" /\ call'[c].at = "readToken"
  BY DEF Idle, ChainInv, TypeInv, TypeOK
<1>3. Owns(c)'
  BY <1>2, IdleTyped DEF Owns, Won
<1>4. StoreOwn'
  <2>1. (\A d \in Calls : call[d].at # "saveAccount")'
           => \A d \in Calls : call[d].at # "saveAccount"
    BY <1>2
  <2> QED
    BY <2>1 DEF Own, StoreOwn, Ends
<1>5. StateOwn'
  <2>1. CASE state' = state \/ state'.kind # "authenticated"
    BY <2>1 DEF Own, StateOwn, Ends
  <2>2. CASE /\ At(c, "restore", "readAccount")
             /\ call[c].token # None /\ store.account # None
             /\ state'.token = call[c].token /\ state'.account = store.account
    <3>1. state'.token.refresh = store.refresh
      BY <1>1, <2>2 DEF At, Keeps, Stored
    <3>2. \A d \in Calls : call[d].at # "saveAccount"
      BY DEF Alone
    <3> QED
      BY <2>2, <3>1, <3>2 DEF Own, StoreOwn, StateOwn, Ends
  <2>3. CASE /\ call[c].at = "enter"
             /\ state'.token = call[c].token /\ state'.account = call[c].acct
    <3>1. call[c].token # None /\ call[c].op # "logout"
      BY <1>1, <2>3, SavedPair DEF Owns
    <3> QED
      BY <1>1, <2>3, <3>1 DEF Owns, Holds, StateOwn, Ends
  <2> QED
    BY <2>1, <2>2, <2>3
<1> QED
  BY <1>1, <1>2, <1>3, <1>4, <1>5, OneOwns DEF Own

\* A method ends, or goes on as a refresh.
LEMMA EndsOwn ==
    ASSUME ChainInv, Own, NEW c \in Calls, Alone(c),
           \/ RefreshRead(c) /\ Stored = None
           \/ RestoreNothing(c) \/ RestoreValid(c) \/ RestoreExpired(c)
           \/ UnlockRead(c) \/ LoginFails(c) \/ Enter(c) \/ Leave(c) \/ Exit(c)
    PROVE  Own'
<1>1. /\ chain' = chain /\ store' = store /\ torn' = torn
      /\ call[c].at # "saveAccount"
  BY DEF RefreshRead, RestoreNothing, RestoreValid, RestoreExpired, UnlockRead,
         LoginFails, Enter, Leave, Exit, At, history
<1>2. \/ call' = [call EXCEPT ![c] = Idle]
      \/ call' = [call EXCEPT ![c] = [Idle EXCEPT !.op = "refresh",
                                                 !.at = "readToken"]]
  BY DEF RefreshRead, RestoreNothing, RestoreValid, RestoreExpired, UnlockRead,
         LoginFails, Enter, Leave, Exit, Return
<1>3. \/ state' = state
      \/ state'.kind # "authenticated"
      \/ /\ At(c, "restore", "readAccount")
         /\ call[c].token # None /\ store.account # None
         /\ state'.token = call[c].token /\ state'.account = store.account
      \/ /\ call[c].at = "enter"
         /\ state'.token = call[c].token /\ state'.account = call[c].acct
  BY DEF RefreshRead, RestoreNothing, RestoreValid, RestoreExpired, UnlockRead,
         LoginFails, Enter, Leave, Exit, Signed
<1> QED
  BY <1>1, <1>2, <1>3, LeavesOwn

\* The server opens a chain for the account that logs in.
LEMMA OpensOwn ==
    ASSUME ChainInv, ChainInv', Own, NEW c \in Calls, Alone(c),
           NEW t \in Tokens, ServeLogin(c, t)
    PROVE  Own'
<1>1. /\ call \in [Calls -> Call] /\ TypeInv /\ Owns(c)
      /\ chain \in [Tokens -> Server!End \cup {None}]
      /\ store' = store /\ torn' = torn /\ state' = state
      /\ call[c].op = "login" /\ call[c].at = "sent"
      /\ call[c].acct \in Accounts /\ t \notin used
      /\ chain' = [chain EXCEPT ![t] = [token |-> t, account |-> call[c].acct]]
  BY DEF ChainInv, TypeInv, TypeOK, CallInv, Server!TypeOK, Own, ServeLogin,
         At, Server!Open, history
<1>2. /\ chain'[t].token = t /\ chain'[t].account = call[c].acct
      /\ chain'[t] # None
      /\ \A f \in Tokens : f # t => chain'[f] = chain[f]
  <2>1. [token |-> t, account |-> call[c].acct] \in Server!End
    BY <1>1 DEF Server!End
  <2> QED
    BY <1>1, <2>1, NamesAssumption
<1>3. /\ call'[c].op = "login" /\ call'[c].at = "answered"
      /\ call'[c].acct = call[c].acct /\ call'[c].token.refresh = t
      /\ \A d \in Calls : d # c => call'[d] = call[d]
  BY <1>1 DEF ServeLogin, Answer, PairOf
<1>4. state'.kind = "authenticating"
  BY <1>1 DEF Owns
<1>5. Owns(c)'
  <2>1. \A f \in Tokens : Ends(f, t)' => f = t
    BY <1>2 DEF ChainInv, NotForgotten, Distinct
  <2> QED
    BY <1>2, <1>3, <1>4, <2>1 DEF Owns, Holds
<1>6. StoreOwn'
  <2>1. store.refresh # t
    BY <1>1, NamesAssumption
       DEF ChainInv, NotForgotten, FromServer, Seen, Names
  <2>2. (\A d \in Calls : call[d].at # "saveAccount")
    BY <1>1 DEF Alone
  <2> QED
    BY <1>1, <1>2, <2>1, <2>2 DEF Own, StoreOwn, Ends
<1>7. StateOwn'
  BY <1>4 DEF StateOwn
<1> QED
  BY <1>1, <1>3, <1>5, <1>6, <1>7, OneOwns DEF Own

\* The server exchanges the stored token: what is shown and stored is spent.
LEMMA ExchangesOwn ==
    ASSUME ChainInv, ChainInv', Matches, Own, NEW c \in Calls, Alone(c),
           NEW f \in Tokens, NEW u \in Tokens, ServeRefresh(c, f, u)
    PROVE  Own'
<1>1. /\ call \in [Calls -> Call] /\ TypeInv /\ Keeps(c)
      /\ chain \in [Tokens -> Server!End \cup {None}]
      /\ store' = store /\ torn' = torn /\ state' = state
      /\ call[c].op = "refresh" /\ call[c].at = "sent"
      /\ f \in HeldChains(c) /\ chain[f] # None
      /\ u \notin used /\ used' = used \cup {u}
      /\ chain' = [chain EXCEPT ![f].token = u]
  BY DEF ChainInv, NotForgotten, TypeInv, TypeOK, Server!TypeOK, ServeRefresh,
         At, Server!Exchange, history
<1>2. /\ chain'[f] # None /\ chain'[f].token = u
      /\ chain'[f].account = chain[f].account
  <2> DEFINE e == [chain[f] EXCEPT !.token = u]
  <2>1. chain[f] \in Server!End
    BY <1>1
  <2>2. e \in Server!End /\ e.token = u /\ e.account = chain[f].account
    BY <2>1 DEF Server!End
  <2>3. chain' = [chain EXCEPT ![f] = e]
    BY <1>1
  <2> HIDE DEF e
  <2> QED
    BY <1>1, <2>2, <2>3, NamesAssumption
<1>3. /\ call'[c].op = "refresh" /\ call'[c].at = "answered"
      /\ call'[c].reply = "ok" /\ call'[c].acct = chain[f].account
      /\ call'[c].token.refresh = u
      /\ \A d \in Calls : d # c => call'[d] = call[d]
  BY <1>1 DEF ServeRefresh, Answer, PairOf
<1>4. Dead(store.refresh)'
  BY <1>3 DEF ChainInv, NotForgotten, Keeps
<1>5. ASSUME state.kind = "authenticated"
      PROVE  Spent(state.token.refresh)'
  <2>1. Stored # None /\ \A d \in Calls : call[d].at \notin Ahead
    BY <1>1 DEF Alone, Ahead, HeldChains, Keeps
  <2>2. CASE state.token.refresh = store.refresh
    <3>1. store.refresh \in Seen
      BY <2>1 DEF Stored, ChainInv, NotForgotten, FromServer
    <3> QED
      BY <1>1, <1>4, <2>2, <3>1 DEF Spent, Seen, Dead
  <2>3. CASE Spent(state.token.refresh)
    <3>1. state.token.refresh # u
      BY <1>1, <2>3, NamesAssumption DEF Spent, Seen
    <3> QED
      BY <1>1, <1>2, <2>3, <3>1 DEF Spent, Seen, Dead, Ends
  <2> QED
    BY <1>5, <2>1, <2>2, <2>3 DEF Matches
<1>6. Owns(c)'
  <2>1. \A g \in Tokens : Ends(g, u)' => g = f
    BY <1>2 DEF ChainInv, NotForgotten, Distinct
  <2> QED
    BY <1>1, <1>2, <1>3, <1>5, <2>1 DEF Owns, Holds
<1>7. StoreOwn' /\ StateOwn'
  BY <1>1, <1>4, <1>5 DEF StoreOwn, StateOwn, Spent, Dead
<1> QED
  BY <1>1, <1>3, <1>6, <1>7, OneOwns DEF Own

\* Chains that are closed are nobody's.
LEMMA ClosedOwn ==
    ASSUME Own, Closes, store' = store, state' = state, torn' = torn,
           \A d \in Calls : (call[d].at = "saveAccount") =>
                            (call'[d].at = "saveAccount")
    PROVE  /\ StoreOwn' /\ StateOwn'
           /\ \A d \in Calls : call'[d] = call[d] => Owns(d)'
<1>1. \A t : \A f \in Tokens :
         Ends(f, t)' => Ends(f, t) /\ chain'[f] = chain[f]
  BY DEF Closes, Ends
<1>2. StoreOwn' /\ StateOwn'
  BY <1>1 DEF Own, StoreOwn, StateOwn
<1>3. ASSUME NEW d \in Calls, call'[d] = call[d] PROVE Owns(d)'
  <2>1. Spent(state.token.refresh) => Spent(state.token.refresh)'
    BY <1>1 DEF Closes, Spent, Seen, Dead
  <2>2. \A f \in Tokens : Holds(d, f)' => Holds(d, f) /\ chain'[f] = chain[f]
    BY <1>1, <1>3 DEF Holds
  <2> QED
    BY <1>3, <2>1, <2>2 DEF Own, Owns, Won
<1> QED
  BY <1>2, <1>3

\* The server closes chains on its own, or for a logout.
LEMMA ClosesOwn == ASSUME ChainInv, Own, ServerCloses PROVE Own'
<1>1. /\ Closes /\ store' = store /\ state' = state /\ torn' = torn
      /\ call' = call
  BY DEF ServerCloses, Server!Close, Server!CloseAll, Closes, client, history,
         ChainInv, TypeInv, TypeOK, Server!TypeOK
<1> QED
  BY <1>1, ClosedOwn DEF Own

LEMMA LogoutOwn ==
    ASSUME ChainInv, Own, NEW c \in Calls, Alone(c), ServeLogout(c)
    PROVE  Own'
<1>1. /\ call \in [Calls -> Call] /\ call[c] \in Call /\ TypeInv
      /\ store' = store /\ state' = state /\ torn' = torn
      /\ call[c].op = "logout" /\ call[c].at = "sent"
  BY DEF ChainInv, TypeInv, TypeOK, ServeLogout, At, history
<1>2. Closes
  BY DEF ServeLogout, HeldChains, ChainsOf, Server!Close, Closes, ChainInv,
         TypeInv, TypeOK, Server!TypeOK
<1>3. /\ call'[c].op = "logout" /\ call'[c].at = "answered"
      /\ \A d \in Calls : d # c => call'[d] = call[d]
  BY <1>1 DEF ServeLogout, Call
<1>4. Owns(c)'
  BY <1>3 DEF Owns
<1> QED
  BY <1>1, <1>2, <1>3, <1>4, OneOwns, ClosedOwn DEF Own

\* A method stores its pair and then the account the pair is for, or deletes both.
LEMMA StoresOwn ==
    ASSUME ChainInv, Own, NEW c \in Calls, Alone(c),
           SaveToken(c) \/ SaveAccount(c) \/ ClearToken(c) \/ ClearAll(c)
    PROVE  Own'
<1>1. /\ call \in [Calls -> Call] /\ TypeInv /\ Keeps(c) /\ Owns(c)
      /\ chain' = chain /\ used' = used /\ state' = state
  BY DEF ChainInv, NotForgotten, TypeInv, TypeOK, Own, SaveToken, SaveAccount,
         ClearToken, ClearAll
<1>2. PICK at \in {"saveAccount", "enter", "leave", "exit"} :
         /\ Go(c, at)
         /\ at = "saveAccount" => SaveToken(c)
         /\ at = "enter" => SaveAccount(c)
         /\ at \in {"leave", "exit"} => ClearToken(c) \/ ClearAll(c)
  BY DEF SaveToken, SaveAccount, ClearToken, ClearAll
<1>3. PICK v \in Call :
         /\ call' = [call EXCEPT ![c] = v]
         /\ v.at = at /\ v.op = call[c].op /\ v.acct = call[c].acct
         /\ v.token = call[c].token /\ v.reply = call[c].reply
  BY <1>1, <1>2, GoFields
<1>4. call'[c] = v /\ \A d \in Calls : d # c => call'[d] = call[d]
  BY <1>1, <1>3
<1>5. /\ Spent(state.token.refresh)' <=> Spent(state.token.refresh)
      /\ \A f \in Tokens : Holds(c, f)' <=> Holds(c, f)
  BY <1>1, <1>3, <1>4 DEF Spent, Seen, Dead, Holds, Ends
<1>6. CASE at = "saveAccount"
  <2>1. call[c].at = "saveToken" /\ torn' = torn
    BY <1>2, <1>6 DEF SaveToken
  <2>2. Owns(c)'
    BY <1>1, <1>3, <1>4, <1>5, <1>6, <2>1 DEF Owns, Won
  <2>3. StoreOwn'
    BY <1>3, <1>4, <1>6 DEF StoreOwn
  <2>4. StateOwn'
    BY <1>1, <2>1 DEF Own, StateOwn, Ends
  <2> QED
    BY <1>1, <1>4, <2>2, <2>3, <2>4, OneOwns DEF Own
<1>7. CASE at = "enter"
  <2>1. call[c].at = "saveAccount"
    BY <1>2, <1>7 DEF SaveAccount
  <2>2. call[c].op \in {"login", "otp", "refresh"}
    BY <1>1, <2>1 DEF Owns
  <2>3. \A f \in Tokens : Holds(c, f) => chain[f].account = call[c].acct
    BY <1>1, <2>1, <2>2 DEF Owns, Won
  <2>4. Owns(c)'
    BY <1>1, <1>3, <1>4, <1>5, <1>7, <2>2, <2>3 DEF Owns, Won
  <2>5. StoreOwn'
    <3>1. store'.refresh = store.refresh /\ store'.account = call[c].acct
      BY <1>1, <1>2, <1>7, StoreWrites
    <3>2. call[c].token # None /\ call[c].token = Stored
      BY <1>1, <2>1, SavedPair DEF Keeps
    <3>3. call[c].token.refresh = store.refresh
      BY <3>2 DEF Stored
    <3> QED
      BY <1>1, <2>3, <3>1, <3>2, <3>3 DEF StoreOwn, Holds, Ends
  <2>6. StateOwn'
    BY <1>1, <2>1, <2>2 DEF Owns, Won, StateOwn, Spent, Dead, Ends
  <2> QED
    BY <1>1, <1>4, <2>4, <2>5, <2>6, OneOwns DEF Own
<1>8. CASE at \in {"leave", "exit"}
  <2>1. torn' = torn /\ store'.refresh = None
    BY <1>1, <1>2, <1>8, StoreWrites DEF ClearToken, ClearAll, history
  <2>2. Owns(c)'
    BY <1>1, <1>3, <1>4, <1>8 DEF Owns, Won
  <2>3. StoreOwn'
    BY <1>1, <2>1, NoneEnds DEF StoreOwn, Ends
  <2>4. StateOwn'
    BY <1>1, <2>1 DEF Own, StateOwn, Ends
  <2> QED
    BY <1>1, <1>4, <2>2, <2>3, <2>4, OneOwns DEF Own
<1> QED
  BY <1>6, <1>7, <1>8

\* A cut that meets no save leaves a token with its account, or one without the
\* other.
LEMMA CutOwn ==
    ASSUME ChainInv, Own, NEW c \in Calls, Cut(c), chain' = chain,
           ~torn' => /\ ~torn
                     /\ \A d \in Calls :
                           call[d].at \notin {"saveToken", "saveAccount"}
    PROVE  StoreOwn'
<1> SUFFICES ASSUME ~torn' PROVE StoreOwn'
  BY DEF StoreOwn
<1>1. /\ Target(c).refresh \in {store.refresh, None}
      /\ Target(c).account \in {store.account, None}
  BY DEF Target, ChainInv, TypeInv, TypeOK
<1>2. /\ store'.refresh \in {store.refresh, None}
      /\ store'.account \in {store.account, None}
  BY <1>1 DEF Cut
<1> QED
  BY <1>2, NoneEnds DEF ChainInv, Own, StoreOwn, Ends

LEMMA KillOwn == ASSUME ChainInv, Own, Kill PROVE Own'
<1>1. /\ chain' = chain /\ state'.kind = "unauthenticated"
      /\ \A c \in Calls : call'[c] = Idle
  BY DEF Kill, Signed
<1>2. \A c \in Calls : Owns(c)'
  BY <1>1, IdleTyped DEF Owns, Won
<1>3. StateOwn'
  BY <1>1 DEF StateOwn
<1>4. StoreOwn'
  <2>1. PICK c \in Calls : Cut(c)
    BY DEF Kill, Cut
  <2> QED
    BY <1>1, <2>1, CutOwn DEF Kill
<1> QED
  BY <1>2, <1>3, <1>4 DEF Own

\* Every step keeps each token with its account, one method at a time.
LEMMA StepOwn ==
    ChainInv /\ Matches /\ Own /\ OneAtATime /\ [Next]_vars => Own'
<1> SUFFICES ASSUME ChainInv, Matches, Own, OneAtATime, [Next]_vars
             PROVE  Own'
  OBVIOUS
<1>1. ChainInv' /\ TypeInv
  BY StepChains DEF ChainInv
<1>2. ASSUME NEW c \in Calls, Step(c) \/ ResponseLost(c) PROVE Own'
  <2>1. Alone(c)
    BY <1>2
       DEF OneAtATime, Alone, Step, ResponseLost, RefreshRead, LogoutRead,
           UnlockRead, RestoreRead, RestoreNothing, RestoreValid,
           RestoreExpired, ServeLogin, ServeRefresh, ServeOtp, ServeLogout,
           ServeRefusal, RequestLost, LoginFails, Granted, RefreshFails,
           LogoutAnswered, SaveToken, SaveAccount, Enter, ClearToken, Leave,
           ClearAll, Exit, At
  <2>2. CASE \/ RefreshRead(c) /\ Stored # None
             \/ LogoutRead(c) \/ RestoreRead(c)
             \/ ServeOtp(c) \/ ServeRefusal(c) \/ RequestLost(c)
             \/ ResponseLost(c)
             \/ Granted(c) \/ RefreshFails(c) \/ LogoutAnswered(c)
    BY <1>1, <2>1, <2>2, WaitsOwn
  <2>3. CASE \/ RefreshRead(c) /\ Stored = None
             \/ RestoreNothing(c) \/ RestoreValid(c) \/ RestoreExpired(c)
             \/ UnlockRead(c) \/ LoginFails(c) \/ Enter(c) \/ Leave(c)
             \/ Exit(c)
    BY <2>1, <2>3, EndsOwn
  <2>4. CASE \E f, u \in Tokens : ServeLogin(c, f) \/ ServeRefresh(c, f, u)
    BY <1>1, <2>1, <2>4, OpensOwn, ExchangesOwn
  <2>5. CASE ServeLogout(c)
    BY <2>1, <2>5, LogoutOwn
  <2>6. CASE SaveToken(c) \/ SaveAccount(c) \/ ClearToken(c) \/ ClearAll(c)
    BY <2>1, <2>6, StoresOwn
  <2> QED
    BY <1>2, <2>2, <2>3, <2>4, <2>5, <2>6 DEF Step
<1>3. ASSUME NEW c \in Calls,
             \/ \E a \in Accounts, op \in {"login", "otp"} : Login(c, op, a)
             \/ Refresh(c) \/ TimerFires(c) \/ RestoreSession(c)
             \/ UnlockWithPin(c) \/ Logout(c)
      PROVE  Own'
  BY <1>1, <1>3, BeginsOwn
<1>4. CASE UNCHANGED vars
  BY <1>4 DEF vars, client, history, Own, Owns, Won, StoreOwn, StateOwn, Spent,
              Seen, Dead, Holds, Ends
<1> QED
  BY <1>2, <1>3, <1>4, ClosesOwn, KillOwn DEF Next, Alive

\* The app begins with nothing to show.
LEMMA InitOwn == Init => Own
BY DEF Init, Server!Init, Signed, Idle, Own, Owns, Won, StoreOwn, StateOwn, Ends

LEMMA OwnShown == Own => OwnIdentity
BY DEF Own, StateOwn, OwnIdentity, ChainsOf, Ends

\* While methods do not overlap, an authenticated app shows the account the server
\* opened its chain for, unless it was killed between saving the token and saving
\* the account.
THEOREM ShowsOwnIdentity == Spec /\ []OneAtATime => []OwnIdentity
<1>1. ChainInv /\ Shown /\ Own /\ OneAtATime /\ [Next]_vars
         => (ChainInv /\ Shown /\ Own)'
  BY StepChains, StepShown, StepOwn, ShownMatches
<1> QED
  BY <1>1, InitChains, InitShown, InitOwn, OwnShown, PTL DEF Spec

=============================================================================
