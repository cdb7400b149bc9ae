--------------------------- MODULE PinLockProofs ---------------------------
(***************************************************************************)
(* Proofs about PinLock, for any sets of calls, PINs and salts, any limit  *)
(* and any duration of the lockout: its types, and, as long as calls do    *)
(* not overlap, that the lockout comes at the limit and lasts.             *)
(***************************************************************************)
EXTENDS PinLock, TLAPS

\* setPin knows what it stores.
Setting ==
    \A c \in Calls :
        call[c].at = "set" => call[c].pin \in Pins /\ call[c].salt \in Salts

TypeInv == TypeOK /\ Setting

\* The app awaits one call before it makes the next.
OneAtATime ==
    \A c, d \in Calls :
        call[c].at # "idle" /\ call[d].at # "idle" => c = d

\* The counter in the storage is ahead of the wrong PINs told: a kill may leave
\* an attempt that was counted and never told.
CountOK ==
    /\ wrong <= attempts
    /\ attempts <= maxPinAttempts
    /\ locked = None => wrong < maxPinAttempts

\* The lockout that is stored outlasts the one that was told.
BarOK == barred > 0 => locked # None /\ barred <= locked

\* What a call knows of the storage at each of its steps.
Knows(c) ==
    /\ call[c].at = "expired" => locked # None /\ locked <= 0
    /\ call[c].at \in {"restart", "salt", "hash", "match", "count", "write",
                       "lockout"} => locked = None
    /\ call[c].at = "restart" => wrong = 0
    /\ call[c].at \in {"write", "lockout"} =>
          call[c].attempts = OneMore(attempts)
    /\ call[c].at = "write" => attempts + 1 < maxPinAttempts

KnownOK == \A c \in Calls : Knows(c)

Inv == TypeInv /\ CountOK /\ BarOK /\ KnownOK

----------------------------------------------------------------------------
(***************************************************************************)
(* Types.                                                                  *)
(***************************************************************************)

\* A call that is not running.
LEMMA IdleType ==
    Idle \in Call /\ Idle.at = "idle" /\ Idle.left = Past
BY PinAssumption DEF Idle, Call, Past

\* One call moves.
LEMMA CallMoves ==
    ASSUME TypeInv, NEW c \in Calls, NEW v \in Call,
           call' = [call EXCEPT ![c] = v],
           v.at = "set" => v.pin \in Pins /\ v.salt \in Salts
    PROVE  /\ call' \in [Calls -> Call] /\ Setting'
           /\ call'[c] = v /\ \A d \in Calls : d # c => call'[d] = call[d]
BY DEF TypeInv, TypeOK, Setting

\* One call takes its next step.
LEMMA GoEffect ==
    ASSUME TypeInv, NEW c \in Calls, NEW at, Go(c, at),
           at \in {"expired", "restart", "salt", "match", "count"}
    PROVE  /\ call' \in [Calls -> Call] /\ Setting'
           /\ call'[c].at = at
           /\ \A d \in Calls : d # c => call'[d] = call[d]
<1> DEFINE v == [call[c] EXCEPT !.at = at]
<1>1. call[c] \in Call
  BY DEF TypeInv, TypeOK
<1>2. v \in Call /\ v.at = at
  BY <1>1 DEF Call
<1>3. call' = [call EXCEPT ![c] = v]
  BY <1>1 DEF Go
<1> HIDE DEF v
<1> QED
  BY <1>2, <1>3, CallMoves

\* One call returns.
LEMMA ReturnEffect ==
    ASSUME TypeInv, NEW c \in Calls, Return(c)
    PROVE  /\ call' \in [Calls -> Call] /\ Setting'
           /\ call'[c].at = "idle"
           /\ \A d \in Calls : d # c => call'[d] = call[d]
<1>1. call' = [call EXCEPT ![c] = Idle]
  BY DEF Return
<1> QED
  BY <1>1, IdleType, CallMoves

\* One call begins.
LEMMA BeginEffect ==
    ASSUME TypeInv, NEW c \in Calls,
           \/ \E p \in Pins : VerifyPin(c, p) \/ \E s \in Salts : SetPin(c, p, s)
           \/ ClearPin(c)
    PROVE  /\ call' \in [Calls -> Call] /\ Setting'
           /\ call'[c].at \in {"lock", "set", "clear"}
           /\ \A d \in Calls : d # c => call'[d] = call[d]
           /\ UNCHANGED <<keys, wrong, barred>>
<1>1. CASE \E p \in Pins : VerifyPin(c, p)
  <2> PICK p \in Pins : VerifyPin(c, p)
    BY <1>1
  <2> DEFINE v == [Idle EXCEPT !.at = "lock", !.pin = p]
  <2>1. v \in Call /\ v.at = "lock" /\ call' = [call EXCEPT ![c] = v]
    BY IdleType DEF VerifyPin, Begin, Idle, Call
  <2>2. UNCHANGED <<keys, wrong, barred>>
    BY DEF VerifyPin
  <2> HIDE DEF v
  <2> QED
    BY <2>1, <2>2, CallMoves
<1>2. CASE \E p \in Pins, s \in Salts : SetPin(c, p, s)
  <2> PICK p \in Pins, s \in Salts : SetPin(c, p, s)
    BY <1>2
  <2> DEFINE v == [at |-> "set", pin |-> p, salt |-> s, attempts |-> 0,
                   left |-> Past]
  <2>1. /\ v \in Call /\ v.at = "set" /\ v.pin = p /\ v.salt = s
        /\ call' = [call EXCEPT ![c] = v]
    BY PinAssumption DEF SetPin, Begin, Call, Past
  <2>2. UNCHANGED <<keys, wrong, barred>>
    BY DEF SetPin
  <2> HIDE DEF v
  <2> QED
    BY <2>1, <2>2, CallMoves
<1>3. CASE ClearPin(c)
  <2> DEFINE v == [Idle EXCEPT !.at = "clear"]
  <2>1. v \in Call /\ v.at = "clear" /\ call' = [call EXCEPT ![c] = v]
    BY <1>3, IdleType DEF ClearPin, Begin, Idle, Call
  <2>2. UNCHANGED <<keys, wrong, barred>>
    BY <1>3 DEF ClearPin
  <2> HIDE DEF v
  <2> QED
    BY <2>1, <2>2, CallMoves
<1> QED
  BY <1>1, <1>2, <1>3

\* The salt is read.
LEMMA ReadSaltEffect ==
    ASSUME TypeInv, NEW c \in Calls, ReadSalt(c)
    PROVE  /\ call' \in [Calls -> Call] /\ Setting'
           /\ call'[c].at = "hash"
           /\ \A d \in Calls : d # c => call'[d] = call[d]
<1> DEFINE v == [call[c] EXCEPT !.at = "hash", !.salt = salt]
<1>1. call[c] \in Call /\ salt \in Salts \cup {None}
  BY DEF TypeInv, TypeOK
<1>2. v \in Call /\ v.at = "hash"
  BY <1>1 DEF Call
<1>3. call' = [call EXCEPT ![c] = v]
  BY <1>1 DEF ReadSalt
<1> HIDE DEF v
<1> QED
  BY <1>2, <1>3, CallMoves

\* The counter is read: what the call will write, and whether that is a lockout.
LEMMA ReadAttemptsEffect ==
    ASSUME TypeInv, NEW c \in Calls, ReadAttempts(c)
    PROVE  /\ call' \in [Calls -> Call] /\ Setting'
           /\ call'[c].at \in {"write", "lockout"}
           /\ call'[c].attempts = OneMore(attempts)
           /\ call'[c].at = "write" => attempts + 1 < maxPinAttempts
           /\ \A d \in Calls : d # c => call'[d] = call[d]
<1> DEFINE v == [at |-> IF attempts + 1 >= maxPinAttempts
                        THEN "lockout" ELSE "write",
                 pin |-> call[c].pin, salt |-> call[c].salt,
                 attempts |-> OneMore(attempts), left |-> lockoutDuration]
<1>1. /\ call[c] \in Call /\ attempts \in Nat /\ maxPinAttempts \in Nat
      /\ OneMore(attempts) \in Nat
  BY PinAssumption DEF TypeInv, TypeOK, OneMore
<1>2. /\ v \in Call /\ v.at \in {"write", "lockout"}
      /\ v.attempts = OneMore(attempts)
      /\ v.at = "write" => attempts + 1 < maxPinAttempts
  BY <1>1, PinAssumption DEF Call, Past
<1>3. call' = [call EXCEPT ![c] = v]
  BY <1>1 DEF ReadAttempts
<1> HIDE DEF v
<1> QED
  BY <1>2, <1>3, CallMoves

\* Time passes for every call.
LEMMA TickEffect ==
    ASSUME TypeInv, Tick
    PROVE  /\ call' \in [Calls -> Call] /\ Setting'
           /\ \A d \in Calls : /\ call'[d].at = call[d].at
                               /\ call'[d].attempts = call[d].attempts
           /\ barred' \in Past .. lockoutDuration
           /\ locked' \in (Past .. lockoutDuration) \cup {None}
<1> DEFINE v(d) == [call[d] EXCEPT !.left = Less(@)]
<1>1. \A n \in Past .. lockoutDuration : Less(n) \in Past .. lockoutDuration
  BY PinAssumption DEF Less, Past
<1>2. ASSUME NEW d \in Calls
      PROVE  /\ v(d) \in Call /\ v(d).at = call[d].at
             /\ v(d).attempts = call[d].attempts
             /\ v(d).pin = call[d].pin /\ v(d).salt = call[d].salt
  <2>1. call[d] \in Call
    BY DEF TypeInv, TypeOK
  <2> QED
    BY <1>1, <2>1 DEF Call
<1>3. call' = [d \in Calls |-> v(d)]
  BY DEF Tick
<1> HIDE DEF v
<1>4. call' \in [Calls -> Call] /\ \A d \in Calls : call'[d] = v(d)
  BY <1>2, <1>3
<1>5. Setting'
  BY <1>2, <1>4 DEF TypeInv, Setting
<1>6. /\ barred' \in Past .. lockoutDuration
      /\ locked' \in (Past .. lockoutDuration) \cup {None}
  BY <1>1 DEF Tick, TypeInv, TypeOK
<1> QED
  BY <1>2, <1>4, <1>5, <1>6

\* What setPin and clearPin store.
LEMMA StoredType ==
    ASSUME TypeInv, NEW c \in Calls, call[c].at \in {"set", "clear"}
    PROVE  /\ call[c].salt \in Salts \cup {None}
           /\ (IF call[c].at = "clear" THEN None
               ELSE [pin |-> call[c].pin, salt |-> call[c].salt])
                 \in Hash \cup {None}
BY DEF TypeInv, TypeOK, Setting, Call, Hash

\* What wrong PINs store.
LEMMA CountedType ==
    ASSUME TypeInv, NEW c \in Calls
    PROVE  /\ call[c].attempts \in Nat
           /\ call[c].left \in Past .. lockoutDuration
BY DEF TypeInv, TypeOK, Call

\* Every step keeps the types.
LEMMA TypeStep == TypeInv /\ [Next]_vars => TypeInv'
<1> SUFFICES ASSUME TypeInv, [Next]_vars PROVE TypeInv'
  OBVIOUS
<1>1. ASSUME NEW c \in Calls,
             \/ \E p \in Pins :
                   VerifyPin(c, p) \/ \E s \in Salts : SetPin(c, p, s)
             \/ ClearPin(c)
      PROVE  TypeInv'
  BY <1>1, BeginEffect DEF TypeInv, TypeOK, keys
<1>2. ASSUME NEW c \in Calls, StorePin(c) PROVE TypeInv'
  BY <1>2, StoredType, ReturnEffect, PinAssumption
     DEF StorePin, TypeInv, TypeOK, Past
<1>3. ASSUME NEW c \in Calls, ReadLocked(c) PROVE TypeInv'
  BY <1>3, GoEffect, ReturnEffect DEF ReadLocked, TypeInv, TypeOK, keys
<1>4. ASSUME NEW c \in Calls, DeleteLocked(c) \/ DeleteAttempts(c)
      PROVE  TypeInv'
  BY <1>4, GoEffect DEF DeleteLocked, DeleteAttempts, TypeInv, TypeOK
<1>5. ASSUME NEW c \in Calls, ReadSalt(c) PROVE TypeInv'
  BY <1>5, ReadSaltEffect DEF ReadSalt, TypeInv, TypeOK, keys
<1>6. ASSUME NEW c \in Calls, ReadHash(c) PROVE TypeInv'
  BY <1>6, GoEffect, ReturnEffect DEF ReadHash, TypeInv, TypeOK, keys
<1>7. ASSUME NEW c \in Calls, ReadAttempts(c) PROVE TypeInv'
  BY <1>7, ReadAttemptsEffect DEF ReadAttempts, TypeInv, TypeOK, keys
<1>8. ASSUME NEW c \in Calls, Match(c) \/ WriteAttempts(c) \/ WriteLocked(c)
      PROVE  TypeInv'
  BY <1>8, ReturnEffect, CountedType
     DEF Match, WriteAttempts, WriteLocked, TypeInv, TypeOK
<1>9. CASE Kill
  <2>1. call' \in [Calls -> Call] /\ Setting'
    BY <1>9, IdleType DEF Kill, Setting
  <2>2. CASE UNCHANGED <<keys, wrong, barred>>
    BY <2>1, <2>2 DEF TypeInv, TypeOK, keys
  <2>3. ASSUME NEW c \in Calls, attempts' \in {attempts, call[c].attempts},
               locked' \in {locked, call[c].left},
               UNCHANGED <<salt, hash, wrong, barred>>
        PROVE  TypeInv'
    BY <2>1, <2>3, CountedType DEF TypeInv, TypeOK
  <2>4. ASSUME NEW c \in Calls, call[c].at \in {"set", "clear"},
               salt' \in {salt, call[c].salt},
               hash' \in {hash, IF call[c].at = "clear" THEN None
                                ELSE [pin |-> call[c].pin,
                                      salt |-> call[c].salt]},
               attempts' \in {attempts, 0}, locked' \in {locked, None},
               wrong' = 0, barred' = Past
        PROVE  TypeInv'
    <3>1. salt' \in Salts \cup {None} /\ hash' \in Hash \cup {None}
      <4> DEFINE h == IF call[c].at = "clear" THEN None
                      ELSE [pin |-> call[c].pin, salt |-> call[c].salt]
      <4>1. call[c].salt \in Salts \cup {None} /\ h \in Hash \cup {None}
        BY <2>4, StoredType
      <4>2. hash' \in {hash, h}
        BY <2>4
      <4> HIDE DEF h
      <4> QED
        BY <2>4, <4>1, <4>2 DEF TypeInv, TypeOK
    <3>2. /\ attempts' \in Nat
          /\ locked' \in (Past .. lockoutDuration) \cup {None}
      BY <2>4 DEF TypeInv, TypeOK
    <3>3. barred' \in Past .. lockoutDuration
      BY <2>4, PinAssumption DEF Past
    <3> QED
      BY <2>1, <2>4, <3>1, <3>2, <3>3 DEF TypeInv, TypeOK
  <2> QED
    BY <1>9, <2>2, <2>3, <2>4 DEF Kill
<1>10. CASE Tick
  BY <1>10, TickEffect DEF Tick, TypeInv, TypeOK
<1>11. CASE UNCHANGED vars
  BY <1>11 DEF TypeInv, TypeOK, Setting, vars, keys
<1> QED
  BY <1>1, <1>2, <1>3, <1>4, <1>5, <1>6, <1>7, <1>8, <1>9, <1>10, <1>11
     DEF Next

\* Nothing is stored, and nobody calls.
LEMMA InitType == Init => TypeInv
BY PinAssumption, IdleType DEF Init, TypeInv, TypeOK, Setting, Past

\* However calls interleave, and whatever a kill leaves of them, what the storage
\* holds has its type: a hash is never stored without the PIN and the salt of the
\* call that stored it.
THEOREM TypeCorrect == Spec => []TypeOK
<1>1. TypeInv => TypeOK
  BY DEF TypeInv
<1> QED
  BY <1>1, InitType, TypeStep, PTL DEF Spec

----------------------------------------------------------------------------
(***************************************************************************)
(* One call at a time.                                                     *)
(***************************************************************************)

\* While one call runs, no other does.
LEMMA Others ==
    ASSUME OneAtATime, NEW c \in Calls, call[c].at # "idle"
    PROVE  \A d \in Calls : d # c => call[d].at = "idle"
BY DEF OneAtATime

\* The numbers of the storage.
LEMMA Numbers ==
    ASSUME TypeInv
    PROVE  /\ attempts \in Nat /\ wrong \in Nat /\ barred \in Int
           /\ maxPinAttempts \in Nat /\ maxPinAttempts > 0
           /\ locked # None => locked \in Int
           /\ \A n \in Int : n # None
           /\ \A c \in Calls : call[c].left \in Int
BY PinAssumption DEF TypeInv, TypeOK, Call, Past

\* A call that moves, when the others are idle, alone has to know the storage.
LEMMA OneKnows ==
    ASSUME NEW c \in Calls, \A d \in Calls : d # c => call[d].at = "idle",
           \A d \in Calls : d # c => call'[d] = call[d], Knows(c)'
    PROVE  KnownOK'
<1> SUFFICES ASSUME NEW d \in Calls, d # c PROVE Knows(d)'
  BY DEF KnownOK
<1>1. call'[d].at = "idle"
  OBVIOUS
<1> QED
  BY <1>1 DEF Knows

\* The steps of a call keep what is stored.
LEMMA ReadsInv ==
    ASSUME Inv, OneAtATime, NEW c \in Calls,
           \/ \E p \in Pins : VerifyPin(c, p) \/ \E s \in Salts : SetPin(c, p, s)
           \/ ClearPin(c) \/ ReadLocked(c) \/ ReadSalt(c)
           \/ ReadHash(c) \/ ReadAttempts(c)
    PROVE  CountOK' /\ BarOK' /\ KnownOK'
<1>1. UNCHANGED <<keys, wrong, barred>> /\ TypeInv
  BY BeginEffect
     DEF Inv, ReadLocked, ReadSalt, ReadHash, ReadAttempts
<1>2. CountOK' /\ BarOK'
  BY <1>1 DEF Inv, CountOK, BarOK, keys
<1> SUFFICES KnownOK'
  BY <1>2
<1>3. CASE \/ \E p \in Pins :
                 VerifyPin(c, p) \/ \E s \in Salts : SetPin(c, p, s)
           \/ ClearPin(c)
  <2>1. /\ call'[c].at \in {"lock", "set", "clear"}
        /\ \A d \in Calls : d # c => call'[d] = call[d]
    BY <1>1, <1>3, BeginEffect
  <2>2. locked' = locked /\ wrong' = wrong /\ attempts' = attempts
    BY <1>1 DEF keys
  <2>3. ASSUME NEW d \in Calls PROVE Knows(d)'
    <3>1. CASE d = c
      BY <2>1, <3>1 DEF Knows
    <3>2. CASE d # c
      BY <2>1, <2>2, <3>2 DEF Inv, KnownOK, Knows, OneMore
    <3> QED
      BY <3>1, <3>2
  <2> QED
    BY <2>3 DEF KnownOK
<1>4. ASSUME call[c].at # "idle" PROVE \A d \in Calls : d # c => call[d].at = "idle"
  BY <1>4, Others
<1>5. locked' = locked /\ wrong' = wrong /\ attempts' = attempts
  BY <1>1 DEF keys
<1>6. CASE ReadLocked(c)
  <2>1. call[c].at = "lock"
    BY <1>6 DEF ReadLocked
  <2>2. CASE locked = None /\ Go(c, "salt")
    <3>1. /\ call'[c].at = "salt"
          /\ \A d \in Calls : d # c => call'[d] = call[d]
      BY <1>1, <2>2, GoEffect
    <3>2. Knows(c)'
      BY <1>5, <2>2, <3>1 DEF Knows
    <3> QED
      BY <1>4, <2>1, <3>1, <3>2, OneKnows
  <2>3. CASE Return(c)
    <3>1. /\ call'[c].at = "idle"
          /\ \A d \in Calls : d # c => call'[d] = call[d]
      BY <1>1, <2>3, ReturnEffect
    <3>2. Knows(c)'
      BY <3>1 DEF Knows
    <3> QED
      BY <1>4, <2>1, <3>1, <3>2, OneKnows
  <2>4. CASE locked # None /\ ~ (locked > 0) /\ Go(c, "expired")
    <3>1. /\ call'[c].at = "expired"
          /\ \A d \in Calls : d # c => call'[d] = call[d]
      BY <1>1, <2>4, GoEffect
    <3>2. locked # None /\ locked <= 0
      BY <1>1, <2>4, Numbers
    <3>3. Knows(c)'
      BY <1>5, <3>1, <3>2 DEF Knows
    <3> QED
      BY <1>4, <2>1, <3>1, <3>3, OneKnows
  <2> QED
    BY <1>6, <2>2, <2>3, <2>4 DEF ReadLocked
<1>7. CASE ReadSalt(c)
  <2>1. call[c].at = "salt" /\ locked = None
    BY <1>7 DEF ReadSalt, Inv, KnownOK, Knows
  <2>2. /\ call'[c].at = "hash"
        /\ \A d \in Calls : d # c => call'[d] = call[d]
    BY <1>1, <1>7, ReadSaltEffect
  <2>3. Knows(c)'
    BY <1>5, <2>1, <2>2 DEF Knows, OneMore
  <2> QED
    BY <1>4, <2>1, <2>2, <2>3, OneKnows
<1>8. CASE ReadHash(c)
  <2>1. call[c].at = "hash" /\ locked = None
    BY <1>8 DEF ReadHash, Inv, KnownOK, Knows
  <2>2. /\ call'[c].at \in {"idle", "match", "count"}
        /\ \A d \in Calls : d # c => call'[d] = call[d]
    BY <1>1, <1>8, GoEffect, ReturnEffect DEF ReadHash
  <2>3. Knows(c)'
    BY <1>5, <2>1, <2>2 DEF Knows, OneMore
  <2> QED
    BY <1>4, <2>1, <2>2, <2>3, OneKnows
<1>9. CASE ReadAttempts(c)
  <2>1. call[c].at = "count" /\ locked = None
    BY <1>9 DEF ReadAttempts, Inv, KnownOK, Knows
  <2>2. /\ call'[c].at \in {"write", "lockout"}
        /\ call'[c].attempts = OneMore(attempts)
        /\ call'[c].at = "write" => attempts + 1 < maxPinAttempts
        /\ \A d \in Calls : d # c => call'[d] = call[d]
    BY <1>1, <1>9, ReadAttemptsEffect
  <2>3. Knows(c)'
    BY <1>5, <2>1, <2>2 DEF Knows, OneMore
  <2> QED
    BY <1>4, <2>1, <2>2, <2>3, OneKnows
<1> QED
  BY <1>2, <1>3, <1>6, <1>7, <1>8, <1>9

\* An expired lockout is deleted: the count begins anew, in two steps.
LEMMA DeletesInv ==
    ASSUME Inv, OneAtATime, NEW c \in Calls,
           DeleteLocked(c) \/ DeleteAttempts(c)
    PROVE  CountOK' /\ BarOK' /\ KnownOK'
<1>1. TypeInv /\ Knows(c) /\ call[c].at # "idle"
  BY DEF Inv, KnownOK, DeleteLocked, DeleteAttempts
<1>2. \A d \in Calls : d # c => call[d].at = "idle"
  BY <1>1, Others
<1>3. CASE DeleteLocked(c)
  <2>1. /\ call'[c].at = "restart"
        /\ \A d \in Calls : d # c => call'[d] = call[d]
    BY <1>1, <1>3, GoEffect DEF DeleteLocked
  <2>2. Knows(c)'
    BY <1>3, <2>1 DEF DeleteLocked, Knows
  <2>3. KnownOK'
    BY <1>2, <2>1, <2>2, OneKnows
  <2>4. locked # None /\ locked <= 0
    BY <1>1, <1>3 DEF DeleteLocked, Knows
  <2>5. CountOK' /\ BarOK'
    BY <1>1, <1>3, <2>4, Numbers DEF Inv, CountOK, BarOK, DeleteLocked
  <2> QED
    BY <2>3, <2>5
<1>4. CASE DeleteAttempts(c)
  <2>1. /\ call'[c].at = "salt"
        /\ \A d \in Calls : d # c => call'[d] = call[d]
    BY <1>1, <1>4, GoEffect DEF DeleteAttempts
  <2>2. locked = None /\ wrong = 0
    BY <1>1, <1>4 DEF DeleteAttempts, Knows
  <2>3. Knows(c)'
    BY <1>4, <2>1, <2>2 DEF DeleteAttempts, Knows
  <2>4. KnownOK'
    BY <1>2, <2>1, <2>3, OneKnows
  <2>5. CountOK' /\ BarOK'
    BY <1>1, <1>4, <2>2, Numbers DEF Inv, CountOK, BarOK, DeleteAttempts
  <2> QED
    BY <2>4, <2>5
<1> QED
  BY <1>3, <1>4

\* A call tells what came of it, or stores a PIN or none.
LEMMA TellsInv ==
    ASSUME Inv, OneAtATime, NEW c \in Calls,
           Match(c) \/ WriteAttempts(c) \/ WriteLocked(c) \/ StorePin(c)
    PROVE  CountOK' /\ BarOK' /\ KnownOK'
<1>1. TypeInv /\ Knows(c) /\ call[c].at # "idle"
  BY DEF Inv, KnownOK, Match, WriteAttempts, WriteLocked, StorePin
<1>2. \A d \in Calls : d # c => call[d].at = "idle"
  BY <1>1, Others
<1>3. /\ call'[c].at = "idle"
      /\ \A d \in Calls : d # c => call'[d] = call[d]
  BY <1>1, ReturnEffect DEF Match, WriteAttempts, WriteLocked, StorePin
<1>4. Knows(c)'
  BY <1>3 DEF Knows
<1>5. KnownOK'
  BY <1>2, <1>3, <1>4, OneKnows
<1>6. CASE Match(c)
  BY <1>1, <1>5, <1>6, Numbers DEF Inv, CountOK, BarOK, Match
<1>7. CASE WriteAttempts(c)
  <2>1. attempts' = attempts + 1 /\ attempts + 1 < maxPinAttempts
    BY <1>1, <1>7, Numbers DEF WriteAttempts, Knows, OneMore
  <2> QED
    BY <1>1, <1>5, <1>7, <2>1, Numbers DEF Inv, CountOK, BarOK, WriteAttempts
<1>8. CASE WriteLocked(c)
  <2>1. locked = None /\ attempts' = OneMore(attempts)
    BY <1>1, <1>8 DEF WriteLocked, Knows
  <2>2. wrong + 1 <= attempts' /\ attempts' <= maxPinAttempts
    BY <1>1, <2>1, Numbers DEF Inv, CountOK, OneMore
  <2>3. locked' # None /\ locked' = barred'
    BY <1>1, <1>8, Numbers DEF WriteLocked
  <2>4. locked' \in Int
    BY <1>1, <1>8, Numbers DEF WriteLocked
  <2>5. CountOK' /\ BarOK'
    BY <1>8, <2>2, <2>3, <2>4 DEF CountOK, BarOK, WriteLocked
  <2> QED
    BY <1>5, <2>5
<1>9. CASE StorePin(c)
  BY <1>1, <1>5, <1>9, Numbers DEF CountOK, BarOK, StorePin, Past
<1> QED
  BY <1>6, <1>7, <1>8, <1>9

\* The app is killed.  A lockout that is half done bars, or has counted, without
\* having been told.
LEMMA KillInv ==
    ASSUME Inv, Kill
    PROVE  CountOK' /\ BarOK' /\ KnownOK'
<1>1. TypeInv /\ CountOK /\ BarOK
  BY DEF Inv
<1>2. KnownOK'
  <2>1. \A c \in Calls : call'[c].at = "idle"
    BY IdleType DEF Kill
  <2> QED
    BY <2>1 DEF KnownOK, Knows
<1>3. CASE UNCHANGED <<keys, wrong, barred>>
  BY <1>1, <1>2, <1>3 DEF CountOK, BarOK, keys
<1>4. ASSUME NEW c \in Calls, call[c].at = "lockout",
             \/ attempts' = call[c].attempts /\ UNCHANGED locked
             \/ locked' = call[c].left /\ UNCHANGED attempts,
             UNCHANGED <<salt, hash, wrong, barred>>
      PROVE  CountOK' /\ BarOK'
  <2>1. locked = None /\ call[c].attempts = OneMore(attempts)
    BY <1>4 DEF Inv, KnownOK, Knows
  <2>2. ~ (barred > 0)
    BY <1>1, <2>1 DEF BarOK
  <2>3. BarOK'
    BY <1>4, <2>2 DEF BarOK
  <2>4. CASE attempts' = call[c].attempts /\ UNCHANGED locked
    BY <1>1, <1>4, <2>1, <2>3, <2>4, Numbers DEF CountOK, OneMore
  <2>5. CASE locked' = call[c].left /\ UNCHANGED attempts
    BY <1>1, <1>4, <2>3, <2>5, Numbers DEF CountOK
  <2> QED
    BY <1>4, <2>3, <2>4, <2>5
<1>5. ASSUME attempts' \in {attempts, 0}, locked' \in {locked, None},
             wrong' = 0, barred' = Past
      PROVE  CountOK' /\ BarOK'
  BY <1>1, <1>5, Numbers DEF CountOK, BarOK, Past
<1> QED
  BY <1>2, <1>3, <1>4, <1>5 DEF Kill

\* Time passes for the lockout that is stored as for the one that was told.
LEMMA TickInv ==
    ASSUME Inv, Tick
    PROVE  CountOK' /\ BarOK' /\ KnownOK'
<1>1. TypeInv /\ CountOK /\ BarOK
  BY DEF Inv
<1>2. /\ attempts' = attempts /\ wrong' = wrong
      /\ barred' = Less(barred)
      /\ locked = None => locked' = None
      /\ locked # None => locked' = Less(locked)
  BY DEF Tick
<1>3. locked # None => /\ locked' # None
                       /\ locked <= 0 => locked' <= 0
                       /\ locked > 0 => locked' = locked - 1
  BY <1>1, <1>2, Numbers DEF Less, Past
<1>4. CountOK'
  BY <1>1, <1>2, <1>3 DEF CountOK
<1>5. BarOK'
  BY <1>1, <1>2, <1>3, Numbers DEF BarOK, Less, Past
<1>6. ASSUME NEW c \in Calls PROVE Knows(c)'
  <2>1. call'[c].at = call[c].at /\ call'[c].attempts = call[c].attempts
    BY <1>1, TickEffect
  <2> QED
    BY <1>2, <1>3, <2>1 DEF Inv, KnownOK, Knows, OneMore
<1> QED
  BY <1>4, <1>5, <1>6 DEF KnownOK

\* Every step keeps the invariant while calls do not overlap.
LEMMA NextInv == Inv /\ OneAtATime /\ [Next]_vars => Inv'
<1> SUFFICES ASSUME Inv, OneAtATime, [Next]_vars PROVE Inv'
  OBVIOUS
<1>1. TypeInv'
  BY TypeStep DEF Inv
<1>2. CASE UNCHANGED vars
  BY <1>1, <1>2
     DEF Inv, CountOK, BarOK, KnownOK, Knows, OneMore, vars, keys
<1>3. CASE Kill \/ Tick
  BY <1>1, <1>3, KillInv, TickInv DEF Inv
<1>4. ASSUME NEW c \in Calls,
             \/ \E p \in Pins :
                   VerifyPin(c, p) \/ \E s \in Salts : SetPin(c, p, s)
             \/ ClearPin(c) \/ ReadLocked(c) \/ ReadSalt(c)
             \/ ReadHash(c) \/ ReadAttempts(c)
      PROVE  Inv'
  BY <1>1, <1>4, ReadsInv DEF Inv
<1>5. ASSUME NEW c \in Calls, DeleteLocked(c) \/ DeleteAttempts(c)
      PROVE  Inv'
  BY <1>1, <1>5, DeletesInv DEF Inv
<1>6. ASSUME NEW c \in Calls,
             Match(c) \/ WriteAttempts(c) \/ WriteLocked(c) \/ StorePin(c)
      PROVE  Inv'
  BY <1>1, <1>6, TellsInv DEF Inv
<1> QED
  BY <1>2, <1>3, <1>4, <1>5, <1>6 DEF Next

\* The invariant holds of an empty storage.
LEMMA InitInv == Init => Inv
<1> SUFFICES ASSUME Init PROVE Inv
  OBVIOUS
<1>1. TypeInv
  BY InitType
<1>2. \A c \in Calls : call[c].at = "idle"
  BY IdleType DEF Init
<1> QED
  BY <1>1, <1>2, Numbers
     DEF Init, Inv, CountOK, BarOK, KnownOK, Knows, Past

\* What is always so while calls do not overlap.
LEMMA Invariant == Spec /\ []OneAtATime => []Inv
BY InitInv, NextInv, PTL DEF Spec

\* While calls do not overlap, no more wrong PINs than the limit are told before
\* the count begins anew, and the last of them leaves a lockout behind: a kill
\* between the keys can only leave the counter ahead of what was told.
THEOREM LockoutComes == Spec /\ []OneAtATime => []LockoutAtLimit
<1>1. Inv => LockoutAtLimit
  BY Numbers DEF Inv, CountOK, LockoutAtLimit
<1> QED
  BY <1>1, Invariant, PTL

\* While calls do not overlap, no PIN is looked at between a lockout that was told
\* and its end, in this run of the app or the next: what is told is stored by then,
\* and until it ends only setPin and clearPin, or a kill amid them, delete it.
THEOREM LockoutHolds == Spec /\ []OneAtATime => []LockoutLasts
<1>1. Inv => LockoutLasts
  BY Numbers DEF Inv, BarOK, KnownOK, Knows, LockoutLasts
<1> QED
  BY <1>1, Invariant, PTL

=============================================================================
