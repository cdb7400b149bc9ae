------------------------------ MODULE PinLock ------------------------------
(***************************************************************************)
(* The offline PIN of SecureTokenStorage: setPin, verifyPin and clearPin   *)
(* over the four keys of the secure storage, which survive the app.        *)
(*                                                                         *)
(* verifyPin awaits every key it reads or writes, so a call is one action  *)
(* per key and calls interleave.  The keys setPin and clearPin touch are   *)
(* issued together: one action, of which a kill may leave any part done.   *)
(* Time is relative, as in AuthSessions.                                   *)
(***************************************************************************)
EXTENDS Integers

CONSTANTS
    Calls,           \* the methods that may run at one time
    Pins, Salts,
    None,            \* a key that is not there
    maxPinAttempts,
    lockoutDuration  \* in ticks

VARIABLES
    salt, hash,      \* _keyPinSalt, _keyPinHash
    attempts,        \* _keyPinFailedAttempts; a key that is not there reads as 0
    locked,          \* _keyPinLockedUntil: the ticks left until it
    call,            \* local variables of the methods that are running
    wrong,           \* history: wrong PINs told since attempts began anew
    barred           \* history: ticks left of the lockout last told

keys == <<salt, hash, attempts, locked>>
vars == <<keys, call, wrong, barred>>

Past == -1

\* _hashPin: two PINs or two salts never give the same hash.
Hash == [pin : Pins, salt : Salts]

\* left   the ticks left until the lockedUntil that is about to be written
Call == [at : {"idle", "lock", "expired", "restart", "salt", "hash", "match",
               "count", "write", "lockout", "set", "clear"},
         pin : Pins \cup {None}, salt : Salts \cup {None},
         attempts : Nat, left : Past .. lockoutDuration]

Idle == [at |-> "idle", pin |-> None, salt |-> None, attempts |-> 0,
         left |-> Past]

ASSUME PinAssumption ==
    /\ maxPinAttempts \in Nat \ {0}
    /\ lockoutDuration \in Nat \ {0}
    /\ None \notin Pins \cup Salts \cup Hash \cup Int

TypeOK ==
    /\ salt \in Salts \cup {None}
    /\ hash \in Hash \cup {None}
    /\ attempts \in Nat
    /\ locked \in (Past .. lockoutDuration) \cup {None}
    /\ call \in [Calls -> Call]
    /\ wrong \in Nat
    /\ barred \in Past .. lockoutDuration

----------------------------------------------------------------------------
Less(left) == IF left = Past THEN Past ELSE left - 1

Begin(c, v) == call[c].at = "idle" /\ call' = [call EXCEPT ![c] = v]
Go(c, at) == call' = [call EXCEPT ![c].at = at]
Return(c) == call' = [call EXCEPT ![c] = Idle]

\* One attempt more.  The bound of the model: at the limit and above it the
\* counter has the same effect, so it stops there.
OneMore(n) == IF n < maxPinAttempts THEN n + 1 ELSE n

Init ==
    /\ salt = None /\ hash = None
    /\ attempts = 0
    /\ locked = None
    /\ call = [c \in Calls |-> Idle]
    /\ wrong = 0
    /\ barred = Past

VerifyPin(c, p) ==
    /\ Begin(c, [Idle EXCEPT !.at = "lock", !.pin = p])
    /\ UNCHANGED <<keys, wrong, barred>>

\* Mutant: the lockout that is stored is taken for expired.
ReadLocked_Expired(c) ==
    /\ call[c].at = "lock"
    /\ IF locked = None THEN Go(c, "salt") ELSE Go(c, "expired")
    /\ UNCHANGED <<keys, wrong, barred>>

\* Refused while lockedUntil is after now.
ReadLocked(c) ==
    /\ call[c].at = "lock"
    /\ IF locked = None THEN Go(c, "salt")
       ELSE IF locked > 0 THEN Return(c)
       ELSE Go(c, "expired")
    /\ UNCHANGED <<keys, wrong, barred>>

DeleteLocked(c) ==
    /\ call[c].at = "expired"
    /\ locked' = None
    /\ wrong' = 0
    /\ Go(c, "restart")
    /\ UNCHANGED <<salt, hash, attempts, barred>>

DeleteAttempts(c) ==
    /\ call[c].at = "restart"
    /\ attempts' = 0
    /\ Go(c, "salt")
    /\ UNCHANGED <<salt, hash, locked, wrong, barred>>

ReadSalt(c) ==
    /\ call[c].at = "salt"
    /\ call' = [call EXCEPT ![c].at = "hash", ![c].salt = salt]
    /\ UNCHANGED <<keys, wrong, barred>>

\* notSet, or the PIN given is hashed with the salt read before.
ReadHash(c) ==
    /\ call[c].at = "hash"
    /\ IF call[c].salt = None \/ hash = None THEN Return(c)
       ELSE IF hash = [pin |-> call[c].pin, salt |-> call[c].salt]
            THEN Go(c, "match")
            ELSE Go(c, "count")
    /\ UNCHANGED <<keys, wrong, barred>>

Match(c) ==
    /\ call[c].at = "match"
    /\ attempts' = 0
    /\ wrong' = 0
    /\ Return(c)
    /\ UNCHANGED <<salt, hash, locked, barred>>

\* Mutant: the lockout comes one attempt late.
ReadAttempts_Late(c) ==
    /\ call[c].at = "count"
    /\ call' = [call EXCEPT
                  ![c].attempts = OneMore(attempts),
                  ![c].at = IF attempts + 1 > maxPinAttempts
                            THEN "lockout" ELSE "write",
                  ![c].left = lockoutDuration]
    /\ UNCHANGED <<keys, wrong, barred>>

ReadAttempts(c) ==
    /\ call[c].at = "count"
    /\ call' = [call EXCEPT ![c] =
                  [at |-> IF attempts + 1 >= maxPinAttempts
                          THEN "lockout" ELSE "write",
                   pin |-> @.pin, salt |-> @.salt,
                   attempts |-> OneMore(attempts), left |-> lockoutDuration]]
    /\ UNCHANGED <<keys, wrong, barred>>

\* invalidPin, with the attempts that remain.
WriteAttempts(c) ==
    /\ call[c].at = "write"
    /\ attempts' = call[c].attempts
    /\ wrong' = wrong + 1
    /\ Return(c)
    /\ UNCHANGED <<salt, hash, locked, barred>>

\* lockedOut.
WriteLocked(c) ==
    /\ call[c].at = "lockout"
    /\ attempts' = call[c].attempts
    /\ locked' = call[c].left
    /\ wrong' = wrong + 1
    /\ barred' = call[c].left
    /\ Return(c)
    /\ UNCHANGED <<salt, hash>>

SetPin(c, p, s) ==
    /\ Begin(c, [at |-> "set", pin |-> p, salt |-> s, attempts |-> 0,
                 left |-> Past])
    /\ UNCHANGED <<keys, wrong, barred>>

ClearPin(c) ==
    /\ Begin(c, [Idle EXCEPT !.at = "clear"])
    /\ UNCHANGED <<keys, wrong, barred>>

\* Mutant: clearPin stores the hash of nothing.
StorePin_Nothing(c) ==
    /\ call[c].at \in {"set", "clear"}
    /\ salt' = call[c].salt
    /\ hash' = [pin |-> call[c].pin, salt |-> call[c].salt]
    /\ attempts' = 0
    /\ locked' = None
    /\ wrong' = 0
    /\ barred' = Past
    /\ Return(c)

\* setPin and clearPin: the salt and the hash are written or deleted, the
\* counter and the lockout are deleted, whatever they were.
StorePin(c) ==
    /\ call[c].at \in {"set", "clear"}
    /\ salt' = call[c].salt
    /\ hash' = IF call[c].at = "clear" THEN None
               ELSE [pin |-> call[c].pin, salt |-> call[c].salt]
    /\ attempts' = 0
    /\ locked' = None
    /\ wrong' = 0
    /\ barred' = Past
    /\ Return(c)

\* The app is killed.  Of a group of keys that one call has issued together
\* some are done; the answers to the others are never seen.
Kill ==
    /\ \/ UNCHANGED <<keys, wrong, barred>>
       \/ \E c \in Calls :
             /\ call[c].at = "lockout"
             /\ \/ attempts' = call[c].attempts /\ UNCHANGED locked
                \/ locked' = call[c].left /\ UNCHANGED attempts
             /\ UNCHANGED <<salt, hash, wrong, barred>>
       \/ \E c \in Calls :
             /\ call[c].at \in {"set", "clear"}
             /\ salt' \in {salt, call[c].salt}
             /\ hash' \in {hash, IF call[c].at = "clear" THEN None
                                 ELSE [pin |-> call[c].pin,
                                       salt |-> call[c].salt]}
             /\ attempts' \in {attempts, 0}
             /\ locked' \in {locked, None}
             /\ wrong' = 0
             /\ barred' = Past
    /\ call' = [c \in Calls |-> Idle]

Tick ==
    /\ locked' = IF locked = None THEN None ELSE Less(locked)
    /\ call' = [c \in Calls |-> [call[c] EXCEPT !.left = Less(@)]]
    /\ barred' = Less(barred)
    /\ UNCHANGED <<salt, hash, attempts, wrong>>

Next ==
    \/ \E c \in Calls, p \in Pins :
          VerifyPin(c, p) \/ \E s \in Salts \ {salt} : SetPin(c, p, s)
    \/ \E c \in Calls :
          \/ ClearPin(c) \/ StorePin(c)
          \/ ReadLocked(c) \/ DeleteLocked(c) \/ DeleteAttempts(c)
          \/ ReadSalt(c) \/ ReadHash(c) \/ Match(c)
          \/ ReadAttempts(c) \/ WriteAttempts(c) \/ WriteLocked(c)
    \/ Kill
    \/ Tick

Spec == Init /\ [][Next]_vars

----------------------------------------------------------------------------
(***************************************************************************)
(* Properties.  They hold with one call at a time, whatever kills do.      *)
(***************************************************************************)

\* "lockout at 5 failed attempts": no more wrong PINs than the limit are told
\* before the count begins anew, and the last of them leaves a lockout behind.
\* A kill may leave half of a lockout, or the counter of one that has expired.
\* The PIN itself stays: see LimitClearsPin.
LockoutAtLimit ==
    /\ wrong <= maxPinAttempts
    /\ wrong = maxPinAttempts => locked # None

\* Between a lockout that has been told and its end no PIN is looked at, right
\* or wrong, in this run of the app or the next.
LockoutLasts ==
    \A c \in Calls : call[c].at \in {"hash", "match", "count"} => barred <= 0

\* What the documents claim and the code does not do.

\* "After 5 incorrect PIN attempts, the full login screen is shown. The local PIN
\* is cleared": the code keeps it, behind the lockout.
LimitClearsPin == wrong >= maxPinAttempts => hash = None

\* "lockout at 5 failed attempts": a lockout that has been told is in the storage
\* until it ends.  A call that has found an older one expired deletes it.
ToldLockoutStands == barred > 0 => locked # None

=============================================================================
