----------------------------- MODULE OtpService -----------------------------
(***************************************************************************)
(* The one-time passwords of the Go API: OTPService (RequestOTP,           *)
(* VerifyOTP) over MemoryOTPStore, behind HandleOTPRequest and             *)
(* HandleOTPVerify.                                                        *)
(*                                                                         *)
(* As in AuthSessions a call is one action for each method of the store it *)
(* enters and one for the computation between two of them, calls           *)
(* interleave, and a deadline is held as the ticks left until it.          *)
(***************************************************************************)
EXTENDS Integers, FiniteSets, AccountStatus

CONSTANTS
    Phones, Purposes,
    Codes,          \* the six-digit codes
    OtpIds,         \* "otp_" and the nanosecond of the request
    Calls,          \* goroutines serving /auth/otp/request and /auth/otp/verify
    None,
    otpTTL,         \* lifetime of a code, in ticks
    otpMaxAttempts  \* failed attempts after which a code is refused

VARIABLES
    otps,           \* MemoryOTPStore.otps: id -> code record, or None
    call,           \* local variables of the calls being served
    wins,           \* history: how many calls have verified the code
    misses          \* history: how many calls have compared a wrong code with it

vars == <<otps, call, wins, misses>>

Past == -1

Otp == [phone : Phones, purpose : Purposes, code : Codes, attempts : Nat,
        left : Past .. otpTTL, verified : BOOLEAN]

Replies == {"none", "sent", "verified", "token", "401", "403", "422", "429",
            "409"}

\* at     the store method the call waits to enter, or the computation before
\* otp    otp.ID of the copy GetActiveOTP returned, attempts and left its fields;
\*        left is also the deadline of a code not stored yet
\* code   the code drawn by RequestOTP, or the one given to VerifyOTP
\* reply  the answer to the last request this goroutine served
Call == [at : {"idle", "create", "check", "increment", "mark", "account"},
         phone : Phones \cup {None}, purpose : Purposes \cup {None},
         code : Codes \cup {None}, otp : OtpIds \cup {None},
         attempts : Nat, left : Past .. otpTTL, reply : Replies]

Done(reply) ==
    [at |-> "idle", phone |-> None, purpose |-> None, code |-> None,
     otp |-> None, attempts |-> 0, left |-> Past, reply |-> reply]

ASSUME OtpAssumption ==
    /\ otpTTL \in Nat \ {0}
    /\ otpMaxAttempts \in Nat \ {0}
    /\ IsFiniteSet(Calls)
    /\ None \notin Phones \cup Purposes \cup Codes \cup OtpIds \cup Otp
    /\ "auth" \in Purposes

TypeOK ==
    /\ otps \in [OtpIds -> Otp \cup {None}]
    /\ call \in [Calls -> Call]
    /\ wins \in [OtpIds -> Nat]
    /\ misses \in [OtpIds -> Nat]

----------------------------------------------------------------------------
Less(left) == IF left = Past THEN Past ELSE left - 1

\* OTPCode.IsExpired: strictly after the deadline.
IsExpired(o) == o.left = Past

\* Mutant: verified codes are not skipped.
Active_Verified(p, u) ==
    {i \in OtpIds : /\ otps[i] # None
                    /\ otps[i].phone = p
                    /\ otps[i].purpose = u
                    /\ ~IsExpired(otps[i])}

\* The records GetActiveOTP considers.  It returns the latest one; as there is
\* never more than one (AtMostOneActive) the order does not matter.
Active(p, u) ==
    {i \in OtpIds : /\ otps[i] # None
                    /\ otps[i].phone = p
                    /\ otps[i].purpose = u
                    /\ ~IsExpired(otps[i])
                    /\ ~otps[i].verified}

----------------------------------------------------------------------------
Init ==
    /\ otps = [i \in OtpIds |-> None]
    /\ call = [c \in Calls |-> Done("none")]
    /\ wins = [i \in OtpIds |-> 0]
    /\ misses = [i \in OtpIds |-> 0]

\* RequestOTP: draw a code and take the time.
RequestDraw(c, p, u, k) ==
    /\ call[c].at = "idle"
    /\ call' = [call EXCEPT ![c] =
                  [at |-> "create", phone |-> p, purpose |-> u, code |-> k,
                   otp |-> None, attempts |-> 0, left |-> otpTTL,
                   reply |-> "none"]]
    /\ UNCHANGED <<otps, wins, misses>>

\* Mutant: the codes requested before stay active.
CreateOTP_Keep(c, i) ==
    /\ call[c].at = "create"
    /\ otps[i] = None
    /\ otps' = [otps EXCEPT ![i] =
                  [phone |-> call[c].phone, purpose |-> call[c].purpose,
                   code |-> call[c].code, attempts |-> 0,
                   left |-> call[c].left, verified |-> FALSE]]
    /\ wins' = [wins EXCEPT ![i] = 0]
    /\ misses' = [misses EXCEPT ![i] = 0]
    /\ call' = [call EXCEPT ![c] = Done("sent")]

\* RequestOTP: CreateOTP puts the active codes of the phone and purpose past
\* their deadline, stores the new one, and the code is sent.
CreateOTP(c, i) ==
    /\ call[c].at = "create"
    /\ otps[i] = None
    /\ otps' = [j \in OtpIds |->
                  IF j = i
                  THEN [phone |-> call[c].phone, purpose |-> call[c].purpose,
                        code |-> call[c].code, attempts |-> 0,
                        left |-> call[c].left, verified |-> FALSE]
                  ELSE IF j \in Active(call[c].phone, call[c].purpose)
                       THEN [otps[j] EXCEPT !.left = Past]
                       ELSE otps[j]]
    /\ wins' = [wins EXCEPT ![i] = 0]
    /\ misses' = [misses EXCEPT ![i] = 0]
    /\ call' = [call EXCEPT ![c] = Done("sent")]

\* VerifyOTP: GetActiveOTP returns a copy of an active code.
VerifyLookup(c, p, u, k) ==
    /\ call[c].at = "idle"
    /\ \E i \in Active(p, u) :
          call' = [call EXCEPT ![c] =
                     [at |-> "check", phone |-> p, purpose |-> u, code |-> k,
                      otp |-> i, attempts |-> otps[i].attempts,
                      left |-> otps[i].left, reply |-> "none"]]
    /\ UNCHANGED <<otps, wins, misses>>

\* VerifyOTP: there is none, and every error of GetActiveOTP is ErrInvalidOTP.
VerifyMiss(c, p, u, k) ==
    /\ call[c].at = "idle"
    /\ Active(p, u) = {}
    /\ call' = [call EXCEPT ![c] = Done("401")]
    /\ UNCHANGED <<otps, wins, misses>>

\* Mutant: the copy's attempts are not looked at.
Refusal_NoLimit(v) == IF IsExpired(v) THEN "422" ELSE "none"

\* The tests VerifyOTP makes on its copy before it compares the code.  The copy
\* was taken from a code that is not verified, so ErrOTPAlreadyVerified (409)
\* is never returned.
Refusal(v) ==
    IF IsExpired(v) THEN "422"
    ELSE IF v.attempts >= otpMaxAttempts THEN "429"
    ELSE "none"

VerifyRefuse(c) ==
    /\ call[c].at = "check"
    /\ Refusal(call[c]) # "none"
    /\ call' = [call EXCEPT ![c] = Done(Refusal(call[c]))]
    /\ UNCHANGED <<otps, wins, misses>>

\* The code given against the code of the copy; a code never changes.
VerifyCompare(c) ==
    /\ call[c].at = "check"
    /\ Refusal(call[c]) = "none"
    /\ call' = [call EXCEPT ![c].at =
                  IF call[c].code = otps[call[c].otp].code
                  THEN "mark" ELSE "increment"]
    /\ misses' = [misses EXCEPT ![call[c].otp] =
                    IF call[c].code = otps[call[c].otp].code THEN @ ELSE @ + 1]
    /\ UNCHANGED <<otps, wins>>

\* Mutant: the counter is set from the copy instead of incremented.
IncrementAttempts_FromCopy(c) ==
    /\ call[c].at = "increment"
    /\ otps' = [otps EXCEPT ![call[c].otp].attempts = call[c].attempts + 1]
    /\ call' = [call EXCEPT ![c] = Done("401")]
    /\ UNCHANGED <<wins, misses>>

\* Mutant: the counter runs down instead of up.
IncrementAttempts_Down(c) ==
    /\ call[c].at = "increment"
    /\ otps' = [otps EXCEPT ![call[c].otp].attempts = @ - 1]
    /\ call' = [call EXCEPT ![c] = Done("401")]
    /\ UNCHANGED <<wins, misses>>

\* VerifyOTP, wrong code: IncrementAttempts.
IncrementAttempts(c) ==
    /\ call[c].at = "increment"
    /\ otps' = [otps EXCEPT ![call[c].otp].attempts = @ + 1]
    /\ call' = [call EXCEPT ![c] = Done("401")]
    /\ UNCHANGED <<wins, misses>>

\* VerifyOTP, right code: MarkVerified sets VerifiedAt, whatever it was.
MarkVerified(c) ==
    /\ call[c].at = "mark"
    /\ otps' = [otps EXCEPT ![call[c].otp].verified = TRUE]
    /\ wins' = [wins EXCEPT ![call[c].otp] = @ + 1]
    /\ call' = [call EXCEPT ![c] =
                  IF call[c].purpose = "auth"
                  THEN [call[c] EXCEPT !.at = "account"]
                  ELSE Done("verified")]
    /\ UNCHANGED misses

\* VerifyOTP, purpose auth: the account of the phone, as it is in the store at
\* this moment, decides what the verified caller gets.
VerifyAccount(c, s) ==
    /\ call[c].at = "account"
    /\ call' = [call EXCEPT ![c] =
                  Done(CASE s = "absent" -> "verified"
                         [] s = "active" -> "token"
                         [] OTHER        -> "403")]
    /\ UNCHANGED <<otps, wins, misses>>

\* The process ends and is started again with empty stores.
Restart ==
    /\ otps' = [i \in OtpIds |-> None]
    /\ call' = [c \in Calls |-> Done("none")]
    /\ wins' = [i \in OtpIds |-> 0]
    /\ misses' = [i \in OtpIds |-> 0]

Tick ==
    /\ otps' = [i \in OtpIds |->
                  IF otps[i] = None THEN None
                  ELSE [otps[i] EXCEPT !.left = Less(@)]]
    /\ call' = [c \in Calls |-> [call[c] EXCEPT !.left = Less(@)]]
    /\ UNCHANGED <<wins, misses>>

Next ==
    \/ \E c \in Calls, p \in Phones, u \in Purposes, k \in Codes :
          \/ RequestDraw(c, p, u, k)
          \/ VerifyLookup(c, p, u, k)
          \/ VerifyMiss(c, p, u, k)
    \/ \E c \in Calls :
          \/ \E i \in OtpIds : CreateOTP(c, i)
          \/ VerifyRefuse(c)
          \/ VerifyCompare(c)
          \/ IncrementAttempts(c)
          \/ MarkVerified(c)
          \/ \E s \in Statuses \cup {"absent"} : VerifyAccount(c, s)
    \/ Restart
    \/ Tick

Spec == Init /\ [][Next]_vars

----------------------------------------------------------------------------
(***************************************************************************)
(* Properties                                                              *)
(***************************************************************************)

\* However requests interleave, a phone and purpose have at most one active
\* code, so GetActiveOTP never has to choose by CreatedAt (which is taken before
\* the lock, and need not follow the order of the stores).
AtMostOneActive ==
    \A p \in Phones, u \in Purposes : Cardinality(Active(p, u)) <= 1

\* Concurrent guesses are all counted, and overshoot the limit by less than the
\* number of calls: a call that passed the test on its copy is counted later.
Guessing(i) ==
    Cardinality({c \in Calls : call[c].at = "increment" /\ call[c].otp = i})

AttemptsOvershoot ==
    \A i \in OtpIds :
        otps[i] # None =>
            otps[i].attempts + Guessing(i)
                <= otpMaxAttempts + Cardinality(Calls) - 1

\* A code that is verified, past its deadline or out of attempts stays unusable
\* from the moment no call holds a copy of it that it took before.
Usable(i) ==
    \/ /\ otps[i] # None
       /\ ~otps[i].verified
       /\ ~IsExpired(otps[i])
       /\ otps[i].attempts < otpMaxAttempts
    \/ \E c \in Calls :
          /\ call[c].otp = i
          /\ \/ call[c].at = "check" /\ Refusal(call[c]) = "none"
             \/ call[c].at = "mark"

UnusableStaysUnusable ==
    [][\A i \in OtpIds : otps[i] # None /\ ~Usable(i) =>
          \/ otps'[i] = None
          \/ ~Usable(i)' /\ wins'[i] = wins[i]]_vars

\* No guess is free: the wrong codes compared with a record and the failed
\* attempts counted for it, or about to be, are the same in number, although the
\* copies the calls compared with may all show the same count.
EveryMissIsCounted ==
    \A i \in OtpIds :
        otps[i] # None => otps[i].attempts + Guessing(i) = misses[i]

\* The interleaved calls implement OneTimeCodes: a call is admitted when it takes
\* a copy of a usable code, and until its answer is counted.
CodeState(i) ==
    IF otps[i] = None THEN "none"
    ELSE IF otps[i].verified \/ IsExpired(otps[i]) THEN "closed"
    ELSE "open"

Admitted(i) ==
    {c \in Calls : /\ call[c].otp = i
                   /\ \/ call[c].at = "check" /\ Refusal(call[c]) = "none"
                      \/ call[c].at \in {"increment", "mark"}}

Attempts(i) == IF otps[i] = None THEN 0 ELSE otps[i].attempts

Abstract ==
    INSTANCE OneTimeCodes
    WITH Ids <- OtpIds, MaxWrong <- otpMaxAttempts,
         code <- [i \in OtpIds |-> CodeState(i)],
         admitted <- [i \in OtpIds |-> Admitted(i)],
         wrong <- [i \in OtpIds |-> Attempts(i)],
         right <- wins

ImplementsOneTimeCodes == Abstract!Spec

\* What the documents claim and the code does not do.

\* "Invalidated after first use."
UsedOnce == \A i \in OtpIds : wins[i] <= 1

\* "Maximum 5 failed attempts before OTP is locked."
AttemptsWithinLimit ==
    \A i \in OtpIds : otps[i] # None => otps[i].attempts <= otpMaxAttempts

\* "CreateOTP persists a new OTP, invalidating any prior active OTP for the same
\* phone+purpose": a code is not verified while a newer one is active.
InvalidatedIsNotVerified ==
    [][\A i \in OtpIds :
          wins'[i] > wins[i] =>
              Active(otps[i].phone, otps[i].purpose) \subseteq {i}]_vars

\* "Expired OTP -> 422": 401 is not the answer to the right code of an expired
\* request.
ExpiredIsReported ==
    [][\A c \in Calls, p \in Phones, u \in Purposes, k \in Codes :
          VerifyMiss(c, p, u, k) =>
             ~\E i \in OtpIds :
                 /\ otps[i] # None
                 /\ otps[i].phone = p /\ otps[i].purpose = u
                 /\ otps[i].code = k /\ ~otps[i].verified]_vars

\* "Already verified -> 409": 401 is not the answer to the code of a request
\* that was verified.
VerifiedIsReported ==
    [][\A c \in Calls, p \in Phones, u \in Purposes, k \in Codes :
          VerifyMiss(c, p, u, k) =>
             ~\E i \in OtpIds :
                 /\ otps[i] # None
                 /\ otps[i].phone = p /\ otps[i].purpose = u
                 /\ otps[i].code = k /\ otps[i].verified]_vars

=============================================================================
