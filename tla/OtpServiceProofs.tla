-------------------------- MODULE OtpServiceProofs --------------------------
(***************************************************************************)
(* Proofs about OtpService, for any number of calls, any sets of phones,   *)
(* codes and records, and any limit and lifetime: its invariants, that a   *)
(* dead code stays dead, and that it implements OneTimeCodes.              *)
(***************************************************************************)
EXTENDS OtpService, FiniteSetTheorems, TLAPS

\* What a call knows at each point: whose code it is about, and that the record
\* it has a copy of is in the store.
CallOK(c) ==
    /\ call[c].at # "idle"
          => call[c].phone \in Phones /\ call[c].purpose \in Purposes
    /\ call[c].at = "create" => call[c].code \in Codes
    /\ call[c].at \in {"check", "increment", "mark"}
          => call[c].otp \in OtpIds /\ otps[call[c].otp] # None

\* An id that was never drawn has no history.
HistoryOK(i) == otps[i] = None => wins[i] = 0 /\ misses[i] = 0

TypeInv ==
    /\ TypeOK
    /\ \A c \in Calls : CallOK(c)
    /\ \A i \in OtpIds : HistoryOK(i)

\* One tick less, and not below Past.
LEMMA LessRange ==
    ASSUME NEW n \in Nat, NEW left \in Past .. n
    PROVE  /\ Less(left) \in Past .. n
           /\ left = Past => Less(left) = Past
BY DEF Less, Past

\* A goroutine that serves nothing.
LEMMA DoneType == ASSUME NEW reply \in Replies PROVE Done(reply) \in Call
BY OtpAssumption DEF Done, Call, Past

\* The initial state is well typed.
LEMMA InitTyped == Init => TypeInv
<1> SUFFICES ASSUME Init PROVE TypeInv
  OBVIOUS
<1>1. call \in [Calls -> Call]
  BY DoneType DEF Init, Replies
<1> QED
  BY <1>1 DEF Init, TypeInv, TypeOK, CallOK, HistoryOK, Done

\* What is known of a call's local variables, of whatever store.
Local(v, store) ==
    /\ v.at # "idle" => v.phone \in Phones /\ v.purpose \in Purposes
    /\ v.at = "create" => v.code \in Codes
    /\ v.at \in {"check", "increment", "mark"}
          => v.otp \in OtpIds /\ store[v.otp] # None

\* One call moves and no record disappears: what is known of the others stays.
LEMMA CallUpdate ==
    ASSUME TypeInv, NEW c \in Calls, NEW v \in Call,
           call' = [call EXCEPT ![c] = v],
           Local(v, otps'),
           \A i \in OtpIds : otps[i] # None => otps'[i] # None
    PROVE  call' \in [Calls -> Call] /\ \A d \in Calls : CallOK(d)'
<1>1. call' \in [Calls -> Call]
  BY DEF TypeInv, TypeOK
<1>2. ASSUME NEW d \in Calls PROVE CallOK(d)'
  <2>1. CASE d = c
    <3>1. call'[d] = v
      BY <2>1 DEF TypeInv, TypeOK
    <3> QED
      BY <3>1 DEF CallOK, Local
  <2>2. CASE d # c
    <3>1. call'[d] = call[d]
      BY <2>2 DEF TypeInv, TypeOK
    <3> QED
      BY <3>1 DEF CallOK, TypeInv
  <2> QED
    BY <2>1, <2>2
<1> QED
  BY <1>1, <1>2

\* RequestOTP keeps the types.
LEMMA RequestDrawTyped ==
    ASSUME TypeInv, NEW c \in Calls, NEW p \in Phones, NEW u \in Purposes,
           NEW k \in Codes, RequestDraw(c, p, u, k)
    PROVE  TypeInv'
<1> DEFINE v == [at |-> "create", phone |-> p, purpose |-> u, code |-> k,
                 otp |-> None, attempts |-> 0, left |-> otpTTL,
                 reply |-> "none"]
<1>1. v \in Call /\ Local(v, otps)
  BY OtpAssumption DEF Call, Local, Past, Replies
<1>2. call' = [call EXCEPT ![c] = v]
  BY DEF RequestDraw
<1> HIDE DEF v
<1>3. call' \in [Calls -> Call] /\ \A d \in Calls : CallOK(d)'
  BY <1>1, <1>2, CallUpdate DEF RequestDraw
<1> QED
  BY <1>3 DEF RequestDraw, TypeInv, TypeOK, HistoryOK

\* The record CreateOTP stores.
NewOtp(c) ==
    [phone |-> call[c].phone, purpose |-> call[c].purpose,
     code |-> call[c].code, attempts |-> 0,
     left |-> call[c].left, verified |-> FALSE]

\* What CreateOTP does to the store: one new record, the ones it replaces past
\* their deadline, and everything else as it was.
LEMMA CreateEffect ==
    ASSUME TypeInv, NEW c \in Calls, NEW i \in OtpIds, CreateOTP(c, i)
    PROVE  /\ otps'[i] = NewOtp(c) /\ NewOtp(c) \in Otp
           /\ \A j \in Active(call[c].phone, call[c].purpose) :
                 /\ j # i /\ otps[j] \in Otp /\ otps'[j] \in Otp
                 /\ otps'[j] = [otps[j] EXCEPT !.left = Past]
           /\ \A j \in OtpIds :
                 j # i /\ j \notin Active(call[c].phone, call[c].purpose)
                    => otps'[j] = otps[j]
           /\ otps' \in [OtpIds -> Otp \cup {None}]
<1> USE DEF TypeInv, TypeOK
<1>1. call[c] \in Call
  OBVIOUS
<1>2. NewOtp(c) \in Otp
  BY <1>1 DEF CreateOTP, CallOK, NewOtp, Otp, Call
<1>3. otps'[i] = NewOtp(c)
  BY DEF CreateOTP, NewOtp
<1>4. ASSUME NEW j \in Active(call[c].phone, call[c].purpose)
      PROVE  /\ j # i /\ otps[j] \in Otp /\ otps'[j] \in Otp
             /\ otps'[j] = [otps[j] EXCEPT !.left = Past]
  <2>1. j \in OtpIds /\ j # i /\ otps[j] \in Otp
    BY DEF Active, CreateOTP
  <2>2. otps'[j] = [otps[j] EXCEPT !.left = Past]
    BY <2>1 DEF CreateOTP
  <2>3. [otps[j] EXCEPT !.left = Past] \in Otp
    BY <2>1, OtpAssumption DEF Otp, Past
  <2> QED
    BY <2>1, <2>2, <2>3
<1>5. \A j \in OtpIds :
         j # i /\ j \notin Active(call[c].phone, call[c].purpose)
            => otps'[j] = otps[j]
  BY DEF CreateOTP
<1>6. otps' \in [OtpIds -> Otp \cup {None}]
  <2>1. \A j \in OtpIds : otps'[j] \in Otp \cup {None}
    BY <1>2, <1>3, <1>4, <1>5
  <2>2. otps' = [j \in OtpIds |-> otps'[j]]
    BY DEF CreateOTP
  <2> QED
    BY <2>1, <2>2
<1> QED
  BY <1>2, <1>3, <1>4, <1>5, <1>6

LEMMA CreateTyped ==
    ASSUME TypeInv, NEW c \in Calls, NEW i \in OtpIds, CreateOTP(c, i)
    PROVE  TypeInv'
<1>1. Done("sent") \in Call /\ Local(Done("sent"), otps')
  BY DoneType DEF Replies, Done, Local
<1>2. ASSUME NEW j \in OtpIds, otps[j] # None PROVE otps'[j] # None
  <2>1. otps[j] \in Otp
    BY <1>2 DEF TypeInv, TypeOK
  <2>2. otps'[j] \in Otp
    BY <2>1, CreateEffect
  <2> QED
    BY <2>2, OtpAssumption
<1>3. call' \in [Calls -> Call] /\ \A d \in Calls : CallOK(d)'
  BY <1>1, <1>2, CallUpdate DEF CreateOTP
<1>4. /\ otps' \in [OtpIds -> Otp \cup {None}]
      /\ wins' \in [OtpIds -> Nat] /\ misses' \in [OtpIds -> Nat]
  BY CreateEffect DEF CreateOTP, TypeInv, TypeOK
<1>5. \A j \in OtpIds : HistoryOK(j)'
  BY <1>2 DEF CreateOTP, HistoryOK, TypeInv, TypeOK
<1> QED
  BY <1>3, <1>4, <1>5 DEF TypeInv, TypeOK

\* The steps of VerifyOTP keep the types.
LEMMA VerifyTyped ==
    ASSUME TypeInv, NEW c \in Calls, NEW s,
           \/ \E p \in Phones, u \in Purposes, k \in Codes :
                 VerifyLookup(c, p, u, k) \/ VerifyMiss(c, p, u, k)
           \/ VerifyRefuse(c) \/ VerifyCompare(c)
           \/ VerifyAccount(c, s)
    PROVE  TypeInv'
<1> USE DEF TypeInv, TypeOK
<1>0. call[c] \in Call /\ otps' = otps
  BY DEF VerifyLookup, VerifyMiss, VerifyRefuse, VerifyCompare, VerifyAccount
<1>1. ASSUME NEW v \in Call, Local(v, otps), call' = [call EXCEPT ![c] = v]
      PROVE  call' \in [Calls -> Call] /\ \A d \in Calls : CallOK(d)'
  BY <1>0, <1>1, CallUpdate
<1>2. ASSUME NEW reply \in Replies, call' = [call EXCEPT ![c] = Done(reply)]
      PROVE  call' \in [Calls -> Call] /\ \A d \in Calls : CallOK(d)'
  <2>1. Done(reply) \in Call /\ Local(Done(reply), otps)
    BY DoneType DEF Done, Local
  <2> QED
    BY <1>1, <1>2, <2>1
<1>3. ASSUME NEW p \in Phones, NEW u \in Purposes, NEW k \in Codes,
             VerifyLookup(c, p, u, k)
      PROVE  TypeInv'
  <2>1. PICK i \in Active(p, u) :
           call' = [call EXCEPT ![c] =
                      [at |-> "check", phone |-> p, purpose |-> u, code |-> k,
                       otp |-> i, attempts |-> otps[i].attempts,
                       left |-> otps[i].left, reply |-> "none"]]
    BY <1>3 DEF VerifyLookup
  <2> DEFINE v == [at |-> "check", phone |-> p, purpose |-> u, code |-> k,
                   otp |-> i, attempts |-> otps[i].attempts,
                   left |-> otps[i].left, reply |-> "none"]
  <2>2. i \in OtpIds /\ otps[i] # None /\ otps[i] \in Otp
    BY DEF Active
  <2>3. v \in Call /\ Local(v, otps)
    BY <2>2 DEF Call, Otp, Local, Replies
  <2> HIDE DEF v
  <2>4. call' = [call EXCEPT ![c] = v]
    BY <2>1 DEF v
  <2> QED
    BY <1>1, <1>3, <2>3, <2>4 DEF VerifyLookup, HistoryOK
<1>4. ASSUME NEW p \in Phones, NEW u \in Purposes, NEW k \in Codes,
             VerifyMiss(c, p, u, k)
      PROVE  TypeInv'
  BY <1>2, <1>4 DEF VerifyMiss, HistoryOK, Replies
<1>5. CASE VerifyRefuse(c)
  <2>1. Refusal(call[c]) \in Replies
    BY DEF Refusal, Replies
  <2> QED
    BY <1>2, <1>5, <2>1 DEF VerifyRefuse, HistoryOK
<1>6. CASE VerifyCompare(c)
  <2> DEFINE next == IF call[c].code = otps[call[c].otp].code
                     THEN "mark" ELSE "increment"
             v == [call[c] EXCEPT !.at = next]
  <2>1. v \in Call /\ Local(v, otps)
    BY <1>0, <1>6 DEF VerifyCompare, CallOK, Call, Local
  <2>2. call' = [call EXCEPT ![c] = v]
    BY <1>6 DEF VerifyCompare
  <2> HIDE DEF v
  <2>3. call' \in [Calls -> Call] /\ \A d \in Calls : CallOK(d)'
    BY <1>1, <2>1, <2>2
  <2>4. misses' \in [OtpIds -> Nat]
    <3> DEFINE i == call[c].otp
               n == IF call[c].code = otps[i].code THEN misses[i]
                    ELSE misses[i] + 1
    <3>1. i \in OtpIds
      BY <1>6 DEF VerifyCompare, CallOK
    <3>2. n \in Nat
      BY <3>1
    <3>3. misses' = [misses EXCEPT ![i] = n]
      BY <1>6 DEF VerifyCompare
    <3> QED
      BY <3>1, <3>2, <3>3
  <2>5. \A i \in OtpIds : i # call[c].otp => misses'[i] = misses[i]
    BY <1>6 DEF VerifyCompare
  <2>6. otps[call[c].otp] # None
    BY <1>6 DEF VerifyCompare, CallOK
  <2>7. \A i \in OtpIds : HistoryOK(i)'
    BY <1>6, <2>5, <2>6 DEF VerifyCompare, HistoryOK
  <2> QED
    BY <1>6, <2>3, <2>4, <2>7 DEF VerifyCompare
<1>7. CASE VerifyAccount(c, s)
  BY <1>2, <1>7 DEF VerifyAccount, HistoryOK, Replies
<1> QED
  BY <1>3, <1>4, <1>5, <1>6, <1>7

\* IncrementAttempts and MarkVerified change the record the call has a copy of,
\* and no other.
LEMMA RecordEffect ==
    ASSUME TypeInv, NEW c \in Calls, IncrementAttempts(c) \/ MarkVerified(c)
    PROVE  /\ call[c].otp \in OtpIds /\ otps[call[c].otp] \in Otp
           /\ otps'[call[c].otp] \in Otp
           /\ \A j \in OtpIds : j # call[c].otp => otps'[j] = otps[j]
           /\ otps' \in [OtpIds -> Otp \cup {None}]
           /\ IncrementAttempts(c) =>
                 otps'[call[c].otp] =
                    [otps[call[c].otp] EXCEPT !.attempts = @ + 1]
           /\ MarkVerified(c) =>
                 otps'[call[c].otp] =
                    [otps[call[c].otp] EXCEPT !.verified = TRUE]
<1> DEFINE i == call[c].otp
<1>1. i \in OtpIds /\ otps[i] \in Otp
  BY DEF TypeInv, TypeOK, CallOK, IncrementAttempts, MarkVerified
<1>2. CASE IncrementAttempts(c)
  <2> DEFINE o == [otps[i] EXCEPT !.attempts = @ + 1]
  <2>1. o \in Otp
    BY <1>1 DEF Otp
  <2>2. otps' = [otps EXCEPT ![i] = o]
    BY <1>2 DEF IncrementAttempts
  <2> HIDE DEF i, o
  <2>3. /\ otps'[i] = o /\ otps' \in [OtpIds -> Otp \cup {None}]
        /\ \A j \in OtpIds : j # i => otps'[j] = otps[j]
    BY <1>1, <2>1, <2>2 DEF TypeInv, TypeOK
  <2> QED
    BY <1>1, <1>2, <2>1, <2>3 DEF i, o, IncrementAttempts, MarkVerified
<1>3. CASE MarkVerified(c)
  <2> DEFINE o == [otps[i] EXCEPT !.verified = TRUE]
  <2>1. o \in Otp
    BY <1>1 DEF Otp
  <2>2. otps' = [otps EXCEPT ![i] = o]
    BY <1>3 DEF MarkVerified
  <2> HIDE DEF i, o
  <2>3. /\ otps'[i] = o /\ otps' \in [OtpIds -> Otp \cup {None}]
        /\ \A j \in OtpIds : j # i => otps'[j] = otps[j]
    BY <1>1, <2>1, <2>2 DEF TypeInv, TypeOK
  <2> QED
    BY <1>1, <1>3, <2>1, <2>3 DEF i, o, IncrementAttempts, MarkVerified
<1> QED
  BY <1>2, <1>3

LEMMA CountTyped ==
    ASSUME TypeInv, NEW c \in Calls, IncrementAttempts(c) \/ MarkVerified(c)
    PROVE  TypeInv'
<1>1. \A j \in OtpIds : otps[j] # None => otps'[j] # None
  BY RecordEffect, OtpAssumption
<1>2. \A j \in OtpIds : otps'[j] = None => otps[j] = None /\ j # call[c].otp
  BY RecordEffect, OtpAssumption
<1>3. call' \in [Calls -> Call] /\ \A d \in Calls : CallOK(d)'
  <2>1. CASE call' = [call EXCEPT ![c] = [call[c] EXCEPT !.at = "account"]]
             /\ call[c].at # "idle"
    <3> DEFINE v == [call[c] EXCEPT !.at = "account"]
    <3>1. v \in Call /\ Local(v, otps')
      BY <2>1 DEF TypeInv, TypeOK, CallOK, Call, Local
    <3> HIDE DEF v
    <3>2. call' = [call EXCEPT ![c] = v]
      BY <2>1 DEF v
    <3> QED
      BY <1>1, <3>1, <3>2, CallUpdate
  <2>2. ASSUME NEW reply \in Replies, call' = [call EXCEPT ![c] = Done(reply)]
        PROVE  call' \in [Calls -> Call] /\ \A d \in Calls : CallOK(d)'
    <3>1. Done(reply) \in Call /\ Local(Done(reply), otps')
      BY DoneType DEF Done, Local
    <3> QED
      BY <1>1, <2>2, <3>1, CallUpdate
  <2> QED
    BY <2>1, <2>2 DEF IncrementAttempts, MarkVerified, Replies
<1>4. wins' \in [OtpIds -> Nat] /\ misses' \in [OtpIds -> Nat]
  BY DEF IncrementAttempts, MarkVerified, TypeInv, TypeOK
<1>5. \A j \in OtpIds : HistoryOK(j)'
  BY <1>2 DEF HistoryOK, TypeInv, TypeOK, IncrementAttempts, MarkVerified
<1> QED
  BY <1>3, <1>4, <1>5, RecordEffect DEF TypeInv, TypeOK

\* A restart leaves empty stores and idle goroutines.
LEMMA RestartTyped == ASSUME Restart PROVE TypeInv'
<1>1. call' \in [Calls -> Call]
  BY DoneType DEF Restart, Replies
<1> QED
  BY <1>1 DEF Restart, TypeInv, TypeOK, CallOK, HistoryOK, Done

\* Time changes deadlines only.
LEMMA TickEffect ==
    ASSUME TypeInv, Tick
    PROVE  /\ \A i \in OtpIds :
                 /\ otps[i] = None => otps'[i] = None
                 /\ otps[i] # None =>
                       /\ otps[i] \in Otp /\ otps'[i] \in Otp
                       /\ otps'[i] = [otps[i] EXCEPT !.left = Less(otps[i].left)]
           /\ \A c \in Calls :
                 /\ call[c] \in Call /\ call'[c] \in Call
                 /\ call'[c] = [call[c] EXCEPT !.left = Less(call[c].left)]
           /\ otps' \in [OtpIds -> Otp \cup {None}]
           /\ call' \in [Calls -> Call]
<1> USE DEF TypeInv, TypeOK
<1>1. ASSUME NEW left \in Past .. otpTTL PROVE Less(left) \in Past .. otpTTL
  BY LessRange, OtpAssumption
<1>2. ASSUME NEW i \in OtpIds, otps[i] # None
      PROVE  /\ otps[i] \in Otp /\ otps'[i] \in Otp
             /\ otps'[i] = [otps[i] EXCEPT !.left = Less(otps[i].left)]
  <2>1. otps[i] \in Otp
    BY <1>2
  <2>2. otps'[i] = [otps[i] EXCEPT !.left = Less(otps[i].left)]
    BY <1>2 DEF Tick
  <2>3. Less(otps[i].left) \in Past .. otpTTL
    BY <1>1, <2>1 DEF Otp
  <2> QED
    BY <2>1, <2>2, <2>3 DEF Otp
<1>3. \A i \in OtpIds : otps[i] = None => otps'[i] = None
  BY DEF Tick
<1>4. ASSUME NEW c \in Calls
      PROVE  /\ call[c] \in Call /\ call'[c] \in Call
             /\ call'[c] = [call[c] EXCEPT !.left = Less(call[c].left)]
  <2>1. call[c] \in Call
    OBVIOUS
  <2>2. call'[c] = [call[c] EXCEPT !.left = Less(call[c].left)]
    BY DEF Tick
  <2>3. Less(call[c].left) \in Past .. otpTTL
    BY <1>1, <2>1 DEF Call
  <2> QED
    BY <2>1, <2>2, <2>3 DEF Call
<1>5. otps' = [i \in OtpIds |-> otps'[i]] /\ call' = [c \in Calls |-> call'[c]]
  BY DEF Tick
<1>6. otps' \in [OtpIds -> Otp \cup {None}]
  BY <1>2, <1>3, <1>5
<1>7. call' \in [Calls -> Call]
  BY <1>4, <1>5
<1> QED
  BY <1>2, <1>3, <1>4, <1>6, <1>7

LEMMA TickTyped == ASSUME TypeInv, Tick PROVE TypeInv'
<1>1. \A i \in OtpIds : otps'[i] = None <=> otps[i] = None
  BY TickEffect, OtpAssumption
<1>2. ASSUME NEW c \in Calls PROVE CallOK(c)'
  <2>1. /\ call'[c].at = call[c].at /\ call'[c].phone = call[c].phone
        /\ call'[c].purpose = call[c].purpose /\ call'[c].code = call[c].code
        /\ call'[c].otp = call[c].otp
    BY TickEffect DEF Call
  <2> QED
    BY <1>1, <2>1 DEF CallOK, TypeInv
<1> QED
  BY <1>1, <1>2, TickEffect DEF Tick, TypeInv, TypeOK, HistoryOK

\* Every step keeps the types.
LEMMA StepTyped == TypeInv /\ [Next]_vars => TypeInv'
<1> SUFFICES ASSUME TypeInv, [Next]_vars PROVE TypeInv'
  OBVIOUS
<1>1. ASSUME NEW c \in Calls, NEW p \in Phones, NEW u \in Purposes,
             NEW k \in Codes,
             RequestDraw(c, p, u, k) \/ VerifyLookup(c, p, u, k)
             \/ VerifyMiss(c, p, u, k)
      PROVE  TypeInv'
  BY <1>1, RequestDrawTyped, VerifyTyped
<1>2. ASSUME NEW c \in Calls, NEW i \in OtpIds, CreateOTP(c, i)
      PROVE  TypeInv'
  BY <1>2, CreateTyped
<1>3. ASSUME NEW c \in Calls, IncrementAttempts(c) \/ MarkVerified(c)
      PROVE  TypeInv'
  BY <1>3, CountTyped
<1>4. ASSUME NEW c \in Calls, NEW s,
             VerifyRefuse(c) \/ VerifyCompare(c) \/ VerifyAccount(c, s)
      PROVE  TypeInv'
  BY <1>4, VerifyTyped
<1>5. CASE Restart
  BY <1>5, RestartTyped
<1>6. CASE Tick
  BY <1>6, TickTyped
<1>7. CASE UNCHANGED vars
  BY <1>7 DEF vars, TypeInv, TypeOK, CallOK, HistoryOK
<1> QED
  BY <1>1, <1>2, <1>3, <1>4, <1>5, <1>6, <1>7 DEF Next

\* The variables keep their types.
THEOREM TypeCorrect == Spec => []TypeOK
<1>1. TypeInv => TypeOK
  BY DEF TypeInv
<1> QED
  BY <1>1, InitTyped, StepTyped, PTL DEF Spec

----------------------------------------------------------------------------
(***************************************************************************)
(* Records age: one that is not being stored keeps its phone, purpose and  *)
(* code, its attempts never go down, and neither a deadline passed nor a   *)
(* verification is taken back.                                             *)
(***************************************************************************)

Ages(i) ==
    otps'[i] # None =>
        /\ otps[i] # None
        /\ otps'[i].phone = otps[i].phone
        /\ otps'[i].purpose = otps[i].purpose
        /\ otps'[i].code = otps[i].code
        /\ otps[i].attempts <= otps'[i].attempts
        /\ otps[i].verified => otps'[i].verified
        /\ IsExpired(otps[i]) => IsExpired(otps'[i])

\* Which actions change records.
LEMMA OtpsChange ==
    ASSUME [Next]_vars, otps' # otps
    PROVE  \/ \E c \in Calls, i \in OtpIds : CreateOTP(c, i)
           \/ \E c \in Calls : IncrementAttempts(c) \/ MarkVerified(c)
           \/ Restart
           \/ Tick
BY DEF Next, vars, RequestDraw, VerifyLookup, VerifyMiss, VerifyRefuse,
       VerifyCompare, VerifyAccount

LEMMA RecordsAge ==
    ASSUME TypeInv, [Next]_vars, NEW i \in OtpIds,
           \A c \in Calls : ~CreateOTP(c, i)
    PROVE  Ages(i)
<1>0. otps[i] # None => otps[i].attempts \in Nat
  BY DEF TypeInv, TypeOK, Otp
<1>1. CASE otps'[i] = otps[i]
  BY <1>0, <1>1 DEF Ages
<1>2. ASSUME NEW c \in Calls, NEW j \in OtpIds, CreateOTP(c, j)
      PROVE  Ages(i)
  <2>1. i # j
    BY <1>2
  <2>2. CASE i \in Active(call[c].phone, call[c].purpose)
    <3>1. otps[i] \in Otp /\ otps'[i] = [otps[i] EXCEPT !.left = Past]
      BY <1>2, <2>2, CreateEffect
    <3> QED
      BY <3>1, OtpAssumption DEF Ages, Otp, IsExpired
  <2> QED
    BY <1>1, <1>2, <2>1, <2>2, CreateEffect
<1>3. ASSUME NEW c \in Calls, IncrementAttempts(c) \/ MarkVerified(c)
      PROVE  Ages(i)
  <2>1. CASE i = call[c].otp
    <3>1. otps[i] \in Otp
      BY <1>3, <2>1, RecordEffect
    <3>2. \/ otps'[i] = [otps[i] EXCEPT !.attempts = @ + 1]
          \/ otps'[i] = [otps[i] EXCEPT !.verified = TRUE]
      BY <1>3, <2>1, RecordEffect
    <3> QED
      BY <3>1, <3>2, OtpAssumption DEF Ages, Otp, IsExpired
  <2> QED
    BY <1>1, <1>3, <2>1, RecordEffect
<1>4. CASE Restart
  BY <1>4 DEF Restart, Ages
<1>5. CASE Tick
  <2>1. CASE otps[i] # None
    <3>1. /\ otps[i] \in Otp
          /\ otps'[i] = [otps[i] EXCEPT !.left = Less(otps[i].left)]
      BY <1>5, <2>1, TickEffect
    <3> QED
      BY <3>1, <2>1 DEF Ages, Otp, IsExpired, Less
  <2> QED
    BY <1>5, <2>1, TickEffect DEF Ages
<1> QED
  BY <1>1, <1>2, <1>3, <1>4, <1>5, OtpsChange

----------------------------------------------------------------------------
(***************************************************************************)
(* One active code                                                         *)
(***************************************************************************)

OneActive ==
    \A p \in Phones, u \in Purposes : \A i, j \in Active(p, u) : i = j

\* A set with no two elements has at most one.
LEMMA AtMostOneElement ==
    ASSUME NEW S, \A x, y \in S : x = y
    PROVE  Cardinality(S) <= 1
<1>1. CASE S = {}
  BY <1>1, FS_EmptySet
<1>2. CASE S # {}
  <2>1. PICK x \in S : TRUE
    BY <1>2
  <2>2. S = {x}
    BY <2>1
  <2> QED
    BY <2>2, FS_Singleton
<1> QED
  BY <1>1, <1>2

\* A record that ages is active only where it was.
LEMMA ActiveWas ==
    ASSUME TypeInv, NEW p, NEW u, NEW i \in OtpIds, Ages(i), i \in Active(p, u)'
    PROVE  i \in Active(p, u)
<1>1. otps[i] # None => otps[i].verified \in BOOLEAN
  BY DEF TypeInv, TypeOK, Otp
<1>2. otps'[i] # None /\ ~otps'[i].verified /\ ~IsExpired(otps'[i])
  BY DEF Active
<1> QED
  BY <1>1, <1>2 DEF Ages, Active

LEMMA OneActiveNext ==
    TypeInv /\ OneActive /\ [Next]_vars => OneActive'
<1> SUFFICES ASSUME TypeInv, OneActive, [Next]_vars,
                    NEW p \in Phones, NEW u \in Purposes,
                    NEW i \in Active(p, u)', NEW j \in Active(p, u)'
             PROVE  i = j
  BY DEF OneActive
<1>0. i \in OtpIds /\ j \in OtpIds
  BY DEF Active
<1>1. CASE \A c \in Calls, n \in OtpIds : ~CreateOTP(c, n)
  <2>1. Ages(i) /\ Ages(j)
    BY <1>0, <1>1, RecordsAge
  <2> QED
    BY <1>0, <2>1, ActiveWas DEF OneActive
<1>2. ASSUME NEW c \in Calls, NEW n \in OtpIds, CreateOTP(c, n)
      PROVE  i = j
  <2>1. ASSUME NEW m \in Active(p, u)', m # n
        PROVE  /\ m \in Active(p, u)
               /\ ~(p = call[c].phone /\ u = call[c].purpose)
    <3>1. m \in OtpIds /\ ~IsExpired(otps'[m])
      BY DEF Active
    <3>2. m \notin Active(call[c].phone, call[c].purpose)
      <4>1. SUFFICES ASSUME m \in Active(call[c].phone, call[c].purpose)
                     PROVE  FALSE
        OBVIOUS
      <4>2. otps[m] \in Otp /\ otps'[m] = [otps[m] EXCEPT !.left = Past]
        BY <1>2, <4>1, CreateEffect
      <4> QED
        BY <3>1, <4>2 DEF IsExpired, Otp
    <3>3. otps'[m] = otps[m]
      BY <1>2, <2>1, <3>1, <3>2, CreateEffect
    <3>4. m \in Active(p, u)
      BY <3>1, <3>3 DEF Active
    <3> QED
      BY <3>2, <3>4
  <2>2. n \in Active(p, u)' => p = call[c].phone /\ u = call[c].purpose
    <3>1. otps'[n] = NewOtp(c)
      BY <1>2, CreateEffect
    <3> QED
      BY <3>1 DEF Active, NewOtp
  <2> QED
    BY <2>1, <2>2 DEF OneActive
<1> QED
  BY <1>1, <1>2

\* However requests interleave, a phone and purpose have one active code at most.
THEOREM OneActiveCode == Spec => []AtMostOneActive
<1>1. Init => OneActive
  BY DEF Init, OneActive, Active
<1>2. OneActive => AtMostOneActive
  BY AtMostOneElement DEF OneActive, AtMostOneActive
<1> QED
  BY <1>1, <1>2, OneActiveNext, InitTyped, StepTyped, PTL DEF Spec

----------------------------------------------------------------------------
(***************************************************************************)
(* Wrong guesses are counted, and how far they overshoot the limit         *)
(***************************************************************************)

\* A call that is to count a wrong guess, and one that may still come to that.
Guesses(v, i) == v.at = "increment" /\ v.otp = i
MayGuess(v, i) ==
    /\ v.otp = i
    /\ \/ v.at = "increment"
       \/ v.at = "check" /\ v.attempts < otpMaxAttempts

Guessers(i) == {c \in Calls : Guesses(call[c], i)}
MayGuessers(i) == {c \in Calls : MayGuess(call[c], i)}

\* A call is admitted while guesses are left, so one more than the guesses that
\* were left at its lookup may be on their way, less itself.
CountOK(i) ==
    otps[i] # None =>
        /\ otps[i].attempts + Cardinality(Guessers(i)) = misses[i]
        /\ otps[i].attempts + Cardinality(MayGuessers(i))
              <= otpMaxAttempts + Cardinality(Calls) - 1

CountInv == \A i \in OtpIds : CountOK(i)

\* Two sets of calls that differ in one call differ by one in number.
LEMMA OneMoves ==
    ASSUME NEW S, NEW T, NEW c, IsFiniteSet(S), S \ {c} = T \ {c}
    PROVE  /\ IsFiniteSet(T)
           /\ Cardinality(S) \in Nat
           /\ Cardinality(T) = Cardinality(S) + (IF c \in T THEN 1 ELSE 0)
                                              - (IF c \in S THEN 1 ELSE 0)
<1> DEFINE R == S \ {c}
<1>1. IsFiniteSet(R)
  BY FS_RemoveElement
<1>2. Cardinality(R) \in Nat
  BY <1>1, FS_CardinalityType
<1>3. /\ Cardinality(R \cup {c}) = Cardinality(R) + 1
      /\ IsFiniteSet(R \cup {c})
  BY <1>1, FS_AddElement
<1>4. (c \in S => S = R \cup {c}) /\ (c \notin S => S = R)
  OBVIOUS
<1>5. (c \in T => T = R \cup {c}) /\ (c \notin T => T = R)
  OBVIOUS
<1> HIDE DEF R
<1>6. IsFiniteSet(T)
  BY <1>1, <1>3, <1>5
<1>7. Cardinality(S) = Cardinality(R) + (IF c \in S THEN 1 ELSE 0)
  BY <1>2, <1>3, <1>4
<1>8. Cardinality(T) = Cardinality(R) + (IF c \in T THEN 1 ELSE 0)
  BY <1>2, <1>3, <1>5
<1> QED
  BY <1>2, <1>6, <1>7, <1>8

\* The guessers are some of the calls.
GuessersFinite ==
    \A i \in OtpIds :
        /\ IsFiniteSet(Guessers(i)) /\ IsFiniteSet(MayGuessers(i))
        /\ Cardinality(Guessers(i)) \in Nat
        /\ Cardinality(MayGuessers(i)) \in Nat
        /\ Cardinality(Calls) \in Nat
        /\ Cardinality(Guessers(i)) <= Cardinality(MayGuessers(i))
        /\ Cardinality(MayGuessers(i)) <= Cardinality(Calls)

LEMMA GuessersAreFinite == GuessersFinite
<1> SUFFICES ASSUME NEW i \in OtpIds
             PROVE  /\ IsFiniteSet(Guessers(i)) /\ IsFiniteSet(MayGuessers(i))
                    /\ Cardinality(Guessers(i)) \in Nat
                    /\ Cardinality(MayGuessers(i)) \in Nat
                    /\ Cardinality(Calls) \in Nat
                    /\ Cardinality(Guessers(i)) <= Cardinality(MayGuessers(i))
                    /\ Cardinality(MayGuessers(i)) <= Cardinality(Calls)
  BY DEF GuessersFinite
<1>1. MayGuessers(i) \in SUBSET Calls
  BY DEF MayGuessers
<1>2. Guessers(i) \in SUBSET MayGuessers(i)
  BY DEF Guessers, MayGuessers, Guesses, MayGuess
<1>3. IsFiniteSet(Calls)
  BY OtpAssumption
<1>4. /\ IsFiniteSet(MayGuessers(i))
      /\ Cardinality(MayGuessers(i)) <= Cardinality(Calls)
  BY <1>1, <1>3, FS_Subset
<1>5. /\ IsFiniteSet(Guessers(i))
      /\ Cardinality(Guessers(i)) <= Cardinality(MayGuessers(i))
  BY <1>2, <1>4, FS_Subset
<1> QED
  BY <1>3, <1>4, <1>5, FS_CardinalityType

\* And so they are after a step.
LEMMA GuessersAreFiniteNext == GuessersFinite'
BY GuessersAreFinite, PTL

\* How the numbers of guessers change when one call moves.
LEMMA GuessersMove ==
    ASSUME TypeInv, NEW c \in Calls, NEW v, call' = [call EXCEPT ![c] = v],
           NEW i \in OtpIds
    PROVE  /\ Cardinality(Guessers(i))' = Cardinality(Guessers(i))
                  + (IF Guesses(v, i) THEN 1 ELSE 0)
                  - (IF Guesses(call[c], i) THEN 1 ELSE 0)
           /\ Cardinality(MayGuessers(i))' = Cardinality(MayGuessers(i))
                  + (IF MayGuess(v, i) THEN 1 ELSE 0)
                  - (IF MayGuess(call[c], i) THEN 1 ELSE 0)
<1>1. call'[c] = v /\ \A d \in Calls : d # c => call'[d] = call[d]
  BY DEF TypeInv, TypeOK
<1> DEFINE G == Guessers(i)'
           M == MayGuessers(i)'
<1>2. /\ Guessers(i) \ {c} = G \ {c}
      /\ c \in Guessers(i) <=> Guesses(call[c], i)
      /\ c \in G <=> Guesses(v, i)
  BY <1>1 DEF Guessers
<1>3. /\ MayGuessers(i) \ {c} = M \ {c}
      /\ c \in MayGuessers(i) <=> MayGuess(call[c], i)
      /\ c \in M <=> MayGuess(v, i)
  BY <1>1 DEF MayGuessers
<1> HIDE DEF G, M
<1>4. Cardinality(G) = Cardinality(Guessers(i))
         + (IF Guesses(v, i) THEN 1 ELSE 0)
         - (IF Guesses(call[c], i) THEN 1 ELSE 0)
  BY <1>2, GuessersAreFinite, OneMoves DEF GuessersFinite
<1>5. Cardinality(M) = Cardinality(MayGuessers(i))
         + (IF MayGuess(v, i) THEN 1 ELSE 0)
         - (IF MayGuess(call[c], i) THEN 1 ELSE 0)
  BY <1>3, GuessersAreFinite, OneMoves DEF GuessersFinite
<1> QED
  BY <1>4, <1>5 DEF G, M

\* The counts that decide: the numbers of guessers of a record.
LEMMA CountsType ==
    ASSUME TypeInv, NEW i \in OtpIds
    PROVE  /\ Cardinality(Guessers(i)) \in Nat
           /\ Cardinality(MayGuessers(i)) \in Nat
           /\ Cardinality(MayGuessers(i))' \in Nat
           /\ Cardinality(MayGuessers(i))' <= Cardinality(Calls)
           /\ Cardinality(Calls) \in Nat
           /\ otpMaxAttempts \in Nat
           /\ otps[i] # None => otps[i].attempts \in Nat
           /\ misses[i] \in Nat
BY GuessersAreFinite, GuessersAreFiniteNext, OtpAssumption
   DEF GuessersFinite, TypeInv, TypeOK, Otp

\* A step of one call that touches no record and compares no code: a lookup
\* admits the call if the record has guesses left, and nothing else does.
LEMMA QuietCount ==
    ASSUME TypeInv, CountInv, NEW c \in Calls, NEW v,
           call' = [call EXCEPT ![c] = v], otps' = otps, misses' = misses,
           call[c].at # "increment", v.at # "increment",
           v.at = "check" => v.attempts = otps[v.otp].attempts
    PROVE  CountInv'
<1> SUFFICES ASSUME NEW i \in OtpIds, otps[i] # None
             PROVE  CountOK(i)'
  BY DEF CountInv, CountOK
<1>0. /\ Cardinality(Guessers(i))' = Cardinality(Guessers(i))
             + (IF Guesses(v, i) THEN 1 ELSE 0)
             - (IF Guesses(call[c], i) THEN 1 ELSE 0)
      /\ Cardinality(MayGuessers(i))' = Cardinality(MayGuessers(i))
             + (IF MayGuess(v, i) THEN 1 ELSE 0)
             - (IF MayGuess(call[c], i) THEN 1 ELSE 0)
  BY GuessersMove
<1>1. ~Guesses(v, i) /\ ~Guesses(call[c], i)
  BY DEF Guesses
<1>2. Cardinality(Guessers(i))' = Cardinality(Guessers(i))
  BY <1>0, <1>1, CountsType
<1>3. otps[i].attempts + Cardinality(MayGuessers(i))'
         <= otpMaxAttempts + Cardinality(Calls) - 1
  <2>1. CASE MayGuess(v, i)
    <3>1. otps[i].attempts < otpMaxAttempts
      BY <2>1 DEF MayGuess
    <3> QED
      BY <3>1, CountsType
  <2>2. CASE ~MayGuess(v, i)
    <3>1. Cardinality(MayGuessers(i))' <= Cardinality(MayGuessers(i))
      BY <1>0, <2>2, CountsType
    <3> QED
      BY <3>1, CountsType DEF CountInv, CountOK
  <2> QED
    BY <2>1, <2>2
<1> QED
  BY <1>2, <1>3 DEF CountInv, CountOK

\* A code compared: a wrong one makes of a call that may guess one that does.
LEMMA CompareCount ==
    ASSUME TypeInv, CountInv, NEW c \in Calls, VerifyCompare(c)
    PROVE  CountInv'
<1> SUFFICES ASSUME NEW i \in OtpIds, otps[i] # None
             PROVE  CountOK(i)'
  BY DEF CountInv, CountOK, VerifyCompare
<1> DEFINE hit == call[c].code = otps[call[c].otp].code
           v == [call[c] EXCEPT !.at = IF hit THEN "mark" ELSE "increment"]
<1>1. call' = [call EXCEPT ![c] = v] /\ call[c] \in Call
  BY DEF VerifyCompare, TypeInv, TypeOK
<1>2. call[c].at = "check" /\ call[c].attempts < otpMaxAttempts
  BY <1>1, OtpAssumption DEF VerifyCompare, Refusal, Call
<1>3. /\ Guesses(v, i) <=> call[c].otp = i /\ ~hit
      /\ ~Guesses(call[c], i)
      /\ MayGuess(v, i) => MayGuess(call[c], i)
  BY <1>1, <1>2 DEF Guesses, MayGuess, Call
<1> HIDE DEF v, hit
<1>0. /\ Cardinality(Guessers(i))' = Cardinality(Guessers(i))
             + (IF Guesses(v, i) THEN 1 ELSE 0)
             - (IF Guesses(call[c], i) THEN 1 ELSE 0)
      /\ Cardinality(MayGuessers(i))' = Cardinality(MayGuessers(i))
             + (IF MayGuess(v, i) THEN 1 ELSE 0)
             - (IF MayGuess(call[c], i) THEN 1 ELSE 0)
  BY <1>1, GuessersMove
<1>4. Cardinality(Guessers(i))' = Cardinality(Guessers(i))
         + (IF call[c].otp = i /\ ~hit THEN 1 ELSE 0)
  BY <1>0, <1>3, CountsType
<1>5. Cardinality(MayGuessers(i))' <= Cardinality(MayGuessers(i))
  BY <1>0, <1>3, CountsType
<1>6. misses'[i] = misses[i] + (IF call[c].otp = i /\ ~hit THEN 1 ELSE 0)
  BY CountsType DEF VerifyCompare, TypeInv, TypeOK, hit
<1>7. otps' = otps
  BY DEF VerifyCompare
<1> QED
  BY <1>4, <1>5, <1>6, <1>7, CountsType DEF CountInv, CountOK

\* A wrong guess counted, or a right one marked.
LEMMA RecordCount ==
    ASSUME TypeInv, CountInv, NEW c \in Calls,
           IncrementAttempts(c) \/ MarkVerified(c)
    PROVE  CountInv'
<1> SUFFICES ASSUME NEW i \in OtpIds, otps'[i] # None
             PROVE  CountOK(i)'
  BY DEF CountInv, CountOK
<1>0. otps[i] # None
  BY RecordEffect, OtpAssumption
<1> DEFINE mine == IF IncrementAttempts(c) /\ call[c].otp = i THEN 1 ELSE 0
<1>1. PICK v : /\ call' = [call EXCEPT ![c] = v]
               /\ v.at \notin {"increment", "check"}
  <2>1. call[c] \in Call
    BY DEF TypeInv, TypeOK
  <2>2. /\ \A reply : Done(reply).at = "idle"
        /\ [call[c] EXCEPT !.at = "account"].at = "account"
    BY <2>1 DEF Done, Call
  <2> HIDE DEF Call
  <2> QED
    BY <2>2 DEF IncrementAttempts, MarkVerified
<1>2. /\ ~Guesses(v, i) /\ ~MayGuess(v, i)
      /\ Guesses(call[c], i) <=> mine = 1
      /\ MayGuess(call[c], i) <=> mine = 1
  BY <1>1 DEF Guesses, MayGuess, IncrementAttempts, MarkVerified
<1> HIDE DEF mine
<1>3. /\ Cardinality(Guessers(i))' = Cardinality(Guessers(i))
             + (IF Guesses(v, i) THEN 1 ELSE 0)
             - (IF Guesses(call[c], i) THEN 1 ELSE 0)
      /\ Cardinality(MayGuessers(i))' = Cardinality(MayGuessers(i))
             + (IF MayGuess(v, i) THEN 1 ELSE 0)
             - (IF MayGuess(call[c], i) THEN 1 ELSE 0)
  BY <1>1, GuessersMove
<1>4. mine \in {0, 1}
  BY DEF mine
<1>5. /\ Cardinality(Guessers(i))' = Cardinality(Guessers(i)) - mine
      /\ Cardinality(MayGuessers(i))' = Cardinality(MayGuessers(i)) - mine
  BY <1>3, <1>4, <1>2, CountsType
<1>6. otps'[i].attempts = otps[i].attempts + mine
  <2>1. CASE call[c].otp # i
    <3>1. mine = 0
      BY <2>1 DEF mine
    <3>2. otps'[i] = otps[i] /\ otps[i].attempts \in Nat
      BY <1>0, <2>1, RecordEffect, CountsType
    <3> QED
      BY <3>1, <3>2
  <2>2. CASE call[c].otp = i /\ IncrementAttempts(c)
    <3>1. otps[i] \in Otp /\ otps'[i] = [otps[i] EXCEPT !.attempts = @ + 1]
      BY <2>2, RecordEffect
    <3> QED
      BY <2>2, <3>1 DEF Otp, mine
  <2>3. CASE call[c].otp = i /\ MarkVerified(c)
    <3>1. otps[i] \in Otp /\ otps'[i] = [otps[i] EXCEPT !.verified = TRUE]
      BY <2>3, RecordEffect
    <3>2. ~IncrementAttempts(c)
      BY <2>3 DEF IncrementAttempts, MarkVerified
    <3> QED
      BY <2>3, <3>1, <3>2 DEF Otp, mine
  <2> QED
    BY <2>1, <2>2, <2>3
<1>7. misses' = misses
  BY DEF IncrementAttempts, MarkVerified
<1> QED
  BY <1>0, <1>5, <1>6, <1>7, <1>4, CountsType DEF CountInv, CountOK

\* A new record has no guesses: no call had a copy of it before.
LEMMA CreateCount ==
    ASSUME TypeInv, CountInv, NEW c \in Calls, NEW n \in OtpIds,
           CreateOTP(c, n)
    PROVE  CountInv'
<1> SUFFICES ASSUME NEW i \in OtpIds, otps'[i] # None
             PROVE  CountOK(i)'
  BY DEF CountInv, CountOK
<1>1. /\ call' = [call EXCEPT ![c] = Done("sent")]
      /\ call[c].at = "create"
  BY DEF CreateOTP
<1>2. /\ ~Guesses(Done("sent"), i) /\ ~Guesses(call[c], i)
      /\ ~MayGuess(Done("sent"), i) /\ ~MayGuess(call[c], i)
  BY <1>1 DEF Guesses, MayGuess, Done
<1>3. /\ Cardinality(Guessers(i))' = Cardinality(Guessers(i))
             + (IF Guesses(Done("sent"), i) THEN 1 ELSE 0)
             - (IF Guesses(call[c], i) THEN 1 ELSE 0)
      /\ Cardinality(MayGuessers(i))' = Cardinality(MayGuessers(i))
             + (IF MayGuess(Done("sent"), i) THEN 1 ELSE 0)
             - (IF MayGuess(call[c], i) THEN 1 ELSE 0)
  BY <1>1, GuessersMove
<1>4. /\ Cardinality(Guessers(i))' = Cardinality(Guessers(i))
      /\ Cardinality(MayGuessers(i))' = Cardinality(MayGuessers(i))
  BY <1>2, <1>3, CountsType
<1>5. CASE i = n
  <2>1. otps[i] = None
    BY <1>5 DEF CreateOTP
  <2>2. Guessers(i) = {} /\ MayGuessers(i) = {}
    BY <2>1 DEF Guessers, MayGuessers, Guesses, MayGuess, TypeInv, CallOK
  <2>3. Cardinality(Guessers(i))' = 0 /\ Cardinality(MayGuessers(i))' = 0
    BY <1>4, <2>2, FS_EmptySet
  <2>4. otps'[i].attempts = 0 /\ misses'[i] = 0
    <3>1. otps'[i] = NewOtp(c)
      BY <1>5, CreateEffect
    <3>2. misses'[i] = 0
      BY <1>5 DEF CreateOTP, TypeInv, TypeOK
    <3> QED
      BY <3>1, <3>2 DEF NewOtp
  <2>5. otpMaxAttempts >= 1 /\ Cardinality(Calls) \in Nat
    BY CountsType, OtpAssumption
  <2> QED
    BY <2>3, <2>4, <2>5, OtpAssumption DEF CountOK
<1>6. CASE i # n
  <2>1. misses'[i] = misses[i]
    BY <1>6 DEF CreateOTP, TypeInv, TypeOK
  <2>2. otps[i] # None /\ otps'[i].attempts = otps[i].attempts
    <3>1. CASE i \in Active(call[c].phone, call[c].purpose)
      <4>1. /\ otps[i] \in Otp /\ otps'[i] = [otps[i] EXCEPT !.left = Past]
        BY <3>1, CreateEffect
      <4> QED
        BY <4>1, OtpAssumption DEF Otp
    <3> QED
      BY <1>6, <3>1, CreateEffect
  <2> QED
    BY <1>4, <2>1, <2>2 DEF CountInv, CountOK
<1> QED
  BY <1>5, <1>6

\* Time changes no count.
LEMMA TickCount == ASSUME TypeInv, CountInv, Tick PROVE CountInv'
<1> SUFFICES ASSUME NEW i \in OtpIds, otps'[i] # None
             PROVE  CountOK(i)'
  BY DEF CountInv, CountOK
<1>1. otps[i] # None /\ otps'[i].attempts = otps[i].attempts
  <2>1. otps[i] # None
    BY TickEffect
  <2>2. /\ otps[i] \in Otp
        /\ otps'[i] = [otps[i] EXCEPT !.left = Less(otps[i].left)]
    BY <2>1, TickEffect
  <2> QED
    BY <2>1, <2>2 DEF Otp
<1>2. ASSUME NEW c \in Calls
      PROVE  /\ Guesses(call'[c], i) <=> Guesses(call[c], i)
             /\ MayGuess(call'[c], i) <=> MayGuess(call[c], i)
  <2>1. /\ call'[c].at = call[c].at /\ call'[c].otp = call[c].otp
        /\ call'[c].attempts = call[c].attempts
    BY TickEffect DEF Call
  <2> QED
    BY <2>1 DEF Guesses, MayGuess
<1>3. Guessers(i)' = Guessers(i) /\ MayGuessers(i)' = MayGuessers(i)
  BY <1>2 DEF Guessers, MayGuessers
<1>4. misses' = misses
  BY DEF Tick
<1> QED
  BY <1>1, <1>3, <1>4 DEF CountInv, CountOK

\* Every step keeps the counts.
LEMMA CountNext == TypeInv /\ CountInv /\ [Next]_vars => CountInv'
<1> SUFFICES ASSUME TypeInv, CountInv, [Next]_vars PROVE CountInv'
  OBVIOUS
<1>1. ASSUME NEW c \in Calls, NEW p \in Phones, NEW u \in Purposes,
             NEW k \in Codes, RequestDraw(c, p, u, k)
      PROVE  CountInv'
  <2> DEFINE v == [at |-> "create", phone |-> p, purpose |-> u, code |-> k,
                   otp |-> None, attempts |-> 0, left |-> otpTTL,
                   reply |-> "none"]
  <2>1. v.at = "create"
    OBVIOUS
  <2>2. call' = [call EXCEPT ![c] = v]
    BY <1>1 DEF RequestDraw
  <2> HIDE DEF v
  <2> QED
    BY <1>1, <2>1, <2>2, QuietCount DEF RequestDraw
<1>2. ASSUME NEW c \in Calls, NEW p \in Phones, NEW u \in Purposes,
             NEW k \in Codes, VerifyLookup(c, p, u, k)
      PROVE  CountInv'
  <2>1. PICK i \in Active(p, u) :
           call' = [call EXCEPT ![c] =
                      [at |-> "check", phone |-> p, purpose |-> u, code |-> k,
                       otp |-> i, attempts |-> otps[i].attempts,
                       left |-> otps[i].left, reply |-> "none"]]
    BY <1>2 DEF VerifyLookup
  <2> DEFINE v == [at |-> "check", phone |-> p, purpose |-> u, code |-> k,
                   otp |-> i, attempts |-> otps[i].attempts,
                   left |-> otps[i].left, reply |-> "none"]
  <2>2. v.at = "check" /\ v.attempts = otps[v.otp].attempts
    OBVIOUS
  <2>3. call' = [call EXCEPT ![c] = v]
    BY <2>1
  <2> HIDE DEF v
  <2> QED
    BY <1>2, <2>2, <2>3, QuietCount DEF VerifyLookup
<1>3. ASSUME NEW c \in Calls, NEW reply, call[c].at # "increment",
             call' = [call EXCEPT ![c] = Done(reply)],
             otps' = otps, misses' = misses
      PROVE  CountInv'
  <2>1. Done(reply).at = "idle"
    BY DEF Done
  <2> QED
    BY <1>3, <2>1, QuietCount
<1>4. ASSUME NEW c \in Calls, NEW s,
             \/ \E p \in Phones, u \in Purposes, k \in Codes :
                   VerifyMiss(c, p, u, k)
             \/ VerifyRefuse(c) \/ VerifyAccount(c, s)
      PROVE  CountInv'
  BY <1>3, <1>4 DEF VerifyMiss, VerifyRefuse, VerifyAccount
<1>5. CASE Restart
  BY <1>5 DEF Restart, CountInv, CountOK
<1>6. CASE UNCHANGED vars
  BY <1>6 DEF vars, CountInv, CountOK, Guessers, MayGuessers
<1> QED
  BY <1>1, <1>2, <1>4, <1>5, <1>6, CompareCount, RecordCount, CreateCount,
     TickCount DEF Next

CountSafe == TypeInv /\ CountInv

LEMMA CountSafety == Spec => []CountSafe
<1>1. Init => CountSafe
  BY InitTyped DEF Init, CountSafe, CountInv, CountOK
<1>2. CountSafe /\ [Next]_vars => CountSafe'
  BY StepTyped, CountNext DEF CountSafe
<1> QED
  BY <1>1, <1>2, PTL DEF Spec

\* No guess is free, whatever copies the calls compared with.
THEOREM MissesAreCounted == Spec => []EveryMissIsCounted
<1>1. CountSafe => EveryMissIsCounted
  BY DEF CountSafe, CountInv, CountOK, EveryMissIsCounted, Guessing, Guessers,
         Guesses
<1> QED
  BY <1>1, CountSafety, PTL

\* Concurrent guesses pass the limit by less than the number of calls.
THEOREM OvershootIsBounded == Spec => []AttemptsOvershoot
<1>1. CountSafe => AttemptsOvershoot
  <2> SUFFICES ASSUME CountSafe, NEW i \in OtpIds, otps[i] # None
               PROVE  otps[i].attempts + Guessing(i)
                         <= otpMaxAttempts + Cardinality(Calls) - 1
    BY DEF AttemptsOvershoot
  <2>1. Guessing(i) = Cardinality(Guessers(i))
    BY DEF Guessing, Guessers, Guesses
  <2>2. Cardinality(Guessers(i)) <= Cardinality(MayGuessers(i))
    BY GuessersAreFinite DEF GuessersFinite
  <2> QED
    BY <2>1, <2>2, CountsType DEF CountSafe, CountInv, CountOK
<1> QED
  BY <1>1, CountSafety, PTL

----------------------------------------------------------------------------
(***************************************************************************)
(* A dead code stays dead                                                  *)
(***************************************************************************)

\* A call that may still verify the code.
Holds(v, i) ==
    /\ v.otp = i
    /\ \/ v.at = "check" /\ Refusal(v) = "none"
       \/ v.at = "mark"

\* A record that a lookup would give out, with guesses left.
Open(i) ==
    /\ otps[i] # None
    /\ ~otps[i].verified
    /\ ~IsExpired(otps[i])
    /\ otps[i].attempts < otpMaxAttempts

\* A call comes to hold a code only by looking up one that is open.
LEMMA HoldsWas ==
    ASSUME TypeInv, [Next]_vars, NEW c \in Calls, NEW i \in OtpIds,
           Holds(call'[c], i)
    PROVE  Holds(call[c], i) \/ Open(i)
<1>0. /\ \A reply : Done(reply).at = "idle"
      /\ call[c] \in Call /\ call \in [Calls -> Call]
  BY DEF Done, TypeInv, TypeOK
<1>1. CASE call'[c] = call[c]
  BY <1>1
<1>2. ASSUME NEW d \in Calls, NEW p \in Phones, NEW u \in Purposes,
             NEW k \in Codes, VerifyLookup(d, p, u, k)
      PROVE  Holds(call[c], i) \/ Open(i)
  <2>1. PICK j \in Active(p, u) :
           call' = [call EXCEPT ![d] =
                      [at |-> "check", phone |-> p, purpose |-> u, code |-> k,
                       otp |-> j, attempts |-> otps[j].attempts,
                       left |-> otps[j].left, reply |-> "none"]]
    BY <1>2 DEF VerifyLookup
  <2>2. CASE c = d
    <3>1. /\ call'[c].otp = j /\ call'[c].at = "check"
          /\ call'[c].attempts = otps[j].attempts
      BY <1>0, <2>1, <2>2
    <3>2. j = i /\ ~(call'[c].attempts >= otpMaxAttempts)
      BY <3>1 DEF Holds, Refusal
    <3>3. otps[j].attempts \in Nat
      BY DEF Active, TypeInv, TypeOK, Otp
    <3> QED
      BY <3>1, <3>2, <3>3, OtpAssumption DEF Open, Active
  <2>3. CASE c # d
    BY <1>0, <1>1, <2>1, <2>3
  <2> QED
    BY <2>2, <2>3
<1>3. ASSUME NEW d \in Calls, VerifyCompare(d)
      PROVE  Holds(call[c], i) \/ Open(i)
  <2>1. CASE c = d
    <3>1. call'[c].otp = call[c].otp
      BY <1>0, <1>3, <2>1 DEF VerifyCompare, Call
    <3> QED
      BY <1>3, <2>1, <3>1 DEF VerifyCompare, Holds
  <2>2. CASE c # d
    BY <1>0, <1>1, <1>3, <2>2 DEF VerifyCompare
  <2> QED
    BY <2>1, <2>2
<1>4. CASE Tick
  <2>1. call'[c] = [call[c] EXCEPT !.left = Less(call[c].left)]
    BY <1>4, TickEffect
  <2>2. /\ call'[c].at = call[c].at /\ call'[c].otp = call[c].otp
        /\ call'[c].attempts = call[c].attempts
        /\ IsExpired(call[c]) => IsExpired(call'[c])
    BY <1>0, <2>1 DEF Call, IsExpired, Less
  <2> QED
    BY <2>2 DEF Holds, Refusal
<1>5. ASSUME NEW d \in Calls, NEW v, v.at \notin {"check", "mark"},
             call' = [call EXCEPT ![d] = v]
      PROVE  Holds(call[c], i) \/ Open(i)
  <2>1. CASE c = d
    BY <1>0, <1>5, <2>1 DEF Holds
  <2>2. CASE c # d
    BY <1>0, <1>1, <1>5, <2>2
  <2> QED
    BY <2>1, <2>2
<1>6. ASSUME NEW d \in Calls, NEW p \in Phones, NEW u \in Purposes,
             NEW k \in Codes,
             RequestDraw(d, p, u, k) \/ VerifyMiss(d, p, u, k)
      PROVE  Holds(call[c], i) \/ Open(i)
  BY <1>0, <1>5, <1>6 DEF RequestDraw, VerifyMiss
<1>7. ASSUME NEW d \in Calls, NEW j, NEW s,
             \/ CreateOTP(d, j) \/ VerifyRefuse(d) \/ IncrementAttempts(d)
             \/ VerifyAccount(d, s)
      PROVE  Holds(call[c], i) \/ Open(i)
  BY <1>0, <1>5, <1>7
     DEF CreateOTP, VerifyRefuse, IncrementAttempts, VerifyAccount
<1>8. ASSUME NEW d \in Calls, MarkVerified(d)
      PROVE  Holds(call[c], i) \/ Open(i)
  <2> DEFINE w == [call[d] EXCEPT !.at = "account"]
  <2>1. w.at = "account"
    BY DEF TypeInv, TypeOK, Call
  <2>2. call' = [call EXCEPT ![d] = IF call[d].purpose = "auth"
                                    THEN w ELSE Done("verified")]
    BY <1>8 DEF MarkVerified
  <2> HIDE DEF w
  <2> QED
    BY <1>0, <1>5, <2>1, <2>2
<1>9. CASE Restart
  BY <1>0, <1>9 DEF Restart, Holds
<1> QED
  BY <1>1, <1>2, <1>3, <1>4, <1>6, <1>7, <1>8, <1>9 DEF Next, vars

\* A record opens by being stored, and by nothing else.
LEMMA OpenWas ==
    ASSUME TypeInv, TypeInv', NEW i \in OtpIds, Ages(i), Open(i)'
    PROVE  Open(i)
<1>1. otps[i] # None => otps[i].verified \in BOOLEAN /\ otps[i].attempts \in Nat
  BY DEF TypeInv, TypeOK, Otp
<1>2. /\ otps'[i] # None /\ ~otps'[i].verified /\ ~IsExpired(otps'[i])
      /\ otps'[i].attempts < otpMaxAttempts
  BY DEF Open
<1>3. otps'[i] # None => otps[i] # None /\ otps[i].attempts <= otps'[i].attempts
  BY DEF Ages
<1>4. otps'[i].attempts \in Nat
  BY <1>2 DEF TypeInv, TypeOK, Otp
<1>5. otps[i].attempts < otpMaxAttempts
  BY <1>1, <1>2, <1>3, <1>4, OtpAssumption
<1> QED
  BY <1>1, <1>2, <1>5 DEF Ages, Open

\* A code that is verified, past its deadline or out of attempts, and of which no
\* call holds a usable copy, is never verified again and stays as dead.
THEOREM DeadStaysDead == Spec => UnusableStaysUnusable
<1>1. TypeInv /\ TypeInv' /\ [Next]_vars
         => [\A i \in OtpIds : otps[i] # None /\ ~Usable(i) =>
                \/ otps'[i] = None
                \/ ~Usable(i)' /\ wins'[i] = wins[i]]_vars
  <2> SUFFICES ASSUME TypeInv, TypeInv', [Next]_vars, NEW i \in OtpIds,
                      otps[i] # None, ~Usable(i), otps'[i] # None
               PROVE  ~Usable(i)' /\ wins'[i] = wins[i]
    OBVIOUS
  <2>1. ~Open(i) /\ \A c \in Calls : ~Holds(call[c], i)
    BY DEF Usable, Open, Holds
  <2>2. \A c \in Calls : ~CreateOTP(c, i)
    BY DEF CreateOTP
  <2>3. ~Open(i)'
    BY <2>1, <2>2, RecordsAge, OpenWas
  <2>4. \A c \in Calls : ~Holds(call'[c], i)
    BY <2>1, HoldsWas
  <2>5. ~Usable(i)'
    BY <2>3, <2>4 DEF Usable, Open, Holds
  <2>6. wins'[i] = wins[i]
    <3>1. ASSUME NEW c \in Calls, MarkVerified(c)
          PROVE  wins'[i] = wins[i]
      <4>1. call[c].otp # i
        BY <2>1, <3>1 DEF MarkVerified, Holds
      <4> QED
        BY <3>1, <4>1 DEF MarkVerified, TypeInv, TypeOK
    <3>2. ASSUME NEW c \in Calls, NEW j \in OtpIds, CreateOTP(c, j)
          PROVE  wins'[i] = wins[i]
      BY <2>2, <3>2 DEF CreateOTP, TypeInv, TypeOK
    <3>3. ~Restart
      BY DEF Restart
    <3>4. CASE wins' = wins
      BY <3>4
    <3> QED
      BY <3>1, <3>2, <3>3, <3>4
         DEF Next, vars, RequestDraw, VerifyLookup, VerifyMiss, VerifyRefuse,
             VerifyCompare, IncrementAttempts, VerifyAccount, Tick
  <2> QED
    BY <2>5, <2>6
<1> QED
  BY <1>1, InitTyped, StepTyped, PTL DEF Spec, UnusableStaysUnusable

----------------------------------------------------------------------------
(***************************************************************************)
(* OtpService implements OneTimeCodes                                      *)
(***************************************************************************)

\* The refinement mapping.
codes == [i \in OtpIds |-> CodeState(i)]
admits == [i \in OtpIds |-> Admitted(i)]
attempts == [i \in OtpIds |-> Attempts(i)]
abstractVars == <<codes, admits, attempts, wins>>

\* A call that is admitted to a code.
Admits(v, i) ==
    /\ v.otp = i
    /\ \/ v.at = "check" /\ Refusal(v) = "none"
       \/ v.at \in {"increment", "mark"}

\* One call moves: no other admission changes.
LEMMA AdmitsMove ==
    ASSUME TypeInv, NEW c \in Calls, NEW v, call' = [call EXCEPT ![c] = v],
           NEW i \in OtpIds
    PROVE  /\ Admits(v, i) => Admitted(i)' = Admitted(i) \cup {c}
           /\ ~Admits(v, i) => Admitted(i)' = Admitted(i) \ {c}
           /\ c \in Admitted(i) <=> Admits(call[c], i)
           /\ (Admits(v, i) <=> Admits(call[c], i))
                 => Admitted(i)' = Admitted(i)
<1>1. call'[c] = v /\ \A d \in Calls : d # c => call'[d] = call[d]
  BY DEF TypeInv, TypeOK
<1>2. /\ Admitted(i) = {d \in Calls : Admits(call[d], i)}
      /\ Admitted(i)' = {d \in Calls : Admits(call'[d], i)}
  BY DEF Admitted, Admits
<1> HIDE DEF Admits
<1> QED
  BY <1>1, <1>2

\* A step that changes no record and moves a call that was admitted nowhere, or
\* keeps its admission, is not seen.
LEMMA MapStutter ==
    ASSUME TypeInv, NEW c \in Calls, NEW v, call' = [call EXCEPT ![c] = v],
           otps' = otps, wins' = wins,
           \A i \in OtpIds : Admits(v, i) <=> Admits(call[c], i)
    PROVE  UNCHANGED abstractVars
<1>1. ASSUME NEW i \in OtpIds PROVE Admitted(i)' = Admitted(i)
  BY AdmitsMove
<1>2. admits' = admits
  BY <1>1 DEF admits
<1>3. codes' = codes /\ attempts' = attempts
  BY DEF codes, attempts, CodeState, Attempts, IsExpired
<1> QED
  BY <1>2, <1>3 DEF abstractVars

LEMMA MapInit == Init => Abstract!Init
<1> SUFFICES ASSUME Init PROVE Abstract!Init
  OBVIOUS
<1>1. ASSUME NEW i \in OtpIds
      PROVE  CodeState(i) = "none" /\ Admitted(i) = {} /\ Attempts(i) = 0
  BY DEF Init, CodeState, Admitted, Attempts, Done
<1> QED
  BY <1>1 DEF Abstract!Init, Init

\* CreateOTP issues a code and closes those it replaces.
LEMMA MapCreate ==
    ASSUME TypeInv, NEW c \in Calls, NEW i \in OtpIds, CreateOTP(c, i)
    PROVE  Abstract!Next
<1> DEFINE replaced == Active(call[c].phone, call[c].purpose)
           state == IF call[c].left = Past THEN "closed" ELSE "open"
<1>1. otps[i] = None /\ call[c].at = "create"
      /\ call' = [call EXCEPT ![c] = Done("sent")]
  BY DEF CreateOTP
<1>2. ASSUME NEW j \in replaced
      PROVE  /\ j \in OtpIds /\ j # i
             /\ CodeState(j) = "open" /\ CodeState(j)' = "closed"
             /\ Attempts(j)' = Attempts(j)
  <2>1. /\ otps[j] \in Otp /\ otps'[j] \in Otp
        /\ otps'[j] = [otps[j] EXCEPT !.left = Past] /\ j # i
    BY CreateEffect
  <2>2. CodeState(j) = "open" /\ j \in OtpIds
    BY DEF CodeState, Active
  <2>3. otps'[j].left = Past /\ otps'[j] # None
    BY <2>1, OtpAssumption DEF Otp
  <2>4. otps'[j].attempts = otps[j].attempts /\ otps[j] # None
    BY <2>1, OtpAssumption DEF Otp
  <2> QED
    BY <2>1, <2>2, <2>3, <2>4 DEF CodeState, IsExpired, Attempts
<1>3. ASSUME NEW j \in OtpIds, j # i, j \notin replaced
      PROVE  CodeState(j)' = CodeState(j) /\ Attempts(j)' = Attempts(j)
  <2>1. otps'[j] = otps[j]
    BY <1>3, CreateEffect
  <2> QED
    BY <2>1 DEF CodeState, IsExpired, Attempts
<1>4. /\ CodeState(i) = "none" /\ CodeState(i)' = state
      /\ Attempts(i) = 0 /\ Attempts(i)' = 0
  <2>1. otps'[i] = NewOtp(c) /\ NewOtp(c) # None
    BY CreateEffect, OtpAssumption
  <2> QED
    BY <1>1, <2>1 DEF CodeState, IsExpired, Attempts, NewOtp
<1>5. ASSUME NEW j \in OtpIds PROVE Admitted(j)' = Admitted(j)
  <2>1. ~Admits(Done("sent"), j) /\ ~Admits(call[c], j)
    BY <1>1 DEF Admits, Done
  <2> QED
    BY <1>1, <2>1, AdmitsMove
<1>6. wins' = wins
  BY <1>1 DEF CreateOTP, TypeInv, TypeOK, HistoryOK
<1> HIDE DEF replaced, state
<1>7. codes' = [j \in OtpIds |-> IF j = i THEN state
                                 ELSE IF j \in replaced THEN "closed"
                                 ELSE codes[j]]
  BY <1>2, <1>3, <1>4 DEF codes
<1>8. admits' = admits /\ attempts' = attempts
  BY <1>2, <1>3, <1>4, <1>5 DEF admits, attempts
<1>9. codes[i] = "none" /\ \A j \in replaced : codes[j] = "open"
  BY <1>2, <1>4 DEF codes
<1>10. Abstract!Issue(i, state, replaced)
  BY <1>6, <1>7, <1>8, <1>9 DEF Abstract!Issue, codes, admits, attempts
<1>11. state \in {"open", "closed"} /\ replaced \in SUBSET OtpIds
  BY <1>2 DEF state
<1> QED
  BY <1>10, <1>11 DEF Abstract!Next

\* A lookup admits the call if guesses are left, and is not seen if none are.
LEMMA MapLookup ==
    ASSUME TypeInv, NEW c \in Calls, NEW p \in Phones, NEW u \in Purposes,
           NEW k \in Codes, VerifyLookup(c, p, u, k)
    PROVE  Abstract!Next \/ UNCHANGED abstractVars
<1>1. PICK i \in Active(p, u) :
         call' = [call EXCEPT ![c] =
                    [at |-> "check", phone |-> p, purpose |-> u, code |-> k,
                     otp |-> i, attempts |-> otps[i].attempts,
                     left |-> otps[i].left, reply |-> "none"]]
  BY DEF VerifyLookup
<1> DEFINE v == [at |-> "check", phone |-> p, purpose |-> u, code |-> k,
                 otp |-> i, attempts |-> otps[i].attempts,
                 left |-> otps[i].left, reply |-> "none"]
<1>2. /\ i \in OtpIds /\ otps[i] # None
      /\ otps[i].attempts \in Nat /\ ~IsExpired(otps[i])
      /\ CodeState(i) = "open"
  BY DEF Active, CodeState, TypeInv, TypeOK, Otp
<1>3. /\ call[c].at = "idle" /\ otps' = otps /\ wins' = wins
      /\ call' = [call EXCEPT ![c] = v]
  BY <1>1 DEF VerifyLookup
<1>4. /\ v.at = "check" /\ v.otp = i /\ v.attempts = otps[i].attempts
      /\ v.left = otps[i].left
  OBVIOUS
<1> HIDE DEF v
<1>5. \A j \in OtpIds : ~Admits(call[c], j)
  BY <1>3 DEF Admits
<1>6. Refusal(v) = "none" <=> otps[i].attempts < otpMaxAttempts
  BY <1>2, <1>4, OtpAssumption DEF Refusal, IsExpired
<1>7. \A j \in OtpIds :
         Admits(v, j) <=> j = i /\ otps[i].attempts < otpMaxAttempts
  BY <1>4, <1>6 DEF Admits
<1>8. CASE otps[i].attempts < otpMaxAttempts
  <2>1. Admitted(i)' = Admitted(i) \cup {c}
    BY <1>2, <1>3, <1>7, <1>8, AdmitsMove
  <2>2. \A j \in OtpIds : c \notin Admitted(j)
    BY <1>3, <1>5, AdmitsMove
  <2>3. ASSUME NEW j \in OtpIds, j # i PROVE Admitted(j)' = Admitted(j)
    BY <1>3, <1>5, <1>7, <2>3, AdmitsMove
  <2>4. admits' = [admits EXCEPT ![i] = @ \cup {c}]
    BY <1>2, <2>1, <2>3 DEF admits
  <2>5. codes' = codes /\ attempts' = attempts
    BY <1>3 DEF codes, attempts, CodeState, Attempts, IsExpired
  <2>6. /\ codes[i] = "open" /\ attempts[i] < otpMaxAttempts
        /\ \A j \in OtpIds : c \notin admits[j]
    BY <1>2, <1>8, <2>2 DEF codes, attempts, admits, Attempts
  <2>7. Abstract!Admit(c, i)
    BY <1>3, <2>4, <2>5, <2>6 DEF Abstract!Admit, codes, admits, attempts
  <2> QED
    BY <1>2, <2>7 DEF Abstract!Next
<1>9. CASE ~(otps[i].attempts < otpMaxAttempts)
  BY <1>3, <1>5, <1>7, <1>9, MapStutter
<1> QED
  BY <1>8, <1>9

\* What a call does between two steps that are seen.
LEMMA MapQuiet ==
    ASSUME TypeInv, NEW c \in Calls, NEW s,
           \/ \E p \in Phones, u \in Purposes, k \in Codes :
                 RequestDraw(c, p, u, k) \/ VerifyMiss(c, p, u, k)
           \/ VerifyRefuse(c) \/ VerifyCompare(c) \/ VerifyAccount(c, s)
    PROVE  UNCHANGED abstractVars
<1>1. otps' = otps /\ wins' = wins
  BY DEF RequestDraw, VerifyMiss, VerifyRefuse, VerifyCompare, VerifyAccount
<1>2. ASSUME NEW v, call' = [call EXCEPT ![c] = v],
             v.at \notin {"check", "increment", "mark"},
             \A i \in OtpIds : ~Admits(call[c], i)
      PROVE  UNCHANGED abstractVars
  BY <1>1, <1>2, MapStutter DEF Admits
<1>3. \A reply : Done(reply).at = "idle"
  BY DEF Done
<1>4. ASSUME NEW p \in Phones, NEW u \in Purposes, NEW k \in Codes,
             RequestDraw(c, p, u, k) \/ VerifyMiss(c, p, u, k)
      PROVE  UNCHANGED abstractVars
  <2>1. \A i \in OtpIds : ~Admits(call[c], i)
    BY <1>4 DEF RequestDraw, VerifyMiss, Admits
  <2> QED
    BY <1>2, <1>3, <1>4, <2>1 DEF RequestDraw, VerifyMiss
<1>5. CASE VerifyRefuse(c)
  <2>1. \A i \in OtpIds : ~Admits(call[c], i)
    BY <1>5 DEF VerifyRefuse, Admits
  <2> QED
    BY <1>2, <1>3, <1>5, <2>1 DEF VerifyRefuse
<1>6. CASE VerifyCompare(c)
  <2> DEFINE v == [call[c] EXCEPT !.at =
                     IF call[c].code = otps[call[c].otp].code
                     THEN "mark" ELSE "increment"]
  <2>1. v.otp = call[c].otp /\ v.at \in {"mark", "increment"}
    BY DEF TypeInv, TypeOK, Call
  <2>2. call' = [call EXCEPT ![c] = v]
    BY <1>6 DEF VerifyCompare
  <2> HIDE DEF v
  <2>3. \A i \in OtpIds : Admits(v, i) <=> Admits(call[c], i)
    BY <1>6, <2>1 DEF VerifyCompare, Admits
  <2> QED
    BY <1>1, <2>2, <2>3, MapStutter
<1>7. CASE VerifyAccount(c, s)
  <2>1. \A i \in OtpIds : ~Admits(call[c], i)
    BY <1>7 DEF VerifyAccount, Admits
  <2> QED
    BY <1>2, <1>3, <1>7, <2>1 DEF VerifyAccount
<1> QED
  BY <1>4, <1>5, <1>6, <1>7

\* A guess that is counted or marked is the answer of an admitted call.
LEMMA MapAnswer ==
    ASSUME TypeInv, NEW c \in Calls, IncrementAttempts(c) \/ MarkVerified(c)
    PROVE  Abstract!Next
<1>1. PICK i \in OtpIds : i = call[c].otp
  BY RecordEffect
<1>2. PICK v : /\ call' = [call EXCEPT ![c] = v]
               /\ v.at \notin {"check", "increment", "mark"}
  <2>1. call[c] \in Call
    BY DEF TypeInv, TypeOK
  <2>2. /\ \A reply : Done(reply).at = "idle"
        /\ [call[c] EXCEPT !.at = "account"].at = "account"
    BY <2>1 DEF Done, Call
  <2> HIDE DEF Call
  <2> QED
    BY <2>2 DEF IncrementAttempts, MarkVerified
<1>3. ASSUME NEW j \in OtpIds
      PROVE  /\ j = i => c \in Admitted(j) /\ Admitted(j)' = Admitted(j) \ {c}
             /\ j # i => Admitted(j)' = Admitted(j)
  <2>1. ~Admits(v, j) /\ (Admits(call[c], j) <=> j = i)
    BY <1>1, <1>2 DEF Admits, IncrementAttempts, MarkVerified
  <2>2. /\ Admitted(j)' = Admitted(j) \ {c}
        /\ c \in Admitted(j) <=> Admits(call[c], j)
    BY <1>2, <2>1, AdmitsMove
  <2> QED
    BY <2>1, <2>2
<1>4. /\ c \in admits[i]
      /\ admits' = [admits EXCEPT ![i] = @ \ {c}]
  BY <1>3 DEF admits
<1>5. otps[i] \in Otp /\ otps'[i] \in Otp
      /\ \A j \in OtpIds : j # i => otps'[j] = otps[j]
  BY <1>1, RecordEffect
<1>6. ASSUME NEW j \in OtpIds, j # i
      PROVE  CodeState(j)' = CodeState(j) /\ Attempts(j)' = Attempts(j)
  BY <1>5, <1>6 DEF CodeState, Attempts, IsExpired
<1>7. CASE IncrementAttempts(c)
  <2>1. otps'[i] = [otps[i] EXCEPT !.attempts = @ + 1]
    BY <1>1, <1>7, RecordEffect
  <2>2. CodeState(i)' = CodeState(i) /\ Attempts(i)' = Attempts(i) + 1
    BY <1>5, <2>1, OtpAssumption DEF CodeState, Attempts, IsExpired, Otp
  <2>3. codes' = codes /\ attempts' = [attempts EXCEPT ![i] = @ + 1]
    BY <1>6, <2>2 DEF codes, attempts
  <2>4. wins' = wins
    BY <1>7 DEF IncrementAttempts
  <2>5. Abstract!Wrong(c, i)
    BY <1>4, <2>3, <2>4
       DEF Abstract!Wrong, Abstract!Leave, codes, admits, attempts
  <2> QED
    BY <2>5 DEF Abstract!Next
<1>8. CASE MarkVerified(c)
  <2>1. otps'[i] = [otps[i] EXCEPT !.verified = TRUE]
    BY <1>1, <1>8, RecordEffect
  <2>2. otps'[i].verified /\ otps'[i].attempts = otps[i].attempts
        /\ otps[i] # None /\ otps'[i] # None
    BY <1>5, <2>1, OtpAssumption DEF Otp
  <2>3. CodeState(i)' = "closed" /\ Attempts(i)' = Attempts(i)
    BY <2>2 DEF CodeState, Attempts
  <2>4. codes' = [codes EXCEPT ![i] = "closed"] /\ attempts' = attempts
    BY <1>6, <2>3 DEF codes, attempts
  <2>5. wins' = [wins EXCEPT ![i] = @ + 1]
    BY <1>1, <1>8 DEF MarkVerified
  <2>6. Abstract!Right(c, i)
    BY <1>4, <2>4, <2>5
       DEF Abstract!Right, Abstract!Leave, codes, admits, attempts
  <2> QED
    BY <2>6 DEF Abstract!Next
<1> QED
  BY <1>7, <1>8

\* A restart forgets every code.
LEMMA MapRestart == ASSUME Restart PROVE Abstract!Next
<1>1. ASSUME NEW i \in OtpIds
      PROVE  /\ CodeState(i)' = "none" /\ Admitted(i)' = {}
             /\ Attempts(i)' = 0
  BY DEF Restart, CodeState, Admitted, Attempts, Done
<1>2. /\ codes' = [i \in OtpIds |-> "none"]
      /\ admits' = [i \in OtpIds |-> {}]
      /\ attempts' = [i \in OtpIds |-> 0]
      /\ wins' = [i \in OtpIds |-> 0]
  BY <1>1 DEF codes, admits, attempts, Restart
<1> QED
  BY <1>2 DEF Abstract!Next, Abstract!Forget, codes, admits, attempts

\* Time closes codes and lets admissions lapse.
LEMMA MapTick == ASSUME TypeInv, Tick PROVE Abstract!Next
<1> DEFINE old == {i \in OtpIds : codes[i] = "open" /\ codes'[i] = "closed"}
           stay == {c \in Calls : call'[c].at = "check"
                                     => Refusal(call'[c]) = "none"}
<1> HIDE DEF old, stay
<1>1. ASSUME NEW i \in OtpIds
      PROVE  /\ Attempts(i)' = Attempts(i)
             /\ \/ CodeState(i)' = CodeState(i)
                \/ CodeState(i) = "open" /\ CodeState(i)' = "closed"
  <2>1. CASE otps[i] = None
    <3>1. otps'[i] = None
      BY <2>1, TickEffect
    <3> QED
      BY <2>1, <3>1 DEF Attempts, CodeState, IsExpired
  <2>2. CASE otps[i] # None
    <3>1. /\ otps[i] \in Otp /\ otps'[i] \in Otp
          /\ otps'[i] = [otps[i] EXCEPT !.left = Less(otps[i].left)]
      BY <2>2, TickEffect
    <3>2. /\ otps'[i] # None /\ otps'[i].attempts = otps[i].attempts
          /\ otps'[i].verified = otps[i].verified
          /\ otps[i].verified \in BOOLEAN
          /\ IsExpired(otps[i]) => IsExpired(otps'[i])
      BY <3>1, OtpAssumption DEF Otp, IsExpired, Less
    <3> QED
      BY <2>2, <3>2 DEF Attempts, CodeState, IsExpired
  <2> QED
    BY <2>1, <2>2
<1>2. codes' = [i \in OtpIds |-> IF i \in old THEN "closed" ELSE codes[i]]
  BY <1>1 DEF codes, old
<1>3. attempts' = attempts /\ wins' = wins
  BY <1>1 DEF attempts, Tick
<1>4. ASSUME NEW i \in OtpIds PROVE Admitted(i)' = Admitted(i) \cap stay
  <2>1. ASSUME NEW c \in Calls
        PROVE  Admits(call'[c], i) <=> Admits(call[c], i) /\ c \in stay
    <3>1. call[c] \in Call
          /\ call'[c] = [call[c] EXCEPT !.left = Less(call[c].left)]
      BY TickEffect
    <3>2. /\ call'[c].at = call[c].at /\ call'[c].otp = call[c].otp
          /\ call'[c].attempts = call[c].attempts
          /\ IsExpired(call[c]) => IsExpired(call'[c])
      BY <3>1 DEF Call, IsExpired, Less
    <3>3. Refusal(call'[c]) = "none" => Refusal(call[c]) = "none"
      BY <3>2 DEF Refusal
    <3> QED
      BY <3>2, <3>3 DEF Admits, stay
  <2>2. /\ Admitted(i) = {d \in Calls : Admits(call[d], i)}
        /\ Admitted(i)' = {d \in Calls : Admits(call'[d], i)}
    BY DEF Admitted, Admits
  <2> QED
    BY <2>1, <2>2
<1>5. admits' = [i \in OtpIds |-> admits[i] \cap stay]
  BY <1>4 DEF admits
<1>6. old \in SUBSET {i \in OtpIds : codes[i] = "open"} /\ stay \in SUBSET Calls
  BY DEF old, stay
<1>7. Abstract!Lapse
  BY <1>2, <1>3, <1>5, <1>6 DEF Abstract!Lapse, codes, admits, attempts
<1> QED
  BY <1>7 DEF Abstract!Next

\* Every step of the service is a step of the codes or is not seen.
LEMMA MapNext ==
    TypeInv /\ [Next]_vars => [Abstract!Next]_abstractVars
<1> SUFFICES ASSUME TypeInv, [Next]_vars
             PROVE  Abstract!Next \/ UNCHANGED abstractVars
  OBVIOUS
<1>1. CASE UNCHANGED vars
  BY <1>1 DEF vars, abstractVars, codes, admits, attempts, CodeState,
              Admitted, Attempts, IsExpired, Refusal
<1> QED
  BY <1>1, MapCreate, MapLookup, MapQuiet, MapAnswer, MapRestart, MapTick
     DEF Next

\* The interleaved calls implement codes that are issued, admit calls, are hit or
\* missed, and close, in one step each.
THEOREM ServiceRefinesCodes == Spec => ImplementsOneTimeCodes
BY InitTyped, StepTyped, MapInit, MapNext, PTL
   DEF Spec, ImplementsOneTimeCodes, Abstract!Spec, Abstract!oneTimeVars,
       abstractVars, codes, admits, attempts

=============================================================================
