---------------------------- MODULE OneTimeCodes ----------------------------
(***************************************************************************)
(* What the OTP service promises, whatever its calls interleave: a code is *)
(* issued once and closes for good, by being used, replaced or too old; to *)
(* be compared with it a call has to be admitted while it is open and not  *)
(* all wrong guesses are used up; and each admission is good for one right *)
(* or one wrong answer, which is counted.                                  *)
(*                                                                         *)
(* A call that was admitted keeps its admission when the code closes: that *)
(* is how a code may be used twice, and by how much the limit may be       *)
(* passed.                                                                 *)
(***************************************************************************)
EXTENDS Naturals

CONSTANTS Ids, Calls, MaxWrong

VARIABLES
    code,      \* "none", "open" or "closed"
    admitted,  \* the calls that may still answer
    wrong, right

oneTimeVars == <<code, admitted, wrong, right>>

Init ==
    /\ code = [i \in Ids |-> "none"]
    /\ admitted = [i \in Ids |-> {}]
    /\ wrong = [i \in Ids |-> 0]
    /\ right = [i \in Ids |-> 0]

\* A code is issued, too late for any use perhaps, and those it replaces close.
Issue(i, state, replaced) ==
    /\ code[i] = "none"
    /\ \A j \in replaced : code[j] = "open"
    /\ code' = [j \in Ids |-> IF j = i THEN state
                              ELSE IF j \in replaced THEN "closed"
                              ELSE code[j]]
    /\ UNCHANGED <<admitted, wrong, right>>

Admit(c, i) ==
    /\ code[i] = "open" /\ wrong[i] < MaxWrong
    /\ \A j \in Ids : c \notin admitted[j]
    /\ admitted' = [admitted EXCEPT ![i] = @ \cup {c}]
    /\ UNCHANGED <<code, wrong, right>>

Leave(c, i) ==
    /\ c \in admitted[i]
    /\ admitted' = [admitted EXCEPT ![i] = @ \ {c}]

Right(c, i) ==
    /\ Leave(c, i)
    /\ code' = [code EXCEPT ![i] = "closed"]
    /\ right' = [right EXCEPT ![i] = @ + 1]
    /\ UNCHANGED wrong

Wrong(c, i) ==
    /\ Leave(c, i)
    /\ wrong' = [wrong EXCEPT ![i] = @ + 1]
    /\ UNCHANGED <<code, right>>

\* Time passes: codes close, and admissions lapse.
Lapse ==
    /\ \E old \in SUBSET {i \in Ids : code[i] = "open"} :
          code' = [i \in Ids |-> IF i \in old THEN "closed" ELSE code[i]]
    /\ \E stay \in SUBSET Calls :
          admitted' = [i \in Ids |-> admitted[i] \cap stay]
    /\ UNCHANGED <<wrong, right>>

\* The process is started again.
Forget ==
    /\ code' = [i \in Ids |-> "none"]
    /\ admitted' = [i \in Ids |-> {}]
    /\ wrong' = [i \in Ids |-> 0]
    /\ right' = [i \in Ids |-> 0]

Next ==
    \/ \E i \in Ids :
          \/ \E state \in {"open", "closed"}, replaced \in SUBSET Ids :
                Issue(i, state, replaced)
          \/ \E c \in Calls : Admit(c, i) \/ Right(c, i) \/ Wrong(c, i)
    \/ Lapse
    \/ Forget

Spec == Init /\ [][Next]_oneTimeVars

=============================================================================
