------------------------- MODULE MCAuthSessionsLive -------------------------
(***************************************************************************)
(* AuthSessions for TLC, where clients may refresh for ever: the name of a *)
(* refresh token that can do nothing any more is drawn again.  A session   *)
(* that is revoked, past its deadline or gone is refused wherever it is    *)
(* looked at, as one that never was; so nothing but the history tells the  *)
(* difference, and what is checked here does not look at that.  Nothing    *)
(* else happens before such names are recycled, which saves states.        *)
(***************************************************************************)
EXTENDS AuthSessions

Useless(t) ==
    /\ ~Fresh(t)
    /\ ~MayRotate(t)
    /\ \A c \in Calls : call[c].token # t

Recycle(t) ==
    /\ Useless(t)
    /\ sessions' = [sessions EXCEPT ![t] = None]
    /\ family' = [family EXCEPT ![t] = None]
    /\ UNCHANGED <<status, issued, call>>

LiveNext ==
    \/ (\A t \in Tokens : ~Useless(t)) /\ Next
    \/ \E t \in Tokens : Recycle(t)

LiveSpec == Init /\ [][LiveNext]_vars /\ Fairness

=============================================================================
