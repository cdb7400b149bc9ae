--------------------------- MODULE AccountStatus ---------------------------
(***************************************************************************)
(* The account lifecycle of apps/api/internal/domain/auth.go: the statuses *)
(* and the legal moves between them.                                       *)
(***************************************************************************)

Statuses == {"pending", "active", "suspended", "deactivated"}

\* The adjacency table accountStatusTransitions.
accountStatusTransitions ==
    [s \in Statuses |->
        CASE s = "pending"     -> {"active", "deactivated"}
          [] s = "active"      -> {"suspended", "deactivated"}
          [] s = "suspended"   -> {"active", "deactivated"}
          [] s = "deactivated" -> {}]

CanTransition(current, next) ==
    /\ current \in Statuses
    /\ next \in accountStatusTransitions[current]

\* The status TransitionStatus returns: the target when the edge is legal, the
\* current status together with ErrIllegalStatusTransition when it is not.
TransitionStatus(current, next) ==
    IF next \in Statuses /\ CanTransition(current, next) THEN next ELSE current

\* The table of the apps: enums/account_status.dart of packages/flutter/domain.
canTransitionTo(this, next) ==
    \/ this = "pending" /\ next \in {"active", "deactivated"}
    \/ this = "active" /\ next \in {"suspended", "deactivated"}
    \/ this = "suspended" /\ next \in {"active", "deactivated"}

============================================================================
