------------------------- MODULE AuthServiceFaults -------------------------
(***************************************************************************)
(* AuthService when the platform's secure storage throws, and after        *)
(* dispose.                                                                *)
(*                                                                         *)
(* No method catches what the storage throws: it ends where it is, and     *)
(* _state and the timer stay as they are.  After dispose the controller of *)
(* the state stream is closed, so that _setState throws once it has        *)
(* assigned a state that is not the one before, and the rest of the method *)
(* is not run.                                                             *)
(***************************************************************************)
EXTENDS AuthService

VARIABLES
    disposed,  \* dispose has been called
    broken     \* history: the storage has thrown, and no state been set since

faultVars == <<vars, disposed, broken>>

FaultsTypeOK == TypeOK /\ disposed \in BOOLEAN /\ broken \in BOOLEAN

FaultsInit == Init /\ disposed = FALSE /\ broken = FALSE

StorageAwaits == {"readToken", "readAccount", "saveToken", "saveAccount",
                  "clearToken", "clearAll"}

\* A storage operation throws in one of its keys; the other keys it writes or
\* deletes may be done.
StorageFails(c) ==
    /\ call[c].at \in StorageAwaits
    /\ store' \in [access : {store.access, Target(c).access},
                   refresh : {store.refresh, Target(c).refresh},
                   account : {store.account, Target(c).account}]
    /\ torn' = (torn \/ call[c].at \in {"saveToken", "saveAccount"})
    /\ adrift' = adrift \cup HeldChains(c) \cup ChainsOf(store.refresh)
    /\ Return(c)
    /\ broken' = TRUE
    /\ UNCHANGED <<chain, used, state, timer, purged, disposed>>

Dispose ==
    /\ ~disposed
    /\ disposed' = TRUE
    /\ timer' = FALSE
    /\ UNCHANGED <<chain, used, state, store, call, history, broken>>

\* After dispose, a step at which _setState is not called, finds the state it is
\* given, or is the last the method does.
Silent ==
    /\ disposed /\ Alive
    /\ state' = state \/ state'.kind = "unauthenticated"

LoginThrows(c) ==
    /\ disposed /\ call[c].at = "idle"
    /\ state.kind # "authenticating"
    /\ state' = Signed("authenticating")
    /\ purged' = FALSE
    /\ UNCHANGED <<chain, used, store, timer, call, adrift, torn>>

RestoreThrows(c) ==
    /\ disposed /\ At(c, "restore", "readAccount")
    /\ call[c].token # None /\ store.account # None
    /\ Return(c)
    /\ state' = [kind |-> "authenticated", account |-> store.account,
                 token |-> call[c].token]
    /\ UNCHANGED <<chain, used, store, timer, history>>

UnlockThrows(c) ==
    /\ disposed /\ At(c, "unlock", "readAccount")
    /\ store.account # None
    /\ Return(c)
    /\ state' = [kind |-> "offlineGrace", account |-> store.account,
                 token |-> None]
    /\ UNCHANGED <<chain, used, store, timer, history>>

\* Mutant: the timer is set before the state.
EnterThrows_ScheduleFirst(c) ==
    /\ disposed /\ call[c].at = "enter"
    /\ Return(c)
    /\ state' = [kind |-> "authenticated", account |-> call[c].acct,
                 token |-> call[c].token]
    /\ timer' = TRUE
    /\ UNCHANGED <<chain, used, store, history>>

\* (The state may be a new one by the dates in it alone: an AuthToken of the storage
\* has an issue date and one of an answer has none.)
EnterThrows(c) ==
    /\ disposed /\ call[c].at = "enter"
    /\ Return(c)
    /\ state' = [kind |-> "authenticated", account |-> call[c].acct,
                 token |-> call[c].token]
    /\ UNCHANGED <<chain, used, store, timer, history>>

Throws(c) ==
    LoginThrows(c) \/ RestoreThrows(c) \/ UnlockThrows(c) \/ EnterThrows(c)

FaultsNext ==
    \/ /\ (~disposed /\ Alive) \/ Silent \/ \E c \in Calls : Throws(c)
       /\ broken' = (broken /\ state' = state)
       /\ UNCHANGED disposed
    \/ Kill /\ disposed' = FALSE /\ broken' = FALSE
    \/ \E c \in Calls : StorageFails(c)
    \/ Dispose

FaultsSpec == FaultsInit /\ [][FaultsNext]_faultVars

----------------------------------------------------------------------------
(***************************************************************************)
(* Properties                                                              *)
(***************************************************************************)

\* Nothing but the storage leaves a state with nobody to attend to it, and no
\* longer than until a method sets the next one.
AttendedUnlessBroken == broken \/ disposed \/ StateIsAttended

\* At rest, an authenticated app shows what is stored, even if an earlier method
\* was cut by the storage: the next one to sign in saves both halves first.
StoredUnlessBroken == broken \/ AuthenticatedIsStored

\* "Disposes background timers": a method that runs on after dispose does not
\* set the timer again, unless it finds the very state it was to set.
DisposedStaysQuiet ==
    [][disposed /\ ~timer /\ timer' => state' = state]_faultVars

\* What the documents claim and the code does not do.

\* "User authentication or token refresh is currently in flight."
AuthenticatingIsInFlight ==
    ~disposed /\ state.kind = "authenticating" => ~Quiet

=============================================================================
