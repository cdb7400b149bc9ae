----------------------------- MODULE ApiServer -----------------------------
(***************************************************************************)
(* The process of apps/api: cmd/server/main.go with the shutdown timeout   *)
(* of internal/config/config.go, around the requests of RequestPath.       *)
(*                                                                         *)
(* Two goroutines of main share a channel: one is in ListenAndServe, the   *)
(* other, the watcher, waits for a signal and calls Shutdown.  net/http is *)
(* modelled by what main relies on: Shutdown stops the accepting of        *)
(* requests, makes ListenAndServe return, and itself returns when no       *)
(* request is under way or its context is done.                            *)
(***************************************************************************)
EXTENDS RequestPath

CONSTANTS
    Settings,        \* values of SHUTDOWN_TIMEOUT_SECONDS that are tried
    DefaultSeconds,  \* 10 in the code
    Second,          \* ticks of time.Duration in a second
    Half             \* a Duration is in -Half .. Half - 1

VARIABLES
    setting,   \* SHUTDOWN_TIMEOUT_SECONDS: None when unset or not a number
    main,      \* where main is, and how the process has ended
    watcher,   \* the goroutine that waits for the signal
    pending,   \* a signal is in sigChan
    waited     \* ticks since Shutdown was called

process == <<main, watcher, pending, waited>>
vars == <<req, setting, process>>

Running == main \in {"starting", "serving", "waiting"}

\* server.Shutdown has been called.
Closing == watcher \in {"draining", "done"}

\* Int64 arithmetic.
Wrapped(n) == ((n + Half) % (2 * Half)) - Half

ASSUME ServerAssumption ==
    /\ Half \in Nat /\ Second \in 1 .. Half - 1
    /\ DefaultSeconds * Second \in 1 .. Half - 1
    /\ Settings \subseteq (-Half .. Half - 1) \cup {None}
    /\ None \notin Int

\* Mutant: a timeout of zero is taken.
ShutdownTimeout_Zero ==
    Wrapped((IF setting # None /\ setting >= 0 THEN setting
             ELSE DefaultSeconds) * Second)

\* config.Load: only a positive number replaces the default.
ShutdownTimeout ==
    Wrapped((IF setting # None /\ setting > 0 THEN setting
             ELSE DefaultSeconds) * Second)

TypeOK ==
    /\ req \in [Requests -> RequestType]
    /\ setting \in Settings
    /\ main \in {"starting", "serving", "waiting", "clean", "error", "killed"}
    /\ watcher \in {"starting", "waiting", "draining", "done"}
    /\ pending \in BOOLEAN
    /\ waited \in 0 .. Half - 1

----------------------------------------------------------------------------
Init ==
    /\ PathInit
    /\ setting \in Settings
    /\ main = "starting"
    /\ watcher = "starting"
    /\ pending = FALSE
    /\ waited = 0

(***************************************************************************)
(* main                                                                    *)
(***************************************************************************)

\* ListenAndServe: the port is open, unless it is taken or Shutdown was first.
Listen ==
    /\ main = "starting" /\ ~Closing
    /\ main' \in {"serving", "error"}
    /\ UNCHANGED <<req, setting, watcher, pending, waited>>

\* Accepting fails for good: os.Exit(1).
ServeFails ==
    /\ main = "serving" /\ ~Closing
    /\ main' = "error"
    /\ UNCHANGED <<req, setting, watcher, pending, waited>>

\* ListenAndServe returns ErrServerClosed.
ServeReturns ==
    /\ main \in {"starting", "serving"} /\ Closing
    /\ main' = "waiting"
    /\ UNCHANGED <<req, setting, watcher, pending, waited>>

\* Mutant: main does not wait for Shutdown to return.
MainReturns_AtOnce ==
    /\ main = "waiting"
    /\ main' = "clean"
    /\ UNCHANGED <<req, setting, watcher, pending, waited>>

\* <-shutdownComplete
MainReturns ==
    /\ main = "waiting" /\ watcher = "done"
    /\ main' = "clean"
    /\ UNCHANGED <<req, setting, watcher, pending, waited>>

----------------------------------------------------------------------------
(***************************************************************************)
(* The watcher                                                             *)
(***************************************************************************)

\* signal.Notify
Notify ==
    /\ Running /\ watcher = "starting"
    /\ watcher' = "waiting"
    /\ UNCHANGED <<req, setting, main, pending, waited>>

\* SIGINT or SIGTERM.  Until Notify it ends the process; the channel holds one,
\* and what does not fit is dropped.
Signal ==
    /\ Running
    /\ IF watcher = "starting"
       THEN main' = "killed" /\ UNCHANGED pending
       ELSE pending' = TRUE /\ UNCHANGED main
    /\ UNCHANGED <<req, setting, watcher, waited>>

\* The signal is received and Shutdown called.
Catch ==
    /\ Running /\ watcher = "waiting" /\ pending
    /\ watcher' = "draining"
    /\ pending' = FALSE
    /\ UNCHANGED <<req, setting, main, waited>>

Complete ==
    /\ watcher' = "done"
    /\ UNCHANGED <<req, setting, main, pending, waited>>

\* Mutant: Shutdown is given a context without a deadline.
ShutdownReturns_NoDeadline ==
    /\ Running /\ watcher = "draining"
    /\ InFlight = {}
    /\ Complete

\* Shutdown returns: nothing is under way, or the timeout is over, which is
\* logged.  Either way shutdownComplete is closed.
ShutdownReturns ==
    /\ Running /\ watcher = "draining"
    /\ InFlight = {} \/ waited >= ShutdownTimeout
    /\ Complete

\* Mutant: Shutdown waits on when the timeout is over.
Tick_Longer ==
    /\ Running /\ watcher = "draining"
    /\ waited' = waited + 1
    /\ UNCHANGED <<req, setting, main, watcher, pending>>

\* A tick passes.  The context is done when the timeout is over.
Tick ==
    /\ Running /\ watcher = "draining"
    /\ waited < ShutdownTimeout
    /\ waited' = waited + 1
    /\ UNCHANGED <<req, setting, main, watcher, pending>>

----------------------------------------------------------------------------
Request(r) ==
    /\ Running
    /\ \/ main = "serving" /\ ~Closing /\ Accept(r)
       \/ Respond(r)
    /\ UNCHANGED <<setting, process>>

Next ==
    \/ Listen \/ ServeFails \/ ServeReturns \/ MainReturns
    \/ Notify \/ Signal \/ Catch \/ ShutdownReturns \/ Tick
    \/ \E r \in Requests : Request(r)

\* Goroutines that can run do, and time passes.  A handler may hang: nothing is
\* assumed of requests.
Fairness ==
    /\ WF_vars(Listen) /\ WF_vars(ServeReturns) /\ WF_vars(MainReturns)
    /\ WF_vars(Notify) /\ WF_vars(Catch)
    /\ WF_vars(ShutdownReturns) /\ WF_vars(Tick)

Spec == Init /\ [][Next]_vars /\ Fairness

----------------------------------------------------------------------------
(***************************************************************************)
(* Properties                                                              *)
(***************************************************************************)

\* The timeout that was asked for, or the default.
Promised ==
    IF setting \in 1 .. Half - 1 THEN setting * Second
    ELSE DefaultSeconds * Second

\* "drains in-flight requests within a configurable timeout (default 10s), then
\* exits cleanly": a request under way at the end of the process had all of the
\* timeout to end in, unless the process ended without Shutdown, by an error of
\* the listener or by a signal that came before Notify.  (If the timeout in
\* nanoseconds fits into an int64.)
EveryLossIsExplained ==
    ~Running /\ InFlight # {} /\ Promised < Half =>
        \/ Closing /\ waited >= Promised
        \/ ~Closing /\ main = "error"
        \/ watcher = "starting" /\ main = "killed"

\* A signal that is caught ends the process, whatever the handlers do.
SignalEndsProcess == pending ~> ~Running

\* What the documents claim and the code does not do.

\* "SIGTERM/SIGINT drains in-flight requests": no signal cuts a request off.
SignalsDrain == main = "killed" => InFlight = {}

\* "within a configurable timeout": every timeout that is configured is kept.
TimeoutIsKept == main = "clean" /\ InFlight # {} => waited >= Promised

============================================================================
