----------------------------- MODULE ProxyServer -----------------------------
(***************************************************************************)
(* Accepting connections and shutting the proxy down: the main loop of     *)
(* ProxyServer (stratum-proxy/src/server.rs), the tasks of its             *)
(* ProxyConnections, and the Controller and ClientCounter they share       *)
(* (stratum-proxy/src/server/controller.rs).                               *)
(*                                                                         *)
(* The main task and the connection tasks run on several threads.  A step  *)
(* is one access to the shared counter or to the shared waker: the counter *)
(* is a Relaxed atomic and the waker sits behind a mutex, and nothing      *)
(* orders the one with the other.                                          *)
(***************************************************************************)
EXTENDS Integers, FiniteSets

CONSTANTS
    Conns,          \* connections that may come in
    MaxFailures     \* bound on failing accepts and failing binds, each

ASSUME ProxyServerAssumption ==
    /\ IsFiniteSet(Conns)
    /\ MaxFailures \in Nat

VARIABLES
    main,           \* where the main task is
    conn,           \* where the task of each connection is
    client_counter,
    waker,          \* is the waker of the main task stored?
    woken,          \* is the main task scheduled to poll again?
    immediate,      \* termination_method = ImmediateTermination
    tripwire,       \* has the tripwire fired?
    notified,       \* does the termination notifier hold a permit?
    failed_before,  \* latest_connection_accept_failure is set
    failures        \* failing accepts and binds so far

mainVars == <<main, immediate, failed_before, failures>>
counterVars == <<client_counter, waker, woken>>
signals == <<tripwire, notified>>
vars == <<main, conn, client_counter, waker, woken, immediate, tripwire,
          notified, failed_before, failures>>

Init ==
    /\ main = "select"
    /\ conn = [c \in Conns |-> "none"]
    /\ client_counter = 0
    /\ waker = FALSE
    /\ woken = FALSE
    /\ immediate = FALSE
    /\ tripwire = FALSE
    /\ notified = FALSE
    /\ failed_before = FALSE
    /\ failures = [accept |-> 0, bind |-> 0]

-----------------------------------------------------------------------------
(* ProxyServer::main_loop.                                                 *)

\* ClientCounter::clone counts the new client.
CountClient == client_counter' = client_counter + 1

\* A connection is accepted and its task spawned.
accept(c) ==
    /\ main = "select"
    /\ conn[c] = "none"
    /\ conn' = [conn EXCEPT ![c] = "running"]
    /\ CountClient
    /\ UNCHANGED <<mainVars, waker, woken, signals>>

\* accept() fails.  The second failure within a millisecond makes the loop
\* drop the listener and bind a new one; the clock decides.
accept_fails(quick) ==
    /\ main = "select"
    /\ failures.accept < MaxFailures
    /\ failures' = [failures EXCEPT !.accept = @ + 1]
    /\ main' = IF failed_before /\ quick THEN "rebind" ELSE "select"
    /\ failed_before' = TRUE
    /\ UNCHANGED <<conn, immediate, counterVars, signals>>

\* bind_new_socket in a loop that looks at neither tripwire nor notifier.
bind_new_socket(ok) ==
    /\ main = "rebind"
    /\ ok \/ failures.bind < MaxFailures
    /\ failures' = IF ok THEN failures ELSE [failures EXCEPT !.bind = @ + 1]
    /\ main' = IF ok THEN "select" ELSE "rebind"
    /\ UNCHANGED <<conn, immediate, failed_before, counterVars, signals>>

\* The tripwire ends the loop; there is no waiting for clients.  (Variant:
\* the break is missing.)
TripwireWithoutBreak ==
    /\ main = "select"
    /\ tripwire
    /\ immediate' = TRUE
    /\ UNCHANGED <<main, conn, failed_before, failures, counterVars,
                   signals>>

stop_by_tripwire ==
    /\ main = "select"
    /\ tripwire
    /\ immediate' = TRUE
    /\ main' = "done"
    /\ UNCHANGED <<conn, failed_before, failures, counterVars, signals>>

\* A notification ends the loop; wait_for_termination, which main_loop calls
\* without a timeout, polls the counter.
stop_by_notification ==
    /\ main = "select"
    /\ notified
    /\ notified' = FALSE
    /\ main' = "poll"
    /\ UNCHANGED <<conn, immediate, failed_before, failures, counterVars,
                   tripwire>>

-----------------------------------------------------------------------------
(* ClientCounter as a future: poll loads the counter, then stores the      *)
(* waker.                                                                  *)

\* (Variant: poll does not look at the counter.)
PollIsReady == TRUE
PollReady == client_counter = 0

poll_load ==
    /\ main = "poll"
    /\ main' = IF PollReady THEN "done" ELSE "store"
    /\ UNCHANGED <<conn, immediate, failed_before, failures, counterVars,
                   signals>>

poll_store_waker ==
    /\ main = "store"
    /\ waker' = TRUE
    /\ main' = "pending"
    /\ UNCHANGED <<conn, client_counter, woken, immediate, failed_before,
                   failures, signals>>

poll_again ==
    /\ main = "pending"
    /\ woken
    /\ woken' = FALSE
    /\ main' = "poll"
    /\ UNCHANGED <<conn, client_counter, waker, immediate, failed_before,
                   failures, signals>>

-----------------------------------------------------------------------------
(* ProxyConnection::handle ends in any way, and drop calls                 *)
(* ClientCounter::decrease.                                                *)

decrease_sub(c) ==
    /\ conn[c] = "running"
    /\ conn' = [conn EXCEPT ![c] = "subtracted"]
    /\ client_counter' = client_counter - 1
    /\ UNCHANGED <<mainVars, waker, woken, signals>>

decrease_load(c) ==
    /\ conn[c] = "subtracted"
    /\ conn' = [conn EXCEPT ![c] = IF client_counter = 0 THEN "last" ELSE "gone"]
    /\ UNCHANGED <<mainVars, counterVars, signals>>

WakeTaken == woken' = (woken \/ waker)

decrease_wake(c) ==
    /\ conn[c] = "last"
    /\ conn' = [conn EXCEPT ![c] = "gone"]
    /\ waker' = FALSE
    /\ WakeTaken
    /\ UNCHANGED <<mainVars, client_counter, signals>>

-----------------------------------------------------------------------------
(* The process outside.                                                    *)

trip ==
    /\ ~tripwire
    /\ tripwire' = TRUE
    /\ UNCHANGED <<mainVars, conn, counterVars, notified>>

notify ==
    /\ ~notified
    /\ notified' = TRUE
    /\ UNCHANGED <<mainVars, conn, counterVars, tripwire>>

Main ==
    \/ \E c \in Conns : accept(c)
    \/ \E quick \in BOOLEAN : accept_fails(quick)
    \/ \E ok \in BOOLEAN : bind_new_socket(ok)
    \/ stop_by_tripwire
    \/ stop_by_notification
    \/ poll_load
    \/ poll_store_waker
    \/ poll_again

Decrease(c) == decrease_sub(c) \/ decrease_load(c) \/ decrease_wake(c)

Next ==
    \/ Main
    \/ \E c \in Conns : Decrease(c)
    \/ trip
    \/ notify

Spec == Init /\ [][Next]_vars

\* Tasks are scheduled, a socket can be bound in the end, and clients leave in
\* the end.
Fairness == WF_vars(Main) /\ \A c \in Conns : WF_vars(Decrease(c))

FairSpec == Spec /\ Fairness

-----------------------------------------------------------------------------
(* Properties.                                                             *)

TypeOK ==
    /\ main \in {"select", "rebind", "poll", "store", "pending", "done"}
    /\ conn \in [Conns -> {"none", "running", "subtracted", "last", "gone"}]
    /\ client_counter \in Int
    /\ waker \in BOOLEAN /\ woken \in BOOLEAN
    /\ tripwire \in BOOLEAN /\ notified \in BOOLEAN
    /\ immediate \in BOOLEAN /\ failed_before \in BOOLEAN
    /\ failures \in [accept : Nat, bind : Nat]

Running == {c \in Conns : conn[c] = "running"}

\* The counter never disagrees with the connections whose drop is still to
\* come, so the underflow assertion of decrease never fails.
CounterMatches == client_counter = Cardinality(Running)

\* Lazy termination leaves no client behind: when wait_for_termination returns,
\* every connection has been dropped, however polls and drops interleave.
NoClientAbandoned ==
    (main = "done" /\ ~immediate) => Running = {}

\* Once the tripwire has fired or the shutdown was requested, the server stops
\* listening, also from within the rebind loop.
StopsListening ==
    (tripwire \/ notified) ~> (main \notin {"select", "rebind"})

\* ClientCounter: "Future completes as soon as client counter is decreased to
\* 0".
CounterFutureCompletes ==
    (main \in {"poll", "store", "pending"} /\ client_counter = 0) ~> (main = "done")
=============================================================================
