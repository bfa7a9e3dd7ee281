-------------------------- MODULE ProxyServerProofs --------------------------
(***************************************************************************)
(* Proofs about ProxyServer, for any finite set of connections.            *)
(***************************************************************************)
EXTENDS ProxyServer, FiniteSetTheorems, TLAPS

\* NoClientAbandoned is not inductive without the counter: wait_for_termination
\* sees the clients only through it.
IInv == TypeOK /\ CounterMatches /\ NoClientAbandoned

\* The clients that are served are finitely many.
LEMMA RunningFinite == IsFiniteSet(Running)
  BY ProxyServerAssumption, FS_Subset, Zenon DEF Running

\* A step that moves no connection into or out of its task leaves both sides
\* of CounterMatches alone.
LEMMA SameClients ==
    ASSUME IInv, TypeOK', UNCHANGED client_counter, Running' = Running,
           (main' = "done" /\ ~immediate') =>
              \/ main = "done" /\ ~immediate
              \/ client_counter = 0
    PROVE  IInv'
<1>1. CounterMatches'
  BY Zenon DEF IInv, CounterMatches
<1>2. client_counter = 0 => Running = {}
  BY RunningFinite, FS_EmptySet, Zenon DEF IInv, CounterMatches
<1>3. NoClientAbandoned'
  BY <1>2, Zenon DEF IInv, NoClientAbandoned
<1> QED
  BY <1>1, <1>3, Zenon DEF IInv

\* Cloning the ClientCounter with every accepted connection keeps it exact.
LEMMA AcceptStep ==
    ASSUME IInv, NEW c \in Conns, accept(c)
    PROVE  IInv'
<1>1. TypeOK'
  BY DEF IInv, TypeOK, accept, mainVars, signals, CountClient
<1>2. c \notin Running /\ Running' = Running \cup {c}
  BY Zenon DEF IInv, TypeOK, accept, Running
<1>3. Cardinality(Running') = Cardinality(Running) + 1
  BY <1>2, RunningFinite, FS_AddElement, Zenon
<1>4. CounterMatches'
  BY <1>3, Zenon DEF IInv, CounterMatches, accept, CountClient
<1>5. NoClientAbandoned'
  BY Zenon DEF NoClientAbandoned, accept, mainVars
<1> QED
  BY <1>1, <1>4, <1>5, Zenon DEF IInv

\* Dropping a connection counts it out exactly once.
LEMMA SubtractStep ==
    ASSUME IInv, NEW c \in Conns, decrease_sub(c)
    PROVE  IInv'
<1>1. TypeOK'
  BY DEF IInv, TypeOK, decrease_sub, mainVars, signals
<1>2. c \in Running /\ Running' = Running \ {c}
  BY Zenon DEF IInv, TypeOK, decrease_sub, Running
<1>3. Cardinality(Running') = Cardinality(Running) - 1
  BY <1>2, RunningFinite, FS_RemoveElement, Zenon
<1>4. CounterMatches'
  BY <1>3, Zenon DEF IInv, CounterMatches, decrease_sub
<1>5. NoClientAbandoned'
  BY <1>2, Zenon DEF IInv, NoClientAbandoned, decrease_sub, mainVars
<1> QED
  BY <1>1, <1>4, <1>5, Zenon DEF IInv

\* The rest of the drop wakes the main task, and touches no count.
LEMMA WakeStep ==
    ASSUME IInv, NEW c \in Conns, decrease_load(c) \/ decrease_wake(c)
    PROVE  IInv'
<1>1. TypeOK'
  BY Zenon DEF IInv, TypeOK, decrease_load, decrease_wake, WakeTaken, mainVars, counterVars, signals
<1>2. Running' = Running
  BY Zenon DEF IInv, TypeOK, decrease_load, decrease_wake, Running
<1> QED
  BY <1>1, <1>2, SameClients DEF decrease_load, decrease_wake, mainVars, counterVars

\* The main loop and wait_for_termination end without an immediate
\* termination only when the counter reads zero.
LEMMA MainStep ==
    ASSUME IInv,
           \/ \E quick \in BOOLEAN : accept_fails(quick)
           \/ \E ok \in BOOLEAN : bind_new_socket(ok)
           \/ stop_by_tripwire \/ stop_by_notification
           \/ poll_load \/ poll_store_waker \/ poll_again
           \/ trip \/ notify
    PROVE  IInv'
<1> USE DEF accept_fails, bind_new_socket, stop_by_tripwire, stop_by_notification,
            poll_load, PollReady, poll_store_waker, poll_again,
            trip, notify, mainVars, counterVars, signals
<1>1. TypeOK'
  <2>1. /\ main \in {"select", "rebind", "poll", "store", "pending", "done"}
        /\ conn \in [Conns -> {"none", "running", "subtracted", "last", "gone"}]
        /\ client_counter \in Int /\ failures \in [accept : Nat, bind : Nat]
        /\ waker \in BOOLEAN /\ woken \in BOOLEAN
        /\ tripwire \in BOOLEAN /\ notified \in BOOLEAN
        /\ immediate \in BOOLEAN /\ failed_before \in BOOLEAN
    BY Zenon DEF IInv, TypeOK
  <2>2. /\ main' \in {"select", "rebind", "poll", "store", "pending", "done"}
        /\ UNCHANGED <<conn, client_counter>>
    BY <2>1, Zenon
  <2>3. failures' \in [accept : Nat, bind : Nat]
    BY <2>1
  <2>4. /\ waker' \in BOOLEAN /\ woken' \in BOOLEAN
        /\ tripwire' \in BOOLEAN /\ notified' \in BOOLEAN
        /\ immediate' \in BOOLEAN /\ failed_before' \in BOOLEAN
    BY <2>1, Zenon
  <2> QED
    BY <2>1, <2>2, <2>3, <2>4, Zenon DEF TypeOK
<1>2. UNCHANGED client_counter /\ Running' = Running
  BY Zenon DEF Running
<1> QED
  BY <1>1, <1>2, SameClients

\* Every step of the server and its connections keeps the invariant.
LEMMA Inductive == IInv /\ [Next]_vars => IInv'
<1> SUFFICES ASSUME IInv, [Next]_vars PROVE IInv'
  BY Zenon
<1>1. CASE Main
  BY <1>1, AcceptStep, MainStep, Zenon DEF Main
<1>2. CASE \E c \in Conns : Decrease(c)
  BY <1>2, SubtractStep, WakeStep, Zenon DEF Decrease
<1>3. CASE trip \/ notify
  BY <1>3, MainStep, Zenon
<1>4. CASE UNCHANGED vars
  BY <1>4, Zenon DEF vars, IInv, TypeOK, CounterMatches, NoClientAbandoned, Running
<1> QED
  BY <1>1, <1>2, <1>3, <1>4, Zenon DEF Next

\* The invariant holds throughout.
LEMMA Invariant == Spec => []IInv
<1>1. Init => IInv
  <2> SUFFICES ASSUME Init PROVE IInv
    BY Zenon
  <2>1. TypeOK
    <3>1. /\ main \in {"select", "rebind", "poll", "store", "pending", "done"}
          /\ conn \in [Conns -> {"none", "running", "subtracted", "last", "gone"}]
      BY Zenon DEF Init
    <3>2. client_counter \in Int /\ failures \in [accept : Nat, bind : Nat]
      BY DEF Init
    <3>3. /\ waker \in BOOLEAN /\ woken \in BOOLEAN
          /\ tripwire \in BOOLEAN /\ notified \in BOOLEAN
          /\ immediate \in BOOLEAN /\ failed_before \in BOOLEAN
      BY Zenon DEF Init
    <3> QED
      BY <3>1, <3>2, <3>3, Zenon DEF TypeOK
  <2>2. Running = {}
    BY Zenon DEF Init, Running
  <2>3. CounterMatches
    BY <2>2, FS_EmptySet, Zenon DEF Init, CounterMatches
  <2>4. NoClientAbandoned
    BY Zenon DEF Init, NoClientAbandoned
  <2> QED
    BY <2>1, <2>3, <2>4, Zenon DEF IInv
<1> QED
  BY <1>1, Inductive, PTL DEF Spec

\* client_counter is the number of connections that are still to be dropped,
\* so the subtraction in ClientCounter::decrease never underflows.
THEOREM CounterCorrect == Spec => []CounterMatches
<1>1. IInv => CounterMatches
  BY Zenon DEF IInv
<1> QED
  BY <1>1, Invariant, PTL

\* However polls and drops interleave, wait_for_termination returns after the
\* last client has been dropped.
THEOREM NobodyAbandoned == Spec => []NoClientAbandoned
<1>1. IInv => NoClientAbandoned
  BY Zenon DEF IInv
<1> QED
  BY <1>1, Invariant, PTL
=============================================================================
