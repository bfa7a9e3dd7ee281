-------------------------- MODULE HaltHandleProofs --------------------------
(***************************************************************************)
(* Theorems about the halt handle, for any finite set of tasks.            *)
(*                                                                         *)
(* OkMeansAllFinished says nothing of a join() that is still at work.  The *)
(* inductive invariant follows every handle: a task that was spawned is in *)
(* the channel, is being awaited, has finished, or the fold has failed;    *)
(* and the handles of the tasks spawned before ready() are in front of the *)
(* message Ready.                                                          *)
(***************************************************************************)
EXTENDS HaltHandle, TLAPS

Msgs == {Ready} \cup {TaskMsg(t) : t \in Tasks}

Types ==
    /\ task \in [Tasks -> {"none", "running", "finished", "panicked"}]
    /\ tasks_tx \in Seq(Msgs)
    /\ awaited \in SUBSET Tasks
    /\ early \in SUBSET Tasks

\* Where the handle of a task that was spawned can be.
Accounted(t) ==
    \/ failed
    \/ task[t] = "finished"
    \/ t \in awaited
    \/ \E i \in 1 .. Len(tasks_tx) : tasks_tx[i] = TaskMsg(t)

Handles == \A t \in Tasks : task[t] # "none" => Accounted(t)

\* Ready is sent once, behind the handles of all early tasks.
ReadyLast ==
    \A i \in 1 .. Len(tasks_tx) : tasks_tx[i] = Ready =>
        /\ ready
        /\ \A k \in 1 .. Len(tasks_tx), t \in early : tasks_tx[k] = TaskMsg(t) => k < i

EarlySpawned ==
    /\ ~ready => early = {}
    /\ \A t \in early : task[t] # "none"

\* The fold awaits at most one handle, and only while it has met no error.
OneAwaited ==
    /\ \A t, u \in awaited : t = u
    /\ join = "collect" => awaited = {}
    /\ join = "idle" => awaited = {}
    /\ join = "await" => ~failed

HandleInv == Types /\ Handles /\ ReadyLast /\ EarlySpawned /\ OneAwaited /\ OkMeansAllFinished

\* Who may have let the timeout run.
HaltInv ==
    /\ permit => halt # "idle"
    /\ timer = "running" => halt # "idle"
    /\ TimeoutAfterHalt

-----------------------------------------------------------------------------
\* A message is a handle or Ready, never both, and names its task.
LEMMA Messages ==
    /\ Ready \in Msgs
    /\ \A t \in Tasks : TaskMsg(t) \in Msgs /\ TaskMsg(t) # Ready /\ TaskMsg(t).task = t
    /\ \A t, u \in Tasks : TaskMsg(t) = TaskMsg(u) => t = u
    /\ \A m \in Msgs : m # Ready => \E t \in Tasks : m = TaskMsg(t)
<1>1. \A t : TaskMsg(t).type # Ready.type /\ TaskMsg(t).task = t
  BY Zenon DEF TaskMsg, Ready
<1>. QED
  BY <1>1, Zenon DEF Msgs

\* Sending on the channel.
LEMMA Sent ==
    ASSUME NEW s \in Seq(Msgs), NEW m \in Msgs
    PROVE  /\ Append(s, m) \in Seq(Msgs)
           /\ Len(s) \in Nat /\ Len(Append(s, m)) = Len(s) + 1
           /\ Append(s, m)[Len(s) + 1] = m
           /\ \A i \in 1 .. Len(s) : Append(s, m)[i] = s[i]
  OBVIOUS

\* Receiving from the channel.
LEMMA Received ==
    ASSUME NEW s \in Seq(Msgs), s # <<>>
    PROVE  /\ Tail(s) \in Seq(Msgs) /\ Head(s) \in Msgs /\ Head(s) = s[1]
           /\ Len(s) \in Nat /\ Len(s) >= 1 /\ Len(Tail(s)) = Len(s) - 1
           /\ \A i \in 1 .. Len(Tail(s)) : Tail(s)[i] = s[i + 1]
  OBVIOUS

-----------------------------------------------------------------------------
(* One lemma per thread.                                                    *)

\* spawn() and ready() only add to the end of the channel.
LEMMA SpawnStep ==
    ASSUME HandleInv, NEW t \in Tasks, spawn(t)
    PROVE  HandleInv'
<1> DEFINE n == Len(tasks_tx)
<1>1. /\ tasks_tx \in Seq(Msgs) /\ TaskMsg(t) \in Msgs
      /\ tasks_tx' = Append(tasks_tx, TaskMsg(t))
      /\ task' = [task EXCEPT ![t] = "running"] /\ task[t] = "none"
      /\ UNCHANGED <<ready, join, awaited, failed, early>>
  BY Messages, Zenon DEF spawn, HandleInv, Types
<1>2. /\ tasks_tx' \in Seq(Msgs) /\ n \in Nat /\ Len(tasks_tx') = n + 1
      /\ tasks_tx'[n + 1] = TaskMsg(t)
      /\ \A i \in 1 .. n : tasks_tx'[i] = tasks_tx[i]
  BY <1>1, Sent, Zenon
<1> HIDE DEF n
<1>3. Types'
  BY <1>1, <1>2, Zenon DEF HandleInv, Types
<1>4. \A u \in Tasks : u # t => task'[u] = task[u]
  BY <1>1, Zenon DEF HandleInv, Types
<1>5. task'[t] = "running" /\ t \notin early
  BY <1>1, Zenon DEF HandleInv, Types, EarlySpawned
<1>6. Handles'
  <2> SUFFICES ASSUME NEW u \in Tasks, task'[u] # "none"
               PROVE  Accounted(u)'
    BY Zenon DEF Handles
  <2>1. CASE u = t
    BY <1>2, <2>1 DEF Accounted
  <2>2. CASE u # t
    <3>1. Accounted(u)
      BY <1>4, <2>2, Zenon DEF HandleInv, Handles
    <3>. QED
      BY <1>1, <1>2, <1>4, <2>2, <3>1 DEF Accounted, n
  <2>. QED
    BY <2>1, <2>2, Zenon
<1>7. ReadyLast'
  <2> SUFFICES ASSUME NEW i \in 1 .. (n + 1), tasks_tx'[i] = Ready
               PROVE  ready' /\ \A k \in 1 .. (n + 1), u \in early' :
                                    tasks_tx'[k] = TaskMsg(u) => k < i
    BY <1>2, Zenon DEF ReadyLast
  <2>1. i \in 1 .. n /\ tasks_tx[i] = Ready
    BY <1>2, Messages
  <2>2. ready /\ \A k \in 1 .. n, u \in early : tasks_tx[k] = TaskMsg(u) => k < i
    BY <2>1, Zenon DEF HandleInv, ReadyLast, n
  <2>3. ASSUME NEW k \in 1 .. (n + 1), NEW u \in early', tasks_tx'[k] = TaskMsg(u)
        PROVE  k < i
    <3>1. u \in early /\ u \in Tasks /\ u # t
      BY <1>1, <1>5, <2>3, Zenon DEF HandleInv, Types
    <3>2. k # n + 1
      BY <1>2, <2>3, <3>1, Messages, Zenon
    <3>. QED
      BY <1>2, <2>2, <2>3, <3>1, <3>2
  <2>. QED
    BY <1>1, <2>2, <2>3, Zenon
<1>8. EarlySpawned' /\ OneAwaited' /\ OkMeansAllFinished'
  <2>1. \A u \in early : task'[u] = task[u]
    BY <1>4, <1>5, Zenon DEF HandleInv, Types
  <2>. QED
    BY <1>1, <2>1, Zenon DEF HandleInv, EarlySpawned, OneAwaited, OkMeansAllFinished
<1>. QED
  BY <1>3, <1>6, <1>7, <1>8, Zenon DEF HandleInv

\* ready() puts its message behind all the handles sent before.
LEMMA ReadyStep ==
    ASSUME HandleInv, signal_ready
    PROVE  HandleInv'
<1> DEFINE n == Len(tasks_tx)
<1>1. /\ tasks_tx \in Seq(Msgs) /\ Ready \in Msgs
      /\ tasks_tx' = Append(tasks_tx, Ready)
      /\ ~ready /\ ready' = TRUE
      /\ early' = {t \in Tasks : task[t] # "none"}
      /\ UNCHANGED <<task, join, awaited, failed>>
  BY Messages, Zenon DEF signal_ready, HandleInv, Types
<1>2. /\ tasks_tx' \in Seq(Msgs) /\ n \in Nat /\ Len(tasks_tx') = n + 1
      /\ tasks_tx'[n + 1] = Ready
      /\ \A i \in 1 .. n : tasks_tx'[i] = tasks_tx[i]
  BY <1>1, Sent, Zenon
<1> HIDE DEF n
<1>3. Types'
  BY <1>1, <1>2, Zenon DEF HandleInv, Types
<1>4. Handles'
  BY <1>1, <1>2 DEF HandleInv, Handles, Accounted, n
<1>5. ReadyLast'
  <2>1. \A i \in 1 .. n : tasks_tx[i] # Ready
    BY <1>1, Zenon DEF HandleInv, ReadyLast, n
  <2>2. \A t \in early' : t \in Tasks
    BY <1>1, Zenon
  <2> SUFFICES ASSUME NEW i \in 1 .. (n + 1), tasks_tx'[i] = Ready,
                      NEW k \in 1 .. (n + 1), NEW t \in early', tasks_tx'[k] = TaskMsg(t)
               PROVE  k < i
    BY <1>1, <1>2, Zenon DEF ReadyLast
  <2>3. i = n + 1
    BY <1>2, <2>1
  <2>4. k # n + 1
    BY <1>2, <2>2, Messages, Zenon
  <2>. QED
    BY <1>2, <2>3, <2>4
<1>6. EarlySpawned' /\ OneAwaited' /\ OkMeansAllFinished'
  <2>1. join # "Ok"
    BY <1>1, Zenon DEF HandleInv, OkMeansAllFinished
  <2>. QED
    BY <1>1, <2>1, Zenon DEF HandleInv, EarlySpawned, OneAwaited, OkMeansAllFinished
<1>. QED
  BY <1>3, <1>4, <1>5, <1>6, Zenon DEF HandleInv

\* A task that ends stays spawned, and one that has finished does not end again.
LEMMA TaskStep ==
    ASSUME HandleInv, NEW t \in Tasks, NEW how \in {"finished", "panicked"},
           task_ends(t, how)
    PROVE  HandleInv'
<1>1. /\ task \in [Tasks -> {"none", "running", "finished", "panicked"}]
      /\ task[t] = "running" /\ task' = [task EXCEPT ![t] = how]
      /\ UNCHANGED <<tasks_tx, ready, join, awaited, failed, early>>
  BY Zenon DEF HandleInv, Types, task_ends
<1>2. Types'
  BY <1>1, Zenon DEF HandleInv, Types
<1>3. \A u \in Tasks : /\ task'[u] = "none" <=> task[u] = "none"
                       /\ task[u] = "finished" => task'[u] = "finished"
  BY <1>1, Zenon
<1>4. Handles'
  BY <1>1, <1>3, Zenon DEF HandleInv, Handles, Accounted
<1>5. ReadyLast' /\ OneAwaited'
  BY <1>1, Zenon DEF HandleInv, ReadyLast, OneAwaited
<1>6. EarlySpawned' /\ OkMeansAllFinished'
  BY <1>1, <1>3, Zenon DEF HandleInv, Types, EarlySpawned, OkMeansAllFinished
<1>. QED
  BY <1>2, <1>4, <1>5, <1>6, Zenon DEF HandleInv

\* The fold takes a message: a handle to await, one to drop after a failure, or
\* Ready, in front of which there was no early task's handle left.
LEMMA CollectStep ==
    ASSUME HandleInv, join_collect
    PROVE  HandleInv'
<1> DEFINE n == Len(tasks_tx)
<1>1. /\ tasks_tx \in Seq(Msgs) /\ tasks_tx # <<>> /\ tasks_tx' = Tail(tasks_tx)
      /\ join = "collect" /\ awaited = {}
      /\ UNCHANGED <<task, ready, failed, early>>
  BY Zenon DEF join_collect, HandleInv, Types, OneAwaited
<1>2. /\ tasks_tx' \in Seq(Msgs) /\ Head(tasks_tx) \in Msgs /\ Head(tasks_tx) = tasks_tx[1]
      /\ n \in Nat /\ n >= 1 /\ Len(tasks_tx') = n - 1
      /\ \A i \in 1 .. (n - 1) : tasks_tx'[i] = tasks_tx[i + 1]
  BY <1>1, Received, Zenon
<1>3. \A i \in 1 .. n : i # 1 => i - 1 \in 1 .. (n - 1) /\ tasks_tx'[i - 1] = tasks_tx[i]
  BY <1>2
<1> HIDE DEF n
<1>4. ReadyLast'
  <2> SUFFICES ASSUME NEW i \in 1 .. (n - 1), tasks_tx'[i] = Ready
               PROVE  ready /\ \A k \in 1 .. (n - 1), t \in early :
                                    tasks_tx'[k] = TaskMsg(t) => k < i
    BY <1>1, <1>2, Zenon DEF ReadyLast
  <2>1. i + 1 \in 1 .. n /\ tasks_tx[i + 1] = Ready
    BY <1>2
  <2>2. ready /\ \A k \in 1 .. n, t \in early : tasks_tx[k] = TaskMsg(t) => k < i + 1
    BY <2>1, Zenon DEF HandleInv, ReadyLast, n
  <2>3. \A k \in 1 .. (n - 1) : k + 1 \in 1 .. n /\ tasks_tx'[k] = tasks_tx[k + 1]
    BY <1>2
  <2>4. ASSUME NEW k \in 1 .. (n - 1), NEW t \in early, tasks_tx'[k] = TaskMsg(t)
        PROVE  k < i
    <3>1. k + 1 < i + 1
      BY <2>2, <2>3, <2>4
    <3>. QED
      BY <3>1, <1>2
  <2>. QED
    BY <2>2, <2>4
<1>5. EarlySpawned'
  BY <1>1, Zenon DEF HandleInv, EarlySpawned
<1>6. ASSUME NEW t \in Tasks, task[t] # "none", ~failed, TaskMsg(t) # Head(tasks_tx)
      PROVE  task[t] = "finished" \/ \E i \in 1 .. (n - 1) : tasks_tx'[i] = TaskMsg(t)
  <2>1. CASE \E i \in 1 .. n : tasks_tx[i] = TaskMsg(t)
    BY <1>2, <1>3, <1>6, <2>1, Zenon
  <2>. QED
    BY <1>1, <1>6, <2>1, Zenon DEF HandleInv, Handles, Accounted, n
<1>7. CASE Head(tasks_tx) = Ready
  <2>1. awaited' = awaited /\ join' = IF failed THEN "Join" ELSE "Ok"
    BY <1>7, Zenon DEF join_collect, StopAt
  <2>2. Handles'
    BY <1>1, <1>2, <1>6, <1>7, Messages, Zenon DEF Handles, Accounted
  <2>3. OkMeansAllFinished'
    <3> SUFFICES ASSUME ~failed
                 PROVE  ready /\ \A t \in early : task[t] = "finished"
      BY <1>1, <2>1, Zenon DEF OkMeansAllFinished
    <3>1. 1 \in 1 .. n /\ tasks_tx[1] = Ready
      BY <1>2, <1>7
    <3>2. ready /\ \A k \in 1 .. n, t \in early : tasks_tx[k] = TaskMsg(t) => k < 1
      BY <3>1, Zenon DEF HandleInv, ReadyLast, n
    <3>3. ASSUME NEW t \in early
          PROVE  task[t] = "finished"
      <4>1. t \in Tasks /\ task[t] # "none"
        BY <3>3, Zenon DEF HandleInv, Types, EarlySpawned
      <4>2. ~ \E i \in 1 .. n : tasks_tx[i] = TaskMsg(t)
        BY <1>2, <3>2, <3>3
      <4>. QED
        BY <1>1, <4>1, <4>2, Zenon DEF HandleInv, Handles, Accounted, n
    <3>. QED
      BY <3>2, <3>3, Zenon
  <2>. QED
    BY <1>1, <1>2, <1>4, <1>5, <2>1, <2>2, <2>3, Zenon DEF HandleInv, Types, OneAwaited
<1>8. CASE Head(tasks_tx) # Ready /\ failed
  <2>1. join' = join /\ awaited' = awaited
    BY <1>8, Zenon DEF join_collect, StopAt
  <2>2. Handles'
    BY <1>1, <1>8, Zenon DEF Handles, Accounted
  <2>. QED
    BY <1>1, <1>2, <1>4, <1>5, <2>1, <2>2, Zenon
       DEF HandleInv, Types, OneAwaited, OkMeansAllFinished
<1>9. CASE Head(tasks_tx) # Ready /\ ~failed
  <2>1. join' = "await" /\ awaited' = {Head(tasks_tx).task}
    BY <1>9, Zenon DEF join_collect, StopAt
  <2>2. PICK u \in Tasks : Head(tasks_tx) = TaskMsg(u)
    BY <1>2, <1>9, Messages, Zenon
  <2>3. awaited' = {u}
    BY <2>1, <2>2, Messages, Zenon
  <2>4. Handles'
    <3> SUFFICES ASSUME NEW t \in Tasks, task[t] # "none"
                 PROVE  Accounted(t)'
      BY <1>1, Zenon DEF Handles
    <3>1. CASE t = u
      BY <2>3, <3>1, Zenon DEF Accounted
    <3>2. CASE t # u
      BY <1>1, <1>2, <1>6, <1>9, <2>2, <3>2, Messages DEF Accounted
    <3>. QED
      BY <3>1, <3>2, Zenon
  <2>. QED
    BY <1>1, <1>2, <1>4, <1>5, <1>9, <2>1, <2>3, <2>4, Zenon
       DEF HandleInv, Types, OneAwaited, OkMeansAllFinished
<1>. QED
  BY <1>7, <1>8, <1>9, Zenon

\* The awaited task has ended: well, or with the error that makes the fold fail.
LEMMA AwaitStep ==
    ASSUME HandleInv, join_await
    PROVE  HandleInv'
<1>1. /\ join = "await" /\ join' = "collect" /\ ~failed /\ awaited' = {}
      /\ UNCHANGED <<task, tasks_tx, ready, early>>
  BY Zenon DEF join_await, HandleInv, OneAwaited
<1>2. PICK u \in awaited : /\ task[u] \in {"finished", "panicked"}
                           /\ failed' = (task[u] = "panicked")
  BY Zenon DEF join_await, JoinError
<1>3. \A t \in awaited : t = u
  BY Zenon DEF HandleInv, OneAwaited
<1>4. failed' \/ task[u] = "finished"
  BY <1>2, Zenon
<1>5. Handles'
  <2> SUFFICES ASSUME NEW t \in Tasks, task[t] # "none"
               PROVE  Accounted(t)'
    BY <1>1, Zenon DEF Handles
  <2>1. Accounted(t)
    BY Zenon DEF HandleInv, Handles
  <2>. QED
    BY <1>1, <1>3, <1>4, <2>1, Zenon DEF Accounted
<1>6. Types' /\ ReadyLast' /\ EarlySpawned' /\ OneAwaited' /\ OkMeansAllFinished'
  BY <1>1, Zenon DEF HandleInv, Types, ReadyLast, EarlySpawned, OneAwaited, OkMeansAllFinished
<1>. QED
  BY <1>5, <1>6, Zenon DEF HandleInv

\* halt(), the start of join() and its timeout leave the handles where they are.
LEMMA OtherStep ==
    ASSUME HandleInv,
           UNCHANGED <<task, tasks_tx, ready, awaited, failed, early>>,
           \/ join' = join
           \/ join = "idle" /\ join' = "collect"
           \/ join' = "Timeout"
    PROVE  HandleInv'
  BY Zenon DEF HandleInv, Types, Handles, Accounted, ReadyLast, EarlySpawned, OneAwaited,
         OkMeansAllFinished

\* Every step keeps track of every handle.
LEMMA HandleStep == HandleInv /\ [Next]_vars => HandleInv'
<1> SUFFICES ASSUME HandleInv, [Next]_vars
             PROVE  HandleInv'
  BY Zenon
<1>1. ASSUME NEW t \in Tasks, spawn(t)
      PROVE  HandleInv'
  BY <1>1, SpawnStep, Zenon
<1>2. CASE signal_ready
  BY <1>2, ReadyStep, Zenon
<1>3. CASE halt_cancel \/ halt_notify
  BY <1>3, OtherStep, Zenon DEF halt_cancel, halt_notify
<1>4. ASSUME NEW t \in Tasks, NEW how \in {"finished", "panicked"}, task_ends(t, how)
      PROVE  HandleInv'
  BY <1>4, TaskStep, Zenon
<1>5. ASSUME NEW t \in Tasks, task_halts(t)
      PROVE  HandleInv'
  BY <1>5, TaskStep, Zenon DEF task_halts
<1>6. ASSUME NEW timeout \in BOOLEAN, join_start(timeout)
      PROVE  HandleInv'
  BY <1>6, OtherStep, Zenon DEF join_start
<1>7. CASE join_collect
  BY <1>7, CollectStep, Zenon
<1>8. CASE join_await
  BY <1>8, AwaitStep, Zenon
<1>9. CASE join_notified \/ join_timeout
  BY <1>9, OtherStep, Zenon DEF join_notified, join_timeout
<1>10. CASE UNCHANGED vars
  BY <1>10, OtherStep, Zenon DEF vars
<1>. QED
  BY <1>1, <1>2, <1>3, <1>4, <1>5, <1>6, <1>7, <1>8, <1>9, <1>10, Zenon DEF Next, Join

\* No task is spawned and the channel is empty at the start.
LEMMA HandleInit == Init => HandleInv
<1> SUFFICES ASSUME Init
             PROVE  HandleInv
  BY Zenon
<1>1. tasks_tx \in Seq(Msgs) /\ Len(tasks_tx) = 0
  BY DEF Init
<1>2. Types /\ EarlySpawned /\ OneAwaited /\ OkMeansAllFinished
  BY <1>1, Zenon DEF Init, Types, EarlySpawned, OneAwaited, OkMeansAllFinished
<1>3. Handles /\ ReadyLast
  BY <1>1 DEF Init, Handles, ReadyLast
<1>. QED
  BY <1>2, <1>3, Zenon DEF HandleInv

-----------------------------------------------------------------------------
(* Theorems                                                                 *)

\* join() says Ok only when all tasks spawned before ready() have finished and
\* none has panicked, however spawn(), ready(), halt() and join() interleave.
THEOREM OkCorrect == Spec => []OkMeansAllFinished
<1>1. HandleInv => OkMeansAllFinished
  BY Zenon DEF HandleInv
<1>. QED
  BY <1>1, HandleInit, HandleStep, PTL DEF Spec

\* join() times out only after halt() was called: the permit that lets its timer
\* run comes from nowhere else.
THEOREM TimeoutCorrect == Spec => []TimeoutAfterHalt
<1>1. Init => HaltInv
  BY Zenon DEF Init, HaltInv, TimeoutAfterHalt
<1>2. HaltInv /\ [Next]_vars => HaltInv'
  <2> SUFFICES ASSUME HaltInv, [Next]_vars
               PROVE  HaltInv'
    BY Zenon
  <2>1. CASE \/ \E t \in Tasks : spawn(t) \/ task_halts(t)
             \/ \E t \in Tasks, how \in {"finished", "panicked"} : task_ends(t, how)
             \/ signal_ready \/ UNCHANGED vars
    BY <2>1 DEF spawn, signal_ready, task_halts, task_ends, vars, HaltInv, TimeoutAfterHalt
  <2>2. CASE halt_cancel \/ halt_notify
    BY <2>2, Zenon DEF halt_cancel, halt_notify, HaltInv, TimeoutAfterHalt
  <2>3. CASE \E timeout \in BOOLEAN : join_start(timeout)
    BY <2>3 DEF join_start, HaltInv, TimeoutAfterHalt
  <2>4. CASE join_collect
    BY <2>4, Zenon DEF join_collect, HaltInv, TimeoutAfterHalt
  <2>5. CASE join_await
    BY <2>5, Zenon DEF join_await, HaltInv, TimeoutAfterHalt
  <2>6. CASE join_notified
    BY <2>6, Zenon DEF join_notified, TimeoutMayStart, Joining, HaltInv, TimeoutAfterHalt
  <2>7. CASE join_timeout
    BY <2>7, Zenon DEF join_timeout, HaltInv, TimeoutAfterHalt
  <2>. QED
    BY <2>1, <2>2, <2>3, <2>4, <2>5, <2>6, <2>7, Zenon DEF Next, Join
<1>3. HaltInv => TimeoutAfterHalt
  BY Zenon DEF HaltInv
<1>. QED
  BY <1>1, <1>2, <1>3, PTL DEF Spec
=============================================================================
