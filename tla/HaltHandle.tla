------------------------------ MODULE HaltHandle ------------------------------
(***************************************************************************)
(* Spawning, halting and joining the tasks of a program:                   *)
(* utils-rs/async-utils/src/halthandle.rs.  One thread spawns the tasks    *)
(* and calls ready(), another calls join(), anyone calls halt() at any     *)
(* time, before the others if need be.                                     *)
(***************************************************************************)
EXTENDS Integers, Sequences, FiniteSets

CONSTANTS
    Tasks,        \* tasks that may be spawned
    Stubborn      \* those that go on when their tripwire fires

ASSUME HaltHandleAssumption ==
    /\ IsFiniteSet(Tasks)
    /\ Stubborn \subseteq Tasks

VARIABLES
    task,       \* state of each task
    tasks_tx,   \* messages to join(): tasks and Ready
    ready,      \* was ready() called?
    halt,       \* where halt() is: "idle", "cancelled", "done"
    tripwire,   \* value of the watch channel
    permit,     \* does notify_join hold a permit?
    join,       \* "idle", "collect", "await", or the result
    awaited,    \* the task whose handle join() awaits, if any
    failed,     \* has the fold met a join error?
    timer,      \* timeout of join(): "none", "armed" (by halt()), "running"
    early       \* history: the tasks spawned before ready()

vars == <<task, tasks_tx, ready, halt, tripwire, permit, join, awaited,
          failed, timer, early>>

Ready == [type |-> "Ready"]
TaskMsg(t) == [type |-> "Task", task |-> t]
Results == {"Ok", "Timeout", "Join"}
Joining == join \in {"collect", "await"}

Init ==
    /\ task = [t \in Tasks |-> "none"]
    /\ tasks_tx = <<>>
    /\ ready = FALSE
    /\ halt = "idle"
    /\ tripwire = FALSE
    /\ permit = FALSE
    /\ join = "idle"
    /\ awaited = {}
    /\ failed = FALSE
    /\ timer = "none"
    /\ early = {}

-----------------------------------------------------------------------------
(* The spawning thread.                                                    *)

spawn(t) ==
    /\ task[t] = "none"
    /\ task' = [task EXCEPT ![t] = "running"]
    /\ tasks_tx' = Append(tasks_tx, TaskMsg(t))
    /\ UNCHANGED <<ready, halt, tripwire, permit, join, awaited, failed, timer, early>>

signal_ready ==
    /\ ~ready
    /\ ready' = TRUE
    /\ tasks_tx' = Append(tasks_tx, Ready)
    /\ early' = {t \in Tasks : task[t] # "none"}
    /\ UNCHANGED <<task, halt, tripwire, permit, join, awaited, failed, timer>>

-----------------------------------------------------------------------------
(* halt() cancels the trigger, then notifies join(), under the mutex that  *)
(* lets only the first call through.                                       *)

halt_cancel ==
    /\ halt = "idle"
    /\ halt' = "cancelled"
    /\ tripwire' = TRUE
    /\ UNCHANGED <<task, tasks_tx, ready, permit, join, awaited, failed, timer, early>>

\* notify_one leaves a permit when nobody waits.  (Variant: notify_waiters.)
NotifyWaiters == permit' = (permit \/ Joining)
NotifyOne == permit' = TRUE

halt_notify ==
    /\ halt = "cancelled"
    /\ halt' = "done"
    /\ NotifyOne
    /\ UNCHANGED <<task, tasks_tx, ready, tripwire, join, awaited, failed, timer, early>>

-----------------------------------------------------------------------------
(* The tasks.                                                              *)

task_ends(t, how) ==
    /\ task[t] = "running"
    /\ task' = [task EXCEPT ![t] = how]
    /\ UNCHANGED <<tasks_tx, ready, halt, tripwire, permit, join, awaited,
                   failed, timer, early>>

task_halts(t) ==
    /\ tripwire
    /\ t \notin Stubborn
    /\ task_ends(t, "finished")

-----------------------------------------------------------------------------
(* join(): two futures in a select!.                                       *)

join_start(timeout) ==
    /\ join = "idle"
    /\ join' = "collect"
    /\ timer' = IF timeout THEN "armed" ELSE "none"
    /\ UNCHANGED <<task, tasks_tx, ready, halt, tripwire, permit, awaited,
                   failed, early>>

\* (Variant: take_while lets nothing through.)
StopAtAny(msg) == TRUE
StopAt(msg) == msg = Ready

\* The next handle is awaited, or dropped after a failure; Ready ends it.
join_collect ==
    /\ join = "collect"
    /\ tasks_tx # <<>>
    /\ tasks_tx' = Tail(tasks_tx)
    /\ IF StopAt(Head(tasks_tx))
       THEN /\ join' = IF failed THEN "Join" ELSE "Ok"
            /\ UNCHANGED awaited
       ELSE IF failed
       THEN UNCHANGED <<join, awaited>>
       ELSE /\ join' = "await"
            /\ awaited' = {Head(tasks_tx).task}
    /\ UNCHANGED <<task, ready, halt, tripwire, permit, failed, timer, early>>

JoinError(t) == task[t] = "panicked"

join_await ==
    /\ join = "await"
    /\ \E t \in awaited : /\ task[t] \in {"finished", "panicked"}
                          /\ failed' = JoinError(t)
    /\ join' = "collect"
    /\ awaited' = {}
    /\ UNCHANGED <<task, tasks_tx, ready, halt, tripwire, permit, timer, early>>

\* (Variant: the timeout runs from the start of join().)
TimeoutAlways == TRUE
TimeoutMayStart == permit

join_notified ==
    /\ Joining
    /\ timer = "armed"
    /\ TimeoutMayStart
    /\ timer' = "running"
    /\ permit' = FALSE
    /\ UNCHANGED <<task, tasks_tx, ready, halt, tripwire, join, awaited,
                   failed, early>>

join_timeout ==
    /\ Joining
    /\ timer = "running"
    /\ join' = "Timeout"
    /\ UNCHANGED <<task, tasks_tx, ready, halt, tripwire, permit, awaited,
                   failed, timer, early>>

Join == join_collect \/ join_await \/ join_notified \/ join_timeout

Next ==
    \/ \E t \in Tasks : spawn(t)
    \/ signal_ready
    \/ halt_cancel
    \/ halt_notify
    \/ \E t \in Tasks, how \in {"finished", "panicked"} : task_ends(t, how)
    \/ \E t \in Tasks : task_halts(t)
    \/ \E timeout \in BOOLEAN : join_start(timeout)
    \/ Join

Spec == Init /\ [][Next]_vars

\* Threads make progress; a task that watches its tripwire ends when it fires.
Fairness ==
    /\ WF_vars(halt_notify)
    /\ WF_vars(Join)
    /\ \A t \in Tasks : WF_vars(task_halts(t))

FairSpec == Spec /\ Fairness

-----------------------------------------------------------------------------
(* Properties.                                                             *)

TypeOK ==
    /\ task \in [Tasks -> {"none", "running", "finished", "panicked"}]
    /\ tasks_tx \in Seq({Ready} \cup {TaskMsg(t) : t \in Tasks})
    /\ {ready, tripwire, permit, failed} \subseteq BOOLEAN
    /\ halt \in {"idle", "cancelled", "done"}
    /\ join \in {"idle", "collect", "await"} \cup Results
    /\ awaited \subseteq Tasks
    /\ timer \in {"none", "armed", "running"}
    /\ early \subseteq Tasks

\* join() returns Ok only when every task spawned before ready() has ended and
\* none of them panicked, wherever the calls of spawn(), halt() and join()
\* fell: no handle is passed over and no join error is lost.
OkMeansAllFinished ==
    join = "Ok" => ready /\ \A t \in early : task[t] = "finished"

\* The timeout is the time to wait after halt(): join() never gives up on a
\* program that was not asked to stop, however long its tasks run.
TimeoutAfterHalt == join = "Timeout" => halt # "idle"

\* Once halt() is called, join() returns: after the timeout if it has one,
\* whatever the tasks do and even if halt() came before join(); without one,
\* if ready() was called and every task watches its tripwire.
JoinReturns ==
    (/\ Joining
     /\ halt # "idle"
     /\ timer # "none" \/ (ready /\ early \cap Stubborn = {}))
    ~> join \in Results
=============================================================================
