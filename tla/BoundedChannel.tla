--------------------------- MODULE BoundedChannel ---------------------------
(***************************************************************************)
(* The bounded futures::channel::mpsc queue between a translation handler  *)
(* and the task that writes its frames to a socket, as                     *)
(* stratum-proxy/src/util.rs and server.rs use it: handlers only           *)
(* try_send, and the send task takes frames on another thread, so frames   *)
(* may leave the queue between any two try_sends of one handler.           *)
(*                                                                         *)
(* A channel is the log of all the frames it ever accepted, the number     *)
(* of them the send task is KNOWN to have taken, and whether the send task *)
(* still lives.  Frames are taken as late as the observations allow: a     *)
(* successful try_send on a full queue shows that one more frame was       *)
(* taken.  With this lazy count a try_send on a living channel can always  *)
(* succeed, and can fail exactly when the untaken frames fill the queue:   *)
(* every outcome of an eager, concurrently drained queue, and no other.    *)
(***************************************************************************)
EXTENDS Integers, Sequences

CONSTANT Cap           \* frames the queue holds: 10 slots + 1 for the sender

ASSUME CapAssumption == Cap \in Nat \ {0}

Channel(S) == [log : Seq(S), taken : Nat, alive : BOOLEAN]

EmptyChannel == [log |-> <<>>, taken |-> 0, alive |-> TRUE]

\* May the try_send that follows k accepted ones find the queue full, or
\* the receiver gone?
MayRefuse(ch, k) == ~ch.alive \/ Len(ch.log) + k - ch.taken >= Cap

\* How many of n consecutive try_sends, given up at the first failure, may
\* be accepted.
Outcomes(ch, n) ==
    {k \in 0..n : (k > 0 => ch.alive) /\ (k < n => MayRefuse(ch, k))}

\* The channel once the frames fs were accepted.
Accept(ch, fs) ==
    [ch EXCEPT !.log = @ \o fs,
               !.taken = IF Len(ch.log) + Len(fs) - Cap > @
                         THEN Len(ch.log) + Len(fs) - Cap ELSE @]

\* The send task takes the next frame.
Take(ch) == [ch EXCEPT !.taken = @ + 1]

\* The peer has reacted to the i-th frame, so at least i were taken.
TakenUpTo(ch, i) == [ch EXCEPT !.taken = IF i > @ THEN i ELSE @]

\* Writing to the socket failed: the task ends and drops its receiver.
Hangup(ch) == [ch EXCEPT !.alive = FALSE]

First(fs, k) == SubSeq(fs, 1, k)
=============================================================================
