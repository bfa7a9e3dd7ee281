------------------------------ MODULE ShareFifo ------------------------------
(***************************************************************************)
(* What the proxy promises a miner about its shares, whoever rejects or    *)
(* accepts them: shares wait in the order in which they were submitted,    *)
(* and only the oldest waiting ones are answered.  A share that meets an   *)
(* empty queue may be answered at once, or, if it is rejected while the    *)
(* connection is congested, be dropped.  When the session ends, whatever   *)
(* still waits may go unanswered.                                          *)
(*                                                                         *)
(* Abstract counterpart of v2_submit_share_queue in                        *)
(* stratum-proxy/src/translation.rs; module Translation implements it.     *)
(***************************************************************************)
EXTENDS Integers, Sequences

VARIABLES
    open,       \* does the session live?
    count,      \* shares submitted so far; they are numbered from 1
    pending,    \* shares that wait for an answer
    answered    \* shares that were answered

fifo == <<open, count, pending, answered>>

Oldest(n) == {pending[i] : i \in 1..n}
After(n) == SubSeq(pending, n + 1, Len(pending))

Init ==
    /\ open = TRUE
    /\ count = 0
    /\ pending = <<>>
    /\ answered = {}

Enqueue ==
    /\ pending' = Append(pending, count + 1)
    /\ UNCHANGED answered

AnswerAtOnce ==
    /\ pending = <<>>
    /\ answered' \in {answered, answered \cup {count + 1}}
    /\ UNCHANGED pending

Submit ==
    /\ open
    /\ count' = count + 1
    /\ open' \in BOOLEAN
    /\ Enqueue \/ AnswerAtOnce \/ (~open' /\ UNCHANGED <<pending, answered>>)

Answer ==
    /\ open
    /\ \E n \in 1..Len(pending) :
          answered' = answered \cup Oldest(n) /\ pending' = After(n)
    /\ UNCHANGED <<open, count>>

End ==
    /\ open
    /\ open' = FALSE
    /\ \E n \in 0..Len(pending) :
          /\ answered' = answered \cup Oldest(n)
          /\ \E m \in n..Len(pending) : pending' = After(m)
    /\ UNCHANGED count

Next == Submit \/ Answer \/ End

Spec == Init /\ [][Next]_fifo
=============================================================================
