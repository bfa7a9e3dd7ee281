----------------------------- MODULE ShareProofs -----------------------------
(***************************************************************************)
(* What every step of a translation session does to the shares and to the  *)
(* channel, and the theorems that follow from it.                          *)
(***************************************************************************)
EXTENDS TranslationProofs

\* A step of the session is about no share, takes one in, or answers some.
ShareStep ==
    \/ Calm
    \/ SubmitStep
    \/ \E k, p \in 0..Len(v2_submit_share_queue) : AnswerStep(k, p)

\* A message of the V2 client is handled while the session lives, as ShareStep
\* says.
LEMMA V2MessageStep ==
    ASSUME TypeOK, V2Message
    PROVE  TypeOK' /\ Live /\ ShareStep
<1> USE DEF ShareStep
<1>1. CASE handle_setup_connection
  <2>1. Live
    BY <1>1, Zenon DEF handle_setup_connection, Receive, Live
  <2> QED
    BY <1>1, <2>1, SetupConnectionCalm, Zenon
<1>2. CASE handle_open_standard_mining_channel
  <2>1. Live
    BY <1>2, Zenon DEF handle_open_standard_mining_channel, Receive, Live
  <2> QED
    BY <1>2, <2>1, OpenChannelCalm, Zenon
<1>3. ASSUME NEW channel_ok \in BOOLEAN, NEW job \in Ids,
             handle_submit_shares_standard(channel_ok, job)
      PROVE  TypeOK' /\ Live /\ ShareStep
  <2>1. Live
    BY <1>3, Zenon DEF handle_submit_shares_standard, Receive, Live
  <2> QED
    BY <1>3, <2>1, SubmitSharesStep, Zenon
<1> QED
  BY <1>1, <1>2, <1>3, Zenon DEF V2Message

\* So is an answer of the V1 server,
LEMMA V1AnswerStep ==
    ASSUME TypeOK, NEW i \in 1..Len(v1_tx.log), V1Answer(i)
    PROVE  TypeOK' /\ Live /\ ShareStep
<1> USE DEF ShareStep
<1>1. Live
  BY Zenon DEF V1Answer, UnparsableResult, handle_configure_result,
         handle_extranonce_subscribe_result, handle_subscribe_result,
         handle_authorize_result, UnsuccessfulResult,
         handle_authorize_or_subscribe_error, handle_submit_result, Answered, Live
<1>2. CASE UnparsableResult(i)
  BY <1>1, <1>2, UnparsableResultCalm, Zenon
<1>3. ASSUME NEW rolling \in BOOLEAN, handle_configure_result(i, rolling)
      PROVE  TypeOK' /\ ShareStep
  BY <1>3, ConfigureCalm, Zenon
<1>4. CASE handle_extranonce_subscribe_result(i)
  BY <1>1, <1>4, ExtranonceSubscribeCalm, Zenon
<1>5. ASSUME NEW size \in Sizes, handle_subscribe_result(i, size)
      PROVE  TypeOK' /\ ShareStep
  BY <1>5, SubscribeCalm, Zenon
<1>6. CASE handle_authorize_result(i)
  BY <1>1, <1>6, AuthorizeCalm, Zenon
<1>7. CASE UnsuccessfulResult(i)
  BY <1>1, <1>7, UnsuccessfulResultCalm, Zenon
<1>8. CASE handle_authorize_or_subscribe_error(i)
  BY <1>1, <1>8, AuthorizeOrSubscribeErrorCalm, Zenon
<1>9. ASSUME NEW answer \in {"true", "false", "error"}, handle_submit_result(i, answer)
      PROVE  TypeOK' /\ ShareStep
  BY <1>9, SubmitResultStep, Zenon
<1> QED
  BY <1>1, <1>2, <1>3, <1>4, <1>5, <1>6, <1>7, <1>8, <1>9, Zenon DEF V1Answer

\* a notification of the V1 server,
LEMMA V1NotificationStep ==
    ASSUME TypeOK, V1Notification
    PROVE  TypeOK' /\ Live /\ ShareStep
<1> USE DEF ShareStep
<1>1. Live
  BY Zenon DEF V1Notification, handle_set_difficulty, handle_set_extranonce, handle_notify,
         handle_client_reconnect, handle_ping, Receive, Live
<1>2. CASE handle_set_difficulty
  BY <1>1, <1>2, SetDifficultyCalm, Zenon
<1>3. ASSUME NEW size \in Sizes, handle_set_extranonce(size)
      PROVE  TypeOK' /\ ShareStep
  BY <1>3, SetExtranonceCalm, Zenon
<1>4. ASSUME NEW clean \in BOOLEAN, NEW good \in BOOLEAN, handle_notify(clean, good)
      PROVE  TypeOK' /\ ShareStep
  BY <1>4, NotifyCalm, Zenon
<1>5. ASSUME NEW parsable \in BOOLEAN, handle_client_reconnect(parsable)
      PROVE  TypeOK' /\ ShareStep
  BY <1>5, ClientReconnectCalm, Zenon
<1>6. CASE handle_ping
  BY <1>1, <1>6, PingCalm, Zenon
<1> QED
  BY <1>1, <1>2, <1>3, <1>4, <1>5, <1>6, Zenon DEF V1Notification

\* and so is every step of the session.
LEMMA NextStep ==
    ASSUME TypeOK, Next
    PROVE  TypeOK' /\ Live /\ ShareStep
<1>1. CASE V2Message
  BY <1>1, V2MessageStep, Zenon
<1>2. CASE \E i \in 1..Len(v1_tx.log) : V1Answer(i)
  BY <1>2, V1AnswerStep, Zenon
<1>3. CASE V1Notification
  BY <1>3, V1NotificationStep, Zenon
<1>4. CASE v2_send_task \/ v1_send_task_ends \/ v2_send_task_ends \/ run_ends
  <2>1. Live
    BY <1>4, Zenon DEF v2_send_task, v1_send_task_ends, v2_send_task_ends, run_ends, Receive, Live
  <2> QED
    BY <1>4, <2>1, TaskCalm, Zenon DEF ShareStep
<1> QED
  BY <1>1, <1>2, <1>3, <1>4, Zenon DEF Next

\* V2ToV1Translation::new makes a well-typed state.
LEMMA InitTypeOK == Init => TypeOK
<1> SUFFICES ASSUME Init PROVE TypeOK
  BY Zenon
<1>1. EmptyChannel \in Channel(V1Frames) /\ EmptyChannel \in Channel(V2Frames)
  BY DEF EmptyChannel, Channel
<1>2. 0 \in Ids
  BY TranslationAssumption DEF Ids
<1>3. UpstreamOK /\ V2TxOK
  BY <1>1, <1>2 DEF Init, UpstreamOK, V2TxOK
<1>4. SessionOK /\ NegotiatedOK /\ ChannelOK
  BY Zenon DEF Init, SessionOK, States, NegotiatedOK, ChannelOK
<1>5. QueueOK /\ HistoryOK
  BY DEF Init, QueueOK, HistoryOK
<1>6. UsedOK
  BY Zenon DEF Init, UsedOK
<1>7. JobsOK
  BY <1>2 DEF Init, JobsOK, JobMapOK, NoNotify, Notifies
<1> QED
  BY <1>3, <1>4, <1>5, <1>6, <1>7, TypeOKGroups, Zenon

\* A step that changes nothing keeps the types.
LEMMA StutterTypeOK ==
    ASSUME TypeOK, UNCHANGED vars
    PROVE  TypeOK'
  BY Zenon DEF vars, upstream, negotiated, channel, jobs, history, TypeOK

\* In every state of a session, however messages, answers and refused
\* try_sends interleave, the fields of V2ToV1Translation have the values the
\* model gives them.
THEOREM TypeCorrect == Spec => []TypeOK
<1>1. TypeOK /\ [Next]_vars => TypeOK'
  BY NextStep, StutterTypeOK, Zenon
<1> QED
  BY <1>1, InitTypeOK, PTL DEF Spec

-----------------------------------------------------------------------------
(* Shares are answered in order.                                           *)

SentBelow(bound) ==
    \A i \in 1..Len(v2_tx.log) : IsShareFrame(v2_tx.log[i]) => v2_tx.log[i].ref < bound

\* What makes AnswersInOrder inductive: the queue is sorted, every share that
\* was answered is older than every share that waits, and no share is newer
\* than the latest one.
ShareOrder ==
    /\ AnswersInOrder
    /\ \A i, j \in 1..Len(v2_submit_share_queue) :
          i < j => v2_submit_share_queue[i].share < v2_submit_share_queue[j].share
    /\ \A j \in 1..Len(v2_submit_share_queue) :
          /\ SentBelow(v2_submit_share_queue[j].share)
          /\ v2_submit_share_queue[j].share <= used["submit"]
    /\ SentBelow(Share)

\* Numbers of shares are natural numbers.
LEMMA ShareNumbers ==
    ASSUME TypeOK
    PROVE  /\ Len(v2_tx.log) \in Nat /\ Len(v2_submit_share_queue) \in Nat
           /\ used["submit"] \in Nat
           /\ \A i \in 1..Len(v2_tx.log) : v2_tx.log[i].ref \in Nat
           /\ \A i \in 1..Len(v2_submit_share_queue) : v2_submit_share_queue[i].share \in Nat
<1> USE TypeOKGroups
<1>1. Len(v2_tx.log) \in Nat /\ \A i \in 1..Len(v2_tx.log) : v2_tx.log[i] \in V2Frames
  BY DEF V2TxOK, Channel
<1>2. /\ Len(v2_submit_share_queue) \in Nat
      /\ \A i \in 1..Len(v2_submit_share_queue) : v2_submit_share_queue[i] \in QueueItems
  BY DEF QueueOK
<1> QED
  BY <1>1, <1>2, Zenon DEF V2Frames, QueueItems, UsedOK, Inputs

\* A step about no share keeps the order.
LEMMA CalmOrder ==
    ASSUME TypeOK, ShareOrder, Calm
    PROVE  ShareOrder'
<1> USE ShareNumbers
<1>1. ASSUME NEW i \in 1..Len(v2_tx'.log), IsShareFrame(v2_tx'.log[i])
      PROVE  i \in 1..Len(v2_tx.log) /\ v2_tx'.log[i] = v2_tx.log[i]
  <2>1. i \in Nat /\ i >= 1 /\ i <= Len(v2_tx'.log) /\ Len(v2_tx'.log) \in Nat
    BY DEF Calm, QuietStep, V2TxOK, Channel
  <2>2. i <= Len(v2_tx.log)
    BY <1>1, <2>1 DEF Calm, QuietStep
  <2> QED
    BY <2>1, <2>2 DEF Calm, QuietStep
<1>2. AnswersInOrder'
  BY <1>1, Zenon DEF ShareOrder, AnswersInOrder
<1>3. ASSUME NEW bound, SentBelow(bound)
      PROVE  \A i \in 1..Len(v2_tx'.log) :
               IsShareFrame(v2_tx'.log[i]) => v2_tx'.log[i].ref < bound
  BY <1>1, <1>3, Zenon DEF SentBelow
<1> QED
  BY <1>2, <1>3, Zenon DEF ShareOrder, Calm, SentBelow, Share

\* A share that is rejected at once is newer than every answered one.
LEMMA AppendedOrder ==
    ASSUME TypeOK, ShareOrder, v2_submit_share_queue = <<>>, AnswerAppended(Share)
    PROVE  /\ AnswersInOrder'
           /\ \A i \in 1..Len(v2_tx'.log) :
                IsShareFrame(v2_tx'.log[i]) => v2_tx'.log[i].ref < Share + 1
<1> USE ShareNumbers
<1>1. ASSUME NEW i \in 1..Len(v2_tx'.log)
      PROVE  \/ i \in 1..Len(v2_tx.log) /\ v2_tx'.log[i] = v2_tx.log[i]
             \/ i = Len(v2_tx.log) + 1 /\ v2_tx'.log[i].ref = Share
  BY DEF AnswerAppended
<1>2. \A i \in 1..Len(v2_tx.log) : IsShareFrame(v2_tx.log[i]) => v2_tx.log[i].ref < Share
  BY Zenon DEF ShareOrder, SentBelow
<1>3. ASSUME NEW i \in 1..Len(v2_tx'.log), NEW j \in 1..Len(v2_tx'.log), i < j,
             IsShareFrame(v2_tx'.log[i]), IsShareFrame(v2_tx'.log[j])
      PROVE  v2_tx'.log[i].ref < v2_tx'.log[j].ref
  <2>1. i \in 1..Len(v2_tx.log) /\ v2_tx'.log[i] = v2_tx.log[i]
    <3>1. j <= Len(v2_tx.log) + 1 /\ i \in Int /\ j \in Int
      BY <1>1
    <3> QED
      BY <1>1, <1>3, <3>1
  <2>2. CASE j \in 1..Len(v2_tx.log) /\ v2_tx'.log[j] = v2_tx.log[j]
    BY <1>3, <2>1, <2>2, Zenon DEF ShareOrder, AnswersInOrder
  <2>3. CASE v2_tx'.log[j].ref = Share
    BY <1>2, <1>3, <2>1, <2>3, Zenon
  <2> QED
    BY <1>1, <2>2, <2>3, Zenon
<1>4. ASSUME NEW i \in 1..Len(v2_tx'.log), IsShareFrame(v2_tx'.log[i])
      PROVE  v2_tx'.log[i].ref < Share + 1
  <2>1. CASE i \in 1..Len(v2_tx.log) /\ v2_tx'.log[i] = v2_tx.log[i]
    <3>1. v2_tx.log[i].ref < Share /\ v2_tx.log[i].ref \in Nat /\ Share \in Nat
      BY <1>2, <1>4, <2>1 DEF Share
    <3> QED
      BY <2>1, <3>1
  <2>2. CASE v2_tx'.log[i].ref = Share
    BY <2>2 DEF Share
  <2> QED
    BY <1>1, <2>1, <2>2, Zenon
<1> QED
  BY <1>3, <1>4, Zenon DEF AnswersInOrder

\* Taking in a share keeps the order.
LEMMA SubmitOrder ==
    ASSUME TypeOK, ShareOrder, SubmitStep
    PROVE  ShareOrder'
<1> USE ShareNumbers
<1>1. Share \in Nat /\ used'["submit"] = Share /\ Share' = Share + 1
  BY DEF Share, SubmitStep
<1>2. CASE v2_tx'.log = v2_tx.log /\ UNCHANGED v2_submit_share_queue
  <2>1. AnswersInOrder'
    BY <1>2, Zenon DEF ShareOrder, AnswersInOrder
  <2>2. \A i, j \in 1..Len(v2_submit_share_queue') :
          i < j => v2_submit_share_queue'[i].share < v2_submit_share_queue'[j].share
    BY <1>2, Zenon DEF ShareOrder
  <2>3. \A j \in 1..Len(v2_submit_share_queue') : SentBelow(v2_submit_share_queue[j].share)'
    BY <1>2, Zenon DEF ShareOrder, SentBelow
  <2>4. \A j \in 1..Len(v2_submit_share_queue') : v2_submit_share_queue'[j].share <= used'["submit"]
    BY <1>1, <1>2 DEF ShareOrder, Share
  <2>5. SentBelow(Share)'
    BY <1>1, <1>2 DEF ShareOrder, SentBelow
  <2> QED
    BY <2>1, <2>2, <2>3, <2>4, <2>5, Zenon DEF ShareOrder
<1>3. CASE /\ v2_tx'.log = v2_tx.log
           /\ \E item \in QueueItems :
                /\ item.share = Share
                /\ v2_submit_share_queue' = Append(v2_submit_share_queue, item)
  <2>1. PICK item \in QueueItems :
                /\ item.share = Share
                /\ v2_submit_share_queue' = Append(v2_submit_share_queue, item)
    BY <1>3, Zenon
  <2>2. v2_submit_share_queue \in Seq(QueueItems)
    BY TypeOKGroups, Zenon DEF QueueOK
  <2>3. ASSUME NEW j \in 1..Len(v2_submit_share_queue')
        PROVE  \/ /\ j \in 1..Len(v2_submit_share_queue)
                  /\ v2_submit_share_queue'[j] = v2_submit_share_queue[j]
               \/ /\ j = Len(v2_submit_share_queue) + 1
                  /\ v2_submit_share_queue'[j].share = Share
    BY <2>1, <2>2
  <2>4. AnswersInOrder'
    BY <1>3, Zenon DEF ShareOrder, AnswersInOrder
  <2>5. \A i, j \in 1..Len(v2_submit_share_queue') :
          i < j => v2_submit_share_queue'[i].share < v2_submit_share_queue'[j].share
    <3>1. \A i \in 1..Len(v2_submit_share_queue) : v2_submit_share_queue[i].share < Share
      BY DEF ShareOrder, Share
    <3>2. \A i, j \in 1..Len(v2_submit_share_queue) :
             i < j => v2_submit_share_queue[i].share < v2_submit_share_queue[j].share
      BY Zenon DEF ShareOrder
    <3>3. Len(v2_submit_share_queue') = Len(v2_submit_share_queue) + 1
      BY <2>1, <2>2
    <3> HIDE DEF Share
    <3> SUFFICES ASSUME NEW i \in 1..Len(v2_submit_share_queue'),
                        NEW j \in 1..Len(v2_submit_share_queue'), i < j
                 PROVE  v2_submit_share_queue'[i].share < v2_submit_share_queue'[j].share
      BY Zenon
    <3>4. /\ i \in 1..Len(v2_submit_share_queue)
          /\ v2_submit_share_queue'[i] = v2_submit_share_queue[i]
      BY <2>3, <3>3
    <3>5. CASE j = Len(v2_submit_share_queue) + 1
      BY <2>3, <3>1, <3>4, <3>5
    <3>6. CASE /\ j \in 1..Len(v2_submit_share_queue)
               /\ v2_submit_share_queue'[j] = v2_submit_share_queue[j]
      BY <3>2, <3>4, <3>6, Zenon
    <3> QED
      BY <2>3, <3>5, <3>6, Zenon
  <2>6. \A j \in 1..Len(v2_submit_share_queue') :
          /\ SentBelow(v2_submit_share_queue[j].share)'
          /\ v2_submit_share_queue'[j].share <= used'["submit"]
    BY <1>1, <1>3, <2>3 DEF ShareOrder, SentBelow, Share
  <2>7. SentBelow(Share)'
    BY <1>1, <1>3 DEF ShareOrder, SentBelow
  <2> QED
    BY <2>4, <2>5, <2>6, <2>7, Zenon DEF ShareOrder
<1>4. CASE /\ v2_submit_share_queue = <<>>
           /\ UNCHANGED v2_submit_share_queue
           /\ AnswerAppended(Share)
  <2>1. /\ AnswersInOrder'
        /\ \A i \in 1..Len(v2_tx'.log) :
                IsShareFrame(v2_tx'.log[i]) => v2_tx'.log[i].ref < Share + 1
    BY <1>4, AppendedOrder, Zenon
  <2>2. SentBelow(Share)'
    BY <1>1, <2>1, Zenon DEF SentBelow
  <2> QED
    BY <1>4, <2>1, <2>2 DEF ShareOrder
<1> QED
  BY <1>2, <1>3, <1>4, Zenon DEF SubmitStep

\* Where the frames and the queued shares of the next state come from when
\* shares are answered.
LEMMA AnswerOrigins ==
    ASSUME TypeOK, NEW k \in 0..Len(v2_submit_share_queue),
           NEW p \in 0..Len(v2_submit_share_queue), AnswerStep(k, p)
    PROVE  /\ \A i \in 1..Len(v2_tx'.log) :
                \/ i \in 1..Len(v2_tx.log) /\ v2_tx'.log[i] = v2_tx.log[i]
                \/ /\ i - Len(v2_tx.log) \in 1..k
                   /\ v2_tx'.log[i].ref = v2_submit_share_queue[i - Len(v2_tx.log)].share
           /\ Len(v2_submit_share_queue') = Len(v2_submit_share_queue) - p
           /\ \A j \in 1..Len(v2_submit_share_queue') :
                /\ j + p \in 1..Len(v2_submit_share_queue)
                /\ v2_submit_share_queue'[j] = v2_submit_share_queue[j + p]
<1> USE ShareNumbers
<1>1. ASSUME NEW i \in 1..Len(v2_tx'.log)
      PROVE  \/ i \in 1..Len(v2_tx.log) /\ v2_tx'.log[i] = v2_tx.log[i]
             \/ /\ i - Len(v2_tx.log) \in 1..k
                /\ v2_tx'.log[i].ref = v2_submit_share_queue[i - Len(v2_tx.log)].share
  <2> DEFINE d == i - Len(v2_tx.log)
  <2>1. i \in Nat /\ i >= 1 /\ i <= Len(v2_tx.log) + k /\ i = Len(v2_tx.log) + d
    BY DEF AnswerStep
  <2>2. CASE i <= Len(v2_tx.log)
    BY <2>1, <2>2 DEF AnswerStep
  <2>3. CASE i > Len(v2_tx.log)
    <3>1. d \in 1..k
      BY <2>1, <2>3
    <3> HIDE DEF d
    <3>2. v2_tx'.log[i].ref = v2_submit_share_queue[d].share
      BY <2>1, <3>1, Zenon DEF AnswerStep
    <3> QED
      BY <3>1, <3>2, Zenon DEF d
  <2> QED
    BY <2>1, <2>2, <2>3
<1>2. v2_submit_share_queue \in Seq(QueueItems)
  BY TypeOKGroups, Zenon DEF QueueOK
<1>3. v2_submit_share_queue' = SubSeq(v2_submit_share_queue, p + 1, Len(v2_submit_share_queue))
  BY Zenon DEF AnswerStep
<1>4. Len(v2_submit_share_queue') = Len(v2_submit_share_queue) - p
  BY <1>2, <1>3
<1>5. ASSUME NEW j \in 1..Len(v2_submit_share_queue')
      PROVE  /\ j + p \in 1..Len(v2_submit_share_queue)
             /\ v2_submit_share_queue'[j] = v2_submit_share_queue[j + p]
  BY <1>2, <1>3, <1>4
<1> QED
  BY <1>1, <1>4, <1>5, Zenon

\* Answering the oldest shares of the queue keeps the order.
LEMMA AnswerOrder ==
    ASSUME TypeOK, ShareOrder, NEW k \in 0..Len(v2_submit_share_queue),
           NEW p \in 0..Len(v2_submit_share_queue), AnswerStep(k, p)
    PROVE  ShareOrder'
<1> USE ShareNumbers
<1> DEFINE n == Len(v2_tx.log)
           queue == v2_submit_share_queue
           Kept(i) == i \in 1..n /\ v2_tx'.log[i] = v2_tx.log[i]
           New(i) == i - n \in 1..k /\ v2_tx'.log[i].ref = queue[i - n].share
<1>1. \A i \in 1..Len(v2_tx'.log) : Kept(i) \/ New(i)
  BY AnswerOrigins, Zenon
<1>2. \A j \in 1..Len(queue') : j + p \in 1..Len(queue) /\ queue'[j] = queue[j + p]
  BY AnswerOrigins, Zenon
<1>3. k <= p /\ used' = used /\ Share' = Share
  BY Zenon DEF AnswerStep, Share
<1>4. \A i \in 1..k : i \in 1..Len(queue) /\ queue[i].share \in Nat /\ queue[i].share <= used["submit"]
  BY DEF ShareOrder
<1>5. ASSUME NEW i \in 1..Len(v2_tx'.log), NEW j \in 1..Len(v2_tx'.log), i < j,
             IsShareFrame(v2_tx'.log[i]), IsShareFrame(v2_tx'.log[j])
      PROVE  v2_tx'.log[i].ref < v2_tx'.log[j].ref
  <2>1. CASE Kept(i) /\ Kept(j)
    BY <1>5, <2>1, Zenon DEF ShareOrder, AnswersInOrder
  <2>2. CASE Kept(i) /\ New(j)
    <3>1. SentBelow(queue[j - n].share)
      BY <1>4, <2>2, Zenon DEF ShareOrder
    <3> QED
      BY <1>5, <2>2, <3>1, Zenon DEF SentBelow
  <2>3. CASE New(i) /\ New(j)
    <3>1. i - n \in 1..Len(queue) /\ j - n \in 1..Len(queue) /\ i - n < j - n
      <4>1. k \in Nat /\ k <= Len(queue) /\ i \in Int /\ j \in Int /\ n \in Int /\ Len(queue) \in Nat
        BY <2>3
      <4>2. i - n \in 1..k /\ j - n \in 1..k /\ i < j
        BY <1>5, <2>3, Zenon
      <4> HIDE DEF n, queue
      <4> QED
        BY <4>1, <4>2, SMTT(30)
    <3>2. queue[i - n].share < queue[j - n].share
      BY <3>1, Zenon DEF ShareOrder
    <3> QED
      BY <2>3, <3>2, Zenon
  <2>4. CASE New(i) /\ Kept(j)
    BY <1>5, <2>4
  <2> QED
    BY <1>1, <2>1, <2>2, <2>3, <2>4, Zenon
<1>6. ASSUME NEW i \in 1..Len(queue'), NEW j \in 1..Len(queue'), i < j
      PROVE  queue'[i].share < queue'[j].share
  <2>1. i + p < j + p
    BY <1>6
  <2> QED
    BY <1>2, <2>1, Zenon DEF ShareOrder
<1>7. ASSUME NEW j \in 1..Len(queue'), NEW i \in 1..Len(v2_tx'.log), IsShareFrame(v2_tx'.log[i])
      PROVE  v2_tx'.log[i].ref < queue'[j].share
  <2>1. j + p \in 1..Len(queue) /\ queue'[j] = queue[j + p] /\ j >= 1 /\ j \in Nat
    BY <1>2, SMTT(30)
  <2>2. CASE Kept(i)
    <3>1. SentBelow(queue[j + p].share)
      BY <2>1, Zenon DEF ShareOrder
    <3> QED
      BY <1>7, <2>1, <2>2, <3>1, Zenon DEF SentBelow
  <2>3. CASE New(i)
    <3>1. i - n \in 1..Len(queue) /\ i - n < j + p
      <4>1. k \in Nat /\ p \in Nat /\ k <= p /\ k <= Len(queue) /\ i \in Int /\ n \in Int /\ Len(queue) \in Nat
        BY <1>3, <2>3
      <4> HIDE DEF n, queue
      <4> QED
        BY <2>1, <2>3, <4>1
    <3>2. queue[i - n].share < queue[j + p].share
      BY <2>1, <3>1, Zenon DEF ShareOrder
    <3> QED
      BY <2>1, <2>3, <3>2, Zenon
  <2> QED
    BY <1>1, <2>2, <2>3, Zenon
<1>8. ASSUME NEW i \in 1..Len(v2_tx'.log), IsShareFrame(v2_tx'.log[i])
      PROVE  v2_tx'.log[i].ref < Share
  <2>1. CASE Kept(i)
    BY <1>8, <2>1, Zenon DEF ShareOrder, SentBelow
  <2>2. CASE New(i)
    BY <1>4, <2>2, SMTT(30) DEF Share
  <2> QED
    BY <1>1, <2>1, <2>2, Zenon
<1>9. \A j \in 1..Len(queue') : queue'[j].share <= used'["submit"]
  BY <1>2, <1>3, Zenon DEF ShareOrder
<1> QED
  BY <1>3, <1>5, <1>6, <1>7, <1>8, <1>9, Zenon DEF ShareOrder, AnswersInOrder, SentBelow

\* In whatever order the V1 server answers and the proxy rejects, the miner
\* sees the answers to its shares in the order of its submissions.
THEOREM OrderCorrect == Spec => []AnswersInOrder
<1>1. Init => ShareOrder
  BY DEF Init, EmptyChannel, ShareOrder, AnswersInOrder, SentBelow
<1>2. TypeOK /\ ShareOrder /\ [Next]_vars => ShareOrder'
  <2>1. ASSUME TypeOK, ShareOrder, Next
        PROVE  ShareOrder'
    <3>1. ShareStep
      BY <2>1, NextStep, Zenon
    <3> QED
      BY <2>1, <3>1, CalmOrder, SubmitOrder, AnswerOrder, Zenon DEF ShareStep
  <2>2. ASSUME ShareOrder, UNCHANGED vars
        PROVE  ShareOrder'
    BY <2>2, Zenon DEF vars, ShareOrder, AnswersInOrder, SentBelow, Share
  <2> QED
    BY <2>1, <2>2, Zenon
<1>3. ShareOrder => AnswersInOrder
  BY Zenon DEF ShareOrder
<1> QED
  BY <1>1, <1>2, <1>3, TypeCorrect, PTL DEF Spec

-----------------------------------------------------------------------------
(* Shares are not forgotten.                                               *)

\* A step about no share answers none.
LEMMA CalmSent ==
    ASSUME TypeOK, Calm
    PROVE  SharesSent' = SharesSent
<1> USE ShareNumbers
<1>1. ASSUME NEW i \in 1..Len(v2_tx'.log), IsShareFrame(v2_tx'.log[i])
      PROVE  i \in 1..Len(v2_tx.log) /\ v2_tx'.log[i] = v2_tx.log[i]
  <2>1. i \in Nat /\ i >= 1 /\ i <= Len(v2_tx'.log) /\ Len(v2_tx'.log) \in Nat
    BY DEF Calm, QuietStep, V2TxOK, Channel
  <2>2. i <= Len(v2_tx.log)
    BY <1>1, <2>1 DEF Calm, QuietStep
  <2> QED
    BY <2>1, <2>2 DEF Calm, QuietStep
<1>2. ASSUME NEW i \in 1..Len(v2_tx.log)
      PROVE  i \in 1..Len(v2_tx'.log) /\ v2_tx'.log[i] = v2_tx.log[i]
  BY DEF Calm, QuietStep, V2TxOK, Channel
<1> QED
  BY <1>1, <1>2, Zenon DEF SharesSent

\* A rejection at once answers that share.
LEMMA AppendedSent ==
    ASSUME TypeOK, NEW share, AnswerAppended(share)
    PROVE  SharesSent' = SharesSent \cup {share}
<1> USE ShareNumbers
<1>1. ASSUME NEW i \in 1..Len(v2_tx'.log)
      PROVE  \/ i \in 1..Len(v2_tx.log) /\ v2_tx'.log[i] = v2_tx.log[i]
             \/ v2_tx'.log[i].ref = share
  BY DEF AnswerAppended
<1>2. ASSUME NEW i \in 1..Len(v2_tx.log)
      PROVE  i \in 1..Len(v2_tx'.log) /\ v2_tx'.log[i] = v2_tx.log[i]
  BY DEF AnswerAppended
<1> DEFINE l == Len(v2_tx.log) + 1
<1>3. l \in 1..Len(v2_tx'.log) /\ IsShareFrame(v2_tx'.log[l]) /\ v2_tx'.log[l].ref = share
  BY DEF AnswerAppended
<1> HIDE DEF l
<1> QED
  BY <1>1, <1>2, <1>3, Zenon DEF SharesSent

\* The answer to a mining.submit answers the oldest shares of the queue.
LEMMA AnswerSent ==
    ASSUME TypeOK, NEW k \in 0..Len(v2_submit_share_queue),
           NEW p \in 0..Len(v2_submit_share_queue), AnswerStep(k, p)
    PROVE  SharesSent' = SharesSent \cup {v2_submit_share_queue[i].share : i \in 1..k}
<1> USE ShareNumbers
<1> DEFINE Oldest == {v2_submit_share_queue[i].share : i \in 1..k}
<1>1. ASSUME NEW i \in 1..Len(v2_tx'.log)
      PROVE  \/ i \in 1..Len(v2_tx.log) /\ v2_tx'.log[i] = v2_tx.log[i]
             \/ v2_tx'.log[i].ref \in Oldest
  <2> HIDE DEF Oldest
  <2> DEFINE d == i - Len(v2_tx.log)
  <2>1. \/ i \in 1..Len(v2_tx.log) /\ v2_tx'.log[i] = v2_tx.log[i]
        \/ d \in 1..k /\ v2_tx'.log[i].ref = v2_submit_share_queue[d].share
    BY AnswerOrigins, Zenon
  <2> HIDE DEF d
  <2> QED
    BY <2>1, Zenon DEF Oldest
<1>2. ASSUME NEW i \in 1..Len(v2_tx.log)
      PROVE  i \in 1..Len(v2_tx'.log) /\ v2_tx'.log[i] = v2_tx.log[i]
  BY DEF AnswerStep
<1>3. ASSUME NEW share \in Oldest
      PROVE  \E i \in 1..Len(v2_tx'.log) : IsShareFrame(v2_tx'.log[i]) /\ v2_tx'.log[i].ref = share
  <2>1. PICK i \in 1..k : share = v2_submit_share_queue[i].share
    BY Zenon
  <2> DEFINE l == Len(v2_tx.log) + i
  <2>2. l \in 1..Len(v2_tx'.log) /\ IsShareFrame(v2_tx'.log[l]) /\ v2_tx'.log[l].ref = share
    <3>1. l \in 1..Len(v2_tx'.log)
      <4>1. k \in Nat /\ i \in Nat /\ 1 <= i /\ i <= k
        OBVIOUS
      <4>2. Len(v2_tx.log) \in Nat /\ Len(v2_tx'.log) = Len(v2_tx.log) + k
        BY Zenon DEF AnswerStep
      <4> QED
        BY <4>1, <4>2, SMTT(30)
    <3>2. IsShareFrame(v2_tx'.log[l]) /\ v2_tx'.log[l].ref = v2_submit_share_queue[i].share
      BY Zenon DEF AnswerStep
    <3> QED
      BY <2>1, <3>1, <3>2, Zenon
  <2> HIDE DEF l
  <2> QED
    BY <2>2, Zenon
<1> HIDE DEF Oldest
<1>4. ASSUME NEW share \in SharesSent' PROVE share \in SharesSent \cup Oldest
  BY <1>1, Zenon DEF SharesSent
<1>5. SharesSent \subseteq SharesSent'
  BY <1>2, Zenon DEF SharesSent
<1>6. Oldest \subseteq SharesSent'
  BY <1>3, Zenon DEF SharesSent
<1>7. SharesSent' = SharesSent \cup Oldest
  BY <1>4, <1>5, <1>6, Zenon
<1> QED
  BY <1>7, Zenon DEF Oldest

\* No step of a living session forgets a share.
LEMMA StepForgetsNoShare ==
    ASSUME TypeOK, TypeOK', Live, NoShareForgotten, ShareStep
    PROVE  NoShareForgotten'
<1> USE ShareNumbers
<1> DEFINE Known == SharesSent \cup SharesQueued \cup SharesLost
<1>1. 1..used["submit"] \subseteq Known
  BY Zenon DEF NoShareForgotten
<1> SUFFICES ASSUME Live' PROVE (1..used["submit"])' \subseteq Known'
  BY Zenon DEF NoShareForgotten
<1>2. lost \subseteq lost' => SharesLost \subseteq SharesLost'
  BY Zenon DEF SharesLost
<1>3. CASE Calm
  <2>1. SharesSent' = SharesSent /\ SharesQueued' = SharesQueued /\ used'["submit"] = used["submit"]
    BY <1>3, CalmSent, Zenon DEF Calm, SharesQueued
  <2> QED
    BY <1>1, <1>2, <1>3, <2>1, Zenon DEF Calm
<1>4. CASE SubmitStep
  <2>1. used'["submit"] = Share /\ 1..Share \subseteq 1..used["submit"] \cup {Share}
    BY <1>4 DEF SubmitStep, Share
  <2>2. SharesLost \subseteq SharesLost'
    BY <1>2, <1>4, Zenon DEF SubmitStep
  <2> SUFFICES Known \cup {Share} \subseteq Known'
    BY <1>1, <2>1, Zenon
  <2>3. CASE /\ v2_tx'.log = v2_tx.log
             /\ UNCHANGED v2_submit_share_queue
             /\ V2Frame("SubmitSharesError", Share, 0) \in lost'
    <3>1. SharesSent' = SharesSent /\ SharesQueued' = SharesQueued
      BY <2>3, Zenon DEF SharesSent, SharesQueued
    <3>2. Share \in SharesLost'
      BY <2>3 DEF SharesLost, IsShareFrame, ShareTypes, V2Frame
    <3> QED
      BY <2>2, <3>1, <3>2, Zenon
  <2>4. CASE /\ v2_tx'.log = v2_tx.log
             /\ \E item \in QueueItems :
                  /\ item.share = Share
                  /\ v2_submit_share_queue' = Append(v2_submit_share_queue, item)
    <3>1. PICK item \in QueueItems :
                  /\ item.share = Share
                  /\ v2_submit_share_queue' = Append(v2_submit_share_queue, item)
      BY <2>4, Zenon
    <3>2. v2_submit_share_queue \in Seq(QueueItems)
      BY TypeOKGroups, Zenon DEF QueueOK
    <3> DEFINE l == Len(v2_submit_share_queue) + 1
    <3>3. l \in 1..Len(v2_submit_share_queue') /\ v2_submit_share_queue'[l] = item
      BY <3>1, <3>2
    <3>4. ASSUME NEW i \in 1..Len(v2_submit_share_queue)
          PROVE  /\ i \in 1..Len(v2_submit_share_queue')
                 /\ v2_submit_share_queue'[i] = v2_submit_share_queue[i]
      BY <3>1, <3>2
    <3> HIDE DEF l
    <3>5. SharesSent' = SharesSent /\ SharesQueued \cup {Share} \subseteq SharesQueued'
      BY <2>4, <3>1, <3>3, <3>4, Zenon DEF SharesSent, SharesQueued
    <3> QED
      BY <2>2, <3>5, Zenon
  <2>5. CASE UNCHANGED v2_submit_share_queue /\ AnswerAppended(Share)
    <3>1. SharesSent' = SharesSent \cup {Share} /\ SharesQueued' = SharesQueued
      BY <2>5, AppendedSent, Zenon DEF SharesQueued
    <3> QED
      BY <2>2, <3>1, Zenon
  <2> QED
    BY <1>4, <2>3, <2>4, <2>5, Zenon DEF SubmitStep
<1>5. ASSUME NEW k \in 0..Len(v2_submit_share_queue),
             NEW p \in 0..Len(v2_submit_share_queue), AnswerStep(k, p)
      PROVE  (1..used["submit"])' \subseteq Known'
  <2> DEFINE Oldest == {v2_submit_share_queue[i].share : i \in 1..k}
  <2>1. SharesSent' = SharesSent \cup Oldest
    BY <1>5, AnswerSent, Zenon
  <2>2. k = p /\ used' = used /\ SharesLost' = SharesLost
    BY <1>5, Zenon DEF AnswerStep, SharesLost
  <2>3. ASSUME NEW i \in 1..Len(v2_submit_share_queue)
        PROVE  v2_submit_share_queue[i].share \in Oldest \cup SharesQueued'
    <3>1. CASE i <= k
      <4>1. i \in 1..k
        BY <3>1
      <4> QED
        BY <4>1, Zenon
    <3>2. CASE i > k
      <4> DEFINE j == i - p
      <4>1. j \in 1..Len(v2_submit_share_queue') /\ i = j + p
        BY <1>5, <2>2, <3>2, AnswerOrigins
      <4> HIDE DEF j
      <4>2. v2_submit_share_queue'[j] = v2_submit_share_queue[i]
        BY <1>5, <4>1, AnswerOrigins, Zenon
      <4> QED
        BY <4>1, <4>2, Zenon DEF SharesQueued
    <3> QED
      BY <3>1, <3>2
  <2> HIDE DEF Oldest
  <2>4. SharesQueued \subseteq Oldest \cup SharesQueued'
    BY <2>3, Zenon DEF SharesQueued
  <2> QED
    BY <1>1, <2>1, <2>2, <2>4, Zenon
<1> QED
  BY <1>3, <1>4, <1>5, Zenon DEF ShareStep

\* A share of a living session is never silently forgotten: it was answered,
\* or it waits in v2_submit_share_queue, or its rejection met a full v2_tx.
THEOREM NoneForgotten == Spec => []NoShareForgotten
<1>1. Init => NoShareForgotten
  BY DEF Init, NoShareForgotten, Inputs
<1>2. TypeOK /\ NoShareForgotten /\ [Next]_vars => NoShareForgotten'
  <2>1. ASSUME TypeOK, NoShareForgotten, Next
        PROVE  NoShareForgotten'
    BY <2>1, NextStep, StepForgetsNoShare, Zenon
  <2>2. ASSUME NoShareForgotten, UNCHANGED vars
        PROVE  NoShareForgotten'
    BY <2>2, Zenon DEF vars, history, NoShareForgotten, Live, SharesSent, SharesQueued, SharesLost
  <2> QED
    BY <2>1, <2>2, Zenon
<1> QED
  BY <1>1, <1>2, TypeCorrect, PTL DEF Spec

-----------------------------------------------------------------------------
(***************************************************************************)
(* The share queue of a translation session implements ShareFifo.          *)
(***************************************************************************)

\* The shares that wait, as ShareFifo sees them.
Pending == [i \in 1..Len(v2_submit_share_queue) |-> v2_submit_share_queue[i].share]

\* Pending is a sequence as long as v2_submit_share_queue.
LEMMA PendingLemma ==
    ASSUME TypeOK
    PROVE  /\ Pending \in Seq(Nat)
           /\ Len(Pending) = Len(v2_submit_share_queue)
           /\ \A i \in 1..Len(v2_submit_share_queue) :
                Pending[i] = v2_submit_share_queue[i].share
           /\ v2_submit_share_queue = <<>> <=> Pending = <<>>
<1> USE ShareNumbers
<1>1. Pending \in Seq(Nat) /\ Len(Pending) = Len(v2_submit_share_queue)
  BY DEF Pending
<1>2. v2_submit_share_queue \in Seq(QueueItems)
  BY TypeOKGroups, Zenon DEF QueueOK
<1>3. v2_submit_share_queue = <<>> <=> Pending = <<>>
  BY <1>1, <1>2
<1> QED
  BY <1>1, <1>3, Zenon DEF Pending

\* How a step that ends the session, having answered the n oldest shares and
\* dropped the m oldest from the queue, ends the life of the queue.
LEMMA EndFifo ==
    ASSUME Live, ~Live', used'["submit"] = used["submit"],
           NEW n \in 0..Len(Pending), NEW m \in n..Len(Pending),
           SharesSent' = SharesSent \cup {Pending[i] : i \in 1..n},
           Pending' = SubSeq(Pending, m + 1, Len(Pending))
    PROVE  Fifo!End
<1> DEFINE Ending(pending, pendingNext) ==
             \E x \in 0..Len(pending) :
                /\ SharesSent' = SharesSent \cup {pending[i] : i \in 1..x}
                /\ \E y \in x..Len(pending) : pendingNext = SubSeq(pending, y + 1, Len(pending))
<1>1. Ending(Pending, Pending')
  BY Zenon
<1>2. Live' = FALSE
  BY Zenon DEF Live
<1> QED
  BY Zenon, <1>1, <1>2 DEF Fifo!End, Fifo!Oldest, Fifo!After, Pending

\* Handling anything but a share is no step of the queue, or ends the session.
LEMMA CalmFifo ==
    ASSUME TypeOK, Live, Calm
    PROVE  [Fifo!Next]_Fifo!fifo
<1>1. /\ SharesSent' = SharesSent /\ UNCHANGED v2_submit_share_queue
      /\ used'["submit"] = used["submit"]
  BY CalmSent, Zenon DEF Calm
<1>2. CASE Live'
  BY <1>1, <1>2, Zenon DEF Fifo!fifo
<1>3. CASE ~Live'
  <2>1. Pending \in Seq(Nat) /\ UNCHANGED Pending
    BY <1>1, PendingLemma, Zenon DEF Pending
  <2>2. {Pending[i] : i \in 1..0} = {} /\ SubSeq(Pending, 0 + 1, Len(Pending)) = Pending
    BY <2>1
  <2>3. 0 \in 0..Len(Pending)
    BY <2>1
  <2>4. Fifo!End
    BY <1>1, <1>3, <2>1, <2>2, <2>3, EndFifo, Zenon
  <2> QED
    BY <2>4, Zenon DEF Fifo!Next
<1> QED
  BY <1>2, <1>3, Zenon

\* Handling a SubmitSharesStandard is a Submit of the queue.
LEMMA SubmitFifo ==
    ASSUME TypeOK, TypeOK', Live, SubmitStep
    PROVE  Fifo!Submit
<1>1. used'["submit"] = used["submit"] + 1 /\ Share = used["submit"] + 1
  BY Zenon DEF SubmitStep, Share
<1>2. Live' \in BOOLEAN
  BY Zenon DEF Live
<1>3. CASE v2_tx'.log = v2_tx.log /\ UNCHANGED v2_submit_share_queue
  <2>1. SharesSent' = SharesSent /\ UNCHANGED Pending
    BY <1>3, Zenon DEF SharesSent, Pending
  <2>2. CASE ~Live'
    BY <1>1, <1>2, <2>1, <2>2, Zenon DEF Fifo!Submit, Pending
  <2>3. CASE v2_submit_share_queue = <<>>
    <3>1. Fifo!AnswerAtOnce
      BY <2>1, <2>3, PendingLemma, Zenon DEF Fifo!AnswerAtOnce, Pending
    <3> QED
      BY <1>1, <1>2, <3>1, Zenon DEF Fifo!Submit
  <2>4. CASE AnswerAppended(Share)
    BY <1>3, <2>4, ShareNumbers DEF AnswerAppended
  <2>5. CASE \E item \in QueueItems : v2_submit_share_queue' = Append(v2_submit_share_queue, item)
    <3>1. v2_submit_share_queue \in Seq(QueueItems)
      BY TypeOKGroups, Zenon DEF QueueOK
    <3> QED
      BY <1>3, <2>5, <3>1
  <2> QED
    BY <2>2, <2>3, <2>4, <2>5, Zenon DEF SubmitStep
<1>4. CASE /\ v2_tx'.log = v2_tx.log
           /\ \E item \in QueueItems :
                /\ item.share = Share
                /\ v2_submit_share_queue' = Append(v2_submit_share_queue, item)
  <2>1. PICK item \in QueueItems :
                /\ item.share = Share
                /\ v2_submit_share_queue' = Append(v2_submit_share_queue, item)
    BY <1>4, Zenon
  <2>2. v2_submit_share_queue \in Seq(QueueItems) /\ Len(v2_submit_share_queue) \in Nat
    BY TypeOKGroups DEF QueueOK
  <2> DEFINE l == Len(v2_submit_share_queue) + 1
  <2>3. /\ Len(v2_submit_share_queue') = l
        /\ v2_submit_share_queue'[l].share = Share
        /\ \A i \in 1..Len(v2_submit_share_queue) :
             v2_submit_share_queue'[i] = v2_submit_share_queue[i]
    BY <2>1, <2>2
  <2>4. /\ Pending \in Seq(Nat) /\ Len(Pending) = Len(v2_submit_share_queue)
        /\ \A i \in 1..Len(v2_submit_share_queue) :
                Pending[i] = v2_submit_share_queue[i].share
    BY PendingLemma, Zenon
  <2>5. Pending' = Append(Pending, Share)
    <3>1. Pending' = [i \in 1..l |-> v2_submit_share_queue'[i].share]
      BY <2>3, Zenon DEF Pending
    <3>2. /\ Append(Pending, Share) \in Seq(Nat) /\ Len(Append(Pending, Share)) = l
          /\ Append(Pending, Share)[l] = Share
          /\ \A i \in 1..Len(v2_submit_share_queue) : Append(Pending, Share)[i] = Pending[i]
      BY <1>1, <2>2, <2>4, ShareNumbers
    <3>3. ASSUME NEW i \in 1..l
          PROVE  v2_submit_share_queue'[i].share = Append(Pending, Share)[i]
      <4>1. i = l \/ i \in 1..Len(v2_submit_share_queue)
        BY <2>2
      <4> QED
        BY <2>3, <2>4, <3>2, <4>1, Zenon
    <3>4. l \in Nat
      BY <2>2
    <3> DEFINE longer == Append(Pending, Share)
    <3> HIDE DEF l, longer
    <3>5. Pending' = [i \in 1..l |-> longer[i]]
      BY <3>1, <3>3, Zenon DEF longer
    <3>6. [i \in 1..l |-> longer[i]] = longer
      <4>1. longer \in Seq(Nat) /\ Len(longer) = l
        BY <3>2, Zenon DEF longer
      <4>2. \A i \in 1..l : longer[i] \in Nat
        BY <4>1
      <4>3. [i \in 1..l |-> longer[i]] \in Seq(Nat) /\ Len([i \in 1..l |-> longer[i]]) = l
        BY <3>4, <4>2
      <4> QED
        BY <4>1, <4>3
    <3> QED
      BY <3>5, <3>6, Zenon DEF longer
  <2>6. SharesSent' = SharesSent
    BY <1>4, Zenon DEF SharesSent
  <2>7. Fifo!Enqueue
    BY <1>1, <2>5, <2>6, Zenon DEF Fifo!Enqueue, Pending
  <2> QED
    BY <1>1, <1>2, <2>7, Zenon DEF Fifo!Submit
<1>5. CASE /\ v2_submit_share_queue = <<>>
           /\ UNCHANGED v2_submit_share_queue
           /\ AnswerAppended(Share)
  <2>1. SharesSent' = SharesSent \cup {Share} /\ UNCHANGED Pending
    BY <1>5, AppendedSent, Zenon DEF Pending
  <2>2. Fifo!AnswerAtOnce
    BY <1>1, <1>5, <2>1, PendingLemma, Zenon DEF Fifo!AnswerAtOnce, Pending
  <2> QED
    BY <1>1, <1>2, <2>2, Zenon DEF Fifo!Submit
<1> QED
  BY <1>3, <1>4, <1>5, Zenon DEF SubmitStep

\* Handling the answer to a mining.submit is an Answer of the queue, or ends
\* the session.
LEMMA AnswerFifo ==
    ASSUME TypeOK, Live, NEW k \in 0..Len(v2_submit_share_queue),
           NEW p \in 0..Len(v2_submit_share_queue), AnswerStep(k, p)
    PROVE  Fifo!Next
<1> USE ShareNumbers
<1>1. /\ Pending \in Seq(Nat) /\ Len(Pending) = Len(v2_submit_share_queue)
      /\ \A i \in 1..Len(v2_submit_share_queue) : Pending[i] = v2_submit_share_queue[i].share
  BY PendingLemma, Zenon
<1>2. SharesSent' = SharesSent \cup {Pending[i] : i \in 1..k}
  <2>1. \A i \in 1..k : Pending[i] = v2_submit_share_queue[i].share
    BY <1>1
  <2>2. {Pending[i] : i \in 1..k} = {v2_submit_share_queue[i].share : i \in 1..k}
    BY <2>1, Zenon
  <2> QED
    BY <2>2, AnswerSent, Zenon
<1>3. Pending' = SubSeq(Pending, p + 1, Len(Pending))
  <2> DEFINE l == Len(v2_submit_share_queue) - p
             after == SubSeq(Pending, p + 1, Len(Pending))
  <2>1. /\ Len(v2_submit_share_queue') = l /\ l \in Nat
        /\ \A j \in 1..l : /\ j + p \in 1..Len(v2_submit_share_queue)
                            /\ v2_submit_share_queue'[j] = v2_submit_share_queue[j + p]
    BY AnswerOrigins
  <2>2. after \in Seq(Nat) /\ Len(after) = l /\ \A j \in 1..l : after[j] = Pending[j + p]
    BY <1>1
  <2>3. ASSUME NEW j \in 1..l PROVE v2_submit_share_queue'[j].share = after[j]
    BY <1>1, <2>1, <2>2, Zenon
  <2>4. Pending' = [j \in 1..l |-> v2_submit_share_queue'[j].share]
    BY <2>1, Zenon DEF Pending
  <2> HIDE DEF l, after
  <2>5. Pending' = [j \in 1..l |-> after[j]]
    BY <2>3, <2>4, Zenon
  <2>6. [j \in 1..l |-> after[j]] = after
    <3>1. \A j \in 1..l : after[j] \in Nat
      BY <2>2
    <3>2. [j \in 1..l |-> after[j]] \in Seq(Nat) /\ Len([j \in 1..l |-> after[j]]) = l
      BY <2>1, <3>1
    <3> QED
      BY <2>2, <3>2
  <2> QED
    BY <2>5, <2>6, Zenon DEF after
<1>4. k <= p /\ used' = used /\ (Live' => k = p /\ p > 0)
  BY Zenon DEF AnswerStep
<1>5. CASE ~Live'
  <2>1. k \in 0..Len(Pending) /\ p \in k..Len(Pending)
    BY <1>1, <1>4
  <2>2. Fifo!End
    BY <1>2, <1>3, <1>4, <1>5, <2>1, EndFifo, Zenon
  <2> QED
    BY <2>2, Zenon DEF Fifo!Next
<1>6. CASE Live'
  <2>1. k \in 1..Len(Pending) /\ k = p
    BY <1>1, <1>4, <1>6
  <2>2. \E n \in 1..Len(Pending) :
          /\ SharesSent' = SharesSent \cup {Pending[i] : i \in 1..n}
          /\ Pending' = SubSeq(Pending, n + 1, Len(Pending))
    BY <1>2, <1>3, <2>1, Zenon
  <2>3. UNCHANGED <<Live, used["submit"]>>
    BY <1>4, <1>6, Zenon DEF Live
  <2>4. Fifo!Answer
    BY Zenon, <2>2, <2>3 DEF Fifo!Answer, Fifo!Oldest, Fifo!After, Pending
  <2> QED
    BY <2>4, Zenon DEF Fifo!Next
<1> QED
  BY <1>5, <1>6, Zenon

\* The proxy keeps the promise ShareFifo makes to the miner: only the oldest
\* waiting shares are answered, at any size of the queues and however many
\* shares, answers and rejections there are.
THEOREM FifoImplemented == Spec => ImplementsFifo
<1>1. Init => Fifo!Init
  <2> SUFFICES ASSUME Init PROVE Fifo!Init
    BY Zenon
  <2>1. TypeOK /\ v2_submit_share_queue = <<>>
    BY InitTypeOK, Zenon DEF Init
  <2>2. Pending = <<>>
    BY <2>1, PendingLemma, Zenon
  <2>3. used["submit"] = 0 /\ Live = TRUE
    BY Zenon DEF Init, Inputs, Live
  <2>4. SharesSent = {}
    BY DEF Init, EmptyChannel, SharesSent
  <2> QED
    BY <2>2, <2>3, <2>4, Zenon DEF Fifo!Init, Pending
<1>2. TypeOK /\ TypeOK' /\ [Next]_vars => [Fifo!Next]_Fifo!fifo
  <2>1. ASSUME TypeOK, TypeOK', Next
        PROVE  [Fifo!Next]_Fifo!fifo
    <3>1. Live /\ ShareStep
      BY <2>1, NextStep, Zenon
    <3>2. CASE Calm
      BY <2>1, <3>1, <3>2, CalmFifo, Zenon
    <3>3. CASE SubmitStep
      BY <2>1, <3>1, <3>3, SubmitFifo, Zenon DEF Fifo!Next
    <3>4. CASE \E k, p \in 0..Len(v2_submit_share_queue) : AnswerStep(k, p)
      BY <2>1, <3>1, <3>4, AnswerFifo, Zenon
    <3> QED
      BY <3>1, <3>2, <3>3, <3>4, Zenon DEF ShareStep
  <2>2. ASSUME UNCHANGED vars
        PROVE  UNCHANGED Fifo!fifo
    BY <2>2, Zenon DEF vars, Fifo!fifo, Live, SharesSent
  <2> QED
    BY <2>1, <2>2, Zenon
<1> QED
  BY <1>1, <1>2, TypeCorrect, PTL DEF Spec, Fifo!Spec, ImplementsFifo

-----------------------------------------------------------------------------
(***************************************************************************)
(* The share queue never gets stuck: the share at its front waits for an   *)
(* answer that the server still owes.                                      *)
(*                                                                         *)
(* QueueFrontAwaited is not inductive: what is at the front was once in    *)
(* the middle.  Every forwarded share in the queue has an id of its own,   *)
(* whose last request in the log is the mining.submit of a share and whose *)
(* handler is still registered.  Answers to other requests therefore leave *)
(* the id alone, and the answer to a share removes only that of the front. *)
(***************************************************************************)

\* Is the l-th frame the last request with this id, and a mining.submit?
Latest(log, id, l) ==
    /\ log[l].id = id
    /\ log[l].method = "submit"
    /\ \A j \in (l + 1)..Len(log) : log[j].method = "pong" \/ log[j].id # id

\* Ids of the shares whose answers are outstanding.
AwaitedIds ==
    {id \in DOMAIN v1_req_map : \E l \in 1..Len(v1_tx.log) : Latest(v1_tx.log, id, l)}

QueueReady(queue, ids) ==
    /\ queue # <<>> => queue[1].kind = "mapping"
    /\ \A i \in 1..Len(queue) : queue[i].kind = "mapping" => queue[i].v1 \in ids
    /\ \A i, j \in 1..Len(queue) :
          (i # j /\ queue[i].kind = "mapping" /\ queue[j].kind = "mapping")
             => queue[i].v1 # queue[j].v1

QueueInv == Live => QueueReady(v2_submit_share_queue, AwaitedIds)

-----------------------------------------------------------------------------
(* What the handlers do to the queue.                                       *)

\* Nothing, while no answer is lost.
LEMMA ReadySame ==
    ASSUME NEW queue \in Seq(QueueItems), NEW ids, NEW after,
           QueueReady(queue, ids), ids \subseteq after
    PROVE  QueueReady(queue, after)
  BY Zenon DEF QueueReady

\* A rejection is queued behind another share.
LEMMA ReadyError ==
    ASSUME NEW queue \in Seq(QueueItems), NEW ids, NEW after, NEW item \in QueueItems,
           QueueReady(queue, ids), ids \subseteq after,
           queue # <<>>, item.kind = "error"
    PROVE  QueueReady(Append(queue, item), after)
<1> DEFINE queued == Append(queue, item)
<1>1. /\ Len(queue) \in Nat /\ Len(queue) >= 1
      /\ Len(queued) = Len(queue) + 1
      /\ \A i \in 1..Len(queue) : queued[i] = queue[i]
      /\ queued[Len(queue) + 1] = item
  OBVIOUS
<1> HIDE DEF queued
<1>2. \A i \in 1..Len(queued) : i \in 1..Len(queue) \/ i = Len(queue) + 1
  BY <1>1
<1>3. \A i \in 1..Len(queued) :
         queued[i].kind = "mapping" => i \in 1..Len(queue) /\ queued[i] = queue[i]
  BY <1>1, <1>2, Zenon
<1>4. queued[1].kind = "mapping"
  BY <1>1 DEF QueueReady
<1>5. QueueReady(queued, after)
  BY <1>3, <1>4 DEF QueueReady
<1>. QED
  BY <1>5, Zenon DEF queued

\* A forwarded share is queued under an id nobody waits for.
LEMMA ReadyMapping ==
    ASSUME NEW queue \in Seq(QueueItems), NEW ids, NEW after, NEW item \in QueueItems,
           QueueReady(queue, ids), ids \subseteq after,
           item.kind = "mapping", item.v1 \in after, item.v1 \notin ids
    PROVE  QueueReady(Append(queue, item), after)
<1> DEFINE queued == Append(queue, item)
<1>1. /\ Len(queue) \in Nat
      /\ Len(queued) = Len(queue) + 1
      /\ \A i \in 1..Len(queue) : queued[i] = queue[i]
      /\ queued[Len(queue) + 1] = item
      /\ queue = <<>> \/ Len(queue) >= 1
  OBVIOUS
<1>2. queue = <<>> => Len(queue) = 0
  OBVIOUS
<1> HIDE DEF queued
<1>3. \A i \in 1..Len(queued) : i \in 1..Len(queue) \/ i = Len(queue) + 1
  BY <1>1
<1>4. queued[1].kind = "mapping"
  <2>1. CASE queue = <<>>
    BY <1>1, <1>2, <2>1
  <2>2. CASE queue # <<>>
    BY <1>1, <2>2 DEF QueueReady
  <2>. QED
    BY <2>1, <2>2, Zenon
<1>5. \A i \in 1..Len(queued) : queued[i].kind = "mapping" => queued[i].v1 \in after
  BY <1>1, <1>3, Zenon DEF QueueReady
<1>6. ASSUME NEW i \in 1..Len(queued), NEW j \in 1..Len(queued),
             i # j, queued[i].kind = "mapping", queued[j].kind = "mapping"
      PROVE  queued[i].v1 # queued[j].v1
  <2>1. CASE i \in 1..Len(queue) /\ j \in 1..Len(queue)
    BY <1>1, <1>6, <2>1, Zenon DEF QueueReady
  <2>2. CASE i \in 1..Len(queue) /\ j = Len(queue) + 1
    BY <1>1, <1>6, <2>2, Zenon DEF QueueReady
  <2>3. CASE i = Len(queue) + 1 /\ j \in 1..Len(queue)
    BY <1>1, <1>6, <2>3, Zenon DEF QueueReady
  <2>. QED
    BY <1>3, <1>6, <2>1, <2>2, <2>3, Zenon
<1>7. QueueReady(queued, after)
  BY <1>4, <1>5, <1>6, Zenon DEF QueueReady
<1>. QED
  BY <1>7, Zenon DEF queued

\* An answered share leaves the queue with the rejections right behind it.
LEMMA ReadyAnswered ==
    ASSUME NEW queue \in Seq(QueueItems), NEW ids, NEW after,
           QueueReady(queue, ids), queue # <<>>,
           ids \ {queue[1].v1} \subseteq after,
           NEW m \in 0..Len(Tail(queue)), LeadingErrors(Tail(queue), m)
    PROVE  QueueReady(SubSeq(Tail(queue), 1 + m, Len(Tail(queue))), after)
<1> DEFINE rest == Tail(queue)
           left == SubSeq(rest, 1 + m, Len(rest))
<1>1. /\ rest \in Seq(QueueItems) /\ Len(rest) \in Nat /\ Len(queue) = Len(rest) + 1
      /\ \A i \in 1..Len(rest) : rest[i] = queue[i + 1]
  OBVIOUS
<1>2. m \in Nat /\ m <= Len(rest)
  BY <1>1
<1> HIDE DEF rest
<1>3. /\ left \in Seq(QueueItems) /\ Len(left) = Len(rest) - m
      /\ \A i \in 1..Len(left) : left[i] = rest[m + i]
  BY <1>1, <1>2, SMTT(30)
<1> HIDE DEF left
<1>4. \A i \in 1..Len(left) : m + i \in 1..Len(rest) /\ m + i + 1 \in 1..Len(queue)
  BY <1>1, <1>2, <1>3
<1>5. \A i \in 1..Len(left) : left[i] = queue[m + i + 1]
  BY <1>1, <1>3, <1>4, Zenon
<1>6. left # <<>> => left[1].kind = "mapping"
  <2> SUFFICES ASSUME left # <<>>
               PROVE  left[1].kind = "mapping"
    BY Zenon
  <2>1. Len(left) >= 1 /\ m < Len(rest)
    BY <1>1, <1>2, <1>3
  <2>2. rest[m + 1].kind # "error"
    BY <2>1, Zenon DEF LeadingErrors, rest
  <2>3. left[1] = rest[m + 1] /\ left[1] \in QueueItems
    BY <1>2, <1>3, <2>1
  <2>. QED
    BY <2>2, <2>3, Zenon DEF QueueItems
<1>7. queue[1].kind = "mapping" /\ 1 \in 1..Len(queue)
  BY <1>1 DEF QueueReady
<1>8. ASSUME NEW i \in 1..Len(left), left[i].kind = "mapping"
      PROVE  left[i].v1 \in after
  <2>1. m + i + 1 \in 1..Len(queue) /\ m + i + 1 # 1 /\ left[i] = queue[m + i + 1]
    BY <1>2, <1>4, <1>5
  <2>2. left[i].v1 \in ids /\ left[i].v1 # queue[1].v1
    BY <1>7, <1>8, <2>1, Zenon DEF QueueReady
  <2>. QED
    BY <2>2, Zenon
<1>9. ASSUME NEW i \in 1..Len(left), NEW j \in 1..Len(left),
             i # j, left[i].kind = "mapping", left[j].kind = "mapping"
      PROVE  left[i].v1 # left[j].v1
  <2>1. m + i + 1 # m + j + 1
    BY <1>2, <1>9
  <2>2. m + i + 1 \in 1..Len(queue) /\ m + j + 1 \in 1..Len(queue)
    BY <1>4, Zenon
  <2>3. queue[m + i + 1].kind = "mapping" /\ queue[m + j + 1].kind = "mapping"
    BY <1>5, <1>9, Zenon
  <2>4. queue[m + i + 1].v1 # queue[m + j + 1].v1
    BY <2>1, <2>2, <2>3, Zenon DEF QueueReady
  <2>. QED
    BY <1>5, <2>4, Zenon
<1>10. QueueReady(left, after)
  BY <1>6, <1>8, <1>9, Zenon DEF QueueReady
<1>. QED
  BY <1>10, Zenon DEF left, rest

-----------------------------------------------------------------------------
(* What the handlers do to the ids that are waited for.                     *)

\* Frames with other ids, and pongs, do not make a request less recent.
LEMMA LatestKept ==
    ASSUME NEW log \in Seq(V1Frames), NEW fs \in Seq(V1Frames), NEW id,
           NEW l \in 1..Len(log), Latest(log, id, l),
           \A i \in 1..Len(fs) : fs[i].method = "pong" \/ fs[i].id # id
    PROVE  l \in 1..Len(log \o fs) /\ Latest(log \o fs, id, l)
<1> DEFINE both == log \o fs
<1>1. /\ Len(log) \in Nat /\ Len(fs) \in Nat /\ Len(both) = Len(log) + Len(fs)
      /\ \A i \in 1..Len(log) : both[i] = log[i]
      /\ \A i \in (Len(log) + 1)..Len(both) :
            i - Len(log) \in 1..Len(fs) /\ both[i] = fs[i - Len(log)]
  OBVIOUS
<1> HIDE DEF both
<1>2. ASSUME NEW j \in (l + 1)..Len(both)
      PROVE  both[j].method = "pong" \/ both[j].id # id
  <2>1. CASE j <= Len(log)
    <3>1. j \in (l + 1)..Len(log) /\ j \in 1..Len(log)
      BY <1>1, <2>1
    <3>. QED
      BY <1>1, <3>1, Zenon DEF Latest
  <2>2. CASE j > Len(log)
    <3>1. j \in (Len(log) + 1)..Len(both)
      BY <1>1, <2>2
    <3>. QED
      BY <1>1, <3>1, Zenon
  <2>. QED
    BY <1>1, <2>1, <2>2
<1>3. l \in 1..Len(both) /\ both[l] = log[l]
  BY <1>1
<1>4. l \in 1..Len(both) /\ Latest(both, id, l)
  BY <1>2, <1>3, Zenon DEF Latest
<1>. QED
  BY <1>4, Zenon DEF both

\* Registered and sent requests have ids nobody waits for.
LEMMA SubmitAwaits ==
    ASSUME UpstreamOK, NEW requests \in Seq(V1Frames), NEW k \in 0..Len(requests),
           ~IdCollision(requests, k), SubmitV1(requests, k)
    PROVE  /\ AwaitedIds \subseteq AwaitedIds'
           /\ v1_tx'.log = v1_tx.log \o [i \in 1..k |->
                              [requests[i] EXCEPT !.id = NextId(v1_req_id, i - 1)]]
<1> DEFINE fs == [i \in 1..k |-> [requests[i] EXCEPT !.id = NextId(v1_req_id, i - 1)]]
<1>1. k \in Nat /\ k <= Registered(requests, k) /\ Registered(requests, k) \in Nat
  BY DEF Registered
<1>2. \A i \in Nat : NextId(v1_req_id, i) \in Nat
  BY IdsLemma, NextIdLemma, Zenon DEF UpstreamOK
<1>3. ASSUME NEW i \in 1..k
      PROVE  /\ fs[i] \in V1Frames
             /\ fs[i].id = NextId(v1_req_id, i - 1)
             /\ fs[i].id \in IdsTaken(requests, k)
  <2>1. requests[i] \in V1Frames /\ i - 1 \in Nat /\ i - 1 \in 0..(Registered(requests, k) - 1)
    BY <1>1
  <2>2. fs[i] \in V1Frames /\ fs[i].id = NextId(v1_req_id, i - 1)
    BY <1>2, <2>1, Zenon DEF V1Frames
  <2>. QED
    BY <2>1, <2>2, Zenon DEF IdsTaken
<1>4. fs \in Seq(V1Frames) /\ Len(fs) = k
  <2>1. \A i \in 1..k : fs[i] \in V1Frames
    BY <1>3, Zenon
  <2>. QED
    BY <1>1, <2>1
<1>5. v1_tx' = Accept(v1_tx, fs)
  BY Zenon DEF SubmitV1
<1> HIDE DEF fs
<1>6. v1_tx'.log = v1_tx.log \o fs
  BY <1>4, <1>5, AcceptLemma, Zenon DEF UpstreamOK
<1>7. v1_tx.log \in Seq(V1Frames)
  BY Zenon DEF UpstreamOK, Channel
<1>8. DOMAIN v1_req_map \subseteq DOMAIN v1_req_map'
  BY Zenon DEF SubmitV1
<1>9. ASSUME NEW id \in AwaitedIds
      PROVE  id \in AwaitedIds'
  <2>1. PICK l \in 1..Len(v1_tx.log) : Latest(v1_tx.log, id, l)
    BY Zenon DEF AwaitedIds
  <2>2. id \in DOMAIN v1_req_map /\ id \notin IdsTaken(requests, k)
    BY Zenon DEF AwaitedIds, IdCollision
  <2>3. \A i \in 1..Len(fs) : fs[i].method = "pong" \/ fs[i].id # id
    BY <1>3, <1>4, <2>2, Zenon
  <2>4. l \in 1..Len(v1_tx'.log) /\ Latest(v1_tx'.log, id, l)
    BY <1>4, <1>6, <1>7, <2>1, <2>3, LatestKept, Zenon
  <2>. QED
    BY <1>8, <2>2, <2>4, Zenon DEF AwaitedIds
<1>. QED
  BY <1>6, <1>9, Zenon DEF fs

\* An answer is about the last request with its id: if that is not a
\* mining.submit, no share waited for it.
LEMMA AnsweredAwaits ==
    ASSUME UpstreamOK, NEW i \in 1..Len(v1_tx.log), NEW method \in Methods,
           Answered(i, method)
    PROVE  /\ AwaitedIds \ {v1_tx.log[i].id} \subseteq AwaitedIds'
           /\ method # "submit" => AwaitedIds \subseteq AwaitedIds'
<1>1. i \in Nat /\ Len(v1_tx.log) \in Nat
  BY DEF UpstreamOK, Channel
<1>2. v1_tx'.log = v1_tx.log
  BY <1>1, ChannelLemma, Zenon DEF Answered, UpstreamOK
<1>3. DOMAIN v1_req_map' = DOMAIN v1_req_map \ {v1_tx.log[i].id}
  BY Zenon DEF Answered, Without
<1>4. AwaitedIds \ {v1_tx.log[i].id} \subseteq AwaitedIds'
  BY <1>2, <1>3, Zenon DEF AwaitedIds
<1>5. ASSUME method # "submit"
      PROVE  v1_tx.log[i].id \notin AwaitedIds
  <2> SUFFICES ASSUME NEW l \in 1..Len(v1_tx.log), Latest(v1_tx.log, v1_tx.log[i].id, l)
               PROVE  FALSE
    BY Zenon DEF AwaitedIds
  <2>1. v1_tx.log[i].method = method /\ method # "pong"
    BY Zenon DEF Answered, Methods
  <2>2. v1_tx.log[l].method = "submit" /\ v1_tx.log[l].id = v1_tx.log[i].id
    BY Zenon DEF Latest
  <2>3. CASE l = i
    BY <1>5, <2>1, <2>2, <2>3, Zenon
  <2>4. CASE l < i
    <3>1. i \in (l + 1)..Len(v1_tx.log)
      BY <1>1, <2>4
    <3>. QED
      BY <2>1, <3>1, Zenon DEF Latest
  <2>5. CASE l > i
    <3>1. l \in (i + 1)..Len(v1_tx.log)
      BY <1>1, <2>5
    <3>. QED
      BY <2>2, <3>1, Zenon DEF Answered
  <2>. QED
    BY <1>1, <2>3, <2>4, <2>5
<1>. QED
  BY <1>4, <1>5, Zenon

-----------------------------------------------------------------------------
(* The handlers.                                                            *)

\* The queue is left alone, and so is every answer it waits for.
QueueStays ==
    Live' => /\ v2_submit_share_queue' = v2_submit_share_queue
             /\ AwaitedIds \subseteq AwaitedIds'

\* Such a step keeps the queue ready.
LEMMA StaysReady ==
    ASSUME QueueOK, Live, QueueInv, QueueStays
    PROVE  QueueInv'
<1> SUFFICES ASSUME Live'
             PROVE  QueueReady(v2_submit_share_queue', AwaitedIds')
  BY Zenon DEF QueueInv
<1>1. QueueReady(v2_submit_share_queue, AwaitedIds')
  BY ReadySame, Zenon DEF QueueInv, QueueStays, QueueOK
<1>. QED
  BY <1>1, Zenon DEF QueueStays

\* A step that does nothing upstream is one.
LEMMA UpstreamStays ==
    ASSUME UNCHANGED <<v1_req_map, v2_submit_share_queue>>, v1_tx'.log = v1_tx.log
    PROVE  QueueStays
  BY Zenon DEF QueueStays, AwaitedIds

\* Requests for the connection and the channel.
LEMMA ClientStays ==
    ASSUME TypeOK, handle_setup_connection \/ handle_open_standard_mining_channel
    PROVE  QueueStays
<1>0. UpstreamOK
  BY TypeOKGroups, Zenon
<1> SUFFICES ASSUME Live'
             PROVE  /\ v2_submit_share_queue' = v2_submit_share_queue
                    /\ AwaitedIds \subseteq AwaitedIds'
  BY Zenon DEF QueueStays
<1>1. CASE handle_setup_connection
  <2> DEFINE configure == <<V1Request("configure")>>
  <2>1. configure \in Seq(V1Frames) /\ Len(configure) = 1
    BY V1RequestLemma DEF Methods
  <2>2. PICK k \in Outcomes(v1_tx, 1) : ~IdCollision(configure, k) /\ SubmitV1(configure, k)
    BY <1>1, Zenon DEF handle_setup_connection, Live
  <2>3. k \in 0..Len(configure)
    BY <2>1, OutcomesLemma, Zenon
  <2> HIDE DEF configure
  <2>4. AwaitedIds \subseteq AwaitedIds'
    BY <1>0, <2>1, <2>2, <2>3, SubmitAwaits, Zenon
  <2>. QED
    BY <1>1, <2>4, Zenon DEF handle_setup_connection
<1>2. CASE handle_open_standard_mining_channel
  <2>1. OpenRequests \in Seq(V1Frames) /\ Len(OpenRequests) \in Nat
    BY OpenRequestsLemma
  <2>2. \/ UNCHANGED upstream
        \/ \E k \in Outcomes(v1_tx, Len(OpenRequests)) :
              ~IdCollision(OpenRequests, k) /\ SubmitV1(OpenRequests, k)
    BY <1>2, Zenon DEF handle_open_standard_mining_channel, Live
  <2>3. CASE UNCHANGED upstream
    BY <1>2, <2>3, UpstreamStays, Zenon DEF handle_open_standard_mining_channel, upstream, QueueStays
  <2>4. ASSUME NEW k \in Outcomes(v1_tx, Len(OpenRequests)),
               ~IdCollision(OpenRequests, k), SubmitV1(OpenRequests, k)
        PROVE  AwaitedIds \subseteq AwaitedIds'
    <3>1. k \in 0..Len(OpenRequests)
      BY <2>1, OutcomesLemma, Zenon
    <3>. QED
      BY <1>0, <2>1, <2>4, <3>1, SubmitAwaits, Zenon
  <2>. QED
    BY <1>2, <2>2, <2>3, <2>4, Zenon DEF handle_open_standard_mining_channel
<1>. QED
  BY <1>1, <1>2, Zenon

\* reject_shares leaves the front of the queue alone.
LEMMA RejectReady ==
    ASSUME QueueOK, QueueReady(v2_submit_share_queue, AwaitedIds), NEW share \in Nat,
           RejectLocally(share), AwaitedIds \subseteq AwaitedIds'
    PROVE  QueueReady(v2_submit_share_queue', AwaitedIds')
<1>1. CASE v2_submit_share_queue = <<>>
  <2>1. UNCHANGED v2_submit_share_queue
    BY <1>1, Zenon DEF RejectLocally
  <2>2. QueueReady(v2_submit_share_queue, AwaitedIds')
    BY ReadySame, Zenon DEF QueueOK
  <2>. QED
    BY <2>1, <2>2, Zenon
<1>2. CASE v2_submit_share_queue # <<>>
  <2>1. v2_submit_share_queue' = Append(v2_submit_share_queue, QueuedError(share))
    BY <1>2, Zenon DEF RejectLocally
  <2>2. QueuedError(share) \in QueueItems /\ QueuedError(share).kind = "error"
    BY Zenon DEF QueuedError, QueueItems
  <2>3. QueueReady(Append(v2_submit_share_queue, QueuedError(share)), AwaitedIds')
    BY <1>2, <2>2, ReadyError, Zenon DEF QueueOK
  <2>. QED
    BY <2>1, <2>3, Zenon
<1>. QED
  BY <1>1, <1>2, Zenon

\* A share is forwarded under a fresh id, or rejected.
LEMMA SubmitReady ==
    ASSUME TypeOK, Live, QueueInv, NEW channel_ok \in BOOLEAN, NEW job \in Ids,
           handle_submit_shares_standard(channel_ok, job)
    PROVE  QueueInv'
<1>0. UpstreamOK /\ QueueOK /\ UsedOK /\ JobsOK /\ NegotiatedOK
  BY TypeOKGroups, Zenon
<1>1. QueueReady(v2_submit_share_queue, AwaitedIds)
  BY Zenon DEF QueueInv
<1>2. Nth("submit") \in Nat
  BY <1>0 DEF UsedOK, Inputs, Nth
<1> SUFFICES ASSUME Live'
             PROVE  QueueReady(v2_submit_share_queue', AwaitedIds')
  BY Zenon DEF QueueInv
<1> DEFINE submit == <<SubmitRequest(job)>>
<1>3. \/ RejectLocally(Nth("submit")) /\ UNCHANGED upstream
      \/ /\ job \in DOMAIN v2_to_v1_job_map
         /\ \E k \in Outcomes(v1_tx, 1) :
              /\ ~IdCollision(submit, k)
              /\ SubmitV1(submit, k)
              /\ \/ /\ k = 1
                    /\ v2_submit_share_queue' =
                         Append(v2_submit_share_queue, Mapping(v1_req_id, Nth("submit")))
                 \/ RejectLocally(Nth("submit"))
  BY Zenon DEF handle_submit_shares_standard, Live
<1>4. CASE RejectLocally(Nth("submit")) /\ UNCHANGED upstream
  <2>1. AwaitedIds \subseteq AwaitedIds'
    BY <1>4, Zenon DEF upstream, AwaitedIds
  <2>. QED
    BY <1>0, <1>1, <1>2, <1>4, <2>1, RejectReady, Zenon
<1>5. ASSUME job \in DOMAIN v2_to_v1_job_map, NEW k \in Outcomes(v1_tx, 1),
             ~IdCollision(submit, k), SubmitV1(submit, k),
             \/ /\ k = 1
                /\ v2_submit_share_queue' =
                     Append(v2_submit_share_queue, Mapping(v1_req_id, Nth("submit")))
             \/ RejectLocally(Nth("submit"))
      PROVE  QueueReady(v2_submit_share_queue', AwaitedIds')
  <2>1. submit \in Seq(V1Frames) /\ Len(submit) = 1 /\ submit[1].method = "submit"
    <3>1. v2_to_v1_job_map[job].src \in Nat /\ v1_extra_nonce2_size \in Nat
      BY <1>0, <1>5, Zenon DEF JobsOK, JobMapOK, Templates, NegotiatedOK
    <3>2. SubmitRequest(job) \in V1Frames
      BY <1>2, <3>1, SubmitFrameLemma, Zenon DEF SubmitRequest
    <3>3. SubmitRequest(job).method = "submit"
      BY Zenon DEF SubmitRequest
    <3>. QED
      BY <3>2, <3>3
  <2> HIDE DEF submit
  <2>2. k \in 0..Len(submit)
    BY <2>1, OutcomesLemma, Zenon
  <2>3. /\ AwaitedIds \subseteq AwaitedIds'
        /\ v1_tx'.log = v1_tx.log \o [i \in 1..k |->
                           [submit[i] EXCEPT !.id = NextId(v1_req_id, i - 1)]]
    BY <1>0, <1>5, <2>1, <2>2, SubmitAwaits, Zenon
  <2>4. CASE RejectLocally(Nth("submit"))
    BY <1>0, <1>1, <1>2, <2>3, <2>4, RejectReady, Zenon
  <2>5. CASE /\ k = 1
             /\ v2_submit_share_queue' =
                  Append(v2_submit_share_queue, Mapping(v1_req_id, Nth("submit")))
    <3> DEFINE item == Mapping(v1_req_id, Nth("submit"))
               sent == [submit[1] EXCEPT !.id = NextId(v1_req_id, 0)]
    <3>1. v1_req_id \in Nat /\ NextId(v1_req_id, 0) = v1_req_id
      BY <1>0, TranslationAssumption DEF UpstreamOK, Ids, NextId
    <3>2. item \in QueueItems /\ item.kind = "mapping" /\ item.v1 = v1_req_id
      BY <1>2, <3>1, Zenon DEF Mapping, QueueItems
    <3>3. v1_req_id \in IdsTaken(submit, k)
      BY <2>1, <2>5, <3>1 DEF IdsTaken, Registered
    <3>4. v1_req_id \notin AwaitedIds /\ v1_req_id \in DOMAIN v1_req_map'
      BY <1>5, <3>3, Zenon DEF IdCollision, AwaitedIds, SubmitV1
    <3>5. sent \in V1Frames /\ sent.id = v1_req_id /\ sent.method = "submit"
      <4>1. submit[1] \in V1Frames
        BY <2>1
      <4>. QED
        BY <2>1, <3>1, <4>1, Zenon DEF V1Frames
    <3>6. v1_tx'.log = Append(v1_tx.log, sent)
      <4>1. [i \in 1..k |-> [submit[i] EXCEPT !.id = NextId(v1_req_id, i - 1)]] = <<sent>>
        BY <2>5
      <4>2. v1_tx.log \in Seq(V1Frames)
        BY <1>0, Zenon DEF UpstreamOK, Channel
      <4>3. v1_tx'.log = v1_tx.log \o <<sent>>
        BY <2>3, <4>1, Zenon
      <4> HIDE DEF sent
      <4>. QED
        BY <3>5, <4>2, <4>3
    <3> HIDE DEF sent, item
    <3>7. v1_req_id \in AwaitedIds'
      <4>1. v1_tx.log \in Seq(V1Frames) /\ Len(v1_tx.log) \in Nat
        BY <1>0 DEF UpstreamOK, Channel
      <4>2. /\ Len(v1_tx'.log) = Len(v1_tx.log) + 1
            /\ v1_tx'.log[Len(v1_tx.log) + 1] = sent
        BY <3>5, <3>6, <4>1
      <4>3. Latest(v1_tx'.log, v1_req_id, Len(v1_tx.log) + 1)
        BY <3>5, <4>1, <4>2 DEF Latest
      <4>. QED
        BY <3>4, <4>1, <4>2, <4>3 DEF AwaitedIds
    <3>8. QueueReady(Append(v2_submit_share_queue, item), AwaitedIds')
      BY <1>0, <1>1, <2>3, <3>2, <3>4, <3>7, ReadyMapping, Zenon DEF QueueOK
    <3>. QED
      BY <2>5, <3>8, Zenon DEF item
  <2>. QED
    BY <1>5, <2>4, <2>5, Zenon
<1>. QED
  BY <1>3, <1>4, <1>5, Zenon

\* The answer to a share is the one the front of the queue waits for, or the
\* session ends.
LEMMA ResultReady ==
    ASSUME TypeOK, Live, QueueInv, NEW i \in 1..Len(v1_tx.log),
           NEW answer \in {"true", "false", "error"}, handle_submit_result(i, answer)
    PROVE  QueueInv'
<1> DEFINE rest == Tail(v2_submit_share_queue)
<1>0. UpstreamOK /\ QueueOK
  BY TypeOKGroups, Zenon
<1> SUFFICES ASSUME Live'
             PROVE  QueueReady(v2_submit_share_queue', AwaitedIds')
  BY Zenon DEF QueueInv
<1>1. /\ ExpectedAnswer(v1_tx.log[i].id)
      /\ \E m \in 0..Len(rest) :
            /\ LeadingErrors(rest, m)
            /\ \E k \in Outcomes(v2_tx, m + 1) :
                  /\ k = m + 1
                  /\ v2_submit_share_queue' =
                        SubSeq(rest, 1 + (IF k < m THEN k ELSE m), Len(rest))
  BY Zenon DEF handle_submit_result, Live, CloseUnless
<1>2. v2_submit_share_queue # <<>> /\ v2_submit_share_queue[1].v1 = v1_tx.log[i].id
  BY <1>1, Zenon DEF ExpectedAnswer
<1>3. PICK m \in 0..Len(rest) :
         /\ LeadingErrors(rest, m)
         /\ v2_submit_share_queue' = SubSeq(rest, 1 + m, Len(rest))
  <2>1. PICK m \in 0..Len(rest) :
           /\ LeadingErrors(rest, m)
           /\ \E k \in Outcomes(v2_tx, m + 1) :
                 /\ k = m + 1
                 /\ v2_submit_share_queue' =
                       SubSeq(rest, 1 + (IF k < m THEN k ELSE m), Len(rest))
    BY <1>1, Zenon
  <2>2. m \in Int /\ ~(m + 1 < m)
    OBVIOUS
  <2>. QED
    BY <2>1, <2>2, Zenon
<1>4. AwaitedIds \ {v2_submit_share_queue[1].v1} \subseteq AwaitedIds'
  <2>1. Answered(i, "submit")
    BY Zenon DEF handle_submit_result
  <2>. QED
    BY <1>0, <1>2, <2>1, AnsweredAwaits, Zenon DEF Methods
<1>5. QueueReady(v2_submit_share_queue, AwaitedIds)
  BY Zenon DEF QueueInv
<1>6. QueueReady(SubSeq(rest, 1 + m, Len(rest)), AwaitedIds')
  BY <1>0, <1>2, <1>3, <1>4, <1>5, ReadyAnswered, Zenon DEF QueueOK
<1>. QED
  BY <1>3, <1>6, Zenon

\* Answers to the other requests concern no share.
LEMMA AnswerReady ==
    ASSUME TypeOK, Live, QueueInv, NEW i \in 1..Len(v1_tx.log), V1Answer(i)
    PROVE  QueueInv'
<1>0. UpstreamOK /\ QueueOK
  BY TypeOKGroups, Zenon
<1>1. ASSUME NEW answer \in {"true", "false", "error"}, handle_submit_result(i, answer)
      PROVE  QueueInv'
  BY <1>1, ResultReady, Zenon
<1>2. CASE UnparsableResult(i)
  BY <1>2, Zenon DEF UnparsableResult, QueueInv, Live
<1>3. ASSUME NEW method \in {"configure", "xnsub", "subscribe", "authorize"},
             Answered(i, method), UNCHANGED v2_submit_share_queue
      PROVE  QueueInv'
  <2>1. method \in Methods /\ method # "submit"
    BY Zenon DEF Methods
  <2>2. QueueStays
    BY <1>0, <1>3, <2>1, AnsweredAwaits, Zenon DEF QueueStays
  <2>. QED
    BY <1>0, <2>2, StaysReady, Zenon
<1>4. ASSUME NEW rolling \in BOOLEAN, handle_configure_result(i, rolling)
      PROVE  QueueInv'
  BY <1>3, <1>4, Zenon DEF handle_configure_result
<1>5. CASE handle_extranonce_subscribe_result(i)
  BY <1>3, <1>5, Zenon DEF handle_extranonce_subscribe_result
<1>6. ASSUME NEW size \in Sizes, handle_subscribe_result(i, size)
      PROVE  QueueInv'
  BY <1>3, <1>6, Zenon DEF handle_subscribe_result
<1>7. CASE handle_authorize_result(i)
  BY <1>3, <1>7, Zenon DEF handle_authorize_result
<1>8. CASE UnsuccessfulResult(i)
  BY <1>3, <1>8, Zenon DEF UnsuccessfulResult
<1>9. CASE handle_authorize_or_subscribe_error(i)
  BY <1>3, <1>9, Zenon DEF handle_authorize_or_subscribe_error
<1>. QED
  BY <1>1, <1>2, <1>4, <1>5, <1>6, <1>7, <1>8, <1>9, Zenon DEF V1Answer

\* A pong is not mistaken for a request.
LEMMA PingStays ==
    ASSUME TypeOK, handle_ping
    PROVE  QueueStays
<1>0. UpstreamOK
  BY TypeOKGroups, Zenon
<1>1. PICK k \in Outcomes(v1_tx, 1) : v1_tx' = Accept(v1_tx, First(<<V1Pong>>, k))
  BY Zenon DEF handle_ping
<1> DEFINE fs == First(<<V1Pong>>, k)
<1>2. V1Pong \in V1Frames /\ V1Pong.method = "pong"
  BY Zenon DEF V1Pong, V1Request, V1Frames
<1>3. <<V1Pong>> \in Seq(V1Frames) /\ k \in 0..Len(<<V1Pong>>)
  BY <1>2, OutcomesLemma
<1>4. /\ fs \in Seq(V1Frames) /\ Len(fs) = k
      /\ \A i \in 1..k : fs[i] = <<V1Pong>>[i]
  BY <1>3, FirstLemma, Zenon
<1>5. \A i \in 1..Len(fs) : fs[i].method = "pong"
  <2>1. ASSUME NEW i \in 1..Len(fs)
        PROVE  fs[i].method = "pong"
    <3>1. i \in 1..1 /\ i \in 1..k
      BY <1>3, <1>4
    <3>. QED
      BY <1>2, <1>4, <3>1
  <2>. QED
    BY <2>1, Zenon
<1> HIDE DEF fs
<1>6. v1_tx'.log = v1_tx.log \o fs
  BY <1>0, <1>1, <1>4, AcceptLemma, Zenon DEF UpstreamOK, fs
<1>7. ASSUME NEW id \in AwaitedIds
      PROVE  id \in AwaitedIds'
  <2>1. PICK l \in 1..Len(v1_tx.log) : Latest(v1_tx.log, id, l)
    BY Zenon DEF AwaitedIds
  <2>2. v1_tx.log \in Seq(V1Frames)
    BY <1>0, Zenon DEF UpstreamOK, Channel
  <2>3. l \in 1..Len(v1_tx'.log) /\ Latest(v1_tx'.log, id, l)
    BY <1>4, <1>5, <1>6, <2>1, <2>2, LatestKept, Zenon
  <2>. QED
    BY <2>3, Zenon DEF handle_ping, AwaitedIds
<1>. QED
  BY <1>7, Zenon DEF handle_ping, QueueStays

\* The other notifications, and the send tasks, do nothing upstream.
LEMMA OtherStays ==
    ASSUME TypeOK, V1Notification \/ v2_send_task \/ v1_send_task_ends \/ v2_send_task_ends
                     \/ run_ends
    PROVE  QueueStays
<1>1. CASE handle_ping
  BY <1>1, PingStays, Zenon
<1>2. CASE v1_send_task_ends
  <2>1. v1_tx'.log = v1_tx.log
    BY <1>2, ChannelLemma, TypeOKGroups, Zenon DEF v1_send_task_ends, UpstreamOK
  <2>. QED
    BY <1>2, <2>1, UpstreamStays, Zenon DEF v1_send_task_ends
<1>3. CASE UNCHANGED <<upstream, v2_submit_share_queue>>
  BY <1>3, UpstreamStays, Zenon DEF upstream
<1>4. CASE V1Notification /\ ~handle_ping
  BY <1>3, <1>4, Zenon DEF V1Notification, handle_set_difficulty, handle_set_extranonce,
                    handle_notify, handle_client_reconnect
<1>5. CASE v2_send_task \/ v2_send_task_ends \/ run_ends
  BY <1>3, <1>5, Zenon DEF v2_send_task, v2_send_task_ends, run_ends
<1>. QED
  BY <1>1, <1>2, <1>4, <1>5, Zenon

-----------------------------------------------------------------------------
\* Every step keeps the queue ready.
LEMMA QueueStep ==
    ASSUME TypeOK, QueueInv, [Next]_vars
    PROVE  QueueInv'
<1>1. CASE Next
  <2>0. Live /\ QueueOK
    BY <1>1, NextStep, TypeOKGroups, Zenon
  <2>1. CASE handle_setup_connection \/ handle_open_standard_mining_channel
    BY <2>0, <2>1, ClientStays, StaysReady, Zenon
  <2>2. ASSUME NEW channel_ok \in BOOLEAN, NEW job \in Ids,
               handle_submit_shares_standard(channel_ok, job)
        PROVE  QueueInv'
    BY <2>0, <2>2, SubmitReady, Zenon
  <2>3. ASSUME NEW i \in 1..Len(v1_tx.log), V1Answer(i)
        PROVE  QueueInv'
    BY <2>0, <2>3, AnswerReady, Zenon
  <2>4. CASE V1Notification \/ v2_send_task \/ v1_send_task_ends \/ v2_send_task_ends
               \/ run_ends
    BY <2>0, <2>4, OtherStays, StaysReady, Zenon
  <2>. QED
    BY <1>1, <2>1, <2>2, <2>3, <2>4, Zenon DEF Next, V2Message
<1>2. CASE UNCHANGED vars
  BY <1>2, Zenon DEF vars, upstream, QueueInv, Live, AwaitedIds
<1>. QED
  BY <1>1, <1>2, Zenon

\* The rejections in v2_submit_share_queue never wait in vain: while the session
\* lives, the share at the front was forwarded and the handler of its answer is
\* registered, whatever the peers do, also when SeqId wraps around.
THEOREM QueueCorrect == Spec => []QueueFrontAwaited
<1>1. Init => QueueInv
  BY DEF Init, QueueInv, QueueReady
<1>2. TypeOK /\ QueueInv /\ [Next]_vars => QueueInv'
  BY QueueStep, Zenon
<1>3. TypeOK /\ QueueInv => QueueFrontAwaited
  <2> SUFFICES ASSUME TypeOK, QueueInv, Live, v2_submit_share_queue # <<>>
               PROVE  /\ v2_submit_share_queue[1].kind = "mapping"
                      /\ v2_submit_share_queue[1].v1 \in DOMAIN v1_req_map
    BY Zenon DEF QueueFrontAwaited
  <2>1. 1 \in 1..Len(v2_submit_share_queue)
    BY DEF TypeOK
  <2>. QED
    BY <2>1, Zenon DEF QueueInv, QueueReady, AwaitedIds
<1>. QED
  BY <1>1, <1>2, <1>3, TypeCorrect, PTL DEF Spec

-----------------------------------------------------------------------------
(* Whatever the peers send in whatever order, an operational channel has   *)
(* all it needs, and an answer finds the channel it is about.              *)
(*                                                                         *)
(* Every step ends the session, completes the opening of a channel, or     *)
(* keeps: it makes no channel operational, forgets nothing that was        *)
(* negotiated, and makes no request of a channel that is not there.        *)

Waited == {"subscribe", "authorize", "submit"}

Ended == session' # "open"

Completed ==
    /\ v1_authorized' = TRUE /\ v1_extra_nonce1' = TRUE
    /\ v2_target' # 0 /\ v2_channel_details' # 0

\* Requests that a step adds need a channel, or none.
RequestsKept ==
    \A id \in DOMAIN v1_req_map' :
       \/ id \in DOMAIN v1_req_map /\ v1_req_map'[id] = v1_req_map[id]
       \/ v1_req_map'[id] \notin Waited
       \/ v2_channel_details' # 0

Kept ==
    /\ state' = state \/ state' # "Operational"
    /\ v1_authorized' \in {v1_authorized, TRUE}
    /\ v1_extra_nonce1' \in {v1_extra_nonce1, TRUE}
    /\ v2_target # 0 => v2_target' # 0
    /\ v2_channel_details # 0 => v2_channel_details' # 0
    /\ RequestsKept

ChannelStep == Ended \/ Completed \/ Kept

ChannelReady == OperationalIsReady /\ DetailsWhilePending

-----------------------------------------------------------------------------
\* Three kinds of steps are all that is needed.
LEMMA StepReady ==
    ASSUME TypeOK, ChannelReady, Live, ChannelStep
    PROVE  ChannelReady'
<1>1. CASE Ended
  BY <1>1, Zenon DEF Ended, ChannelReady, OperationalIsReady, DetailsWhilePending, Live
<1>2. CASE Completed
  BY <1>2, Zenon DEF Completed, ChannelReady, OperationalIsReady, DetailsWhilePending
<1>3. CASE Kept
  <2>1. OperationalIsReady'
    <3> SUFFICES ASSUME state' = "Operational"
                 PROVE  v1_authorized' /\ v1_extra_nonce1' /\ v2_target' # 0
                          /\ v2_channel_details' # 0
      BY Zenon DEF OperationalIsReady
    <3>1. /\ v1_authorized = TRUE /\ v1_extra_nonce1 = TRUE
          /\ v2_target # 0 /\ v2_channel_details # 0
      BY <1>3, Zenon DEF Kept, ChannelReady, OperationalIsReady, TypeOK
    <3>. QED
      BY <1>3, <3>1, Zenon DEF Kept
  <2>2. DetailsWhilePending'
    <3> SUFFICES ASSUME NEW id \in DOMAIN v1_req_map', v1_req_map'[id] \in Waited
                 PROVE  v2_channel_details' # 0
      BY Zenon DEF DetailsWhilePending, Waited
    <3>1. CASE id \in DOMAIN v1_req_map /\ v1_req_map'[id] = v1_req_map[id]
      BY <1>3, <3>1, Zenon DEF Kept, ChannelReady, DetailsWhilePending, Waited
    <3>. QED
      BY <1>3, <3>1, Zenon DEF Kept, RequestsKept
  <2>. QED
    BY <2>1, <2>2, Zenon DEF ChannelReady
<1>. QED
  BY <1>1, <1>2, <1>3, Zenon DEF ChannelStep

\* Handlers that leave the negotiation alone.
LEMMA NothingNew ==
    ASSUME UNCHANGED <<state, v1_authorized, v1_extra_nonce1, v2_target,
                       v2_channel_details, v1_req_map>>
    PROVE  ChannelStep
  BY Zenon DEF ChannelStep, Kept, RequestsKept

\* Finding the handler of an answer only removes a request.
LEMMA AnsweredKeeps ==
    ASSUME NEW i, NEW method, Answered(i, method)
    PROVE  RequestsKept
  BY Zenon DEF Answered, Without, RequestsKept

\* The n-th input of a kind is not the zeroth.
LEMMA NthPositive ==
    ASSUME TypeOK, NEW kind \in Inputs
    PROVE  Nth(kind) # 0
<1>1. used[kind] \in Nat
  BY Zenon DEF TypeOK
<1>. QED
  BY <1>1 DEF Nth

\* finalize_open_channel with both results and a target leaves nothing open.
LEMMA FinalizeCompletes ==
    ASSUME NEW size, FinalizeOrAbort(TRUE, TRUE, size), v2_target # 0, UNCHANGED v2_target
    PROVE  ChannelStep
  BY Zenon DEF FinalizeOrAbort, FinalOk, AbortOpenChannel, ChannelStep, Ended, Completed

\* The request that a SetupConnection makes needs no channel.
LEMMA ConfigureKept ==
    ASSUME SubmitV1(<<V1Request("configure")>>, 1), UNCHANGED v2_channel_details
    PROVE  RequestsKept
<1> DEFINE requests == <<V1Request("configure")>>
           P(i, id) == NextId(v1_req_id, i - 1) = id
<1>1. Registered(requests, 1) = 1
  BY Zenon DEF Registered
<1>2. requests[1].method = "configure"
  BY Zenon DEF V1Request
<1> SUFFICES ASSUME NEW id \in DOMAIN v1_req_map'
             PROVE  \/ id \in DOMAIN v1_req_map /\ v1_req_map'[id] = v1_req_map[id]
                    \/ v1_req_map'[id] \notin Waited
  BY Zenon DEF RequestsKept
<1>3. CASE id \notin IdsTaken(requests, 1)
  BY <1>3, Zenon DEF SubmitV1
<1>4. CASE id \in IdsTaken(requests, 1)
  <2>1. v1_req_map'[id] = requests[CHOOSE i \in 1..1 : P(i, id)].method
    BY <1>1, <1>4, Zenon DEF SubmitV1
  <2>2. P(1, id)
    <3>1. PICK j \in 0..(1 - 1) : id = NextId(v1_req_id, j)
      BY <1>1, <1>4, Zenon DEF IdsTaken
    <3>2. j = 1 - 1
      BY <3>1
    <3>. QED
      BY <3>1, <3>2, Zenon
  <2> HIDE DEF P
  <2>3. (CHOOSE i \in 1..1 : P(i, id)) \in 1..1
    BY <2>2
  <2>4. (CHOOSE i \in 1..1 : P(i, id)) = 1
    BY <2>3
  <2>. QED
    BY <1>2, <2>1, <2>4, Zenon DEF Waited
<1>. QED
  BY <1>3, <1>4, Zenon

-----------------------------------------------------------------------------
(* One lemma per group of handlers.                                         *)

\* Messages of the client, in any order.
LEMMA ClientReady ==
    ASSUME TypeOK, V2Message
    PROVE  ChannelStep
<1>1. CASE handle_setup_connection
  <2>1. UNCHANGED <<v1_authorized, v1_extra_nonce1>>
    BY <1>1, Zenon DEF handle_setup_connection, negotiated
  <2>2. UNCHANGED <<v2_target, v2_channel_details>> \/ Ended
    BY <1>1, Zenon DEF handle_setup_connection, Ended, channel
  <2>3. Ended \/ (state' = "V1Configure" /\ SubmitV1(<<V1Request("configure")>>, 1))
    BY <1>1, Zenon DEF handle_setup_connection, Ended, CloseUnless, Outcomes
  <2>. QED
    BY <2>1, <2>2, <2>3, ConfigureKept, Zenon DEF ChannelStep, Kept
<1>2. CASE handle_open_standard_mining_channel
  <2>1. Nth("open") # 0
    BY NthPositive, Zenon DEF Inputs
  <2>2. UNCHANGED <<v1_authorized, v1_extra_nonce1>>
    BY <1>2, Zenon DEF handle_open_standard_mining_channel, negotiated
  <2>3. \/ UNCHANGED <<state, upstream, channel>>
        \/ /\ v2_channel_details' = Nth("open") /\ v2_target' = v2_target
           /\ state' = "OpenStandardMiningChannelPending"
    BY <1>2, Zenon DEF handle_open_standard_mining_channel
  <2>4. CASE UNCHANGED <<state, upstream, channel>>
    BY <2>2, <2>4, NothingNew, Zenon DEF upstream, channel
  <2>5. CASE /\ v2_channel_details' = Nth("open") /\ v2_target' = v2_target
             /\ state' = "OpenStandardMiningChannelPending"
    BY <2>1, <2>2, <2>5, Zenon DEF ChannelStep, Kept, RequestsKept
  <2>. QED
    BY <2>3, <2>4, <2>5, Zenon
<1>3. ASSUME NEW channel_ok \in BOOLEAN, NEW job \in Ids,
             handle_submit_shares_standard(channel_ok, job)
      PROVE  ChannelStep
  <2>1. UNCHANGED <<state, v1_authorized, v1_extra_nonce1, v2_target, v2_channel_details>>
    BY <1>3, Zenon DEF handle_submit_shares_standard, negotiated, channel
  <2>2. v1_req_map' = v1_req_map \/ v2_channel_details # 0
    BY <1>3, Zenon DEF handle_submit_shares_standard, upstream
  <2>. QED
    BY <2>1, <2>2, Zenon DEF ChannelStep, Kept, RequestsKept
<1>. QED
  BY <1>1, <1>2, <1>3, Zenon DEF V2Message

\* Answers of the server, in any order.
LEMMA AnswerKeeps ==
    ASSUME TypeOK, NEW i, V1Answer(i)
    PROVE  ChannelStep
<1>1. CASE UnparsableResult(i)
  BY <1>1, Zenon DEF UnparsableResult, ChannelStep, Ended
<1>2. ASSUME NEW rolling \in BOOLEAN, handle_configure_result(i, rolling)
      PROVE  ChannelStep
  <2>1. RequestsKept
    BY <1>2, AnsweredKeeps, Zenon DEF handle_configure_result
  <2>2. UNCHANGED <<v1_authorized, v1_extra_nonce1, v2_target, v2_channel_details>>
    BY <1>2, Zenon DEF handle_configure_result, negotiated, channel
  <2>3. state' \in {state, "ConnectionSetup"}
    BY <1>2, Zenon DEF handle_configure_result
  <2>. QED
    BY <2>1, <2>2, <2>3, Zenon DEF ChannelStep, Kept
<1>3. CASE handle_extranonce_subscribe_result(i)
  <2>1. RequestsKept
    BY <1>3, AnsweredKeeps, Zenon DEF handle_extranonce_subscribe_result
  <2>2. UNCHANGED <<state, v1_authorized, v1_extra_nonce1, v2_target, v2_channel_details>>
    BY <1>3, Zenon DEF handle_extranonce_subscribe_result, negotiated, channel
  <2>. QED
    BY <2>1, <2>2, Zenon DEF ChannelStep, Kept
<1>4. ASSUME NEW size \in Sizes, handle_subscribe_result(i, size)
      PROVE  ChannelStep
  <2>1. CASE SubscribeCompletes
    <3>1. v1_authorized = TRUE /\ v2_target # 0
      BY <2>1, Zenon DEF SubscribeCompletes, TypeOK
    <3>2. FinalizeOrAbort(TRUE, TRUE, size) /\ UNCHANGED v2_target
      BY <1>4, <2>1, <3>1, Zenon DEF handle_subscribe_result
    <3>. QED
      BY <3>1, <3>2, FinalizeCompletes, Zenon
  <2>2. CASE ~SubscribeCompletes
    <3>1. RequestsKept
      BY <1>4, AnsweredKeeps, Zenon DEF handle_subscribe_result
    <3>2. /\ UNCHANGED <<state, v1_authorized, v2_target, v2_channel_details>>
          /\ v1_extra_nonce1' = TRUE
      BY <1>4, <2>2, Zenon DEF handle_subscribe_result
    <3>. QED
      BY <3>1, <3>2, Zenon DEF ChannelStep, Kept
  <2>. QED
    BY <2>1, <2>2, Zenon
<1>5. CASE handle_authorize_result(i)
  <2>1. CASE AuthorizeCompletes
    <3>1. v1_extra_nonce1 = TRUE /\ v2_target # 0
      BY <2>1, Zenon DEF AuthorizeCompletes, TypeOK
    <3>2. FinalizeOrAbort(TRUE, TRUE, v1_extra_nonce2_size) /\ UNCHANGED v2_target
      BY <1>5, <2>1, <3>1, Zenon DEF handle_authorize_result
    <3>. QED
      BY <3>1, <3>2, FinalizeCompletes, Zenon
  <2>2. CASE ~AuthorizeCompletes
    <3>1. RequestsKept
      BY <1>5, AnsweredKeeps, Zenon DEF handle_authorize_result
    <3>2. /\ UNCHANGED <<state, v1_extra_nonce1, v2_target, v2_channel_details>>
          /\ v1_authorized' = TRUE
      BY <1>5, <2>2, Zenon DEF handle_authorize_result
    <3>. QED
      BY <3>1, <3>2, Zenon DEF ChannelStep, Kept
  <2>. QED
    BY <2>1, <2>2, Zenon
<1>6. CASE UnsuccessfulResult(i)
  BY <1>6, Zenon DEF UnsuccessfulResult, AbortOpenChannel, ChannelStep, Ended
<1>7. CASE handle_authorize_or_subscribe_error(i)
  <2>1. RequestsKept
    BY <1>7, AnsweredKeeps, Zenon DEF handle_authorize_or_subscribe_error
  <2>2. \/ Ended
        \/ UNCHANGED <<state, v1_authorized, v1_extra_nonce1, v2_target, v2_channel_details>>
    BY <1>7, Zenon DEF handle_authorize_or_subscribe_error, AbortOpenChannel, Ended, negotiated
  <2>. QED
    BY <2>1, <2>2, Zenon DEF ChannelStep, Kept
<1>8. ASSUME NEW answer \in {"true", "false", "error"}, handle_submit_result(i, answer)
      PROVE  ChannelStep
  <2>1. RequestsKept
    BY <1>8, AnsweredKeeps, Zenon DEF handle_submit_result
  <2>2. UNCHANGED <<state, v1_authorized, v1_extra_nonce1, v2_target, v2_channel_details>>
    BY <1>8, Zenon DEF handle_submit_result, negotiated, channel
  <2>. QED
    BY <2>1, <2>2, Zenon DEF ChannelStep, Kept
<1>. QED
  BY <1>1, <1>2, <1>3, <1>4, <1>5, <1>6, <1>7, <1>8, Zenon DEF V1Answer

\* Notifications of the server.  A difficulty opens the channel that waits for
\* it only if there is one, whether or not its frames could be sent.
LEMMA NotificationReady ==
    ASSUME TypeOK, V1Notification
    PROVE  ChannelStep
<1>1. CASE handle_set_difficulty
  <2>1. v2_target' # 0
    BY <1>1, NthPositive, Zenon DEF handle_set_difficulty, Inputs
  <2>2. UNCHANGED <<v1_authorized, v1_extra_nonce1, v2_channel_details, v1_req_map>>
    BY <1>1, Zenon DEF handle_set_difficulty, negotiated, upstream
  <2>3. \/ state' = state
        \/ (v1_authorized /\ v1_extra_nonce1) /\ v2_channel_details # 0
    BY <1>1, Zenon DEF handle_set_difficulty
  <2>4. CASE state' = state
    BY <2>1, <2>2, <2>4, Zenon DEF ChannelStep, Kept, RequestsKept
  <2>5. CASE (v1_authorized /\ v1_extra_nonce1) /\ v2_channel_details # 0
    <3>1. v1_authorized = TRUE /\ v1_extra_nonce1 = TRUE
      BY <2>5, Zenon DEF TypeOK
    <3>. QED
      BY <2>1, <2>2, <2>5, <3>1, Zenon DEF ChannelStep, Completed
  <2>. QED
    BY <2>3, <2>4, <2>5, Zenon
<1>2. ASSUME NEW size \in Sizes, handle_set_extranonce(size)
      PROVE  ChannelStep
  BY <1>2, Zenon DEF handle_set_extranonce, ChannelStep, Kept, RequestsKept, upstream, channel
<1>3. ASSUME NEW clean \in BOOLEAN, NEW good \in BOOLEAN, handle_notify(clean, good)
      PROVE  ChannelStep
  BY <1>3, NothingNew, Zenon DEF handle_notify, upstream, negotiated, channel
<1>4. ASSUME NEW parsable \in BOOLEAN, handle_client_reconnect(parsable)
      PROVE  ChannelStep
  BY <1>4, NothingNew, Zenon DEF handle_client_reconnect, upstream, negotiated, channel
<1>5. CASE handle_ping
  BY <1>5, NothingNew, Zenon DEF handle_ping, negotiated, channel
<1>. QED
  BY <1>1, <1>2, <1>3, <1>4, <1>5, Zenon DEF V1Notification

\* One step of the session.
LEMMA ReadyStep ==
    ASSUME TypeOK, ChannelReady, [Next]_vars
    PROVE  ChannelReady'
<1>1. CASE Next
  <2>0. Live
    BY <1>1, NextStep, Zenon
  <2>1. CASE V2Message
    BY <2>0, <2>1, ClientReady, StepReady, Zenon
  <2>2. ASSUME NEW i \in 1..Len(v1_tx.log), V1Answer(i)
        PROVE  ChannelReady'
    BY <2>0, <2>2, AnswerKeeps, StepReady, Zenon
  <2>3. CASE V1Notification
    BY <2>0, <2>3, NotificationReady, StepReady, Zenon
  <2>4. CASE v2_send_task \/ v1_send_task_ends \/ v2_send_task_ends \/ run_ends
    <3>1. ChannelStep
      BY <2>4, NothingNew, Zenon DEF v2_send_task, v1_send_task_ends, v2_send_task_ends, run_ends,
                              upstream, negotiated, channel
    <3>. QED
      BY <2>0, <3>1, StepReady, Zenon
  <2>. QED
    BY <1>1, <2>1, <2>2, <2>3, <2>4, Zenon DEF Next
<1>2. CASE UNCHANGED vars
  BY <1>2, Zenon DEF vars, upstream, negotiated, channel, ChannelReady, OperationalIsReady,
              DetailsWhilePending, Live
<1>. QED
  BY <1>1, <1>2, Zenon

-----------------------------------------------------------------------------
\* Whatever client and server send, and however often SeqId wraps around, both
\* properties of the channel hold together.
LEMMA AlwaysReady == Spec => []ChannelReady
<1>1. Init => ChannelReady
  BY DEF Init, ChannelReady, OperationalIsReady, DetailsWhilePending
<1>2. TypeOK /\ ChannelReady /\ [Next]_vars => ChannelReady'
  BY ReadyStep, Zenon
<1>. QED
  BY <1>1, <1>2, TypeCorrect, PTL DEF Spec

\* The expects of finalize_open_channel and send_set_target, and the extranonce
\* that calculate_merkle_root needs: an operational channel is authorized, has an
\* extranonce, a target and its open request, whatever the order of events.
THEOREM OperationalCorrect == Spec => []OperationalIsReady
<1>1. ChannelReady => OperationalIsReady
  BY Zenon DEF ChannelReady
<1>. QED
  BY <1>1, AlwaysReady, PTL

\* "BUG: V2 channel details missing" is not reached by an answer to a subscribe,
\* an authorize or a submit: the channel outlives the requests made for it.
THEOREM DetailsCorrect == Spec => []DetailsWhilePending
<1>1. ChannelReady => DetailsWhilePending
  BY Zenon DEF ChannelReady
<1>. QED
  BY <1>1, AlwaysReady, PTL

=============================================================================
