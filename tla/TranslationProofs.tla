-------------------------- MODULE TranslationProofs --------------------------
(***************************************************************************)
(* What holds of Translation for every queue capacity, every number of     *)
(* ids and every bound on the inputs, with clients and servers that keep   *)
(* to no order.                                                            *)
(***************************************************************************)
EXTENDS Translation, TLAPS

-----------------------------------------------------------------------------
(* The outgoing queues.                                                    *)

\* Accepted frames are appended to the log; nothing in it is lost or moved.
LEMMA AcceptLemma ==
    ASSUME NEW S, NEW ch \in Channel(S), NEW fs \in Seq(S)
    PROVE  /\ Accept(ch, fs) \in Channel(S)
           /\ Accept(ch, fs).log = ch.log \o fs
           /\ Accept(ch, fs).alive = ch.alive
<1> DEFINE n == Len(ch.log) + Len(fs) - Cap
           taken == IF n > ch.taken THEN n ELSE ch.taken
<1>1. ch.log \in Seq(S) /\ ch.taken \in Nat /\ ch.alive \in BOOLEAN
  BY Zenon DEF Channel
<1>2. Accept(ch, fs) = [log |-> ch.log \o fs, taken |-> taken, alive |-> ch.alive]
  <2>1. ch = [log |-> ch.log, taken |-> ch.taken, alive |-> ch.alive]
    BY Zenon DEF Channel
  <2>2. Accept(ch, fs) = [ch EXCEPT !.log = ch.log \o fs, !.taken = taken]
    BY Zenon DEF Accept
  <2> QED
    BY <2>1, <2>2, Zenon
<1>3. taken \in Nat
  BY <1>1, CapAssumption
<1>4. ch.log \o fs \in Seq(S)
  BY <1>1
<1> QED
  BY <1>1, <1>2, <1>3, <1>4 DEF Channel

\* The other operations on a channel leave its log alone.
LEMMA ChannelLemma ==
    ASSUME NEW S, NEW ch \in Channel(S), NEW i \in Nat
    PROVE  /\ TakenUpTo(ch, i) \in Channel(S) /\ TakenUpTo(ch, i).log = ch.log
           /\ Take(ch) \in Channel(S) /\ Take(ch).log = ch.log
           /\ Hangup(ch) \in Channel(S) /\ Hangup(ch).log = ch.log
<1>1. TakenUpTo(ch, i) \in Channel(S) /\ TakenUpTo(ch, i).log = ch.log
  BY Zenon DEF Channel, TakenUpTo
<1>2. Take(ch) \in Channel(S) /\ Take(ch).log = ch.log
  BY DEF Channel, Take
<1>3. Hangup(ch) \in Channel(S) /\ Hangup(ch).log = ch.log
  BY Zenon DEF Channel, Hangup
<1> QED
  BY <1>1, <1>2, <1>3, Zenon

\* The first k frames of a burst are its prefix of length k.
LEMMA FirstLemma ==
    ASSUME NEW S, NEW fs \in Seq(S), NEW k \in 0..Len(fs)
    PROVE  /\ First(fs, k) \in Seq(S)
           /\ Len(First(fs, k)) = k
           /\ \A i \in 1..k : First(fs, k)[i] = fs[i]
  BY DEF First

\* No more try_sends are accepted than are made.
LEMMA OutcomesLemma ==
    ASSUME NEW ch, NEW n \in Nat, NEW k \in Outcomes(ch, n)
    PROVE  k \in 0..n
  BY Zenon DEF Outcomes

\* Ids of requests and jobs are natural numbers.
LEMMA IdsLemma == Ids \subseteq Nat
  BY TranslationAssumption DEF Ids

\* SeqId stays in its type, wrapping included.
LEMMA NextIdLemma ==
    ASSUME NEW id \in Nat, NEW n \in Nat
    PROVE  NextId(id, n) \in Ids
  BY TranslationAssumption DEF NextId, Ids

-----------------------------------------------------------------------------
(* Groups of the conjuncts of TypeOK that an operator changes together.    *)

UpstreamOK ==
    /\ v1_tx \in Channel(V1Frames)
    /\ v1_req_id \in Ids
    /\ DOMAIN v1_req_map \subseteq Ids
    /\ \A id \in DOMAIN v1_req_map : v1_req_map[id] \in Methods

NegotiatedOK ==
    /\ v1_extra_nonce1 \in BOOLEAN
    /\ v1_extra_nonce2_size \in Nat
    /\ v1_authorized \in BOOLEAN

JobMapOK ==
    /\ v2_job_id \in Ids
    /\ DOMAIN v2_to_v1_job_map \subseteq Ids
    /\ \A j \in DOMAIN v2_to_v1_job_map : v2_to_v1_job_map[j] \in Templates

JobsOK == v1_deferred_notify \in Notifies /\ JobMapOK

ChannelOK ==
    /\ v2_conn_details \in BOOLEAN
    /\ v2_channel_details \in Nat
    /\ v2_target \in Nat

HistoryOK ==
    /\ lost \subseteq V2Frames
    /\ verdicts \subseteq (Nat \X BOOLEAN)
    /\ cleaned \in Nat

SessionOK == session \in {"open", "closed", "panicked"} /\ state \in States

V2TxOK == v2_tx \in Channel(V2Frames)
QueueOK == v2_submit_share_queue \in Seq(QueueItems)
UsedOK == used \in [Inputs -> Nat]

\* TypeOK is the conjunction of the groups, in either state of a step.
LEMMA TypeOKGroups ==
    /\ TypeOK <=> /\ SessionOK /\ UpstreamOK /\ V2TxOK /\ NegotiatedOK
                  /\ ChannelOK /\ JobsOK /\ QueueOK /\ UsedOK /\ HistoryOK
    /\ TypeOK' <=> /\ SessionOK' /\ UpstreamOK' /\ V2TxOK' /\ NegotiatedOK'
                   /\ ChannelOK' /\ JobsOK' /\ QueueOK' /\ UsedOK' /\ HistoryOK'
  BY Zenon DEF TypeOK, SessionOK, UpstreamOK, V2TxOK, NegotiatedOK, ChannelOK,
         JobsOK, JobMapOK, QueueOK, UsedOK, HistoryOK

-----------------------------------------------------------------------------
(* Frames that say nothing about a share.                                  *)

QuietFrames == {f \in V2Frames : ~IsShareFrame(f)}

\* The step adds only such frames to the downstream log.
QuietStep ==
    /\ V2TxOK'
    /\ Len(v2_tx'.log) >= Len(v2_tx.log)
    /\ \A i \in 1..Len(v2_tx.log) : v2_tx'.log[i] = v2_tx.log[i]
    /\ \A i \in (Len(v2_tx.log) + 1)..Len(v2_tx'.log) : ~IsShareFrame(v2_tx'.log[i])

\* V2Frame builds frames, and quiet ones unless it answers a share.
LEMMA V2FrameLemma ==
    ASSUME NEW type \in FrameTypes, NEW ref \in Nat, NEW val \in Nat
    PROVE  /\ V2Frame(type, ref, val) \in V2Frames
           /\ type \notin ShareTypes => V2Frame(type, ref, val) \in QuietFrames
  BY Zenon DEF V2Frame, V2Frames, QuietFrames, IsShareFrame

\* Handing over frames that answer no share is a quiet step.
LEMMA QuietAccept ==
    ASSUME V2TxOK, NEW fs \in Seq(QuietFrames), v2_tx' = Accept(v2_tx, fs)
    PROVE  QuietStep
<1>1. fs \in Seq(V2Frames)
  BY DEF QuietFrames
<1>2. V2TxOK' /\ v2_tx'.log = v2_tx.log \o fs
  BY <1>1, AcceptLemma, Zenon DEF V2TxOK
<1>3. v2_tx.log \in Seq(V2Frames)
  BY Zenon DEF V2TxOK, Channel
<1>4. \A i \in 1..Len(fs) : ~IsShareFrame(fs[i])
  BY DEF QuietFrames
<1>5. ASSUME NEW i \in (Len(v2_tx.log) + 1)..Len(v2_tx'.log)
      PROVE  ~IsShareFrame(v2_tx'.log[i])
  <2>1. i - Len(v2_tx.log) \in 1..Len(fs) /\ v2_tx'.log[i] = fs[i - Len(v2_tx.log)]
    BY <1>1, <1>2, <1>3
  <2> QED
    BY <1>4, <2>1, Zenon
<1> QED
  BY <1>1, <1>2, <1>3, <1>5 DEF QuietStep

\* So is submit_v2_message of any part of a burst of them.
LEMMA QuietSubmit ==
    ASSUME V2TxOK, NEW fs \in Seq(QuietFrames), NEW k \in 0..Len(fs), SubmitV2(fs, k)
    PROVE  QuietStep
<1>1. First(fs, k) \in Seq(QuietFrames)
  BY FirstLemma, Zenon
<1> QED
  BY <1>1, QuietAccept, Zenon DEF SubmitV2

\* So is leaving v2_tx alone.
LEMMA QuietUnchanged ==
    ASSUME V2TxOK, UNCHANGED v2_tx
    PROVE  QuietStep
  BY DEF QuietStep, V2TxOK, Channel

-----------------------------------------------------------------------------
(* The building blocks of the handlers keep the types.                     *)

\* V1Request builds the request of its method.
LEMMA V1RequestLemma ==
    ASSUME NEW method \in Methods
    PROVE  /\ V1Request(method) \in V1Frames
           /\ V1Request(method).method = method
  BY Zenon DEF V1Request, V1Frames

\* v1_method_into_message and its try_send keep the upstream side typed.
LEMMA SubmitV1Lemma ==
    ASSUME UpstreamOK, NEW requests \in Seq(V1Frames), NEW k \in 0..Len(requests),
           \A i \in 1..Len(requests) : requests[i].method \in Methods,
           SubmitV1(requests, k)
    PROVE  UpstreamOK'
<1> DEFINE n == Registered(requests, k)
           fs == [i \in 1..k |-> [requests[i] EXCEPT !.id = NextId(v1_req_id, i - 1)]]
<1>1. n \in 0..Len(requests)
  BY DEF Registered
<1>2. \A i \in Nat : NextId(v1_req_id, i) \in Ids /\ NextId(v1_req_id, i) \in Nat
  BY IdsLemma, NextIdLemma, Zenon DEF UpstreamOK
<1>3. IdsTaken(requests, k) \subseteq Ids
  <2>1. \A i \in 0..(n - 1) : i \in Nat
    BY <1>1
  <2> QED
    BY <1>2, <2>1, Zenon DEF IdsTaken
<1>4. fs \in Seq(V1Frames)
  <2>1. ASSUME NEW i \in 1..k
        PROVE  [requests[i] EXCEPT !.id = NextId(v1_req_id, i - 1)] \in V1Frames
    <3>1. requests[i] \in V1Frames /\ i - 1 \in Nat
      OBVIOUS
    <3> QED
      BY <1>2, <3>1, Zenon DEF V1Frames
  <2> QED
    BY <2>1
<1>5. v1_tx' \in Channel(V1Frames)
  BY <1>4, AcceptLemma, Zenon DEF SubmitV1, UpstreamOK
<1>6. v1_req_id' \in Ids
  BY <1>1, <1>2 DEF SubmitV1
<1>7. DOMAIN v1_req_map' \subseteq Ids
  BY <1>3, Zenon DEF SubmitV1, UpstreamOK
<1>8. ASSUME NEW id \in DOMAIN v1_req_map'
      PROVE  v1_req_map'[id] \in Methods
  <2>1. CASE id \in IdsTaken(requests, k)
    <3> DEFINE P(i) == NextId(v1_req_id, i - 1) = id
    <3>1. \E i \in 1..n : P(i)
      <4>1. PICK j \in 0..(n - 1) : id = NextId(v1_req_id, j)
        BY <2>1, Zenon DEF IdsTaken
      <4>2. j + 1 \in 1..n /\ (j + 1) - 1 = j
        BY <1>1
      <4> QED
        BY <4>1, <4>2, Zenon
    <3>2. (CHOOSE i \in 1..n : P(i)) \in 1..n
      BY <3>1, Zenon
    <3>3. v1_req_map'[id] = requests[CHOOSE i \in 1..n : P(i)].method
      BY <2>1, Zenon DEF SubmitV1
    <3> HIDE DEF P
    <3> QED
      BY <1>1, <3>2, <3>3
  <2>2. CASE id \notin IdsTaken(requests, k)
    BY <2>2, Zenon DEF SubmitV1, UpstreamOK
  <2> QED
    BY <2>1, <2>2, Zenon
<1> QED
  BY <1>5, <1>6, <1>7, <1>8, Zenon DEF UpstreamOK

\* Finding and removing the handler of an answered request does, too.
LEMMA AnsweredLemma ==
    ASSUME UpstreamOK, NEW i \in 1..Len(v1_tx.log), NEW method, Answered(i, method)
    PROVE  UpstreamOK' /\ used' = used /\ Live
<1>1. v1_tx' \in Channel(V1Frames)
  <2>1. i \in Nat
    BY DEF UpstreamOK, Channel
  <2> QED
    BY <2>1, ChannelLemma, Zenon DEF Answered, UpstreamOK
<1>2. /\ DOMAIN v1_req_map' \subseteq DOMAIN v1_req_map
      /\ \A id \in DOMAIN v1_req_map' : v1_req_map'[id] = v1_req_map[id]
  BY Zenon DEF Answered, Without
<1> QED
  BY <1>1, <1>2, Zenon DEF Answered, UpstreamOK, Live

\* Entering a job into v2_to_v1_job_map keeps the map typed.
LEMMA RegisterJobLemma ==
    ASSUME JobMapOK, NEW n \in Notifies, NEW size \in Nat, RegisterJob(n, size)
    PROVE  JobMapOK'
<1>1. v2_job_id' \in Ids
  BY IdsLemma, NextIdLemma, Zenon DEF RegisterJob, JobMapOK
<1>2. /\ DOMAIN KeptJobs(n) \subseteq Ids
      /\ \A j \in DOMAIN KeptJobs(n) : KeptJobs(n)[j] \in Templates
  BY DEF KeptJobs, JobMapOK
<1>3. [src |-> n.src, size |-> size] \in Templates
  BY Zenon DEF Notifies, Templates
<1>4. CASE n.good
  BY <1>1, <1>2, <1>3, <1>4, Zenon DEF RegisterJob, JobMapOK
<1>5. CASE ~n.good
  BY <1>1, <1>2, <1>5, Zenon DEF RegisterJob, JobMapOK
<1> QED
  BY <1>4, <1>5, Zenon

\* The frames of perform_notify answer no share.
LEMMA JobFramesLemma ==
    ASSUME JobMapOK, NEW n \in Notifies
    PROVE  JobFrames(n) \in Seq(QuietFrames)
<1>1. v2_job_id \in Nat /\ n.src \in Nat
  BY IdsLemma, Zenon DEF JobMapOK, Notifies
<1>2. /\ V2Frame("NewMiningJob", v2_job_id, n.src) \in QuietFrames
      /\ V2Frame("SetNewPrevHash", v2_job_id, n.src) \in QuietFrames
  BY <1>1, V2FrameLemma, Zenon DEF FrameTypes, ShareTypes
<1> QED
  BY <1>2 DEF JobFrames

\* Nor do the frames of finalize_open_channel.
LEMMA FinalFramesLemma ==
    ASSUME JobsOK, ChannelOK, NEW target \in Nat
    PROVE  FinalFrames(target) \in Seq(QuietFrames)
<1>1. V2Frame("OpenSuccess", v2_channel_details, target) \in QuietFrames
  BY V2FrameLemma, Zenon DEF ChannelOK, FrameTypes, ShareTypes
<1>2. JobFrames(v1_deferred_notify) \in Seq(QuietFrames)
  BY JobFramesLemma, Zenon DEF JobsOK
<1> QED
  BY <1>1, <1>2 DEF FinalFrames

\* The deferred mining.notify leaves the job map typed.
LEMMA FinalJobsLemma ==
    ASSUME JobsOK, NEW k, NEW size \in Nat, FinalJobs(k, size)
    PROVE  JobsOK'
<1>1. CASE UNCHANGED jobs
  BY <1>1, Zenon DEF jobs, JobsOK, JobMapOK
<1>2. CASE v1_deferred_notify' = NoNotify /\ RegisterJob(v1_deferred_notify, size)
  <2>1. JobMapOK'
    BY <1>2, RegisterJobLemma, Zenon DEF JobsOK
  <2>2. NoNotify \in Notifies
    BY Zenon DEF NoNotify, Notifies
  <2> QED
    BY <1>2, <2>1, <2>2, Zenon DEF JobsOK
<1> QED
  BY <1>1, <1>2, Zenon DEF FinalJobs

\* abort_open_channel is quiet and keeps the fields it sets typed.
LEMMA AbortLemma ==
    ASSUME V2TxOK, ChannelOK, NEW sent \in Seq(QuietFrames), AbortOpenChannel(sent)
    PROVE  /\ QuietStep
           /\ SessionOK' /\ NegotiatedOK'
           /\ v2_channel_details' \in Nat
           /\ session' = "closed"
<1> DEFINE error == IF v2_channel_details = 0 THEN <<>>
                    ELSE <<V2Frame("OpenError", v2_channel_details, 0)>>
<1>1. error \in Seq(QuietFrames)
  <2>1. V2Frame("OpenError", v2_channel_details, 0) \in QuietFrames
    BY V2FrameLemma, Zenon DEF ChannelOK, FrameTypes, ShareTypes
  <2> QED
    BY <2>1
<1>2. PICK k \in Outcomes(Accept(v2_tx, sent), Len(error)) :
            v2_tx' = Accept(v2_tx, sent \o First(error, k))
  BY Zenon DEF AbortOpenChannel
<1>3. k \in 0..Len(error)
  BY <1>1, OutcomesLemma, Zenon
<1> HIDE DEF error
<1>4. sent \o First(error, k) \in Seq(QuietFrames)
  <2>1. First(error, k) \in Seq(QuietFrames)
    BY <1>1, <1>3, FirstLemma, Zenon
  <2> QED
    BY <2>1
<1>5. QuietStep
  BY <1>2, <1>4, QuietAccept, Zenon
<1> QED
  BY <1>5, Zenon DEF AbortOpenChannel, SessionOK, States, NegotiatedOK

\* So is finalizing the channel, or aborting it when that fails.
LEMMA FinalizeLemma ==
    ASSUME SessionOK, V2TxOK, NegotiatedOK, JobsOK, ChannelOK,
           NEW authorized \in BOOLEAN, NEW nonce1 \in BOOLEAN, NEW size \in Nat,
           FinalizeOrAbort(authorized, nonce1, size)
    PROVE  /\ QuietStep
           /\ SessionOK' /\ NegotiatedOK' /\ JobsOK'
           /\ v2_channel_details' \in Nat
<1> DEFINE frames == FinalFrames(v2_target)
<1>1. frames \in Seq(QuietFrames)
  BY FinalFramesLemma, Zenon DEF ChannelOK
<1>2. PICK k \in Outcomes(v2_tx, Len(frames)) :
        /\ FinalJobs(k, size)
        /\ \/ /\ session' = "panicked"
              /\ UNCHANGED <<state, negotiated, v2_channel_details, v2_tx>>
           \/ /\ session' = "open"
              /\ state' = "Operational"
              /\ v1_authorized' = authorized
              /\ v1_extra_nonce1' = nonce1
              /\ v1_extra_nonce2_size' = size
              /\ UNCHANGED v2_channel_details
              /\ SubmitV2(frames, k)
           \/ AbortOpenChannel(First(frames, k))
  BY Zenon DEF FinalizeOrAbort
<1>3. k \in 0..Len(frames)
  BY <1>1, OutcomesLemma
<1>4. JobsOK'
  BY <1>2, FinalJobsLemma, Zenon
<1>5. CASE session' = "panicked" /\ UNCHANGED <<state, negotiated, v2_channel_details, v2_tx>>
  BY <1>4, <1>5, QuietUnchanged, Zenon DEF SessionOK, negotiated, NegotiatedOK, ChannelOK
<1>6. CASE /\ session' = "open"
           /\ state' = "Operational"
           /\ v1_authorized' = authorized
           /\ v1_extra_nonce1' = nonce1
           /\ v1_extra_nonce2_size' = size
           /\ UNCHANGED v2_channel_details
           /\ SubmitV2(frames, k)
  <2>1. QuietStep
    BY <1>1, <1>3, <1>6, QuietSubmit, Zenon
  <2> QED
    BY <1>4, <1>6, <2>1, Zenon DEF SessionOK, States, NegotiatedOK, ChannelOK
<1>7. CASE AbortOpenChannel(First(frames, k))
  <2>1. First(frames, k) \in Seq(QuietFrames)
    BY <1>1, <1>3, FirstLemma, Zenon
  <2> QED
    BY <1>4, <1>7, <2>1, AbortLemma, Zenon
<1> QED
  BY <1>2, <1>5, <1>6, <1>7, Zenon

-----------------------------------------------------------------------------
(* The handlers that are not about shares keep the types, and are calm:    *)
(* they answer no share and leave the share queue alone.                   *)

Calm ==
    /\ QuietStep
    /\ UNCHANGED v2_submit_share_queue
    /\ used'["submit"] = used["submit"]
    /\ lost \subseteq lost'

\* Taking an input counts it, and only its own kind.
LEMMA ReceiveLemma ==
    ASSUME UsedOK, NEW kind \in Inputs, Receive(kind)
    PROVE  /\ UsedOK'
           /\ used'[kind] = Nth(kind)
           /\ kind # "submit" => used'["submit"] = used["submit"]
           /\ Nth(kind) \in Nat
           /\ Live
  BY DEF Live, UsedOK, Inputs, Receive, Nth

\* handle_setup_connection is about no share.
LEMMA SetupConnectionCalm ==
    ASSUME TypeOK, handle_setup_connection
    PROVE  TypeOK' /\ Calm
<1> USE TypeOKGroups
<1> DEFINE errors == IF state = "Init" THEN <<>>
                     ELSE <<V2Frame("SetupConnectionError", 0, 0)>>
           configure == <<V1Request("configure")>>
<1>1. UsedOK' /\ used'["submit"] = used["submit"]
  BY ReceiveLemma, Zenon DEF handle_setup_connection, Inputs
<1>2. errors \in Seq(QuietFrames)
  <2>1. V2Frame("SetupConnectionError", 0, 0) \in QuietFrames
    BY V2FrameLemma, Zenon DEF FrameTypes, ShareTypes
  <2> QED
    BY <2>1
<1>3. configure \in Seq(V1Frames) /\ Len(configure) = 1 /\ configure[1].method \in Methods
  BY V1RequestLemma DEF Methods
<1>4. PICK e \in Outcomes(v2_tx, Len(errors)) :
        /\ SubmitV2(errors, e)
        /\ \/ session' = "closed" /\ UNCHANGED <<state, upstream, channel>>
           \/ \E k \in Outcomes(v1_tx, 1) :
                /\ v2_conn_details' = TRUE
                /\ UNCHANGED <<v2_channel_details, v2_target>>
                /\ \/ session' = "panicked" /\ UNCHANGED <<state, upstream>>
                   \/ /\ session' \in {"open", "closed"}
                      /\ SubmitV1(configure, k)
                      /\ state' \in {"V1Configure", state}
  BY Zenon DEF handle_setup_connection, CloseUnless
<1>5. QuietStep
  BY <1>2, <1>4, OutcomesLemma, QuietSubmit, Zenon
<1>6. SessionOK' /\ ChannelOK'
  BY <1>4, Zenon DEF SessionOK, States, ChannelOK, channel
<1>7. UpstreamOK'
  <2>1. CASE UNCHANGED upstream
    BY <2>1, Zenon DEF upstream, UpstreamOK
  <2>2. CASE \E k \in Outcomes(v1_tx, 1) : SubmitV1(configure, k)
    <3>1. PICK k \in Outcomes(v1_tx, 1) : SubmitV1(configure, k)
      BY <2>2, Zenon
    <3>2. k \in 0..Len(configure)
      BY <1>3, OutcomesLemma, Zenon
    <3> HIDE DEF configure
    <3> QED
      BY <1>3, <3>1, <3>2, SubmitV1Lemma, SMTT(30)
  <2> QED
    BY <1>4, <2>1, <2>2, Zenon
<1>8. NegotiatedOK' /\ JobsOK' /\ QueueOK' /\ HistoryOK' /\ UNCHANGED v2_submit_share_queue
  BY Zenon DEF handle_setup_connection, negotiated, jobs, history, NegotiatedOK, JobsOK,
         JobMapOK, QueueOK, HistoryOK
<1> QED
  BY <1>1, <1>5, <1>6, <1>7, <1>8, Zenon DEF handle_setup_connection, history, Calm, QuietStep

\* The requests sent for a new channel are requests.
LEMMA OpenRequestsLemma ==
    /\ OpenRequests \in Seq(V1Frames)
    /\ \A i \in 1..Len(OpenRequests) : OpenRequests[i].method \in Methods
<1>1. \A method \in {"subscribe", "xnsub", "authorize"} :
        V1Request(method) \in V1Frames /\ V1Request(method).method \in Methods
  BY V1RequestLemma, Zenon DEF Methods
<1> QED
  BY <1>1 DEF OpenRequests

\* handle_open_standard_mining_channel is about no share.
LEMMA OpenChannelCalm ==
    ASSUME TypeOK, handle_open_standard_mining_channel
    PROVE  TypeOK' /\ Calm
<1> USE TypeOKGroups
<1> DEFINE n == Nth("open")
           errors == IF state \in {"ConnectionSetup", "V1SubscribeOrAuthorizeFail"}
                     THEN <<>> ELSE <<V2Frame("OpenError", n, 0)>>
<1>1. UsedOK' /\ used'["submit"] = used["submit"] /\ n \in Nat
  BY ReceiveLemma, Zenon DEF handle_open_standard_mining_channel, Inputs
<1>2. errors \in Seq(QuietFrames)
  <2>1. V2Frame("OpenError", n, 0) \in QuietFrames
    BY <1>1, V2FrameLemma, Zenon DEF FrameTypes, ShareTypes
  <2> QED
    BY <2>1
<1>3. PICK e \in Outcomes(v2_tx, Len(errors)) :
        /\ SubmitV2(errors, e)
        /\ \/ session' \in {"open", "closed"} /\ UNCHANGED <<state, upstream, channel>>
           \/ \E k \in Outcomes(v1_tx, Len(OpenRequests)) :
                /\ v2_channel_details' = n
                /\ UNCHANGED <<v2_conn_details, v2_target>>
                /\ state' = "OpenStandardMiningChannelPending"
                /\ \/ session' = "panicked" /\ UNCHANGED upstream
                   \/ /\ session' \in {"open", "closed"}
                      /\ SubmitV1(OpenRequests, k)
  BY Zenon DEF handle_open_standard_mining_channel, CloseUnless
<1>4. QuietStep
  BY <1>2, <1>3, OutcomesLemma, QuietSubmit, Zenon
<1>5. SessionOK' /\ ChannelOK'
  BY <1>1, <1>3, Zenon DEF SessionOK, States, ChannelOK, channel
<1>6. UpstreamOK'
  <2>1. CASE UNCHANGED upstream
    BY <2>1, Zenon DEF upstream, UpstreamOK
  <2>2. CASE \E k \in Outcomes(v1_tx, Len(OpenRequests)) : SubmitV1(OpenRequests, k)
    <3>1. PICK k \in Outcomes(v1_tx, Len(OpenRequests)) : SubmitV1(OpenRequests, k)
      BY <2>2, Zenon
    <3>2. k \in 0..Len(OpenRequests)
      BY OpenRequestsLemma, OutcomesLemma
    <3> QED
      BY <3>1, <3>2, OpenRequestsLemma, SubmitV1Lemma, Zenon
  <2> QED
    BY <1>3, <2>1, <2>2, Zenon
<1>7. NegotiatedOK' /\ JobsOK' /\ QueueOK' /\ HistoryOK' /\ UNCHANGED v2_submit_share_queue
  BY Zenon DEF handle_open_standard_mining_channel, negotiated, jobs, history, NegotiatedOK,
         JobsOK, JobMapOK, QueueOK, HistoryOK
<1> QED
  BY <1>1, <1>4, <1>5, <1>6, <1>7, Zenon DEF handle_open_standard_mining_channel, history, Calm, QuietStep

\* An unparsable result ends the session and answers no share.
LEMMA UnparsableResultCalm ==
    ASSUME TypeOK, NEW i \in 1..Len(v1_tx.log), UnparsableResult(i)
    PROVE  TypeOK' /\ Calm
<1> USE TypeOKGroups
<1>1. UpstreamOK' /\ used' = used
  BY AnsweredLemma, Zenon DEF UnparsableResult
<1>2. QuietStep
  BY QuietUnchanged, Zenon DEF UnparsableResult
<1> QED
  BY <1>1, <1>2, Zenon DEF UnparsableResult, SessionOK, negotiated, channel, jobs, history,
     NegotiatedOK, ChannelOK, JobsOK, JobMapOK, QueueOK, UsedOK, HistoryOK, Calm, QuietStep

\* handle_configure_result is about no share.
LEMMA ConfigureCalm ==
    ASSUME TypeOK, NEW i \in 1..Len(v1_tx.log), NEW rolling \in BOOLEAN,
           handle_configure_result(i, rolling)
    PROVE  TypeOK' /\ Calm
<1> USE TypeOKGroups
<1> DEFINE reply == IF rolling THEN "SetupConnectionSuccess" ELSE "SetupConnectionError"
           frames == <<V2Frame(reply, 0, 0)>>
<1>1. UpstreamOK' /\ used' = used
  BY AnsweredLemma, Zenon DEF handle_configure_result
<1>2. frames \in Seq(QuietFrames) /\ Len(frames) = 1
  <2>1. V2Frame(reply, 0, 0) \in QuietFrames
    BY V2FrameLemma, Zenon DEF FrameTypes, ShareTypes
  <2> QED
    BY <2>1
<1>3. PICK k \in Outcomes(v2_tx, 1) : CloseUnless(k = 1) /\ SubmitV2(frames, k)
  BY Zenon DEF handle_configure_result
<1>4. QuietStep
  <2>1. k \in 0..Len(frames)
    BY <1>2, OutcomesLemma, Zenon
  <2> HIDE DEF frames
  <2> QED
    BY <1>2, <1>3, <2>1, QuietSubmit, Zenon
<1>5. SessionOK'
  BY <1>3, Zenon DEF handle_configure_result, CloseUnless, SessionOK, States
<1> QED
  BY <1>1, <1>4, <1>5, Zenon DEF handle_configure_result, negotiated, channel, jobs, history,
     NegotiatedOK, ChannelOK, JobsOK, JobMapOK, QueueOK, UsedOK, HistoryOK, Calm, QuietStep

\* handle_extranonce_subscribe_result is about no share.
LEMMA ExtranonceSubscribeCalm ==
    ASSUME TypeOK, NEW i \in 1..Len(v1_tx.log), handle_extranonce_subscribe_result(i)
    PROVE  TypeOK' /\ Calm
<1> USE TypeOKGroups
<1>1. UpstreamOK' /\ used' = used
  BY AnsweredLemma, Zenon DEF handle_extranonce_subscribe_result
<1>2. QuietStep
  BY QuietUnchanged, Zenon DEF handle_extranonce_subscribe_result
<1> QED
  BY <1>1, <1>2, Zenon DEF handle_extranonce_subscribe_result, SessionOK, negotiated, channel,
     jobs, history, NegotiatedOK, ChannelOK, JobsOK, JobMapOK, QueueOK, UsedOK, HistoryOK,
     Calm, QuietStep

\* handle_subscribe_result is about no share, finalizing the channel included.
LEMMA SubscribeCalm ==
    ASSUME TypeOK, NEW i \in 1..Len(v1_tx.log), NEW size \in Sizes,
           handle_subscribe_result(i, size)
    PROVE  TypeOK' /\ Calm
<1> USE TypeOKGroups
<1>1. UpstreamOK' /\ used' = used
  BY AnsweredLemma, Zenon DEF handle_subscribe_result
<1>2. size \in Nat
  BY TranslationAssumption, Zenon
<1>3. /\ QuietStep /\ SessionOK' /\ NegotiatedOK' /\ JobsOK'
      /\ v2_channel_details' \in Nat
  <2>1. CASE FinalizeOrAbort(v1_authorized, TRUE, size)
    BY <1>2, <2>1, FinalizeLemma, Zenon DEF NegotiatedOK
  <2>2. CASE /\ v1_extra_nonce1' = TRUE
             /\ v1_extra_nonce2_size' = size
             /\ UNCHANGED <<session, state, v2_tx, v1_authorized, v2_channel_details, jobs>>
    BY <1>2, <2>2, QuietUnchanged, Zenon DEF NegotiatedOK, SessionOK, JobsOK, JobMapOK, jobs, ChannelOK
  <2> QED
    BY <2>1, <2>2, Zenon DEF handle_subscribe_result
<1> QED
  BY <1>1, <1>3, Zenon DEF handle_subscribe_result, history, ChannelOK, QueueOK, UsedOK,
     HistoryOK, Calm, QuietStep

\* handle_authorize_result is about no share, finalizing the channel included.
LEMMA AuthorizeCalm ==
    ASSUME TypeOK, NEW i \in 1..Len(v1_tx.log), handle_authorize_result(i)
    PROVE  TypeOK' /\ Calm
<1> USE TypeOKGroups
<1>1. UpstreamOK' /\ used' = used
  BY AnsweredLemma, Zenon DEF handle_authorize_result
<1>2. /\ QuietStep /\ SessionOK' /\ NegotiatedOK' /\ JobsOK'
      /\ v2_channel_details' \in Nat
  <2>1. CASE FinalizeOrAbort(TRUE, v1_extra_nonce1, v1_extra_nonce2_size)
    BY <2>1, FinalizeLemma, Zenon DEF NegotiatedOK
  <2>2. CASE /\ v1_authorized' = TRUE
             /\ UNCHANGED <<session, state, v2_tx, v1_extra_nonce1,
                            v1_extra_nonce2_size, v2_channel_details, jobs>>
    BY <2>2, QuietUnchanged, Zenon DEF NegotiatedOK, SessionOK, JobsOK, JobMapOK, jobs, ChannelOK
  <2> QED
    BY <2>1, <2>2, Zenon DEF handle_authorize_result
<1> QED
  BY <1>1, <1>2, Zenon DEF handle_authorize_result, history, ChannelOK, QueueOK, UsedOK,
     HistoryOK, Calm, QuietStep

\* A subscribe or authorize result that is no success is about no share.
LEMMA UnsuccessfulResultCalm ==
    ASSUME TypeOK, NEW i \in 1..Len(v1_tx.log), UnsuccessfulResult(i)
    PROVE  TypeOK' /\ Calm
<1> USE TypeOKGroups
<1>1. UpstreamOK' /\ used' = used
  BY AnsweredLemma, Zenon DEF UnsuccessfulResult
<1>2. QuietStep /\ SessionOK' /\ NegotiatedOK' /\ v2_channel_details' \in Nat
  <2>1. <<>> \in Seq(QuietFrames)
    OBVIOUS
  <2> QED
    BY <2>1, AbortLemma, Zenon DEF UnsuccessfulResult
<1> QED
  BY <1>1, <1>2, Zenon DEF UnsuccessfulResult, jobs, history, JobsOK, JobMapOK, ChannelOK,
     QueueOK, UsedOK, HistoryOK, Calm, QuietStep

\* handle_authorize_or_subscribe_error is about no share.
LEMMA AuthorizeOrSubscribeErrorCalm ==
    ASSUME TypeOK, NEW i \in 1..Len(v1_tx.log), handle_authorize_or_subscribe_error(i)
    PROVE  TypeOK' /\ Calm
<1> USE TypeOKGroups
<1>1. UpstreamOK' /\ used' = used
  BY AnsweredLemma, Zenon DEF handle_authorize_or_subscribe_error
<1>2. QuietStep /\ SessionOK' /\ NegotiatedOK' /\ v2_channel_details' \in Nat
  <2>1. CASE AbortOpenChannel(<<>>)
    <3>1. <<>> \in Seq(QuietFrames)
      OBVIOUS
    <3> QED
      BY <2>1, <3>1, AbortLemma, Zenon
  <2>2. CASE UNCHANGED <<session, state, v2_tx, negotiated, v2_channel_details>>
    BY <2>2, QuietUnchanged, Zenon DEF SessionOK, negotiated, NegotiatedOK, ChannelOK
  <2> QED
    BY <2>1, <2>2, Zenon DEF handle_authorize_or_subscribe_error
<1> QED
  BY <1>1, <1>2, Zenon DEF handle_authorize_or_subscribe_error, jobs, history, JobsOK, JobMapOK,
     ChannelOK, QueueOK, UsedOK, HistoryOK, Calm, QuietStep

\* Frames that v2_tx refused are frames.
LEMMA UnacceptedLemma ==
    ASSUME NEW S, NEW frames \in Seq(S), NEW k \in 0..Len(frames)
    PROVE  Unaccepted(frames, k) \subseteq S
  BY DEF Unaccepted

\* So is the job that perform_notify could not build.
LEMMA UnbuiltLemma ==
    ASSUME JobsOK
    PROVE  Unbuilt \subseteq V2Frames
<1>1. V2Frame("NewMiningJob", v2_job_id, v1_deferred_notify.src) \in V2Frames
  BY IdsLemma, V2FrameLemma, Zenon DEF JobsOK, JobMapOK, Notifies, FrameTypes
<1> QED
  BY <1>1, Zenon DEF Unbuilt

\* handle_set_difficulty is about no share, finalizing the channel included.
LEMMA SetDifficultyCalm ==
    ASSUME TypeOK, handle_set_difficulty
    PROVE  TypeOK' /\ Calm
<1> USE TypeOKGroups
<1> DEFINE n == Nth("difficulty")
<1>1. UsedOK' /\ used'["submit"] = used["submit"] /\ n \in Nat
  BY ReceiveLemma, Zenon DEF handle_set_difficulty, Inputs
<1>2. QuietStep /\ SessionOK' /\ JobsOK' /\ lost' \subseteq V2Frames /\ lost \subseteq lost'
  <2>1. CASE UNCHANGED <<session, state, v2_tx, jobs, lost>>
    BY <2>1, QuietUnchanged, Zenon DEF SessionOK, jobs, JobsOK, JobMapOK, HistoryOK
  <2>2. CASE \E k \in Outcomes(v2_tx, Len(FinalFrames(n))) :
               /\ state' \in {state, "Operational"}
               /\ session' \in {"panicked", "open"}
               /\ SubmitV2(FinalFrames(n), k)
               /\ FinalJobs(k, v1_extra_nonce2_size)
               /\ lost' = lost \cup Unaccepted(FinalFrames(n), k) \cup Unbuilt
    <3>1. FinalFrames(n) \in Seq(QuietFrames)
      BY <1>1, FinalFramesLemma, Zenon
    <3>2. PICK k \in Outcomes(v2_tx, Len(FinalFrames(n))) :
               /\ state' \in {state, "Operational"}
               /\ session' \in {"panicked", "open"}
               /\ SubmitV2(FinalFrames(n), k)
               /\ FinalJobs(k, v1_extra_nonce2_size)
               /\ lost' = lost \cup Unaccepted(FinalFrames(n), k) \cup Unbuilt
      BY <2>2, Zenon
    <3>3. k \in 0..Len(FinalFrames(n))
      BY <3>1, OutcomesLemma
    <3>4. QuietStep
      BY <3>1, <3>2, <3>3, QuietSubmit, Zenon
    <3>5. JobsOK'
      BY <3>2, FinalJobsLemma, Zenon DEF NegotiatedOK
    <3>6. Unaccepted(FinalFrames(n), k) \subseteq V2Frames
      BY <3>1, <3>3, UnacceptedLemma, Zenon DEF QuietFrames
    <3>7. lost' \subseteq V2Frames
      BY <3>2, <3>6, UnbuiltLemma, Zenon DEF HistoryOK
    <3> QED
      BY <3>2, <3>4, <3>5, <3>7, Zenon DEF SessionOK, States
  <2>3. CASE \E k \in Outcomes(v2_tx, 1) :
               /\ SubmitV2(SetTarget(n), k)
               /\ lost' = lost \cup Unaccepted(SetTarget(n), k)
               /\ UNCHANGED <<session, state, jobs>>
    <3>1. SetTarget(n) \in Seq(QuietFrames) /\ Len(SetTarget(n)) = 1
      <4>1. V2Frame("SetTarget", 0, n) \in QuietFrames
        BY <1>1, V2FrameLemma, Zenon DEF FrameTypes, ShareTypes
      <4> QED
        BY <4>1 DEF SetTarget
    <3>2. PICK k \in Outcomes(v2_tx, 1) :
               /\ SubmitV2(SetTarget(n), k)
               /\ lost' = lost \cup Unaccepted(SetTarget(n), k)
               /\ UNCHANGED <<session, state, jobs>>
      BY <2>3, Zenon
    <3>3. k \in 0..Len(SetTarget(n))
      BY <3>1, OutcomesLemma, Zenon
    <3>4. QuietStep
      BY <3>1, <3>2, <3>3, QuietSubmit, Zenon
    <3>5. Unaccepted(SetTarget(n), k) \subseteq V2Frames
      BY <3>1, <3>3, UnacceptedLemma, Zenon DEF QuietFrames
    <3> QED
      BY <3>2, <3>4, <3>5, Zenon DEF SessionOK, jobs, JobsOK, JobMapOK, HistoryOK
  <2> QED
    BY <2>1, <2>2, <2>3, Zenon DEF handle_set_difficulty
<1> QED
  BY <1>1, <1>2, Zenon DEF handle_set_difficulty, upstream, negotiated, UpstreamOK, NegotiatedOK,
     ChannelOK, QueueOK, HistoryOK, Calm, QuietStep

\* handle_set_extranonce is about no share.
LEMMA SetExtranonceCalm ==
    ASSUME TypeOK, NEW size \in Sizes, handle_set_extranonce(size)
    PROVE  TypeOK' /\ Calm
<1> USE TypeOKGroups
<1>1. UsedOK' /\ used'["submit"] = used["submit"]
  BY ReceiveLemma, Zenon DEF handle_set_extranonce, Inputs
<1>2. QuietStep
  BY QuietUnchanged, Zenon DEF handle_set_extranonce
<1>3. size \in Nat
  BY TranslationAssumption, Zenon
<1> QED
  BY <1>1, <1>2, <1>3, Zenon DEF handle_set_extranonce, SessionOK, upstream, UpstreamOK,
     NegotiatedOK, channel, ChannelOK, jobs, JobsOK, JobMapOK, QueueOK, history, HistoryOK,
     Calm, QuietStep

\* handle_notify is about no share, deferred or performed.
LEMMA NotifyCalm ==
    ASSUME TypeOK, NEW clean \in BOOLEAN, NEW good \in BOOLEAN, handle_notify(clean, good)
    PROVE  TypeOK' /\ Calm
<1> USE TypeOKGroups
<1> DEFINE n == [src |-> Nth("notify"), clean |-> clean, good |-> good]
<1>1. UsedOK' /\ used'["submit"] = used["submit"] /\ Nth("notify") \in Nat
  BY ReceiveLemma, Zenon DEF handle_notify, Inputs
<1>2. n \in Notifies
  BY <1>1, Zenon DEF Notifies
<1> HIDE DEF n
<1>3. QuietStep /\ SessionOK' /\ JobsOK'
  <2>1. CASE /\ v1_deferred_notify' = n
             /\ UNCHANGED <<session, state, v2_tx, v2_job_id, v2_to_v1_job_map>>
    BY <1>2, <2>1, QuietUnchanged, Zenon DEF SessionOK, JobsOK, JobMapOK
  <2>2. CASE \E k \in Outcomes(v2_tx, Len(JobFrames(n))) :
               /\ RegisterJob(n, v1_extra_nonce2_size)
               /\ UNCHANGED <<v1_deferred_notify, state>>
               /\ session' \in {"panicked", "open", "closed"}
               /\ UNCHANGED v2_tx \/ SubmitV2(JobFrames(n), k)
    <3>1. PICK k \in Outcomes(v2_tx, Len(JobFrames(n))) :
               /\ RegisterJob(n, v1_extra_nonce2_size)
               /\ UNCHANGED <<v1_deferred_notify, state>>
               /\ session' \in {"panicked", "open", "closed"}
               /\ UNCHANGED v2_tx \/ SubmitV2(JobFrames(n), k)
      BY <2>2, Zenon
    <3>2. JobFrames(n) \in Seq(QuietFrames)
      BY <1>2, JobFramesLemma, Zenon DEF JobsOK
    <3>3. k \in 0..Len(JobFrames(n))
      BY <3>2, OutcomesLemma
    <3>4. QuietStep
      BY <3>1, <3>2, <3>3, QuietSubmit, QuietUnchanged, Zenon
    <3>5. JobMapOK'
      BY <1>2, <3>1, RegisterJobLemma, Zenon DEF JobsOK, NegotiatedOK
    <3> QED
      BY <3>1, <3>4, <3>5, Zenon DEF SessionOK, JobsOK
  <2> QED
    BY <2>1, <2>2, Zenon DEF handle_notify, CloseUnless, n
<1> QED
  BY <1>1, <1>3, Zenon DEF handle_notify, upstream, negotiated, channel, UpstreamOK, NegotiatedOK,
     ChannelOK, QueueOK, HistoryOK, Calm, QuietStep

\* handle_client_reconnect is about no share.
LEMMA ClientReconnectCalm ==
    ASSUME TypeOK, NEW parsable \in BOOLEAN, handle_client_reconnect(parsable)
    PROVE  TypeOK' /\ Calm
<1> USE TypeOKGroups
<1> DEFINE frames == IF parsable THEN <<V2Frame("Reconnect", 0, 0)>> ELSE <<>>
<1>1. UsedOK' /\ used'["submit"] = used["submit"]
  BY ReceiveLemma, Zenon DEF handle_client_reconnect, Inputs
<1>2. frames \in Seq(QuietFrames)
  <2>1. V2Frame("Reconnect", 0, 0) \in QuietFrames
    BY V2FrameLemma, Zenon DEF FrameTypes, ShareTypes
  <2> QED
    BY <2>1
<1>3. PICK k \in Outcomes(v2_tx, Len(frames)) :
        session' \in {"open", "closed"} /\ SubmitV2(frames, k)
  BY Zenon DEF handle_client_reconnect, CloseUnless
<1>4. QuietStep
  BY <1>2, <1>3, OutcomesLemma, QuietSubmit, Zenon
<1> QED
  BY <1>1, <1>3, <1>4, Zenon DEF handle_client_reconnect, SessionOK, upstream, UpstreamOK,
     negotiated, NegotiatedOK, channel, ChannelOK, jobs, JobsOK, JobMapOK, QueueOK, history,
     HistoryOK, Calm, QuietStep

\* Answering a ping is about no share.
LEMMA PingCalm ==
    ASSUME TypeOK, handle_ping
    PROVE  TypeOK' /\ Calm
<1> USE TypeOKGroups
<1>1. UsedOK' /\ used'["submit"] = used["submit"]
  BY ReceiveLemma, Zenon DEF handle_ping, Inputs
<1>2. PICK k \in Outcomes(v1_tx, 1) :
        session' \in {"open", "closed"} /\ v1_tx' = Accept(v1_tx, First(<<V1Pong>>, k))
  BY Zenon DEF handle_ping, CloseUnless
<1>3. v1_tx' \in Channel(V1Frames)
  <2>1. <<V1Pong>> \in Seq(V1Frames) /\ Len(<<V1Pong>>) = 1
    BY DEF V1Pong, V1Request, V1Frames
  <2>2. k \in 0..Len(<<V1Pong>>)
    BY <2>1, OutcomesLemma, Zenon
  <2>3. First(<<V1Pong>>, k) \in Seq(V1Frames)
    BY <2>1, <2>2, FirstLemma, Zenon
  <2> QED
    BY <1>2, <2>3, AcceptLemma, Zenon DEF UpstreamOK
<1>4. QuietStep
  BY QuietUnchanged, Zenon DEF handle_ping
<1> QED
  BY <1>1, <1>2, <1>3, <1>4, Zenon DEF handle_ping, SessionOK, UpstreamOK, negotiated,
     NegotiatedOK, channel, ChannelOK, jobs, JobsOK, JobMapOK, QueueOK, history, HistoryOK,
     Calm, QuietStep

\* The send tasks and the end of ConnTranslation::run answer no share.
LEMMA TaskCalm ==
    ASSUME TypeOK, v2_send_task \/ v1_send_task_ends \/ v2_send_task_ends \/ run_ends
    PROVE  TypeOK' /\ Calm
<1> USE TypeOKGroups
<1>1. ASSUME V2TxOK', v2_tx'.log = v2_tx.log
      PROVE  QuietStep
  BY <1>1 DEF QuietStep, V2TxOK, Channel
<1> USE DEF SessionOK, upstream, UpstreamOK, negotiated, NegotiatedOK, channel, ChannelOK,
            jobs, JobsOK, JobMapOK, QueueOK, history, HistoryOK
<1>2. CASE v2_send_task
  <2>1. V2TxOK' /\ v2_tx'.log = v2_tx.log
    BY <1>2, ChannelLemma, Zenon DEF v2_send_task, V2TxOK
  <2> QED
    BY <1>1, <1>2, <2>1, Zenon DEF v2_send_task, UsedOK, Calm
<1>3. CASE v1_send_task_ends
  <2>1. v1_tx' \in Channel(V1Frames)
    BY <1>3, ChannelLemma, Zenon DEF v1_send_task_ends
  <2>2. UsedOK' /\ used'["submit"] = used["submit"]
    BY <1>3, ReceiveLemma, Zenon DEF v1_send_task_ends, Inputs
  <2>3. QuietStep
    BY <1>3, QuietUnchanged, Zenon DEF v1_send_task_ends
  <2> QED
    BY <1>3, <2>1, <2>2, <2>3, Zenon DEF v1_send_task_ends, Calm, QuietStep
<1>4. CASE v2_send_task_ends
  <2>1. V2TxOK' /\ v2_tx'.log = v2_tx.log
    BY <1>4, ChannelLemma, Zenon DEF v2_send_task_ends, V2TxOK
  <2>2. UsedOK' /\ used'["submit"] = used["submit"]
    BY <1>4, ReceiveLemma, Zenon DEF v2_send_task_ends, Inputs
  <2> QED
    BY <1>1, <1>4, <2>1, <2>2, Zenon DEF v2_send_task_ends, Calm
<1>5. CASE run_ends
  <2>1. UsedOK' /\ used'["submit"] = used["submit"]
    BY <1>5, ReceiveLemma, Zenon DEF run_ends, Inputs
  <2>2. QuietStep
    BY <1>5, QuietUnchanged, Zenon DEF run_ends
  <2> QED
    BY <1>5, <2>1, <2>2, Zenon DEF run_ends, Calm, QuietStep
<1> QED
  BY <1>2, <1>3, <1>4, <1>5, Zenon

-----------------------------------------------------------------------------
(* The two handlers that are about shares.                                 *)

Share == used["submit"] + 1

\* The log grows by an answer to that share.
AnswerAppended(share) ==
    /\ Len(v2_tx'.log) = Len(v2_tx.log) + 1
    /\ \A i \in 1..Len(v2_tx.log) : v2_tx'.log[i] = v2_tx.log[i]
    /\ IsShareFrame(v2_tx'.log[Len(v2_tx.log) + 1])
    /\ v2_tx'.log[Len(v2_tx.log) + 1].ref = share

\* A share comes in: it waits, or is answered at once if none waits before
\* it, or gets no answer, which ends the session or is on record.
SubmitStep ==
    /\ used'["submit"] = Share
    /\ lost \subseteq lost'
    /\ \/ /\ v2_tx'.log = v2_tx.log
          /\ UNCHANGED v2_submit_share_queue
          /\ Live' => /\ v2_submit_share_queue = <<>>
                      /\ V2Frame("SubmitSharesError", Share, 0) \in lost'
       \/ /\ v2_tx'.log = v2_tx.log
          /\ \E item \in QueueItems :
                /\ item.share = Share
                /\ v2_submit_share_queue' = Append(v2_submit_share_queue, item)
       \/ /\ v2_submit_share_queue = <<>>
          /\ UNCHANGED v2_submit_share_queue
          /\ AnswerAppended(Share)

\* The oldest k shares of the queue are answered, in their order, and the
\* oldest p leave it; more leave it than are answered only when the session ends.
AnswerStep(k, p) ==
    /\ k <= p
    /\ Len(v2_tx'.log) = Len(v2_tx.log) + k
    /\ \A i \in 1..Len(v2_tx.log) : v2_tx'.log[i] = v2_tx.log[i]
    /\ \A i \in 1..k : /\ IsShareFrame(v2_tx'.log[Len(v2_tx.log) + i])
                       /\ v2_tx'.log[Len(v2_tx.log) + i].ref = v2_submit_share_queue[i].share
    /\ v2_submit_share_queue' = SubSeq(v2_submit_share_queue, p + 1, Len(v2_submit_share_queue))
    /\ UNCHANGED <<used, lost>>
    /\ Live' => k = p /\ p > 0

\* The elements of a log to which frames are appended.
LEMMA ConcatLemma ==
    ASSUME NEW s \in Seq(V2Frames), NEW t \in Seq(V2Frames)
    PROVE  /\ Len(s \o t) = Len(s) + Len(t)
           /\ \A i \in 1..Len(s) : (s \o t)[i] = s[i]
           /\ \A i \in 1..Len(t) : (s \o t)[Len(s) + i] = t[i]
<1>1. Len(s \o t) = Len(s) + Len(t)
  OBVIOUS
<1>2. ASSUME NEW i \in 1..Len(s)
      PROVE  (s \o t)[i] = s[i]
  OBVIOUS
<1>3. ASSUME NEW i \in 1..Len(t)
      PROVE  (s \o t)[Len(s) + i] = t[i]
  OBVIOUS
<1> QED
  BY <1>1, <1>2, <1>3, Zenon

\* submit_v2_message appends the accepted frames to the log, in order.
LEMMA SubmitV2Lemma ==
    ASSUME V2TxOK, NEW fs \in Seq(V2Frames), NEW k \in 0..Len(fs), SubmitV2(fs, k)
    PROVE  /\ V2TxOK'
           /\ Len(v2_tx'.log) = Len(v2_tx.log) + k
           /\ \A i \in 1..Len(v2_tx.log) : v2_tx'.log[i] = v2_tx.log[i]
           /\ \A i \in 1..k : v2_tx'.log[Len(v2_tx.log) + i] = fs[i]
<1>1. /\ First(fs, k) \in Seq(V2Frames)
      /\ Len(First(fs, k)) = k
      /\ \A i \in 1..k : First(fs, k)[i] = fs[i]
  BY FirstLemma, Zenon
<1>2. V2TxOK' /\ v2_tx'.log = v2_tx.log \o First(fs, k)
  BY <1>1, AcceptLemma, Zenon DEF SubmitV2, V2TxOK
<1>3. v2_tx.log \in Seq(V2Frames)
  BY Zenon DEF V2TxOK, Channel
<1> DEFINE first == First(fs, k)
<1> HIDE DEF first
<1>4. first \in Seq(V2Frames) /\ Len(first) = k
  BY <1>1, Zenon DEF first
<1>5. /\ Len(v2_tx.log \o first) = Len(v2_tx.log) + k
      /\ \A i \in 1..Len(v2_tx.log) : (v2_tx.log \o first)[i] = v2_tx.log[i]
      /\ \A i \in 1..k : (v2_tx.log \o first)[Len(v2_tx.log) + i] = first[i]
  <2> DEFINE log == v2_tx.log
  <2>1. log \in Seq(V2Frames)
    BY <1>3, Zenon
  <2> HIDE DEF log
  <2>2. /\ Len(log \o first) = Len(log) + Len(first)
        /\ \A i \in 1..Len(log) : (log \o first)[i] = log[i]
        /\ \A i \in 1..Len(first) : (log \o first)[Len(log) + i] = first[i]
    BY <1>4, <2>1, ConcatLemma, Zenon
  <2> QED
    BY <1>4, <2>2, Zenon DEF log
<1> QED
  BY <1>1, <1>2, <1>5, Zenon DEF first

\* reject_shares sends, queues, or loses the rejection of the share.
LEMMA RejectLemma ==
    ASSUME V2TxOK, QueueOK, HistoryOK, NEW share \in Nat, RejectLocally(share)
    PROVE  /\ V2TxOK' /\ QueueOK' /\ lost' \subseteq V2Frames /\ lost \subseteq lost'
           /\ \/ /\ v2_tx'.log = v2_tx.log
                 /\ UNCHANGED v2_submit_share_queue
                 /\ v2_submit_share_queue = <<>>
                 /\ V2Frame("SubmitSharesError", share, 0) \in lost'
              \/ /\ v2_tx'.log = v2_tx.log
                 /\ \E item \in QueueItems :
                       /\ item.share = share
                       /\ v2_submit_share_queue' = Append(v2_submit_share_queue, item)
              \/ /\ v2_submit_share_queue = <<>>
                 /\ UNCHANGED v2_submit_share_queue
                 /\ AnswerAppended(share)
<1> DEFINE error == V2Frame("SubmitSharesError", share, 0)
<1>1. error \in V2Frames /\ IsShareFrame(error) /\ error.ref = share
  BY V2FrameLemma, Zenon DEF FrameTypes, V2Frame, IsShareFrame, ShareTypes
<1> HIDE DEF error
<1>2. CASE v2_submit_share_queue = <<>>
  <2>1. PICK k \in Outcomes(v2_tx, 1) :
          /\ SubmitV2(<<error>>, k)
          /\ lost' = IF k = 1 THEN lost ELSE lost \cup {error}
          /\ UNCHANGED v2_submit_share_queue
    BY <1>2, Zenon DEF RejectLocally, error
  <2>2. k \in {0, 1}
    BY OutcomesLemma
  <2>3. <<error>> \in Seq(V2Frames) /\ Len(<<error>>) = 1 /\ <<error>>[1] = error
    BY <1>1
  <2>4. /\ V2TxOK' /\ Len(v2_tx'.log) = Len(v2_tx.log) + k
        /\ \A i \in 1..Len(v2_tx.log) : v2_tx'.log[i] = v2_tx.log[i]
        /\ \A i \in 1..k : v2_tx'.log[Len(v2_tx.log) + i] = <<error>>[i]
    <3>1. k \in 0..Len(<<error>>)
      BY <2>2, <2>3
    <3> QED
      BY <2>1, <2>3, <3>1, SubmitV2Lemma, Zenon
  <2>5. CASE k = 0
    <3>1. v2_tx'.log = v2_tx.log
      BY <2>4, <2>5 DEF V2TxOK, Channel
    <3>2. lost' = lost \cup {error} /\ UNCHANGED v2_submit_share_queue
      BY <2>1, <2>5
    <3>3. QueueOK' /\ lost' \subseteq V2Frames
      BY <1>1, <3>2, Zenon DEF HistoryOK, QueueOK
    <3> QED
      BY <1>2, <2>4, <3>1, <3>2, <3>3, Zenon DEF error
  <2>6. CASE k = 1
    <3>1. AnswerAppended(share)
      BY <1>1, <2>3, <2>4, <2>6 DEF AnswerAppended
    <3> QED
      BY <1>2, <2>1, <2>4, <2>6, <3>1, Zenon DEF HistoryOK, QueueOK
  <2> QED
    BY <2>2, <2>5, <2>6, Zenon
<1>3. CASE v2_submit_share_queue # <<>>
  <2>1. QueuedError(share) \in QueueItems /\ QueuedError(share).share = share
    BY Zenon DEF QueuedError, QueueItems
  <2>2. /\ v2_submit_share_queue' = Append(v2_submit_share_queue, QueuedError(share))
        /\ UNCHANGED <<v2_tx, lost>>
    BY <1>3, Zenon DEF RejectLocally
  <2> QED
    BY <2>1, <2>2 DEF V2TxOK, QueueOK, HistoryOK
<1> QED
  BY <1>2, <1>3, Zenon

\* A mining.submit is a frame for the V1 server.
LEMMA SubmitFrameLemma ==
    ASSUME NEW share \in Nat, NEW src \in Nat, NEW size \in Nat
    PROVE  [method |-> "submit", id |-> 0, share |-> share, src |-> src, size |-> size]
              \in V1Frames
  BY Zenon DEF V1Frames, Methods

\* handle_submit_shares_standard takes the share in as SubmitStep says.
LEMMA SubmitSharesStep ==
    ASSUME TypeOK, NEW channel_ok \in BOOLEAN, NEW job \in Ids,
           handle_submit_shares_standard(channel_ok, job)
    PROVE  TypeOK' /\ SubmitStep
<1>0. /\ SessionOK /\ UpstreamOK /\ V2TxOK /\ NegotiatedOK /\ ChannelOK
      /\ JobsOK /\ QueueOK /\ UsedOK /\ HistoryOK
  BY TypeOKGroups, Zenon
<1>1. UsedOK' /\ used'["submit"] = Share /\ Nth("submit") = Share /\ Share \in Nat
  BY <1>0, ReceiveLemma, Zenon DEF handle_submit_shares_standard, Inputs, Nth, Share
<1> DEFINE P == V2TxOK' /\ QueueOK' /\ lost' \subseteq V2Frames /\ SubmitStep
<1>2. ASSUME RejectLocally(Share)
      PROVE  P
  BY <1>0, <1>1, <1>2, RejectLemma, Zenon DEF SubmitStep
<1>3. ASSUME UNCHANGED <<v2_tx, v2_submit_share_queue, lost>>, ~Live'
      PROVE  P
  BY <1>0, <1>1, <1>3, Zenon DEF SubmitStep, V2TxOK, QueueOK, HistoryOK
<1>4. ASSUME UNCHANGED <<v2_tx, lost>>,
             v2_submit_share_queue' = Append(v2_submit_share_queue, Mapping(v1_req_id, Share))
      PROVE  P
  <2>1. Mapping(v1_req_id, Share) \in QueueItems /\ Mapping(v1_req_id, Share).share = Share
    BY <1>0, <1>1, IdsLemma, Zenon DEF Mapping, QueueItems, UpstreamOK
  <2>2. V2TxOK' /\ lost' \subseteq V2Frames
    BY <1>0, <1>4, Zenon DEF V2TxOK, HistoryOK
  <2>3. QueueOK'
    BY <1>0, <1>4, <2>1 DEF QueueOK
  <2>4. SubmitStep
    BY <1>1, <1>4, <2>1, Zenon DEF SubmitStep
  <2> QED
    BY <2>2, <2>3, <2>4, Zenon
<1> DEFINE submit == <<SubmitRequest(job)>>
<1>5. P /\ UpstreamOK' /\ session' \in {"open", "closed", "panicked"}
  <2>1. CASE /\ session' \in {"open", "closed"}
             /\ RejectLocally(Share)
             /\ UNCHANGED upstream
    BY <1>0, <1>2, <2>1, Zenon DEF upstream, UpstreamOK
  <2>2. CASE /\ session' = "panicked"
             /\ UNCHANGED <<upstream, v2_tx, v2_submit_share_queue, lost>>
    BY <1>0, <1>3, <2>2, Zenon DEF upstream, UpstreamOK, Live
  <2>3. CASE /\ job \in DOMAIN v2_to_v1_job_map
             /\ \E k \in Outcomes(v1_tx, 1) :
                  /\ session' = "open"
                  /\ SubmitV1(submit, k)
                  /\ \/ /\ UNCHANGED <<v2_tx, lost>>
                        /\ v2_submit_share_queue' =
                             Append(v2_submit_share_queue, Mapping(v1_req_id, Share))
                     \/ RejectLocally(Share)
    <3>1. /\ submit \in Seq(V1Frames)
          /\ Len(submit) = 1
          /\ submit[1].method \in Methods
      <4>1. v2_to_v1_job_map[job].src \in Nat /\ v1_extra_nonce2_size \in Nat
        BY <1>0, <2>3, Zenon DEF JobsOK, JobMapOK, Templates, NegotiatedOK
      <4>2. SubmitRequest(job) = [method |-> "submit", id |-> 0, share |-> Share,
                                  src |-> v2_to_v1_job_map[job].src,
                                  size |-> v1_extra_nonce2_size]
        BY <1>1, Zenon DEF SubmitRequest
      <4>3. SubmitRequest(job) \in V1Frames
        BY <1>1, <4>1, <4>2, SubmitFrameLemma, Zenon
      <4>4. SubmitRequest(job).method \in Methods
        BY <4>2 DEF Methods
      <4> QED
        BY <4>3, <4>4
    <3>2. PICK k \in Outcomes(v1_tx, 1) :
                  /\ session' = "open"
                  /\ SubmitV1(submit, k)
                  /\ \/ /\ UNCHANGED <<v2_tx, lost>>
                        /\ v2_submit_share_queue' =
                             Append(v2_submit_share_queue, Mapping(v1_req_id, Share))
                     \/ RejectLocally(Share)
      BY <2>3, Zenon
    <3>3. k \in 0..Len(submit)
      BY <3>1, OutcomesLemma, Zenon
    <3> HIDE DEF submit, P
    <3>4. UpstreamOK'
      BY <1>0, <3>1, <3>2, <3>3, SubmitV1Lemma, SMTT(30)
    <3> QED
      BY <1>2, <1>4, <3>2, <3>4, Zenon
  <2> HIDE DEF P
  <2> QED
    BY <1>1, <2>1, <2>2, <2>3, Zenon DEF handle_submit_shares_standard
<1> QED
  BY <1>0, <1>1, <1>5, TypeOKGroups, Zenon DEF handle_submit_shares_standard, SessionOK, negotiated, NegotiatedOK,
     channel, ChannelOK, jobs, JobsOK, JobMapOK, HistoryOK

\* Shares that leave the queue of a session that ends may go unanswered.
LEMMA AbandonLemma ==
    ASSUME V2TxOK, NEW p \in Nat, ~Live', UNCHANGED <<v2_tx, used, lost>>,
           v2_submit_share_queue' =
             SubSeq(v2_submit_share_queue, p + 1, Len(v2_submit_share_queue))
    PROVE  AnswerStep(0, p)
<1>1. Len(v2_tx.log) \in Nat
  BY DEF V2TxOK, Channel
<1> QED
  BY <1>1 DEF AnswerStep

\* The answer to the oldest share takes the rejections behind it along, as many
\* of them as v2_tx accepts.
LEMMA ResponsesLemma ==
    ASSUME V2TxOK, QueueOK, v2_submit_share_queue # <<>>, UNCHANGED <<used, lost>>,
           NEW good \in BOOLEAN, NEW m \in 0..Len(Tail(v2_submit_share_queue)),
           NEW k \in Outcomes(v2_tx, m + 1), CloseUnless(k = m + 1),
           SubmitV2(ShareResponses(good, m), k),
           v2_submit_share_queue' = SubSeq(Tail(v2_submit_share_queue),
                                           1 + (IF k < m THEN k ELSE m),
                                           Len(Tail(v2_submit_share_queue)))
    PROVE  /\ session' \in {"open", "closed"} /\ V2TxOK' /\ QueueOK'
           /\ \E n, p \in 0..Len(v2_submit_share_queue) : AnswerStep(n, p)
<1> DEFINE queue == v2_submit_share_queue
           rest == Tail(v2_submit_share_queue)
           fs == ShareResponses(good, m)
           p == 1 + (IF k < m THEN k ELSE m)
<1>0. queue \in Seq(QueueItems) /\ Len(queue) \in Nat /\ queue # <<>>
  BY DEF QueueOK
<1>1. /\ rest \in Seq(QueueItems)
      /\ Len(queue) = Len(rest) + 1
      /\ \A j \in 1..Len(rest) : rest[j] = queue[j + 1]
  BY <1>0
<1>2. m \in Nat /\ k \in 0..(m + 1) /\ k \in 0..Len(queue) /\ p \in 1..Len(queue) /\ k <= p
  <2>1. m \in Nat /\ m <= Len(rest) /\ Len(rest) \in Nat
    BY <1>1
  <2>2. k \in 0..(m + 1)
    BY <2>1, OutcomesLemma
  <2> QED
    BY <1>1, <2>1, <2>2 DEF p
<1>3. /\ fs \in Seq(V2Frames) /\ Len(fs) = m + 1
      /\ \A j \in 1..(m + 1) : IsShareFrame(fs[j]) /\ fs[j].ref = queue[j].share
  <2>1. ASSUME NEW j \in 1..(m + 1),
               NEW type \in {"SubmitSharesSuccess", "SubmitSharesError"}
        PROVE  /\ V2Frame(type, queue[j].share, 0) \in V2Frames
               /\ IsShareFrame(V2Frame(type, queue[j].share, 0))
               /\ V2Frame(type, queue[j].share, 0).ref = queue[j].share
    <3>1. queue[j] \in QueueItems
      BY <1>0, <1>1, <1>2
    <3>2. queue[j].share \in Nat
      BY <3>1, Zenon DEF QueueItems
    <3>3. type \in FrameTypes
      BY Zenon DEF FrameTypes
    <3>4. V2Frame(type, queue[j].share, 0) \in V2Frames
      BY <3>2, <3>3, V2FrameLemma, Zenon
    <3> QED
      BY <3>4, Zenon DEF V2Frame, IsShareFrame, ShareTypes
  <2> DEFINE F(j) == V2Frame(IF j = 1 /\ good THEN "SubmitSharesSuccess"
                                             ELSE "SubmitSharesError",
                             queue[j].share, 0)
  <2>2. \A j \in 1..(m + 1) : F(j) \in V2Frames /\ IsShareFrame(F(j)) /\ F(j).ref = queue[j].share
    BY <2>1, Zenon
  <2>3. fs = [j \in 1..(m + 1) |-> F(j)]
    BY Zenon DEF ShareResponses
  <2> HIDE DEF F, fs, queue
  <2>4. \A j \in 1..(m + 1) : fs[j] = F(j)
    BY <2>3, Zenon
  <2>5. fs \in Seq(V2Frames)
    BY <1>2, <2>2, <2>3
  <2>6. Len(fs) = m + 1
    BY <1>2, <2>3
  <2> QED
    BY <2>2, <2>4, <2>5, <2>6, Zenon
<1> HIDE DEF fs
<1>4. /\ V2TxOK' /\ Len(v2_tx'.log) = Len(v2_tx.log) + k
      /\ \A j \in 1..Len(v2_tx.log) : v2_tx'.log[j] = v2_tx.log[j]
      /\ \A j \in 1..k : v2_tx'.log[Len(v2_tx.log) + j] = fs[j]
  <2>1. k \in 0..Len(fs) /\ SubmitV2(fs, k)
    BY <1>2, <1>3, Zenon DEF fs
  <2> QED
    BY <1>3, <2>1, SubmitV2Lemma, Zenon
<1>5. /\ v2_submit_share_queue' = SubSeq(queue, p + 1, Len(queue))
      /\ v2_submit_share_queue' \in Seq(QueueItems)
  <2>1. p <= Len(rest) + 1 /\ p \in Nat /\ p > 0
    BY <1>1, <1>2
  <2>2. v2_submit_share_queue' = SubSeq(rest, p, Len(rest))
    BY Zenon
  <2> HIDE DEF p, rest, queue
  <2>3. SubSeq(rest, p, Len(rest)) \in Seq(QueueItems)
    BY <1>1, <2>1
  <2>4. SubSeq(rest, p, Len(rest)) = SubSeq(queue, p + 1, Len(queue))
    BY <1>0, <1>1, <2>1
  <2> QED
    BY <2>2, <2>3, <2>4, Zenon
<1>6. Live' => k = p /\ p > 0
  BY <1>2 DEF CloseUnless, Live
<1> HIDE DEF p
<1>7. AnswerStep(k, p)
  <2>1. ASSUME NEW j \in 1..k
        PROVE  /\ IsShareFrame(v2_tx'.log[Len(v2_tx.log) + j])
               /\ v2_tx'.log[Len(v2_tx.log) + j].ref = queue[j].share
    <3>1. j \in 1..(m + 1)
      BY <1>2
    <3> QED
      BY <1>3, <1>4, <3>1, Zenon
  <2> QED
    BY <1>2, <1>4, <1>5, <1>6, <2>1, Zenon DEF AnswerStep
<1>8. session' \in {"open", "closed"} /\ QueueOK' /\ p \in 0..Len(queue)
  BY <1>2, <1>5 DEF QueueOK, CloseUnless
<1> QED
  BY <1>2, <1>4, <1>7, <1>8, Zenon

\* handle_submit_result answers the oldest shares as AnswerStep says.
LEMMA SubmitResultStep ==
    ASSUME TypeOK, NEW i \in 1..Len(v1_tx.log), NEW answer \in {"true", "false", "error"},
           handle_submit_result(i, answer)
    PROVE  /\ TypeOK' /\ Live
           /\ \E k, p \in 0..Len(v2_submit_share_queue) : AnswerStep(k, p)
<1> DEFINE queue == v2_submit_share_queue
           P == /\ session' \in {"open", "closed", "panicked"} /\ V2TxOK' /\ QueueOK'
                /\ \E k, p \in 0..Len(queue) : AnswerStep(k, p)
<1>0. /\ SessionOK /\ UpstreamOK /\ V2TxOK /\ NegotiatedOK /\ ChannelOK
      /\ JobsOK /\ QueueOK /\ UsedOK /\ HistoryOK
  BY TypeOKGroups, Zenon
<1>1. UpstreamOK' /\ used' = used /\ Live /\ UsedOK' /\ UNCHANGED lost
  BY <1>0, AnsweredLemma, Zenon DEF handle_submit_result, UsedOK
<1>2. HistoryOK'
  <2>1. v1_tx.log[i] \in V1Frames
    BY <1>0 DEF UpstreamOK, Channel
  <2>2. <<v1_tx.log[i].share, answer = "true">> \in Nat \X BOOLEAN
    BY <2>1, Zenon DEF V1Frames
  <2> QED
    BY <1>0, <1>1, <2>2, Zenon DEF handle_submit_result, HistoryOK
<1>3. queue \in Seq(QueueItems) /\ Len(queue) \in Nat
  BY <1>0 DEF QueueOK
<1>4. ASSUME session' = "panicked", UNCHANGED <<v2_tx, v2_submit_share_queue>>
      PROVE  P
  <2>1. SubSeq(queue, 0 + 1, Len(queue)) = queue
    BY <1>3
  <2>2. AnswerStep(0, 0)
    BY <1>0, <1>1, <1>4, <2>1, AbandonLemma, Zenon DEF Live
  <2> QED
    BY <1>0, <1>3, <1>4, <2>2 DEF V2TxOK, QueueOK
<1>5. ASSUME session' = "closed",
             v2_submit_share_queue' = IF v2_submit_share_queue = <<>>
                                        THEN <<>> ELSE Tail(v2_submit_share_queue),
             UNCHANGED v2_tx
      PROVE  P
  <2>1. PICK p \in 0..Len(queue) :
          /\ v2_submit_share_queue' = SubSeq(queue, p + 1, Len(queue))
          /\ v2_submit_share_queue' \in Seq(QueueItems)
    <3>1. CASE queue = <<>>
      BY <1>3, <1>5, <3>1
    <3>2. CASE queue # <<>>
      <4>1. /\ Tail(queue) = SubSeq(queue, 1 + 1, Len(queue))
            /\ Tail(queue) \in Seq(QueueItems)
            /\ 1 \in 0..Len(queue)
        BY <1>3, <3>2
      <4> QED
        BY <1>5, <3>2, <4>1, Zenon
    <3> QED
      BY <3>1, <3>2, Zenon
  <2>2. AnswerStep(0, p)
    BY <1>0, <1>1, <1>5, <2>1, AbandonLemma DEF Live
  <2> QED
    BY <1>0, <1>3, <1>5, <2>1, <2>2 DEF V2TxOK, QueueOK
<1>6. ASSUME queue # <<>>, NEW m \in 0..Len(Tail(queue)),
             NEW k \in Outcomes(v2_tx, m + 1), CloseUnless(k = m + 1),
             SubmitV2(ShareResponses(answer = "true", m), k),
             v2_submit_share_queue' = SubSeq(Tail(queue), 1 + (IF k < m THEN k ELSE m),
                                             Len(Tail(queue)))
      PROVE  P
  <2> DEFINE good == answer = "true"
  <2>1. good \in BOOLEAN
    BY Zenon
  <2> QED
    BY <1>0, <1>1, <1>6, <2>1, ResponsesLemma, Zenon
<1>7. P
  <2> HIDE DEF P
  <2> QED
    BY <1>4, <1>5, <1>6, Zenon DEF handle_submit_result, ExpectedAnswer
<1> QED
  BY <1>0, <1>1, <1>2, <1>7, TypeOKGroups, Zenon DEF handle_submit_result, SessionOK,
     negotiated, NegotiatedOK, channel, ChannelOK, jobs, JobsOK, JobMapOK
=============================================================================
