----------------------------- MODULE Translation -----------------------------
(***************************************************************************)
(* The V2 -> V1 protocol translation of one proxied connection             *)
(* (stratum-proxy/src/translation.rs, V2ToV1Translation), with its two     *)
(* peers: a downstream Stratum V2 client and an upstream Stratum V1        *)
(* server.  Every message handler is one action.  A handler runs to its    *)
(* end before the next message is looked at (ConnTranslation::run), but    *)
(* the two send tasks drain the outgoing queues all the time; see          *)
(* BoundedChannel.  A handler that returns Err ends the session; a panic   *)
(* ends the process (ii_async_utils::setup_panic_handling).                *)
(*                                                                         *)
(* Data is reduced to what the properties tell apart.  Messages of a kind  *)
(* are numbered in the order in which they arrive, and the number stands   *)
(* for the content: a share is the number of its SubmitSharesStandard, a   *)
(* target the number of its mining.set_difficulty, a V1 job the number of  *)
(* its mining.notify, a channel request the number of its                  *)
(* OpenStandardMiningChannel.  0 is Rust's None.                           *)
(***************************************************************************)
EXTENDS BoundedChannel, FiniteSets

CONSTANTS
    SeqIdSpace,         \* number of values of SeqId: 2^32 in the code
    Sizes,              \* extranonce2 sizes the upstream may assign
    TryXnsub,           \* options.try_enable_xnsub
    PropagateReconnect, \* options.propagate_reconnect_downstream
    OrderlyClient,      \* does the client keep to the V2 handshake order?
    OrderlyServer,      \* does mining.set_extranonce follow the subscribe result?
    Limit               \* bound on the number of inputs of each kind

Inputs == {"setup", "open", "submit", "difficulty", "notify", "extranonce",
           "reconnect", "ping", "v1_down", "v2_down", "end"}

ASSUME TranslationAssumption ==
    /\ SeqIdSpace \in Nat
    /\ SeqIdSpace >= 3      \* the requests of one handler have different ids
    /\ Sizes \subseteq Nat
    /\ {TryXnsub, PropagateReconnect, OrderlyClient, OrderlyServer} \subseteq BOOLEAN
    /\ Limit \in [Inputs -> Nat]

VARIABLES
    session,              \* "open", "closed" (a handler failed) or "panicked"
    state,                \* V2ToV1TranslationState
    v1_tx, v2_tx,         \* queues to the two send tasks
    v1_req_id,            \* next V1 request id
    v1_req_map,           \* id -> method of the requests awaiting an answer
    v1_extra_nonce1,      \* is an extranonce 1 known?
    v1_extra_nonce2_size,
    v1_authorized,
    v1_deferred_notify,   \* the job that waits for the channel, or NoNotify
    v2_conn_details,      \* was a SetupConnection seen?
    v2_channel_details,   \* the OpenStandardMiningChannel being served, or 0
    v2_target,            \* the last mining.set_difficulty, or 0
    v2_job_id,            \* next V2 job id
    v2_to_v1_job_map,     \* V2 job id -> template for mining.submit
    v2_submit_share_queue,
    used,                 \* inputs taken so far, by kind
    lost,                 \* refused frames whose error the handler swallowed
    verdicts,             \* <<share, accepted?>> as answered by the upstream
    cleaned               \* the last mining.notify with clean_jobs, or 0

upstream   == <<v1_tx, v1_req_id, v1_req_map>>
negotiated == <<v1_extra_nonce1, v1_extra_nonce2_size, v1_authorized>>
channel    == <<v2_conn_details, v2_channel_details, v2_target>>
jobs       == <<v1_deferred_notify, v2_job_id, v2_to_v1_job_map>>
history    == <<lost, verdicts, cleaned>>
vars == <<session, state, upstream, v2_tx, negotiated, channel, jobs,
          v2_submit_share_queue, used, history>>

-----------------------------------------------------------------------------
(* Messages.                                                               *)

States == {"Init", "V1Configure", "ConnectionSetup",
           "OpenStandardMiningChannelPending",
           "V1SubscribeOrAuthorizeFail", "Operational"}
Methods == {"configure", "subscribe", "xnsub", "authorize", "submit"}
Ids == 0..(SeqIdSpace - 1)

\* Frames to the V2 client: what they refer to, and a value they carry.
FrameTypes == {"SetupConnectionSuccess", "SetupConnectionError",
               "OpenSuccess", "OpenError", "SetTarget", "NewMiningJob",
               "SetNewPrevHash", "SubmitSharesSuccess", "SubmitSharesError",
               "Reconnect"}
V2Frames == [type : FrameTypes, ref : Nat, val : Nat]
V2Frame(type, ref, val) == [type |-> type, ref |-> ref, val |-> val]
ShareTypes == {"SubmitSharesSuccess", "SubmitSharesError"}

\* Frames to the V1 server; share, src and size describe a mining.submit:
\* the V2 share it carries, the V1 job and the length of its extranonce 2.
V1Frames == [method : Methods \cup {"pong"}, id : Nat, share : Nat,
             src : Nat, size : Nat]
V1Request(method) ==
    [method |-> method, id |-> 0, share |-> 0, src |-> 0, size |-> 0]
V1Pong == V1Request("pong")

\* A mining.notify: its number, clean_jobs, and whether its prev_hash has
\* the right length.
Notifies == [src : Nat, clean : BOOLEAN, good : BOOLEAN]
NoNotify == [src |-> 0, clean |-> FALSE, good |-> FALSE]

\* V1SubmitTemplate, with the extranonce2 size its merkle root was made for.
Templates == [src : Nat, size : Nat]

\* SubmitShare: a share forwarded upstream, or the error for one that was not.
QueueItems == [kind : {"mapping", "error"}, v1 : Nat, share : Nat]
Mapping(id, share) == [kind |-> "mapping", v1 |-> id, share |-> share]
QueuedError(share) == [kind |-> "error", v1 |-> 0, share |-> share]

\* SeqId::next_id, n times.  (Variant: ids of a type that is too
\* narrow.)
NextIdNarrow(id, n) == (id + n) % 2
NextId(id, n) == (id + n) % SeqIdSpace
Without(f, x) == [y \in DOMAIN f \ {x} |-> f[y]]

-----------------------------------------------------------------------------
(* Building blocks of the handlers.                                        *)

Init ==
    /\ session = "open"
    /\ state = "Init"
    /\ v1_tx = EmptyChannel
    /\ v2_tx = EmptyChannel
    /\ v1_req_id = 0
    /\ v1_req_map = <<>>
    /\ v1_extra_nonce1 = FALSE
    /\ v1_extra_nonce2_size = 0
    /\ v1_authorized = FALSE
    /\ v1_deferred_notify = NoNotify
    /\ v2_conn_details = FALSE
    /\ v2_channel_details = 0
    /\ v2_target = 0
    /\ v2_job_id = 0
    /\ v2_to_v1_job_map = <<>>
    /\ v2_submit_share_queue = <<>>
    /\ used = [kind \in Inputs |-> 0]
    /\ lost = {}
    /\ verdicts = {}
    /\ cleaned = 0

\* Number of the input of this kind that is being handled.
Nth(kind) == used[kind] + 1

\* The session takes one more input of the kind.
Receive(kind) ==
    /\ session = "open"
    /\ used[kind] < Limit[kind]
    /\ used' = [used EXCEPT ![kind] = @ + 1]

\* `?` on the result of a handler.
CloseUnless(ok) == session' = IF ok THEN "open" ELSE "closed"

\* submit_v2_message for each of the frames, the first k of which are
\* accepted.
SubmitV2(frames, k) == v2_tx' = Accept(v2_tx, First(frames, k))

\* A registered request is one more than the accepted ones if the queue
\* refused it: v1_method_into_message comes before the try_send.
Registered(requests, k) == IF k = Len(requests) THEN k ELSE k + 1

IdsTaken(requests, k) ==
    {NextId(v1_req_id, i) : i \in 0..(Registered(requests, k) - 1)}

\* v1_method_into_message panics on an id that is still in the map.
IdCollision(requests, k) == IdsTaken(requests, k) \cap DOMAIN v1_req_map # {}

\* submit_v1_request_message for each of the requests, the first k of which
\* are accepted.
SubmitV1(requests, k) ==
    /\ v1_tx' = Accept(v1_tx, [i \in 1..k |->
                   [requests[i] EXCEPT !.id = NextId(v1_req_id, i - 1)]])
    /\ v1_req_id' = NextId(v1_req_id, Registered(requests, k))
    /\ v1_req_map' =
          [id \in DOMAIN v1_req_map \cup IdsTaken(requests, k) |->
             IF id \in IdsTaken(requests, k)
             THEN requests[CHOOSE i \in 1..Registered(requests, k) :
                             NextId(v1_req_id, i - 1) = id].method
             ELSE v1_req_map[id]]

-----------------------------------------------------------------------------
(* Jobs.                                                                   *)

\* The job map perform_notify inserts the new job into.  (Variant: clean_jobs
\* ignored.)
KeepAllJobs(n) == v2_to_v1_job_map
KeptJobs(n) == IF n.clean THEN <<>> ELSE v2_to_v1_job_map

\* perform_notify up to its two sends: a bad prev_hash is noticed after the
\* job id was taken and the map cleared.  calculate_merkle_root would fail
\* without an extranonce 1: by OperationalIsReady there is one.
RegisterJob(n, size) ==
    /\ v2_job_id' = NextId(v2_job_id, 1)
    /\ v2_to_v1_job_map' =
          IF n.good
          THEN [j \in DOMAIN KeptJobs(n) \cup {v2_job_id} |->
                  IF j = v2_job_id THEN [src |-> n.src, size |-> size]
                                   ELSE KeptJobs(n)[j]]
          ELSE KeptJobs(n)

JobCollision(n) == n.good /\ v2_job_id \in DOMAIN KeptJobs(n)

\* Its sends.  v1_force_future_jobs makes every job a future job, which a
\* SetNewPrevHash follows.  (Variant: the other way round.)
PrevHashFirst(n) ==
    IF n.good THEN <<V2Frame("SetNewPrevHash", v2_job_id, n.src),
                     V2Frame("NewMiningJob", v2_job_id, n.src)>>
              ELSE <<>>
JobFrames(n) ==
    IF n.good THEN <<V2Frame("NewMiningJob", v2_job_id, n.src),
                     V2Frame("SetNewPrevHash", v2_job_id, n.src)>>
              ELSE <<>>

-----------------------------------------------------------------------------
(* Opening the channel.                                                    *)

\* Frames of finalize_open_channel: the success and the deferred job, if there
\* is a channel to open.  (Variant: without the job.)
FinalFramesNoJob(target) ==
    <<V2Frame("OpenSuccess", v2_channel_details, target)>>
FinalFrames(target) ==
    IF v2_channel_details = 0 THEN <<>>
    ELSE <<V2Frame("OpenSuccess", v2_channel_details, target)>>
           \o JobFrames(v1_deferred_notify)

\* Does finalize_open_channel return Ok when k frames were accepted?
FinalOk(target, k) ==
    /\ v2_channel_details # 0
    /\ k = Len(FinalFrames(target))
    /\ v1_deferred_notify = NoNotify \/ v1_deferred_notify.good

\* What finalize_open_channel does to the jobs: the deferred job is taken
\* only after the success was sent.
FinalJobs(k, size) ==
    IF k = 0 \/ v1_deferred_notify = NoNotify
    THEN UNCHANGED jobs
    ELSE /\ v1_deferred_notify' = NoNotify
         /\ RegisterJob(v1_deferred_notify, size)

\* Its expect of a target, and the panic of perform_notify.
FinalPanics(target, k) == target = 0 \/ (k > 0 /\ JobCollision(v1_deferred_notify))

\* abort_open_channel, after the frames sent earlier in the same handler.
\* Its callers return Err.  (Variant: they go on.)
AbortAndGoOn(sent) ==
    /\ session' = "open"
    /\ state' = "V1SubscribeOrAuthorizeFail"
    /\ v1_authorized' = FALSE
    /\ v1_extra_nonce1' = FALSE
    /\ v1_extra_nonce2_size' = 0
    /\ v2_channel_details' = 0
    /\ v2_tx' = Accept(v2_tx, sent)

AbortOpenChannel(sent) ==
    /\ session' = "closed"
    /\ state' = "V1SubscribeOrAuthorizeFail"
    /\ v1_authorized' = FALSE
    /\ v1_extra_nonce1' = FALSE
    /\ v1_extra_nonce2_size' = 0
    /\ v2_channel_details' = 0
    /\ LET error == IF v2_channel_details = 0 THEN <<>>
                    ELSE <<V2Frame("OpenError", v2_channel_details, 0)>>
       IN  \E k \in Outcomes(Accept(v2_tx, sent), Len(error)) :
              v2_tx' = Accept(v2_tx, sent \o First(error, k))

\* finalize_open_channel called by a response handler, which has just learnt
\* one of its arguments, and which aborts the channel when it fails.
FinalizeOrAbort(authorized, nonce1, size) ==
    \E k \in Outcomes(v2_tx, Len(FinalFrames(v2_target))) :
       /\ FinalJobs(k, size)
       /\ IF FinalPanics(v2_target, k)
          THEN /\ session' = "panicked"
               /\ UNCHANGED <<state, negotiated, v2_channel_details, v2_tx>>
          ELSE IF FinalOk(v2_target, k)
          THEN /\ session' = "open"
               /\ state' = "Operational"
               /\ v1_authorized' = authorized
               /\ v1_extra_nonce1' = nonce1
               /\ v1_extra_nonce2_size' = size
               /\ UNCHANGED v2_channel_details
               /\ SubmitV2(FinalFrames(v2_target), k)
          ELSE AbortOpenChannel(First(FinalFrames(v2_target), k))

-----------------------------------------------------------------------------
(* Messages of the V2 client.  An orderly client sets the connection up    *)
(* once, opens one channel after the setup succeeded, and works on jobs it *)
(* was sent; a client that is not orderly sends anything at any time.      *)

\* Can the client have read such a frame?
ClientRead(type, ref) ==
    \E i \in 1..v2_tx.taken : v2_tx.log[i].type = type /\ v2_tx.log[i].ref = ref

MaySetup == OrderlyClient => used["setup"] = 0

MayOpen ==
    OrderlyClient => /\ used["open"] = 0
                     /\ ClientRead("SetupConnectionSuccess", 0)

MaySubmit(channel_ok, job) ==
    OrderlyClient => /\ channel_ok
                     /\ ClientRead("SetNewPrevHash", job)

\* A second SetupConnection is answered with an error, then handled like
\* the first.
handle_setup_connection ==
    /\ MaySetup
    /\ Receive("setup")
    /\ LET errors == IF state = "Init" THEN <<>>
                     ELSE <<V2Frame("SetupConnectionError", 0, 0)>>
           configure == <<V1Request("configure")>>
       IN  \E e \in Outcomes(v2_tx, Len(errors)) :
             /\ SubmitV2(errors, e)
             /\ IF e < Len(errors)
                THEN session' = "closed" /\ UNCHANGED <<state, upstream, channel>>
                ELSE \E k \in Outcomes(v1_tx, 1) :
                       /\ v2_conn_details' = TRUE
                       /\ UNCHANGED <<v2_channel_details, v2_target>>
                       /\ IF IdCollision(configure, k)
                          THEN session' = "panicked" /\ UNCHANGED <<state, upstream>>
                          ELSE /\ CloseUnless(k = 1)
                               /\ SubmitV1(configure, k)
                               /\ state' = IF k = 1 THEN "V1Configure" ELSE state
    /\ UNCHANGED <<negotiated, jobs, v2_submit_share_queue, history>>

OpenRequests ==
    IF TryXnsub
    THEN <<V1Request("subscribe"), V1Request("xnsub"), V1Request("authorize")>>
    ELSE <<V1Request("subscribe"), V1Request("authorize")>>

\* An OpenStandardMiningChannel out of sequence is answered with an error,
\* then handled like the others, provided that a SetupConnection was seen.
handle_open_standard_mining_channel ==
    /\ MayOpen
    /\ Receive("open")
    /\ LET errors == IF state \in {"ConnectionSetup", "V1SubscribeOrAuthorizeFail"}
                     THEN <<>>
                     ELSE <<V2Frame("OpenError", Nth("open"), 0)>>
       IN  \E e \in Outcomes(v2_tx, Len(errors)) :
             /\ SubmitV2(errors, e)
             /\ IF e < Len(errors) \/ ~v2_conn_details
                THEN /\ CloseUnless(e = Len(errors))
                     /\ UNCHANGED <<state, upstream, channel>>
                ELSE \E k \in Outcomes(v1_tx, Len(OpenRequests)) :
                       /\ v2_channel_details' = Nth("open")
                       /\ UNCHANGED <<v2_conn_details, v2_target>>
                       /\ state' = "OpenStandardMiningChannelPending"
                       /\ IF IdCollision(OpenRequests, k)
                          THEN session' = "panicked" /\ UNCHANGED upstream
                          ELSE /\ CloseUnless(k = Len(OpenRequests))
                               /\ SubmitV1(OpenRequests, k)
    /\ UNCHANGED <<negotiated, jobs, v2_submit_share_queue, history>>

\* reject_shares for a share that is not forwarded: its error is sent at
\* once if no earlier share awaits its answer, else it waits in the queue.
\* (Variants: it is always sent at once; it is not queued; it is queued at
\* the wrong end.)
RejectAtOnce(share) ==
    /\ SubmitV2(<<V2Frame("SubmitSharesError", share, 0)>>, 1)
    /\ UNCHANGED <<v2_submit_share_queue, lost>>

RejectSilently(share) == UNCHANGED <<v2_tx, v2_submit_share_queue, lost>>

RejectInFront(share) ==
    /\ v2_submit_share_queue' = <<QueuedError(share)>> \o v2_submit_share_queue
    /\ UNCHANGED <<v2_tx, lost>>

RejectLocally(share) ==
    IF v2_submit_share_queue = <<>>
    THEN LET error == <<V2Frame("SubmitSharesError", share, 0)>>
         IN  \E k \in Outcomes(v2_tx, 1) :
               /\ SubmitV2(error, k)
               /\ lost' = IF k = 1 THEN lost ELSE lost \cup {error[1]}
               /\ UNCHANGED v2_submit_share_queue
    ELSE /\ v2_submit_share_queue' =
              Append(v2_submit_share_queue, QueuedError(share))
         /\ UNCHANGED <<v2_tx, lost>>

\* The mining.submit made of a share from the template of its job.  The
\* extranonce 2 has the size that is current now.
SubmitRequest(job) ==
    [method |-> "submit", id |-> 0, share |-> Nth("submit"),
     src |-> v2_to_v1_job_map[job].src, size |-> v1_extra_nonce2_size]

handle_submit_shares_standard(channel_ok, job) ==
    /\ MaySubmit(channel_ok, job)
    /\ Receive("submit")
    /\ \/ /\ ~channel_ok
          /\ session' = "closed"
          /\ RejectLocally(Nth("submit"))
          /\ UNCHANGED upstream
       \/ /\ channel_ok
          /\ v2_channel_details = 0
          /\ session' = "panicked"
          /\ UNCHANGED <<upstream, v2_tx, v2_submit_share_queue, lost>>
       \/ /\ channel_ok
          /\ v2_channel_details # 0
          /\ job \notin DOMAIN v2_to_v1_job_map
          /\ session' = "open"
          /\ RejectLocally(Nth("submit"))
          /\ UNCHANGED upstream
       \/ /\ channel_ok
          /\ v2_channel_details # 0
          /\ job \in DOMAIN v2_to_v1_job_map
          /\ LET submit == <<SubmitRequest(job)>>
             IN  \E k \in Outcomes(v1_tx, 1) :
                   IF IdCollision(submit, k)
                   THEN /\ session' = "panicked"
                        /\ UNCHANGED <<upstream, v2_tx, v2_submit_share_queue, lost>>
                   ELSE /\ session' = "open"
                        /\ SubmitV1(submit, k)
                        /\ IF k = 1
                           THEN /\ v2_submit_share_queue' =
                                     Append(v2_submit_share_queue,
                                            Mapping(v1_req_id, Nth("submit")))
                                /\ UNCHANGED <<v2_tx, lost>>
                           ELSE RejectLocally(Nth("submit"))
    /\ UNCHANGED <<state, negotiated, channel, jobs, verdicts, cleaned>>

-----------------------------------------------------------------------------
(* Answers of the V1 server.  It answers requests it received, each at     *)
(* most once, in any order; i is the place of the request in the log.      *)

\* visit_stratum_result_or_error: the handler that is stored under the id of the
\* answer is removed and called.  An id that was used again is that of the last
\* request; one stored for another method belongs to a request that v1_tx
\* refused, and the request of the log was answered before it.  A pong bears an
\* id of the server's own.
Answered(i, method) ==
    /\ session = "open"
    /\ v1_tx.log[i].method = method
    /\ v1_tx.log[i].id \in DOMAIN v1_req_map
    /\ v1_req_map[v1_tx.log[i].id] = method
    /\ \A j \in (i + 1)..Len(v1_tx.log) :
          v1_tx.log[j].method = "pong" \/ v1_tx.log[j].id # v1_tx.log[i].id
    /\ v1_req_map' = Without(v1_req_map, v1_tx.log[i].id)
    /\ v1_tx' = TakenUpTo(v1_tx, i)
    /\ UNCHANGED <<v1_req_id, used>>

\* A result that cannot be parsed, other than of subscribe and authorize.
UnparsableResult(i) ==
    /\ \E method \in {"configure", "xnsub", "submit"} : Answered(i, method)
    /\ session' = "closed"
    /\ UNCHANGED <<state, v2_tx, negotiated, channel, jobs,
                   v2_submit_share_queue, history>>

\* handle_configure_result; handle_configure_error is the case ~rolling.
handle_configure_result(i, rolling) ==
    /\ Answered(i, "configure")
    /\ LET reply == IF rolling THEN "SetupConnectionSuccess"
                               ELSE "SetupConnectionError"
       IN  \E k \in Outcomes(v2_tx, 1) :
             /\ CloseUnless(k = 1)
             /\ SubmitV2(<<V2Frame(reply, 0, 0)>>, k)
    /\ state' = IF rolling THEN "ConnectionSetup" ELSE state
    /\ UNCHANGED <<negotiated, channel, jobs, v2_submit_share_queue, history>>

\* Whether enabled or not, v1_xnsub_enabled is not read anywhere.
handle_extranonce_subscribe_result(i) ==
    /\ Answered(i, "xnsub")
    /\ UNCHANGED <<session, state, v2_tx, negotiated, channel, jobs,
                   v2_submit_share_queue, history>>

\* The channel is finalized by the last of the three: subscribe result,
\* authorize result and first difficulty.  (Variants: the handler forgets one of
\* the others, or the finalization.)
NeverCompletes == FALSE
CompletesUnauthorized == v2_target # 0
CompletesUntargeted == v1_authorized
SubscribeCompletes == v1_authorized /\ v2_target # 0

CompletesUnsubscribed == v2_target # 0
AuthorizeCompletes == v1_extra_nonce1 /\ v2_target # 0

handle_subscribe_result(i, size) ==
    /\ Answered(i, "subscribe")
    /\ IF SubscribeCompletes
       THEN FinalizeOrAbort(v1_authorized, TRUE, size)
       ELSE /\ v1_extra_nonce1' = TRUE
            /\ v1_extra_nonce2_size' = size
            /\ UNCHANGED <<session, state, v2_tx, v1_authorized,
                           v2_channel_details, jobs>>
    /\ UNCHANGED <<v2_conn_details, v2_target, v2_submit_share_queue, history>>

handle_authorize_result(i) ==
    /\ Answered(i, "authorize")
    /\ IF AuthorizeCompletes
       THEN FinalizeOrAbort(TRUE, v1_extra_nonce1, v1_extra_nonce2_size)
       ELSE /\ v1_authorized' = TRUE
            /\ UNCHANGED <<session, state, v2_tx, v1_extra_nonce1,
                           v1_extra_nonce2_size, v2_channel_details, jobs>>
    /\ UNCHANGED <<v2_conn_details, v2_target, v2_submit_share_queue, history>>

\* An unparsable result of either, or an authorize answered with false.
UnsuccessfulResult(i) ==
    /\ \E method \in {"subscribe", "authorize"} : Answered(i, method)
    /\ AbortOpenChannel(<<>>)
    /\ UNCHANGED <<jobs, v2_conn_details, v2_target, v2_submit_share_queue,
                   history>>

handle_authorize_or_subscribe_error(i) ==
    /\ \E method \in {"subscribe", "authorize"} : Answered(i, method)
    /\ IF state = "V1SubscribeOrAuthorizeFail"
       THEN UNCHANGED <<session, state, v2_tx, negotiated, v2_channel_details>>
       ELSE AbortOpenChannel(<<>>)
    /\ UNCHANGED <<jobs, v2_conn_details, v2_target, v2_submit_share_queue,
                   history>>

\* m is the number of errors at the front of the queue, which
\* submit_queued_share_responses sends.  (Variant: it sends none.)
NoErrorsSent(queue, m) == m = 0

LeadingErrors(queue, m) ==
    /\ m \in 0..Len(queue)
    /\ \A i \in 1..m : queue[i].kind = "error"
    /\ m < Len(queue) => queue[m + 1].kind # "error"

\* get_v2_submit_shares_seq_num finds the share of the answered request.
\* (Variant: it does not compare the ids.)
AnyAnswer(id) ==
    /\ v2_submit_share_queue # <<>>
    /\ v2_submit_share_queue[1].kind = "mapping"

ExpectedAnswer(id) ==
    /\ v2_submit_share_queue # <<>>
    /\ v2_submit_share_queue[1].kind = "mapping"
    /\ v2_submit_share_queue[1].v1 = id

\* Answer to the share, then the errors that waited for it.
ShareResponses(accepted, m) ==
    [i \in 1..(m + 1) |->
       V2Frame(IF i = 1 /\ accepted THEN "SubmitSharesSuccess"
                                    ELSE "SubmitSharesError",
               v2_submit_share_queue[i].share, 0)]

\* The expects of handle_submit_result; handle_submit_error has none.
SubmitResultPanics(answer) ==
    \/ answer # "error" /\ v2_channel_details = 0
    \/ answer = "true" /\ v2_target = 0

\* handle_submit_result, or handle_submit_error.  Queued errors are popped
\* before they are sent.
handle_submit_result(i, answer) ==
    /\ Answered(i, "submit")
    /\ verdicts' = verdicts \cup {<<v1_tx.log[i].share, answer = "true">>}
    /\ IF SubmitResultPanics(answer)
       THEN session' = "panicked" /\ UNCHANGED <<v2_tx, v2_submit_share_queue>>
       ELSE IF ExpectedAnswer(v1_tx.log[i].id)
       THEN LET rest == Tail(v2_submit_share_queue)
            IN  \E m \in 0..Len(rest) :
                  /\ LeadingErrors(rest, m)
                  /\ \E k \in Outcomes(v2_tx, m + 1) :
                       /\ CloseUnless(k = m + 1)
                       /\ SubmitV2(ShareResponses(answer = "true", m), k)
                       /\ v2_submit_share_queue' =
                            SubSeq(rest, 1 + (IF k < m THEN k ELSE m), Len(rest))
       ELSE /\ session' = "closed"
            /\ v2_submit_share_queue' = IF v2_submit_share_queue = <<>>
                                        THEN <<>> ELSE Tail(v2_submit_share_queue)
            /\ UNCHANGED v2_tx
    /\ UNCHANGED <<state, negotiated, channel, jobs, lost, cleaned>>

-----------------------------------------------------------------------------
(* Notifications of the V1 server.                                         *)

Unaccepted(frames, k) == {frames[i] : i \in (k + 1)..Len(frames)}

\* The job of a deferred mining.notify that perform_notify cannot build.
Unbuilt ==
    IF v1_deferred_notify # NoNotify /\ ~v1_deferred_notify.good
    THEN {V2Frame("NewMiningJob", v2_job_id, v1_deferred_notify.src)} ELSE {}

\* send_set_target.  (Variant: called before the new target is stored.)
OldTarget(target) == <<V2Frame("SetTarget", 0, v2_target)>>
SetTarget(target) == <<V2Frame("SetTarget", 0, target)>>

\* Both failures, of finalize_open_channel and of send_set_target, are
\* logged and swallowed.
handle_set_difficulty ==
    /\ Receive("difficulty")
    /\ v2_target' = Nth("difficulty")
    /\ IF ~(v1_authorized /\ v1_extra_nonce1)
       THEN UNCHANGED <<session, state, v2_tx, jobs, lost>>
       ELSE IF state = "OpenStandardMiningChannelPending"
       THEN LET frames == FinalFrames(Nth("difficulty"))
            IN  \E k \in Outcomes(v2_tx, Len(frames)) :
                  /\ state' = IF v2_channel_details = 0 THEN state ELSE "Operational"
                  /\ session' = IF FinalPanics(Nth("difficulty"), k) THEN "panicked" ELSE "open"
                  /\ SubmitV2(frames, k)
                  /\ FinalJobs(k, v1_extra_nonce2_size)
                  /\ lost' = lost \cup Unaccepted(frames, k) \cup Unbuilt
       ELSE LET frames == SetTarget(Nth("difficulty"))
            IN  \E k \in Outcomes(v2_tx, 1) :
                  /\ SubmitV2(frames, k)
                  /\ lost' = lost \cup Unaccepted(frames, k)
                  /\ UNCHANGED <<session, state, jobs>>
    /\ UNCHANGED <<upstream, negotiated, v2_conn_details, v2_channel_details,
                   v2_submit_share_queue, verdicts, cleaned>>

handle_set_extranonce(size) ==
    /\ OrderlyServer => v1_extra_nonce1
    /\ Receive("extranonce")
    /\ v1_extra_nonce1' = TRUE
    /\ v1_extra_nonce2_size' = size
    /\ UNCHANGED <<session, state, upstream, v2_tx, v1_authorized, channel,
                   jobs, v2_submit_share_queue, history>>

\* Does a job have to wait?  (Variant: only for the SetupConnection.)
NotYetConnected == ~v2_conn_details
NotYetOperational == state # "Operational"

\* Only the latest job waits for the channel to become operational.
handle_notify(clean, good) ==
    /\ Receive("notify")
    /\ LET n == [src |-> Nth("notify"), clean |-> clean, good |-> good]
       IN  IF NotYetOperational
           THEN /\ v1_deferred_notify' = n
                /\ UNCHANGED <<session, v2_tx, v2_job_id, v2_to_v1_job_map>>
           ELSE \E k \in Outcomes(v2_tx, Len(JobFrames(n))) :
                  /\ RegisterJob(n, v1_extra_nonce2_size)
                  /\ UNCHANGED v1_deferred_notify
                  /\ IF JobCollision(n)
                     THEN session' = "panicked" /\ UNCHANGED v2_tx
                     ELSE /\ CloseUnless(good /\ k = Len(JobFrames(n)))
                          /\ SubmitV2(JobFrames(n), k)
    /\ cleaned' = IF clean THEN Nth("notify") ELSE cleaned
    /\ UNCHANGED <<state, upstream, negotiated, channel,
                   v2_submit_share_queue, lost, verdicts>>

handle_client_reconnect(parsable) ==
    /\ PropagateReconnect
    /\ Receive("reconnect")
    /\ LET frames == IF parsable THEN <<V2Frame("Reconnect", 0, 0)>> ELSE <<>>
       IN  \E k \in Outcomes(v2_tx, Len(frames)) :
             /\ CloseUnless(parsable /\ k = 1)
             /\ SubmitV2(frames, k)
    /\ UNCHANGED <<state, upstream, negotiated, channel, jobs,
                   v2_submit_share_queue, history>>

handle_ping ==
    /\ Receive("ping")
    /\ \E k \in Outcomes(v1_tx, 1) :
         /\ CloseUnless(k = 1)
         /\ v1_tx' = Accept(v1_tx, First(<<V1Pong>>, k))
    /\ UNCHANGED <<state, v1_req_id, v1_req_map, v2_tx, negotiated, channel,
                   jobs, v2_submit_share_queue, history>>

-----------------------------------------------------------------------------
(* The rest of ConnTranslation.                                            *)

\* v2_send_task takes a frame.  BoundedChannel lets it take frames when it
\* has to; this step is for the client that acts on what it has read.  Once
\* the session is over no handler can tell.
v2_send_task ==
    /\ OrderlyClient
    /\ session = "open"
    /\ v2_tx.alive
    /\ v2_tx.taken < Len(v2_tx.log)
    /\ v2_tx' = Take(v2_tx)
    /\ UNCHANGED <<session, state, upstream, negotiated, channel, jobs,
                   v2_submit_share_queue, used, history>>

\* A send task fails to write to its socket and ends.
v1_send_task_ends ==
    /\ Receive("v1_down")
    /\ v1_tx' = Hangup(v1_tx)
    /\ UNCHANGED <<session, state, v1_req_id, v1_req_map, v2_tx, negotiated,
                   channel, jobs, v2_submit_share_queue, history>>

v2_send_task_ends ==
    /\ Receive("v2_down")
    /\ v2_tx' = Hangup(v2_tx)
    /\ UNCHANGED <<session, state, upstream, negotiated, channel, jobs,
                   v2_submit_share_queue, history>>

\* ConnTranslation::run ends for a reason outside the handlers above: a
\* connection is closed, fails or times out, a frame cannot be parsed, or
\* an answer bears an id that is not in v1_req_map.
run_ends ==
    /\ Receive("end")
    /\ session' = "closed"
    /\ UNCHANGED <<state, upstream, v2_tx, negotiated, channel, jobs,
                   v2_submit_share_queue, history>>

V2Message ==
    \/ handle_setup_connection
    \/ handle_open_standard_mining_channel
    \/ \E channel_ok \in BOOLEAN, job \in Ids :
          handle_submit_shares_standard(channel_ok, job)

V1Answer(i) ==
    \/ UnparsableResult(i)
    \/ \E rolling \in BOOLEAN : handle_configure_result(i, rolling)
    \/ handle_extranonce_subscribe_result(i)
    \/ \E size \in Sizes : handle_subscribe_result(i, size)
    \/ handle_authorize_result(i)
    \/ UnsuccessfulResult(i)
    \/ handle_authorize_or_subscribe_error(i)
    \/ \E answer \in {"true", "false", "error"} : handle_submit_result(i, answer)

V1Notification ==
    \/ handle_set_difficulty
    \/ \E size \in Sizes : handle_set_extranonce(size)
    \/ \E clean, good \in BOOLEAN : handle_notify(clean, good)
    \/ \E parsable \in BOOLEAN : handle_client_reconnect(parsable)
    \/ handle_ping

Next ==
    \/ V2Message
    \/ \E i \in 1..Len(v1_tx.log) : V1Answer(i)
    \/ V1Notification
    \/ v2_send_task
    \/ v1_send_task_ends
    \/ v2_send_task_ends
    \/ run_ends

Spec == Init /\ [][Next]_vars

-----------------------------------------------------------------------------
(* Properties.                                                             *)

\* The values of the fields of V2ToV1Translation.
TypeOK ==
    /\ session \in {"open", "closed", "panicked"}
    /\ state \in States
    /\ v1_tx \in Channel(V1Frames)
    /\ v2_tx \in Channel(V2Frames)
    /\ v1_req_id \in Ids
    /\ DOMAIN v1_req_map \subseteq Ids
    /\ \A id \in DOMAIN v1_req_map : v1_req_map[id] \in Methods
    /\ v1_extra_nonce1 \in BOOLEAN
    /\ v1_extra_nonce2_size \in Nat
    /\ v1_authorized \in BOOLEAN
    /\ v1_deferred_notify \in Notifies
    /\ v2_conn_details \in BOOLEAN
    /\ v2_channel_details \in Nat
    /\ v2_target \in Nat
    /\ v2_job_id \in Ids
    /\ DOMAIN v2_to_v1_job_map \subseteq Ids
    /\ \A j \in DOMAIN v2_to_v1_job_map : v2_to_v1_job_map[j] \in Templates
    /\ v2_submit_share_queue \in Seq(QueueItems)
    /\ used \in [Inputs -> Nat]
    /\ lost \subseteq V2Frames
    /\ verdicts \subseteq (Nat \X BOOLEAN)
    /\ cleaned \in Nat

Live == session = "open"
IsShareFrame(f) == f.type \in ShareTypes
SharesSent == {v2_tx.log[i].ref : i \in {j \in 1..Len(v2_tx.log) : IsShareFrame(v2_tx.log[j])}}
SharesQueued == {v2_submit_share_queue[i].share : i \in 1..Len(v2_submit_share_queue)}
SharesLost == {f.ref : f \in {g \in lost : IsShareFrame(g)}}

\* Shares are answered in the order in which they were submitted, each at
\* most once: although the proxy rejects some itself and the server answers
\* the others whenever it likes (v2_submit_share_queue).
AnswersInOrder ==
    \A i, j \in 1..Len(v2_tx.log) :
       (i < j /\ IsShareFrame(v2_tx.log[i]) /\ IsShareFrame(v2_tx.log[j]))
         => v2_tx.log[i].ref < v2_tx.log[j].ref

\* While the session lives a share is answered, or waits in the queue, or its
\* rejection was refused by a full v2_tx (reject_shares(..).ok()).
NoShareForgotten ==
    Live => 1..used["submit"] \subseteq SharesSent \cup SharesQueued \cup SharesLost

\* A share is reported accepted only if the server accepted that very share,
\* and never reported rejected if the server accepted it: the queue pairs V1
\* answers with V2 sequence numbers (get_v2_submit_shares_seq_num).
VerdictsFaithful ==
    \A i \in 1..Len(v2_tx.log) :
       LET f == v2_tx.log[i]
       IN  /\ f.type = "SubmitSharesSuccess" => <<f.ref, TRUE>> \in verdicts
           /\ f.type = "SubmitSharesError" => <<f.ref, TRUE>> \notin verdicts

\* The share queue never gets stuck: the share at its front waits for an
\* answer that is still outstanding, so that submit_queued_share_responses
\* will be called for the rejections behind it.
QueueFrontAwaited ==
    (Live /\ v2_submit_share_queue # <<>>)
       => /\ v2_submit_share_queue[1].kind = "mapping"
          /\ v2_submit_share_queue[1].v1 \in DOMAIN v1_req_map

\* Whatever the order of subscribe result, authorize result, difficulty and
\* client messages, an operational channel has all it needs: no expect of
\* finalize_open_channel and send_set_target can fail, and
\* calculate_merkle_root finds an extranonce 1.
OperationalIsReady ==
    (Live /\ state = "Operational")
       => v1_authorized /\ v1_extra_nonce1 /\ v2_target # 0 /\ v2_channel_details # 0

\* As long as the answer to a subscribe, authorize or submit may come in, its
\* handler finds v2_channel_details ("BUG: V2 channel details missing").
DetailsWhilePending ==
    (Live /\ \E id \in DOMAIN v1_req_map :
                v1_req_map[id] \in {"subscribe", "authorize", "submit"})
       => v2_channel_details # 0

\* perform_notify announces a job and makes it current: every NewMiningJob is
\* followed by its own SetNewPrevHash, unless the queue was full, which ends
\* the session or, inside handle_set_difficulty, goes unnoticed.
JobsActivated ==
    \A i \in 1..Len(v2_tx.log) :
       LET f == v2_tx.log[i]
           prev_hash == V2Frame("SetNewPrevHash", f.ref, f.val)
       IN  (f.type = "NewMiningJob" /\ (i = Len(v2_tx.log) \/ v2_tx.log[i + 1] # prev_hash))
              => ~Live \/ prev_hash \in lost

\* Is f the last frame of its types that was sent?
LastSent(f, types) ==
    \E i \in 1..Len(v2_tx.log) :
       /\ v2_tx.log[i] = f
       /\ \A j \in (i + 1)..Len(v2_tx.log) : v2_tx.log[j].type \notin types

TargetFrames == {"OpenSuccess", "SetTarget"}

\* The target the client works with is the one of the last
\* mining.set_difficulty, whether that came before or after the channel was
\* opened, unless v2_tx refused it (handle_set_difficulty, finalize_open_channel).
TargetInSync ==
    (Live /\ state = "Operational")
       => \/ \E ref \in 0..used["open"], type \in TargetFrames :
                LastSent(V2Frame(type, ref, v2_target), TargetFrames)
          \/ \E f \in lost : f.type \in TargetFrames /\ f.val = v2_target

\* The client of an operational channel was sent the last mining.notify of the
\* server, also if that was deferred while the channel was being opened,
\* unless handle_set_difficulty swallowed the failure to send it.
LatestJobAnnounced ==
    (Live /\ state = "Operational" /\ used["notify"] > 0)
       => \/ \E j \in Ids : LastSent(V2Frame("NewMiningJob", j, used["notify"]), {"NewMiningJob"})
          \/ \E f \in lost : f.type = "NewMiningJob" /\ f.val = used["notify"]

\* With an orderly client no job survives a mining.notify with clean_jobs,
\* deferred or not, so that no share for an outdated job goes upstream.
JobsFresh ==
    Live => \A j \in DOMAIN v2_to_v1_job_map : v2_to_v1_job_map[j].src >= cleaned

\* An orderly client gets targets and jobs only on a channel it knows to be
\* open.
WorkAfterOpen ==
    \A i \in 1..Len(v2_tx.log) :
       v2_tx.log[i].type \in {"SetTarget", "NewMiningJob", "SetNewPrevHash"}
          => \/ \E j \in 1..(i - 1) : v2_tx.log[j].type = "OpenSuccess"
             \/ \E f \in lost : f.type = "OpenSuccess"

\* The request of an orderly client to open a channel succeeds at most once
\* and fails at most once, and a success is taken back only by a session that
\* ends (finalize_open_channel failing after its first send).
OpenAnsweredOnce ==
    \A i, j \in 1..Len(v2_tx.log) :
       LET f == v2_tx.log[i]
           g == v2_tx.log[j]
       IN  (i < j /\ {f.type, g.type} \subseteq {"OpenSuccess", "OpenError"} /\ f.ref = g.ref)
              => f.type = "OpenSuccess" /\ g.type = "OpenError" /\ ~Live

\* With an orderly client no expect and no panic! of the handlers is reached
\* (before a SeqId wraps around).
NoPanic == session # "panicked"

\* An orderly client's session never meets a job id that is still in use
\* unless all of them are: SeqId wraps around, and perform_notify panics on a
\* duplicate.
JobIdsExhausted ==
    (Live /\ v2_job_id \in DOMAIN v2_to_v1_job_map) => DOMAIN v2_to_v1_job_map = Ids

-----------------------------------------------------------------------------
(* Liveness.                                                               *)

\* The upstream answers what it is asked and sends a first difficulty.
Fairness ==
    /\ WF_vars(\E i \in 1..Len(v1_tx.log) : V1Answer(i))
    /\ WF_vars(used["difficulty"] = 0 /\ handle_set_difficulty)

FairSpec == Spec /\ Fairness

\* A pending channel is opened, or its session ends: none of the orders in
\* which subscribe result, authorize result and difficulty may come is missed
\* by the three handlers that finalize it.
PendingIsResolved ==
    (Live /\ state = "OpenStandardMiningChannelPending")
       ~> (~Live \/ state = "Operational")

\* A queued share, forwarded or rejected, is answered, or its session ends.
QueuedShareIsAnswered ==
    \A share \in 1..Limit["submit"] :
       (Live /\ share \in SharesQueued) ~> (~Live \/ share \in SharesSent)

-----------------------------------------------------------------------------
(* The share queue implements ShareFifo.                                   *)

Fifo == INSTANCE ShareFifo WITH
    open <- Live,
    count <- used["submit"],
    pending <- [i \in 1..Len(v2_submit_share_queue) |-> v2_submit_share_queue[i].share],
    answered <- SharesSent

\* Every step of the proxy is a step of the promise made to the miner: only
\* the oldest waiting shares are ever answered, and a share is forgotten only
\* when it is rejected with an empty queue in front of a full v2_tx.
ImplementsFifo == Fifo!Spec
=============================================================================
