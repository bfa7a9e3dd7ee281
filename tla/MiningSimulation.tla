-------------------------- MODULE MiningSimulation --------------------------
(***************************************************************************)
(* The protocol simulator with Stratum V2 on both sides: one Pool with a   *)
(* PoolV2 processor per connection, and Miners with a MinerV2 each.  The   *)
(* processes of the discrete event simulation are the actions; a handler   *)
(* runs to its next yield in one step.                                     *)
(*                                                                         *)
(* Python objects that are shared are shared here: jobs and sessions hold  *)
(* references to Target objects, and `target' is the heap they refer to.   *)
(* The pool has one Target, default_target, which it passes to all its     *)
(* sessions; a miner makes one from the number in the answer to its open   *)
(* request, and later takes the reference that a SetTarget message holds.  *)
(*                                                                         *)
(* Simulated time is left out: a timeout may expire at any moment, so that *)
(* the rate that the vardiff loop measures is any of Factors.  A MinerV2   *)
(* opens one channel per connection, so that a connection has at most one. *)
(* Both simulations construct the pool with enable_vardiff.  The division  *)
(* of a target by a factor is exact here, a floor of floats in the code.   *)
(***************************************************************************)
EXTENDS Integers, Sequences, FiniteSetsExt

CONSTANTS
    Miners,
    DefaultRef,     \* the object Pool.default_target
    DiffOne,        \* mining_params.diff_1_target
    MinerDiffOnes,  \* diff_1_target a miner may be constructed with
    DefaultTarget,  \* Pool.default_target.target at the start
    Factors,        \* clamped factors of the vardiff loop, as <<num, den>>
    MaxBlocks,      \* bound on new blocks
    MaxShares,      \* bound on the solutions that miners find
    MaxVardiff      \* bound on the later turns of vardiff loops

Half == <<1, 2>>
MinFactor == <<1, 4>>
MaxFactor == <<4, 1>>

ASSUME SimulationAssumption ==
    /\ {DiffOne, DefaultTarget, MaxBlocks, MaxShares, MaxVardiff} \subseteq Nat
    /\ MinerDiffOnes \subseteq Nat
    /\ DefaultRef \notin Miners
    /\ Factors \subseteq (Nat \ {0}) \X (Nat \ {0})
    /\ Factors \cap {Half, MinFactor} # {}
    /\ \A f \in Factors :
          f[1] * MinFactor[2] >= f[2] /\ f[1] <= f[2] * MaxFactor[1]

VARIABLES
    target,         \* value of each Target object
    prev_hash,      \* number of the block that Pool.prev_hash stands for
    stats,          \* counters of Pool
    pool,           \* PoolV2 of each connection, with its channel
    miner,          \* Miner, its MinerV2 and the channel it holds
    outgoing,       \* Connection.outgoing: from the miner
    incoming,       \* Connection.incoming: to the miner
    used            \* how much of each bound is used up

vars == <<target, prev_hash, stats, pool, miner, outgoing, incoming, used>>

NoJob == [uid |-> -1, diff_target |-> DefaultRef, born |-> 0]
Idle == [uid |-> -1, share_diff |-> 0, block |-> -1]

Targets == {DefaultRef} \cup Miners

-----------------------------------------------------------------------------
(* Target, MiningJob and MiningJobRegistry.  `born' is the value that the  *)
(* target of a job had when the job was made; no step depends on it.       *)

to_difficulty(value, diff_1_target) == diff_1_target \div value

div_by_factor(value, factor) == (value * factor[2]) \div factor[1]

MiningJob(uid, ref, value) == [uid |-> uid, diff_target |-> ref, born |-> value]

contains(s, uid) == \E job \in s.jobs : job.uid = uid

contains_invalid(s, uid) == \E job \in s.invalid_jobs : job.uid = uid

get_job(jobs, uid) == CHOOSE job \in jobs : job.uid = uid

retire_all_jobs(s) ==
    [s EXCEPT !.invalid_jobs = @ \cup s.jobs, !.jobs = {}]

add_job(s, job) ==
    [s EXCEPT !.jobs = @ \cup {job}, !.bug = @ \/ contains(s, job.uid)]

-----------------------------------------------------------------------------
(* A PoolMiningChannel with its MiningSession.  `bug' is set where an      *)
(* assert of the code fails or an attribute of None is used.               *)

Processor ==
    [connected |-> TRUE, connection_config |-> FALSE, channel |-> FALSE,
     running |-> FALSE, next_job_uid |-> 0, jobs |-> {}, invalid_jobs |-> {},
     future_job |-> NoJob, meter |-> 0, bug |-> FALSE]

take_future_job(s) ==
    [s EXCEPT !.future_job = NoJob, !.bug = @ \/ s.future_job = NoJob]

\* new_mining_job followed by add_future_job, as __build_new_job_msg has it.
WithNewJob(s, is_future_job, value) ==
    LET job == MiningJob(s.next_job_uid, DefaultRef, value)
    IN  [s EXCEPT
            !.next_job_uid = @ + 1,
            !.jobs = @ \cup {job},
            !.future_job = IF is_future_job THEN job ELSE @,
            !.bug = @ \/ (is_future_job /\ s.future_job # NoJob)]

SetupConnection == [type |-> "SetupConnection"]
SetupConnectionSuccess == [type |-> "SetupConnectionSuccess"]
Open(req_id, max_target) ==
    [type |-> "OpenStandardMiningChannel", req_id |-> req_id, max_target |-> max_target]
OpenSuccess(req_id, value) ==
    [type |-> "OpenStandardMiningChannelSuccess", req_id |-> req_id, target |-> value]
OpenError(req_id) == [type |-> "OpenMiningChannelError", req_id |-> req_id]
NewMiningJob(uid, future_job) ==
    [type |-> "NewMiningJob", job_id |-> uid, future_job |-> future_job]
SetNewPrevHash(uid, block) ==
    [type |-> "SetNewPrevHash", job_id |-> uid, prev_hash |-> block]
SetTarget(ref) == [type |-> "SetTarget", max_target |-> ref]
\* `block' is the block the miner was working for, and the sum of an error what
\* the pool counted; the receiver does not look at them.
SubmitShares(uid, block) ==
    [type |-> "SubmitSharesStandard", job_id |-> uid, block |-> block]
SubmitSuccess(sum) == [type |-> "SubmitSharesSuccess", new_shares_sum |-> sum]
SubmitError(sum) == [type |-> "SubmitSharesError", new_shares_sum |-> sum]

-----------------------------------------------------------------------------
\* Miner, MinerV2 and its empty registry, after connect_to_pool.  `replies' tells
\* what the pool has answered; no step depends on it.
Miner(m, diff_1_target) ==
    [diff_1_target |-> diff_1_target, connected |-> TRUE, state |-> "INIT",
     next_req_id |-> 0, requests |-> {}, channel |-> FALSE,
     curr_diff_target |-> m, jobs |-> {}, prev_hash |-> -1,
     mine_proc |-> Idle, meter |-> 0, bug |-> FALSE,
     replies |-> [successes |-> 0, errors |-> 0, refused |-> 0]]

\* The simulations connect all miners before they start the clock: each of them
\* has a processor at the pool and has sent its SetupConnection.
Init ==
    /\ target = [ref \in Targets |-> DefaultTarget]
    /\ prev_hash = 0
    /\ stats = [accepted_submits |-> 0, stale_submits |-> 0, rejected_submits |-> 0,
                accepted_shares |-> 0, stale_shares |-> 0]
    /\ pool = [m \in Miners |-> Processor]
    /\ \E diff_1 \in [Miners -> MinerDiffOnes] :
          miner = [m \in Miners |-> Miner(m, diff_1[m])]
    /\ outgoing = [m \in Miners |-> <<SetupConnection>>]
    /\ incoming = [m \in Miners |-> <<>>]
    /\ used = [shares |-> [m \in Miners |-> 0], vardiff |-> 0, disconnect |-> 0]

Send(m, msgs) == outgoing' = [outgoing EXCEPT ![m] = @ \o msgs]

-----------------------------------------------------------------------------
(* The pool                                                                *)

\* _on_vardiff_change: the new target, and a job to enforce it at once.
VardiffMsgs(s) == <<SetTarget(DefaultRef), NewMiningJob(s.next_job_uid, FALSE)>>

\* A second SetupConnection would fail in the constructor of its error answer.
visit_setup_connection(m) ==
    /\ pool' = [pool EXCEPT ![m].connection_config = TRUE,
                            ![m].bug = @ \/ pool[m].connection_config]
    /\ incoming' = [incoming EXCEPT ![m] = Append(@, SetupConnectionSuccess)]
    /\ UNCHANGED <<target, stats>>

\* What the miner needs in order to start: the answer, a job, and the block
\* that activates it.
OpeningMsgs(s, req_id, block, value) ==
    <<OpenSuccess(req_id, value), NewMiningJob(s.next_job_uid, TRUE),
      SetNewPrevHash(s.next_job_uid, block)>>

\* The channel is opened, and session.run() starts the vardiff loop, whose
\* first turn comes before any other event: it finds a meter with no submits.
visit_open_standard_mining_channel(m, msg) ==
    IF msg.max_target <= DiffOne
      THEN \E factor \in Factors \cap {Half, MinFactor} :
             LET first == take_future_job(WithNewJob(pool[m], TRUE, target[DefaultRef]))
                 both == WithNewJob(first, TRUE, target[DefaultRef])
                 divided == div_by_factor(target[DefaultRef], factor)
             IN  /\ target' = [target EXCEPT ![DefaultRef] = divided]
                 /\ pool' = [pool EXCEPT ![m] =
                       [WithNewJob(both, FALSE, divided) EXCEPT
                          !.channel = TRUE, !.running = TRUE]]
                 /\ incoming' = [incoming EXCEPT ![m] =
                       @ \o OpeningMsgs(pool[m], msg.req_id, prev_hash, target[DefaultRef])
                         \o <<NewMiningJob(first.next_job_uid, TRUE)>>
                         \o VardiffMsgs(both)]
                 /\ UNCHANGED stats
      ELSE /\ incoming' = [incoming EXCEPT ![m] = Append(@, OpenError(msg.req_id))]
           /\ UNCHANGED <<target, pool, stats>>

LastShareOnly(m, difficulty) ==
    /\ stats' = [stats EXCEPT !.accepted_submits = @ + 1, !.accepted_shares = difficulty]
    /\ pool' = [pool EXCEPT ![m].meter = @ + difficulty, ![m].bug = @ \/ ~pool[m].running]
    /\ incoming' = [incoming EXCEPT ![m] = Append(@, SubmitSuccess(difficulty))]

Accept(m, difficulty) ==
    /\ stats' = [stats EXCEPT !.accepted_submits = @ + 1, !.accepted_shares = @ + difficulty]
    /\ pool' = [pool EXCEPT ![m].meter = @ + difficulty, ![m].bug = @ \/ ~pool[m].running]
    /\ incoming' = [incoming EXCEPT ![m] = Append(@, SubmitSuccess(difficulty))]

Reject(m, difficulty) ==
    /\ incoming' = [incoming EXCEPT ![m] = Append(@, SubmitError(difficulty))]
    /\ UNCHANGED pool

DifficultyOf(jobs, uid) ==
    to_difficulty(target[get_job(jobs, uid).diff_target], DiffOne)

process_submit(m, uid) ==
    /\ CASE contains(pool[m], uid) ->
              Accept(m, DifficultyOf(pool[m].jobs, uid))
         [] ~contains(pool[m], uid) /\ contains_invalid(pool[m], uid) ->
              LET difficulty == DifficultyOf(pool[m].invalid_jobs, uid)
              IN  /\ stats' = [stats EXCEPT !.stale_submits = @ + 1,
                                            !.stale_shares = @ + difficulty]
                  /\ Reject(m, difficulty)
         [] OTHER ->
              /\ stats' = [stats EXCEPT !.rejected_submits = @ + 1]
              /\ Reject(m, 0)
    /\ UNCHANGED target

\* A message that names no channel of the connection meets an attribute of None.
visit_submit_shares_standard(m, msg) ==
    IF pool[m].channel
      THEN process_submit(m, msg.job_id)
      ELSE /\ pool' = [pool EXCEPT ![m].bug = TRUE]
           /\ UNCHANGED <<target, stats, incoming>>

PoolReceives(m) ==
    /\ pool[m].connected
    /\ outgoing[m] # <<>>
    /\ LET msg == Head(outgoing[m])
       IN  \/ msg.type = "SetupConnection" /\ visit_setup_connection(m)
           \/ /\ msg.type = "OpenStandardMiningChannel"
              /\ visit_open_standard_mining_channel(m, msg)
           \/ /\ msg.type = "SubmitSharesStandard"
              /\ visit_submit_shares_standard(m, msg)
    /\ outgoing' = [outgoing EXCEPT ![m] = Tail(@)]
    /\ UNCHANGED <<prev_hash, miner, used>>

\* One turn of the loop of a session.
vardiff_loop(m) ==
    /\ pool[m].connected /\ pool[m].running
    /\ used.vardiff < MaxVardiff
    /\ \E factor \in Factors :
          LET divided == div_by_factor(target[DefaultRef], factor)
          IN  /\ target' = [target EXCEPT ![DefaultRef] = divided]
              /\ pool' = [pool EXCEPT ![m] = WithNewJob(@, FALSE, divided)]
    /\ incoming' = [incoming EXCEPT ![m] = @ \o VardiffMsgs(pool[m])]
    /\ used' = [used EXCEPT !.vardiff = @ + 1]
    /\ UNCHANGED <<prev_hash, stats, miner, outgoing>>

\* The future job becomes the only job, and another future job is made.
FutureJobRetired(s, value) ==
    WithNewJob(retire_all_jobs(take_future_job(s)), TRUE, value)

OneFutureJob(s, value) ==
    add_job(retire_all_jobs(take_future_job(s)), s.future_job)

SwitchJobs(s, value) ==
    WithNewJob(add_job(retire_all_jobs(take_future_job(s)), s.future_job), TRUE, value)

on_new_block(s, value) == IF s.connected /\ s.channel THEN SwitchJobs(s, value) ELSE s

NewBlockMsgs(s, block) ==
    IF s.connected /\ s.channel
      THEN <<SetNewPrevHash(s.future_job.uid, block), NewMiningJob(s.next_job_uid, TRUE)>>
      ELSE <<>>

\* __pow_update
pow_update ==
    /\ prev_hash < MaxBlocks
    /\ prev_hash' = prev_hash + 1
    /\ pool' = [m \in Miners |-> on_new_block(pool[m], target[DefaultRef])]
    /\ incoming' = [m \in Miners |-> incoming[m] \o NewBlockMsgs(pool[m], prev_hash')]
    /\ UNCHANGED <<target, stats, miner, outgoing, used>>

-----------------------------------------------------------------------------
(* The miner                                                               *)

\* Miner.disconnect, through Connection.disconnect to PoolV2.terminate.  What
\* is still in the two stores has no reader any more.
disconnect(m) ==
    /\ miner[m].connected
    /\ used.disconnect = 0
    /\ miner' = [miner EXCEPT ![m].connected = FALSE, ![m].mine_proc = Idle]
    /\ pool' = [pool EXCEPT ![m].connected = FALSE, ![m].running = FALSE]
    /\ outgoing' = [outgoing EXCEPT ![m] = <<>>]
    /\ incoming' = [incoming EXCEPT ![m] = <<>>]
    /\ used' = [used EXCEPT !.disconnect = 1]
    /\ UNCHANGED <<target, prev_hash, stats>>

\* A Target keeps the diff_1_target that it was constructed with.
DiffOneOf(n, ref) == IF ref = DefaultRef THEN DiffOne ELSE n.diff_1_target

\* The difficulty is read once, when the mine process starts.
mine_on_new_job(n, job, block) ==
    LET share_diff == to_difficulty(target[job.diff_target], DiffOneOf(n, job.diff_target))
    IN  [n EXCEPT
           !.mine_proc = [uid |-> job.uid, block |-> block, share_diff |-> share_diff],
           !.prev_hash = block]

visit_setup_connection_success(m) ==
    /\ miner' = [miner EXCEPT
          ![m].state = "CONNECTION_SETUP",
          ![m].requests = @ \cup {miner[m].next_req_id},
          ![m].next_req_id = @ + 1]
    /\ Send(m, <<Open(miner[m].next_req_id, miner[m].diff_1_target)>>)
    /\ UNCHANGED target

visit_open_success(m, msg) ==
    /\ IF msg.req_id \in miner[m].requests
         THEN /\ target' = [target EXCEPT ![m] = msg.target]
              /\ miner' = [miner EXCEPT
                    ![m].requests = @ \ {msg.req_id},
                    ![m].channel = TRUE,
                    ![m].curr_diff_target = m]
         ELSE UNCHANGED <<target, miner>>
    /\ UNCHANGED outgoing

visit_open_mining_channel_error(m, msg) ==
    /\ miner' = [miner EXCEPT ![m].requests = @ \ {msg.req_id}]
    /\ UNCHANGED <<target, outgoing>>

visit_set_target(n, msg) == [n EXCEPT !.curr_diff_target = msg.max_target]

PrevHashRecorded(n, msg) ==
    IF contains(n, msg.job_id) THEN [n EXCEPT !.prev_hash = msg.prev_hash] ELSE n

visit_set_new_prev_hash(n, msg) ==
    IF contains(n, msg.job_id)
      THEN mine_on_new_job(n, get_job(n.jobs, msg.job_id), msg.prev_hash)
      ELSE n

\* A job id that is registered gives no job, and mine() fails on it.
visit_new_mining_job(n, msg) ==
    LET job == MiningJob(msg.job_id, n.curr_diff_target, target[n.curr_diff_target])
        registered == [n EXCEPT !.jobs = @ \cup {job}]
    IN  CASE contains(n, msg.job_id) -> [n EXCEPT !.bug = @ \/ ~msg.future_job]
          [] ~contains(n, msg.job_id) /\ msg.future_job -> registered
          [] OTHER -> mine_on_new_job(registered, job, n.prev_hash)

Account(n, msg) ==
    IF msg.type = "SubmitSharesSuccess"
      THEN [n EXCEPT !.successes = @ + 1]
      ELSE [n EXCEPT !.errors = @ + 1, !.refused = @ + msg.new_shares_sum]

visit_submit_shares_reply(n, msg) ==
    [n EXCEPT
       !.meter = @ + IF msg.type = "SubmitSharesSuccess" THEN msg.new_shares_sum ELSE 0,
       !.replies = Account(n.replies, msg)]

\* Messages of a channel, which __is_channel_valid drops before there is one.
ChannelMsg(m, msg) ==
    /\ miner' = [miner EXCEPT ![m] =
          CASE ~@.channel -> @
            [] @.channel /\ msg.type = "SetTarget" -> visit_set_target(@, msg)
            [] @.channel /\ msg.type = "SetNewPrevHash" -> visit_set_new_prev_hash(@, msg)
            [] @.channel /\ msg.type = "NewMiningJob" -> visit_new_mining_job(@, msg)
            [] OTHER -> visit_submit_shares_reply(@, msg)]
    /\ UNCHANGED <<target, outgoing>>

MinerReceives(m) ==
    /\ miner[m].connected
    /\ incoming[m] # <<>>
    /\ LET msg == Head(incoming[m])
       IN  CASE msg.type = "SetupConnectionSuccess" -> visit_setup_connection_success(m)
             [] msg.type = "OpenStandardMiningChannelSuccess" -> visit_open_success(m, msg)
             [] msg.type = "OpenMiningChannelError" -> visit_open_mining_channel_error(m, msg)
             [] OTHER -> ChannelMsg(m, msg)
    /\ incoming' = [incoming EXCEPT ![m] = Tail(@)]
    /\ UNCHANGED <<prev_hash, stats, pool, used>>

\* The timeout of mine() expires and submit_mining_solution is called.
mine(m) ==
    /\ miner[m].mine_proc # Idle
    /\ MapThenSumSet(LAMBDA k : used.shares[k], Miners) < MaxShares
    /\ Send(m, <<SubmitShares(miner[m].mine_proc.uid, miner[m].mine_proc.block)>>)
    /\ used' = [used EXCEPT !.shares[m] = @ + 1]
    /\ UNCHANGED <<target, prev_hash, stats, pool, miner, incoming>>

Next ==
    \/ pow_update
    \/ \E m \in Miners :
          \/ disconnect(m)
          \/ PoolReceives(m)
          \/ MinerReceives(m)
          \/ vardiff_loop(m)
          \/ mine(m)

Spec == Init /\ [][Next]_vars

-----------------------------------------------------------------------------
(* Properties                                                              *)

\* No assert of the simulator fails and no attribute of None is used, whatever
\* the order of blocks, vardiff turns, messages and departures: a future job is
\* there whenever a block needs one and never overwritten, job ids are new to
\* the miner, shares are accounted only on running sessions.
NoBug == \A m \in Miners : ~pool[m].bug /\ ~miner[m].bug

\* Pool's statistics mean what its docstring says.  A share on its way will be
\* accepted exactly if the miner found it while working for the block that is
\* current then, is stale if it was for an earlier one, and is never rejected
\* for a job the pool does not know.
StaleMeansOldBlock ==
    \A m \in Miners : \A i \in DOMAIN outgoing[m] :
       outgoing[m][i].type = "SubmitSharesStandard" =>
          LET share == outgoing[m][i]
          IN  /\ contains(pool[m], share.job_id) <=> (share.block = prev_hash)
              /\ contains(pool[m], share.job_id) \/ contains_invalid(pool[m], share.job_id)

InFlight(m, type) == {i \in DOMAIN incoming[m] : incoming[m][i].type = type}

\* What the pool has answered to a miner, and what is in the answers on their way.
Successes(m) ==
    miner[m].replies.successes + Cardinality(InFlight(m, "SubmitSharesSuccess"))
Errors(m) == miner[m].replies.errors + Cardinality(InFlight(m, "SubmitSharesError"))
SumInFlight(m, type) ==
    MapThenSumSet(LAMBDA i : incoming[m][i].new_shares_sum, InFlight(m, type))

\* Pool, session and miner keep the same books: the pool's accepted shares are
\* those of its sessions, what a session accepted is what its miner was told or
\* is being told, and every solution has one answer or is on its way.  As long
\* as nobody has left, the pool has counted every answer, as what it was.
BooksAgree ==
    /\ stats.accepted_shares = MapThenSumSet(LAMBDA m : pool[m].meter, Miners)
    /\ \A m \in Miners : miner[m].connected =>
          /\ pool[m].meter = miner[m].meter + SumInFlight(m, "SubmitSharesSuccess")
          /\ used.shares[m] = Successes(m) + Errors(m)
                + Cardinality({i \in DOMAIN outgoing[m] :
                                  outgoing[m][i].type = "SubmitSharesStandard"})
    /\ (\A m \in Miners : miner[m].connected) =>
          /\ stats.accepted_submits = MapThenSumSet(Successes, Miners)
          /\ stats.stale_submits + stats.rejected_submits = MapThenSumSet(Errors, Miners)
          /\ stats.stale_shares =
                MapThenSumSet(LAMBDA m : miner[m].replies.refused
                                           + SumInFlight(m, "SubmitSharesError"), Miners)

\* A miner with nothing left to receive works for the current block, on a job
\* whose shares the pool accepts and which is not the one it keeps for the next
\* block, and it has that one ready: no order of blocks, vardiff turns and
\* messages leaves it behind, or makes it deaf to the next SetNewPrevHash.
QuietMinersUpToDate ==
    \A m \in Miners :
       (pool[m].connected /\ pool[m].channel /\ incoming[m] = <<>>) =>
          /\ miner[m].mine_proc.block = prev_hash
          /\ contains(pool[m], miner[m].mine_proc.uid)
          /\ miner[m].mine_proc.uid # pool[m].future_job.uid
          /\ contains(miner[m], pool[m].future_job.uid)

\* MiningJob's docstring: "track per job difficulty target for correct
\* accounting".  The target of a registered job is the one it was made with.
JobKeepsTarget ==
    \A m \in Miners : \A job \in pool[m].jobs \cup pool[m].invalid_jobs :
       target[job.diff_target] = job.born
=============================================================================
