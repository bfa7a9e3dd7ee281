----------------------- MODULE MiningSimulationProofs -----------------------
(***************************************************************************)
(* What the pool and the miners of the simulator promise each other, for   *)
(* any number of miners, blocks, shares and turns of the vardiff loops:    *)
(* no assertion fails, a share is stale exactly if it is for an old block, *)
(* and a miner that has received all it was sent is up to date.            *)
(*                                                                         *)
(* A connection is opening, open or gone.  The argument is about the       *)
(* messages on their way to a miner with an open channel: read from the    *)
(* miner's state onwards they lead to the state of its session.            *)
(***************************************************************************)
EXTENDS MiningSimulation, TLAPS

-----------------------------------------------------------------------------
(* Types.  Counters of shares have none: the difficulty of a target of     *)
(* zero is not specified.                                                  *)

Difficulties == {to_difficulty(value, DiffOne) : value \in Int}

ToMiner ==
    {SetupConnectionSuccess, SetTarget(DefaultRef)}
      \cup {OpenSuccess(req_id, value) : req_id \in Nat, value \in Int}
      \cup {OpenError(req_id) : req_id \in Nat}
      \cup {NewMiningJob(uid, future) : uid \in Nat, future \in BOOLEAN}
      \cup {SetNewPrevHash(uid, block) : uid \in Nat, block \in Nat}
      \cup {SubmitSuccess(sum) : sum \in Difficulties}
      \cup {SubmitError(sum) : sum \in Difficulties \cup {0}}

ToPool ==
    {SetupConnection}
      \cup {Open(req_id, value) : req_id \in Nat, value \in Nat}
      \cup {SubmitShares(uid, block) : uid \in Nat, block \in Int}

TypeOK ==
    /\ target \in [Targets -> Int]
    /\ prev_hash \in Nat
    /\ pool = [m \in Miners |-> pool[m]]
    /\ miner = [m \in Miners |-> miner[m]]
    /\ outgoing \in [Miners -> Seq(ToPool)]
    /\ incoming \in [Miners -> Seq(ToMiner)]
    /\ \A m \in Miners : DOMAIN pool[m] = DOMAIN Processor
    /\ \A m \in Miners : DOMAIN miner[m] = DOMAIN Miner(m, 0)

-----------------------------------------------------------------------------
(* The parts of the invariant, of a session s, a miner n, the messages     *)
(* out and in between them, and the current block.                         *)

Known(s, uid) == contains(s, uid) \/ contains_invalid(s, uid)

IsJob(msg) == msg.type = "NewMiningJob"
IsBlock(msg) == msg.type = "SetNewPrevHash"
IsShare(msg) == msg.type = "SubmitSharesStandard"
OfChannel(msg) ==
    msg.type \in {"NewMiningJob", "SetNewPrevHash", "SetTarget",
                  "SubmitSharesSuccess", "SubmitSharesError"}

\* A session and a miner that have no channel yet.
New(s, n) ==
    /\ ~s.channel /\ ~n.channel /\ ~s.running /\ s.connected /\ n.connected
    /\ s.next_job_uid = 0 /\ s.jobs = {} /\ s.invalid_jobs = {} /\ s.future_job = NoJob
    /\ n.jobs = {} /\ n.prev_hash = -1 /\ n.mine_proc = Idle

\* Before the channel exists the two take turns.
Opening(s, n, out, in) ==
    /\ New(s, n)
    /\ \/ /\ ~s.connection_config /\ n.next_req_id = 0
          /\ out = <<SetupConnection>> /\ in = <<>>
       \/ n.next_req_id = 0 /\ out = <<>> /\ in = <<SetupConnectionSuccess>>
       \/ 0 \in n.requests /\ out = <<Open(0, n.diff_1_target)>> /\ in = <<>>
       \/ out = <<>> /\ in \in {<<OpenError(0)>>, <<>>}

\* After a departure nothing is on its way.
Gone(s, n, out, in) ==
    /\ ~s.connected /\ ~n.connected /\ ~s.running
    /\ n.mine_proc = Idle
    /\ out = <<>> /\ in = <<>>

\* The answer to the open request comes first, then there are messages of the
\* channel only.
Ordered(s, n, out, in) ==
    /\ s.channel /\ s.connected /\ s.running /\ n.connected
    /\ \A i \in 1 .. Len(out) : IsShare(out[i])
    /\ \A i \in 2 .. Len(in) : OfChannel(in[i])
    /\ Len(in) > 0 /\ n.channel => OfChannel(in[1])
    /\ ~n.channel => /\ Len(in) > 0
                     /\ in[1].type = "OpenStandardMiningChannelSuccess"
                     /\ in[1].req_id \in n.requests

\* The registry of a session: ids below next_job_uid, and a future job.
Registered(s) ==
    /\ s.next_job_uid \in Nat
    /\ \A job \in s.jobs \cup s.invalid_jobs :
          job.uid \in 0 .. (s.next_job_uid - 1) /\ job.diff_target = DefaultRef
    /\ s.future_job \in s.jobs

\* Ids of jobs are new to the miner when they arrive.
Distinct(s, n, in) ==
    /\ \A job \in n.jobs : job.uid \in 0 .. (s.next_job_uid - 1)
    /\ \A i \in 1 .. Len(in) : IsJob(in[i]) =>
          in[i].job_id \in 0 .. (s.next_job_uid - 1) /\ ~contains(n, in[i].job_id)
    /\ \A i, j \in 1 .. Len(in) : i < j /\ IsJob(in[i]) /\ IsJob(in[j]) =>
          in[i].job_id # in[j].job_id

\* A job is with the miner, or among the first k messages to it.
Announced(n, in, uid, k) ==
    contains(n, uid) \/ \E i \in 1 .. k : IsJob(in[i]) /\ in[i].job_id = uid

\* A job that a block activates was announced before.
Prepared(s, n, in) ==
    /\ Announced(n, in, s.future_job.uid, Len(in))
    /\ \A i \in 1 .. Len(in) : IsBlock(in[i]) => Announced(n, in, in[i].job_id, i)

\* The miner will see the blocks in their order, and the current one last.
Current(n, in, block) ==
    /\ n.prev_hash \in -1 .. block
    /\ n.mine_proc.block = n.prev_hash
    /\ \A i \in 1 .. Len(in) : IsBlock(in[i]) => in[i].prev_hash \in (n.prev_hash + 1) .. block
    /\ \A i, j \in 1 .. Len(in) : i < j /\ IsBlock(in[i]) /\ IsBlock(in[j]) =>
          in[i].prev_hash < in[j].prev_hash
    /\ n.prev_hash = block \/ \E i \in 1 .. Len(in) : IsBlock(in[i]) /\ in[i].prev_hash = block

\* Work on a job for a block `for' will be accepted if this is the current one.
Sound(s, uid, for, block) ==
    /\ uid # s.future_job.uid
    /\ Known(s, uid)
    /\ for \in -1 .. block
    /\ contains(s, uid) <=> for = block

\* The work of the miner, its shares, and what it will work on.
Working(s, n, out, in, block) ==
    /\ n.mine_proc # Idle => Sound(s, n.mine_proc.uid, n.mine_proc.block, block)
    /\ \A i \in 1 .. Len(out) : Sound(s, out[i].job_id, out[i].block, block)
    /\ \A i \in 1 .. Len(in) : IsBlock(in[i]) =>
          Sound(s, in[i].job_id, in[i].prev_hash, block)
    /\ \A i \in 1 .. Len(in) : IsJob(in[i]) /\ ~in[i].future_job =>
          /\ in[i].job_id # s.future_job.uid
          /\ Known(s, in[i].job_id)
          /\ contains(s, in[i].job_id) <=> \A j \in i .. Len(in) : ~IsBlock(in[j])

Opened(s, n, out, in, block) ==
    /\ Ordered(s, n, out, in)
    /\ Registered(s)
    /\ Distinct(s, n, in)
    /\ Prepared(s, n, in)
    /\ Current(n, in, block)
    /\ Working(s, n, out, in, block)

\* One connection.
Connection(s, n, out, in, block) ==
    /\ s.bug = FALSE /\ n.bug = FALSE /\ n.diff_1_target \in Nat
    /\ n.curr_diff_target \in Targets
    /\ \/ Opening(s, n, out, in)
       \/ Gone(s, n, out, in)
       \/ Opened(s, n, out, in, block)

IInv ==
    /\ TypeOK
    /\ \A m \in Miners :
          Connection(pool[m], miner[m], outgoing[m], incoming[m], prev_hash)

-----------------------------------------------------------------------------
(* Sessions                                                                *)

\* Session t is session s with a new job.
JobAdded(s, t, job) ==
    /\ DOMAIN t = DOMAIN Processor
    /\ t.connected = s.connected /\ t.channel = s.channel /\ t.running = s.running
    /\ t.bug = FALSE
    /\ t.next_job_uid = s.next_job_uid + 1 /\ t.invalid_jobs = s.invalid_jobs
    /\ job.uid = s.next_job_uid /\ job.diff_target = DefaultRef
    /\ t.jobs = s.jobs \cup {job}
    /\ \A uid : contains(t, uid) <=> contains(s, uid) \/ uid = s.next_job_uid
    /\ \A uid : contains_invalid(t, uid) <=> contains_invalid(s, uid)

\* The two kinds of new jobs.
WithFutureJob(s, value) == WithNewJob(s, TRUE, value)
WithJobNow(s, value) == WithNewJob(s, FALSE, value)

\* A session with a new job has one job more, and nothing else is new
\* (new_mining_job, add_future_job).
LEMMA NewJob ==
    ASSUME NEW s, DOMAIN s = DOMAIN Processor, NEW value,
           s.next_job_uid \in Nat, s.bug = FALSE
    PROVE  LET job == MiningJob(s.next_job_uid, DefaultRef, value)
               f == WithFutureJob(s, value)
               t == WithJobNow(s, value)
           IN  /\ JobAdded(s, t, job) /\ t.future_job = s.future_job
               /\ s.future_job = NoJob => JobAdded(s, f, job) /\ f.future_job = job
<1> DEFINE job == MiningJob(s.next_job_uid, DefaultRef, value)
           f == WithFutureJob(s, value)
           t == WithJobNow(s, value)
<1>1. DOMAIN Processor = {"connected", "connection_config", "channel", "running", "next_job_uid",
                          "jobs", "invalid_jobs", "future_job", "meter", "bug"}
  BY Zenon DEF Processor
<1>2. /\ DOMAIN t = DOMAIN s
      /\ t.connected = s.connected /\ t.channel = s.channel /\ t.running = s.running
      /\ t.next_job_uid = s.next_job_uid + 1 /\ t.invalid_jobs = s.invalid_jobs
      /\ t.jobs = s.jobs \cup {job} /\ t.future_job = s.future_job /\ t.bug = FALSE
  BY <1>1, Zenon DEF WithJobNow, WithNewJob
<1>3. /\ DOMAIN f = DOMAIN s
      /\ f.connected = s.connected /\ f.channel = s.channel /\ f.running = s.running
      /\ f.next_job_uid = s.next_job_uid + 1 /\ f.invalid_jobs = s.invalid_jobs
      /\ f.jobs = s.jobs \cup {job} /\ f.future_job = job
      /\ s.future_job = NoJob => f.bug = FALSE
  BY <1>1, Zenon DEF WithFutureJob, WithNewJob
<1>4. job.uid = s.next_job_uid /\ job.diff_target = DefaultRef
  BY Zenon DEF MiningJob
<1> HIDE DEF job, f, t
<1>5. \A uid : /\ contains(t, uid) <=> contains(s, uid) \/ uid = s.next_job_uid
               /\ contains(f, uid) <=> contains(s, uid) \/ uid = s.next_job_uid
  BY <1>2, <1>3, <1>4, Zenon DEF contains
<1>6. \A uid : /\ contains_invalid(t, uid) <=> contains_invalid(s, uid)
               /\ contains_invalid(f, uid) <=> contains_invalid(s, uid)
  BY <1>2, <1>3, Zenon DEF contains_invalid
<1>7. JobAdded(s, t, job)
  BY <1>2, <1>4, <1>5, <1>6, Zenon DEF JobAdded
<1>8. s.future_job = NoJob => JobAdded(s, f, job)
  BY <1>3, <1>4, <1>5, <1>6, Zenon DEF JobAdded
<1> QED
  BY <1>2, <1>3, <1>7, <1>8, Zenon DEF job, f, t

\* Session t is session s after a new block: the future job is the only one
\* besides the next future job, and all the others are invalid.
Switched(s, t) ==
    /\ DOMAIN t = DOMAIN Processor
    /\ t.connected = s.connected /\ t.channel = s.channel /\ t.running = s.running
    /\ t.bug = FALSE
    /\ Registered(t)
    /\ t.next_job_uid = s.next_job_uid + 1 /\ t.future_job.uid = s.next_job_uid
    /\ \A uid : contains(t, uid) <=> uid \in {s.future_job.uid, s.next_job_uid}
    /\ \A uid : contains_invalid(t, uid) <=> Known(s, uid)

\* The switch to the future job (take_future_job, retire_all_jobs, add_job).
LEMMA JobsSwitched ==
    ASSUME NEW s, DOMAIN s = DOMAIN Processor, NEW value, s.bug = FALSE, Registered(s)
    PROVE  Switched(s, SwitchJobs(s, value))
<1> DEFINE t == SwitchJobs(s, value)
<1>1. DOMAIN Processor = {"connected", "connection_config", "channel", "running", "next_job_uid",
                          "jobs", "invalid_jobs", "future_job", "meter", "bug"}
  BY Zenon DEF Processor
<1>2. /\ s.next_job_uid \in Nat /\ s.future_job \in s.jobs
      /\ \A job \in s.jobs \cup s.invalid_jobs :
            job.uid \in 0 .. (s.next_job_uid - 1) /\ job.diff_target = DefaultRef
  BY Zenon DEF Registered
<1>3. s.future_job # NoJob
  BY <1>2 DEF NoJob
<1> DEFINE a == take_future_job(s)
           b == retire_all_jobs(a)
           c == add_job(b, s.future_job)
<1>4. /\ DOMAIN a = DOMAIN s
      /\ a.connected = s.connected /\ a.channel = s.channel /\ a.running = s.running
      /\ a.next_job_uid = s.next_job_uid /\ a.jobs = s.jobs /\ a.invalid_jobs = s.invalid_jobs
      /\ a.future_job = NoJob /\ a.bug = FALSE
  BY <1>1, <1>3, Zenon DEF take_future_job
<1> HIDE DEF a
<1>5. /\ DOMAIN b = DOMAIN s
      /\ b.connected = s.connected /\ b.channel = s.channel /\ b.running = s.running
      /\ b.next_job_uid = s.next_job_uid /\ b.jobs = {}
      /\ b.invalid_jobs = s.invalid_jobs \cup s.jobs
      /\ b.future_job = NoJob /\ b.bug = FALSE
  BY <1>1, <1>4, Zenon DEF retire_all_jobs
<1> HIDE DEF b
<1>6. ~contains(b, s.future_job.uid)
  BY <1>5, Zenon DEF contains
<1>7. /\ DOMAIN c = DOMAIN s
      /\ c.connected = s.connected /\ c.channel = s.channel /\ c.running = s.running
      /\ c.next_job_uid = s.next_job_uid /\ c.jobs = {s.future_job}
      /\ c.invalid_jobs = s.invalid_jobs \cup s.jobs
      /\ c.future_job = NoJob /\ c.bug = FALSE
  BY <1>1, <1>5, <1>6, Zenon DEF add_job
<1> HIDE DEF c
<1>8. t = WithFutureJob(c, value)
  BY Zenon DEF SwitchJobs, WithFutureJob, a, b, c
<1> HIDE DEF t
<1>9. PICK job : JobAdded(c, t, job) /\ t.future_job = job
  <2>1. /\ DOMAIN c = DOMAIN Processor /\ c.next_job_uid \in Nat /\ c.bug = FALSE
        /\ c.future_job = NoJob
    BY <1>2, <1>7, Zenon
  <2> QED
    BY <1>8, <2>1, NewJob, ZenonT(30)
<1>10. \A uid : contains(c, uid) <=> uid = s.future_job.uid
  BY <1>7, Zenon DEF contains
<1>11. \A uid : contains_invalid(c, uid) <=> Known(s, uid)
  BY <1>7, Zenon DEF contains_invalid, contains, Known
<1>12. Registered(t)
  BY <1>2, <1>7, <1>8, <1>9 DEF Registered, JobAdded
<1>13. Switched(s, t)
  BY <1>7, <1>8, <1>9, <1>10, <1>11, <1>12, Zenon DEF JobAdded, Switched
<1> QED
  BY <1>13, Zenon DEF t

-----------------------------------------------------------------------------
(* Messages                                                                *)

\* What the messages of the model are.
LEMMA MessageFields ==
    /\ SetupConnectionSuccess \in ToMiner /\ SetTarget(DefaultRef) \in ToMiner
    /\ \A req_id \in Nat, value \in Int : OpenSuccess(req_id, value) \in ToMiner
    /\ \A req_id \in Nat : OpenError(req_id) \in ToMiner
    /\ \A uid \in Nat, future \in BOOLEAN : NewMiningJob(uid, future) \in ToMiner
    /\ \A uid, block \in Nat : SetNewPrevHash(uid, block) \in ToMiner
    /\ \A sum \in Difficulties : SubmitSuccess(sum) \in ToMiner
    /\ \A sum \in Difficulties \cup {0} : SubmitError(sum) \in ToMiner
    /\ SetupConnection \in ToPool
    /\ \A req_id, value \in Nat : Open(req_id, value) \in ToPool
    /\ \A uid \in Nat, block \in Int : SubmitShares(uid, block) \in ToPool
BY DEF ToMiner, ToPool

\* Their fields, as far as they are used.
LEMMA MessageTypes ==
    /\ SetupConnectionSuccess.type = "SetupConnectionSuccess"
    /\ SetTarget(DefaultRef).type = "SetTarget"
    /\ \A sum : SubmitSuccess(sum).type = "SubmitSharesSuccess"
    /\ \A sum : SubmitError(sum).type = "SubmitSharesError"
    /\ \A req_id : /\ OpenError(req_id).type = "OpenMiningChannelError"
                   /\ OpenError(req_id).req_id = req_id
    /\ \A req_id, value :
          /\ OpenSuccess(req_id, value).type = "OpenStandardMiningChannelSuccess"
          /\ OpenSuccess(req_id, value).req_id = req_id
    /\ \A uid, future : /\ NewMiningJob(uid, future).type = "NewMiningJob"
                        /\ NewMiningJob(uid, future).job_id = uid
                        /\ NewMiningJob(uid, future).future_job = future
    /\ \A uid, block : /\ SetNewPrevHash(uid, block).type = "SetNewPrevHash"
                       /\ SetNewPrevHash(uid, block).job_id = uid
                       /\ SetNewPrevHash(uid, block).prev_hash = block
BY Zenon DEF SetupConnectionSuccess, SubmitError, SetTarget, SubmitSuccess, OpenError, OpenSuccess,
       NewMiningJob, SetNewPrevHash

\* And those of the messages to the pool.
LEMMA PoolMessageTypes ==
    /\ SetupConnection.type = "SetupConnection"
    /\ \A req_id, value : /\ Open(req_id, value).type = "OpenStandardMiningChannel"
                          /\ Open(req_id, value).req_id = req_id
                          /\ Open(req_id, value).max_target = value
    /\ \A uid, block : /\ SubmitShares(uid, block).type = "SubmitSharesStandard"
                       /\ SubmitShares(uid, block).job_id = uid
                       /\ SubmitShares(uid, block).block = block
BY Zenon DEF SetupConnection, Open, SubmitShares

\* What a message to a miner carries.
LEMMA MinerMessage ==
    ASSUME NEW msg \in ToMiner
    PROVE  /\ IsJob(msg) => msg.job_id \in Nat /\ msg.future_job \in BOOLEAN
           /\ IsBlock(msg) => msg.job_id \in Nat /\ msg.prev_hash \in Nat
           /\ msg.type = "SetTarget" => msg.max_target = DefaultRef
           /\ msg.type = "OpenStandardMiningChannelSuccess" => msg.target \in Int
BY DEF ToMiner, IsJob, IsBlock, SetupConnectionSuccess, SubmitError, SetTarget, SubmitSuccess,
       OpenError, OpenSuccess, NewMiningJob, SetNewPrevHash

\* A message with a job, to be worked on now or later.
LEMMA JobMessages ==
    ASSUME NEW uid \in Nat
    PROVE  /\ \E x \in ToMiner : /\ x = NewMiningJob(uid, TRUE)
                                 /\ IsJob(x) /\ x.job_id = uid /\ x.future_job
           /\ \E x \in ToMiner : /\ x = NewMiningJob(uid, FALSE)
                                 /\ IsJob(x) /\ x.job_id = uid /\ ~x.future_job
<1>1. NewMiningJob(uid, TRUE) \in ToMiner /\ NewMiningJob(uid, FALSE) \in ToMiner
  BY MessageFields, Zenon
<1>2. /\ IsJob(NewMiningJob(uid, TRUE)) /\ NewMiningJob(uid, TRUE).job_id = uid
      /\ NewMiningJob(uid, TRUE).future_job
      /\ IsJob(NewMiningJob(uid, FALSE)) /\ NewMiningJob(uid, FALSE).job_id = uid
      /\ ~NewMiningJob(uid, FALSE).future_job
  BY Zenon DEF IsJob, NewMiningJob
<1> QED
  BY <1>1, <1>2, Zenon

\* A sequence with one more message.
Longer(q, r, x) ==
    /\ Len(r) = Len(q) + 1
    /\ \A i \in 1 .. Len(q) : r[i] = q[i]
    /\ r[Len(q) + 1] = x

\* A sequence without its first message.
Shorter(q, r) ==
    /\ Len(q) = Len(r) + 1
    /\ \A i \in 1 .. Len(r) : r[i] = q[i + 1]

\* Sending and receiving.
LEMMA Lengths ==
    ASSUME NEW S, NEW q \in Seq(S)
    PROVE  /\ Len(q) \in Nat /\ (q # <<>> <=> Len(q) > 0)
           /\ \A x \in S : Append(q, x) \in Seq(S) /\ Longer(q, Append(q, x), x)
           /\ q # <<>> => Tail(q) \in Seq(S) /\ Shorter(q, Tail(q)) /\ Head(q) = q[1] /\ Head(q) \in S
BY DEF Longer, Shorter

-----------------------------------------------------------------------------
(* The pool's side of an open channel                                      *)

\* The blocks on their way stay the same when something else is sent.
LEMMA BlocksKept ==
    ASSUME NEW n, NEW in, NEW r, NEW x, NEW block,
           Current(n, in, block), Len(in) \in Nat, Longer(in, r, x), ~IsBlock(x)
    PROVE  Current(n, r, block)
<1>1. /\ \A i \in 1 .. Len(in) : r[i] = in[i] /\ i \in 1 .. Len(r)
      /\ \A i \in 1 .. Len(r) : IsBlock(r[i]) => i \in 1 .. Len(in)
  BY DEF Longer
<1>2. \A i \in 1 .. Len(r) : IsBlock(r[i]) => r[i].prev_hash \in (n.prev_hash + 1) .. block
  BY <1>1, Zenon DEF Current
<1>3. \A i, j \in 1 .. Len(r) : i < j /\ IsBlock(r[i]) /\ IsBlock(r[j]) =>
         r[i].prev_hash < r[j].prev_hash
  BY <1>1, Zenon DEF Current
<1>4. n.prev_hash = block \/ \E i \in 1 .. Len(r) : IsBlock(r[i]) /\ r[i].prev_hash = block
  BY <1>1, Zenon DEF Current
<1> QED
  BY <1>2, <1>3, <1>4, Zenon DEF Current

\* A target or the answer to a share changes nothing of the rest.
LEMMA PlainSent ==
    ASSUME NEW s, NEW n, NEW out, NEW in, NEW r, NEW x, NEW block,
           Opened(s, n, out, in, block), Len(in) \in Nat, Longer(in, r, x),
           OfChannel(x), ~IsJob(x), ~IsBlock(x)
    PROVE  Opened(s, n, out, r, block)
<1>1. /\ Len(r) = Len(in) + 1
      /\ \A i \in 1 .. Len(in) : r[i] = in[i]
      /\ r[Len(in) + 1] = x
      /\ \A i \in 1 .. Len(r) : i \in 1 .. Len(in) \/ i = Len(in) + 1
      /\ Len(r) \in Nat
  BY DEF Longer
<1> USE DEF Opened
<1>2. Ordered(s, n, out, r)
  BY <1>1 DEF Ordered
<1>3. Distinct(s, n, r)
  BY <1>1, Zenon DEF Distinct
<1>4. \A k \in 0 .. Len(in) : \A uid : Announced(n, in, uid, k) => Announced(n, r, uid, k)
  <2>1. \A k \in 0 .. Len(in) : \A i \in 1 .. k : r[i] = in[i]
    BY <1>1
  <2> QED
    BY <2>1, Zenon DEF Announced
<1>5. Announced(n, r, s.future_job.uid, Len(r))
  BY <1>1, <1>4 DEF Prepared, Announced
<1>6. Prepared(s, n, r)
  BY <1>1, <1>4, <1>5 DEF Prepared
<1>7. Current(n, r, block)
  BY BlocksKept, Zenon
<1>8. Working(s, n, out, r, block)
  <2>1. \A i \in 1 .. Len(in) :
           (\A j \in i .. Len(in) : ~IsBlock(in[j])) <=> (\A j \in i .. Len(r) : ~IsBlock(r[j]))
    BY <1>1
  <2> QED
    BY <1>1, <2>1, Zenon DEF Working
<1> QED
  BY <1>2, <1>3, <1>6, <1>7, <1>8, Zenon

\* A job to be worked on at once, of a turn of the vardiff loop.
LEMMA JobSent ==
    ASSUME NEW s, NEW t, NEW n, NEW out, NEW in, NEW r, NEW x, NEW block,
           Opened(s, n, out, in, block), Len(in) \in Nat, Longer(in, r, x),
           NEW made, JobAdded(s, t, made), t.future_job = s.future_job,
           IsJob(x), x.job_id = s.next_job_uid, ~x.future_job
    PROVE  Opened(t, n, out, r, block)
<1>1. /\ Len(r) = Len(in) + 1
      /\ \A i \in 1 .. Len(in) : r[i] = in[i]
      /\ r[Len(in) + 1] = x
      /\ \A i \in 1 .. Len(r) : i \in 1 .. Len(in) \/ i = Len(in) + 1
      /\ Len(r) \in Nat
  BY DEF Longer
<1>2. IsJob(x) /\ ~IsBlock(x) /\ OfChannel(x) /\ x.job_id = s.next_job_uid /\ ~x.future_job
  BY Zenon DEF IsJob, IsBlock, OfChannel
<1>3. /\ t.connected = s.connected /\ t.channel = s.channel /\ t.running = s.running
      /\ t.next_job_uid = s.next_job_uid + 1 /\ t.future_job = s.future_job
      /\ \A uid : contains(t, uid) <=> contains(s, uid) \/ uid = s.next_job_uid
      /\ \A uid : contains_invalid(t, uid) <=> contains_invalid(s, uid)
  BY Zenon DEF JobAdded
<1> USE DEF Opened
<1>4. s.next_job_uid \in Nat /\ \A uid : Known(s, uid) => uid \in 0 .. (s.next_job_uid - 1)
  BY Zenon DEF Registered, Known, contains, contains_invalid
<1>5. Known(s, s.future_job.uid)
  BY Zenon DEF Registered, Known, contains
<1>6. Registered(t)
  BY DEF Registered, JobAdded
<1>7. Ordered(t, n, out, r)
  BY <1>1, <1>2, <1>3 DEF Ordered
<1>8. Distinct(t, n, r)
  <2>1. \A job \in n.jobs : job.uid # s.next_job_uid /\ job.uid \in 0 .. (t.next_job_uid - 1)
    BY <1>3, <1>4 DEF Distinct
  <2>2. ~contains(n, s.next_job_uid)
    BY <2>1, Zenon DEF contains
  <2>3. \A i \in 1 .. Len(in) : IsJob(in[i]) =>
           /\ in[i].job_id \in 0 .. (t.next_job_uid - 1)
           /\ in[i].job_id # s.next_job_uid /\ ~contains(n, in[i].job_id)
    BY <1>3, <1>4 DEF Distinct
  <2>4. x.job_id \in 0 .. (t.next_job_uid - 1) /\ ~contains(n, x.job_id)
    BY <1>2, <1>3, <1>4, <2>2
  <2>5. \A i \in 1 .. Len(r) : IsJob(r[i]) =>
           r[i].job_id \in 0 .. (t.next_job_uid - 1) /\ ~contains(n, r[i].job_id)
    BY <1>1, <2>3, <2>4, Zenon
  <2>6. \A i, j \in 1 .. Len(in) : i < j /\ IsJob(in[i]) /\ IsJob(in[j]) =>
           in[i].job_id # in[j].job_id
    BY Zenon DEF Distinct
  <2>7. \A i, j \in 1 .. Len(r) : i < j /\ IsJob(r[i]) /\ IsJob(r[j]) =>
           r[i].job_id # r[j].job_id
    BY <1>1, <1>2, <2>3, <2>6
  <2> QED
    BY <2>1, <2>5, <2>7, Zenon DEF Distinct
<1>9. \A k \in 0 .. Len(in) : \A uid : Announced(n, in, uid, k) => Announced(n, r, uid, k)
  <2>1. \A k \in 0 .. Len(in) : \A i \in 1 .. k : r[i] = in[i]
    BY <1>1
  <2> QED
    BY <2>1, Zenon DEF Announced
<1>10. Announced(n, r, t.future_job.uid, Len(r))
  BY <1>1, <1>3, <1>9 DEF Prepared, Announced
<1>11. Prepared(t, n, r)
  BY <1>1, <1>2, <1>9, <1>10 DEF Prepared
<1>12. Current(n, r, block)
  BY <1>2, BlocksKept, Zenon
<1>13. \A uid, for : Sound(s, uid, for, block) => Sound(t, uid, for, block)
  BY <1>3, <1>4 DEF Sound, Known
<1>14. Working(t, n, out, r, block)
  <2>1. \A i \in 1 .. Len(in) :
           (\A j \in i .. Len(in) : ~IsBlock(in[j])) <=> (\A j \in i .. Len(r) : ~IsBlock(r[j]))
    BY <1>1, <1>2, SMTT(30)
  <2>2. \A uid : Known(s, uid) => Known(t, uid) /\ (contains(t, uid) <=> contains(s, uid))
    BY <1>3, <1>4 DEF Known
  <2>3. /\ Known(t, x.job_id) /\ contains(t, x.job_id) /\ x.job_id # t.future_job.uid
        /\ \A j \in (Len(in) + 1) .. Len(r) : ~IsBlock(r[j])
    BY <1>1, <1>2, <1>3, <1>4, <1>5 DEF Known
  <2> QED
    BY <1>1, <1>2, <1>3, <1>13, <2>1, <2>2, <2>3, ZenonT(30) DEF Working
<1> QED
  BY <1>6, <1>7, <1>8, <1>11, <1>12, <1>14, Zenon

\* A new block: the future job is activated, and the next one announced.  The
\* shares of the old jobs are stale from now on.
LEMMA BlockSent ==
    ASSUME NEW s, NEW t, NEW n, NEW out, NEW in, NEW q, NEW r, NEW x, NEW y, NEW block \in Nat,
           Opened(s, n, out, in, block), Len(in) \in Nat, Longer(in, q, x), Longer(q, r, y),
           Switched(s, t),
           IsBlock(x), x.job_id = s.future_job.uid, x.prev_hash = block + 1,
           IsJob(y), y.job_id = s.next_job_uid, y.future_job
    PROVE  Opened(t, n, out, r, block + 1)
<1>1. /\ Len(r) = Len(in) + 2
      /\ \A i \in 1 .. Len(in) : r[i] = in[i]
      /\ r[Len(in) + 1] = x /\ r[Len(in) + 2] = y
      /\ \A i \in 1 .. Len(r) : i \in 1 .. Len(in) \/ i = Len(in) + 1 \/ i = Len(in) + 2
      /\ Len(r) \in Nat
  BY DEF Longer
<1>2. ~IsJob(x) /\ ~IsBlock(y) /\ OfChannel(x) /\ OfChannel(y)
  BY Zenon DEF IsJob, IsBlock, OfChannel
<1>3. /\ t.connected = s.connected /\ t.channel = s.channel /\ t.running = s.running
      /\ t.next_job_uid = s.next_job_uid + 1 /\ t.future_job.uid = s.next_job_uid
      /\ Registered(t)
      /\ \A uid : contains(t, uid) <=> uid \in {s.future_job.uid, s.next_job_uid}
      /\ \A uid : contains_invalid(t, uid) <=> Known(s, uid)
  BY Zenon DEF Switched
<1> USE DEF Opened
<1>4. s.next_job_uid \in Nat /\ \A uid : Known(s, uid) => uid \in 0 .. (s.next_job_uid - 1)
  BY Zenon DEF Registered, Known, contains, contains_invalid
<1>5. Known(s, s.future_job.uid)
  BY Zenon DEF Registered, Known, contains
<1>6. Ordered(t, n, out, r)
  <2>1. Ordered(s, n, out, in)
    BY Zenon
  <2>2. /\ \A i \in 2 .. Len(r) : i \in 2 .. Len(in) \/ i = Len(in) + 1 \/ i = Len(in) + 2
        /\ 1 \in 1 .. Len(in) \/ Len(in) = 0
        /\ Len(r) > 0 /\ (Len(in) > 0 => 1 \in 1 .. Len(in)) /\ (Len(in) = 0 => r[1] = x)
    BY <1>1
  <2>3. \A i \in 2 .. Len(in) : i \in 1 .. Len(in)
    BY <1>1
  <2>4. \A i \in 2 .. Len(r) : OfChannel(r[i])
    BY <1>1, <1>2, <2>1, <2>2, <2>3, Zenon DEF Ordered
  <2>5. n.channel => OfChannel(r[1])
    BY <1>1, <1>2, <2>1, <2>2 DEF Ordered
  <2>6. ~n.channel => r[1] = in[1]
    BY <1>1, <2>1, <2>2 DEF Ordered
  <2> QED
    BY <1>3, <2>1, <2>2, <2>4, <2>5, <2>6, Zenon DEF Ordered
<1>7. Distinct(t, n, r)
  <2>1. \A job \in n.jobs : job.uid # s.next_job_uid /\ job.uid \in 0 .. (t.next_job_uid - 1)
    BY <1>3, <1>4 DEF Distinct
  <2>2. ~contains(n, s.next_job_uid)
    BY <2>1, Zenon DEF contains
  <2>3. \A i \in 1 .. Len(in) : IsJob(in[i]) =>
           /\ in[i].job_id \in 0 .. (t.next_job_uid - 1)
           /\ in[i].job_id # s.next_job_uid /\ ~contains(n, in[i].job_id)
    BY <1>3, <1>4 DEF Distinct
  <2>4. y.job_id \in 0 .. (t.next_job_uid - 1) /\ ~contains(n, y.job_id)
    BY <1>3, <1>4, <2>2
  <2>5. \A i \in 1 .. Len(r) : IsJob(r[i]) =>
           r[i].job_id \in 0 .. (t.next_job_uid - 1) /\ ~contains(n, r[i].job_id)
    BY <1>1, <1>2, <2>3, <2>4, Zenon
  <2>6. \A i, j \in 1 .. Len(in) : i < j /\ IsJob(in[i]) /\ IsJob(in[j]) =>
           in[i].job_id # in[j].job_id
    BY Zenon DEF Distinct
  <2>7. \A i, j \in 1 .. Len(r) : i < j /\ IsJob(r[i]) /\ IsJob(r[j]) =>
           r[i].job_id # r[j].job_id
    BY <1>1, <1>2, <2>3, <2>6, SMTT(30)
  <2> QED
    BY <2>1, <2>5, <2>7, Zenon DEF Distinct
<1>8. \A k \in 0 .. Len(in) : \A uid : Announced(n, in, uid, k) => Announced(n, r, uid, k)
  <2>1. \A k \in 0 .. Len(in) : \A i \in 1 .. k : r[i] = in[i]
    BY <1>1
  <2> QED
    BY <2>1, Zenon DEF Announced
<1>9. Announced(n, r, t.future_job.uid, Len(r))
  BY <1>1, <1>3 DEF Announced
<1>10. Announced(n, r, s.future_job.uid, Len(in) + 1)
  <2>1. Announced(n, r, s.future_job.uid, Len(in))
    BY <1>8 DEF Prepared
  <2> QED
    BY <2>1 DEF Announced
<1>11. Prepared(t, n, r)
  BY <1>1, <1>2, <1>8, <1>9, <1>10 DEF Prepared
<1>12. Current(n, r, block + 1)
  <2>1. n.prev_hash \in -1 .. block /\ n.prev_hash \in -1 .. (block + 1) /\ n.mine_proc.block = n.prev_hash
    BY DEF Current
  <2>2. \A i \in 1 .. Len(in) : IsBlock(in[i]) => in[i].prev_hash \in (n.prev_hash + 1) .. block
    BY Zenon DEF Current
  <2>3. \A i, j \in 1 .. Len(in) : i < j /\ IsBlock(in[i]) /\ IsBlock(in[j]) =>
          in[i].prev_hash < in[j].prev_hash
    BY Zenon DEF Current
  <2>4. \A i \in 1 .. Len(in) : IsBlock(in[i]) =>
           in[i].prev_hash < block + 1 /\ in[i].prev_hash \in (n.prev_hash + 1) .. (block + 1)
    BY <2>1, <2>2
  <2>5. \A i \in 1 .. Len(r) : IsBlock(r[i]) => r[i].prev_hash \in (n.prev_hash + 1) .. (block + 1)
    BY <1>1, <1>2, <2>1, <2>4, SMTT(30)
  <2>6. \A i, j \in 1 .. Len(r) : i < j /\ IsBlock(r[i]) /\ IsBlock(r[j]) =>
          r[i].prev_hash < r[j].prev_hash
    BY <1>1, <1>2, <2>3, <2>4, SMTT(30)
  <2>7. Len(in) + 1 \in 1 .. Len(r) /\ IsBlock(r[Len(in) + 1]) /\ r[Len(in) + 1].prev_hash = block + 1
    BY <1>1
  <2> QED
    BY <2>1, <2>5, <2>6, <2>7, Zenon DEF Current
<1>13. \A uid, for : Sound(s, uid, for, block) => Sound(t, uid, for, block + 1)
  BY <1>3, <1>4, SMTT(30) DEF Sound, Known
<1>14. Working(t, n, out, r, block + 1)
  <2>1. Sound(t, x.job_id, x.prev_hash, block + 1)
    BY <1>3, <1>4, <1>5 DEF Sound, Known
  <2>2. \A i \in 1 .. Len(in) : IsJob(in[i]) /\ ~in[i].future_job =>
           in[i].job_id # s.future_job.uid /\ Known(s, in[i].job_id)
    BY Zenon DEF Working
  <2>3. \A uid : Known(s, uid) /\ uid # s.future_job.uid =>
           Known(t, uid) /\ ~contains(t, uid) /\ uid # t.future_job.uid
    BY <1>3, <1>4 DEF Known
  <2>4. \A i \in 1 .. Len(in) : Len(in) + 1 \in i .. Len(r) /\ IsBlock(r[Len(in) + 1])
    BY <1>1, SMTT(30)
  <2>5. \A i \in 1 .. Len(r) : IsJob(r[i]) /\ ~r[i].future_job =>
           /\ r[i].job_id # t.future_job.uid /\ Known(t, r[i].job_id)
           /\ contains(t, r[i].job_id) <=> \A j \in i .. Len(r) : ~IsBlock(r[j])
    BY <1>1, <1>2, <2>2, <2>3, <2>4
  <2>6. \A i \in 1 .. Len(r) : IsBlock(r[i]) => Sound(t, r[i].job_id, r[i].prev_hash, block + 1)
    BY <1>1, <1>2, <1>13, <2>1, Zenon DEF Working
  <2>7. /\ n.mine_proc # Idle => Sound(t, n.mine_proc.uid, n.mine_proc.block, block + 1)
        /\ \A i \in 1 .. Len(out) : Sound(t, out[i].job_id, out[i].block, block + 1)
    BY <1>13, Zenon DEF Working
  <2> QED
    BY <2>5, <2>6, <2>7, Zenon DEF Working
<1> QED
  BY <1>3, <1>6, <1>7, <1>11, <1>12, <1>14, Zenon

\* A session that differs in its counters only.
LEMMA SessionKept ==
    ASSUME NEW s, NEW t, NEW n, NEW out, NEW in, NEW block, Opened(s, n, out, in, block),
           t.connected = s.connected, t.channel = s.channel, t.running = s.running,
           t.next_job_uid = s.next_job_uid, t.future_job = s.future_job,
           t.jobs = s.jobs, t.invalid_jobs = s.invalid_jobs
    PROVE  Opened(t, n, out, in, block)
<1>1. \A uid : /\ contains(t, uid) <=> contains(s, uid)
               /\ contains_invalid(t, uid) <=> contains_invalid(s, uid)
               /\ Known(t, uid) <=> Known(s, uid)
  BY Zenon DEF contains, contains_invalid, Known
<1>2. \A uid, for : Sound(s, uid, for, block) <=> Sound(t, uid, for, block)
  BY <1>1, Zenon DEF Sound
<1> USE DEF Opened
<1>3. Ordered(t, n, out, in) /\ Registered(t) /\ Distinct(t, n, in) /\ Prepared(t, n, in)
  BY Zenon DEF Ordered, Registered, Distinct, Prepared
<1>4. Working(t, n, out, in, block)
  BY <1>1, <1>2, Zenon DEF Working
<1> QED
  BY <1>3, <1>4, Zenon

\* The pool takes a share.
LEMMA ShareTaken ==
    ASSUME NEW s, NEW n, NEW out, NEW in, NEW r, NEW block,
           Opened(s, n, out, in, block), Len(r) \in Nat, Shorter(out, r)
    PROVE  Opened(s, n, r, in, block)
<1>1. \A i \in 1 .. Len(r) : i + 1 \in 1 .. Len(out) /\ r[i] = out[i + 1]
  BY DEF Shorter
<1>2. Ordered(s, n, r, in)
  BY <1>1, Zenon DEF Opened, Ordered
<1>3. Working(s, n, r, in, block)
  BY <1>1, Zenon DEF Opened, Working
<1> QED
  BY <1>2, <1>3, Zenon DEF Opened

\* The miner sends a share of the job it works on.
LEMMA ShareSent ==
    ASSUME NEW s, NEW n, NEW out, NEW in, NEW r, NEW x, NEW block,
           Opened(s, n, out, in, block), Len(out) \in Nat, Longer(out, r, x), IsShare(x),
           n.mine_proc # Idle, x.job_id = n.mine_proc.uid, x.block = n.mine_proc.block
    PROVE  Opened(s, n, r, in, block)
<1>1. /\ \A i \in 1 .. Len(out) : r[i] = out[i]
      /\ \A i \in 1 .. Len(r) : i \in 1 .. Len(out) \/ r[i] = x
  BY DEF Longer
<1>2. Ordered(s, n, r, in)
  BY <1>1, Zenon DEF Opened, Ordered
<1>3. Working(s, n, r, in, block)
  BY <1>1, Zenon DEF Opened, Working
<1> QED
  BY <1>2, <1>3, Zenon DEF Opened

-----------------------------------------------------------------------------
(* The miner's side of an open channel                                     *)

\* Miner k is miner n after it took message h of its channel.
Taken(n, k, h) ==
    /\ k.connected /\ k.channel
    /\ \A job \in k.jobs : job \in n.jobs \/ (IsJob(h) /\ job.uid = h.job_id)
    /\ \A uid : contains(k, uid) <=> contains(n, uid) \/ (IsJob(h) /\ uid = h.job_id)
    /\ IF IsBlock(h) THEN k.prev_hash = h.prev_hash ELSE k.prev_hash = n.prev_hash
    /\ \/ ~IsBlock(h) /\ k.mine_proc = n.mine_proc
       \/ /\ IsBlock(h) \/ (IsJob(h) /\ ~h.future_job)
          /\ k.mine_proc.uid = h.job_id /\ k.mine_proc.block = k.prev_hash

\* The miner moves on along the messages of its channel.
LEMMA MessageTaken ==
    ASSUME NEW s, NEW n, NEW k, NEW out, NEW in, NEW r, NEW block \in Nat,
           Opened(s, n, out, in, block), Len(r) \in Nat, Shorter(in, r), Taken(n, k, in[1])
    PROVE  Opened(s, k, out, r, block)
<1>1. /\ Len(in) = Len(r) + 1 /\ 1 \in 1 .. Len(in)
      /\ \A i \in 1 .. Len(r) : i + 1 \in 1 .. Len(in) /\ i + 1 \in 2 .. Len(in) /\ r[i] = in[i + 1]
      /\ \A i \in 1 .. Len(in) : i = 1 \/ (i - 1 \in 1 .. Len(r) /\ in[i] = r[i - 1])
  BY SMTT(30) DEF Shorter
<1>2. IsJob(in[1]) => ~IsBlock(in[1])
  BY Zenon DEF IsJob, IsBlock
<1> USE DEF Opened
<1>3. Ordered(s, k, out, r)
  BY <1>1 DEF Ordered, Taken
<1>4. Distinct(s, k, r)
  <2>1. \A job \in k.jobs : job.uid \in 0 .. (s.next_job_uid - 1)
    BY <1>1, Zenon DEF Distinct, Taken
  <2>2. \A i \in 1 .. Len(r) : IsJob(r[i]) =>
           r[i].job_id \in 0 .. (s.next_job_uid - 1) /\ ~contains(k, r[i].job_id)
    BY <1>1, SMTT(30) DEF Distinct, Taken
  <2>3. \A i, j \in 1 .. Len(r) : i < j /\ IsJob(r[i]) /\ IsJob(r[j]) =>
           r[i].job_id # r[j].job_id
    BY <1>1, SMTT(30) DEF Distinct
  <2> QED
    BY <2>1, <2>2, <2>3, Zenon DEF Distinct
<1>5. \A l \in 1 .. Len(in) : \A uid : Announced(n, in, uid, l) => Announced(k, r, uid, l - 1)
  <2> SUFFICES ASSUME NEW l \in 1 .. Len(in), NEW uid, Announced(n, in, uid, l)
               PROVE  Announced(k, r, uid, l - 1)
    BY Zenon
  <2>1. CASE contains(n, uid)
    BY <2>1, Zenon DEF Announced, Taken
  <2>2. ASSUME NEW i \in 1 .. l, IsJob(in[i]), in[i].job_id = uid
        PROVE  Announced(k, r, uid, l - 1)
    <3>1. CASE i = 1
      BY <2>2, <3>1, Zenon DEF Announced, Taken
    <3>2. CASE i # 1
      <4>1. i - 1 \in 1 .. (l - 1) /\ in[i] = r[i - 1]
        BY <1>1, <3>2
      <4> QED
        BY <2>2, <4>1, Zenon DEF Announced
    <3> QED
      BY <3>1, <3>2, Zenon
  <2> QED
    BY <2>1, <2>2, Zenon DEF Announced
<1>6. Prepared(s, k, r)
  <2>1. Announced(k, r, s.future_job.uid, Len(in) - 1)
    BY <1>1, <1>5 DEF Prepared
  <2>2. \A i \in 1 .. Len(r) : IsBlock(r[i]) => Announced(k, r, r[i].job_id, (i + 1) - 1)
    BY <1>1, <1>5, Zenon DEF Prepared
  <2>3. Len(in) - 1 = Len(r) /\ \A i \in 1 .. Len(r) : (i + 1) - 1 = i
    BY <1>1
  <2> QED
    BY <2>1, <2>2, <2>3, Zenon DEF Prepared
<1>7. Current(k, r, block)
  <2>1. /\ n.prev_hash \in -1 .. block /\ n.mine_proc.block = n.prev_hash
        /\ \A i \in 1 .. Len(in) : IsBlock(in[i]) => in[i].prev_hash \in (n.prev_hash + 1) .. block
        /\ \A i, j \in 1 .. Len(in) : i < j /\ IsBlock(in[i]) /\ IsBlock(in[j]) =>
              in[i].prev_hash < in[j].prev_hash
        /\ n.prev_hash = block \/ \E i \in 1 .. Len(in) : IsBlock(in[i]) /\ in[i].prev_hash = block
    BY Zenon DEF Current
  <2>2. k.mine_proc.block = k.prev_hash
    BY <2>1, Zenon DEF Taken
  <2>3. k.prev_hash \in -1 .. block
    BY <1>1, <2>1, SMTT(30) DEF Taken
  <2>4. \A i \in 1 .. Len(r) : IsBlock(r[i]) => r[i].prev_hash \in (k.prev_hash + 1) .. block
    <3>1. CASE IsBlock(in[1])
      <4>1. k.prev_hash = in[1].prev_hash /\ in[1].prev_hash \in Int
        BY <1>1, <2>1, <3>1 DEF Taken
      <4>2. \A i \in 1 .. Len(r) : IsBlock(r[i]) =>
               r[i].prev_hash \in (n.prev_hash + 1) .. block /\ in[1].prev_hash < r[i].prev_hash
        BY <1>1, <2>1, <3>1, SMTT(30)
      <4> QED
        BY <2>1, <4>1, <4>2, SMTT(30)
    <3>2. CASE ~IsBlock(in[1])
      BY <1>1, <2>1, <3>2, Zenon DEF Taken
    <3> QED
      BY <3>1, <3>2, Zenon
  <2>5. \A i, j \in 1 .. Len(r) : i < j /\ IsBlock(r[i]) /\ IsBlock(r[j]) =>
           r[i].prev_hash < r[j].prev_hash
    <3>1. \A i, j \in 1 .. Len(in) : i < j /\ IsBlock(in[i]) /\ IsBlock(in[j]) =>
             in[i].prev_hash < in[j].prev_hash
      BY <2>1, Zenon
    <3>2. \A i, j \in 1 .. Len(r) : i < j =>
             /\ i + 1 \in 1 .. Len(in) /\ j + 1 \in 1 .. Len(in) /\ i + 1 < j + 1
             /\ r[i] = in[i + 1] /\ r[j] = in[j + 1]
      BY <1>1
    <3> QED
      BY <3>1, <3>2, Zenon
  <2>6. k.prev_hash = block \/ \E i \in 1 .. Len(r) : IsBlock(r[i]) /\ r[i].prev_hash = block
    <3>1. CASE n.prev_hash = block
      <4>1. ~IsBlock(in[1])
        BY <1>1, <2>1, <3>1
      <4> QED
        BY <3>1, <4>1, Zenon DEF Taken
    <3>2. ASSUME NEW i \in 1 .. Len(in), IsBlock(in[i]), in[i].prev_hash = block
          PROVE  \/ k.prev_hash = block
                 \/ \E j \in 1 .. Len(r) : IsBlock(r[j]) /\ r[j].prev_hash = block
      BY <1>1, <3>2, Zenon DEF Taken
    <3> QED
      BY <2>1, <3>1, <3>2, Zenon
  <2> QED
    BY <2>2, <2>3, <2>4, <2>5, <2>6, Zenon DEF Current
<1>8. k.mine_proc # Idle => Sound(s, k.mine_proc.uid, k.mine_proc.block, block)
  <2>1. CASE ~IsBlock(in[1]) /\ k.mine_proc = n.mine_proc
    BY <2>1, Zenon DEF Working
  <2>2. CASE IsBlock(in[1]) /\ k.mine_proc.uid = in[1].job_id /\ k.mine_proc.block = k.prev_hash
    BY <1>1, <2>2, Zenon DEF Working, Taken
  <2>3. CASE /\ IsJob(in[1]) /\ ~in[1].future_job
             /\ k.mine_proc.uid = in[1].job_id /\ k.mine_proc.block = k.prev_hash
    <3>1. k.prev_hash = n.prev_hash /\ n.prev_hash \in -1 .. block
      BY <1>2, <2>3, Zenon DEF Taken, Current
    <3>2. /\ in[1].job_id # s.future_job.uid /\ Known(s, in[1].job_id)
          /\ contains(s, in[1].job_id) <=> \A j \in 1 .. Len(in) : ~IsBlock(in[j])
      BY <1>1, <2>3, Zenon DEF Working
    <3>3. (\A j \in 1 .. Len(in) : ~IsBlock(in[j])) <=> n.prev_hash = block
      BY SMTT(30) DEF Current
    <3> QED
      BY <2>3, <3>1, <3>2, <3>3, Zenon DEF Sound
  <2> QED
    BY <2>1, <2>2, <2>3, Zenon DEF Taken
<1>9. Working(s, k, out, r, block)
  <2>1. \A i \in 1 .. Len(r) :
           (\A j \in i .. Len(r) : ~IsBlock(r[j])) <=> (\A j \in (i + 1) .. Len(in) : ~IsBlock(in[j]))
    <3> SUFFICES ASSUME NEW i \in 1 .. Len(r)
                 PROVE  (\A j \in i .. Len(r) : ~IsBlock(r[j]))
                          <=> (\A j \in (i + 1) .. Len(in) : ~IsBlock(in[j]))
      BY Zenon
    <3>1. \A j \in i .. Len(r) : j + 1 \in (i + 1) .. Len(in) /\ r[j] = in[j + 1]
      BY <1>1
    <3>2. \A j \in (i + 1) .. Len(in) : j - 1 \in i .. Len(r) /\ in[j] = r[j - 1]
      BY <1>1
    <3> QED
      BY <3>1, <3>2, Zenon
  <2>2. \A i \in 1 .. Len(r) : IsJob(r[i]) /\ ~r[i].future_job =>
           /\ r[i].job_id # s.future_job.uid /\ Known(s, r[i].job_id)
           /\ contains(s, r[i].job_id) <=> \A j \in i .. Len(r) : ~IsBlock(r[j])
    BY <1>1, <2>1, ZenonT(30) DEF Working
  <2>3. \A i \in 1 .. Len(r) : IsBlock(r[i]) => Sound(s, r[i].job_id, r[i].prev_hash, block)
    BY <1>1, Zenon DEF Working
  <2> QED
    BY <1>8, <2>2, <2>3, Zenon DEF Working
<1> QED
  BY <1>3, <1>4, <1>6, <1>7, <1>9, Zenon

-----------------------------------------------------------------------------
(* The channel is opened                                                   *)

\* The first messages of a channel agree with its session and a new miner.
LEMMA FirstMessages ==
    ASSUME NEW s, NEW n, NEW out, NEW in, NEW block \in Nat, NEW a, NEW b,
           s.channel, s.connected, s.running, s.next_job_uid = 2,
           s.jobs = {a, b}, s.invalid_jobs = {}, s.future_job = b,
           a.uid = 0, b.uid = 1, a.diff_target = DefaultRef, b.diff_target = DefaultRef,
           n.connected, ~n.channel, n.jobs = {}, n.prev_hash = -1, n.mine_proc = Idle,
           Len(out) = 0, Len(in) = 5,
           in[1].type = "OpenStandardMiningChannelSuccess", in[1].req_id \in n.requests,
           IsJob(in[2]), in[2].job_id = 0, in[2].future_job,
           IsBlock(in[3]), in[3].job_id = 0, in[3].prev_hash = block,
           IsJob(in[4]), in[4].job_id = 1, in[4].future_job,
           in[5].type = "SetTarget"
    PROVE  Opened(s, n, out, in, block)
<1>1. \A i \in 1 .. Len(in) : i = 1 \/ i = 2 \/ i = 3 \/ i = 4 \/ i = 5
  OBVIOUS
<1>2. /\ \A i \in 1 .. Len(in) : IsBlock(in[i]) => i = 3
      /\ \A i \in 1 .. Len(in) : IsJob(in[i]) => i = 2 \/ i = 4
      /\ \A i \in 2 .. Len(in) : OfChannel(in[i])
  BY <1>1 DEF IsBlock, IsJob, OfChannel
<1>3. Ordered(s, n, out, in)
  BY <1>2 DEF Ordered
<1>4. Registered(s)
  BY DEF Registered
<1>5. \A uid : ~contains(n, uid)
  BY Zenon DEF contains
<1>6. Distinct(s, n, in)
  BY <1>2, <1>5 DEF Distinct
<1>7. Announced(n, in, b.uid, Len(in)) /\ Announced(n, in, in[3].job_id, 3)
  BY DEF Announced
<1>8. Prepared(s, n, in)
  BY <1>2, <1>7, Zenon DEF Prepared
<1>9. Current(n, in, block)
  <2>1. n.mine_proc.block = -1
    BY DEF Idle
  <2>2. 3 \in 1 .. Len(in) /\ IsBlock(in[3]) /\ in[3].prev_hash = block
    OBVIOUS
  <2> QED
    BY <1>2, <2>1, <2>2 DEF Current
<1>10. contains(s, 0) /\ Known(s, 0)
  BY Zenon DEF contains, Known
<1>11. Sound(s, in[3].job_id, in[3].prev_hash, block)
  BY <1>10 DEF Sound
<1>12. Working(s, n, out, in, block)
  BY <1>2, <1>11 DEF Working
<1> QED
  BY <1>3, <1>4, <1>6, <1>8, <1>9, <1>12, Zenon DEF Opened

\* A session whose first job is active and whose second is its future job.
Starting(r, a, b) ==
    /\ DOMAIN r = DOMAIN Processor /\ r.connected /\ r.bug = FALSE
    /\ r.next_job_uid = 2 /\ r.jobs = {a, b} /\ r.invalid_jobs = {} /\ r.future_job = b
    /\ a.uid = 0 /\ b.uid = 1 /\ a.diff_target = DefaultRef /\ b.diff_target = DefaultRef

\* What a session is once its first two jobs are made.
LEMMA FirstJobs ==
    ASSUME NEW s, DOMAIN s = DOMAIN Processor, s.bug = FALSE, s.connected,
           s.next_job_uid = 0, s.jobs = {}, s.invalid_jobs = {}, s.future_job = NoJob,
           NEW value
    PROVE  LET first == take_future_job(WithFutureJob(s, value))
           IN  /\ first.next_job_uid = 1
               /\ \E a, b : Starting(WithFutureJob(first, value), a, b)
<1>1. DOMAIN Processor = {"connected", "connection_config", "channel", "running", "next_job_uid",
                          "jobs", "invalid_jobs", "future_job", "meter", "bug"}
  BY Zenon DEF Processor
<1> DEFINE w == WithFutureJob(s, value)
           first == take_future_job(w)
           both == WithFutureJob(first, value)
<1>2. PICK a : JobAdded(s, w, a) /\ w.future_job = a
  <2>1. s.next_job_uid \in Nat
    OBVIOUS
  <2> QED
    BY <2>1, NewJob, Zenon
<1> HIDE DEF w
<1>3. /\ a.uid = 0 /\ a.diff_target = DefaultRef
      /\ DOMAIN w = DOMAIN Processor /\ w.next_job_uid = 1 /\ w.jobs = {a} /\ w.invalid_jobs = {}
      /\ w.bug = FALSE /\ w.connected = s.connected
  BY <1>2 DEF JobAdded
<1>4. w.future_job # NoJob
  BY <1>2, <1>3 DEF NoJob
<1>5. /\ DOMAIN first = DOMAIN Processor /\ first.next_job_uid = 1
      /\ first.jobs = {a} /\ first.invalid_jobs = {} /\ first.future_job = NoJob
      /\ first.bug = FALSE /\ first.connected = s.connected
  BY <1>1, <1>3, <1>4, Zenon DEF take_future_job
<1> HIDE DEF first
<1>6. PICK b : JobAdded(first, both, b) /\ both.future_job = b
  <2>1. first.next_job_uid \in Nat
    BY <1>5
  <2> QED
    BY <1>5, <2>1, NewJob, Zenon
<1> HIDE DEF both
<1>7. /\ b.uid = 1 /\ b.diff_target = DefaultRef
      /\ DOMAIN both = DOMAIN Processor /\ both.next_job_uid = 2 /\ both.jobs = {a, b}
      /\ both.invalid_jobs = {} /\ both.bug = FALSE /\ both.connected = first.connected
  BY <1>5, <1>6 DEF JobAdded
<1>8. both.connected
  BY <1>5, <1>7, Zenon
<1>9. Starting(both, a, b)
  BY <1>3, <1>6, <1>7, <1>8, Zenon DEF Starting
<1> QED
  BY <1>5, <1>9, Zenon DEF both, first, w

\* The session's loop is started, and a third job is made in its first turn.
LEMMA LoopStarts ==
    ASSUME NEW both, NEW a, NEW b, Starting(both, a, b), NEW divided
    PROVE  LET t == [WithJobNow(both, divided) EXCEPT !.channel = TRUE, !.running = TRUE]
           IN  /\ DOMAIN t = DOMAIN Processor /\ t.bug = FALSE
               /\ \E r, job : /\ Starting(r, a, b) /\ r.channel /\ r.running
                              /\ JobAdded(r, t, job) /\ t.future_job = r.future_job
<1>1. DOMAIN Processor = {"connected", "connection_config", "channel", "running", "next_job_uid",
                          "jobs", "invalid_jobs", "future_job", "meter", "bug"}
  BY Zenon DEF Processor
<1> DEFINE u == WithJobNow(both, divided)
           t == [u EXCEPT !.channel = TRUE, !.running = TRUE]
           r == [both EXCEPT !.channel = TRUE, !.running = TRUE]
<1>2. DOMAIN both = DOMAIN Processor /\ both.bug = FALSE /\ both.next_job_uid = 2
  BY Zenon DEF Starting
<1>3. PICK job : JobAdded(both, u, job) /\ u.future_job = both.future_job
  <2>1. both.next_job_uid \in Nat
    BY <1>2
  <2> QED
    BY <1>2, <2>1, NewJob, Zenon
<1> HIDE DEF u
<1>4. DOMAIN u = DOMAIN Processor /\ u.bug = FALSE
  BY <1>3, Zenon DEF JobAdded
<1>5. /\ DOMAIN t = DOMAIN Processor
      /\ t.channel = TRUE /\ t.connected = u.connected /\ t.running = TRUE
      /\ t.next_job_uid = u.next_job_uid /\ t.bug = FALSE
      /\ t.jobs = u.jobs /\ t.invalid_jobs = u.invalid_jobs /\ t.future_job = u.future_job
  BY <1>1, <1>4, Zenon
<1>6. /\ DOMAIN r = DOMAIN Processor
      /\ r.channel = TRUE /\ r.connected = both.connected /\ r.running = TRUE
      /\ r.next_job_uid = both.next_job_uid /\ r.bug = FALSE
      /\ r.jobs = both.jobs /\ r.invalid_jobs = both.invalid_jobs /\ r.future_job = both.future_job
  BY <1>1, <1>2, Zenon
<1> HIDE DEF r, t
<1>7. \A uid : /\ contains(t, uid) <=> contains(u, uid)
               /\ contains_invalid(t, uid) <=> contains_invalid(u, uid)
               /\ contains(r, uid) <=> contains(both, uid)
               /\ contains_invalid(r, uid) <=> contains_invalid(both, uid)
  BY <1>5, <1>6, Zenon DEF contains, contains_invalid
<1>8. JobAdded(r, t, job)
  BY <1>3, <1>5, <1>6, <1>7, Zenon DEF JobAdded
<1>9. Starting(r, a, b)
  BY <1>6, Zenon DEF Starting
<1> QED
  BY <1>3, <1>5, <1>6, <1>8, <1>9, Zenon DEF t, u

\* The miner's view of it: the first five messages, and the third job.
LEMMA ChannelOpened ==
    ASSUME NEW r, NEW t, NEW a, NEW b, NEW job, NEW n, NEW out, NEW in, NEW q, NEW y, NEW block \in Nat,
           Starting(r, a, b), r.channel, r.running, JobAdded(r, t, job), t.future_job = r.future_job,
           n.connected, ~n.channel, n.jobs = {}, n.prev_hash = -1, n.mine_proc = Idle,
           Len(out) = 0, Len(q) = 5, Longer(q, in, y),
           q[1].type = "OpenStandardMiningChannelSuccess", q[1].req_id \in n.requests,
           IsJob(q[2]), q[2].job_id = 0, q[2].future_job,
           IsBlock(q[3]), q[3].job_id = 0, q[3].prev_hash = block,
           IsJob(q[4]), q[4].job_id = 1, q[4].future_job,
           q[5].type = "SetTarget", IsJob(y), y.job_id = 2, ~y.future_job
    PROVE  Opened(t, n, out, in, block)
<1>1. /\ r.connected /\ r.next_job_uid = 2
      /\ r.jobs = {a, b} /\ r.invalid_jobs = {} /\ r.future_job = b
      /\ a.uid = 0 /\ b.uid = 1 /\ a.diff_target = DefaultRef /\ b.diff_target = DefaultRef
  BY ZenonT(30) DEF Starting
<1>2. Opened(r, n, out, q, block)
  BY <1>1, FirstMessages
<1>3. Len(q) \in Nat
  OBVIOUS
<1> QED
  BY <1>1, <1>2, <1>3, JobSent, SMTT(30)

-----------------------------------------------------------------------------
(* The steps                                                               *)

\* A step of one connection that keeps its part of the invariant.
LEMMA OneConnection ==
    ASSUME IInv, NEW m \in Miners, NEW s, NEW n, NEW out \in Seq(ToPool), NEW in \in Seq(ToMiner),
           DOMAIN s = DOMAIN Processor, DOMAIN n = DOMAIN Miner(m, 0),
           Connection(s, n, out, in, prev_hash),
           prev_hash' = prev_hash, target' \in [Targets -> Int],
           pool' = [pool EXCEPT ![m] = s], miner' = [miner EXCEPT ![m] = n],
           outgoing' = [outgoing EXCEPT ![m] = out], incoming' = [incoming EXCEPT ![m] = in]
    PROVE  IInv'
<1>1. /\ pool = [k \in Miners |-> pool[k]] /\ miner = [k \in Miners |-> miner[k]]
      /\ outgoing \in [Miners -> Seq(ToPool)] /\ incoming \in [Miners -> Seq(ToMiner)]
      /\ prev_hash \in Nat
      /\ \A k \in Miners : DOMAIN pool[k] = DOMAIN Processor
      /\ \A k \in Miners : DOMAIN miner[k] = DOMAIN Miner(k, 0)
      /\ \A k \in Miners : Connection(pool[k], miner[k], outgoing[k], incoming[k], prev_hash)
  BY Zenon DEF IInv, TypeOK
<1>2. /\ pool'[m] = s /\ miner'[m] = n /\ outgoing'[m] = out /\ incoming'[m] = in
      /\ \A k \in Miners \ {m} :
            /\ pool'[k] = pool[k] /\ miner'[k] = miner[k]
            /\ outgoing'[k] = outgoing[k] /\ incoming'[k] = incoming[k]
  BY <1>1, Zenon
<1>3. /\ pool' = [k \in Miners |-> pool'[k]] /\ miner' = [k \in Miners |-> miner'[k]]
      /\ outgoing' \in [Miners -> Seq(ToPool)] /\ incoming' \in [Miners -> Seq(ToMiner)]
  BY <1>1, Zenon
<1>4. /\ \A k \in Miners : DOMAIN pool'[k] = DOMAIN Processor
      /\ \A k \in Miners : DOMAIN miner'[k] = DOMAIN Miner(k, 0)
  BY <1>1, <1>2, Zenon
<1>5. TypeOK'
  BY <1>1, <1>3, <1>4, Zenon DEF TypeOK
<1>6. \A k \in Miners : Connection(pool'[k], miner'[k], outgoing'[k], incoming'[k], prev_hash')
  BY <1>1, <1>2, Zenon
<1> QED
  BY <1>5, <1>6, Zenon DEF IInv

\* What the invariant says of one connection.
LEMMA Of ==
    ASSUME IInv, NEW m \in Miners
    PROVE  /\ outgoing[m] \in Seq(ToPool) /\ incoming[m] \in Seq(ToMiner)
           /\ DOMAIN pool[m] = DOMAIN Processor /\ DOMAIN miner[m] = DOMAIN Miner(m, 0)
           /\ Connection(pool[m], miner[m], outgoing[m], incoming[m], prev_hash)
           /\ prev_hash \in Nat /\ target \in [Targets -> Int]
           /\ pool = [pool EXCEPT ![m] = pool[m]] /\ miner = [miner EXCEPT ![m] = miner[m]]
           /\ outgoing = [outgoing EXCEPT ![m] = outgoing[m]]
           /\ incoming = [incoming EXCEPT ![m] = incoming[m]]
BY Zenon DEF IInv, TypeOK

\* The fields of a processor and of a miner.
LEMMA Shapes ==
    /\ DOMAIN Processor = {"connected", "connection_config", "channel", "running", "next_job_uid",
                           "jobs", "invalid_jobs", "future_job", "meter", "bug"}
    /\ \A m, value : DOMAIN Miner(m, value) =
          {"diff_1_target", "connected", "state", "next_req_id", "requests", "channel",
           "curr_diff_target", "jobs", "prev_hash", "mine_proc", "meter", "replies", "bug"}
BY Zenon DEF Processor, Miner

\* All connections are opening when the simulation starts.
LEMMA InitHolds == Init => IInv
<1> SUFFICES ASSUME Init PROVE IInv
  BY Zenon
<1>1. PICK diff_1 \in [Miners -> MinerDiffOnes] : miner = [m \in Miners |-> Miner(m, diff_1[m])]
  BY Zenon DEF Init
<1>2. target \in [Targets -> Int] /\ prev_hash \in Nat
  BY SimulationAssumption DEF Init
<1>3. /\ pool = [m \in Miners |-> Processor] /\ \A m \in Miners : pool[m] = Processor
      /\ outgoing = [m \in Miners |-> <<SetupConnection>>]
      /\ incoming = [m \in Miners |-> <<>>]
  BY Zenon DEF Init
<1>4. /\ \A m \in Miners : miner[m] = Miner(m, diff_1[m]) /\ diff_1[m] \in Nat
      /\ miner = [m \in Miners |-> miner[m]]
  BY <1>1, SimulationAssumption, Zenon
<1>5. outgoing \in [Miners -> Seq(ToPool)] /\ incoming \in [Miners -> Seq(ToMiner)]
  BY <1>3, MessageFields
<1>6. TypeOK
  <2>1. \A m \in Miners : DOMAIN miner[m] = DOMAIN Miner(m, 0)
    BY <1>4, Shapes
  <2>2. pool = [m \in Miners |-> pool[m]]
    BY <1>3, Zenon
  <2> QED
    BY <1>2, <1>3, <1>4, <1>5, <2>1, <2>2, Zenon DEF TypeOK
<1>7. ASSUME NEW m \in Miners
      PROVE  Connection(pool[m], miner[m], outgoing[m], incoming[m], prev_hash)
  <2>1. pool[m] = Processor /\ outgoing[m] = <<SetupConnection>> /\ incoming[m] = <<>>
    BY <1>3, Zenon
  <2>2. /\ miner[m].connected = TRUE /\ miner[m].channel = FALSE /\ miner[m].next_req_id = 0
        /\ miner[m].jobs = {} /\ miner[m].prev_hash = -1 /\ miner[m].mine_proc = Idle
        /\ miner[m].bug = FALSE /\ miner[m].curr_diff_target = m
        /\ miner[m].diff_1_target = diff_1[m]
    BY <1>4 DEF Miner
  <2>3. /\ Processor.connected = TRUE /\ Processor.channel = FALSE /\ Processor.running = FALSE
        /\ Processor.connection_config = FALSE /\ Processor.next_job_uid = 0
        /\ Processor.jobs = {} /\ Processor.invalid_jobs = {} /\ Processor.future_job = NoJob
        /\ Processor.bug = FALSE
    BY Zenon DEF Processor
  <2>4. Opening(pool[m], miner[m], outgoing[m], incoming[m])
    BY <2>1, <2>2, <2>3, Zenon DEF Opening, New
  <2> QED
    BY <1>4, <2>1, <2>2, <2>3, <2>4, Zenon DEF Connection, Targets
<1> QED
  BY <1>6, <1>7, Zenon DEF IInv

\* No message, and one message.
LEMMA NoMessages ==
    ASSUME NEW S
    PROVE  /\ <<>> \in Seq(S) /\ \A q \in Seq(S) : q \o <<>> = q
           /\ \A x \in S : <<x>> \in Seq(S) /\ Tail(<<x>>) = <<>> /\ Head(<<x>>) = x
OBVIOUS

\* A miner leaves.
LEMMA DisconnectHolds ==
    ASSUME IInv, NEW m \in Miners, disconnect(m)
    PROVE  IInv'
<1> DEFINE s == [pool[m] EXCEPT !.connected = FALSE, !.running = FALSE]
           n == [miner[m] EXCEPT !.connected = FALSE, !.mine_proc = Idle]
<1>1. /\ DOMAIN s = DOMAIN Processor
      /\ s.connected = FALSE /\ s.running = FALSE /\ s.bug = pool[m].bug
  BY Of, Shapes, Zenon
<1>2. /\ DOMAIN n = DOMAIN Miner(m, 0)
      /\ n.connected = FALSE /\ n.mine_proc = Idle /\ n.bug = miner[m].bug
      /\ n.diff_1_target = miner[m].diff_1_target /\ n.curr_diff_target = miner[m].curr_diff_target
  BY Of, Shapes
<1>3. pool' = [pool EXCEPT ![m] = s] /\ miner' = [miner EXCEPT ![m] = n]
  BY Zenon DEF disconnect
<1> HIDE DEF s, n
<1>4. Connection(s, n, <<>>, <<>>, prev_hash)
  <2>1. Gone(s, n, <<>>, <<>>)
    BY <1>1, <1>2, Zenon DEF Gone
  <2> QED
    BY <1>1, <1>2, <2>1, Of, Zenon DEF Connection
<1>5. /\ prev_hash' = prev_hash /\ target' \in [Targets -> Int]
      /\ outgoing' = [outgoing EXCEPT ![m] = <<>>] /\ incoming' = [incoming EXCEPT ![m] = <<>>]
  BY Of, Zenon DEF disconnect
<1>6. PICK out \in Seq(ToPool), in \in Seq(ToMiner) : out = <<>> /\ in = <<>>
  BY NoMessages, Zenon
<1>7. Connection(s, n, out, in, prev_hash)
  BY <1>4, <1>6, Zenon
<1>8. outgoing' = [outgoing EXCEPT ![m] = out] /\ incoming' = [incoming EXCEPT ![m] = in]
  BY <1>5, <1>6, Zenon
<1> QED
  BY <1>1, <1>2, <1>3, <1>5, <1>7, <1>8, OneConnection, Zenon

\* A miner with work to do has an open channel.
LEMMA BusyIsOpened ==
    ASSUME NEW s, NEW n, NEW out, NEW in, NEW block, Connection(s, n, out, in, block)
    PROVE  /\ n.mine_proc # Idle => Opened(s, n, out, in, block)
           /\ s.connected /\ s.running => Opened(s, n, out, in, block)
           /\ s.connected /\ s.channel => Opened(s, n, out, in, block)
BY Zenon DEF Connection, Opening, New, Gone

\* A miner finds a share.
LEMMA MineHolds ==
    ASSUME IInv, NEW m \in Miners, mine(m)
    PROVE  IInv'
<1> DEFINE x == SubmitShares(miner[m].mine_proc.uid, miner[m].mine_proc.block)
           q == outgoing[m] \o <<x>>
<1>1. miner[m].mine_proc # Idle
  BY Zenon DEF mine
<1>2. Opened(pool[m], miner[m], outgoing[m], incoming[m], prev_hash)
  BY <1>1, Of, BusyIsOpened, Zenon
<1>3. IsShare(x) /\ x.job_id = miner[m].mine_proc.uid /\ x.block = miner[m].mine_proc.block
  BY PoolMessageTypes DEF IsShare
<1>4. x \in ToPool
  <2>1. Sound(pool[m], miner[m].mine_proc.uid, miner[m].mine_proc.block, prev_hash)
    BY <1>1, <1>2, Zenon DEF Opened, Working
  <2>2. Registered(pool[m])
    BY <1>2, Zenon DEF Opened
  <2>3. miner[m].mine_proc.uid \in Nat
    BY <2>1, <2>2 DEF Sound, Known, contains, contains_invalid, Registered
  <2>4. miner[m].mine_proc.block \in Int
    BY <2>1 DEF Sound
  <2> QED
    BY <2>3, <2>4, MessageFields, Zenon
<1>5. outgoing' = [outgoing EXCEPT ![m] = q]
  BY Zenon DEF mine, Send
<1> HIDE DEF x
<1>6. q \in Seq(ToPool) /\ Longer(outgoing[m], q, x)
  BY <1>4, Of DEF Longer
<1> HIDE DEF q
<1>7. Opened(pool[m], miner[m], q, incoming[m], prev_hash)
  <2>1. Len(outgoing[m]) \in Nat
    BY Of, Lengths, Zenon
  <2> QED
    BY <1>1, <1>2, <1>3, <1>6, <2>1, ShareSent, Zenon
<1>8. Connection(pool[m], miner[m], q, incoming[m], prev_hash)
  BY <1>7, Of, Zenon DEF Connection
<1>9. /\ prev_hash' = prev_hash /\ target' \in [Targets -> Int]
      /\ pool' = [pool EXCEPT ![m] = pool[m]] /\ miner' = [miner EXCEPT ![m] = miner[m]]
      /\ incoming' = [incoming EXCEPT ![m] = incoming[m]]
  BY Of, Zenon DEF mine
<1> QED
  BY <1>5, <1>6, <1>8, <1>9, Of, OneConnection, Zenon

\* Two messages are two times one more message.
LEMMA TwoSent ==
    ASSUME NEW S, NEW q \in Seq(S), NEW x \in S, NEW y \in S
    PROVE  /\ q \o <<x, y>> \in Seq(S) /\ Append(q, x) \in Seq(S) /\ Len(q) \in Nat
           /\ Longer(q, Append(q, x), x) /\ Longer(Append(q, x), q \o <<x, y>>, y)
           /\ Len(Append(q, x)) \in Nat
BY DEF Longer

\* The vardiff loop divides a target by a factor.
LEMMA Divided ==
    ASSUME NEW value \in Int, NEW factor \in Factors
    PROVE  div_by_factor(value, factor) \in Int
<1>1. factor[1] \in Nat \ {0} /\ factor[2] \in Nat
  BY SimulationAssumption, Zenon
<1> QED
  BY <1>1 DEF div_by_factor

\* A turn of the vardiff loop.
LEMMA VardiffHolds ==
    ASSUME IInv, NEW m \in Miners, vardiff_loop(m)
    PROVE  IInv'
<1>1. PICK factor \in Factors :
         /\ target' = [target EXCEPT ![DefaultRef] = div_by_factor(target[DefaultRef], factor)]
         /\ pool' = [pool EXCEPT ![m] =
               WithJobNow(pool[m], div_by_factor(target[DefaultRef], factor))]
  BY Zenon DEF vardiff_loop, WithJobNow
<1> DEFINE t == WithJobNow(pool[m], div_by_factor(target[DefaultRef], factor))
           x == SetTarget(DefaultRef)
           q == Append(incoming[m], x)
<1>2. Opened(pool[m], miner[m], outgoing[m], incoming[m], prev_hash)
  BY Of, BusyIsOpened, Zenon DEF vardiff_loop
<1>3. pool[m].next_job_uid \in Nat /\ pool[m].bug = FALSE
  BY <1>2, Of, Zenon DEF Opened, Registered, Connection
<1>4. PICK job : JobAdded(pool[m], t, job) /\ t.future_job = pool[m].future_job
  BY <1>3, Of, NewJob, Zenon
<1>5. PICK y \in ToMiner : /\ IsJob(y) /\ y.job_id = pool[m].next_job_uid /\ ~y.future_job
                           /\ VardiffMsgs(pool[m]) = <<x, y>>
  BY <1>3, JobMessages, Zenon DEF VardiffMsgs
<1> DEFINE r == incoming[m] \o <<x, y>>
<1>6. x \in ToMiner /\ OfChannel(x) /\ ~IsJob(x) /\ ~IsBlock(x)
  BY MessageFields, MessageTypes, Zenon DEF OfChannel, IsJob, IsBlock
<1>7. incoming' = [incoming EXCEPT ![m] = r]
  BY <1>5, Zenon DEF vardiff_loop
<1> HIDE DEF t, x
<1>8. /\ r \in Seq(ToMiner) /\ Len(incoming[m]) \in Nat /\ Len(q) \in Nat
      /\ Longer(incoming[m], q, x) /\ Longer(q, r, y)
  BY <1>6, Of, TwoSent, Zenon
<1> HIDE DEF q, r
<1>9. Opened(pool[m], miner[m], outgoing[m], q, prev_hash)
  BY <1>2, <1>6, <1>8, PlainSent, Zenon
<1>10. Opened(t, miner[m], outgoing[m], r, prev_hash)
  BY <1>4, <1>5, <1>8, <1>9, JobSent, Zenon
<1>11. DOMAIN t = DOMAIN Processor /\ t.bug = FALSE
  BY <1>4, Zenon DEF JobAdded
<1>12. Connection(t, miner[m], outgoing[m], r, prev_hash)
  BY <1>10, <1>11, Of, Zenon DEF Connection
<1>13. target' \in [Targets -> Int]
  BY <1>1, Of, Divided, Zenon DEF Targets
<1>14. /\ prev_hash' = prev_hash /\ pool' = [pool EXCEPT ![m] = t]
       /\ miner' = [miner EXCEPT ![m] = miner[m]]
       /\ outgoing' = [outgoing EXCEPT ![m] = outgoing[m]]
  BY <1>1, Of, Zenon DEF vardiff_loop, t
<1> QED
  BY <1>7, <1>8, <1>11, <1>12, <1>13, <1>14, Of, OneConnection, Zenon

\* A new block, for a connection without a channel.
LEMMA BlockPasses ==
    ASSUME NEW s, NEW value, NEW block, ~(s.connected /\ s.channel)
    PROVE  on_new_block(s, value) = s /\ NewBlockMsgs(s, block) = <<>>
BY Zenon DEF on_new_block, NewBlockMsgs

\* A new block, for a connection with a channel.
LEMMA BlockArrives ==
    ASSUME NEW s, NEW n, NEW out, NEW in \in Seq(ToMiner), NEW block \in Nat, NEW value,
           DOMAIN s = DOMAIN Processor, s.bug = FALSE, Opened(s, n, out, in, block)
    PROVE  /\ DOMAIN on_new_block(s, value) = DOMAIN Processor
           /\ on_new_block(s, value).bug = FALSE
           /\ in \o NewBlockMsgs(s, block + 1) \in Seq(ToMiner)
           /\ Opened(on_new_block(s, value), n, out, in \o NewBlockMsgs(s, block + 1), block + 1)
<1> DEFINE t == SwitchJobs(s, value)
           x == SetNewPrevHash(s.future_job.uid, block + 1)
           q == Append(in, x)
<1>1. Registered(s)
  BY Zenon DEF Opened
<1>2. Switched(s, t)
  BY <1>1, JobsSwitched, Zenon
<1>3. s.connected /\ s.channel /\ on_new_block(s, value) = t
  BY Zenon DEF on_new_block, Opened, Ordered
<1>4. s.future_job.uid \in Nat /\ s.next_job_uid \in Nat
  BY <1>1, SMTT(30) DEF Registered
<1>5. x \in ToMiner /\ IsBlock(x) /\ x.job_id = s.future_job.uid /\ x.prev_hash = block + 1
  <2>1. x \in ToMiner
    BY <1>4, MessageFields
  <2> QED
    BY <2>1, MessageTypes DEF IsBlock
<1>6. PICK y \in ToMiner : /\ IsJob(y) /\ y.job_id = s.next_job_uid /\ y.future_job
                           /\ NewBlockMsgs(s, block + 1) = <<x, y>>
  BY <1>3, <1>4, JobMessages, Zenon DEF NewBlockMsgs
<1> DEFINE r == in \o <<x, y>>
<1> HIDE DEF t, x
<1>7. /\ r \in Seq(ToMiner) /\ Len(in) \in Nat
      /\ Longer(in, q, x) /\ Longer(q, r, y)
  BY <1>5, TwoSent, Zenon
<1>8. in \o NewBlockMsgs(s, block + 1) = r
  BY <1>6, Zenon
<1> HIDE DEF q, r
<1>9. Opened(t, n, out, r, block + 1)
  BY <1>2, <1>5, <1>6, <1>7, BlockSent, Zenon
<1>10. DOMAIN t = DOMAIN Processor /\ t.bug = FALSE
  BY <1>2, Zenon DEF Switched
<1> QED
  BY <1>3, <1>7, <1>8, <1>9, <1>10, Zenon

\* A new block, for any connection.
LEMMA BlockReaches ==
    ASSUME NEW s, NEW n, NEW out, NEW in \in Seq(ToMiner), NEW block \in Nat, NEW value,
           DOMAIN s = DOMAIN Processor, Connection(s, n, out, in, block)
    PROVE  /\ DOMAIN on_new_block(s, value) = DOMAIN Processor
           /\ in \o NewBlockMsgs(s, block + 1) \in Seq(ToMiner)
           /\ Connection(on_new_block(s, value), n, out, in \o NewBlockMsgs(s, block + 1), block + 1)
<1> DEFINE t == on_new_block(s, value)
           r == in \o NewBlockMsgs(s, block + 1)
<1>1. CASE s.connected /\ s.channel
  <2>1. Opened(s, n, out, in, block) /\ s.bug = FALSE
    BY <1>1, BusyIsOpened, Zenon DEF Connection
  <2>2. /\ DOMAIN t = DOMAIN Processor /\ t.bug = FALSE /\ r \in Seq(ToMiner)
        /\ Opened(t, n, out, r, block + 1)
    BY <2>1, BlockArrives, Zenon
  <2> HIDE DEF t, r
  <2>3. Connection(t, n, out, r, block + 1)
    BY <2>2, Zenon DEF Connection
  <2> QED
    BY <2>2, <2>3, Zenon DEF t, r
<1>2. CASE ~(s.connected /\ s.channel)
  <2>1. t = s /\ r = in
    BY <1>2, BlockPasses, NoMessages, Zenon
  <2> HIDE DEF t, r
  <2>2. Connection(s, n, out, in, block + 1)
    BY <1>2, Zenon DEF Connection, Opened, Ordered
  <2> QED
    BY <2>1, <2>2, Zenon DEF t, r
<1> QED
  BY <1>1, <1>2, Zenon

\* A new block.
LEMMA BlockHolds ==
    ASSUME IInv, pow_update
    PROVE  IInv'
<1>1. /\ prev_hash' = prev_hash + 1 /\ prev_hash \in Nat
      /\ pool' = [m \in Miners |-> on_new_block(pool[m], target[DefaultRef])]
      /\ incoming' = [m \in Miners |-> incoming[m] \o NewBlockMsgs(pool[m], prev_hash + 1)]
      /\ miner' = miner /\ outgoing' = outgoing /\ target' = target
  BY Zenon DEF pow_update, IInv, TypeOK
<1>2. ASSUME NEW m \in Miners
      PROVE  /\ DOMAIN pool'[m] = DOMAIN Processor
             /\ incoming'[m] \in Seq(ToMiner)
             /\ Connection(pool'[m], miner'[m], outgoing'[m], incoming'[m], prev_hash')
  <2>1. /\ pool'[m] = on_new_block(pool[m], target[DefaultRef])
        /\ incoming'[m] = incoming[m] \o NewBlockMsgs(pool[m], prev_hash + 1)
        /\ miner'[m] = miner[m] /\ outgoing'[m] = outgoing[m]
    BY <1>1, Zenon
  <2>2. /\ DOMAIN pool[m] = DOMAIN Processor /\ incoming[m] \in Seq(ToMiner)
        /\ Connection(pool[m], miner[m], outgoing[m], incoming[m], prev_hash)
    BY Of, Zenon
  <2>3. /\ DOMAIN on_new_block(pool[m], target[DefaultRef]) = DOMAIN Processor
        /\ incoming[m] \o NewBlockMsgs(pool[m], prev_hash + 1) \in Seq(ToMiner)
        /\ Connection(on_new_block(pool[m], target[DefaultRef]), miner[m], outgoing[m],
                      incoming[m] \o NewBlockMsgs(pool[m], prev_hash + 1), prev_hash + 1)
    BY <1>1, <2>2, BlockReaches, Zenon
  <2> QED
    BY <1>1, <2>1, <2>3, Zenon
<1>3. pool' = [m \in Miners |-> pool'[m]] /\ prev_hash' \in Nat
  BY <1>1
<1>4. incoming' \in [Miners -> Seq(ToMiner)]
  BY <1>1, <1>2, Zenon
<1>5. TypeOK'
  BY <1>1, <1>2, <1>3, <1>4, Zenon DEF IInv, TypeOK
<1> QED
  BY <1>2, <1>5, Zenon DEF IInv

\* What the pool may find in a store: the setup, the open request, or a share.
LEMMA PoolHead ==
    ASSUME NEW s, NEW n, NEW out, NEW in, NEW block, Connection(s, n, out, in, block), s.connected,
           Len(out) > 0, out # <<>>
    PROVE  \/ /\ out = <<SetupConnection>> /\ in = <<>> /\ New(s, n)
              /\ ~s.connection_config /\ n.next_req_id = 0
           \/ /\ out = <<Open(0, n.diff_1_target)>> /\ in = <<>> /\ New(s, n)
              /\ 0 \in n.requests
           \/ Opened(s, n, out, in, block) /\ IsShare(out[1])
<1>1. ~Gone(s, n, out, in)
  BY Zenon DEF Gone
<1>2. CASE Opening(s, n, out, in)
  BY <1>2, Zenon DEF Opening
<1>3. CASE Opened(s, n, out, in, block)
  <2>1. /\ 1 \in 1 .. Len(out)
        /\ \A i \in 1 .. Len(out) : IsShare(out[i])
    BY <1>3 DEF Opened, Ordered
  <2> QED
    BY <1>3, <2>1, Zenon
<1> QED
  BY <1>1, <1>2, <1>3, Zenon DEF Connection

\* The pool answers a setup.
LEMMA SetupHolds ==
    ASSUME IInv, NEW m \in Miners, PoolReceives(m), Head(outgoing[m]).type = "SetupConnection",
           visit_setup_connection(m)
    PROVE  IInv'
<1> DEFINE s == [pool[m] EXCEPT !.connection_config = TRUE,
                                !.bug = @ \/ pool[m].connection_config]
<1>1. /\ pool[m].connected /\ outgoing[m] # <<>> /\ outgoing' = [outgoing EXCEPT ![m] = Tail(@)]
      /\ prev_hash' = prev_hash /\ miner' = miner /\ target' = target
  BY Zenon DEF PoolReceives, visit_setup_connection
<1>2. Len(outgoing[m]) > 0 /\ Head(outgoing[m]) = outgoing[m][1]
  BY <1>1, Of, Lengths, Zenon
<1>3. /\ outgoing[m] = <<SetupConnection>> /\ incoming[m] = <<>> /\ New(pool[m], miner[m])
      /\ ~pool[m].connection_config /\ miner[m].next_req_id = 0
  <2>1. ~IsShare(outgoing[m][1])
    BY <1>2, Zenon DEF IsShare
  <2>2. outgoing[m] # <<Open(0, miner[m].diff_1_target)>>
    BY <1>2, PoolMessageTypes
  <2> QED
    BY <1>1, <1>2, <2>1, <2>2, Of, PoolHead, Zenon
<1>4. pool' = [pool EXCEPT ![m] = s]
  BY Of, Zenon DEF visit_setup_connection
<1>5. /\ DOMAIN s = DOMAIN Processor /\ s.bug = (pool[m].bug \/ pool[m].connection_config)
      /\ s.channel = pool[m].channel /\ s.running = pool[m].running
      /\ s.connected = pool[m].connected /\ s.next_job_uid = pool[m].next_job_uid
      /\ s.jobs = pool[m].jobs /\ s.invalid_jobs = pool[m].invalid_jobs
      /\ s.future_job = pool[m].future_job
  BY Of, Shapes, Zenon
<1> HIDE DEF s
<1>6. s.bug = FALSE
  BY <1>3, <1>5, Of, Zenon DEF Connection
<1>7. New(s, miner[m])
  BY <1>3, <1>5, Zenon DEF New
<1>8. PICK out \in Seq(ToPool), in \in Seq(ToMiner) : out = <<>> /\ in = <<SetupConnectionSuccess>>
  <2>1. SetupConnectionSuccess \in ToMiner
    BY MessageFields, Zenon
  <2> QED
    BY <2>1, NoMessages, Zenon
<1>9. outgoing' = [outgoing EXCEPT ![m] = out] /\ incoming' = [incoming EXCEPT ![m] = in]
  BY <1>1, <1>3, <1>8 DEF visit_setup_connection
<1>10. Opening(s, miner[m], out, in)
  BY <1>3, <1>7, <1>8, Zenon DEF Opening
<1>11. Connection(s, miner[m], out, in, prev_hash)
  BY <1>6, <1>10, Of, Zenon DEF Connection
<1>12. /\ prev_hash' = prev_hash /\ target' \in [Targets -> Int]
       /\ miner' = [miner EXCEPT ![m] = miner[m]]
  BY <1>1, Of, Zenon
<1> QED
  BY <1>4, <1>5, <1>9, <1>11, <1>12, Of, OneConnection, Zenon

\* The messages that open a channel.
LEMMA SixMessages ==
    ASSUME NEW S, NEW x1 \in S, NEW x2 \in S, NEW x3 \in S, NEW x4 \in S, NEW x5 \in S, NEW x6 \in S
    PROVE  LET in == <<>> \o <<x1, x2, x3>> \o <<x4>> \o <<x5, x6>>
               q == <<x1, x2, x3, x4, x5>>
           IN  in \in Seq(S) /\ Longer(q, in, x6)
BY DEF Longer

\* They are the answer, a job, the block that activates it, the future job, the
\* target and the job of the first turn of the loop.
OpeningSix(x1, x2, x3, x4, x5, x6, block) ==
    /\ x1.type = "OpenStandardMiningChannelSuccess" /\ x1.req_id = 0
    /\ IsJob(x2) /\ x2.job_id = 0 /\ x2.future_job
    /\ IsBlock(x3) /\ x3.job_id = 0 /\ x3.prev_hash = block
    /\ IsJob(x4) /\ x4.job_id = 1 /\ x4.future_job
    /\ x5.type = "SetTarget" /\ IsJob(x6) /\ x6.job_id = 2 /\ ~x6.future_job

SixSent(s, both, block, value) ==
    \E x1 \in ToMiner, x2 \in ToMiner, x3 \in ToMiner, x4 \in ToMiner, x5 \in ToMiner,
       x6 \in ToMiner :
       /\ OpeningMsgs(s, 0, block, value) = <<x1, x2, x3>>
       /\ <<NewMiningJob(1, TRUE)>> = <<x4>>
       /\ VardiffMsgs(both) = <<x5, x6>>
       /\ OpeningSix(x1, x2, x3, x4, x5, x6, block)

\* The pool sends them.
LEMMA OpeningMessages ==
    ASSUME NEW s, s.next_job_uid = 0, NEW both, both.next_job_uid = 2,
           NEW block \in Nat, NEW value \in Int
    PROVE  SixSent(s, both, block, value)
<1>0. 0 \in Nat /\ 1 \in Nat /\ 2 \in Nat
  BY Zenon
<1>1. PICK x1 \in ToMiner : /\ x1 = OpenSuccess(0, value)
                            /\ x1.type = "OpenStandardMiningChannelSuccess" /\ x1.req_id = 0
  BY MessageFields, MessageTypes
<1>2. PICK x2 \in ToMiner : x2 = NewMiningJob(0, TRUE) /\ IsJob(x2) /\ x2.job_id = 0 /\ x2.future_job
  BY <1>0, JobMessages, Zenon
<1>3. PICK x3 \in ToMiner : /\ x3 = SetNewPrevHash(0, block)
                            /\ IsBlock(x3) /\ x3.job_id = 0 /\ x3.prev_hash = block
  BY MessageFields, MessageTypes DEF IsBlock
<1>4. PICK x4 \in ToMiner : x4 = NewMiningJob(1, TRUE) /\ IsJob(x4) /\ x4.job_id = 1 /\ x4.future_job
  BY <1>0, JobMessages, Zenon
<1>5. PICK x5 \in ToMiner : x5 = SetTarget(DefaultRef) /\ x5.type = "SetTarget"
  BY MessageFields, MessageTypes, Zenon
<1>6. PICK x6 \in ToMiner : x6 = NewMiningJob(2, FALSE) /\ IsJob(x6) /\ x6.job_id = 2 /\ ~x6.future_job
  BY <1>0, JobMessages, Zenon
<1>7. /\ OpeningMsgs(s, 0, block, value) = <<x1, x2, x3>>
      /\ <<NewMiningJob(1, TRUE)>> = <<x4>>
      /\ VardiffMsgs(both) = <<x5, x6>>
  BY <1>1, <1>2, <1>3, <1>4, <1>5, <1>6, Zenon DEF OpeningMsgs, VardiffMsgs
<1>8. OpeningSix(x1, x2, x3, x4, x5, x6, block)
  BY <1>1, <1>2, <1>3, <1>4, <1>5, <1>6, Zenon DEF OpeningSix
<1> QED
  BY <1>7, <1>8, Zenon DEF SixSent

\* The pool opens a channel.
LEMMA OpenHolds ==
    ASSUME IInv, NEW m \in Miners, PoolReceives(m),
           Head(outgoing[m]).type = "OpenStandardMiningChannel",
           visit_open_standard_mining_channel(m, Head(outgoing[m]))
    PROVE  IInv'
<1> DEFINE s == pool[m]
           n == miner[m]
           msg == Head(outgoing[m])
<1>1. /\ pool[m].connected /\ outgoing[m] # <<>> /\ outgoing' = [outgoing EXCEPT ![m] = Tail(@)]
      /\ prev_hash' = prev_hash /\ miner' = miner
  BY Zenon DEF PoolReceives
<1>2. Len(outgoing[m]) > 0 /\ msg = outgoing[m][1]
  BY <1>1, Of, Lengths, Zenon
<1>3. /\ outgoing[m] = <<Open(0, n.diff_1_target)>> /\ incoming[m] = <<>> /\ New(s, n)
      /\ 0 \in n.requests
  <2>1. ~IsShare(outgoing[m][1])
    BY <1>2, Zenon DEF IsShare
  <2>2. outgoing[m] # <<SetupConnection>>
    BY <1>2, PoolMessageTypes
  <2> QED
    BY <1>1, <1>2, <2>1, <2>2, Of, PoolHead, Zenon
<1>4. msg.req_id = 0
  BY <1>2, <1>3, PoolMessageTypes
<1>5. PICK out \in Seq(ToPool) : out = <<>> /\ outgoing' = [outgoing EXCEPT ![m] = out]
  BY <1>1, <1>3, NoMessages, Zenon
<1>6. prev_hash' = prev_hash /\ miner' = [miner EXCEPT ![m] = n]
  BY <1>1, Of, Zenon
<1>7. /\ s.bug = FALSE /\ n.bug = FALSE /\ n.diff_1_target \in Nat /\ n.curr_diff_target \in Targets
  BY Of, Zenon DEF Connection
<1>8. CASE msg.max_target <= DiffOne
  <2> DEFINE value == target[DefaultRef]
             first == take_future_job(WithFutureJob(s, value))
             both == WithFutureJob(first, value)
  <2>1. PICK factor \in Factors :
           /\ target' = [target EXCEPT ![DefaultRef] = div_by_factor(value, factor)]
           /\ pool' = [pool EXCEPT ![m] =
                 [WithJobNow(both, div_by_factor(value, factor)) EXCEPT
                    !.channel = TRUE, !.running = TRUE]]
           /\ incoming' = [incoming EXCEPT ![m] =
                 @ \o OpeningMsgs(s, msg.req_id, prev_hash, value)
                   \o <<NewMiningJob(first.next_job_uid, TRUE)>>
                   \o VardiffMsgs(both)]
    BY <1>8, Zenon DEF visit_open_standard_mining_channel, WithFutureJob, WithJobNow
  <2> DEFINE divided == div_by_factor(value, factor)
             t == [WithJobNow(both, divided) EXCEPT !.channel = TRUE, !.running = TRUE]
  <2>2. value \in Int /\ divided \in Int /\ target' \in [Targets -> Int]
    BY <2>1, Of, Divided, Zenon DEF Targets
  <2>3. /\ s.connected /\ s.next_job_uid = 0 /\ s.jobs = {} /\ s.invalid_jobs = {}
        /\ s.future_job = NoJob /\ DOMAIN s = DOMAIN Processor
    BY <1>3, Of, Zenon DEF New
  <2> HIDE DEF s, n, msg, value
  <2>4. first.next_job_uid = 1 /\ \E a, b : Starting(both, a, b)
    BY <1>7, <2>3, FirstJobs, Zenon
  <2> HIDE DEF first, both, divided
  <2>5. PICK a, b : Starting(both, a, b)
    BY <2>4, Zenon
  <2>6. /\ DOMAIN t = DOMAIN Processor /\ t.bug = FALSE
        /\ \E r, job : /\ Starting(r, a, b) /\ r.channel /\ r.running
                       /\ JobAdded(r, t, job) /\ t.future_job = r.future_job
    BY <2>5, LoopStarts, Zenon
  <2>7. both.next_job_uid = 2
    BY <2>5, Zenon DEF Starting
  <2>8. pool' = [pool EXCEPT ![m] = t]
    BY <2>1, Zenon DEF divided
  <2> HIDE DEF t
  <2>9. PICK r, job : /\ Starting(r, a, b) /\ r.channel /\ r.running
                      /\ JobAdded(r, t, job) /\ t.future_job = r.future_job
    BY <2>6, Zenon
  <2>15. prev_hash \in Nat /\ Len(out) = 0
    BY <1>5, Of, Zenon
  <2>10. PICK x1 \in ToMiner, x2 \in ToMiner, x3 \in ToMiner, x4 \in ToMiner, x5 \in ToMiner,
              x6 \in ToMiner :
           /\ OpeningMsgs(s, 0, prev_hash, value) = <<x1, x2, x3>>
           /\ <<NewMiningJob(1, TRUE)>> = <<x4>>
           /\ VardiffMsgs(both) = <<x5, x6>>
           /\ OpeningSix(x1, x2, x3, x4, x5, x6, prev_hash)
    <3>1. SixSent(s, both, prev_hash, value)
      BY <2>2, <2>3, <2>7, <2>15, OpeningMessages, Zenon
    <3> QED
      BY <3>1, Zenon DEF SixSent
  <2> DEFINE in == <<>> \o <<x1, x2, x3>> \o <<x4>> \o <<x5, x6>>
             q == <<x1, x2, x3, x4, x5>>
  <2>11. in \in Seq(ToMiner) /\ Longer(q, in, x6)
    BY SixMessages, Zenon
  <2>12. incoming' = [incoming EXCEPT ![m] = in]
    BY <1>3, <1>4, <2>1, <2>4, <2>10, Zenon
  <2>13. /\ Len(q) = 5 /\ q[1] = x1 /\ q[2] = x2 /\ q[3] = x3 /\ q[4] = x4 /\ q[5] = x5
    BY Zenon
  <2> HIDE DEF in, q
  <2>14. n.connected /\ ~n.channel /\ n.jobs = {} /\ n.prev_hash = -1 /\ n.mine_proc = Idle
    BY <1>3, ZenonT(30) DEF New
  <2>16. Opened(t, n, out, in, prev_hash)
    BY <1>3, <2>9, <2>10, <2>11, <2>13, <2>14, <2>15, ChannelOpened, ZenonT(30) DEF OpeningSix
  <2>17. Connection(t, n, out, in, prev_hash)
    BY <1>7, <2>6, <2>16, Zenon DEF Connection
  <2>18. DOMAIN n = DOMAIN Miner(m, 0)
    BY Of, Zenon DEF n
  <2> QED
    BY <1>5, <1>6, <2>2, <2>6, <2>8, <2>11, <2>12, <2>17, <2>18, OneConnection, Zenon
<1>9. CASE ~(msg.max_target <= DiffOne)
  <2>1. PICK in \in Seq(ToMiner) : in = <<OpenError(0)>>
    <3>1. OpenError(0) \in ToMiner
      BY MessageFields, Zenon
    <3> QED
      BY <3>1, NoMessages, Zenon
  <2>2. /\ incoming' = [incoming EXCEPT ![m] = Append(@, OpenError(msg.req_id))]
        /\ target' = target /\ pool' = pool
    BY <1>9, Zenon DEF visit_open_standard_mining_channel
  <2>3. /\ incoming' = [incoming EXCEPT ![m] = in] /\ target' \in [Targets -> Int]
        /\ pool' = [pool EXCEPT ![m] = s]
    <3>1. Append(incoming[m], OpenError(msg.req_id)) = in
      BY <1>3, <1>4, <2>1
    <3> QED
      BY <2>2, <3>1, Of, ZenonT(30)
  <2>4. Opening(s, n, out, in)
    BY <1>3, <1>5, <2>1, Zenon DEF Opening
  <2>5. Connection(s, n, out, in, prev_hash)
    BY <1>7, <2>4, Zenon DEF Connection
  <2> QED
    BY <1>5, <1>6, <2>3, <2>5, Of, OneConnection, Zenon
<1> QED
  BY <1>8, <1>9, Zenon

\* What the pool makes of a share: it answers, and only counters change.
LEMMA ShareAnswered ==
    ASSUME IInv, NEW m \in Miners, NEW uid, process_submit(m, uid), pool[m].running,
           pool[m].bug = FALSE, Registered(pool[m])
    PROVE  \E t, x :
              /\ pool' = [pool EXCEPT ![m] = t] /\ DOMAIN t = DOMAIN Processor /\ t.bug = FALSE
              /\ t.connected = pool[m].connected /\ t.channel = pool[m].channel
              /\ t.running = pool[m].running /\ t.next_job_uid = pool[m].next_job_uid
              /\ t.future_job = pool[m].future_job
              /\ t.jobs = pool[m].jobs /\ t.invalid_jobs = pool[m].invalid_jobs
              /\ incoming' = [incoming EXCEPT ![m] = Append(@, x)] /\ x \in ToMiner
              /\ OfChannel(x) /\ ~IsJob(x) /\ ~IsBlock(x)
<1>1. CASE contains(pool[m], uid)
  <2> DEFINE d == DifficultyOf(pool[m].jobs, uid)
             t == [pool[m] EXCEPT !.meter = @ + d, !.bug = @ \/ ~pool[m].running]
  <2>1. pool' = [pool EXCEPT ![m] = t]
    BY <1>1, Of, Zenon DEF process_submit, Accept
  <2>2. /\ DOMAIN t = DOMAIN Processor /\ t.bug = (pool[m].bug \/ ~pool[m].running)
        /\ t.connected = pool[m].connected /\ t.channel = pool[m].channel
        /\ t.running = pool[m].running /\ t.next_job_uid = pool[m].next_job_uid
        /\ t.future_job = pool[m].future_job
        /\ t.jobs = pool[m].jobs /\ t.invalid_jobs = pool[m].invalid_jobs
    BY Of, Shapes, Zenon
  <2>3. incoming' = [incoming EXCEPT ![m] = Append(@, SubmitSuccess(d))]
    BY <1>1, Zenon DEF process_submit, Accept
  <2>4. d \in Difficulties
    <3>1. get_job(pool[m].jobs, uid) \in pool[m].jobs
      BY <1>1, Zenon DEF contains, get_job
    <3>2. target[DefaultRef] \in Int
      BY Of, Zenon DEF Targets
    <3> QED
      BY <3>1, <3>2, Zenon DEF DifficultyOf, Difficulties, Registered
  <2> HIDE DEF d, t
  <2>5. SubmitSuccess(d) \in ToMiner
    BY <2>4, MessageFields, Zenon
  <2>6. OfChannel(SubmitSuccess(d)) /\ ~IsJob(SubmitSuccess(d)) /\ ~IsBlock(SubmitSuccess(d))
    BY MessageTypes, Zenon DEF OfChannel, IsJob, IsBlock
  <2>7. t.bug = FALSE
    BY <2>2, Zenon
  <2> QED
    BY <2>1, <2>2, <2>3, <2>5, <2>6, <2>7, Zenon
<1>2. CASE ~contains(pool[m], uid)
  <2>1. \E d \in Difficulties \cup {0} :
           pool' = pool /\ incoming' = [incoming EXCEPT ![m] = Append(@, SubmitError(d))]
    <3>1. CASE contains_invalid(pool[m], uid)
      <4> DEFINE d == DifficultyOf(pool[m].invalid_jobs, uid)
      <4>1. pool' = pool /\ incoming' = [incoming EXCEPT ![m] = Append(@, SubmitError(d))]
        BY <1>2, <3>1, Zenon DEF process_submit, Reject
      <4>2. get_job(pool[m].invalid_jobs, uid) \in pool[m].invalid_jobs
        BY <3>1, Zenon DEF contains_invalid, get_job
      <4>3. target[DefaultRef] \in Int
        BY Of, Zenon DEF Targets
      <4>4. d \in Difficulties
        BY <4>2, <4>3, Zenon DEF DifficultyOf, Difficulties, Registered
      <4> QED
        BY <4>1, <4>4, Zenon
    <3>2. CASE ~contains_invalid(pool[m], uid)
      BY <1>2, <3>2, Zenon DEF process_submit, Reject
    <3> QED
      BY <3>1, <3>2, Zenon
  <2> PICK d \in Difficulties \cup {0} :
           pool' = pool /\ incoming' = [incoming EXCEPT ![m] = Append(@, SubmitError(d))]
    BY <2>1, Zenon
  <2>2. OfChannel(SubmitError(d)) /\ ~IsJob(SubmitError(d)) /\ ~IsBlock(SubmitError(d))
    BY MessageTypes, Zenon DEF OfChannel, IsJob, IsBlock
  <2>3. SubmitError(d) \in ToMiner
    BY MessageFields, Zenon
  <2>4. pool' = [pool EXCEPT ![m] = pool[m]] /\ DOMAIN pool[m] = DOMAIN Processor
    BY Of, Zenon
  <2> QED
    BY <2>2, <2>3, <2>4, Zenon
<1> QED
  BY <1>1, <1>2, Zenon

\* The pool takes a share.
LEMMA SubmitHolds ==
    ASSUME IInv, NEW m \in Miners, PoolReceives(m),
           Head(outgoing[m]).type = "SubmitSharesStandard",
           visit_submit_shares_standard(m, Head(outgoing[m]))
    PROVE  IInv'
<1> DEFINE s == pool[m]
           n == miner[m]
           msg == Head(outgoing[m])
           out == Tail(outgoing[m])
<1>1. /\ pool[m].connected /\ outgoing[m] # <<>> /\ outgoing' = [outgoing EXCEPT ![m] = out]
      /\ prev_hash' = prev_hash /\ miner' = miner
  BY Zenon DEF PoolReceives
<1>2. /\ Len(outgoing[m]) > 0 /\ msg = outgoing[m][1]
      /\ out \in Seq(ToPool) /\ Shorter(outgoing[m], out)
  BY <1>1, Of, Lengths, Zenon
<1>3. Opened(s, n, outgoing[m], incoming[m], prev_hash)
  <2>1. outgoing[m] # <<SetupConnection>>
    BY <1>2, PoolMessageTypes
  <2>2. outgoing[m] # <<Open(0, n.diff_1_target)>>
    BY <1>2, PoolMessageTypes
  <2> QED
    BY <1>1, <1>2, <2>1, <2>2, Of, PoolHead, Zenon
<1>4. s.channel /\ s.running /\ Registered(s) /\ s.bug = FALSE
  BY <1>3, Of, Zenon DEF Opened, Ordered, Connection
<1>5. process_submit(m, msg.job_id)
  BY <1>4, Zenon DEF visit_submit_shares_standard
<1>6. target' = target
  BY <1>5, Zenon DEF process_submit
<1>7. PICK t, x :
         /\ pool' = [pool EXCEPT ![m] = t] /\ DOMAIN t = DOMAIN Processor /\ t.bug = FALSE
         /\ t.connected = s.connected /\ t.channel = s.channel
         /\ t.running = s.running /\ t.next_job_uid = s.next_job_uid
         /\ t.future_job = s.future_job
         /\ t.jobs = s.jobs /\ t.invalid_jobs = s.invalid_jobs
         /\ incoming' = [incoming EXCEPT ![m] = Append(@, x)] /\ x \in ToMiner
         /\ OfChannel(x) /\ ~IsJob(x) /\ ~IsBlock(x)
  BY <1>4, <1>5, ShareAnswered, Zenon
<1> DEFINE in == Append(incoming[m], x)
<1>8. in \in Seq(ToMiner) /\ Longer(incoming[m], in, x) /\ Len(incoming[m]) \in Nat
  BY <1>7, Of, Lengths, Zenon
<1>9. incoming' = [incoming EXCEPT ![m] = in]
  BY <1>7, Zenon
<1>10. Len(out) \in Nat
  BY <1>2
<1> HIDE DEF s, n, out, in
<1>11. Opened(s, n, out, incoming[m], prev_hash)
  BY <1>2, <1>3, <1>10, ShareTaken, Zenon
<1>12. Opened(s, n, out, in, prev_hash)
  BY <1>7, <1>8, <1>11, PlainSent, Zenon
<1>13. Opened(t, n, out, in, prev_hash)
  BY <1>7, <1>12, SessionKept, Zenon
<1>14. Connection(t, n, out, in, prev_hash)
  BY <1>7, <1>13, Of, Zenon DEF Connection, n
<1>15. /\ prev_hash' = prev_hash /\ target' \in [Targets -> Int]
       /\ miner' = [miner EXCEPT ![m] = n] /\ DOMAIN n = DOMAIN Miner(m, 0)
       /\ DOMAIN t = DOMAIN Processor /\ out \in Seq(ToPool) /\ in \in Seq(ToMiner)
       /\ pool' = [pool EXCEPT ![m] = t] /\ outgoing' = [outgoing EXCEPT ![m] = out]
  BY <1>1, <1>2, <1>6, <1>7, <1>8, Of, Zenon DEF n
<1> QED
  BY <1>9, <1>14, <1>15, OneConnection, Zenon

\* The pool takes a message.
LEMMA PoolHolds ==
    ASSUME IInv, NEW m \in Miners, PoolReceives(m)
    PROVE  IInv'
BY SetupHolds, OpenHolds, SubmitHolds, Zenon DEF PoolReceives

-----------------------------------------------------------------------------
(* The miner's side                                                        *)

\* Miner k is miner n after it took message h, with all that the invariant asks.
Took(n, k, h) ==
    /\ Taken(n, k, h)
    /\ DOMAIN k = DOMAIN n /\ k.bug = FALSE
    /\ k.diff_1_target = n.diff_1_target /\ k.curr_diff_target \in Targets

\* A miner with an open channel, about to take a message of it.
Listening(m, n, h) ==
    /\ DOMAIN n = DOMAIN Miner(m, 0) /\ n.bug = FALSE /\ n.curr_diff_target \in Targets
    /\ n.connected /\ n.channel /\ h \in ToMiner

\* A miner starts to work on a job for a block.
LEMMA MinesOn ==
    ASSUME NEW m, NEW n, DOMAIN n = DOMAIN Miner(m, 0), NEW job, NEW block
    PROVE  LET k == mine_on_new_job(n, job, block)
           IN  /\ DOMAIN k = DOMAIN n /\ k.prev_hash = block
               /\ k.mine_proc.uid = job.uid /\ k.mine_proc.block = block
               /\ k.connected = n.connected /\ k.channel = n.channel /\ k.bug = n.bug
               /\ k.jobs = n.jobs /\ k.diff_1_target = n.diff_1_target
               /\ k.curr_diff_target = n.curr_diff_target
<1> DEFINE share_diff == to_difficulty(target[job.diff_target], DiffOneOf(n, job.diff_target))
           work == [uid |-> job.uid, block |-> block, share_diff |-> share_diff]
           k == [n EXCEPT !.mine_proc = work, !.prev_hash = block]
<1>1. work.uid = job.uid /\ work.block = block
  BY Zenon
<1>2. mine_on_new_job(n, job, block) = k
  BY Zenon DEF mine_on_new_job
<1> HIDE DEF work
<1>3. /\ DOMAIN k = DOMAIN n /\ k.prev_hash = block /\ k.mine_proc = work
      /\ k.connected = n.connected /\ k.channel = n.channel /\ k.bug = n.bug
      /\ k.jobs = n.jobs /\ k.diff_1_target = n.diff_1_target
      /\ k.curr_diff_target = n.curr_diff_target
  BY Shapes, Zenon
<1> QED
  BY <1>1, <1>2, <1>3, Zenon

\* A new target.
LEMMA TargetTook ==
    ASSUME NEW m, NEW n, NEW h, Listening(m, n, h), h.type = "SetTarget"
    PROVE  Took(n, visit_set_target(n, h), h)
<1> DEFINE k == visit_set_target(n, h)
<1>1. h.max_target = DefaultRef /\ DOMAIN n = DOMAIN Miner(m, 0)
  BY MinerMessage, Zenon DEF Listening
<1>2. /\ DOMAIN k = DOMAIN n /\ k.curr_diff_target = DefaultRef
      /\ k.connected = n.connected /\ k.channel = n.channel /\ k.bug = n.bug
      /\ k.jobs = n.jobs /\ k.diff_1_target = n.diff_1_target
      /\ k.prev_hash = n.prev_hash /\ k.mine_proc = n.mine_proc
  BY <1>1, Shapes, Zenon DEF visit_set_target
<1> HIDE DEF k
<1>3. ~IsBlock(h) /\ ~IsJob(h)
  BY Zenon DEF IsBlock, IsJob
<1>4. \A uid : contains(k, uid) <=> contains(n, uid)
  BY <1>2, Zenon DEF contains
<1>5. Taken(n, k, h)
  BY <1>2, <1>3, <1>4, Zenon DEF Taken, Listening
<1> QED
  BY <1>2, <1>5, Zenon DEF Took, Listening, Targets, k

\* The answer to a share.
LEMMA ReplyTook ==
    ASSUME NEW m, NEW n, NEW h, Listening(m, n, h), ~IsBlock(h), ~IsJob(h), h.type # "SetTarget"
    PROVE  Took(n, visit_submit_shares_reply(n, h), h)
<1> DEFINE k == visit_submit_shares_reply(n, h)
<1>1. DOMAIN n = DOMAIN Miner(m, 0)
  BY Zenon DEF Listening
<1>2. /\ DOMAIN k = DOMAIN n /\ k.curr_diff_target = n.curr_diff_target
      /\ k.connected = n.connected /\ k.channel = n.channel /\ k.bug = n.bug
      /\ k.jobs = n.jobs /\ k.diff_1_target = n.diff_1_target
      /\ k.prev_hash = n.prev_hash /\ k.mine_proc = n.mine_proc
  BY <1>1, Shapes, Zenon DEF visit_submit_shares_reply
<1> HIDE DEF k
<1>4. \A uid : contains(k, uid) <=> contains(n, uid)
  BY <1>2, Zenon DEF contains
<1>5. Taken(n, k, h)
  BY <1>2, <1>4, Zenon DEF Taken, Listening
<1> QED
  BY <1>2, <1>5, Zenon DEF Took, Listening, k

\* A block.
LEMMA BlockTook ==
    ASSUME NEW m, NEW n, NEW h, Listening(m, n, h), IsBlock(h), contains(n, h.job_id)
    PROVE  Took(n, visit_set_new_prev_hash(n, h), h)
<1> DEFINE job == get_job(n.jobs, h.job_id)
           k == mine_on_new_job(n, job, h.prev_hash)
<1>1. visit_set_new_prev_hash(n, h) = k
  BY Zenon DEF visit_set_new_prev_hash
<1>2. job.uid = h.job_id
  BY Zenon DEF contains, get_job
<1> HIDE DEF job
<1>3. /\ DOMAIN k = DOMAIN n /\ k.prev_hash = h.prev_hash
      /\ k.mine_proc.uid = job.uid /\ k.mine_proc.block = h.prev_hash
      /\ k.connected = n.connected /\ k.channel = n.channel /\ k.bug = n.bug
      /\ k.jobs = n.jobs /\ k.diff_1_target = n.diff_1_target
      /\ k.curr_diff_target = n.curr_diff_target
  <2>1. DOMAIN n = DOMAIN Miner(m, 0)
    BY Zenon DEF Listening
  <2> QED
    BY <2>1, MinesOn
<1> HIDE DEF k
<1>4. ~IsJob(h) /\ h.type # "SetTarget"
  BY Zenon DEF IsBlock, IsJob
<1>5. \A uid : contains(k, uid) <=> contains(n, uid)
  BY <1>3, Zenon DEF contains
<1>6. Taken(n, k, h)
  BY <1>2, <1>3, <1>4, <1>5, Zenon DEF Taken, Listening
<1> QED
  BY <1>1, <1>3, <1>6, Zenon DEF Took, Listening

\* A job.
LEMMA JobTook ==
    ASSUME NEW m, NEW n, NEW h, Listening(m, n, h), IsJob(h), ~contains(n, h.job_id)
    PROVE  Took(n, visit_new_mining_job(n, h), h)
<1> DEFINE job == MiningJob(h.job_id, n.curr_diff_target, target[n.curr_diff_target])
           w == [n EXCEPT !.jobs = @ \cup {job}]
           k == visit_new_mining_job(n, h)
<1>1. job.uid = h.job_id
  BY Zenon DEF MiningJob
<1>2. k = IF h.future_job THEN w ELSE mine_on_new_job(w, job, n.prev_hash)
  BY Zenon DEF visit_new_mining_job
<1> HIDE DEF job
<1>3. DOMAIN n = DOMAIN Miner(m, 0)
  BY Zenon DEF Listening
<1>4. /\ DOMAIN w = DOMAIN n /\ w.curr_diff_target = n.curr_diff_target
      /\ w.connected = n.connected /\ w.channel = n.channel /\ w.bug = n.bug
      /\ w.jobs = n.jobs \cup {job} /\ w.diff_1_target = n.diff_1_target
      /\ w.prev_hash = n.prev_hash /\ w.mine_proc = n.mine_proc
  BY <1>3, Shapes, Zenon
<1> HIDE DEF w, k
<1>5. ~IsBlock(h) /\ h.type # "SetTarget"
  BY Zenon DEF IsBlock, IsJob
<1>6. /\ DOMAIN k = DOMAIN n /\ k.curr_diff_target = n.curr_diff_target
      /\ k.connected = n.connected /\ k.channel = n.channel /\ k.bug = n.bug
      /\ k.jobs = n.jobs \cup {job} /\ k.diff_1_target = n.diff_1_target
      /\ k.prev_hash = n.prev_hash
      /\ \/ k.mine_proc = n.mine_proc
         \/ ~h.future_job /\ k.mine_proc.uid = job.uid /\ k.mine_proc.block = n.prev_hash
  <2>1. CASE h.future_job
    BY <1>2, <1>4, <2>1, ZenonT(30)
  <2>2. CASE ~h.future_job
    <3>1. k = mine_on_new_job(w, job, n.prev_hash) /\ DOMAIN w = DOMAIN Miner(m, 0)
      BY <1>2, <1>3, <1>4, <2>2, Zenon
    <3> QED
      BY <1>4, <2>2, <3>1, MinesOn
  <2> QED
    BY <2>1, <2>2, Zenon
<1>7. \A uid : contains(k, uid) <=> contains(n, uid) \/ uid = h.job_id
  BY <1>1, <1>6, Zenon DEF contains
<1>8. Taken(n, k, h)
  BY <1>1, <1>5, <1>6, <1>7, Zenon DEF Taken, Listening
<1> QED
  BY <1>6, <1>8, Zenon DEF Took, Listening, k

\* What a miner may find in its store.
LEMMA MinerHead ==
    ASSUME NEW s, NEW n, NEW out, NEW in, NEW block, Connection(s, n, out, in, block), n.connected,
           Len(in) \in Nat, Len(in) > 0, in # <<>>
    PROVE  \/ /\ in = <<SetupConnectionSuccess>> /\ out = <<>> /\ New(s, n)
              /\ n.next_req_id = 0
           \/ in = <<OpenError(0)>> /\ out = <<>> /\ New(s, n)
           \/ /\ Opened(s, n, out, in, block) /\ ~n.channel
              /\ in[1].type = "OpenStandardMiningChannelSuccess" /\ in[1].req_id \in n.requests
           \/ Opened(s, n, out, in, block) /\ n.channel /\ OfChannel(in[1])
<1>1. ~Gone(s, n, out, in)
  BY Zenon DEF Gone
<1>2. CASE Opening(s, n, out, in)
  BY <1>2, Zenon DEF Opening
<1>3. CASE Opened(s, n, out, in, block)
  BY <1>3, Zenon DEF Opened, Ordered
<1> QED
  BY <1>1, <1>2, <1>3, Zenon DEF Connection

\* The miner is set up, and asks for a channel.
LEMMA SetupTaken ==
    ASSUME IInv, NEW m \in Miners, MinerReceives(m), New(pool[m], miner[m]),
           incoming[m] = <<SetupConnectionSuccess>>, outgoing[m] = <<>>, miner[m].next_req_id = 0
    PROVE  IInv'
<1> DEFINE n == miner[m]
           k == [n EXCEPT !.state = "CONNECTION_SETUP", !.requests = @ \cup {n.next_req_id},
                          !.next_req_id = @ + 1]
<1>1. Head(incoming[m]).type = "SetupConnectionSuccess"
  BY MessageTypes
<1>2. visit_setup_connection_success(m)
  BY <1>1, Zenon DEF MinerReceives
<1>3. /\ prev_hash' = prev_hash /\ pool' = pool /\ target' = target
      /\ incoming' = [incoming EXCEPT ![m] = Tail(@)]
      /\ outgoing' = [outgoing EXCEPT ![m] = @ \o <<Open(n.next_req_id, n.diff_1_target)>>]
  BY <1>2, Zenon DEF MinerReceives, visit_setup_connection_success, Send
<1>4. miner' = [miner EXCEPT ![m] = k]
  BY <1>2, Of, Zenon DEF visit_setup_connection_success
<1>5. /\ DOMAIN k = DOMAIN Miner(m, 0) /\ 0 \in k.requests
      /\ k.diff_1_target = n.diff_1_target /\ k.curr_diff_target = n.curr_diff_target
      /\ k.connected = n.connected /\ k.channel = n.channel /\ k.bug = n.bug
      /\ k.jobs = n.jobs /\ k.prev_hash = n.prev_hash /\ k.mine_proc = n.mine_proc
  BY Of, Shapes
<1>6. /\ n.bug = FALSE /\ n.diff_1_target \in Nat /\ n.curr_diff_target \in Targets
      /\ pool[m].bug = FALSE
  BY Of, Zenon DEF Connection
<1>7. PICK out \in Seq(ToPool), in \in Seq(ToMiner) :
         out = <<Open(0, n.diff_1_target)>> /\ in = <<>>
  <2>1. Open(0, n.diff_1_target) \in ToPool
    BY <1>6, MessageFields
  <2> QED
    BY <2>1, NoMessages, Zenon
<1>8. incoming' = [incoming EXCEPT ![m] = in] /\ outgoing' = [outgoing EXCEPT ![m] = out]
  <2>1. Tail(incoming[m]) = in
    BY <1>7
  <2>2. outgoing[m] \o <<Open(n.next_req_id, n.diff_1_target)>> = out
    BY <1>7
  <2> QED
    BY <1>3, <2>1, <2>2, Zenon
<1> HIDE DEF k
<1>9. New(pool[m], k)
  BY <1>5, Zenon DEF New
<1>10. Opening(pool[m], k, out, in)
  BY <1>5, <1>7, <1>9, Zenon DEF Opening
<1>11. Connection(pool[m], k, out, in, prev_hash)
  BY <1>5, <1>6, <1>10, Zenon DEF Connection
<1>12. /\ prev_hash' = prev_hash /\ target' \in [Targets -> Int]
       /\ pool' = [pool EXCEPT ![m] = pool[m]] /\ DOMAIN pool[m] = DOMAIN Processor
  BY <1>3, Of, Zenon
<1> QED
  BY <1>4, <1>5, <1>8, <1>11, <1>12, OneConnection, Zenon

\* The miner is refused.
LEMMA RefusalTaken ==
    ASSUME IInv, NEW m \in Miners, MinerReceives(m), New(pool[m], miner[m]),
           incoming[m] = <<OpenError(0)>>, outgoing[m] = <<>>
    PROVE  IInv'
<1> DEFINE n == miner[m]
           msg == Head(incoming[m])
           k == [n EXCEPT !.requests = @ \ {msg.req_id}]
<1>1. msg.type = "OpenMiningChannelError"
  BY MessageTypes
<1>2. visit_open_mining_channel_error(m, msg)
  BY <1>1, Zenon DEF MinerReceives
<1>3. /\ prev_hash' = prev_hash /\ pool' = pool /\ target' = target /\ outgoing' = outgoing
      /\ incoming' = [incoming EXCEPT ![m] = Tail(@)]
  BY <1>2, Zenon DEF MinerReceives, visit_open_mining_channel_error
<1>4. miner' = [miner EXCEPT ![m] = k]
  BY <1>2, Of, Zenon DEF visit_open_mining_channel_error
<1>5. /\ DOMAIN k = DOMAIN Miner(m, 0)
      /\ k.diff_1_target = n.diff_1_target /\ k.curr_diff_target = n.curr_diff_target
      /\ k.connected = n.connected /\ k.channel = n.channel /\ k.bug = n.bug
      /\ k.jobs = n.jobs /\ k.prev_hash = n.prev_hash /\ k.mine_proc = n.mine_proc
  BY Of, Shapes
<1>6. /\ n.bug = FALSE /\ n.diff_1_target \in Nat /\ n.curr_diff_target \in Targets
      /\ pool[m].bug = FALSE
  BY Of, Zenon DEF Connection
<1>7. PICK in \in Seq(ToMiner) : in = <<>>
  BY NoMessages, Zenon
<1>8. incoming' = [incoming EXCEPT ![m] = in] /\ outgoing' = [outgoing EXCEPT ![m] = outgoing[m]]
  <2>1. Tail(incoming[m]) = in
    BY <1>7
  <2> QED
    BY <1>3, <2>1, Of, Zenon
<1> HIDE DEF k
<1>9. New(pool[m], k)
  BY <1>5, Zenon DEF New
<1>10. Opening(pool[m], k, outgoing[m], in)
  BY <1>7, <1>9, Zenon DEF Opening
<1>11. Connection(pool[m], k, outgoing[m], in, prev_hash)
  BY <1>5, <1>6, <1>10, Zenon DEF Connection
<1>12. /\ prev_hash' = prev_hash /\ target' \in [Targets -> Int]
       /\ pool' = [pool EXCEPT ![m] = pool[m]] /\ DOMAIN pool[m] = DOMAIN Processor
       /\ outgoing[m] \in Seq(ToPool)
  BY <1>3, Of, Zenon
<1> QED
  BY <1>4, <1>5, <1>8, <1>11, <1>12, OneConnection, Zenon

\* The miner has its channel, with a target of its own.
LEMMA ChannelTaken ==
    ASSUME IInv, NEW m \in Miners, MinerReceives(m), incoming[m] # <<>>, miner[m].connected,
           Opened(pool[m], miner[m], outgoing[m], incoming[m], prev_hash),
           incoming[m][1].type = "OpenStandardMiningChannelSuccess",
           incoming[m][1].req_id \in miner[m].requests, ~miner[m].channel
    PROVE  IInv'
<1> DEFINE n == miner[m]
           h == incoming[m][1]
           r == Tail(incoming[m])
           k == [n EXCEPT !.requests = @ \ {h.req_id}, !.channel = TRUE, !.curr_diff_target = m]
<1>1. /\ h = Head(incoming[m]) /\ h \in ToMiner /\ r \in Seq(ToMiner) /\ Shorter(incoming[m], r)
  BY Of, Lengths
<1>2. visit_open_success(m, h)
  BY <1>1, Zenon DEF MinerReceives
<1>3. /\ prev_hash' = prev_hash /\ pool' = pool /\ outgoing' = outgoing
      /\ incoming' = [incoming EXCEPT ![m] = r]
      /\ target' = [target EXCEPT ![m] = h.target]
  BY <1>2, Zenon DEF MinerReceives, visit_open_success
<1>4. miner' = [miner EXCEPT ![m] = k]
  BY <1>2, Of, ZenonT(30) DEF visit_open_success
<1>5. h.target \in Int
  BY <1>1, MinerMessage, Zenon
<1>6. /\ DOMAIN k = DOMAIN Miner(m, 0)
      /\ k.diff_1_target = n.diff_1_target /\ k.curr_diff_target = m
      /\ k.connected = n.connected /\ k.channel = TRUE /\ k.bug = n.bug
      /\ k.jobs = n.jobs /\ k.prev_hash = n.prev_hash /\ k.mine_proc = n.mine_proc
  <2>1. DOMAIN n = DOMAIN Miner(m, 0)
    BY Of, Zenon
  <2> HIDE DEF n, h
  <2> QED
    BY <2>1, Shapes, Zenon
<1>7. /\ n.bug = FALSE /\ n.diff_1_target \in Nat /\ pool[m].bug = FALSE
      /\ prev_hash \in Nat /\ Len(r) \in Nat
  <2>1. Len(r) \in Nat
    BY <1>1, Lengths, Zenon
  <2>2. Connection(pool[m], n, outgoing[m], incoming[m], prev_hash) /\ prev_hash \in Nat
    BY Of, Zenon
  <2> QED
    BY <2>1, <2>2, Zenon DEF Connection
<1>8. ~IsBlock(h) /\ ~IsJob(h) /\ h.type # "SetTarget"
  BY Zenon DEF IsBlock, IsJob
<1> HIDE DEF k, r
<1>9. \A uid : contains(k, uid) <=> contains(n, uid)
  BY <1>6, Zenon DEF contains
<1>10. Taken(n, k, h)
  BY <1>6, <1>8, <1>9, Zenon DEF Taken
<1>11. Opened(pool[m], k, outgoing[m], r, prev_hash)
  BY <1>1, <1>7, <1>10, MessageTaken, Zenon
<1>12. Connection(pool[m], k, outgoing[m], r, prev_hash)
  BY <1>6, <1>7, <1>11, Zenon DEF Connection, Targets
<1>13. /\ prev_hash' = prev_hash /\ target' \in [Targets -> Int]
       /\ pool' = [pool EXCEPT ![m] = pool[m]] /\ DOMAIN pool[m] = DOMAIN Processor
       /\ outgoing' = [outgoing EXCEPT ![m] = outgoing[m]] /\ outgoing[m] \in Seq(ToPool)
  BY <1>3, <1>5, Of, Zenon
<1> QED
  BY <1>1, <1>3, <1>4, <1>6, <1>12, <1>13, OneConnection, Zenon

\* The miner takes a message of its channel.
LEMMA ChannelMsgTaken ==
    ASSUME IInv, NEW m \in Miners, MinerReceives(m), incoming[m] # <<>>, miner[m].connected,
           Opened(pool[m], miner[m], outgoing[m], incoming[m], prev_hash),
           OfChannel(incoming[m][1]), miner[m].channel
    PROVE  IInv'
<1> DEFINE n == miner[m]
           h == incoming[m][1]
           r == Tail(incoming[m])
<1>1. /\ h = Head(incoming[m]) /\ h \in ToMiner /\ r \in Seq(ToMiner) /\ Shorter(incoming[m], r)
      /\ Len(incoming[m]) \in Nat /\ Len(incoming[m]) > 0
  BY Of, Lengths
<1>2. ChannelMsg(m, h)
  BY <1>1, Zenon DEF MinerReceives, OfChannel
<1>3. /\ prev_hash' = prev_hash /\ pool' = pool /\ outgoing' = outgoing /\ target' = target
      /\ incoming' = [incoming EXCEPT ![m] = r]
  BY <1>2, Zenon DEF MinerReceives, ChannelMsg
<1>4. Listening(m, n, h)
  BY <1>1, Of, Zenon DEF Listening, Connection
<1>5. IsBlock(h) => contains(n, h.job_id)
  <2>1. 1 \in 1 .. Len(incoming[m]) /\ \A i \in 1 .. 1 : i = 1
    BY <1>1
  <2>2. IsBlock(h) => Announced(n, incoming[m], h.job_id, 1)
    BY <2>1, Zenon DEF Opened, Prepared
  <2>3. IsBlock(h) => ~IsJob(h)
    BY ZenonT(30) DEF IsBlock, IsJob
  <2> QED
    BY <2>1, <2>2, <2>3, Zenon DEF Announced
<1>6. IsJob(h) => ~contains(n, h.job_id)
  <2>1. 1 \in 1 .. Len(incoming[m])
    BY <1>1
  <2> QED
    BY <2>1, Zenon DEF Opened, Distinct
<1>7. PICK k : miner' = [miner EXCEPT ![m] = k] /\ Took(n, k, h)
  <2>1. CASE h.type = "SetTarget"
    <3>1. miner' = [miner EXCEPT ![m] = visit_set_target(n, h)]
      BY <1>2, <2>1, Zenon DEF ChannelMsg
    <3> QED
      BY <1>4, <2>1, <3>1, TargetTook, Zenon
  <2>2. CASE h.type = "SetNewPrevHash"
    <3>1. miner' = [miner EXCEPT ![m] = visit_set_new_prev_hash(n, h)]
      BY <1>2, <2>2, Zenon DEF ChannelMsg
    <3>2. IsBlock(h)
      BY <2>2, Zenon DEF IsBlock
    <3> QED
      BY <1>4, <1>5, <3>1, <3>2, BlockTook, Zenon
  <2>3. CASE h.type = "NewMiningJob"
    <3>1. miner' = [miner EXCEPT ![m] = visit_new_mining_job(n, h)]
      BY <1>2, <2>3, Zenon DEF ChannelMsg
    <3>2. IsJob(h)
      BY <2>3, Zenon DEF IsJob
    <3> QED
      BY <1>4, <1>6, <3>1, <3>2, JobTook, Zenon
  <2>4. CASE h.type \notin {"SetTarget", "SetNewPrevHash", "NewMiningJob"}
    <3>1. miner' = [miner EXCEPT ![m] = visit_submit_shares_reply(n, h)]
      BY <1>2, <2>4, ZenonT(30) DEF ChannelMsg
    <3>2. ~IsBlock(h) /\ ~IsJob(h) /\ h.type # "SetTarget"
      BY <2>4, Zenon DEF IsBlock, IsJob
    <3> QED
      BY <1>4, <3>1, <3>2, ReplyTook, Zenon
  <2> QED
    BY <2>1, <2>2, <2>3, <2>4, Zenon
<1>8. /\ n.diff_1_target \in Nat /\ pool[m].bug = FALSE
      /\ prev_hash \in Nat /\ Len(r) \in Nat
  <2>1. Len(r) \in Nat
    BY <1>1, Lengths, Zenon
  <2>2. Connection(pool[m], n, outgoing[m], incoming[m], prev_hash) /\ prev_hash \in Nat
    BY Of, Zenon
  <2> QED
    BY <2>1, <2>2, Zenon DEF Connection
<1> HIDE DEF r
<1>9. Opened(pool[m], k, outgoing[m], r, prev_hash)
  <2>1. Taken(n, k, h)
    BY <1>7, Zenon DEF Took
  <2> QED
    BY <1>1, <1>8, <2>1, MessageTaken, Zenon
<1>10. /\ DOMAIN k = DOMAIN Miner(m, 0) /\ k.bug = FALSE
       /\ k.diff_1_target = n.diff_1_target /\ k.curr_diff_target \in Targets
  BY <1>7, Of, Zenon DEF Took
<1>11. Connection(pool[m], k, outgoing[m], r, prev_hash)
  BY <1>8, <1>9, <1>10, Zenon DEF Connection
<1>12. /\ prev_hash' = prev_hash /\ target' \in [Targets -> Int]
       /\ pool' = [pool EXCEPT ![m] = pool[m]] /\ DOMAIN pool[m] = DOMAIN Processor
       /\ outgoing' = [outgoing EXCEPT ![m] = outgoing[m]] /\ outgoing[m] \in Seq(ToPool)
  BY <1>3, Of, Zenon
<1> QED
  BY <1>1, <1>3, <1>7, <1>10, <1>11, <1>12, OneConnection, Zenon

\* The miner takes a message.
LEMMA MinerHolds ==
    ASSUME IInv, NEW m \in Miners, MinerReceives(m)
    PROVE  IInv'
<1>1. miner[m].connected /\ incoming[m] # <<>>
  BY Zenon DEF MinerReceives
<1>2. Len(incoming[m]) \in Nat /\ Len(incoming[m]) > 0
  BY <1>1, Of, Lengths, Zenon
<1>3. \/ /\ incoming[m] = <<SetupConnectionSuccess>> /\ outgoing[m] = <<>>
         /\ New(pool[m], miner[m]) /\ miner[m].next_req_id = 0
      \/ /\ incoming[m] = <<OpenError(0)>> /\ outgoing[m] = <<>> /\ New(pool[m], miner[m])
      \/ /\ Opened(pool[m], miner[m], outgoing[m], incoming[m], prev_hash) /\ ~miner[m].channel
         /\ incoming[m][1].type = "OpenStandardMiningChannelSuccess"
         /\ incoming[m][1].req_id \in miner[m].requests
      \/ /\ Opened(pool[m], miner[m], outgoing[m], incoming[m], prev_hash)
         /\ miner[m].channel /\ OfChannel(incoming[m][1])
  BY <1>1, <1>2, Of, MinerHead, Zenon
<1> QED
  BY <1>1, <1>3, SetupTaken, RefusalTaken, ChannelTaken, ChannelMsgTaken, Zenon

-----------------------------------------------------------------------------
(* The theorems                                                            *)

\* Every connection of the simulation is opening, open or gone, and the messages
\* on their way to a miner lead from its state to that of its session, after
\* every process step of pool and miners.
THEOREM SimulationInvariant == Spec => []IInv
<1>1. Init => IInv
  BY InitHolds, Zenon
<1>2. IInv /\ [Next]_vars => IInv'
  <2> SUFFICES ASSUME IInv, [Next]_vars PROVE IInv'
    BY Zenon
  <2>1. CASE UNCHANGED vars
    BY <2>1, Zenon DEF vars, IInv, TypeOK
  <2>2. CASE pow_update
    BY <2>2, BlockHolds, Zenon
  <2>3. ASSUME NEW m \in Miners, disconnect(m) PROVE IInv'
    BY <2>3, DisconnectHolds, Zenon
  <2>4. ASSUME NEW m \in Miners, PoolReceives(m) PROVE IInv'
    BY <2>4, PoolHolds, Zenon
  <2>5. ASSUME NEW m \in Miners, MinerReceives(m) PROVE IInv'
    BY <2>5, MinerHolds, Zenon
  <2>6. ASSUME NEW m \in Miners, vardiff_loop(m) PROVE IInv'
    BY <2>6, VardiffHolds, Zenon
  <2>7. ASSUME NEW m \in Miners, mine(m) PROVE IInv'
    BY <2>7, MineHolds, Zenon
  <2> QED
    BY <2>1, <2>2, <2>3, <2>4, <2>5, <2>6, <2>7, Zenon DEF Next
<1> QED
  BY <1>1, <1>2, PTL DEF Spec

\* No assertion of the simulator fails: add_future_job and take_future_job find
\* what they expect, the miner's registry has no job twice, and shares meet a
\* running session.
THEOREM AssertionsHold == Spec => []NoBug
<1>1. IInv => NoBug
  BY Zenon DEF IInv, Connection, NoBug
<1> QED
  BY <1>1, SimulationInvariant, PTL

\* What process_submit decides about a share is whether it was for the current
\* block, and it never sees a job that it does not know.
THEOREM StaleCorrect == Spec => []StaleMeansOldBlock
<1>1. IInv => StaleMeansOldBlock
  <2> SUFFICES ASSUME IInv, NEW m \in Miners, NEW i \in DOMAIN outgoing[m],
                      outgoing[m][i].type = "SubmitSharesStandard"
               PROVE  /\ contains(pool[m], outgoing[m][i].job_id)
                            <=> (outgoing[m][i].block = prev_hash)
                      /\ \/ contains(pool[m], outgoing[m][i].job_id)
                         \/ contains_invalid(pool[m], outgoing[m][i].job_id)
    BY Zenon DEF StaleMeansOldBlock
  <2>1. i \in 1 .. Len(outgoing[m]) /\ Len(outgoing[m]) \in Nat
    BY Of
  <2>2. outgoing[m] # <<>>
    BY <2>1
  <2>3. outgoing[m] # <<SetupConnection>>
    BY <2>1, PoolMessageTypes
  <2>4. outgoing[m] # <<Open(0, miner[m].diff_1_target)>>
    BY <2>1, PoolMessageTypes
  <2>5. Opened(pool[m], miner[m], outgoing[m], incoming[m], prev_hash)
    BY <2>2, <2>3, <2>4, Of, Zenon DEF Connection, Opening, Gone
  <2>6. Sound(pool[m], outgoing[m][i].job_id, outgoing[m][i].block, prev_hash)
    BY <2>1, <2>5, Zenon DEF Opened, Working
  <2> QED
    BY <2>6, Zenon DEF Sound, Known
<1> QED
  BY <1>1, SimulationInvariant, PTL

\* A miner that has received everything works for the current block, on a job
\* whose shares the pool accepts, and knows the job of the next block
\* (on_new_block, _on_vardiff_change and the miner's visitors).
THEOREM UpToDateCorrect == Spec => []QuietMinersUpToDate
<1>1. IInv => QuietMinersUpToDate
  <2> SUFFICES ASSUME IInv, NEW m \in Miners, pool[m].connected, pool[m].channel,
                      incoming[m] = <<>>
               PROVE  /\ miner[m].mine_proc.block = prev_hash
                      /\ contains(pool[m], miner[m].mine_proc.uid)
                      /\ miner[m].mine_proc.uid # pool[m].future_job.uid
                      /\ contains(miner[m], pool[m].future_job.uid)
    BY Zenon DEF QuietMinersUpToDate
  <2>1. Opened(pool[m], miner[m], outgoing[m], incoming[m], prev_hash)
    BY Of, BusyIsOpened, Zenon
  <2>2. /\ ~\E i \in 1 .. Len(incoming[m]) : TRUE
        /\ ~(Len(incoming[m]) > 0)
    OBVIOUS
  <2>3. miner[m].mine_proc.block = prev_hash
    BY <2>1, <2>2, Zenon DEF Opened, Current
  <2>4. miner[m].mine_proc # Idle
    <3>1. prev_hash # -1
      BY Of
    <3>2. Idle.block = -1
      BY DEF Idle
    <3> QED
      BY <2>3, <3>1, <3>2, Zenon
  <2>5. Sound(pool[m], miner[m].mine_proc.uid, prev_hash, prev_hash)
    BY <2>1, <2>3, <2>4, Zenon DEF Opened, Working
  <2>6. contains(miner[m], pool[m].future_job.uid)
    BY <2>1, <2>2, Zenon DEF Opened, Prepared, Announced
  <2> QED
    BY <2>3, <2>5, <2>6, Zenon DEF Sound
<1> QED
  BY <1>1, SimulationInvariant, PTL

=============================================================================
