# TLA+ specifications of the Braiins Stratum stack

A verification development for `braiins-open`: TLA+ models of the stateful parts
of the code, model-checked with TLC on small instances, and theorems about them
proved with TLAPS for every value of the constants. `PROJECT.json` records, for
every definition that models code, the lines it models; paths there and here are
relative to the repository, with its code under `src/`.

## 1. The system

`stratum-proxy` sits between a miner that speaks Stratum V2 and a pool that
speaks Stratum V1. It accepts TCP connections, optionally reads a PROXY header,
optionally runs a Noise handshake, connects upstream and translates messages in
both directions until one side fails. `noise-proxy` only removes the Noise
encryption. The key tool writes the keys and certificates both of them load. The
crates under `protocols/` and `utils-rs/` hold the codecs, the handshake and the
task infrastructure, and a Python simulator models V1 and V2 mining economics.

| Part | State | Operations | Hard about it |
|---|---|---|---|
| Translation (`stratum-proxy/src/translation.rs`, `util.rs`) | handshake state, request map and ids, extranonce, channel, target, deferred job, job map, share queue, two outgoing queues | one handler per message and per kind of answer | answers in any order; bounded queues that refuse frames in the middle of a handler; errors that end the session, errors that are swallowed, panics |
| Connection loop (`server.rs`, `ConnTranslation`) | two connections, two send tasks | read a frame, dispatch it, time out | send tasks run concurrently with the handlers |
| Connection setup and PROXY protocol (`server.rs`, `wire/src/proxy*`) | read buffer, acceptor, upstream connection | accept, decode, connect, encode | one buffer passes through three readers; input comes in pieces |
| V2 framing and messages (`stratum/src/v2/{framing,messages,serialization,types}*`) | partial frame | encode, decode | incremental decoding, length limits |
| Server and termination (`server.rs`, `server/controller.rs`) | listener, client counter, waker, tripwire, notifier | accept, rebind, stop, poll, drop of a connection | counter and waker are two separate shared variables |
| Halt handle (`async-utils/src/halthandle.rs`) | message channel of tasks, tripwire, notification, timer | `spawn`, `ready`, `halt`, `join` | the calls race with each other and with panicking tasks |
| Noise (`stratum/src/v2/noise*`) | handshake step, codec mode | handshake steps, switch to the transport | the codec changes between two messages that may sit in one buffer |
| Noise proxy (`noise-proxy/src`) | two relays, tripwire, metrics | connect, relay, close | half-closed connections and shutdown |
| Certificates and key tool (`noise/auth*`, `stratum/src/keytool.rs`, front ends) | files, clock | generate, sign, load | commands that die half way; mixtures of files; 32-bit time |
| Simulator (`stratum/sim`) | pool, miners, jobs, targets, messages in flight | message handlers, processes | shared mutable objects; blocks and vardiff while messages are in flight |
| Wire client, V1 messages, async utilities, logging, metrics, code generation, hashing | | | see section 5 |

## 2. Modules

| Module | Models | About |
|---|---|---|
| `BoundedChannel` | the `mpsc` queues to the send tasks | operators on a queue that is drained concurrently |
| `Translation` | `V2ToV1Translation` with both peers and both send tasks | one action per handler |
| `ShareFifo` | - | what the share queue promises to the miner |
| `ProxyHeader` | both versions of the PROXY header | encoders and incremental decoders |
| `V2Wire` | V2 messages, serializer, frame header, frame decoder | operators and the decoder's steps |
| `Inbound` | acceptor, upstream connection, framed stream | composes `ProxyHeader` and `V2Wire` |
| `ProxyServer` | `ProxyServer::main_loop`, `Controller`, `ClientCounter`, the drop of `ProxyConnection` | one action per access to a shared variable |
| `HaltHandle` | `HaltHandle`, `Tripwire`, `Trigger` | one action per call or await |
| `Certificates` | `auth.rs`, `auth/formats.rs` | certificates, signatures, validity |
| `Keytool` | commands of the key tool, loading of credentials | one action per command, per server start, per tick |
| `NoiseHandshake` | `Initiator`, `Responder`, negotiation, transport cipher | the step functions |
| `NoiseProxy` | `NoiseProxyConnection` with a client and an upstream | composes `NoiseHandshake` and `Certificates` |
| `MiningSimulation` | V2 pool and miners of the simulator | one action per process step and message |
| `MC*` | - | instances for TLC |
| `TranslationProofs`, `ShareProofs`, `ProxyServerProofs`, `HaltHandleProofs`, `KeytoolProofs`, `NoiseHandshakeProofs`, `NoiseProxyProofs`, `MiningSimulationProofs` | - | theorems and proofs |

`Translation` composes three components: the translation itself, its two bounded
channels (`BoundedChannel`), and the peers, which are the nondeterminism of its
inputs. It is shown to implement `ShareFifo` under the mapping `Fifo` at its end.

### Translation and the code

Each variable bears the name of the field it stands for. `session` is `"open"`
while `ConnTranslation::run` loops, `"closed"` after a handler returned `Err`,
`"panicked"` after an `expect` or `panic!`; the process installs a panic handler
that exits (`ii_async_utils::setup_panic_handling`), so no step follows a panic.
`used` counts the inputs; `lost`, `verdicts` and `cleaned` are history variables
for properties and guard nothing.

A handler is one action, because `run` awaits it before it looks at the next
message. Inside it, every `submit_v1_*`/`submit_v2_message` is a `try_send` on a
queue that a send task drains meanwhile. `Outcomes(ch, n)` gives the numbers of
frames that may be accepted out of `n` consecutive ones, and the handler goes on
from there as the code does: `?` ends the session, `.ok()` and logged errors go
on, state set before the failing send stays set. `BoundedChannel` explains why
taking frames as late as possible loses no behaviour. `v2_send_task` is needed
only for an orderly client, which reacts to frames it has received.

Answers name their request by its place in the log of sent requests; the
upstream may answer in any order, each request at most once, truthfully, with an
error, or with a result that does not parse. A request that `v1_tx` refused stays
in the request map, as in the code.

Data is reduced to numbers: the n-th share, job, difficulty and channel request
stand for their contents. Request and job ids keep their wrap-around
(`SeqIdSpace`, 2^32 in the code).

Two constants describe the peers. An orderly client (`OrderlyClient`) sends
SetupConnection, then OpenStandardMiningChannel after the success, then shares of
jobs it was sent. An orderly server (`OrderlyServer`) sends no
`mining.set_extranonce` before the subscribe result. Each run says what it
assumes; the theorems assume neither.

Abstractions to know of:
- a send task dies between two handlers, not in the middle of one;
- frames handed over by a handler before it panics are not recorded;
- reading and parsing is the arrival of a message, or `run_ends`;
- `mining.set_version_mask` and unknown messages change no state and have no
  action;
- metrics and log messages are left out.

### Inbound, ProxyHeader, V2Wire and the code

The peer's bytes are a sequence that the network hands over in pieces of any size
(`AcceptorReads`,
`FramedReads`), and that may end anywhere. One buffer is filled by the acceptor
(`accept_auto` and the two codecs), and passes to the framed stream of the V2
connection, as in `ProxyConnection::do_handle`; in between, the upstream
connection is made, and gets a header of its own. A unit of the stream stands for
bytes that no decoder looks into (an address, a word of the text header); where
the code looks at single bytes a unit is a byte.

`V2Wire` has the fields of every V2 message. The serializer writes numerals of
base `Base`, whose widths keep the order of the widths in the code, sized fields
with their limits, and frames with their header; the deserializer and the frame
decoder are translated separately, not defined as inverses.

### NoiseProxy, NoiseHandshake, Certificates, Keytool and the code

Cryptography is what it promises: a message written under one handshake state can
be read under an equal one only, transport messages only in their order, and a
signature is the text with the key that signed it. Certificates, their 32-bit
times and the checks on them are modelled as they are.

The handshake is the function `step` of either side, driven as the code drives
it, with the timeouts it has. Messages are whole, or one is cut short because the
client left. Several may be read at once, so that transport messages can be in a
buffer before the codec has its keys. The connection task, both relays, the
tripwire and the metric of each exit are the actions of `NoiseProxy`. A relay
awaits each send outside of `take_until` (`lib.rs:216`, `228`, `242`): it may
return at once, or leave the relay in `relay.sending` until the peer reads
(`SendReturns`) or has gone, and in the meantime the relay sees neither the
tripwire nor the end of its stream.

`Keytool` has the commands with the files they write. A command may die after it
created a file and before it wrote it, and between its two files; a certificate
counts as issued when it has been written; owners remove files; servers of all kinds start from any mixture of files.

### MiningSimulation and the code

The processes of the simulation are the actions, a handler runs to its next
`yield`. Python's references are kept: jobs and sessions refer to `Target`
objects, and the variable `target` is the heap these live in. Simulated time is
left out, so that a timeout may expire at any moment. A miner keeps the
`share_diff` it read when it began on a job. Targets are small naturals that
their factors divide exactly, where the code divides floating-point numbers with
`//`. Every session has its vardiff loop, because both simulations construct the
pool with `enable_vardiff`.

### ProxyServer and the code

The counter is a Relaxed atomic, the waker sits behind a mutex, and nothing orders
one with the other. So `poll` is `poll_load` then `poll_store_waker`, and
`decrease` is `decrease_sub`, `decrease_load`, `decrease_wake`, and these
interleave freely. How a connection ends does not matter; its drop does.
`main_loop` calls `wait_for_termination` without a timeout, so its timeout branch
has no action.

### HaltHandle and the code

`join` is a fold over a stream in a `select!` with a timer that `halt` arms. The
fold takes one message at a time (`join_collect`) and awaits one handle at a time
(`join_await`). `halt` is two steps under a mutex that admits only one caller.
Signal handlers call `halt` and are no separate action.

## 3. Runs

Passing runs:

| Run | Question | Assumes |
|---|---|---|
| `mining` | Do the miner's jobs and targets and the share queue agree with the pool's while queues fill up, what happens when ids wrap around, and is a queued share answered? | orderly peers, fairness for `QueuedShareIsAnswered` |
| `any` | Does the share queue keep its promise whatever the peers send, and can repeated or premature messages produce an operational channel with something missing? | nothing |
| `opening` | Does a request to open get one answer, and work only after it, without a panic, in all orders of the answers it depends on, with failing send tasks, pings, reconnects, and does a channel not stay pending? | orderly peers, fairness for `PendingIsResolved` |
| `shutdown` | Does the server stop listening when told to, and does lazy termination wait for everyone? | fairness |
| `inbound` | Does every byte of a connection end up in the header, in what a failing decoder of the header ate, or in a message, however it is cut, is the header honoured and passed on, and do messages come out as they went in? | fairness for `Served` |
| `noise` | Do both ends agree, is only a genuine proxy served, are frames neither lost nor reordered, do the metrics tell the truth, and does the task end? | fairness and peers that read (`PeersRead`) for the two liveness properties |
| `credentials` | Who accepts which server when, whatever the files it was started with? | nothing |
| `simulator` | Do pool and miners agree on blocks, jobs and shares? | nothing |
| `join` | Does `join` return, and say the truth? | fairness |

Runs that end in a violation state what a comment of the code says and show that
the code does otherwise:

| Run | Statement in the code | What happens |
|---|---|---|
| `wakeup` | "Future completes as soon as client counter is decreased to 0" (`controller.rs:55`) | not if the last client leaves between load and waker store |
| `job_target` | "track per job difficulty target for correct accounting" (`pool.py:37`) | a turn of vardiff changes the one `Target` that all jobs and sessions refer to |
| `passed_on` | "If set to false, then if PROXY header is not present, stream is created and all data passed on" (`wire/src/proxy.rs:251`) | the decoder has consumed a line or block it could not make sense of, and the stream is created without it (240) |

Other disagreements met while modelling. The models do what the code does:

- `translation.rs:1341` "Connection can be setup only once": a second
  SetupConnection is answered with the error, then takes effect (1337 falls through).
- `translation.rs:657` takes an extranonce for a received subscribe result;
  `mining.set_extranonce` (1228) sets it, too, and the channel may be opened twice.
- `translation.rs:1226` "Changes are reflected after new mining job": shares of
  older jobs get the new extranonce size at once (1494).
- `translation.rs:1461` promises a SubmitSharesError; it is dropped if the
  outgoing queue is full (1535).
- An out-of-sequence OpenStandardMiningChannel gets an error at once and one more
  when it is aborted (`translation.rs:129` says "only once"); every caller of
  `abort_open_channel` ends the session, so the reopening that
  `translation.rs:467` expects cannot happen; a share that precedes every
  OpenStandardMiningChannel meets the `expect` of `translation.rs:1488`.
- `halthandle.rs:397` `join` "fails fast": only after all the tasks spawned
  earlier have ended (404).
- `wire/src/proxy/codec/v2/proto.rs:42` says that the addresses of a LOCAL header
  are to be discarded; the codec does not look at the command.
- `wire/src/proxy.rs:127` speaks of a timeout that `accept_auto` does not have;
  `proxy.rs:250` says that a header is required by default, and `Default` (112)
  does not require one.
- `stratum/src/v2/noise/negotiation.rs:54` says that the prologue is made of the
  initiator's and the responder's message; `step` builds it anew each time, and
  the initiator's message is in none of them (`NoiseHandshake.Prologue`). The
  parties agree all the same, on less than the comment says.
- `noise-proxy/src/lib.rs:216`, `228`, `242` await a send without looking at the
  tripwire: a connected peer that stops reading keeps the task alive after it was
  pulled. `SessionEnds` and `FramesArrive` are stated for peers that go on reading.
- `sim_primitives/stratum_v2/pool.py:273` accompanies a new target by a new job
  "to enforce difficulty change as soon as possible". Only the session whose
  vardiff changed it gets the job: the others share the `Target` and go on at the
  `share_diff` they read before (`miner.py:66`), until their next job. And the
  job that a miner got ahead of its first SetTarget refers to the target the
  miner made itself, also when the first block activates it. So no property
  says that a miner works at the pool's difficulty.
- `frontend.rs:77` of `stratum-proxy` announces `None` for missing files; it is an
  error (95).
- `framing.rs:53` calls a message type unique "within the extension_type
  namespace"; the dispatch (218) looks at the type only.

### Bounds

`Limit` bounds the inputs of each kind in `Translation` (see `MCTranslation`).
Two shares are the least that can overtake one another with a rejection in
between; two setups are a repetition. In `mining` four jobs meet three job ids:
one deferred, one overwritten, one clean, and one more than there are ids.
`any` leaves changes of the extranonce, reconnects, pings and the ends of the send
tasks to `opening` and to the proofs; with one change of the extranonce it passes
as well and takes longer (1,425,570 states).
`opening` has everything once, with two extranonce sizes for a change. `Cap = 3`
(11 in the code) lets a burst of up to three frames be refused at every position,
with a queue that was empty, partly filled or full before. Three connections or
tasks are two that race while a third remains; at most two accepts and two binds
fail (`MaxFailures`), which is what it takes to reach the rebind loop and to stay
in it.

`inbound`: six configurations, with headers of every kind, good and malformed,
and two bodies; every message with smallest, middle and largest values; all short
payloads of three messages, which is where decoding can go wrong. Bytes have four
values, so that every prefix can exceed its limit. `noise`: clients with every
order of algorithms, legacy ones, and certificates that hold, have expired, are
not valid yet, belong to another key or come from another authority; two frames
in a direction can be overtaken or lost one by one. `credentials`: three keys and
two certificates, one removed file, and a clock that ends where 32-bit time does,
with a duration that goes beyond. `simulator`: two miners, two blocks, so that a
share may be one or two blocks old, two solutions, by one miner or by both, so that
every sum has a second term, and one turn of vardiff beyond the first; the
constraint `FewEvents` keeps blocks, solutions and turns of vardiff together at
`MaxEvents` = 4. One of the miners may be refused.

Deadlock is not checked where sessions, servers, joins and simulations end.

### Fairness

- `Translation`: the pool answers the requests it was sent and sends a first
  difficulty. This is an assumption on the pool; without it the code can only
  wait for its timeout. No fairness is assumed of the miner.
- `ProxyServer`: the main task and the drops of connections are scheduled
  (tokio polls what was woken); clients leave in the end; a failing bind
  succeeds in the end, which the code assumes by retrying for ever.
- `HaltHandle`: `halt` finishes once begun, `join` is polled when it can
  progress, and a task that watches its tripwire ends when it fires. `Stubborn`
  tasks do not, and other tasks need never end.
- `Inbound`: bytes that have arrived are read, and so is the end of the stream; a
  task that can go on is polled; a connection attempt ends. These are steps of one
  task, so that one weak fairness condition says it. The peer need not send
  anything.
- `NoiseProxy`: the same for both ends and both relays; an upstream whose
  connection was closed by the proxy closes it, too; a client whose handshake
  failed leaves. That a peer reads is no fairness condition, but a premise of the
  two properties.

## 4. Proofs

Each theorem says `Spec => []P` for a property `P`, except `FifoImplemented` and
`NothingOverwritten`, which say `Spec => P` of a refinement and of an action
property. The runs check the same properties on small instances, except
`TypeOK`, `CounterMatches`, `NeverOverwritten` and the invariants `IInv`: these
are proved only. `TypeOK` and `CounterMatches` are parts of inductive invariants.

| Theorem | Property | Holds for every |
|---|---|---|
| `TypeCorrect`, `OrderCorrect`, `NoneForgotten` (`ShareProofs`) | `TypeOK`, `AnswersInOrder`, `NoShareForgotten` | capacity, id space of at least three, set of sizes, number of inputs, kind of peers |
| `FifoImplemented` (`ShareProofs`) | `ImplementsFifo` | the same |
| `QueueCorrect` (`ShareProofs`) | `QueueFrontAwaited` | the same |
| `OperationalCorrect`, `DetailsCorrect` (`ShareProofs`) | `OperationalIsReady`, `DetailsWhilePending` | the same |
| `CounterCorrect`, `NobodyAbandoned` (`ProxyServerProofs`) | `CounterMatches`, `NoClientAbandoned` | finite set of connections |
| `OkCorrect`, `TimeoutCorrect` (`HaltHandleProofs`) | `OkMeansAllFinished`, `TimeoutAfterHalt` | set of tasks |
| `NothingOverwritten`, `OnlyIssuedAccepted`, `IssuedAccepted` (`KeytoolProofs`) | `NeverOverwritten`, `AcceptedOnlyWhileIssued`, `AcceptedThroughout` | set of files and durations, number of keys and certificates, end of time |
| `NoiseInvariant` (`NoiseProxyProofs`) | `IInv` of `NoiseHandshakeProofs` | configuration of client and proxy, certificate, time of the client within 32 bits, number of frames |
| `HandshakeCorrect`, `FailureCorrect`, `AccountsCorrect`, `FramesCorrect` (`NoiseProxyProofs`) | `HandshakeSound`, `FailureHasReason`, `AccountsTrue`, `FramesConserved` | the same |
| `SimulationInvariant` (`MiningSimulationProofs`) | `IInv` of that module | set of miners, targets, vardiff factors, number of blocks, shares and turns of vardiff |
| `AssertionsHold`, `StaleCorrect`, `UpToDateCorrect` (`MiningSimulationProofs`) | `NoBug`, `StaleMeansOldBlock`, `QuietMinersUpToDate` | the same |

**Shares.** Most handlers have nothing to do with shares. `TranslationProofs`
shows of each of them that it keeps the types and is *calm*: it appends no answer
to a share, leaves the share queue and the count of shares alone, and forgets
nothing it lost. The two others are described by `SubmitStep` (a share waits at
the end of the queue, or is answered at once by a proxy whose queue is empty, or
goes unanswered) and `AnswerStep(k, p)` (the oldest `k` shares are answered in
order and the oldest `p >= k` leave the queue, `k = p` unless the session ends).
`ShareProofs` concludes that every step is one of the three (`NextStep`), and what
follows about shares needs no handler any more.

`AnswersInOrder` is not inductive: it says nothing about shares that are still
queued. `ShareOrder` adds that the queue is sorted, that everything answered is
older than everything queued, and that nothing is newer than the latest share.
`NoShareForgotten` is inductive together with `TypeOK`. For the refinement, a
calm step is a stutter or an `End`, a `SubmitStep` a `Submit`, an `AnswerStep` an
`Answer` or an `End`.

**Queue.** `QueueFrontAwaited` speaks of the front only, and what is at the front
was once in the middle. `QueueInv` says of every forwarded share in the queue
that it has an id of its own, that the last request with this id is the
`mining.submit` of a share, and that its handler is registered. Ids wrap around
without harm: a request whose id is still registered ends the process, so that
the ids of the queue are never taken over. An answer is about the last request
with its id; hence one to another method concerns no share, and one to a share
removes the id of the front only, or the session ends.

**Channel.** Every step ends the session, completes the opening, or keeps
(`ChannelStep`): it makes no channel operational, forgets nothing that was
negotiated, and makes no request for a channel that is not there. Both
properties of the channel are inductive for such steps.

**Server.** `NoClientAbandoned` is inductive together with `CounterMatches`,
because termination sees the clients only through the counter; cardinalities come
from `FiniteSetTheorems`.

**Halt handle.** `HandleInv` follows the handle of each task: it is in the message
channel, or is being awaited, or its task has finished, or the fold has failed;
handles of tasks spawned before `ready` stand in front of `Ready`. `HaltInv` adds
that the timer runs only after `halt`.

**Credentials.** `Provenance` says that every certificate, on disk, in a bundle
or in a server, belongs to a request in `issued`, that each request is truthful
about its certificate, and that a server started from a bundle holds the key of
its certificate. The cut of times to 32 bits is harmless downwards (`CutTime`): a
certificate never seems to end later than was asked for.

**Noise.** None of the four properties is inductive: they speak of one end, and
what it does next depends on what the other end has put on the wire. `InStep`
says how far the two parties are together. There are six phases (`Start`,
`Offered`, `Answered`, `Begun`, `Proved`, `Settled`), and in each of them the
stage of one party determines that of the other up to one handshake message.
`ServerStream` and `ClientStream` say what is unread at either end, in the codec,
its buffer and the network taken together: that handshake message if it is due,
then the frames sent and not yet read, numbered as the ciphers count them, then
at most the message a leaving client cut short. As it does not matter where the
codec ends and the network begins, a read, the switch of the codec and a frame
that arrives with the last handshake message need no cases of their own. `UpOK`,
`DrainOK` and `AccountsOK` carry this on to the upstream and the metrics.
`NoiseHandshakeProofs` has the invariant and the steps up to the switch,
`NoiseProxyProofs` the others and the theorems.

**Simulator.** The properties speak of a miner with an empty queue, or of a share
at its arrival; what makes them true is what is in flight. A connection is
`Opening` (the two take turns), `Gone` (nothing is in flight) or `Opened`. For an
open one, the messages read from the miner's state onwards lead to the state of
its session: the answer to the open request comes first (`Ordered`), no job
arrives twice (`Distinct`), a job is announced before the block that activates it
(`Prepared`), blocks come in order and the current one last (`Current`), and
whatever the miner works on, has submitted or will be told to work on is valid for
the session exactly if it is for the current block (`Working`). Each handler is described
once by what it does to a session, a miner or a queue, and the steps follow from
these lemmas.

**Assumptions.** Those named in the modules, which TLC evaluates on each run:
`CapAssumption`, `TranslationAssumption`, `ProxyServerAssumption`,
`HaltHandleAssumption`, `TimeAssumption`, `KeytoolAssumption`,
`CasesAssumption`, `SimulationAssumption`.
`SeqIdSpace >= 3` makes the ids that one handler takes differ from each other.
The clock of a noise client shows a time that 32 bits can hold, as it does until
2106. Factors of vardiff are positive, because the code clamps them to
[1/4, 4].

**Only model-checked:**

- all liveness properties: the prover handles neither fairness nor `ENABLED` here;
- `VerdictsFaithful`, `JobsActivated`, `LatestJobAnnounced`, `JobsFresh`,
  `TargetInSync`: they hold for orderly peers or until ids wrap around, and their
  proofs would have to follow every job and request through the queues;
- `WorkAfterOpen`, `OpenAnsweredOnce`, `NoPanic`, `JobIdsExhausted`: stated for
  orderly peers, which the invariants proved here do not know of; `NoPanic` also
  needs request ids that do not run out;
- the properties of `inbound`: the codecs are recursive over their input, and the
  prover has no induction over data;
- `BooksAgree` of the simulator: it is about sums over sets of messages, whose
  definition is recursive, too.

## 5. Not modelled

- *V1 messages and framing*: conversions between JSON and records, without state.
- *Wire client*: its pauses between attempts. The proxy makes one client for each
  connection and one attempt with it, which is part of `Inbound`.
- *Handshake inside `stratum-proxy`*: the same responder and codec as in
  `NoiseProxy`; `Inbound` is the connection setup without it.
- *Length prefix of noise messages* and its limit of 65519 bytes, which the codec
  asserts: messages are whole or cut.
- *Short writes* of the upstream header (`proxy.rs:387` writes once).
- *A client that sends half a message to the noise proxy and leaves*: the relay
  meets the same error again and again (`Spinning`); `SessionEnds` is stated for
  clients that leave between two messages, or for a pulled tripwire.
- *The acceptor without a timeout* of a connection that never sends a header: it
  waits as long as the peer does, and liveness is stated for peers that send or
  leave. The noise proxy's tasks are not registered with its halt handle
  (`lib.rs:123`), so that no property speaks of waiting for them.
- *Simulator*: V1 pool and miners share `Pool` and `Miner` with the V2 ones; the
  simulated proxy is a simpler translation than the one of `stratum-proxy`;
  meters, latencies and plots are statistics over simulated time. A difficulty
  or target of zero and a miner that reconnects are outside the instances.
- *Async utilities*: helpers around tokio's timers, and the panic hook; where they
  matter, a timeout or the end of the process is a step.
- *`halthandle02.rs`, `halthandle03.rs`*: near copies of `halthandle.rs`.
- *`unvariant`*: code generation at compile time.
- *`coins/bitcoin`*: 256-bit arithmetic and hashing, pure functions.
- *Logging, metrics other than those of the noise proxy, version information,
  command lines*: no influence on the protocols.

## 6. Running

    tlc -workers 2 -config MCTranslation_any.cfg MCTranslation
    tlapm NoiseProxyProofs.tla

Every run takes one to three minutes on two cores, or less. `ShareProofs`,
`MiningSimulationProofs`, `NoiseHandshakeProofs` and `NoiseProxyProofs` take five
to ten minutes each, the other proofs a minute or two. A leaf cites `Zenon` where
that prover is enough, which keeps the larger modules quick; leaves with
arithmetic are left to the SMT solver, and `SMTT(30)` or `ZenonT(30)` allows the
slow ones more time.
