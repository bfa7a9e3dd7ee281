----------------------------- MODULE NoiseProxy -----------------------------
(***************************************************************************)
(* One connection through the noise proxy (noise-proxy/src/lib.rs): a       *)
(* client, initiator of the handshake; the task the main loop spawns for    *)
(* the connection, its responder; and the upstream server behind it, to     *)
(* which frames are passed in the clear.                                    *)
(*                                                                         *)
(* A direction of TCP is a sequence of whole noise messages; a message cut  *)
(* short by a client that leaves is the last element and never completes.   *)
(* Any number of messages may be read at once, so that those of the         *)
(* transport may be in a buffer before the codec knows its keys.            *)
(***************************************************************************)
EXTENDS NoiseHandshake

CONSTANTS
    Cases,       \* what a run starts from, see Init
    MaxFrames    \* the most frames that the client sends, and the upstream

(***************************************************************************)
(* The list of algorithms is one of EncryptionAlgorithm values, the         *)
(* authority a public key, and a signature one that was made.  The client's *)
(* clock shows a time that u32 timestamps can hold, as it does until 2106.  *)
(***************************************************************************)
ASSUME CasesAssumption ==
    /\ MaxFrames \in Nat
    /\ \A case \in Cases :
          LET cert == case.ctx.certificate IN
          /\ {case.legacy, case.header} \subseteq BOOLEAN
          /\ case.algorithms \in Seq(EncryptionAlgorithm)
          /\ case.frames \in Nat
          /\ case.authority = Pub(case.authority.public)
          /\ case.now \in 0 .. (TIME_MOD - 1)
          /\ cert.signed_part_header.valid_from \in Nat
          /\ cert.signed_part_header.not_valid_after \in Nat
          /\ cert.signature = sign_with(cert.signature.text, cert.signature.by)

Sides == {"client", "server"}
Peer(e) == IF e = "client" THEN "server" ELSE "client"
Stages == {"proxy", "early", "downstream_noise", "upstream_noise", "ok"}

VARIABLES
    cfg,       \* [legacy, algorithms, authority, now: the client's; ctx, header: the
               \* proxy's; frames: how many either end sends]
    ep,        \* the two ends of the noise stream
    wire,      \* messages on their way to each side
    closed,    \* which side has closed its socket
    conn,      \* where NoiseProxyConnection::handle is
    relay,     \* which of its two loops still run, and which wait for a send
    up,        \* the upstream connection
    sent,      \* frames sent so far by the client and by the upstream
    got,       \* frames the client received
    listening, \* the main loop accepts connections
    trip,      \* the tripwire has been pulled
    opened, closes   \* the metrics

vars == <<cfg, ep, wire, closed, conn, relay, up, sent, got, listening, trip, opened, closes>>

ProxyHeader == 0   \* among the frames, which are numbered from 1

Cut == [type |-> "cut"]
Complete(msg) == msg.type # "cut"

\* A party before the first step of its handshake.
NewEndpoint == [pc |-> "step", stage |-> 0, state |-> NoHandshakeState, in_msg |-> None,
                buf |-> <<>>, eof |-> FALSE, tx |-> 0, rx |-> 0, timeout |-> FALSE]

Init ==
    /\ cfg \in Cases /\ cfg.frames <= MaxFrames
    /\ ep = [e \in Sides |-> NewEndpoint]
    /\ wire = [e \in Sides |-> <<>>]
    /\ closed = [e \in Sides |-> FALSE]
    /\ conn = "none"
    /\ relay = [down_to_up |-> FALSE, up_to_down |-> FALSE, sending |-> {}]
    /\ up = [got |-> <<>>, queue |-> <<>>, open |-> FALSE, told |-> FALSE, early |-> FALSE]
    /\ sent = [client |-> 0, upstream |-> 0]
    /\ got = <<>>
    /\ listening = TRUE
    /\ trip = FALSE
    /\ opened = 0
    /\ closes = [stage \in Stages |-> 0]

-----------------------------------------------------------------------------
(* Framed: polling next() of either side                                    *)

Polled(e) ==
    IF e = "client" THEN ep[e].pc \in {"recv", "open"} /\ ~closed[e]
    ELSE \/ conn = "noise" /\ ep[e].pc = "recv"
         \/ conn = "relay" /\ relay.down_to_up /\ "down_to_up" \notin relay.sending /\ ~trip

HasFrame(e) == ep[e].buf # <<>> /\ Complete(Head(ep[e].buf))

\* Whole messages cut off a buffer, and EOF with the rest of one left over.
AtEnd(e)  == ep[e].eof /\ ep[e].buf = <<>>
Broken(e) == ep[e].eof /\ ep[e].buf # <<>> /\ ~Complete(Head(ep[e].buf))

Read(e) ==
    /\ Polled(e) /\ ~HasFrame(e) /\ ~ep[e].eof
    /\ \/ \E k \in 1 .. Len(wire[e]) :
             /\ ep' = [ep EXCEPT ![e].buf = @ \o SubSeq(wire[e], 1, k)]
             /\ wire' = [wire EXCEPT ![e] = SubSeq(@, k + 1, Len(@))]
       \/ /\ wire[e] = <<>> /\ closed[Peer(e)]
          /\ ep' = [ep EXCEPT ![e].eof = TRUE]
          /\ UNCHANGED wire
    /\ UNCHANGED <<cfg, closed, conn, relay, up, sent, got, listening, trip, opened, closes>>

\* What is written to a socket whose other end is closed is lost.
Send(e, msg) == IF closed[Peer(e)] THEN wire ELSE [wire EXCEPT ![Peer(e)] = Append(@, msg)]

-----------------------------------------------------------------------------
(* Handshake::complete_handshake of either side                             *)

StepOf(e) ==
    LET st == ep[e] IN
    IF e = "server" THEN ResponderStep(st.stage, st.in_msg, st.state, cfg.ctx)
    ELSE IF cfg.legacy THEN LegacyStep(st.stage, st.in_msg, cfg.authority, cfg.now)
    ELSE InitiatorStep(st.stage, st.in_msg, st.state, cfg.algorithms, cfg.authority, cfg.now)

Handshaking(e) == IF e = "client" THEN ~closed[e] ELSE conn = "noise"

\* The codec is in transport mode.
Established(e) == ep[e].pc = "open"

\* The switch to transport mode, without what was read too early.
FreshBuffers(st) == [st EXCEPT !.pc = "open", !.buf = <<>>]

\* TransportMode::into_framed takes the buffers over.
into_framed(st) == [st EXCEPT !.pc = "open", !.eof = FALSE]

Stepped(st, r) ==
    LET next == [st EXCEPT !.stage = IF r.do = "Err" THEN @ ELSE @ + 1,
                           !.state = r.state,
                           !.in_msg = IF r.do = "NextStep" THEN r.msg ELSE None]
    IN  CASE r.do \in {"NextStep", "NoMoreReply"}       -> [next EXCEPT !.pc = "step"]
          [] r.do \in {"ReceiveMessage", "ExpectReply"} -> [next EXCEPT !.pc = "recv"]
          [] r.do = "Done"                              -> into_framed(next)
          [] r.do = "Err"                               -> [next EXCEPT !.pc = "failed"]
          [] OTHER                                      -> [next EXCEPT !.pc = "panic"]

Step(e) ==
    /\ Handshaking(e) /\ ep[e].pc = "step"
    /\ LET r == StepOf(e)
           sends == r.do \in {"ExpectReply", "NoMoreReply"}
       IN  \/ /\ ep' = [ep EXCEPT ![e] = Stepped(@, r)]
              /\ wire' = IF sends THEN Send(e, r.msg) ELSE wire
           \* the send fails, or does not end within the timeout
           \/ /\ sends /\ closed[Peer(e)]
              /\ ep' = [ep EXCEPT ![e].pc = "failed"]
              /\ UNCHANGED wire
    /\ UNCHANGED <<cfg, closed, conn, relay, up, sent, got, listening, trip, opened, closes>>

receive_message(e) ==
    /\ Handshaking(e) /\ ep[e].pc = "recv" /\ HasFrame(e)
    /\ ep' = [ep EXCEPT ![e].in_msg = Head(ep[e].buf), ![e].buf = Tail(@), ![e].pc = "step"]
    /\ UNCHANGED <<cfg, wire, closed, conn, relay, up, sent, got, listening, trip, opened, closes>>

\* The connection is shut down, or HANDSHAKE_TIMEOUT passes.
ReceiveFails(e) ==
    /\ Handshaking(e) /\ ep[e].pc = "recv" /\ ~HasFrame(e)
    /\ \/ /\ AtEnd(e) \/ Broken(e)
          /\ ep' = [ep EXCEPT ![e].pc = "failed"]
       \/ ep' = [ep EXCEPT ![e].pc = "failed", ![e].timeout = TRUE]
    /\ UNCHANGED <<cfg, wire, closed, conn, relay, up, sent, got, listening, trip, opened, closes>>

-----------------------------------------------------------------------------
(* The client                                                               *)

ClientGivesUp ==
    /\ ep["client"].pc = "failed" /\ ~closed["client"]
    /\ closed' = [closed EXCEPT !["client"] = TRUE]
    /\ UNCHANGED <<cfg, ep, wire, conn, relay, up, sent, got, listening, trip, opened, closes>>

\* CompoundCodec::encode: one frame, one noise message.  Frames are no longer
\* than MAX_PAYLOAD_SIZE, which Codec::encode asserts.
Encode(e, frame) == TransportWrite(ep[e].state, ep[e].tx, frame)

ClientSends ==
    /\ Established("client") /\ ~closed["client"] /\ sent.client < cfg.frames
    /\ sent' = [sent EXCEPT !.client = @ + 1]
    /\ wire' = Send("client", Encode("client", sent'.client))
    /\ ep' = [ep EXCEPT !["client"].tx = @ + 1]
    /\ UNCHANGED <<cfg, closed, conn, relay, up, got, listening, trip, opened, closes>>

\* CompoundCodec::decode: a message that cannot be read is an error.
Decodes(e) == TransportReads(ep[e].state, ep[e].rx, Head(ep[e].buf))

Consumed(e) ==
    [ep EXCEPT ![e].buf = Tail(@), ![e].rx = IF Decodes(e) THEN @ + 1 ELSE @]

ClientReceives ==
    /\ Established("client") /\ ~closed["client"] /\ HasFrame("client")
    /\ ep' = Consumed("client")
    /\ got' = IF Decodes("client") THEN Append(got, Head(ep["client"].buf).frame) ELSE got
    /\ UNCHANGED <<cfg, wire, closed, conn, relay, up, sent, listening, trip, opened, closes>>

\* Between two messages, or in the middle of one.
ClientLeaves ==
    /\ ~closed["client"]
    /\ closed' = [closed EXCEPT !["client"] = TRUE]
    /\ wire' \in {wire, Send("client", Cut)}
    /\ UNCHANGED <<cfg, ep, conn, relay, up, sent, got, listening, trip, opened, closes>>

-----------------------------------------------------------------------------
(* NoiseProxy::main_loop                                                    *)

\* A failed accept is counted and otherwise without effect.
AcceptConnection ==
    /\ listening /\ conn = "none"
    /\ conn' = "proxy"
    /\ opened' = opened + 1
    /\ UNCHANGED <<cfg, ep, wire, closed, relay, up, sent, got, listening, trip, closes>>

StopListening ==
    /\ listening /\ trip
    /\ listening' = FALSE
    /\ UNCHANGED <<cfg, ep, wire, closed, conn, relay, up, sent, got, trip, opened, closes>>

PullTripwire ==
    /\ ~trip
    /\ trip' = TRUE
    /\ UNCHANGED <<cfg, ep, wire, closed, conn, relay, up, sent, got, listening, opened, closes>>

-----------------------------------------------------------------------------
(* NoiseProxyConnection::handle                                             *)

account_tcp_close_in_stage(stage) == [closes EXCEPT ![stage] = @ + 1]

\* The task ends: it is accounted, and its sockets are closed.
Ends(stage) ==
    /\ conn' = "closed"
    /\ closes' = account_tcp_close_in_stage(stage)
    /\ closed' = [closed EXCEPT !["server"] = TRUE]
    /\ UNCHANGED <<cfg, ep, wire, relay, sent, got, listening, trip, opened>>

\* The PROXY protocol acceptor has read its header and perhaps more, which is
\* handed on as the buffer of the noise stream.
ProxyAccepted ==
    /\ conn = "proxy"
    /\ conn' = "noise"
    /\ \E k \in 0 .. Len(wire["server"]) :
          /\ ep' = [ep EXCEPT !["server"].buf = SubSeq(wire["server"], 1, k)]
          /\ wire' = [wire EXCEPT !["server"] = SubSeq(@, k + 1, Len(@))]
    /\ UNCHANGED <<cfg, closed, relay, up, sent, got, listening, trip, opened, closes>>

ProxyRefused ==
    /\ conn = "proxy"
    /\ \E stage \in {"proxy", "early"} : Ends(stage)
    /\ UNCHANGED up

HandshakeFailed ==
    /\ conn = "noise" /\ ep["server"].pc = "failed"
    /\ Ends("downstream_noise")
    /\ UNCHANGED up

\* The PROXY header comes before the first frame when it is configured.
connect_upstream ==
    /\ conn = "noise" /\ Established("server")
    /\ conn' = "relay"
    /\ relay' = [down_to_up |-> TRUE, up_to_down |-> TRUE, sending |-> {}]
    /\ up' = [up EXCEPT !.open = TRUE, !.got = IF cfg.header THEN <<ProxyHeader>> ELSE <<>>]
    /\ UNCHANGED <<cfg, ep, wire, closed, sent, got, listening, trip, opened, closes>>

ConnectFails ==
    /\ conn = "noise" /\ Established("server")
    /\ Ends("upstream_noise")
    /\ UNCHANGED up

(***************************************************************************)
(* The two loops are polled by one task, down_to_up first.  An error of     *)
(* the stream is ignored and the stream polled again; with the rest of a    *)
(* message left over at EOF it returns that error for ever, so that the     *)
(* task does nothing else any more until the tripwire ends the loop.        *)
(*                                                                         *)
(* A frame is handed to the sink and sent: send().await returns once the    *)
(* socket has taken all of it, which is not before the peer reads or has    *)
(* gone.  Until then the loop polls neither its stream nor the tripwire.    *)
(* What is sent and not taken yet counts as on its way, like what is in the *)
(* buffers of the sockets.  close() finds nothing to flush and does not     *)
(* wait, since every send before it has returned.                           *)
(***************************************************************************)
Waits(loop) == loop \in relay.sending

Spinning == relay.down_to_up /\ ~Waits("down_to_up") /\ Broken("server") /\ ~trip

SinkSends(loop, peer_connected) ==
    \/ UNCHANGED relay
    \/ peer_connected /\ relay' = [relay EXCEPT !.sending = @ \cup {loop}]

SendReturns(loop) ==
    /\ conn = "relay" /\ Waits(loop) /\ ~Spinning
    /\ relay' = [relay EXCEPT !.sending = @ \ {loop}]
    /\ UNCHANGED <<cfg, ep, wire, closed, conn, up, sent, got, listening, trip, opened, closes>>

\* The loops run one after the other instead of side by side.
DownAfterUp ==
    /\ conn = "relay" /\ relay.down_to_up /\ ~relay.up_to_down /\ ~Waits("down_to_up")
    /\ ~trip /\ HasFrame("server")
    /\ ep' = Consumed("server")
    /\ up' = IF Decodes("server") /\ up.open
             THEN [up EXCEPT !.got = Append(@, Head(ep["server"].buf).frame)] ELSE up
    /\ SinkSends("down_to_up", Decodes("server") /\ up.open)
    /\ UNCHANGED <<cfg, wire, closed, conn, sent, got, listening, trip, opened, closes>>

DownFrame ==
    /\ conn = "relay" /\ relay.down_to_up /\ ~Waits("down_to_up")
    /\ ~trip /\ HasFrame("server")
    /\ ep' = Consumed("server")
    /\ up' = IF Decodes("server") /\ up.open
             THEN [up EXCEPT !.got = Append(@, Head(ep["server"].buf).frame)] ELSE up
    /\ SinkSends("down_to_up", Decodes("server") /\ up.open)
    /\ UNCHANGED <<cfg, wire, closed, conn, sent, got, listening, trip, opened, closes>>

\* An end of the downstream that the upstream is not told of.
DownEndsQuietly ==
    /\ conn = "relay" /\ relay.down_to_up /\ ~Waits("down_to_up")
    /\ trip \/ AtEnd("server")
    /\ relay' = [relay EXCEPT !.down_to_up = FALSE]
    /\ UNCHANGED <<cfg, ep, wire, closed, conn, up, sent, got, listening, trip, opened, closes>>

DownEnds ==
    /\ conn = "relay" /\ relay.down_to_up /\ ~Waits("down_to_up")
    /\ trip \/ AtEnd("server")
    /\ relay' = [relay EXCEPT !.down_to_up = FALSE]
    /\ up' = [up EXCEPT !.told = TRUE]
    /\ UNCHANGED <<cfg, ep, wire, closed, conn, sent, got, listening, trip, opened, closes>>

UpFrame ==
    /\ conn = "relay" /\ relay.up_to_down /\ ~Waits("up_to_down")
    /\ ~trip /\ up.queue # <<>> /\ ~Spinning
    /\ up' = [up EXCEPT !.queue = Tail(@)]
    /\ wire' = Send("server", Encode("server", Head(up.queue)))
    /\ ep' = [ep EXCEPT !["server"].tx = @ + 1]
    /\ SinkSends("up_to_down", ~closed["client"])
    /\ UNCHANGED <<cfg, closed, conn, sent, got, listening, trip, opened, closes>>

UpEnds ==
    /\ conn = "relay" /\ relay.up_to_down /\ ~Waits("up_to_down") /\ ~Spinning
    /\ trip \/ (~up.open /\ up.queue = <<>>)
    /\ relay' = [relay EXCEPT !.up_to_down = FALSE]
    /\ UNCHANGED <<cfg, ep, wire, closed, conn, up, sent, got, listening, trip, opened, closes>>

\* A session that ends with the first of its loops.
EitherEnded == ~relay.down_to_up \/ ~relay.up_to_down

BothEnded == ~relay.down_to_up /\ ~relay.up_to_down

SessionCloses ==
    /\ conn = "relay" /\ BothEnded
    /\ Ends("ok")
    /\ up' = [up EXCEPT !.told = TRUE]

-----------------------------------------------------------------------------
(* The upstream server                                                      *)

UpstreamSends ==
    /\ up.open /\ sent.upstream < cfg.frames
    /\ sent' = [sent EXCEPT !.upstream = @ + 1]
    /\ up' = [up EXCEPT !.queue = Append(@, sent'.upstream)]
    /\ UNCHANGED <<cfg, ep, wire, closed, conn, relay, got, listening, trip, opened, closes>>

UpstreamLeaves ==
    /\ up.open
    /\ up' = [up EXCEPT !.open = FALSE, !.early = ~up.told]
    /\ UNCHANGED <<cfg, ep, wire, closed, conn, relay, sent, got, listening, trip, opened, closes>>

-----------------------------------------------------------------------------

Handshake(e) == Step(e) \/ receive_message(e) \/ ReceiveFails(e)

Task ==
    \/ ProxyAccepted \/ ProxyRefused \/ HandshakeFailed \/ connect_upstream \/ ConnectFails
    \/ DownFrame \/ DownEnds \/ UpFrame \/ UpEnds \/ SessionCloses
    \/ SendReturns("down_to_up") \/ SendReturns("up_to_down")

Next ==
    \/ \E e \in Sides : Read(e) \/ Handshake(e)
    \/ ClientGivesUp \/ ClientSends \/ ClientReceives \/ ClientLeaves
    \/ AcceptConnection \/ StopListening \/ PullTripwire
    \/ Task
    \/ UpstreamSends \/ UpstreamLeaves

(***************************************************************************)
(* The runtime polls what can go on: reading, the steps of the handshake    *)
(* with its timeouts, and the task.  The acceptor may wait for ever, and so *)
(* may a send to a peer that stays connected and does not read: nothing but *)
(* the end of the peer is sure to make a send return.  An upstream server   *)
(* that was told closes its side.                                           *)
(***************************************************************************)
Fairness ==
    /\ \A e \in Sides : WF_vars(Read(e)) /\ WF_vars(Handshake(e))
    /\ WF_vars(HandshakeFailed \/ connect_upstream \/ ConnectFails)
    /\ WF_vars(DownFrame \/ DownEnds) /\ WF_vars(UpFrame \/ UpEnds) /\ WF_vars(SessionCloses)
    /\ WF_vars(~up.open /\ SendReturns("down_to_up"))
    /\ WF_vars(closed["client"] /\ SendReturns("up_to_down"))
    /\ WF_vars(ClientReceives) /\ WF_vars(ClientGivesUp)
    /\ WF_vars(up.told /\ UpstreamLeaves)

Spec == Init /\ [][Next]_vars /\ Fairness

-----------------------------------------------------------------------------
(* Properties                                                               *)

Numbers(n) == [i \in 1 .. n |-> i]

\* The noise messages carry these frames, each once, in their order.
Carry(msgs, first, last) ==
    LET transport == {i \in DOMAIN msgs : msgs[i].type = "transport"}
    IN  /\ first <= last + 1
        /\ {msgs[i].frame : i \in transport} = first .. last
        /\ \A i, j \in transport : i < j => msgs[i].frame < msgs[j].frame

\* The frames the upstream got after the PROXY header, if there is one.
FromClient ==
    IF up.got # <<>> /\ Head(up.got) = ProxyHeader THEN Tail(up.got) ELSE up.got

ClosesTotal == closes["proxy"] + closes["early"] + closes["downstream_noise"]
                 + closes["upstream_noise"] + closes["ok"]

\* The authority the client trusts signed the key the proxy really holds, for
\* a time that includes the present of the client.
Genuine ==
    LET cert == cfg.ctx.certificate IN
    /\ cert.signature = sign_with(SignedPart(cert.signed_part_header,
                                             Pub(cfg.ctx.secret_key), cfg.authority),
                                  cfg.authority.public)
    /\ cfg.now \in cert.signed_part_header.valid_from .. cert.signed_part_header.not_valid_after

CommonAlgorithm == cfg.legacy \/ cfg.algorithms # <<>>

\* A client that completed its handshake has the same algorithm and prologue
\* as the proxy, the algorithm is one it offered, and AES whenever it did; and
\* no frame leaves a client, and none reaches it, unless the proxy is genuine.
HandshakeSound ==
    /\ Established("client") =>
          LET chosen == ep["client"].state.chosen_algorithm IN
          /\ ep["client"].state = ep["server"].state
          /\ cfg.legacy => chosen = "ChaChaPoly"
          /\ ~cfg.legacy => /\ chosen \in Range(cfg.algorithms)
                            /\ chosen = "AESGCM" \/ "AESGCM" \notin Range(cfg.algorithms)
    /\ sent.client > 0 \/ got # <<>> => Genuine

\* A handshake fails for a reason only: silence, a closed connection, a
\* certificate that does not hold, or no common algorithm.  In particular no
\* client with or without negotiation is refused for the way it starts.  Nor
\* does either side take a step after its handshake is complete, or switch to
\* the transport twice: the panics of step and codec.
FailureHasReason ==
    /\ \A e \in Sides : ep[e].pc # "panic"
    /\ ep["client"].pc = "failed" =>
          ep["client"].timeout \/ closed["server"] \/ ~Genuine \/ ~CommonAlgorithm
    /\ ep["server"].pc = "failed" =>
          ep["server"].timeout \/ closed["client"] \/ ~CommonAlgorithm

\* No frame is lost, repeated or overtaken between client and upstream, in
\* either direction, also when it arrived together with the last message of
\* the handshake: each is where it was sent to, in a buffer or on the wire.
FramesConserved ==
    /\ FromClient = Numbers(Len(FromClient))
    /\ ~closed["server"] /\ (up.open \/ conn # "relay") =>
          Carry(ep["server"].buf \o wire["server"], Len(FromClient) + 1, sent.client)
    /\ ~closed["client"] =>
          LET relayed == sent.upstream - Len(up.queue) IN
          /\ got = Numbers(Len(got))
          /\ Carry(ep["client"].buf \o wire["client"], Len(got) + 1, relayed)
          /\ \A i \in DOMAIN up.queue : up.queue[i] = relayed + i

\* The metrics tell the truth.  A connection is accounted once, when its task
\* ends, and none is missing.  A session that ended well without the tripwire
\* ended because the client left, and all the client had sent was delivered,
\* unless the upstream had left on its own.
AccountsTrue ==
    /\ opened = ClosesTotal + (IF conn \in {"proxy", "noise", "relay"} THEN 1 ELSE 0)
    /\ closes["ok"] = 1 /\ ~trip =>
          closed["client"] /\ (up.early \/ FromClient = Numbers(sent.client))

LeftClean == closed["client"] /\ Cut \notin Range(ep["server"].buf \o wire["server"])

\* No send waits for ever: peers that stay connected go on reading.
PeersRead == []<>(relay.sending = {})

\* The task past the acceptor ends when the tripwire is pulled, and when the
\* client leaves between two messages, provided that no peer stays connected
\* without reading: the tripwire does not reach a loop that waits for a send.
SessionEnds ==
    PeersRead => (conn \in {"noise", "relay"} /\ (trip \/ LeftClean) ~> conn = "closed")

\* What the client sends is written to the upstream while all stay connected,
\* and read, whatever comes down meanwhile.
FramesArrive ==
    PeersRead =>
      \A n \in 1 .. MaxFrames :
          sent.client >= n ~> \/ Len(FromClient) >= n /\ ~Waits("down_to_up")
                             \/ closed["client"] \/ up.early \/ trip \/ conn = "closed"

=============================================================================
