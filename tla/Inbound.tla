------------------------------- MODULE Inbound -------------------------------
(***************************************************************************)
(* What the proxy does with the bytes of an incoming connection: the PROXY *)
(* protocol acceptor, the upstream connection with the header written to   *)
(* it, and the framed V2 stream that takes over the acceptor's buffer      *)
(* (wire/src/proxy.rs, stratum-proxy/src/server.rs do_handle without       *)
(* noise).  The network hands over the peer's bytes in pieces of any size, *)
(* and the peer may close the connection after any of them.                *)
(***************************************************************************)
EXTENDS ProxyHeader, V2Wire

CONSTANTS
    Cases,          \* pairs of a configuration [require, versions, upstream] and a
                    \* peer [kind, header, version, info, body] with what it means to send
    Direct, Local   \* addresses of the two ends of the accepted socket

\* Peers build their messages from the types of the protocol, and a header is
\* required only with versions to accept.
ASSUME CasesAssumption ==
    \A c \in Cases :
        /\ c.cfg.require => c.cfg.versions # <<>>
        /\ \A i \in DOMAIN c.peer.body :
               LET b == c.peer.body[i]
               IN  \A k \in DOMAIN b.val : TryFromSlice(Messages[b.name].fields[k], b.val[k])

VARIABLES
    cfg,     \* the configuration
    peer,    \* the peer
    sent,    \* what the peer sends before it closes the connection
    wire,    \* the part of it that was not read yet
    closed,  \* the peer has closed the connection
    buf,     \* the read buffer, of the acceptor and then of the framed stream
    acc,     \* the acceptor
    up,      \* the upstream connection
    rx       \* the framed V2 stream

vars == <<cfg, peer, sent, wire, closed, buf, acc, up, rx>>

Front(s, n) == SubSeq(s, 1, n)
Rest(s, n) == SubSeq(s, n + 1, Len(s))

-----------------------------------------------------------------------------
(***************************************************************************)
(* The acceptor.                                                           *)
(***************************************************************************)
\* An empty list of versions is configured only without the obligation.
BuildMethod(c) ==
    CASE c.versions = <<>> -> "skip"
      [] Len(c.versions) = 1 /\ c.require -> c.versions[1]
      [] OTHER -> "auto"

Decode(a, b) == IF a.version = "V1" THEN V1Decode(a.codec, b) ELSE V2Decode(a.codec, b)

\* A stream without a usable header passes on what is left of the buffer, unless
\* the header is required.
TryFromStream(a) == [a EXCEPT !.stage = IF cfg.require THEN "refused" ELSE "accepted"]

\* What the acceptor makes of the answer r of the decoder: the acceptor and the
\* buffer.
HandleDecoded(a, b, eof, r) ==
    LET rest == Rest(b, r.used)
        took == [a EXCEPT !.codec = r.codec, !.eaten = @ \o Front(b, r.used)]
    IN  CASE r.res = "item" ->
                 [acc |-> [took EXCEPT !.stage = "accepted", !.header = TRUE,
                                       !.src = r.info.original_source,
                                       !.dst = r.info.original_destination],
                  buf |-> rest]
          [] r.res = "err" -> [acc |-> TryFromStream(took), buf |-> rest]
          [] r.res = "none" /\ ~eof -> [acc |-> took, buf |-> rest]
          [] OTHER -> [acc |-> IF rest = <<>> THEN [took EXCEPT !.stage = "refused"]
                               ELSE TryFromStream(took),
                       buf |-> rest]

\* Outcome of one call of the decoder.
AfterDecode(a, b, eof) == HandleDecoded(a, b, eof, Decode(a, b))

\* Autodetection, once enough bytes are there or no more will come.
Detect(a, b) ==
    LET n == COMMON_HEADER_PREFIX_LEN
        as(v) == AfterDecode([a EXCEPT !.stage = "decode", !.version = v], b, FALSE)
    IN  IF Len(b) < n THEN [acc |-> TryFromStream(a), buf |-> b]
        ELSE IF Front(b, n) = Front(V1_TAG, n) THEN as("V1")
        ELSE IF Front(b, n) = Front(SIGNATURE, n) THEN as("V2")
        ELSE [acc |-> TryFromStream(a), buf |-> b]

NewAcceptor(c) ==
    [stage |-> CASE BuildMethod(c) = "skip" -> "accepted"
                 [] BuildMethod(c) = "auto" -> "prefix"
                 [] OTHER -> "decode",
     version |-> IF BuildMethod(c) \in {"V1", "V2"} THEN BuildMethod(c) ELSE "None",
     codec |-> NewCodec, header |-> FALSE, src |-> None, dst |-> None, eaten |-> <<>>]

Init ==
    /\ \E c \in Cases : cfg = c.cfg /\ peer = c.peer
    /\ sent = peer.header \o Concat([i \in DOMAIN peer.body |->
                 FrameSerialize(FromSerializablePayload(peer.body[i].name, peer.body[i].val))])
    /\ wire = sent
    /\ closed = FALSE
    /\ buf = <<>>
    /\ acc = NewAcceptor(cfg)
    /\ up = [stage |-> "none", sent |-> <<>>]
    /\ rx = [stage |-> "none", want |-> 0, frames |-> <<>>]

\* n more units arrive.
Arrive(n) == wire' = Rest(wire, n) /\ UNCHANGED <<cfg, peer, sent, closed, up, rx>>

AcceptorReads(n) ==
    LET b == buf \o Front(wire, n)
        out == IF acc.stage = "decode" THEN AfterDecode(acc, b, FALSE)
               ELSE IF Len(b) < COMMON_HEADER_PREFIX_LEN THEN [acc |-> acc, buf |-> b]
               ELSE Detect(acc, b)
    IN  /\ acc.stage \in {"prefix", "decode"}
        /\ Arrive(n)
        /\ acc' = out.acc /\ buf' = out.buf

AcceptorEof ==
    LET out == IF acc.stage = "decode" THEN AfterDecode(acc, buf, TRUE) ELSE Detect(acc, buf)
    IN  /\ acc.stage \in {"prefix", "decode"}
        /\ closed /\ wire = <<>>
        /\ acc' = out.acc /\ buf' = out.buf
        /\ UNCHANGED <<cfg, peer, sent, wire, closed, up, rx>>

-----------------------------------------------------------------------------
(***************************************************************************)
(* The rest of do_handle.                                                  *)
(***************************************************************************)
ConnectorEncode(version, info) == IF version = "V1" THEN V1Encode(info) ELSE V2Encode(info)

\* Mutant: always the addresses of the socket.
SocketAddrs == <<Direct, Local>>

UpstreamAddrs ==
    IF acc.src # None /\ acc.dst # None THEN <<acc.src, acc.dst>> ELSE <<Direct, Local>>

\* Mutant: a fresh framed stream.
StartEmpty(b) == <<>>

\* The read buffer that the framed stream starts with.
IntoFramedParts(b) == b

\* The client makes one attempt.  The acceptor's buffer goes to the framed stream.
ConnectUpstream ==
    /\ acc.stage = "accepted" /\ up.stage = "none"
    /\ TryFromAddrs(acc.src, acc.dst) # Inconsistent
    /\ up' = [stage |-> "connected",
              sent |-> IF cfg.upstream = "None" THEN <<>>
                       ELSE ConnectorEncode(cfg.upstream,
                                            TryFromAddrs(UpstreamAddrs[1], UpstreamAddrs[2]))]
    /\ rx' = [rx EXCEPT !.stage = "open"]
    /\ buf' = IntoFramedParts(buf)
    /\ UNCHANGED <<cfg, peer, sent, wire, closed, acc>>

ConnectFails ==
    /\ acc.stage = "accepted" /\ up.stage = "none"
    /\ up' = [up EXCEPT !.stage = "failed"]
    /\ UNCHANGED <<cfg, peer, sent, wire, closed, buf, acc, rx>>

\* One frame, or an error, from the buffer of the framed stream.
NextFrame ==
    /\ rx.stage = "open"
    /\ \/ /\ FrameReady(rx.want, buf)
          /\ LET n == Wanted(rx.want, buf)
             IN  /\ rx' = [rx EXCEPT !.want = 0,
                               !.frames = Append(@, FrameDeserialize(Front(buf, n)))]
                 /\ buf' = Rest(buf, n)
       \/ /\ TooLong(rx.want, buf)
          /\ rx' = [rx EXCEPT !.stage = "error"]
          /\ UNCHANGED buf
    /\ UNCHANGED <<cfg, peer, sent, wire, closed, acc, up>>

\* A frame that is not complete remembers its length before more is read.
FramedReads(n) ==
    /\ rx.stage = "open"
    /\ ~FrameReady(rx.want, buf) /\ ~TooLong(rx.want, buf)
    /\ wire' = Rest(wire, n) /\ buf' = buf \o Front(wire, n)
    /\ rx' = [rx EXCEPT !.want = IF HeadKnown(@, buf) THEN Wanted(@, buf) ELSE 0]
    /\ UNCHANGED <<cfg, peer, sent, closed, acc, up>>

FramedEof ==
    /\ rx.stage = "open"
    /\ ~FrameReady(rx.want, buf) /\ ~TooLong(rx.want, buf)
    /\ closed /\ wire = <<>>
    /\ rx' = [rx EXCEPT !.stage = IF buf = <<>> THEN "end" ELSE "error"]
    /\ UNCHANGED <<cfg, peer, sent, wire, closed, buf, acc, up>>

\* The peer closes after what has arrived.
PeerCloses ==
    /\ ~closed
    /\ closed' = TRUE
    /\ sent' = Front(sent, Len(sent) - Len(wire)) /\ wire' = <<>>
    /\ UNCHANGED <<cfg, peer, buf, acc, up, rx>>

\* The task that handles the connection.
Handle ==
    \/ \E n \in 1 .. Len(wire) : AcceptorReads(n) \/ FramedReads(n)
    \/ AcceptorEof
    \/ ConnectUpstream
    \/ ConnectFails
    \/ NextFrame
    \/ FramedEof

Next == Handle \/ PeerCloses

\* Bytes arrive as long as there are some, an attempt to connect ends one way or
\* the other, and the task is woken for either.
Fairness == WF_vars(Handle)

Spec == Init /\ [][Next]_vars /\ Fairness

-----------------------------------------------------------------------------
Decided == acc.stage \in {"accepted", "refused"}

\* The stream begins like a header of either version.
Tagged ==
    LET n == COMMON_HEADER_PREFIX_LEN
    IN  Len(sent) >= n /\ Front(sent, n) \in {Front(V1_TAG, n), Front(SIGNATURE, n)}

\* Every byte of the peer is in exactly one place, in order: taken by a header
\* codec, in a frame handed to the translation, in the buffer or on the wire.
\* The buffer changes hands twice (autodetection, codec, framed stream).  And a
\* stream that does not begin like a header is handed over whole.
BytesConserved ==
    /\ acc.eaten \o Concat([i \in DOMAIN rx.frames |-> FrameSerialize(rx.frames[i])])
           \o buf \o wire = sent
    /\ ~Tagged => acc.eaten = <<>>

\* What require_proxy_header promises for false: "if PROXY header is not present,
\* stream is created and all data passed on".
AllDataPassedOn == acc.stage = "accepted" /\ ~acc.header => acc.eaten = <<>>

\* What the acceptor decides on all the bytes at once, and then at their end.
ReadAll(a, eof) ==
    IF a.stage = "accepted" THEN [acc |-> a, buf |-> sent]
    ELSE IF a.stage = "decode" THEN AfterDecode(a, sent, FALSE)
    ELSE IF Len(sent) < COMMON_HEADER_PREFIX_LEN /\ ~eof THEN [acc |-> a, buf |-> sent]
    ELSE Detect(a, sent)
AtEnd(once, eof) ==
    IF eof /\ once.acc.stage = "decode" THEN AfterDecode(once.acc, once.buf, TRUE).acc ELSE once.acc
AtOnce(eof) == AtEnd(ReadAll(NewAcceptor(cfg), eof), eof)

Outcome(a) == <<a.stage, a.header, a.src, a.dst, a.eaten>>

\* No line of a text header is longer than the decoder waits for.
LineFits ==
    LET ends == LineEnds(sent, 0)
    IN  ends = {} \/ \E i \in ends : i < MAX_HEADER_SIZE

\* How the network cuts the bytes changes nothing: once the acceptor has decided,
\* or has read all there is, it is where one read of everything leads (decoders
\* resume where they stopped, an end of line may be cut in two).
ChunkingIrrelevant ==
    LineFits =>
        /\ Decided => Outcome(acc) = Outcome(AtOnce(closed))
        /\ (wire = <<>> /\ ~closed) => Outcome(acc) = Outcome(AtOnce(FALSE))

\* A complete header of a version that the configuration accepts is recognised
\* and taken off the stream, no more and no less, and its addresses are used.
\* Where the header is required, a connection is accepted only behind one of a
\* configured version.
HeaderHonoured ==
    /\ ( /\ peer.kind = "header" /\ BuildMethod(cfg) \in {"auto", peer.version}
         /\ Len(sent) >= Len(peer.header) /\ Decided )
       => /\ acc.stage = "accepted" /\ acc.eaten = peer.header
          /\ acc.src = peer.info.original_source /\ acc.dst = peer.info.original_destination
    /\ (cfg.require /\ acc.stage = "accepted") =>
          /\ acc.header
          /\ acc.version \in {cfg.versions[i] : i \in DOMAIN cfg.versions}

\* The header written upstream is one that the same decoders read back, whole: to
\* the origin that the downstream header named, or to the socket's own addresses.
UpstreamLearnsOrigin ==
    LET r == Decode([version |-> cfg.upstream, codec |-> NewCodec], up.sent)
        named == acc.header /\ peer.kind = "header" /\ peer.info.socket_type # "Unknown"
    IN  (up.stage = "connected" /\ cfg.upstream # "None" /\ peer.kind # "raw") =>
            /\ r.res = "item" /\ r.used = Len(up.sent)
            /\ r.info = IF named THEN peer.info ELSE TryFromAddrs(Direct, Local)

\* A payload has one encoding: what the deserializer accepts is what the
\* serializer writes for the value.
Canonical ==
    \A i \in DOMAIN rx.frames :
        LET d == Dispatch(rx.frames[i])
        IN  (d.err = "Ok" /\ d.name # "Unknown") =>
                ToWriter(Messages[d.name].fields, d.val) = rx.frames[i].payload

\* Messages arrive whole, in order and as they were sent, and each is handled as
\* the message that it is (the receiver may also be the peer's own code).  Whatever
\* arrives, no two payloads are taken for the same message.
MessagesIntact ==
    /\ Canonical
    /\ acc.eaten = peer.header /\ acc.stage = "accepted" =>
           \A i \in DOMAIN rx.frames :
               LET m == peer.body[i].name
                   f == rx.frames[i]
               IN  /\ f = [FromSerializablePayload(m, peer.body[i].val) EXCEPT !.payload = f.payload]
                   /\ FromSlice(Messages[m].fields, f.payload) = Read(peer.body[i].val, Len(f.payload))
                   /\ m \in BaseMessages => Dispatch(f).name = m

Lost == acc.stage = "refused" \/ up.stage = "failed"

\* All messages of a peer that stays are handed over, and a peer that leaves is
\* noticed, unless the connection is refused or upstream is not there.
Served ==
    /\ <>(Lost \/ closed \/ Len(rx.frames) >= Len(peer.body)
            \/ (acc.stage = "accepted" /\ acc.eaten # peer.header))
    /\ closed ~> (Lost \/ rx.stage \in {"end", "error"})
=============================================================================
