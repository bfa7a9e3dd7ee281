------------------------ MODULE NoiseHandshakeProofs ------------------------
(***************************************************************************)
(* The inductive invariant of a connection through the noise proxy, and    *)
(* the proof that the handshake keeps it.                                  *)
(*                                                                         *)
(* None of the properties of NoiseProxy is inductive.  What makes them so  *)
(* is how far the two parties are together (InStep): the stage of one      *)
(* determines that of the other up to the message that is on its way, and  *)
(* that message, the frames behind it and at last what a leaving client    *)
(* cut short are all there is in the stream (ServerStream, ClientStream).  *)
(***************************************************************************)
EXTENDS NoiseProxy, TLAPS

-----------------------------------------------------------------------------
(* Sequences                                                               *)

\* Concatenation is associative.
LEMMA ConcatAssociative ==
    ASSUME NEW S, NEW q \in Seq(S), NEW r \in Seq(S), NEW t \in Seq(S)
    PROVE  (q \o r) \o t = q \o (r \o t)
OBVIOUS

\* A sequence and one element more.
LEMMA Appended ==
    ASSUME NEW S, NEW q \in Seq(S), NEW e \in S
    PROVE  /\ Append(q, e) \in Seq(S) /\ Len(Append(q, e)) = Len(q) + 1
           /\ \A i \in 1 .. Len(q) : Append(q, e)[i] = q[i]
           /\ Append(q, e)[Len(q) + 1] = e
OBVIOUS

\* What is left of a sequence without its first element.
LEMMA HeadTailProperties ==
    ASSUME NEW S, NEW q \in Seq(S), q # <<>>
    PROVE  /\ Head(q) \in S /\ Tail(q) \in Seq(S) /\ Len(Tail(q)) = Len(q) - 1
           /\ \A i \in 1 .. Len(Tail(q)) : Tail(q)[i] = q[i + 1]
OBVIOUS

\* Sequences are equal if their elements are.
LEMMA SeqEqual ==
    ASSUME NEW S, NEW q \in Seq(S), NEW r \in Seq(S),
           Len(q) = Len(r), \A i \in 1 .. Len(q) : q[i] = r[i]
    PROVE  q = r
OBVIOUS

-----------------------------------------------------------------------------
(* Types                                                                    *)

Answers == {None} \cup [type : {"negotiation"}, encryption_algos : {<<"AESGCM">>, <<"ChaChaPoly">>}]

HandshakeStates ==
    [chosen_algorithm : EncryptionAlgorithm \cup {"none"},
     prologue : [initiator_msg : {None}, responder_msg : Answers]]

Messages ==
    {None, WriteE, Cut}
      \cup [type : {"negotiation"}, encryption_algos : Seq(EncryptionAlgorithm)]
      \cup {WriteReply(state, case.ctx) : state \in HandshakeStates, case \in Cases}
      \cup [type : {"transport"}, under : HandshakeStates, n : Nat, frame : Nat]

Endpoint ==
    [pc : {"step", "recv", "open", "failed"}, stage : 0 .. 4, state : HandshakeStates,
     in_msg : Messages, buf : Seq(Messages), eof : BOOLEAN, tx : Nat, rx : Nat,
     timeout : BOOLEAN]

Upstream ==
    [got : Seq(Nat), queue : Seq(Nat), open : BOOLEAN, told : BOOLEAN, early : BOOLEAN]

Loops == {"down_to_up", "up_to_down"}
Relay == [down_to_up : BOOLEAN, up_to_down : BOOLEAN, sending : SUBSET Loops]

TypeOK ==
    /\ cfg \in Cases
    /\ ep \in [Sides -> Endpoint]
    /\ wire \in [Sides -> Seq(Messages)]
    /\ closed \in [Sides -> BOOLEAN]
    /\ conn \in {"none", "proxy", "noise", "relay", "closed"}
    /\ relay \in Relay
    /\ up \in Upstream
    /\ sent \in [client : Nat, upstream : Nat]
    /\ got \in Seq(Nat)
    /\ listening \in BOOLEAN
    /\ trip \in BOOLEAN
    /\ opened \in Nat
    /\ closes \in [Stages -> Nat]

-----------------------------------------------------------------------------
(* What is in a stream                                                      *)

\* The message of the handshake that is still to be taken, if h = 1; the
\* frames from number lo + 1 to hi; and what was cut short, if x = 1.
Transmitted(state, h, msg, lo, hi, x) ==
    [i \in 1 .. (h + (hi - lo) + x) |->
       IF i <= h THEN msg
       ELSE IF i <= h + (hi - lo)
       THEN TransportWrite(state, lo + i - h - 1, lo + i - h)
       ELSE Cut]

\* What a side has been sent and has not acted upon.
Unread(in_msg, buf, w) == IF in_msg = None THEN buf \o w ELSE <<in_msg>> \o (buf \o w)

Pending(e) == Unread(ep[e].in_msg, ep[e].buf, wire[e])

-----------------------------------------------------------------------------
(* How far the handshake is                                                 *)

Offer == NegotiationMessage(cfg.algorithms)
Chosen == IF "AESGCM" \in Range(cfg.algorithms) THEN "AESGCM" ELSE "ChaChaPoly"
Answer == NegotiationMessage(<<Chosen>>)
Agreed == IF cfg.legacy THEN LegacyState ELSE EncryptionNegotiation(Prologue(Answer), Chosen)
Reply == WriteReply(Agreed, cfg.ctx)

\* The stage at which the client waits for the last message.
LastStage == IF cfg.legacy THEN 1 ELSE 2

\* Nothing was sent; the offer is on its way; the answer is; e is; the reply is;
\* the client has taken it.
Start    == ep["client"].stage = 0 /\ ep["server"].stage <= 1
Offered  == ~cfg.legacy /\ ep["client"].stage = 1 /\ ep["server"].stage <= 1
Answered == ~cfg.legacy /\ ep["client"].stage = 1 /\ ep["server"].stage = 2
Begun    == /\ ep["client"].stage = LastStage
            /\ ep["server"].stage = 2 \/ (cfg.legacy /\ ep["server"].stage <= 1)
Proved   == ep["client"].stage = LastStage /\ ep["server"].stage >= 3
Settled == ep["client"].stage = LastStage + 1 /\ ep["server"].stage >= 3

InStep == Start \/ Offered \/ Answered \/ Begun \/ Proved \/ Settled

ClientOK ==
    LET c == ep["client"] IN
    /\ c.pc = "open" <=> c.stage = LastStage + 1
    /\ c.pc = "recv" => c.stage > 0 /\ c.in_msg = None
    /\ c.pc = "step" => (c.stage = 0 <=> c.in_msg = None)
    /\ c.stage = 0 \/ c.pc = "open" => c.in_msg = None
    /\ c.stage >= LastStage => c.state = Agreed
    /\ c.pc = "open" => Genuine
    /\ c.pc # "open" => c.tx = 0 /\ c.rx = 0
    /\ c.tx = sent.client
    /\ got = Numbers(c.rx)
    /\ c.pc = "failed" => c.timeout \/ closed["server"] \/ ~Genuine

ServerOK ==
    LET s == ep["server"] IN
    /\ s.pc = "open" <=> s.stage = 4
    /\ s.pc = "recv" => s.stage \in {1, 2} /\ s.in_msg = None
    /\ s.pc = "step" => (s.stage \in {0, 3} <=> s.in_msg = None)
    /\ s.stage \in {0, 3} => s.pc = "step"
    /\ s.pc = "open" => s.in_msg = None
    /\ s.in_msg # Cut
    /\ s.stage >= 2 => s.state = Agreed /\ CommonAlgorithm
    /\ s.pc # "open" => s.tx = 0
    /\ conn \notin {"relay", "closed"} => s.rx = 0
    /\ s.pc # "open" => s.rx = 0
    /\ s.pc = "failed" => s.timeout \/ closed["client"] \/ ~CommonAlgorithm
    /\ conn \in {"none", "proxy"} => s = NewEndpoint
    /\ conn = "relay" => s.pc = "open"
    /\ conn = "closed" <=> closed["server"]

\* A side that has met the end of its stream will read nothing more.
EofOK == \A e \in Sides : ep[e].eof => wire[e] = <<>> /\ closed[Peer(e)]

ClientMsg == IF Offered THEN Offer ELSE WriteE

ToServer(h, x) ==
    LET s == ep["server"] IN
    /\ s.rx <= ep["client"].tx
    /\ Pending("server") = Transmitted(Agreed, h, ClientMsg, s.rx, ep["client"].tx, x)
    /\ x = 1 => closed["client"]
    /\ h = 1 => Offered \/ Begun
    /\ (Offered \/ Begun) /\ s.pc # "failed" => h = 1

ServerStream == ~closed["server"] => \E h, x \in 0 .. 1 : ToServer(h, x)

ServerMsg == IF Answered THEN Answer ELSE Reply

ToClient(h) ==
    LET c == ep["client"] IN
    /\ c.rx <= ep["server"].tx
    /\ Pending("client") = Transmitted(Agreed, h, ServerMsg, c.rx, ep["server"].tx, 0)
    /\ h = 1 => Answered \/ Proved
    /\ (Answered \/ Proved) /\ c.pc # "failed" => h = 1
    /\ c.in_msg # None => h = 1

ClientStream == ~closed["client"] => \E h \in 0 .. 1 : ToClient(h)

-----------------------------------------------------------------------------
(* The relay                                                                *)

UpOK ==
    /\ FromClient = Numbers(Len(FromClient))
    /\ ~up.early => Len(FromClient) = ep["server"].rx
    /\ up.open => ~up.early
    /\ conn = "relay" /\ relay.down_to_up => ~up.told /\ (up.open \/ up.early)
    /\ conn \notin {"relay", "closed"} =>
          ~up.open /\ ~up.told /\ ~up.early /\ up.got = <<>>
    /\ ep["server"].tx + Len(up.queue) = sent.upstream
    /\ \A i \in 1 .. Len(up.queue) : up.queue[i] = ep["server"].tx + i

\* Unless the tripwire was pulled, the loop of the client's frames ends after
\* the last of them.
DrainOK ==
    /\ conn = "relay" /\ ~relay.down_to_up /\ ~trip =>
          closed["client"] /\ ep["server"].rx = sent.client
    /\ closes["ok"] # 0 => conn = "closed"
    /\ closes["ok"] # 0 /\ ~trip => closed["client"] /\ ep["server"].rx = sent.client

AccountsOK == opened = ClosesTotal + (IF conn \in {"proxy", "noise", "relay"} THEN 1 ELSE 0)

IInv ==
    /\ TypeOK
    /\ InStep /\ ClientOK /\ ServerOK /\ EofOK
    /\ ServerStream /\ ClientStream
    /\ UpOK /\ DrainOK /\ AccountsOK

-----------------------------------------------------------------------------
(* Streams, whatever the state                                              *)

\* The messages there are.
LEMMA MessageTypes ==
    /\ {None, WriteE, Cut} \subseteq Messages
    /\ \A state \in HandshakeStates, n, f \in Nat : TransportWrite(state, n, f) \in Messages
    /\ \A state \in HandshakeStates, case \in Cases : WriteReply(state, case.ctx) \in Messages
    /\ \A algos \in Seq(EncryptionAlgorithm) : NegotiationMessage(algos) \in Messages
  BY DEF TransportWrite, NegotiationMessage, Messages

\* What is in a stream is a sequence of messages, with these elements.
LEMMA TransmittedElements ==
    ASSUME NEW state \in HandshakeStates, NEW msg \in Messages,
           NEW lo \in Nat, NEW hi \in Nat, lo <= hi, NEW h \in 0 .. 1, NEW x \in 0 .. 1
    PROVE  /\ Transmitted(state, h, msg, lo, hi, x) \in Seq(Messages)
           /\ Len(Transmitted(state, h, msg, lo, hi, x)) = h + (hi - lo) + x
           /\ \A i \in 1 .. (h + (hi - lo) + x) :
                 Transmitted(state, h, msg, lo, hi, x)[i] =
                    IF i <= h THEN msg
                    ELSE IF i <= h + (hi - lo)
                    THEN TransportWrite(state, lo + i - h - 1, lo + i - h)
                    ELSE Cut
  BY MessageTypes DEF Transmitted

\* Without a message of the handshake it does not matter which one it would be.
LEMMA TransmittedAnyMsg ==
    ASSUME NEW state, NEW msg, NEW other, NEW lo \in Nat, NEW hi \in Nat, lo <= hi, NEW x \in 0 .. 1
    PROVE  Transmitted(state, 0, msg, lo, hi, x) = Transmitted(state, 0, other, lo, hi, x)
  BY DEF Transmitted

\* A message of the handshake is sent.
LEMMA TransmitMsg ==
    ASSUME NEW state \in HandshakeStates, NEW msg \in Messages, NEW other \in Messages,
           NEW lo \in Nat
    PROVE  Append(Transmitted(state, 0, other, lo, lo, 0), msg)
             = Transmitted(state, 1, msg, lo, lo, 0)
<1> DEFINE q == Transmitted(state, 0, other, lo, lo, 0)
           r == Transmitted(state, 1, msg, lo, lo, 0)
<1>1. q \in Seq(Messages) /\ Len(q) = 0
  BY MessageTypes DEF Transmitted
<1>2. r \in Seq(Messages) /\ Len(r) = 1 /\ r[1] = msg
  BY MessageTypes DEF Transmitted
<1> HIDE DEF q, r
<1>3. Append(q, msg) = r
  BY <1>1, <1>2, SeqEqual
<1> QED
  BY <1>3, Zenon DEF q, r

\* The next frame is sent.
LEMMA TransmitFrame ==
    ASSUME NEW state \in HandshakeStates, NEW msg \in Messages,
           NEW lo \in Nat, NEW hi \in Nat, lo <= hi, NEW h \in 0 .. 1
    PROVE  Append(Transmitted(state, h, msg, lo, hi, 0), TransportWrite(state, hi, hi + 1))
             = Transmitted(state, h, msg, lo, hi + 1, 0)
<1> DEFINE q == Transmitted(state, h, msg, lo, hi, 0)
           r == Transmitted(state, h, msg, lo, hi + 1, 0)
           t == TransportWrite(state, hi, hi + 1)
<1>1. /\ q \in Seq(Messages) /\ Len(q) = h + (hi - lo)
      /\ \A i \in 1 .. (h + (hi - lo)) : q[i] =
            IF i <= h THEN msg ELSE TransportWrite(state, lo + i - h - 1, lo + i - h)
  BY MessageTypes DEF Transmitted
<1>2. /\ r \in Seq(Messages) /\ Len(r) = h + (hi - lo) + 1
      /\ \A i \in 1 .. (h + (hi - lo) + 1) : r[i] =
            IF i <= h THEN msg ELSE TransportWrite(state, lo + i - h - 1, lo + i - h)
  BY MessageTypes DEF Transmitted
<1>3. t \in Messages
  BY MessageTypes
<1>4. r[h + (hi - lo) + 1] = t
  <2>1. /\ lo + (h + (hi - lo) + 1) - h - 1 = hi
        /\ lo + (h + (hi - lo) + 1) - h = hi + 1
    OBVIOUS
  <2>2. h + (hi - lo) + 1 \in 1 .. (h + (hi - lo) + 1) /\ ~(h + (hi - lo) + 1 <= h)
    OBVIOUS
  <2> QED
    BY <1>2, <2>1, <2>2, Zenon
<1> HIDE DEF q, r, t
<1>5. Append(q, t) \in Seq(Messages) /\ Len(Append(q, t)) = Len(r)
  <2>1. q \in Seq(Messages) /\ Len(r) = Len(q) + 1
    <3>1. Len(q) = h + (hi - lo) /\ Len(r) = h + (hi - lo) + 1
      BY <1>1, <1>2, Zenon
    <3> QED
      BY <1>1, <3>1, Zenon
  <2> QED
    BY <1>3, <2>1, Appended, Zenon
<1>6. ASSUME NEW i \in 1 .. Len(r) PROVE Append(q, t)[i] = r[i]
  <2>1. q \in Seq(Messages) /\ Len(q) = h + (hi - lo) /\ Len(r) = h + (hi - lo) + 1
    BY <1>1, <1>2, Zenon
  <2>2. \/ i \in 1 .. (h + (hi - lo)) /\ i \in 1 .. (h + (hi - lo) + 1) /\ i \in 1 .. Len(q)
        \/ i = h + (hi - lo) + 1 /\ i = Len(q) + 1
    BY <2>1
  <2>3. /\ \A j \in 1 .. Len(q) : Append(q, t)[j] = q[j]
        /\ Append(q, t)[Len(q) + 1] = t
    <3>1. q \in Seq(Messages)
      BY <2>1, Zenon
    <3> QED
      BY <1>3, <3>1, Appended
  <2>4. CASE i \in 1 .. (h + (hi - lo)) /\ i \in 1 .. (h + (hi - lo) + 1) /\ i \in 1 .. Len(q)
    <3>1. q[i] = r[i]
      BY <1>1, <1>2, <2>4, Zenon
    <3> QED
      BY <2>3, <2>4, <3>1, Zenon
  <2>5. CASE i = h + (hi - lo) + 1 /\ i = Len(q) + 1
    <3>1. r[i] = t
      BY <1>4, <2>5, Zenon
    <3> QED
      BY <2>3, <2>5, <3>1, Zenon
  <2> QED
    BY <2>2, <2>4, <2>5, Zenon
<1>7. Append(q, t) = r
  BY <1>2, <1>5, <1>6, SeqEqual, Zenon
<1> QED
  BY <1>7, Zenon DEF q, r, t

\* A message is cut short.
LEMMA TransmitCut ==
    ASSUME NEW state \in HandshakeStates, NEW msg \in Messages,
           NEW lo \in Nat, NEW hi \in Nat, lo <= hi, NEW h \in 0 .. 1
    PROVE  Append(Transmitted(state, h, msg, lo, hi, 0), Cut)
             = Transmitted(state, h, msg, lo, hi, 1)
<1> DEFINE q == Transmitted(state, h, msg, lo, hi, 0)
           r == Transmitted(state, h, msg, lo, hi, 1)
<1>1. /\ q \in Seq(Messages) /\ Len(q) = h + (hi - lo)
      /\ \A i \in 1 .. (h + (hi - lo)) : q[i] =
            IF i <= h THEN msg ELSE TransportWrite(state, lo + i - h - 1, lo + i - h)
  BY MessageTypes DEF Transmitted
<1>2. /\ r \in Seq(Messages) /\ Len(r) = h + (hi - lo) + 1
      /\ \A i \in 1 .. (h + (hi - lo)) : r[i] =
            IF i <= h THEN msg ELSE TransportWrite(state, lo + i - h - 1, lo + i - h)
      /\ r[h + (hi - lo) + 1] = Cut
  BY MessageTypes DEF Transmitted
<1>3. Cut \in Messages
  BY MessageTypes, Zenon
<1> HIDE DEF q, r
<1>4. Append(q, Cut) \in Seq(Messages) /\ Len(Append(q, Cut)) = Len(r)
  <2>1. q \in Seq(Messages) /\ Len(r) = Len(q) + 1
    <3>1. Len(q) = h + (hi - lo) /\ Len(r) = h + (hi - lo) + 1
      BY <1>1, <1>2, Zenon
    <3> QED
      BY <1>1, <3>1, Zenon
  <2> QED
    BY <1>3, <2>1, Appended, Zenon
<1>5. ASSUME NEW i \in 1 .. Len(r) PROVE Append(q, Cut)[i] = r[i]
  <2>1. q \in Seq(Messages) /\ Len(q) = h + (hi - lo) /\ Len(r) = h + (hi - lo) + 1
    BY <1>1, <1>2, Zenon
  <2>2. \/ i \in 1 .. (h + (hi - lo)) /\ i \in 1 .. (h + (hi - lo) + 1) /\ i \in 1 .. Len(q)
        \/ i = h + (hi - lo) + 1 /\ i = Len(q) + 1
    BY <2>1
  <2>3. /\ \A j \in 1 .. Len(q) : Append(q, Cut)[j] = q[j]
        /\ Append(q, Cut)[Len(q) + 1] = Cut
    <3>1. q \in Seq(Messages)
      BY <2>1, Zenon
    <3> QED
      BY <1>3, <3>1, Appended
  <2>4. CASE i \in 1 .. (h + (hi - lo)) /\ i \in 1 .. (h + (hi - lo) + 1) /\ i \in 1 .. Len(q)
    <3>1. q[i] = r[i]
      BY <1>1, <1>2, <2>4, Zenon
    <3> QED
      BY <2>3, <2>4, <3>1, Zenon
  <2>5. CASE i = h + (hi - lo) + 1 /\ i = Len(q) + 1
    <3>1. r[i] = Cut
      BY <1>2, <2>5, Zenon
    <3> QED
      BY <2>3, <2>5, <3>1, Zenon
  <2> QED
    BY <2>2, <2>4, <2>5, Zenon
<1>6. Append(q, Cut) = r
  BY <1>2, <1>4, <1>5, SeqEqual, Zenon
<1> QED
  BY <1>6, Zenon DEF q, r

\* The message of the handshake is taken.
LEMMA TakeMsg ==
    ASSUME NEW state \in HandshakeStates, NEW msg \in Messages,
           NEW lo \in Nat, NEW hi \in Nat, lo <= hi, NEW x \in 0 .. 1
    PROVE  LET q == Transmitted(state, 1, msg, lo, hi, x) IN
           /\ q # <<>>
           /\ Head(q) = msg
           /\ Tail(q) = Transmitted(state, 0, msg, lo, hi, x)
<1> DEFINE q == Transmitted(state, 1, msg, lo, hi, x)
           r == Transmitted(state, 0, msg, lo, hi, x)
<1>1. /\ q \in Seq(Messages) /\ Len(q) = 1 + (hi - lo) + x /\ q[1] = msg
      /\ \A i \in 2 .. (1 + (hi - lo) + x) : q[i] =
            IF i <= 1 + (hi - lo) THEN TransportWrite(state, lo + i - 1 - 1, lo + i - 1) ELSE Cut
  BY MessageTypes DEF Transmitted
<1>2. /\ r \in Seq(Messages) /\ Len(r) = (hi - lo) + x
      /\ \A i \in 1 .. ((hi - lo) + x) : r[i] =
            IF i <= hi - lo THEN TransportWrite(state, lo + i - 1, lo + i) ELSE Cut
  BY MessageTypes DEF Transmitted
<1>3. ASSUME NEW i \in 1 .. ((hi - lo) + x) PROVE q[i + 1] = r[i]
  <2>1. i + 1 \in 2 .. (1 + (hi - lo) + x) /\ (i + 1 <= 1 + (hi - lo) <=> i <= hi - lo)
    OBVIOUS
  <2>2. lo + (i + 1) - 1 - 1 = lo + i - 1 /\ lo + (i + 1) - 1 = lo + i
    OBVIOUS
  <2> QED
    BY <1>1, <1>2, <2>1, <2>2, Zenon
<1> HIDE DEF q, r
<1>4. q # <<>> /\ Head(q) = msg
  BY <1>1
<1>5. Tail(q) \in Seq(Messages) /\ Len(Tail(q)) = (hi - lo) + x
  BY <1>1, <1>4, HeadTailProperties
<1>6. \A i \in 1 .. ((hi - lo) + x) : Tail(q)[i] = r[i]
  BY <1>1, <1>3, <1>4, <1>5, HeadTailProperties
<1>7. Tail(q) = r
  BY <1>2, <1>5, <1>6, SeqEqual, Zenon
<1> QED
  BY <1>4, <1>7, Zenon DEF q, r

\* The first frame is taken.
LEMMA TakeFrame ==
    ASSUME NEW state \in HandshakeStates, NEW msg \in Messages,
           NEW lo \in Nat, NEW hi \in Nat, lo < hi, NEW x \in 0 .. 1
    PROVE  LET q == Transmitted(state, 0, msg, lo, hi, x) IN
           /\ q # <<>>
           /\ Head(q) = TransportWrite(state, lo, lo + 1)
           /\ Tail(q) = Transmitted(state, 0, msg, lo + 1, hi, x)
<1> DEFINE q == Transmitted(state, 0, msg, lo, hi, x)
           r == Transmitted(state, 0, msg, lo + 1, hi, x)
<1>1. /\ q \in Seq(Messages) /\ Len(q) = (hi - lo) + x
      /\ \A i \in 1 .. ((hi - lo) + x) : q[i] =
            IF i <= hi - lo THEN TransportWrite(state, lo + i - 1, lo + i) ELSE Cut
  BY MessageTypes DEF Transmitted
<1>2. /\ r \in Seq(Messages) /\ Len(r) = (hi - lo) + x - 1
      /\ \A i \in 1 .. ((hi - lo) + x - 1) : r[i] =
            IF i <= hi - lo - 1 THEN TransportWrite(state, lo + 1 + i - 1, lo + 1 + i) ELSE Cut
  BY MessageTypes DEF Transmitted
<1>3. ASSUME NEW i \in 1 .. ((hi - lo) + x - 1) PROVE q[i + 1] = r[i]
  <2>1. i + 1 \in 1 .. ((hi - lo) + x) /\ (i + 1 <= hi - lo <=> i <= hi - lo - 1)
    OBVIOUS
  <2>2. lo + (i + 1) - 1 = lo + 1 + i - 1 /\ lo + (i + 1) = lo + 1 + i
    OBVIOUS
  <2> QED
    BY <1>1, <1>2, <2>1, <2>2, Zenon
<1>4. q[1] = TransportWrite(state, lo, lo + 1)
  <2>1. lo + 1 - 1 = lo /\ 1 \in 1 .. ((hi - lo) + x) /\ 1 <= hi - lo
    OBVIOUS
  <2> QED
    BY <1>1, <2>1, Zenon
<1> HIDE DEF q, r
<1>5. q # <<>> /\ Head(q) = TransportWrite(state, lo, lo + 1)
  BY <1>1, <1>4
<1>6. Tail(q) \in Seq(Messages) /\ Len(Tail(q)) = (hi - lo) + x - 1
  BY <1>1, <1>5, HeadTailProperties
<1>7. \A i \in 1 .. ((hi - lo) + x - 1) : Tail(q)[i] = r[i]
  BY <1>1, <1>3, <1>5, <1>6, HeadTailProperties
<1>8. Tail(q) = r
  BY <1>2, <1>6, <1>7, SeqEqual, Zenon
<1> QED
  BY <1>5, <1>8, Zenon DEF q, r

\* Some of what is on the wire is read into the buffer.
LEMMA UnreadRead ==
    ASSUME NEW in_msg \in Messages, NEW b \in Seq(Messages), NEW w \in Seq(Messages),
           NEW k \in 0 .. Len(w)
    PROVE  Unread(in_msg, b \o SubSeq(w, 1, k), SubSeq(w, k + 1, Len(w))) = Unread(in_msg, b, w)
<1> DEFINE u == SubSeq(w, 1, k)
           v == SubSeq(w, k + 1, Len(w))
<1>1. u \in Seq(Messages) /\ Len(u) = k /\ \A i \in 1 .. k : u[i] = w[i]
  OBVIOUS
<1>2. v \in Seq(Messages) /\ Len(v) = Len(w) - k /\ \A i \in 1 .. (Len(w) - k) : v[i] = w[k + i]
  OBVIOUS
<1> HIDE DEF u, v
<1>3. u \o v = w
  <2>1. Len(w) \in Nat /\ k \in Nat /\ k <= Len(w)
    OBVIOUS
  <2>2. u \o v \in Seq(Messages) /\ Len(u \o v) = Len(w)
    BY <1>1, <1>2, <2>1
  <2>3. ASSUME NEW i \in 1 .. Len(w) PROVE (u \o v)[i] = w[i]
    <3>1. CASE i <= k
      BY <1>1, <1>2, <2>1, <3>1, SMTT(30)
    <3>2. CASE i > k
      <4>1. i - k \in 1 .. (Len(w) - k) /\ k + (i - k) = i
        BY <2>1, <3>2
      <4>2. v[i - k] = w[i]
        BY <1>2, <4>1, Zenon
      <4> QED
        BY <1>1, <1>2, <2>1, <3>2, <4>2
    <3>3. i <= k \/ i > k
      BY <2>1
    <3> QED
      BY <3>1, <3>2, <3>3, Zenon
  <2> QED
    BY <2>2, <2>3, SeqEqual, Zenon
<1>4. (b \o u) \o v = b \o (u \o v)
  BY <1>1, <1>2, ConcatAssociative, SMTT(30)
<1> QED
  BY <1>3, <1>4, Zenon DEF Unread, u, v

\* What a side has not acted upon is a sequence of messages.
LEMMA UnreadSeq ==
    ASSUME NEW in_msg \in Messages, NEW b \in Seq(Messages), NEW w \in Seq(Messages)
    PROVE  /\ Unread(in_msg, b, w) \in Seq(Messages)
           /\ in_msg # None => Unread(in_msg, b, w) # <<>>
           /\ Unread(None, <<>>, <<>>) = <<>>
<1>1. b \o w \in Seq(Messages)
  OBVIOUS
<1>2. <<in_msg>> \in Seq(Messages)
  OBVIOUS
<1>3. <<in_msg>> \o (b \o w) \in Seq(Messages) /\ Len(<<in_msg>> \o (b \o w)) = 1 + Len(b \o w)
  BY <1>1, <1>2
<1>4. Unread(None, <<>>, <<>>) = <<>>
  BY DEF Unread
<1> QED
  BY <1>1, <1>3, <1>4 DEF Unread

\* The first message of the buffer is handed to the next step.
LEMMA UnreadReceive ==
    ASSUME NEW b \in Seq(Messages), b # <<>>, NEW w \in Seq(Messages), Head(b) # None
    PROVE  Unread(Head(b), Tail(b), w) = Unread(None, b, w)
<1>1. Head(b) \in Messages /\ Tail(b) \in Seq(Messages) /\ <<Head(b)>> \in Seq(Messages)
  OBVIOUS
<1>2. <<Head(b)>> \o Tail(b) = b
  <2>1. <<Head(b)>> \o Tail(b) \in Seq(Messages) /\ Len(<<Head(b)>> \o Tail(b)) = Len(b)
    BY <1>1
  <2>2. \A i \in 1 .. Len(b) : (<<Head(b)>> \o Tail(b))[i] = b[i]
    BY <1>1
  <2> QED
    BY <2>1, <2>2, SeqEqual, Zenon
<1>3. (<<Head(b)>> \o Tail(b)) \o w = <<Head(b)>> \o (Tail(b) \o w)
  BY <1>1, ConcatAssociative
<1> QED
  BY <1>2, <1>3, Zenon DEF Unread

\* A step acts upon the message that was handed to it.
LEMMA UnreadAct ==
    ASSUME NEW in_msg \in Messages, in_msg # None, NEW b \in Seq(Messages), NEW w \in Seq(Messages)
    PROVE  /\ Unread(in_msg, b, w) # <<>>
           /\ Head(Unread(in_msg, b, w)) = in_msg
           /\ Unread(None, b, w) = Tail(Unread(in_msg, b, w))
<1> DEFINE r == b \o w
           q == <<in_msg>> \o r
<1>1. r \in Seq(Messages)
  OBVIOUS
<1> HIDE DEF r
<1>2. q \in Seq(Messages) /\ Len(q) = 1 + Len(r) /\ q[1] = in_msg
  BY <1>1
<1>3. q # <<>> /\ Head(q) = in_msg
  BY <1>2
<1>4. Tail(q) \in Seq(Messages) /\ Len(Tail(q)) = Len(r) /\ \A i \in 1 .. Len(r) : Tail(q)[i] = r[i]
  BY <1>1, <1>2, <1>3
<1>5. Tail(q) = r
  BY <1>1, <1>4, SeqEqual, Zenon
<1> QED
  BY <1>3, <1>5, Zenon DEF Unread, r

\* A message is sent.
LEMMA UnreadSend ==
    ASSUME NEW in_msg \in Messages, NEW b \in Seq(Messages), NEW w \in Seq(Messages),
           NEW msg \in Messages
    PROVE  Unread(in_msg, b, Append(w, msg)) = Append(Unread(in_msg, b, w), msg)
<1>1. ASSUME NEW s \in Seq(Messages), NEW t \in Seq(Messages)
      PROVE  s \o Append(t, msg) = Append(s \o t, msg)
  <2>1. s \o Append(t, msg) \in Seq(Messages) /\ Append(s \o t, msg) \in Seq(Messages)
    BY <1>1
  <2>2. Len(s \o Append(t, msg)) = Len(s) + Len(t) + 1 /\ Len(Append(s \o t, msg)) = Len(s) + Len(t) + 1
    BY <1>1
  <2>3. \A i \in 1 .. (Len(s) + Len(t) + 1) : (s \o Append(t, msg))[i] = Append(s \o t, msg)[i]
    BY <1>1
  <2> QED
    BY <2>1, <2>2, <2>3, SeqEqual, Zenon
<1>2. b \o w \in Seq(Messages) /\ <<in_msg>> \in Seq(Messages)
  OBVIOUS
<1>3. b \o Append(w, msg) = Append(b \o w, msg)
  BY <1>1, Zenon
<1>4. <<in_msg>> \o Append(b \o w, msg) = Append(<<in_msg>> \o (b \o w), msg)
  BY <1>1, <1>2, Zenon
<1> QED
  BY <1>3, <1>4, Zenon DEF Unread

\* The codec takes a message out of the buffer.
LEMMA UnreadConsume ==
    ASSUME NEW b \in Seq(Messages), b # <<>>, NEW w \in Seq(Messages)
    PROVE  /\ Unread(None, b, w) # <<>>
           /\ Head(Unread(None, b, w)) = Head(b)
           /\ Unread(None, Tail(b), w) = Tail(Unread(None, b, w))
<1>1. b \o w \in Seq(Messages) /\ Tail(b) \in Seq(Messages) /\ Tail(b) \o w \in Seq(Messages)
  OBVIOUS
<1>2. b \o w # <<>> /\ Head(b \o w) = Head(b)
  OBVIOUS
<1>3. Tail(b \o w) = Tail(b) \o w
  <2>1. Tail(b \o w) \in Seq(Messages) /\ Len(Tail(b \o w)) = Len(b) + Len(w) - 1
    BY <1>1, <1>2
  <2>2. Len(Tail(b) \o w) = Len(b) + Len(w) - 1
    BY <1>1
  <2>3. \A i \in 1 .. (Len(b) + Len(w) - 1) : Tail(b \o w)[i] = (Tail(b) \o w)[i]
    BY <1>1, <1>2
  <2> QED
    BY <1>1, <2>1, <2>2, <2>3, SeqEqual, Zenon
<1> QED
  BY <1>2, <1>3, Zenon DEF Unread

-----------------------------------------------------------------------------
(* What the two parties agree on                                            *)

\* The responder chooses AES if that is offered, else the other algorithm, and
\* finds none in an empty list only.
LEMMA AlgorithmChosen ==
    ASSUME NEW offered \in Seq(EncryptionAlgorithm)
    PROVE  /\ offered = <<>> => ChooseAlgorithm(offered) = <<>>
           /\ offered # <<>> =>
                LET a == IF "AESGCM" \in Range(offered) THEN "AESGCM" ELSE "ChaChaPoly"
                IN  ChooseAlgorithm(offered) = <<a>> /\ a \in Range(offered)
<1>1. Range(Algorithms) = EncryptionAlgorithm
  <2>1. DOMAIN Algorithms = {1, 2} /\ Algorithms[1] = "AESGCM" /\ Algorithms[2] = "ChaChaPoly"
    BY DEF Algorithms
  <2> QED
    BY <2>1, Zenon DEF Range, EncryptionAlgorithm
<1>2. {i \in DOMAIN offered : offered[i] \in Range(Algorithms)} = 1 .. Len(offered)
  BY <1>1
<1>3. CASE offered = <<>>
  <2>1. Range(offered) = {}
    BY <1>3 DEF Range
  <2>2. 1 .. Len(offered) = {}
    BY <1>3
  <2> QED
    BY <1>2, <1>3, <2>1, <2>2, Zenon DEF ChooseAlgorithm, FirstSupported
<1>4. CASE offered # <<>>
  <2>1. Len(offered) \in Nat /\ Len(offered) > 0
    BY <1>4
  <2>2. Min(1 .. Len(offered)) = 1
    BY <2>1 DEF Min
  <2>3. 1 \in 1 .. Len(offered)
    BY <2>1
  <2>4. FirstSupported(offered) = <<offered[1]>>
    BY <1>2, <2>2, <2>3, Zenon DEF FirstSupported
  <2>5. offered[1] \in Range(offered) /\ offered[1] \in EncryptionAlgorithm
    BY <2>1 DEF Range
  <2> QED
    BY <1>4, <2>4, <2>5, Zenon DEF ChooseAlgorithm, EncryptionAlgorithm
<1> QED
  BY <1>3, <1>4, Zenon

\* What the parties say is a message, and what they agree on a handshake state.
LEMMA AgreedTypes ==
    ASSUME cfg \in Cases
    PROVE  /\ cfg.legacy \in BOOLEAN /\ cfg.header \in BOOLEAN /\ cfg.frames \in Nat
           /\ cfg.algorithms \in Seq(EncryptionAlgorithm)
           /\ {Agreed, LegacyState, NoHandshakeState} \subseteq HandshakeStates
           /\ {Offer, Answer, Reply} \subseteq Messages
           /\ LastStage \in {1, 2}
<1>1. /\ cfg.legacy \in BOOLEAN /\ cfg.header \in BOOLEAN /\ cfg.frames \in Nat
      /\ cfg.algorithms \in Seq(EncryptionAlgorithm)
  BY CasesAssumption, Zenon
<1>2. Chosen \in {"AESGCM", "ChaChaPoly"}
  BY Zenon DEF Chosen
<1>3. <<Chosen>> \in Seq(EncryptionAlgorithm) /\ Answer \in Answers /\ None \in Answers
  BY <1>2 DEF Answer, Answers, NegotiationMessage, EncryptionAlgorithm
<1>4. {Agreed, LegacyState, NoHandshakeState} \subseteq HandshakeStates
  BY <1>2, <1>3 DEF Agreed, LegacyState, NoHandshakeState, HandshakeStates, EncryptionNegotiation,
                    Prologue, EncryptionAlgorithm
<1>5. {Offer, Answer, Reply} \subseteq Messages
  BY <1>1, <1>3, <1>4, MessageTypes, Zenon DEF Offer, Answer, Reply
<1> QED
  BY <1>1, <1>4, <1>5, Zenon DEF LastStage

\* The certificate in the reply holds exactly if the proxy is genuine.
LEMMA GenuineVerified ==
    ASSUME cfg \in Cases
    PROVE  verify_remote_static_key_signature(Reply, cfg.authority, cfg.now) <=> Genuine
<1> DEFINE cert == cfg.ctx.certificate
           part == SignedPart(cert.signed_part_header, Pub(cfg.ctx.secret_key), cfg.authority)
<1>1. /\ cfg.authority = Pub(cfg.authority.public)
      /\ cfg.now \in 0 .. (TIME_MOD - 1)
      /\ cert.signed_part_header.valid_from \in Nat
      /\ cert.signed_part_header.not_valid_after \in Nat
      /\ cert.signature = sign_with(cert.signature.text, cert.signature.by)
  BY CasesAssumption, Zenon
<1>2. /\ from_noise_message(Reply.payload, Reply.remote_static, cfg.authority)
           = Certificate(part, cert.signature)
  BY Zenon DEF from_noise_message, Reply, WriteReply, build_noise_message, SignatureNoiseMessage
<1>3. CertifiedPart(Certificate(part, cert.signature)) = part
  BY Zenon DEF CertifiedPart, Certificate, SignedPart
<1>4. verify_expiration(cert.signed_part_header, cfg.now) <=>
         cfg.now \in cert.signed_part_header.valid_from .. cert.signed_part_header.not_valid_after
  <2>1. cfg.now % TIME_MOD = cfg.now
    BY <1>1, TimeAssumption
  <2> QED
    BY <1>1, <2>1 DEF verify_expiration, system_time_to_unix_time_u32
<1>5. verify(part, cert.signature) <=> cert.signature = sign_with(part, cfg.authority.public)
  <2>1. part.authority_public_key = cfg.authority
    BY Zenon DEF SignedPart
  <2>2. cert.signature = [text |-> cert.signature.text, by |-> cert.signature.by]
    BY <1>1, Zenon DEF sign_with
  <2> QED
    BY <1>1, <2>1, <2>2 DEF verify, sign_with, Pub
<1>6. Certificate(part, cert.signature).signature = cert.signature
  BY Zenon DEF Certificate
<1>7. Certificate(part, cert.signature).signed_part_header = cert.signed_part_header
  BY Zenon DEF Certificate, SignedPart
<1> QED
  BY <1>2, <1>3, <1>4, <1>5, <1>6, <1>7, Zenon
     DEF verify_remote_static_key_signature, validate, Genuine

\* Nothing of this ever changes.
LEMMA AgreedForGood ==
    ASSUME cfg' = cfg
    PROVE  /\ Offer' = Offer /\ Chosen' = Chosen /\ Answer' = Answer /\ Agreed' = Agreed
           /\ Reply' = Reply /\ LastStage' = LastStage
           /\ Genuine' = Genuine /\ CommonAlgorithm' = CommonAlgorithm
  BY Zenon DEF Offer, Chosen, Answer, Agreed, Reply, LastStage, Genuine, CommonAlgorithm

-----------------------------------------------------------------------------
(* What a side has not acted upon, in the states of the invariant           *)

\* The parts of TypeOK that are about one side.
LEMMA SideTypes ==
    ASSUME TypeOK, NEW e \in Sides
    PROVE  /\ ep[e] \in Endpoint /\ wire[e] \in Seq(Messages) /\ closed[e] \in BOOLEAN
           /\ ep[e].in_msg \in Messages /\ ep[e].buf \in Seq(Messages)
           /\ ep[e].stage \in 0 .. 4 /\ ep[e].state \in HandshakeStates
           /\ ep[e].tx \in Nat /\ ep[e].rx \in Nat
           /\ Pending(e) \in Seq(Messages)
<1>1. ep[e] \in Endpoint /\ wire[e] \in Seq(Messages) /\ closed[e] \in BOOLEAN
  BY Zenon DEF TypeOK
<1>2. /\ ep[e].in_msg \in Messages /\ ep[e].buf \in Seq(Messages)
      /\ ep[e].stage \in 0 .. 4 /\ ep[e].state \in HandshakeStates
      /\ ep[e].tx \in Nat /\ ep[e].rx \in Nat
  BY <1>1, Zenon DEF Endpoint
<1> QED
  BY <1>1, <1>2, UnreadSeq, Zenon DEF Pending

\* A step that is not about the relay keeps what is known of it.
LEMMA RelayUntouched ==
    ASSUME UpOK, DrainOK, AccountsOK,
           UNCHANGED <<conn, relay, up, sent, trip, opened, closes>>,
           ep'["server"].rx = ep["server"].rx, ep'["server"].tx = ep["server"].tx,
           closed["client"] => closed'["client"]
    PROVE  UpOK' /\ DrainOK' /\ AccountsOK'
<1>1. UpOK'
  BY Zenon DEF UpOK, FromClient, Numbers
<1>2. DrainOK'
  BY Zenon DEF DrainOK
<1>3. AccountsOK'
  BY Zenon DEF AccountsOK, ClosesTotal
<1> QED
  BY <1>1, <1>2, <1>3, Zenon

\* The message a step of the client is about, and what becomes of it.
LEMMA ClientStepResult ==
    ASSUME IInv, ~closed["client"], ep["client"].pc = "step"
    PROVE  \/ /\ Start
              /\ StepOf("client") = StepResult("ExpectReply", IF cfg.legacy THEN WriteE ELSE Offer,
                                       IF cfg.legacy THEN Agreed ELSE ep["client"].state)
           \/ /\ Answered /\ ep["client"].in_msg = Answer
              /\ StepOf("client") = StepResult("ExpectReply", WriteE, Agreed)
           \/ /\ Proved /\ ep["client"].in_msg = Reply /\ Genuine
              /\ StepOf("client") = StepResult("Done", None, Agreed)
           \/ /\ Proved /\ ep["client"].in_msg = Reply /\ ~Genuine
              /\ StepOf("client") = Failed(Agreed)
<1> DEFINE c == ep["client"]
<1> USE DEF IInv
<1>1. c.in_msg \in Messages /\ c.buf \in Seq(Messages) /\ wire["client"] \in Seq(Messages)
  BY SideTypes, Zenon DEF Sides
<1>2. CASE c.stage = 0
  <2>1. Start
    BY <1>2, AgreedTypes DEF TypeOK, InStep, Start, Offered, Answered, Begun, Proved, Settled
  <2>2. ~cfg.legacy => StepOf("client") = StepResult("ExpectReply", Offer, c.state)
    BY <1>2 DEF StepOf, InitiatorStep, ListAlgorithms, Offer
  <2>3. cfg.legacy => StepOf("client") = StepResult("ExpectReply", WriteE, Agreed)
    BY <1>2 DEF StepOf, LegacyStep, Agreed
  <2> QED
    BY <2>1, <2>2, <2>3, AgreedTypes, Zenon DEF TypeOK
<1>3. CASE c.stage # 0
  <2>1. c.in_msg # None /\ Pending("client") # <<>> /\ Head(Pending("client")) = c.in_msg
    BY <1>1, <1>3, UnreadAct, Zenon DEF ClientOK, Pending
  <2>2. PICK h \in 0 .. 1 : ToClient(h)
    BY Zenon DEF ClientStream
  <2>3. /\ c.pc = "step" /\ c.stage \in 1 .. 4 /\ ep["server"].stage \in 0 .. 4 /\ LastStage \in {1, 2}
        /\ cfg.legacy \in BOOLEAN
    BY <1>3, SideTypes, AgreedTypes, SMTT(30) DEF Sides, TypeOK
  <2>4. c.rx = 0 /\ c.stage # LastStage + 1
    BY <2>3, Zenon DEF ClientOK
  <2>5. Answered \/ Proved
    <3>1. SUFFICES ASSUME ~Answered, ~Proved PROVE FALSE
      BY Zenon
    <3>2. h = 0
      BY <2>2, <3>1 DEF ToClient
    <3>3. ep["server"].stage <= 2
      BY <2>3, <2>4, <3>1 DEF InStep, Start, Offered, Begun, Settled
    <3>4. ep["server"].tx = 0
      BY <2>3, <3>3 DEF ServerOK
    <3>5. Pending("client") = Transmitted(Agreed, 0, ServerMsg, 0, 0, 0)
      BY <2>2, <2>4, <3>2, <3>4, Zenon DEF ToClient
    <3> QED
      BY <2>1, <3>5 DEF Transmitted
  <2>6. h = 1
    BY <2>2, <2>3, <2>5, Zenon DEF ToClient
  <2>7. c.in_msg = ServerMsg
    <3>1. ServerMsg \in Messages /\ Agreed \in HandshakeStates
      BY AgreedTypes, Zenon DEF ServerMsg, TypeOK
    <3>2. c.rx \in Nat /\ ep["server"].tx \in Nat /\ c.rx <= ep["server"].tx
      BY <2>2, SideTypes, Zenon DEF Sides, ToClient
    <3>3. PICK lo \in Nat, hi \in Nat : lo = c.rx /\ hi = ep["server"].tx
      BY <3>2, Zenon
    <3>4. Pending("client") = Transmitted(Agreed, 1, ServerMsg, lo, hi, 0)
      BY <2>2, <2>6, <3>3, Zenon DEF ToClient
    <3>5. lo <= hi
      BY <3>2, <3>3, Zenon
    <3>6. Head(Transmitted(Agreed, 1, ServerMsg, lo, hi, 0)) = ServerMsg
      BY <3>1, <3>5, TakeMsg
    <3> QED
      BY <2>1, <3>4, <3>6, Zenon
  <2>8. CASE Answered
    <3>1. c.stage = 1 /\ ~cfg.legacy /\ c.in_msg = Answer
      BY <2>7, <2>8, Zenon DEF Answered, ServerMsg
    <3>2. /\ Answer.type = "negotiation" /\ Len(Answer.encryption_algos) = 1
          /\ Answer.encryption_algos[1] = Chosen
      BY Zenon DEF Answer, NegotiationMessage
    <3>3. StepOf("client") = ChosenByResponder(Answer, c.state)
      BY <3>1 DEF StepOf, InitiatorStep
    <3> QED
      BY <2>8, <3>1, <3>2, <3>3, Zenon DEF ChosenByResponder, Agreed
  <2>9. CASE ~Answered /\ Proved
    <3>1. c.stage = LastStage /\ c.in_msg = Reply /\ c.state = Agreed
      BY <2>3, <2>7, <2>9 DEF Proved, ServerMsg, ClientOK
    <3>2. StepOf("client") = VerifyResponder(Reply, Agreed, cfg.authority, cfg.now)
      BY <3>1 DEF StepOf, InitiatorStep, LegacyStep, LastStage, Agreed
    <3>3. ReadsReply(Agreed, Reply)
      BY Zenon DEF ReadsReply, Reply, WriteReply
    <3>4. verify_remote_static_key_signature(Reply, cfg.authority, cfg.now) <=> Genuine
      BY GenuineVerified, Zenon DEF TypeOK
    <3> QED
      BY <2>9, <3>1, <3>2, <3>3, <3>4, Zenon DEF VerifyResponder
  <2> QED
    BY <2>5, <2>8, <2>9, Zenon
<1> QED
  BY <1>2, <1>3, Zenon

\* The same of a step of the proxy.
LEMMA ServerStepResult ==
    ASSUME IInv, conn = "noise", ep["server"].pc = "step"
    PROVE  LET s == ep["server"] IN
           \/ /\ s.stage = 0 /\ s.in_msg = None
              /\ StepOf("server") = StepResult("ReceiveMessage", None, s.state)
           \/ /\ Offered /\ s.stage = 1 /\ s.in_msg = Offer /\ CommonAlgorithm
              /\ StepOf("server") = StepResult("ExpectReply", Answer, Agreed)
           \/ /\ Offered /\ s.stage = 1 /\ s.in_msg = Offer /\ ~CommonAlgorithm
              /\ StepOf("server") = Failed(s.state)
           \/ /\ Begun /\ cfg.legacy /\ s.stage = 1 /\ s.in_msg = WriteE
              /\ StepOf("server") = StepResult("NextStep", WriteE, Agreed)
           \/ /\ Begun /\ s.stage = 2 /\ s.in_msg = WriteE
              /\ StepOf("server") = StepResult("NoMoreReply", Reply, Agreed)
           \/ /\ s.stage = 3 /\ s.in_msg = None
              /\ StepOf("server") = StepResult("Done", None, s.state)
<1> DEFINE s == ep["server"]
<1> USE DEF IInv
<1>1. /\ s.in_msg \in Messages /\ s.buf \in Seq(Messages) /\ wire["server"] \in Seq(Messages)
      /\ s.stage \in 0 .. 4 /\ s.stage # 4 /\ s.rx = 0
      /\ ep["client"].stage \in 0 .. 4 /\ LastStage \in {1, 2} /\ cfg.legacy \in BOOLEAN
  BY SideTypes, AgreedTypes, Zenon DEF Sides, ServerOK, TypeOK
<1>2. CASE s.stage \in {0, 3}
  <2>1. s.in_msg = None
    BY <1>2, Zenon DEF ServerOK
  <2> QED
    BY <1>2, <2>1 DEF StepOf, ResponderStep
<1>3. CASE s.stage \in {1, 2}
  <2>1. s.in_msg # None /\ Pending("server") # <<>> /\ Head(Pending("server")) = s.in_msg
    BY <1>1, <1>3, UnreadAct, SMTT(30) DEF ServerOK, Pending
  <2>2. PICK h \in 0 .. 1, x \in 0 .. 1 : ToServer(h, x)
    BY Zenon DEF ServerStream, ServerOK
  <2>3. ep["client"].tx = 0 \/ ep["client"].stage = LastStage + 1
    BY Zenon DEF ClientOK
  <2>4. ep["client"].stage # LastStage + 1
    BY <1>1, <1>3 DEF InStep, Start, Offered, Answered, Begun, Proved, Settled, LastStage
  <2>5. Pending("server") = Transmitted(Agreed, h, ClientMsg, 0, 0, x)
    BY <1>1, <2>2, <2>3, <2>4, Zenon DEF ToServer
  <2>6. h = 1
    <3>1. SUFFICES ASSUME h = 0 PROVE FALSE
      OBVIOUS
    <3>2. CASE x = 0
      BY <2>1, <2>5, <3>1, <3>2 DEF Transmitted
    <3>3. CASE x = 1
      <4>1. /\ Len(Transmitted(Agreed, 0, ClientMsg, 0, 0, 1)) = 1
            /\ Transmitted(Agreed, 0, ClientMsg, 0, 0, 1)[1] = Cut
            /\ Transmitted(Agreed, 0, ClientMsg, 0, 0, 1) \in Seq(Messages)
        BY MessageTypes DEF Transmitted
      <4>2. Head(Pending("server")) = Cut
        BY <2>5, <3>1, <3>3, <4>1
      <4> QED
        BY <2>1, <4>2, Zenon DEF ServerOK
    <3> QED
      BY <3>2, <3>3
  <2>7. Offered \/ Begun
    BY <2>2, <2>6, Zenon DEF ToServer
  <2>8. s.in_msg = ClientMsg
    <3>1. ClientMsg \in Messages
      BY AgreedTypes, MessageTypes, Zenon DEF ClientMsg, TypeOK
    <3>2. /\ Transmitted(Agreed, 1, ClientMsg, 0, 0, x)[1] = ClientMsg
          /\ Len(Transmitted(Agreed, 1, ClientMsg, 0, 0, x)) = 1 + x
          /\ Transmitted(Agreed, 1, ClientMsg, 0, 0, x) \in Seq(Messages)
      BY <3>1, MessageTypes DEF Transmitted
    <3> QED
      BY <2>1, <2>5, <2>6, <3>2
  <2>9. CASE Offered
    <3>1. s.stage = 1 /\ ~cfg.legacy /\ s.in_msg = Offer
      BY <1>3, <2>8, <2>9 DEF Offered, ClientMsg
    <3>2. Offer.type = "negotiation" /\ Offer.encryption_algos = cfg.algorithms
      BY Zenon DEF Offer, NegotiationMessage
    <3>3. StepOf("server") = Negotiate(Offer, s.state)
      BY <3>1, <3>2 DEF StepOf, ResponderStep, FirstMessage
    <3>4. cfg.algorithms \in Seq(EncryptionAlgorithm)
      BY AgreedTypes, Zenon DEF TypeOK
    <3>5. CASE CommonAlgorithm
      <4>1. ChooseAlgorithm(cfg.algorithms) = <<Chosen>>
        BY <3>1, <3>4, <3>5, AlgorithmChosen, Zenon DEF CommonAlgorithm, Chosen
      <4>2. <<Chosen>> # <<>> /\ <<Chosen>>[1] = Chosen
        BY Zenon
      <4>3. Negotiate(Offer, s.state) = StepResult("ExpectReply", Answer, Agreed)
        BY <3>1, <3>2, <4>1, <4>2, Zenon DEF Negotiate, Answer, Agreed
      <4> QED
        BY <2>9, <3>1, <3>3, <3>5, <4>3, Zenon
    <3>6. CASE ~CommonAlgorithm
      <4>1. ChooseAlgorithm(cfg.algorithms) = <<>>
        BY <3>1, <3>4, <3>6, AlgorithmChosen, Zenon DEF CommonAlgorithm
      <4>2. Negotiate(Offer, s.state) = Failed(s.state)
        BY <3>2, <4>1, Zenon DEF Negotiate
      <4> QED
        BY <2>9, <3>1, <3>3, <3>6, <4>2, Zenon
    <3> QED
      BY <3>5, <3>6, Zenon
  <2>10. CASE ~Offered /\ Begun
    <3>1. s.in_msg = WriteE /\ WriteE.type = "e"
      BY <2>8, <2>10, Zenon DEF ClientMsg, WriteE
    <3>2. CASE s.stage = 1
      <4>1. cfg.legacy
        BY <2>10, <3>2 DEF Begun
      <4>2. StepOf("server") = StepResult("NextStep", WriteE, Agreed)
        BY <3>1, <3>2, <4>1 DEF StepOf, ResponderStep, FirstMessage, WithoutNegotiation, Agreed
      <4> QED
        BY <2>10, <3>1, <3>2, <4>1, <4>2, Zenon
    <3>3. CASE s.stage = 2
      <4>1. s.state = Agreed
        BY <3>3 DEF ServerOK
      <4>2. StepOf("server") = StepResult("NoMoreReply", Reply, Agreed)
        BY <3>1, <3>3, <4>1 DEF StepOf, ResponderStep, Authenticate, ReadsE, Reply
      <4> QED
        BY <2>10, <3>1, <3>3, <4>2, Zenon
    <3> QED
      BY <1>3, <3>2, <3>3, Zenon
  <2> QED
    BY <2>7, <2>9, <2>10, Zenon
<1> QED
  BY <1>1, <1>2, <1>3

-----------------------------------------------------------------------------
(* The handshake                                                            *)

\* What is left alone by either side's handshake.
Elsewhere == <<cfg, closed, conn, relay, up, sent, got, listening, trip, opened, closes>>

\* A party after a step.
LEMMA SteppedFields ==
    ASSUME NEW st \in Endpoint, NEW msg \in Messages, NEW state \in HandshakeStates,
           NEW do \in {"ReceiveMessage", "ExpectReply", "NextStep", "NoMoreReply", "Done", "Err"},
           do = "Err" \/ st.stage < 4
    PROVE  LET n == Stepped(st, StepResult(do, msg, state)) IN
           /\ n \in Endpoint
           /\ n.stage = IF do = "Err" THEN st.stage ELSE st.stage + 1
           /\ n.state = state
           /\ n.in_msg = IF do = "NextStep" THEN msg ELSE None
           /\ n.pc = IF do \in {"NextStep", "NoMoreReply"} THEN "step"
                     ELSE IF do = "Done" THEN "open" ELSE IF do = "Err" THEN "failed" ELSE "recv"
           /\ n.eof => st.eof
           /\ n.buf = st.buf /\ n.tx = st.tx /\ n.rx = st.rx /\ n.timeout = st.timeout
<1>1. None \in Messages
  BY MessageTypes, Zenon
<1>2. st.stage \in 0 .. 4 /\ (do = "Err" \/ st.stage + 1 \in 0 .. 4)
  BY DEF Endpoint
<1> QED
  BY <1>1, <1>2, ZenonT(30) DEF Endpoint, Stepped, StepResult, into_framed

\* The client's handshake moves: what that does not touch.
LEMMA ClientMoves ==
    ASSUME IInv, ~closed["client"], UNCHANGED Elsewhere,
           NEW n \in Endpoint, ep' = [ep EXCEPT !["client"] = n],
           n.eof => ep["client"].eof,
           wire' \in [Sides -> Seq(Messages)], wire'["client"] = wire["client"]
    PROVE  /\ TypeOK' /\ ServerOK' /\ EofOK' /\ UpOK' /\ DrainOK' /\ AccountsOK'
           /\ ep'["client"] = n /\ ep'["server"] = ep["server"]
<1> USE DEF IInv
<1>1. ep'["client"] = n /\ ep'["server"] = ep["server"]
  BY Zenon DEF TypeOK, Sides
<1>2. TypeOK'
  <2>1. ep' \in [Sides -> Endpoint]
    BY Zenon DEF TypeOK
  <2> QED
    BY <2>1, Zenon DEF TypeOK, Elsewhere
<1>3. ServerOK'
  BY <1>1, AgreedForGood DEF ServerOK, Elsewhere
<1>4. EofOK'
  BY <1>1, Zenon DEF EofOK, Elsewhere, Sides, Peer
<1>5. UpOK' /\ DrainOK' /\ AccountsOK'
  BY <1>1, RelayUntouched, Zenon DEF Elsewhere
<1> QED
  BY <1>1, <1>2, <1>3, <1>4, <1>5, Zenon

\* The proxy's handshake moves: what that does not touch.
LEMMA ServerMoves ==
    ASSUME IInv, conn = "noise", UNCHANGED Elsewhere,
           NEW n \in Endpoint, ep' = [ep EXCEPT !["server"] = n],
           n.eof => ep["server"].eof, n.tx = ep["server"].tx, n.rx = ep["server"].rx,
           wire' \in [Sides -> Seq(Messages)], wire'["server"] = wire["server"]
    PROVE  /\ TypeOK' /\ ClientOK' /\ EofOK' /\ UpOK' /\ DrainOK' /\ AccountsOK'
           /\ ep'["server"] = n /\ ep'["client"] = ep["client"]
<1> USE DEF IInv
<1>1. ep'["server"] = n /\ ep'["client"] = ep["client"]
  BY Zenon DEF TypeOK, Sides
<1>2. TypeOK'
  <2>1. ep' \in [Sides -> Endpoint]
    BY Zenon DEF TypeOK
  <2> QED
    BY <2>1, Zenon DEF TypeOK, Elsewhere
<1>3. ClientOK'
  BY <1>1, AgreedForGood DEF ClientOK, Elsewhere, Numbers
<1>4. EofOK'
  BY <1>1, Zenon DEF EofOK, ServerOK, Elsewhere, Sides, Peer
<1>5. UpOK' /\ DrainOK' /\ AccountsOK'
  BY <1>1, RelayUntouched, Zenon DEF Elsewhere
<1> QED
  BY <1>1, <1>2, <1>3, <1>4, <1>5, Zenon

\* While no message of the handshake is on its way to the client there are
\* frames only.
LEMMA ClientIdle ==
    ASSUME IInv, ~closed["client"], ~Answered, ~Proved
    PROVE  /\ ep["client"].rx <= ep["server"].tx
           /\ \A m : Pending("client") =
                 Transmitted(Agreed, 0, m, ep["client"].rx, ep["server"].tx, 0)
<1> USE DEF IInv
<1>1. PICK h \in 0 .. 1 : ToClient(h)
  BY Zenon DEF ClientStream
<1>2. h = 0
  BY <1>1 DEF ToClient
<1>3. PICK lo \in Nat, hi \in Nat : lo = ep["client"].rx /\ hi = ep["server"].tx
  BY SideTypes, Zenon DEF Sides
<1>4. lo <= hi /\ Pending("client") = Transmitted(Agreed, 0, ServerMsg, lo, hi, 0)
  BY <1>1, <1>2, <1>3, Zenon DEF ToClient
<1>5. \A m : Transmitted(Agreed, 0, ServerMsg, lo, hi, 0) = Transmitted(Agreed, 0, m, lo, hi, 0)
  BY <1>4 DEF Transmitted
<1> QED
  BY <1>3, <1>4, <1>5, Zenon

\* A step of the client takes the message of the handshake.
LEMMA ClientTakes ==
    ASSUME IInv, ~closed["client"], Answered \/ Proved, ep["client"].pc = "step"
    PROVE  /\ ep["client"].rx <= ep["server"].tx
           /\ \A m : Unread(None, ep["client"].buf, wire["client"]) =
                 Transmitted(Agreed, 0, m, ep["client"].rx, ep["server"].tx, 0)
<1> USE DEF IInv
<1>1. PICK h \in 0 .. 1 : ToClient(h)
  BY Zenon DEF ClientStream
<1>2. h = 1
  BY <1>1, Zenon DEF ToClient
<1>3. PICK lo \in Nat, hi \in Nat : lo = ep["client"].rx /\ hi = ep["server"].tx
  BY SideTypes, Zenon DEF Sides
<1>4. lo <= hi /\ Pending("client") = Transmitted(Agreed, 1, ServerMsg, lo, hi, 0)
  BY <1>1, <1>2, <1>3, Zenon DEF ToClient
<1>5. lo <= hi
  BY <1>4, Zenon
<1>6. ServerMsg \in Messages /\ Agreed \in HandshakeStates
  BY AgreedTypes, Zenon DEF ServerMsg, TypeOK
<1>7. Tail(Transmitted(Agreed, 1, ServerMsg, lo, hi, 0)) = Transmitted(Agreed, 0, ServerMsg, lo, hi, 0)
  <2>1. 0 \in 0 .. 1
    OBVIOUS
  <2> QED
    BY <1>5, <1>6, <2>1, TakeMsg, Zenon
<1>8. \A m : Transmitted(Agreed, 0, ServerMsg, lo, hi, 0) = Transmitted(Agreed, 0, m, lo, hi, 0)
  BY <1>4 DEF Transmitted
<1>9. ep["client"].in_msg # None
  BY AgreedTypes DEF ClientOK, Answered, Proved, TypeOK
<1>10. Unread(None, ep["client"].buf, wire["client"]) = Tail(Pending("client"))
  BY <1>9, SideTypes, UnreadAct, ZenonT(30) DEF Pending, Sides
<1> QED
  BY <1>3, <1>4, <1>7, <1>8, <1>10, Zenon

\* A message of the handshake is sent to the client.
LEMMA ClientGets ==
    ASSUME IInv, conn = "noise", ~closed["client"], Offered \/ Begun, NEW m \in Messages
    PROVE  /\ ep["client"].rx = 0 /\ ep["server"].tx = 0
           /\ Unread(ep["client"].in_msg, ep["client"].buf, Append(wire["client"], m))
                = Transmitted(Agreed, 1, m, 0, 0, 0)
<1> USE DEF IInv
<1>1. /\ LastStage \in {1, 2} /\ ep["client"].stage \in 0 .. 4 /\ ep["server"].stage \in 0 .. 4
      /\ cfg.legacy \in BOOLEAN
  BY AgreedTypes, SideTypes, Zenon DEF Sides, TypeOK
<1>2. ~Answered /\ ~Proved /\ ep["client"].stage # LastStage + 1 /\ ep["server"].stage # 4
  BY <1>1 DEF Offered, Begun, Answered, Proved, LastStage
<1>3. ep["client"].rx = 0 /\ ep["server"].tx = 0
  BY <1>2, Zenon DEF ClientOK, ServerOK
<1>4. Pending("client") = Transmitted(Agreed, 0, m, 0, 0, 0)
  BY <1>2, <1>3, ClientIdle, Zenon
<1>5. Agreed \in HandshakeStates
  BY AgreedTypes, Zenon DEF TypeOK
<1>6. Append(Transmitted(Agreed, 0, m, 0, 0, 0), m) = Transmitted(Agreed, 1, m, 0, 0, 0)
  BY <1>5, TransmitMsg, Zenon
<1>7. /\ ep["client"].in_msg \in Messages /\ ep["client"].buf \in Seq(Messages)
      /\ wire["client"] \in Seq(Messages)
  BY SideTypes, Zenon DEF Sides
<1>8. Unread(ep["client"].in_msg, ep["client"].buf, Append(wire["client"], m))
        = Append(Pending("client"), m)
  BY <1>7, UnreadSend, Zenon DEF Pending
<1> QED
  BY <1>3, <1>4, <1>6, <1>8, Zenon

\* The other direction, at the end of which there may be a message cut short:
\* no message of the handshake is on its way to a proxy that expects none.
LEMMA ServerIdle ==
    ASSUME IInv, ~closed["server"], ~Offered, ~Begun
    PROVE  \E x \in 0 .. 1 :
             /\ x = 1 => closed["client"]
             /\ ep["server"].rx <= ep["client"].tx
             /\ \A m : Pending("server") =
                   Transmitted(Agreed, 0, m, ep["server"].rx, ep["client"].tx, x)
<1> USE DEF IInv
<1>1. PICK h \in 0 .. 1, x \in 0 .. 1 : ToServer(h, x)
  BY Zenon DEF ServerStream
<1>2. h = 0
  BY <1>1 DEF ToServer
<1>3. PICK lo \in Nat, hi \in Nat : lo = ep["server"].rx /\ hi = ep["client"].tx
  BY SideTypes, Zenon DEF Sides
<1>4. /\ lo <= hi /\ Pending("server") = Transmitted(Agreed, 0, ClientMsg, lo, hi, x)
      /\ x = 1 => closed["client"]
  BY <1>1, <1>2, <1>3, Zenon DEF ToServer
<1>5. \A m : Transmitted(Agreed, 0, ClientMsg, lo, hi, x) = Transmitted(Agreed, 0, m, lo, hi, x)
  BY <1>4 DEF Transmitted
<1> QED
  BY <1>3, <1>4, <1>5, Zenon

\* A proxy that works on a message of the handshake leaves the frames behind it
\* where they are.
LEMMA ServerTakes ==
    ASSUME IInv, conn = "noise", Offered \/ Begun, ep["server"].pc = "step",
           ep["server"].stage \in {1, 2}
    PROVE  \E x \in 0 .. 1 :
             /\ x = 1 => closed["client"]
             /\ ep["server"].rx <= ep["client"].tx
             /\ \A m : Unread(None, ep["server"].buf, wire["server"]) =
                   Transmitted(Agreed, 0, m, ep["server"].rx, ep["client"].tx, x)
<1> USE DEF IInv
<1>1. PICK h \in 0 .. 1, x \in 0 .. 1 : ToServer(h, x)
  BY Zenon DEF ServerStream, ServerOK
<1>2. h = 1
  BY <1>1, Zenon DEF ToServer
<1>3. PICK lo \in Nat, hi \in Nat : lo = ep["server"].rx /\ hi = ep["client"].tx
  BY SideTypes, Zenon DEF Sides
<1>4. /\ lo <= hi /\ Pending("server") = Transmitted(Agreed, 1, ClientMsg, lo, hi, x)
      /\ x = 1 => closed["client"]
  BY <1>1, <1>2, <1>3, Zenon DEF ToServer
<1>5. lo <= hi
  BY <1>4, Zenon
<1>6. ClientMsg \in Messages /\ Agreed \in HandshakeStates
  BY AgreedTypes, MessageTypes, Zenon DEF ClientMsg, TypeOK
<1>7. Tail(Transmitted(Agreed, 1, ClientMsg, lo, hi, x)) = Transmitted(Agreed, 0, ClientMsg, lo, hi, x)
  BY <1>5, <1>6, TakeMsg, Zenon
<1>8. \A m : Transmitted(Agreed, 0, ClientMsg, lo, hi, x) = Transmitted(Agreed, 0, m, lo, hi, x)
  BY <1>4 DEF Transmitted
<1>9. ep["server"].in_msg # None
  BY DEF ServerOK
<1>10. Unread(None, ep["server"].buf, wire["server"]) = Tail(Pending("server"))
  BY <1>9, SideTypes, UnreadAct, Zenon DEF Pending, Sides
<1> QED
  BY <1>3, <1>4, <1>7, <1>8, <1>10, Zenon

\* A message that is sent to a proxy in its handshake is the only one it will
\* find.
LEMMA ServerGets ==
    ASSUME IInv, ~closed["client"], ~closed["server"], Start \/ Answered, NEW m \in Messages
    PROVE  /\ ep["server"].rx = 0 /\ ep["client"].tx = 0
           /\ Unread(ep["server"].in_msg, ep["server"].buf, Append(wire["server"], m))
                = Transmitted(Agreed, 1, m, 0, 0, 0)
<1> USE DEF IInv
<1>1. /\ LastStage \in {1, 2} /\ ep["client"].stage \in 0 .. 4 /\ ep["server"].stage \in 0 .. 4
      /\ cfg.legacy \in BOOLEAN
  BY AgreedTypes, SideTypes, Zenon DEF Sides, TypeOK
<1>2. ~Offered /\ ~Begun /\ ep["client"].stage # LastStage + 1 /\ ep["server"].stage # 4
  BY <1>1 DEF Start, Offered, Begun, Answered, LastStage
<1>3. ep["server"].rx = 0 /\ ep["client"].tx = 0
  BY <1>2, Zenon DEF ClientOK, ServerOK
<1>4. Pending("server") = Transmitted(Agreed, 0, m, 0, 0, 0)
  BY <1>2, <1>3, ServerIdle
<1>5. Agreed \in HandshakeStates
  BY AgreedTypes, Zenon DEF TypeOK
<1>6. Append(Transmitted(Agreed, 0, m, 0, 0, 0), m) = Transmitted(Agreed, 1, m, 0, 0, 0)
  BY <1>5, TransmitMsg, Zenon
<1>7. /\ ep["server"].in_msg \in Messages /\ ep["server"].buf \in Seq(Messages)
      /\ wire["server"] \in Seq(Messages)
  BY SideTypes, Zenon DEF Sides
<1>8. Unread(ep["server"].in_msg, ep["server"].buf, Append(wire["server"], m))
        = Append(Pending("server"), m)
  BY <1>7, UnreadSend, ZenonT(30) DEF Pending
<1> QED
  BY <1>3, <1>4, <1>6, <1>8, Zenon

\* The handshake is where it was while the stages are.
LEMMA SamePhase ==
    ASSUME cfg' = cfg, ep'["client"].stage = ep["client"].stage,
           ep'["server"].stage = ep["server"].stage
    PROVE  /\ Offered' = Offered /\ Answered' = Answered /\ Begun' = Begun /\ Proved' = Proved
           /\ InStep' = InStep /\ ClientMsg' = ClientMsg /\ ServerMsg' = ServerMsg
<1>1. /\ Start' = Start /\ Offered' = Offered /\ Answered' = Answered
      /\ Begun' = Begun /\ Proved' = Proved /\ Settled' = Settled
  BY Zenon DEF Start, Offered, Answered, Begun, Proved, Settled, LastStage
<1> QED
  BY <1>1, AgreedForGood, Zenon DEF InStep, ClientMsg, ServerMsg

\* A client in its handshake sends the offer, or e.
LEMMA ClientOffers ==
    ASSUME IInv, ~closed["client"], ep["client"].pc = "step", UNCHANGED Elsewhere,
           Start \/ (Answered /\ ep["client"].in_msg = Answer),
           NEW m \in Messages, NEW state \in HandshakeStates,
           m = IF Start /\ ~cfg.legacy THEN Offer ELSE WriteE,
           state = Agreed \/ (Start /\ ~cfg.legacy),
           ep' = [ep EXCEPT !["client"] = Stepped(@, StepResult("ExpectReply", m, state))],
           wire' = Send("client", m)
    PROVE  IInv'
<1> DEFINE c == ep["client"]
           n == Stepped(c, StepResult("ExpectReply", m, state))
<1> USE DEF IInv
<1>1. /\ cfg.legacy \in BOOLEAN /\ LastStage \in {1, 2} /\ (cfg.legacy <=> LastStage = 1)
      /\ Agreed \in HandshakeStates /\ Offer \in Messages /\ WriteE \in Messages /\ None \in Messages
  <2>1. cfg \in Cases
    BY Zenon DEF TypeOK
  <2> HIDE DEF IInv
  <2> QED
    BY <2>1, AgreedTypes, MessageTypes DEF LastStage
<1>2. /\ c \in Endpoint /\ c.stage \in 0 .. 1 /\ ep["server"].stage \in 0 .. 2
      /\ wire["server"] \in Seq(Messages) /\ wire["client"] \in Seq(Messages)
  BY SideTypes, SMTT(30) DEF Sides, Start, Answered
<1>3. /\ n \in Endpoint /\ n.stage = c.stage + 1 /\ n.state = state /\ n.in_msg = None
      /\ n.pc = "recv" /\ (n.eof => c.eof) /\ n.buf = c.buf /\ n.tx = c.tx /\ n.rx = c.rx
      /\ n.timeout = c.timeout
  BY <1>2, SteppedFields, SMTT(30)
<1> HIDE DEF n
<1>4. ep' = [ep EXCEPT !["client"] = n]
  BY Zenon DEF n
<1>5. /\ wire' \in [Sides -> Seq(Messages)] /\ wire'["client"] = wire["client"]
      /\ ~closed["server"] => wire'["server"] = Append(wire["server"], m)
  BY <1>2 DEF Send, Peer, Sides, TypeOK
<1>6. /\ TypeOK' /\ ServerOK' /\ EofOK' /\ UpOK' /\ DrainOK' /\ AccountsOK'
      /\ ep'["client"] = n /\ ep'["server"] = ep["server"]
  BY <1>3, <1>4, <1>5, ClientMoves, Zenon
<1>7. /\ cfg' = cfg /\ closed' = closed /\ Agreed' = Agreed /\ LastStage' = LastStage
      /\ Genuine' = Genuine /\ Offer' = Offer
  BY AgreedForGood, Zenon DEF Elsewhere
<1>8. /\ ~Answered' /\ ~Proved' /\ (Offered \/ Begun)'
      /\ Offered' <=> Start /\ ~cfg.legacy
  BY <1>1, <1>2, <1>3, <1>6, <1>7 DEF Start, Answered, Proved, Offered, Begun, LastStage
<1>9. InStep'
  BY <1>8, ZenonT(30) DEF InStep
<1>10. ClientOK'
  <2>1. ClientOK
    BY Zenon
  <2> HIDE DEF IInv
  <2> QED
    BY <1>1, <1>2, <1>3, <1>6, <1>7, <2>1, SMTT(30) DEF ClientOK, Elsewhere, Start, Answered
<1>11. ServerStream'
  <2>1. SUFFICES ASSUME ~closed["server"] PROVE ToServer(1, 0)'
    BY <1>7 DEF ServerStream
  <2>2. /\ ep["server"].rx = 0 /\ ep["client"].tx = 0
        /\ Unread(ep["server"].in_msg, ep["server"].buf, Append(wire["server"], m))
             = Transmitted(Agreed, 1, m, 0, 0, 0)
    BY <2>1, ServerGets, Zenon
  <2>3. Pending("server")' = Transmitted(Agreed, 1, m, 0, 0, 0)
    BY <1>5, <1>6, <2>1, <2>2, ZenonT(30) DEF Pending
  <2>4. ClientMsg' = m
    BY <1>7, <1>8, Zenon DEF ClientMsg
  <2> QED
    BY <1>3, <1>6, <1>7, <1>8, <2>2, <2>3, <2>4 DEF ToServer
<1>12. ClientStream'
  <2>1. /\ c.rx <= ep["server"].tx
        /\ \A w : Unread(None, c.buf, wire["client"]) = Transmitted(Agreed, 0, w, c.rx, ep["server"].tx, 0)
    <3>1. CASE Start
      <4>1. ~Answered /\ ~Proved /\ c.in_msg = None
        BY <1>1, <3>1 DEF Start, Answered, Proved, ClientOK
      <4> QED
        BY <4>1, ClientIdle, Zenon DEF Pending
    <3>2. CASE Answered
      BY <3>2, ClientTakes, Zenon
    <3> QED
      BY <3>1, <3>2, Zenon
  <2>2. ToClient(0)'
    BY <1>3, <1>5, <1>6, <1>7, <1>8, <2>1 DEF ToClient, Pending
  <2> QED
    BY <2>2 DEF ClientStream
<1> QED
  BY <1>6, <1>9, <1>10, <1>11, <1>12, Zenon

\* A client takes the reply: it has what it needs, or the proxy is not genuine.
LEMMA ClientVerifies ==
    ASSUME IInv, ~closed["client"], ep["client"].pc = "step", UNCHANGED Elsewhere,
           Proved, NEW do \in {"Done", "Err"}, do = "Done" <=> Genuine,
           ep' = [ep EXCEPT !["client"] = Stepped(@, StepResult(do, None, Agreed))],
           wire' = wire
    PROVE  IInv'
<1> DEFINE c == ep["client"]
           n == Stepped(c, StepResult(do, None, Agreed))
<1> USE DEF IInv
<1>1. /\ cfg.legacy \in BOOLEAN /\ LastStage \in {1, 2} /\ (cfg.legacy <=> LastStage = 1)
      /\ Agreed \in HandshakeStates /\ None \in Messages
  <2>1. cfg \in Cases
    BY Zenon DEF TypeOK
  <2> HIDE DEF IInv
  <2> QED
    BY <2>1, AgreedTypes, MessageTypes DEF LastStage
<1>2. c \in Endpoint /\ c.stage \in 1 .. 2 /\ c.stage = LastStage /\ ep["server"].stage \in 3 .. 4
  BY <1>1, SideTypes, SMTT(30) DEF Sides, Proved
<1>3. /\ n \in Endpoint /\ n.stage = (IF do = "Done" THEN c.stage + 1 ELSE c.stage)
      /\ n.state = Agreed /\ n.in_msg = None
      /\ n.pc = (IF do = "Done" THEN "open" ELSE "failed")
      /\ (n.eof => c.eof) /\ n.buf = c.buf /\ n.tx = c.tx /\ n.rx = c.rx
  <2> HIDE DEF IInv
  <2> QED
    BY <1>1, <1>2, SteppedFields
<1> HIDE DEF n
<1>4. ep' = [ep EXCEPT !["client"] = n] /\ wire' \in [Sides -> Seq(Messages)]
  BY Zenon DEF n, TypeOK
<1>5. /\ TypeOK' /\ ServerOK' /\ EofOK' /\ UpOK' /\ DrainOK' /\ AccountsOK'
      /\ ep'["client"] = n /\ ep'["server"] = ep["server"]
  BY <1>3, <1>4, ClientMoves, ZenonT(30)
<1>6. /\ cfg' = cfg /\ closed' = closed /\ Agreed' = Agreed /\ LastStage' = LastStage
      /\ Genuine' = Genuine
  BY AgreedForGood, Zenon DEF Elsewhere
<1>7. ~Answered' /\ (Proved' => n.pc = "failed") /\ ~Offered' /\ ~Begun' /\ (Proved \/ Settled)'
  BY <1>1, <1>2, <1>3, <1>5, <1>6 DEF Answered, Proved, Settled, Offered, Begun
<1>8. InStep'
  BY <1>7, Zenon DEF InStep
<1>9. ClientOK'
  BY <1>1, <1>2, <1>3, <1>5, <1>6, Zenon DEF ClientOK, Elsewhere
<1>10. ServerStream'
  <2>1. SUFFICES ASSUME ~closed["server"] PROVE \E h, x \in 0 .. 1 : ToServer(h, x)'
    BY <1>6, Zenon DEF ServerStream
  <2>2. ~Offered /\ ~Begun
    BY <1>2 DEF Offered, Begun
  <2>3. PICK x \in 0 .. 1 :
          /\ x = 1 => closed["client"]
          /\ ep["server"].rx <= c.tx
          /\ \A m : Pending("server") = Transmitted(Agreed, 0, m, ep["server"].rx, c.tx, x)
    BY <2>1, <2>2, ServerIdle, Zenon
  <2>4. ToServer(0, x)'
    BY <1>3, <1>5, <1>6, <1>7, <2>3 DEF ToServer, Pending
  <2> QED
    BY <2>4
<1>11. ClientStream'
  <2>1. /\ c.rx <= ep["server"].tx
        /\ \A m : Unread(None, c.buf, wire["client"]) = Transmitted(Agreed, 0, m, c.rx, ep["server"].tx, 0)
    BY ClientTakes, Zenon
  <2>2. ToClient(0)'
    BY <1>3, <1>5, <1>6, <1>7, <2>1 DEF ToClient, Pending
  <2> QED
    BY <2>2 DEF ClientStream
<1> QED
  BY <1>5, <1>8, <1>9, <1>10, <1>11, Zenon

\* A client's handshake fails, for a reason, before the client has looked at
\* what it was sent.
LEMMA ClientFails ==
    ASSUME IInv, ~closed["client"], ep["client"].pc \in {"step", "recv"}, UNCHANGED Elsewhere,
           NEW timeout \in BOOLEAN, timeout \/ closed["server"],
           ep["client"].timeout => timeout,
           ep' = [ep EXCEPT !["client"].pc = "failed", !["client"].timeout = timeout],
           wire' = wire
    PROVE  IInv'
<1> DEFINE c == ep["client"]
           n == [c EXCEPT !.pc = "failed", !.timeout = timeout]
<1> USE DEF IInv
<1>1. c \in Endpoint
  BY SideTypes, Zenon DEF Sides
<1>2. /\ n \in Endpoint /\ n.stage = c.stage /\ n.state = c.state /\ n.in_msg = c.in_msg
      /\ n.pc = "failed" /\ n.eof = c.eof /\ n.buf = c.buf /\ n.tx = c.tx /\ n.rx = c.rx
      /\ n.timeout = timeout
  BY <1>1, Zenon DEF Endpoint
<1>3. ep' = [ep EXCEPT !["client"] = n] /\ wire' \in [Sides -> Seq(Messages)]
  BY Zenon DEF TypeOK, Sides, Endpoint
<1> HIDE DEF n
<1>4. /\ TypeOK' /\ ServerOK' /\ EofOK' /\ UpOK' /\ DrainOK' /\ AccountsOK'
      /\ ep'["client"] = n /\ ep'["server"] = ep["server"]
  BY <1>2, <1>3, ClientMoves, Zenon
<1>5. /\ cfg' = cfg /\ closed' = closed /\ Agreed' = Agreed /\ LastStage' = LastStage
      /\ Genuine' = Genuine
  BY AgreedForGood, Zenon DEF Elsewhere
<1>6. /\ Offered' = Offered /\ Answered' = Answered /\ Begun' = Begun /\ Proved' = Proved
      /\ InStep' /\ ClientMsg' = ClientMsg /\ ServerMsg' = ServerMsg
  BY <1>2, <1>4, <1>5, SamePhase, Zenon
<1>7. ClientOK'
  BY <1>2, <1>4, <1>5, Zenon DEF ClientOK, Elsewhere
<1>8. Pending("client")' = Pending("client") /\ Pending("server")' = Pending("server")
  BY <1>2, <1>4, Zenon DEF Pending
<1>9. ServerStream'
  BY <1>2, <1>4, <1>5, <1>6, <1>8, Zenon DEF ServerStream, ToServer
<1>10. ClientStream'
  BY <1>2, <1>4, <1>5, <1>6, <1>8, Zenon DEF ClientStream, ToClient
<1> QED
  BY <1>4, <1>6, <1>7, <1>9, <1>10, Zenon

\* A step of the client.
LEMMA ClientSteps ==
    ASSUME IInv, Step("client")
    PROVE  IInv'
<1>1. ~closed["client"] /\ ep["client"].pc = "step" /\ UNCHANGED Elsewhere
  BY Zenon DEF Step, Handshaking, Elsewhere
<1>2. /\ cfg.legacy \in BOOLEAN /\ Agreed \in HandshakeStates /\ Offer \in Messages
      /\ WriteE \in Messages /\ ep["client"].state \in HandshakeStates
  BY AgreedTypes, MessageTypes, SideTypes, Zenon DEF IInv, TypeOK, Sides
<1>3. CASE ep' = [ep EXCEPT !["client"].pc = "failed"] /\ closed["server"] /\ wire' = wire
  <2>1. ep' = [ep EXCEPT !["client"].pc = "failed", !["client"].timeout = ep["client"].timeout]
    BY <1>3, ZenonT(30) DEF IInv, TypeOK, Sides, Endpoint
  <2>2. ep["client"].timeout \in BOOLEAN
    BY Zenon DEF IInv, TypeOK, Sides, Endpoint
  <2> QED
    BY <1>1, <1>3, <2>1, <2>2, ClientFails, Zenon
<1>4. CASE /\ ep' = [ep EXCEPT !["client"] = Stepped(@, StepOf("client"))]
           /\ wire' = IF StepOf("client").do \in {"ExpectReply", "NoMoreReply"}
                      THEN Send("client", StepOf("client").msg) ELSE wire
  <2>1. CASE Start /\ StepOf("client") = StepResult("ExpectReply", IF cfg.legacy THEN WriteE ELSE Offer,
                                             IF cfg.legacy THEN Agreed ELSE ep["client"].state)
    <3> DEFINE m == IF cfg.legacy THEN WriteE ELSE Offer
               state == IF cfg.legacy THEN Agreed ELSE ep["client"].state
    <3>1. m \in Messages /\ state \in HandshakeStates
      BY <1>2, Zenon
    <3>2. /\ m = (IF Start /\ ~cfg.legacy THEN Offer ELSE WriteE)
          /\ state = Agreed \/ (Start /\ ~cfg.legacy)
      BY <1>2, <2>1, Zenon
    <3> HIDE DEF m, state
    <3>3. StepOf("client") = StepResult("ExpectReply", m, state)
      BY <2>1, Zenon DEF m, state
    <3>4. StepOf("client").do = "ExpectReply" /\ StepOf("client").msg = m
      BY <3>3 DEF StepResult
    <3>5. /\ ep' = [ep EXCEPT !["client"] = Stepped(@, StepResult("ExpectReply", m, state))]
          /\ wire' = Send("client", m)
      BY <1>4, <3>3, <3>4, Zenon
    <3> QED
      BY <1>1, <2>1, <3>1, <3>2, <3>5, ClientOffers, Zenon
  <2>2. CASE /\ Answered /\ ep["client"].in_msg = Answer
             /\ StepOf("client") = StepResult("ExpectReply", WriteE, Agreed)
    <3>1. ~Start
      BY <2>2 DEF Start, Answered
    <3>2. StepOf("client").do = "ExpectReply" /\ StepOf("client").msg = WriteE
      BY <2>2 DEF StepResult
    <3>3. /\ ep' = [ep EXCEPT !["client"] = Stepped(@, StepResult("ExpectReply", WriteE, Agreed))]
          /\ wire' = Send("client", WriteE)
      BY <1>4, <2>2, <3>2, Zenon
    <3> QED
      BY <1>1, <1>2, <2>2, <3>1, <3>3, ClientOffers, Zenon
  <2>3. CASE /\ Proved /\ Genuine /\ StepOf("client") = StepResult("Done", None, Agreed)
    <3>1. StepOf("client").do = "Done"
      BY <2>3 DEF StepResult
    <3>2. /\ ep' = [ep EXCEPT !["client"] = Stepped(@, StepResult("Done", None, Agreed))]
          /\ wire' = wire
      BY <1>4, <2>3, <3>1, Zenon
    <3> QED
      BY <1>1, <2>3, <3>2, ClientVerifies, Zenon
  <2>4. CASE /\ Proved /\ ~Genuine /\ StepOf("client") = Failed(Agreed)
    <3>1. StepOf("client") = StepResult("Err", None, Agreed) /\ StepOf("client").do = "Err"
      BY <2>4 DEF Failed, StepResult
    <3>2. /\ ep' = [ep EXCEPT !["client"] = Stepped(@, StepResult("Err", None, Agreed))]
          /\ wire' = wire
      BY <1>4, <3>1, Zenon
    <3> QED
      BY <1>1, <2>4, <3>2, ClientVerifies, Zenon
  <2> QED
    BY <1>1, <2>1, <2>2, <2>3, <2>4, ClientStepResult, Zenon
<1> QED
  BY <1>3, <1>4, Zenon DEF Step, Peer

\* The proxy answers the offer, or replies to e.
LEMMA ServerAnswers ==
    ASSUME IInv, conn = "noise", ep["server"].pc = "step", UNCHANGED Elsewhere,
           NEW m \in Messages, NEW do \in {"ExpectReply", "NoMoreReply"},
           \/ Offered /\ ep["server"].stage = 1 /\ CommonAlgorithm /\ m = Answer /\ do = "ExpectReply"
           \/ Begun /\ ep["server"].stage = 2 /\ m = Reply /\ do = "NoMoreReply",
           ep' = [ep EXCEPT !["server"] = Stepped(@, StepResult(do, m, Agreed))],
           wire' = Send("server", m)
    PROVE  IInv'
<1> DEFINE s == ep["server"]
           n == Stepped(s, StepResult(do, m, Agreed))
<1> USE DEF IInv
<1>1. /\ cfg.legacy \in BOOLEAN /\ LastStage \in {1, 2} /\ (cfg.legacy <=> LastStage = 1)
      /\ Agreed \in HandshakeStates /\ None \in Messages /\ None # Cut
  <2>1. cfg \in Cases
    BY Zenon DEF TypeOK
  <2> HIDE DEF IInv
  <2> QED
    BY <2>1, AgreedTypes, MessageTypes DEF LastStage, None, Cut
<1>2. /\ s \in Endpoint /\ s.stage \in 1 .. 2 /\ ep["client"].stage \in 0 .. 4
      /\ wire["server"] \in Seq(Messages) /\ wire["client"] \in Seq(Messages)
  BY SideTypes, SMTT(30) DEF Sides
<1>3. /\ n \in Endpoint /\ n.stage = s.stage + 1 /\ n.state = Agreed /\ n.in_msg = None
      /\ n.pc = (IF do = "NoMoreReply" THEN "step" ELSE "recv")
      /\ (n.eof => s.eof) /\ n.buf = s.buf /\ n.tx = s.tx /\ n.rx = s.rx /\ n.timeout = s.timeout
  BY <1>1, <1>2, SteppedFields, SMTT(30)
<1> HIDE DEF n
<1>4. ep' = [ep EXCEPT !["server"] = n]
  BY Zenon DEF n
<1>5. /\ wire' \in [Sides -> Seq(Messages)] /\ wire'["server"] = wire["server"]
      /\ ~closed["client"] => wire'["client"] = Append(wire["client"], m)
  BY <1>2 DEF Send, Peer, Sides, TypeOK
<1>6. /\ TypeOK' /\ ClientOK' /\ EofOK' /\ UpOK' /\ DrainOK' /\ AccountsOK'
      /\ ep'["server"] = n /\ ep'["client"] = ep["client"]
  BY <1>3, <1>4, <1>5, ServerMoves, Zenon
<1>7. /\ cfg' = cfg /\ closed' = closed /\ conn' = conn /\ Agreed' = Agreed
      /\ LastStage' = LastStage /\ CommonAlgorithm' = CommonAlgorithm
      /\ Answer' = Answer /\ Reply' = Reply
  BY AgreedForGood, Zenon DEF Elsewhere
<1>8. /\ ~Offered' /\ ~Begun'
      /\ (Answered' /\ m = Answer) \/ (Proved' /\ ~Answered' /\ m = Reply)
  BY <1>1, <1>2, <1>3, <1>6, <1>7 DEF Answered, Proved, Offered, Begun, LastStage
<1>9. InStep'
  BY <1>8, ZenonT(30) DEF InStep
<1>10. ServerOK'
  BY <1>1, <1>2, <1>3, <1>6, <1>7 DEF ServerOK
<1>11. ServerStream'
  <2>1. PICK x \in 0 .. 1 :
          /\ x = 1 => closed["client"]
          /\ s.rx <= ep["client"].tx
          /\ \A w : Unread(None, s.buf, wire["server"]) =
                Transmitted(Agreed, 0, w, s.rx, ep["client"].tx, x)
    BY <1>2, ServerTakes, Zenon
  <2>2. ToServer(0, x)'
    BY <1>3, <1>5, <1>6, <1>7, <1>8, <2>1, SMTT(30) DEF ToServer, Pending
  <2> QED
    BY <2>2 DEF ServerStream
<1>12. ClientStream'
  <2>1. SUFFICES ASSUME ~closed["client"] PROVE ToClient(1)'
    BY <1>7 DEF ClientStream
  <2>2. /\ ep["client"].rx = 0 /\ s.tx = 0
        /\ Unread(ep["client"].in_msg, ep["client"].buf, Append(wire["client"], m))
             = Transmitted(Agreed, 1, m, 0, 0, 0)
    BY <2>1, ClientGets, Zenon
  <2>3. Pending("client")' = Transmitted(Agreed, 1, m, 0, 0, 0)
    BY <1>5, <1>6, <2>1, <2>2, ZenonT(30) DEF Pending
  <2>4. ServerMsg' = m
    BY <1>7, <1>8, Zenon DEF ServerMsg
  <2> QED
    BY <1>3, <1>6, <1>7, <1>8, <2>2, <2>3, <2>4, SMTT(30) DEF ToClient
<1> QED
  BY <1>6, <1>9, <1>10, <1>11, <1>12, Zenon

\* A step of the proxy that neither takes a message nor sends one.
LEMMA ServerGoesOn ==
    ASSUME IInv, conn = "noise", ep["server"].pc = "step", UNCHANGED Elsewhere,
           NEW m \in Messages, NEW state \in HandshakeStates, NEW do,
           \/ ep["server"].stage = 0 /\ do = "ReceiveMessage" /\ m = None /\ state = ep["server"].state
           \/ /\ Begun /\ cfg.legacy /\ ep["server"].stage = 1
              /\ do = "NextStep" /\ m = WriteE /\ state = Agreed
           \/ ep["server"].stage = 3 /\ do = "Done" /\ m = None /\ state = ep["server"].state,
           ep["server"].in_msg = m,
           ep' = [ep EXCEPT !["server"] = Stepped(@, StepResult(do, m, state))],
           wire' = wire
    PROVE  IInv'
<1> DEFINE s == ep["server"]
           n == Stepped(s, StepResult(do, m, state))
<1> USE DEF IInv
<1>1. /\ cfg.legacy \in BOOLEAN /\ LastStage \in {1, 2} /\ (cfg.legacy <=> LastStage = 1)
      /\ None # Cut /\ WriteE # Cut /\ WriteE # None
  <2>1. cfg \in Cases
    BY Zenon DEF TypeOK
  <2> HIDE DEF IInv
  <2> QED
    BY <2>1, AgreedTypes DEF LastStage, None, Cut, WriteE
<1>2. s \in Endpoint /\ s.stage \in {0, 1, 3} /\ ep["client"].stage \in 0 .. 4
  BY SideTypes, Zenon DEF Sides
<1>3. /\ n \in Endpoint /\ n.stage = s.stage + 1 /\ n.state = state /\ n.in_msg = s.in_msg
      /\ n.pc = (IF do = "NextStep" THEN "step" ELSE IF do = "Done" THEN "open" ELSE "recv")
      /\ (n.eof => s.eof) /\ n.buf = s.buf /\ n.tx = s.tx /\ n.rx = s.rx /\ n.timeout = s.timeout
  <2>1. do \in {"ReceiveMessage", "ExpectReply", "NextStep", "NoMoreReply", "Done", "Err"}
    BY Zenon
  <2> HIDE DEF IInv
  <2> QED
    BY <1>2, <2>1, SteppedFields
<1> HIDE DEF n
<1>4. ep' = [ep EXCEPT !["server"] = n] /\ wire' \in [Sides -> Seq(Messages)]
  BY Zenon DEF n, TypeOK
<1>5. /\ TypeOK' /\ ClientOK' /\ EofOK' /\ UpOK' /\ DrainOK' /\ AccountsOK'
      /\ ep'["server"] = n /\ ep'["client"] = ep["client"]
  BY <1>3, <1>4, ServerMoves, Zenon
<1>6. /\ cfg' = cfg /\ closed' = closed /\ conn' = conn /\ Agreed' = Agreed /\ Offer' = Offer
      /\ LastStage' = LastStage /\ CommonAlgorithm' = CommonAlgorithm
      /\ Answer' = Answer /\ Reply' = Reply
  BY AgreedForGood, ZenonT(30) DEF Elsewhere
<1>7. /\ Offered' = Offered /\ Answered' = Answered /\ Begun' = Begun /\ Proved' = Proved
      /\ Start' = Start /\ Settled' = Settled
  <2> HIDE DEF IInv
  <2> QED
    BY <1>1, <1>2, <1>3, <1>5, <1>6
       DEF Start, Offered, Answered, Begun, Proved, Settled, LastStage
<1>8. InStep' /\ ClientMsg' = ClientMsg /\ ServerMsg' = ServerMsg
  BY <1>6, <1>7, ZenonT(30) DEF InStep, ClientMsg, ServerMsg
<1>9. ServerOK'
  <2>1. /\ s.stage >= 2 => s.state = Agreed /\ CommonAlgorithm
        /\ s.tx = 0 /\ s.rx = 0 /\ (conn = "closed" <=> closed["server"])
    BY Zenon DEF ServerOK
  <2> HIDE DEF IInv
  <2>2. (s.stage = 0 => ~(n.stage >= 2)) /\ (s.stage = 3 => s.stage >= 2)
    BY <1>3
  <2>3. n.stage >= 2 => n.state = Agreed /\ CommonAlgorithm
    BY <1>3, <2>1, <2>2, Zenon DEF CommonAlgorithm
  <2>4. \/ n.stage = 1 /\ n.pc = "recv" /\ n.in_msg = None
        \/ n.stage = 2 /\ n.pc = "step" /\ n.in_msg = WriteE
        \/ n.stage = 4 /\ n.pc = "open" /\ n.in_msg = None
    BY <1>3
  <2>5. /\ conn' = "noise" /\ closed'["server"] = FALSE /\ n.tx = 0 /\ n.rx = 0
    BY <1>3, <1>6, <2>1
  <2>6. (n.stage = 1 => n.stage \notin {0, 2, 3, 4}) /\ (n.stage = 2 => n.stage \notin {0, 3, 4})
        /\ (n.stage = 4 => n.stage \notin {0, 3})
    OBVIOUS
  <2> QED
    BY <1>1, <1>5, <1>6, <2>3, <2>4, <2>5, <2>6, Zenon DEF ServerOK
<1>10. Pending("client")' = Pending("client") /\ Pending("server")' = Pending("server")
  BY <1>3, <1>5, Zenon DEF Pending
<1>11. ServerStream'
  BY <1>3, <1>5, <1>6, <1>7, <1>8, <1>10, Zenon DEF ServerStream, ToServer
<1>12. ClientStream'
  BY <1>3, <1>5, <1>6, <1>7, <1>8, <1>10, Zenon DEF ClientStream, ToClient
<1> QED
  BY <1>5, <1>8, <1>9, <1>11, <1>12, ZenonT(30)

\* The proxy finds no algorithm in the offer.
LEMMA ServerRejects ==
    ASSUME IInv, conn = "noise", ep["server"].pc = "step", UNCHANGED Elsewhere,
           Offered, ep["server"].stage = 1, ~CommonAlgorithm,
           ep' = [ep EXCEPT !["server"] = Stepped(@, StepResult("Err", None, ep["server"].state))],
           wire' = wire
    PROVE  IInv'
<1> DEFINE s == ep["server"]
           n == Stepped(s, StepResult("Err", None, s.state))
<1> USE DEF IInv
<1>1. None \in Messages /\ None # Cut
  BY MessageTypes, Zenon DEF None, Cut
<1>2. s \in Endpoint /\ s.state \in HandshakeStates
  BY SideTypes, Zenon DEF Sides
<1>3. /\ n \in Endpoint /\ n.stage = s.stage /\ n.state = s.state /\ n.in_msg = None
      /\ n.pc = "failed" /\ (n.eof => s.eof) /\ n.buf = s.buf /\ n.tx = s.tx /\ n.rx = s.rx
  BY <1>1, <1>2, SteppedFields
<1> HIDE DEF n
<1>4. ep' = [ep EXCEPT !["server"] = n] /\ wire' \in [Sides -> Seq(Messages)]
  BY Zenon DEF n, TypeOK
<1>5. /\ TypeOK' /\ ClientOK' /\ EofOK' /\ UpOK' /\ DrainOK' /\ AccountsOK'
      /\ ep'["server"] = n /\ ep'["client"] = ep["client"]
  BY <1>3, <1>4, ServerMoves, Zenon
<1>6. /\ cfg' = cfg /\ closed' = closed /\ conn' = conn /\ Agreed' = Agreed
      /\ CommonAlgorithm' = CommonAlgorithm
  BY AgreedForGood, Zenon DEF Elsewhere
<1>7. /\ Offered' = Offered /\ Answered' = Answered /\ Begun' = Begun /\ Proved' = Proved
      /\ InStep' /\ ClientMsg' = ClientMsg /\ ServerMsg' = ServerMsg
  BY <1>3, <1>5, <1>6, SamePhase, ZenonT(30)
<1>8. ServerOK'
  <2>1. ServerOK
    BY Zenon
  <2> HIDE DEF IInv
  <2> QED
    BY <1>1, <1>3, <1>5, <1>6, <2>1 DEF ServerOK
<1>9. ServerStream'
  <2>1. PICK x \in 0 .. 1 :
          /\ x = 1 => closed["client"]
          /\ s.rx <= ep["client"].tx
          /\ \A w : Unread(None, s.buf, wire["server"]) =
                Transmitted(Agreed, 0, w, s.rx, ep["client"].tx, x)
    BY ServerTakes, Zenon
  <2>2. ToServer(0, x)'
    BY <1>3, <1>5, <1>6, <2>1 DEF ToServer, Pending
  <2> QED
    BY <2>2 DEF ServerStream
<1>10. Pending("client")' = Pending("client")
  BY <1>5, Zenon DEF Pending
<1>11. ClientStream'
  BY <1>3, <1>5, <1>6, <1>7, <1>10, Zenon DEF ClientStream, ToClient
<1> QED
  BY <1>5, <1>7, <1>8, <1>9, <1>11, Zenon

\* The proxy's handshake fails, for a reason, before the proxy has looked at
\* what it was sent.
LEMMA ServerFails ==
    ASSUME IInv, conn = "noise", ep["server"].pc \in {"step", "recv"}, ep["server"].stage \in {1, 2},
           UNCHANGED Elsewhere, NEW timeout \in BOOLEAN, timeout \/ closed["client"],
           ep' = [ep EXCEPT !["server"].pc = "failed", !["server"].timeout = timeout],
           wire' = wire
    PROVE  IInv'
<1> DEFINE s == ep["server"]
           n == [s EXCEPT !.pc = "failed", !.timeout = timeout]
<1> USE DEF IInv
<1>1. s \in Endpoint
  BY SideTypes, Zenon DEF Sides
<1>2. /\ n \in Endpoint /\ n.stage = s.stage /\ n.state = s.state /\ n.in_msg = s.in_msg
      /\ n.pc = "failed" /\ n.eof = s.eof /\ n.buf = s.buf /\ n.tx = s.tx /\ n.rx = s.rx
      /\ n.timeout = timeout
  BY <1>1, Zenon DEF Endpoint
<1>3. ep' = [ep EXCEPT !["server"] = n] /\ wire' \in [Sides -> Seq(Messages)]
  BY Zenon DEF TypeOK, Sides, Endpoint
<1> HIDE DEF n
<1>4. /\ TypeOK' /\ ClientOK' /\ EofOK' /\ UpOK' /\ DrainOK' /\ AccountsOK'
      /\ ep'["server"] = n /\ ep'["client"] = ep["client"]
  BY <1>2, <1>3, ServerMoves, Zenon
<1>5. /\ cfg' = cfg /\ closed' = closed /\ conn' = conn /\ Agreed' = Agreed
      /\ CommonAlgorithm' = CommonAlgorithm
  BY AgreedForGood, Zenon DEF Elsewhere
<1>6. /\ Offered' = Offered /\ Answered' = Answered /\ Begun' = Begun /\ Proved' = Proved
      /\ InStep' /\ ClientMsg' = ClientMsg /\ ServerMsg' = ServerMsg
  BY <1>2, <1>4, <1>5, SamePhase, Zenon
<1>7. ServerOK'
  BY <1>2, <1>4, <1>5 DEF ServerOK
<1>8. Pending("client")' = Pending("client") /\ Pending("server")' = Pending("server")
  BY <1>2, <1>4, Zenon DEF Pending
<1>9. ServerStream'
  BY <1>2, <1>4, <1>5, <1>6, <1>8, Zenon DEF ServerStream, ToServer
<1>10. ClientStream'
  BY <1>2, <1>4, <1>5, <1>6, <1>8, Zenon DEF ClientStream, ToClient
<1> QED
  BY <1>4, <1>6, <1>7, <1>9, <1>10, Zenon

\* A step of the proxy.
LEMMA ServerSteps ==
    ASSUME IInv, Step("server")
    PROVE  IInv'
<1> DEFINE s == ep["server"]
<1>1. conn = "noise" /\ s.pc = "step" /\ UNCHANGED Elsewhere
  BY Zenon DEF Step, Handshaking, Elsewhere
<1>2. /\ Agreed \in HandshakeStates /\ s.state \in HandshakeStates
      /\ {Answer, Reply, WriteE, None} \subseteq Messages
  BY AgreedTypes, MessageTypes, SideTypes, Zenon DEF IInv, TypeOK, Sides
<1>3. CASE /\ ep' = [ep EXCEPT !["server"].pc = "failed"] /\ closed["client"] /\ wire' = wire
           /\ StepOf("server").do \in {"ExpectReply", "NoMoreReply"}
  <2>1. ep' = [ep EXCEPT !["server"].pc = "failed", !["server"].timeout = s.timeout]
    BY <1>3, Zenon DEF IInv, TypeOK, Sides, Endpoint
  <2>2. s.timeout \in BOOLEAN
    BY Zenon DEF IInv, TypeOK, Sides, Endpoint
  <2>3. s.stage \in {1, 2}
    BY <1>1, <1>3, ServerStepResult DEF StepResult
  <2> QED
    BY <1>1, <1>3, <2>1, <2>2, <2>3, ServerFails, Zenon
<1>4. CASE /\ ep' = [ep EXCEPT !["server"] = Stepped(@, StepOf("server"))]
           /\ wire' = IF StepOf("server").do \in {"ExpectReply", "NoMoreReply"}
                      THEN Send("server", StepOf("server").msg) ELSE wire
  <2>1. CASE /\ s.stage = 0 /\ s.in_msg = None
             /\ StepOf("server") = StepResult("ReceiveMessage", None, s.state)
    <3>0. StepOf("server").do = "ReceiveMessage"
      BY <2>1 DEF StepResult
    <3>1. /\ ep' = [ep EXCEPT !["server"] = Stepped(@, StepResult("ReceiveMessage", None, s.state))]
          /\ wire' = wire
      BY <1>4, <2>1, <3>0, Zenon
    <3> QED
      BY <1>1, <1>2, <2>1, <3>1, ServerGoesOn, Zenon
  <2>2. CASE /\ Offered /\ s.stage = 1 /\ CommonAlgorithm
             /\ StepOf("server") = StepResult("ExpectReply", Answer, Agreed)
    <3>1. StepOf("server").do = "ExpectReply" /\ StepOf("server").msg = Answer
      BY <2>2 DEF StepResult
    <3>2. /\ ep' = [ep EXCEPT !["server"] = Stepped(@, StepResult("ExpectReply", Answer, Agreed))]
          /\ wire' = Send("server", Answer)
      BY <1>4, <2>2, <3>1, Zenon
    <3> QED
      BY <1>1, <1>2, <2>2, <3>2, ServerAnswers, ZenonT(30)
  <2>3. CASE /\ Offered /\ s.stage = 1 /\ ~CommonAlgorithm /\ StepOf("server") = Failed(s.state)
    <3>1. StepOf("server") = StepResult("Err", None, s.state) /\ StepOf("server").do = "Err"
      BY <2>3 DEF Failed, StepResult
    <3>2. /\ ep' = [ep EXCEPT !["server"] = Stepped(@, StepResult("Err", None, s.state))]
          /\ wire' = wire
      BY <1>4, <3>1, ZenonT(30)
    <3> QED
      BY <1>1, <2>3, <3>2, ServerRejects, ZenonT(30)
  <2>4. CASE /\ Begun /\ cfg.legacy /\ s.stage = 1 /\ s.in_msg = WriteE
             /\ StepOf("server") = StepResult("NextStep", WriteE, Agreed)
    <3>0. StepOf("server").do = "NextStep"
      BY <2>4 DEF StepResult
    <3>1. /\ ep' = [ep EXCEPT !["server"] = Stepped(@, StepResult("NextStep", WriteE, Agreed))]
          /\ wire' = wire
      BY <1>4, <2>4, <3>0, Zenon
    <3> QED
      BY <1>1, <1>2, <2>4, <3>1, ServerGoesOn, Zenon
  <2>5. CASE Begun /\ s.stage = 2 /\ StepOf("server") = StepResult("NoMoreReply", Reply, Agreed)
    <3>1. StepOf("server").do = "NoMoreReply" /\ StepOf("server").msg = Reply
      BY <2>5 DEF StepResult
    <3>2. /\ ep' = [ep EXCEPT !["server"] = Stepped(@, StepResult("NoMoreReply", Reply, Agreed))]
          /\ wire' = Send("server", Reply)
      BY <1>4, <2>5, <3>1, Zenon
    <3> QED
      BY <1>1, <1>2, <2>5, <3>2, ServerAnswers, Zenon
  <2>6. CASE /\ s.stage = 3 /\ s.in_msg = None
             /\ StepOf("server") = StepResult("Done", None, s.state)
    <3>0. StepOf("server").do = "Done"
      BY <2>6 DEF StepResult
    <3>1. /\ ep' = [ep EXCEPT !["server"] = Stepped(@, StepResult("Done", None, s.state))]
          /\ wire' = wire
      BY <1>4, <2>6, <3>0, ZenonT(30)
    <3> QED
      BY <1>1, <1>2, <2>6, <3>1, ServerGoesOn, Zenon
  <2> QED
    BY <1>1, <2>1, <2>2, <2>3, <2>4, <2>5, <2>6, ServerStepResult, Zenon
<1> QED
  BY <1>3, <1>4, Zenon DEF Step, Peer

\* A step after which both parties are where they were, with as much to act
\* upon as before.
LEMMA NothingHandled ==
    ASSUME IInv, UNCHANGED Elsewhere, TypeOK', EofOK',
           \A e \in Sides :
              /\ ep'[e].pc = ep[e].pc /\ ep'[e].stage = ep[e].stage /\ ep'[e].state = ep[e].state
              /\ ep'[e].in_msg = ep[e].in_msg /\ ep'[e].timeout = ep[e].timeout
              /\ ep'[e].tx = ep[e].tx /\ ep'[e].rx = ep[e].rx
              /\ Pending(e)' = Pending(e),
           conn \in {"none", "proxy"} => ep'["server"] = ep["server"]
    PROVE  IInv'
<1> USE DEF IInv
<1>1. /\ cfg' = cfg /\ closed' = closed /\ conn' = conn /\ Agreed' = Agreed
      /\ CommonAlgorithm' = CommonAlgorithm /\ LastStage' = LastStage /\ Genuine' = Genuine
  BY AgreedForGood, Zenon DEF Elsewhere
<1>2. "client" \in Sides /\ "server" \in Sides
  BY Zenon DEF Sides
<1>3. /\ Offered' = Offered /\ Answered' = Answered /\ Begun' = Begun /\ Proved' = Proved
      /\ InStep' /\ ClientMsg' = ClientMsg /\ ServerMsg' = ServerMsg
  BY <1>1, <1>2, SamePhase, Zenon
<1>4. ClientOK'
  BY <1>1, <1>2, Zenon DEF ClientOK, Elsewhere, Numbers
<1>5. ServerOK'
  BY <1>1, <1>2, Zenon DEF ServerOK
<1>6. UpOK' /\ DrainOK' /\ AccountsOK'
  BY <1>2, RelayUntouched, Zenon DEF Elsewhere
<1>7. ServerStream'
  BY <1>1, <1>2, <1>3, Zenon DEF ServerStream, ToServer
<1>8. ClientStream'
  BY <1>1, <1>2, <1>3, Zenon DEF ClientStream, ToClient
<1> QED
  BY <1>3, <1>4, <1>5, <1>6, <1>7, <1>8, Zenon

\* What is read and what is left are messages.
LEMMA ReadTypes ==
    ASSUME NEW b \in Seq(Messages), NEW w \in Seq(Messages), NEW k \in 0 .. Len(w)
    PROVE  /\ SubSeq(w, 1, k) \in Seq(Messages) /\ SubSeq(w, k + 1, Len(w)) \in Seq(Messages)
           /\ b \o SubSeq(w, 1, k) \in Seq(Messages)
<1>1. SubSeq(w, 1, k) \in Seq(Messages) /\ SubSeq(w, k + 1, Len(w)) \in Seq(Messages)
  OBVIOUS
<1> QED
  BY <1>1

\* Reading from the socket.
LEMMA Reads ==
    ASSUME IInv, NEW e \in Sides, Read(e)
    PROVE  IInv'
<1> USE DEF IInv
<1>1. UNCHANGED Elsewhere /\ ~ep[e].eof /\ (conn \in {"none", "proxy"} => e = "client")
  BY Zenon DEF Read, Polled, Elsewhere, Sides
<1>2. /\ wire[e] \in Seq(Messages) /\ ep[e].buf \in Seq(Messages) /\ ep[e].in_msg \in Messages
  BY SideTypes, Zenon
<1>3. CASE \E k \in 1 .. Len(wire[e]) :
              /\ ep' = [ep EXCEPT ![e].buf = @ \o SubSeq(wire[e], 1, k)]
              /\ wire' = [wire EXCEPT ![e] = SubSeq(@, k + 1, Len(@))]
  <2>1. PICK k \in 1 .. Len(wire[e]) :
              /\ ep' = [ep EXCEPT ![e].buf = @ \o SubSeq(wire[e], 1, k)]
              /\ wire' = [wire EXCEPT ![e] = SubSeq(@, k + 1, Len(@))]
    BY <1>3, Zenon
  <2>2. k \in 0 .. Len(wire[e])
    BY <1>2
  <2>3. PICK b \in Seq(Messages) : b = ep[e].buf \o SubSeq(wire[e], 1, k)
    BY <1>2, <2>2, ReadTypes, Zenon
  <2>4. PICK w \in Seq(Messages) : w = SubSeq(wire[e], k + 1, Len(wire[e]))
    BY <1>2, <2>2, ReadTypes, Zenon
  <2>5. Unread(ep[e].in_msg, b, w) = Unread(ep[e].in_msg, ep[e].buf, wire[e])
    BY <1>2, <2>2, <2>3, <2>4, UnreadRead
  <2>6. ep' = [ep EXCEPT ![e].buf = b] /\ wire' = [wire EXCEPT ![e] = w]
    BY <2>1, <2>3, <2>4, Zenon
  <2>7. TypeOK'
    <3> DEFINE n == [ep[e] EXCEPT !.buf = b]
    <3>1. n \in Endpoint
      BY SideTypes, Zenon DEF Endpoint
    <3>2. ep' = [ep EXCEPT ![e] = n]
      BY <2>6, Zenon DEF TypeOK, Endpoint
    <3> HIDE DEF n
    <3>3. ep' \in [Sides -> Endpoint] /\ wire' \in [Sides -> Seq(Messages)]
      BY <2>6, <3>1, <3>2, Zenon DEF TypeOK
    <3> QED
      BY <1>1, <3>3, Zenon DEF TypeOK, Elsewhere
  <2>8. EofOK'
    BY <1>1, <2>6, SMTT(30) DEF EofOK, TypeOK, Endpoint, Elsewhere
  <2>9. \A d \in Sides :
              /\ ep'[d].pc = ep[d].pc /\ ep'[d].stage = ep[d].stage /\ ep'[d].state = ep[d].state
              /\ ep'[d].in_msg = ep[d].in_msg /\ ep'[d].timeout = ep[d].timeout
              /\ ep'[d].tx = ep[d].tx /\ ep'[d].rx = ep[d].rx
              /\ d = e => ep'[d].buf = b /\ wire'[d] = w
              /\ d # e => ep'[d] = ep[d] /\ wire'[d] = wire[d]
    BY <2>6, SMTT(30) DEF TypeOK, Endpoint
  <2>10. \A d \in Sides : Pending(d)' = Pending(d)
    BY <2>5, <2>9, Zenon DEF Pending
  <2>11. conn \in {"none", "proxy"} => ep'["server"] = ep["server"]
    BY <1>1, <2>9, Zenon DEF Sides
  <2> QED
    BY <1>1, <2>7, <2>8, <2>9, <2>10, <2>11, NothingHandled, Zenon
<1>4. CASE wire[e] = <<>> /\ closed[Peer(e)] /\ ep' = [ep EXCEPT ![e].eof = TRUE] /\ wire' = wire
  <2>1. TypeOK'
    <3> DEFINE n == [ep[e] EXCEPT !.eof = TRUE]
    <3>1. n \in Endpoint
      BY SideTypes, ZenonT(30) DEF Endpoint
    <3>2. ep' = [ep EXCEPT ![e] = n]
      BY <1>4, Zenon DEF TypeOK, Endpoint
    <3> HIDE DEF n
    <3>3. ep' \in [Sides -> Endpoint]
      BY <3>1, <3>2, Zenon DEF TypeOK
    <3> QED
      BY <1>1, <1>4, <3>3, Zenon DEF TypeOK, Elsewhere
  <2>2. \A d \in Sides :
              /\ ep'[d].pc = ep[d].pc /\ ep'[d].stage = ep[d].stage /\ ep'[d].state = ep[d].state
              /\ ep'[d].in_msg = ep[d].in_msg /\ ep'[d].timeout = ep[d].timeout
              /\ ep'[d].tx = ep[d].tx /\ ep'[d].rx = ep[d].rx /\ ep'[d].buf = ep[d].buf
              /\ d # e => ep'[d] = ep[d]
    BY <1>4, SMTT(30) DEF TypeOK, Endpoint
  <2>3. EofOK'
    BY <1>1, <1>4, <2>2, Zenon DEF EofOK, Elsewhere
  <2>4. \A d \in Sides : Pending(d)' = Pending(d)
    BY <1>4, <2>2, Zenon DEF Pending
  <2>5. conn \in {"none", "proxy"} => ep'["server"] = ep["server"]
    BY <1>1, <2>2, Zenon DEF Sides
  <2> QED
    BY <1>1, <2>1, <2>2, <2>3, <2>4, <2>5, NothingHandled, Zenon
<1> QED
  BY <1>3, <1>4, Zenon DEF Read

\* There is always something to be told from nothing in a stream.
LEMMA TransmittedSomething ==
    ASSUME NEW state \in HandshakeStates, NEW msg \in Messages, msg # None,
           NEW lo \in Nat, NEW hi \in Nat, lo <= hi, NEW h \in 0 .. 1, NEW x \in 0 .. 1,
           Transmitted(state, h, msg, lo, hi, x) # <<>>
    PROVE  Head(Transmitted(state, h, msg, lo, hi, x)) # None
<1> DEFINE q == Transmitted(state, h, msg, lo, hi, x)
<1>1. /\ q \in Seq(Messages) /\ Len(q) = h + (hi - lo) + x
      /\ \A i \in 1 .. (h + (hi - lo) + x) : q[i] =
            IF i <= h THEN msg
            ELSE IF i <= h + (hi - lo)
            THEN TransportWrite(state, lo + i - h - 1, lo + i - h)
            ELSE Cut
  BY MessageTypes DEF Transmitted
<1>2. \A n, f : TransportWrite(state, n, f) # None /\ Cut # None
  BY Zenon DEF TransportWrite, Cut, None
<1> HIDE DEF q
<1>3. 1 \in 1 .. Len(q) /\ Head(q) = q[1]
  BY <1>1 DEF q
<1>4. q[1] # None
  BY <1>1, <1>2, <1>3, Zenon
<1> QED
  BY <1>3, <1>4, Zenon DEF q

\* The client is handed a message of the handshake.
LEMMA ClientReceivesMessage ==
    ASSUME IInv, receive_message("client")
    PROVE  IInv'
<1> DEFINE c == ep["client"]
           n == [c EXCEPT !.in_msg = Head(c.buf), !.buf = Tail(c.buf), !.pc = "step"]
<1> USE DEF IInv
<1>1. /\ ~closed["client"] /\ c.pc = "recv" /\ c.buf # <<>> /\ UNCHANGED Elsewhere /\ wire' = wire
      /\ ep' = [ep EXCEPT !["client"].in_msg = Head(c.buf), !["client"].buf = Tail(@),
                          !["client"].pc = "step"]
  BY Zenon DEF receive_message, Handshaking, HasFrame, Elsewhere
<1>2. c \in Endpoint /\ c.buf \in Seq(Messages) /\ wire["client"] \in Seq(Messages)
  BY SideTypes, Zenon DEF Sides
<1>3. Head(c.buf) \in Messages /\ Tail(c.buf) \in Seq(Messages)
  BY <1>1, <1>2
<1>4. c.in_msg = None /\ c.stage > 0 /\ Pending("client") = Unread(None, c.buf, wire["client"])
  BY <1>1, Zenon DEF ClientOK, Pending
<1>5. Head(c.buf) # None /\ (Answered \/ Proved)
  <2>1. PICK h \in 0 .. 1 : ToClient(h)
    BY <1>1, Zenon DEF ClientStream
  <2>2. PICK lo \in Nat, hi \in Nat : lo = c.rx /\ hi = ep["server"].tx
    BY SideTypes, Zenon DEF Sides
  <2>3. lo <= hi /\ Pending("client") = Transmitted(Agreed, h, ServerMsg, lo, hi, 0)
    BY <2>1, <2>2, Zenon DEF ToClient
  <2>4. Pending("client") # <<>> /\ Head(Pending("client")) = Head(c.buf)
    BY <1>1, <1>2, <1>4, UnreadConsume
  <2>5. ServerMsg \in Messages /\ ServerMsg # None /\ Agreed \in HandshakeStates
    BY AgreedTypes, Zenon DEF ServerMsg, TypeOK, Answer, NegotiationMessage, Reply, WriteReply, None
  <2>6. PICK x \in 0 .. 1 : x = 0
    OBVIOUS
  <2>7. Pending("client") = Transmitted(Agreed, h, ServerMsg, lo, hi, x)
    BY <2>3, <2>6, Zenon
  <2>8. Head(c.buf) # None
    BY <2>3, <2>4, <2>5, <2>7, TransmittedSomething, Zenon
  <2>9. ASSUME ~Answered, ~Proved PROVE FALSE
    <3>1. /\ c.stage \in 0 .. 4 /\ ep["server"].stage \in 0 .. 4 /\ LastStage \in {1, 2}
          /\ cfg.legacy \in BOOLEAN /\ c.stage # LastStage + 1
      BY <1>1, SideTypes, AgreedTypes, Zenon DEF Sides, TypeOK, ClientOK
    <3>2. ep["server"].stage <= 2
      BY <1>4, <2>9, <3>1, SMTT(30) DEF InStep, Start, Offered, Begun, Settled
    <3>3. lo = 0 /\ hi = 0 /\ h = 0
      BY <1>1, <2>1, <2>2, <2>9, <3>1, <3>2, SMTT(30) DEF ClientOK, ServerOK, ToClient
    <3>4. Pending("client") = Transmitted(Agreed, 0, ServerMsg, 0, 0, 0)
      BY <2>3, <3>3, Zenon
    <3> QED
      BY <2>4, <3>4 DEF Transmitted
  <2> QED
    BY <2>8, <2>9, Zenon
<1>6. /\ n \in Endpoint /\ n.stage = c.stage /\ n.state = c.state /\ n.in_msg = Head(c.buf)
      /\ n.pc = "step" /\ n.eof = c.eof /\ n.buf = Tail(c.buf) /\ n.tx = c.tx /\ n.rx = c.rx
  BY <1>2, <1>3, Zenon DEF Endpoint
<1>7. ep' = [ep EXCEPT !["client"] = n] /\ wire' \in [Sides -> Seq(Messages)]
  BY <1>1, Zenon DEF TypeOK, Sides, Endpoint
<1> HIDE DEF n
<1>8. /\ TypeOK' /\ ServerOK' /\ EofOK' /\ UpOK' /\ DrainOK' /\ AccountsOK'
      /\ ep'["client"] = n /\ ep'["server"] = ep["server"]
  BY <1>1, <1>6, <1>7, ClientMoves, ZenonT(30)
<1>9. /\ cfg' = cfg /\ closed' = closed /\ Agreed' = Agreed /\ LastStage' = LastStage
      /\ Genuine' = Genuine
  BY <1>1, AgreedForGood, Zenon DEF Elsewhere
<1>10. /\ Offered' = Offered /\ Answered' = Answered /\ Begun' = Begun /\ Proved' = Proved
       /\ InStep' /\ ClientMsg' = ClientMsg /\ ServerMsg' = ServerMsg
  BY <1>6, <1>8, <1>9, SamePhase, ZenonT(30)
<1>11. ClientOK'
  BY <1>1, <1>4, <1>5, <1>6, <1>8, <1>9, SMTT(30) DEF ClientOK, Elsewhere
<1>12. Pending("client")' = Pending("client")
  <2>1. Unread(Head(c.buf), Tail(c.buf), wire["client"]) = Unread(None, c.buf, wire["client"])
    BY <1>1, <1>2, <1>5, UnreadReceive, Zenon
  <2> QED
    BY <1>1, <1>4, <1>6, <1>8, <2>1, Zenon DEF Pending
<1>13. Pending("server")' = Pending("server")
  BY <1>1, <1>8, Zenon DEF Pending
<1>14. ServerStream'
  BY <1>6, <1>8, <1>9, <1>10, <1>13, Zenon DEF ServerStream, ToServer
<1>15. ClientStream'
  BY <1>1, <1>5, <1>6, <1>8, <1>9, <1>10, <1>12, Zenon DEF ClientStream, ToClient
<1> QED
  BY <1>8, <1>10, <1>11, <1>14, <1>15, Zenon

\* The proxy is.
LEMMA ServerReceivesMessage ==
    ASSUME IInv, receive_message("server")
    PROVE  IInv'
<1> DEFINE s == ep["server"]
           n == [s EXCEPT !.in_msg = Head(s.buf), !.buf = Tail(s.buf), !.pc = "step"]
<1> USE DEF IInv
<1>1. /\ conn = "noise" /\ s.pc = "recv" /\ s.buf # <<>> /\ UNCHANGED Elsewhere /\ wire' = wire
      /\ Complete(Head(s.buf))
      /\ ep' = [ep EXCEPT !["server"].in_msg = Head(s.buf), !["server"].buf = Tail(@),
                          !["server"].pc = "step"]
  BY Zenon DEF receive_message, Handshaking, HasFrame, Elsewhere
<1>2. s \in Endpoint /\ s.buf \in Seq(Messages) /\ wire["server"] \in Seq(Messages)
  BY SideTypes, Zenon DEF Sides
<1>3. Head(s.buf) \in Messages /\ Tail(s.buf) \in Seq(Messages)
  BY <1>1, <1>2
<1>4. /\ s.in_msg = None /\ s.stage \in {1, 2}
      /\ Pending("server") = Unread(None, s.buf, wire["server"])
  BY <1>1, Zenon DEF ServerOK, Pending
<1>5. Head(s.buf) # None /\ Head(s.buf) # Cut
  <2>1. PICK h \in 0 .. 1, x \in 0 .. 1 : ToServer(h, x)
    BY <1>1, Zenon DEF ServerStream, ServerOK
  <2>2. PICK lo \in Nat, hi \in Nat : lo = s.rx /\ hi = ep["client"].tx
    BY SideTypes, Zenon DEF Sides
  <2>3. lo <= hi /\ Pending("server") = Transmitted(Agreed, h, ClientMsg, lo, hi, x)
    BY <2>1, <2>2, Zenon DEF ToServer
  <2>4. Pending("server") # <<>> /\ Head(Pending("server")) = Head(s.buf)
    BY <1>1, <1>2, <1>4, UnreadConsume
  <2>5. ClientMsg \in Messages /\ ClientMsg # None /\ Agreed \in HandshakeStates
    BY AgreedTypes, MessageTypes, Zenon DEF ClientMsg, TypeOK, Offer, NegotiationMessage, WriteE, None
  <2>6. Head(s.buf) # None
    BY <2>3, <2>4, <2>5, TransmittedSomething, Zenon
  <2> QED
    BY <1>1, <2>6 DEF Complete, Cut
<1>6. /\ n \in Endpoint /\ n.stage = s.stage /\ n.state = s.state /\ n.in_msg = Head(s.buf)
      /\ n.pc = "step" /\ n.eof = s.eof /\ n.buf = Tail(s.buf) /\ n.tx = s.tx /\ n.rx = s.rx
  BY <1>2, <1>3, Zenon DEF Endpoint
<1>7. ep' = [ep EXCEPT !["server"] = n] /\ wire' \in [Sides -> Seq(Messages)]
  BY <1>1, Zenon DEF TypeOK, Sides, Endpoint
<1> HIDE DEF n
<1>8. /\ TypeOK' /\ ClientOK' /\ EofOK' /\ UpOK' /\ DrainOK' /\ AccountsOK'
      /\ ep'["server"] = n /\ ep'["client"] = ep["client"]
  BY <1>1, <1>6, <1>7, ServerMoves, ZenonT(30)
<1>9. /\ cfg' = cfg /\ closed' = closed /\ conn' = conn /\ Agreed' = Agreed
      /\ CommonAlgorithm' = CommonAlgorithm
  BY <1>1, AgreedForGood, Zenon DEF Elsewhere
<1>10. /\ Offered' = Offered /\ Answered' = Answered /\ Begun' = Begun /\ Proved' = Proved
       /\ InStep' /\ ClientMsg' = ClientMsg /\ ServerMsg' = ServerMsg
  BY <1>6, <1>8, <1>9, SamePhase, Zenon
<1>11. ServerOK'
  BY <1>1, <1>4, <1>5, <1>6, <1>8, <1>9, Zenon DEF ServerOK
<1>12. Pending("server")' = Pending("server")
  <2>1. Unread(Head(s.buf), Tail(s.buf), wire["server"]) = Unread(None, s.buf, wire["server"])
    BY <1>1, <1>2, <1>5, UnreadReceive, Zenon
  <2> QED
    BY <1>1, <1>4, <1>6, <1>8, <2>1, Zenon DEF Pending
<1>13. Pending("client")' = Pending("client")
  BY <1>1, <1>8, Zenon DEF Pending
<1>14. ServerStream'
  BY <1>1, <1>6, <1>8, <1>9, <1>10, <1>12, Zenon DEF ServerStream, ToServer
<1>15. ClientStream'
  BY <1>6, <1>8, <1>9, <1>10, <1>13, Zenon DEF ClientStream, ToClient
<1> QED
  BY <1>8, <1>10, <1>11, <1>14, <1>15, Zenon

\* No message comes any more, or none in time.
LEMMA ReceivingFails ==
    ASSUME IInv, NEW e \in Sides, ReceiveFails(e)
    PROVE  IInv'
<1> USE DEF IInv
<1>1. /\ Handshaking(e) /\ ep[e].pc = "recv" /\ UNCHANGED Elsewhere /\ wire' = wire
      /\ \/ ep[e].eof /\ ep' = [ep EXCEPT ![e].pc = "failed"]
         \/ ep' = [ep EXCEPT ![e].pc = "failed", ![e].timeout = TRUE]
  BY Zenon DEF ReceiveFails, Elsewhere, AtEnd, Broken
<1>2. \E timeout \in BOOLEAN :
         /\ timeout \/ closed[Peer(e)]
         /\ ep[e].timeout => timeout
         /\ ep' = [ep EXCEPT ![e].pc = "failed", ![e].timeout = timeout]
  <2>1. CASE ep[e].eof /\ ep' = [ep EXCEPT ![e].pc = "failed"]
    <3>1. closed[Peer(e)] /\ ep[e].timeout \in BOOLEAN
      BY <2>1, SideTypes, Zenon DEF EofOK, Endpoint
    <3>2. ep' = [ep EXCEPT ![e].pc = "failed", ![e].timeout = ep[e].timeout]
      BY <2>1, Zenon DEF TypeOK, Endpoint
    <3> QED
      BY <3>1, <3>2, Zenon
  <2>2. CASE ep' = [ep EXCEPT ![e].pc = "failed", ![e].timeout = TRUE]
    BY <2>2, Zenon
  <2> QED
    BY <1>1, <2>1, <2>2, Zenon
<1>3. CASE e = "client"
  BY <1>1, <1>2, <1>3, ClientFails, Zenon DEF Handshaking, Peer
<1>4. CASE e = "server"
  <2>1. conn = "noise" /\ ep["server"].stage \in {1, 2}
    BY <1>1, <1>4, Zenon DEF Handshaking, ServerOK
  <2> QED
    BY <1>1, <1>2, <1>4, <2>1, ServerFails, Zenon DEF Peer
<1> QED
  BY <1>3, <1>4, Zenon DEF Sides
=============================================================================
