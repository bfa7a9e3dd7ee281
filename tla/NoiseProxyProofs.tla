-------------------------- MODULE NoiseProxyProofs --------------------------
(***************************************************************************)
(* A connection through the noise proxy: the handshake is sound, fails for *)
(* a reason only, no frame is lost, and the metrics tell the truth.  What  *)
(* follows the handshake keeps the invariant of NoiseHandshakeProofs too.  *)
(***************************************************************************)
EXTENDS NoiseHandshakeProofs

-----------------------------------------------------------------------------
(* The client after the handshake                                           *)

\* A client goes, between two messages or in the middle of one.
LEMMA ClientGoes ==
    ASSUME IInv, ~closed["client"], closed' = [closed EXCEPT !["client"] = TRUE],
           UNCHANGED <<cfg, ep, conn, relay, up, sent, got, listening, trip, opened, closes>>,
           wire' \in {wire, Send("client", Cut)}
    PROVE  IInv'
<1> USE DEF IInv
<1>1. closed'["client"] /\ closed'["server"] = closed["server"] /\ closed' \in [Sides -> BOOLEAN]
  BY Zenon DEF TypeOK, Sides
<1>2. /\ wire' \in [Sides -> Seq(Messages)] /\ wire'["client"] = wire["client"]
      /\ wire'["server"] # wire["server"] =>
            ~closed["server"] /\ wire'["server"] = Append(wire["server"], Cut)
  <2>1. Cut \in Messages /\ wire \in [Sides -> Seq(Messages)] /\ Peer("client") = "server"
    BY MessageTypes, Zenon DEF TypeOK, Peer
  <2>2. \/ wire' = wire
        \/ ~closed["server"] /\ wire' = [wire EXCEPT !["server"] = Append(@, Cut)]
    BY <2>1, Zenon DEF Send
  <2>3. wire["server"] \in Seq(Messages) /\ Append(wire["server"], Cut) \in Seq(Messages)
    BY <2>1 DEF Sides
  <2> QED
    BY <2>1, <2>2, <2>3, Zenon DEF Sides
<1>3. TypeOK'
  BY <1>1, <1>2, Zenon DEF TypeOK
<1>4. /\ Agreed' = Agreed /\ CommonAlgorithm' = CommonAlgorithm /\ Genuine' = Genuine
      /\ LastStage' = LastStage
  BY AgreedForGood, Zenon
<1>5. /\ Offered' = Offered /\ Answered' = Answered /\ Begun' = Begun /\ Proved' = Proved
      /\ InStep' /\ ClientMsg' = ClientMsg /\ ServerMsg' = ServerMsg
  BY SamePhase, Zenon
<1>6. ClientOK' /\ ServerOK'
  BY <1>1, <1>4 DEF ClientOK, ServerOK, Numbers
<1>7. EofOK'
  BY <1>1, <1>2, Zenon DEF EofOK, Sides, Peer
<1>8. UpOK' /\ DrainOK' /\ AccountsOK'
  BY <1>1, RelayUntouched, Zenon
<1>9. ClientStream'
  BY <1>1, Zenon DEF ClientStream
<1>10. ServerStream'
  <2>1. SUFFICES ASSUME ~closed["server"] PROVE \E h, x \in 0 .. 1 : ToServer(h, x)'
    BY <1>1, Zenon DEF ServerStream
  <2>2. PICK h \in 0 .. 1, x \in 0 .. 1 : ToServer(h, x)
    BY <2>1, Zenon DEF ServerStream
  <2>3. x = 0
    BY <2>2 DEF ToServer
  <2>4. CASE wire'["server"] = wire["server"]
    <3>1. ToServer(h, x)'
      BY <1>1, <1>4, <1>5, <2>2, <2>4, Zenon DEF ToServer, Pending
    <3> QED
      BY <3>1, Zenon
  <2>5. CASE wire'["server"] = Append(wire["server"], Cut)
    <3>1. PICK lo \in Nat, hi \in Nat : lo = ep["server"].rx /\ hi = ep["client"].tx
      BY SideTypes, Zenon DEF Sides
    <3>2. lo <= hi /\ Pending("server") = Transmitted(Agreed, h, ClientMsg, lo, hi, 0)
      BY <2>2, <2>3, <3>1, Zenon DEF ToServer
    <3>3. ClientMsg \in Messages /\ Agreed \in HandshakeStates /\ Cut \in Messages
      BY AgreedTypes, MessageTypes, Zenon DEF ClientMsg, TypeOK
    <3>4. Append(Pending("server"), Cut) = Transmitted(Agreed, h, ClientMsg, lo, hi, 1)
      BY <3>2, <3>3, TransmitCut
    <3>5. /\ ep["server"].in_msg \in Messages /\ ep["server"].buf \in Seq(Messages)
          /\ wire["server"] \in Seq(Messages)
      BY SideTypes, Zenon DEF Sides
    <3>6. Unread(ep["server"].in_msg, ep["server"].buf, Append(wire["server"], Cut))
            = Append(Pending("server"), Cut)
      BY <3>3, <3>5, UnreadSend, ZenonT(30) DEF Pending
    <3>7. Pending("server")' = Transmitted(Agreed, h, ClientMsg, lo, hi, 1)
      BY <2>5, <3>4, <3>6, Zenon DEF Pending
    <3>8. ToServer(h, 1)'
      BY <1>1, <1>4, <1>5, <2>2, <3>1, <3>2, <3>7, Zenon DEF ToServer
    <3> QED
      BY <3>8
  <2> QED
    BY <1>2, <2>4, <2>5, Zenon
<1> QED
  BY <1>3, <1>5, <1>6, <1>7, <1>8, <1>9, <1>10, Zenon

\* The handshake is over for a client that is established.
LEMMA ClientEstablished ==
    ASSUME IInv, ep["client"].pc = "open"
    PROVE  /\ ~Offered /\ ~Answered /\ ~Begun /\ ~Proved
           /\ ep["client"].state = Agreed /\ ep["client"].in_msg = None
           /\ ep["server"].stage >= 3
<1> USE DEF IInv
<1>1. LastStage \in {1, 2} /\ cfg.legacy \in BOOLEAN /\ (cfg.legacy <=> LastStage = 1)
  <2>1. cfg \in Cases
    BY Zenon DEF TypeOK
  <2> HIDE DEF IInv
  <2> QED
    BY <2>1, AgreedTypes DEF LastStage
<1>2. ep["client"].stage = LastStage + 1
  BY Zenon DEF ClientOK
<1> QED
  BY <1>1, <1>2 DEF ClientOK, InStep, Start, Offered, Answered, Begun, Proved, Settled

\* And for a proxy that is.
LEMMA ServerEstablished ==
    ASSUME IInv, ep["server"].pc = "open"
    PROVE  /\ ~Offered /\ ~Answered /\ ~Begun
           /\ ep["server"].state = Agreed /\ ep["server"].in_msg = None
<1> USE DEF IInv
<1>1. ep["server"].stage = 4
  BY Zenon DEF ServerOK
<1> QED
  BY <1>1 DEF ServerOK, Offered, Answered, Begun

\* The first message in the buffer of a party with frames only to come, if it
\* is not cut short, is the next frame, and the codec reads it.
LEMMA NextFrame ==
    ASSUME NEW b \in Seq(Messages), b # <<>>, Complete(Head(b)), NEW w \in Seq(Messages),
           NEW state \in HandshakeStates, NEW lo \in Nat, NEW hi \in Nat, lo <= hi,
           NEW x \in 0 .. 1, Unread(None, b, w) = Transmitted(state, 0, None, lo, hi, x)
    PROVE  /\ lo < hi
           /\ Head(b) = TransportWrite(state, lo, lo + 1)
           /\ TransportReads(state, lo, Head(b))
           /\ Unread(None, Tail(b), w) = Transmitted(state, 0, None, lo + 1, hi, x)
<1>1. /\ Unread(None, b, w) # <<>> /\ Head(Unread(None, b, w)) = Head(b)
      /\ Unread(None, Tail(b), w) = Tail(Unread(None, b, w))
  BY UnreadConsume, Zenon
<1>2. None \in Messages
  BY MessageTypes, Zenon
<1>3. lo < hi
  <2>1. SUFFICES ASSUME lo = hi PROVE FALSE
    OBVIOUS
  <2> DEFINE q == Transmitted(state, 0, None, lo, hi, x)
  <2>2. q \in Seq(Messages) /\ Len(q) = x /\ \A i \in 1 .. x : q[i] = Cut
    BY <1>2, <2>1, MessageTypes DEF Transmitted
  <2>3. q # <<>>
    BY <1>1, Zenon
  <2> HIDE DEF q
  <2>4. Head(q) = Cut
    BY <2>2, <2>3
  <2>5. Head(b) = Cut
    BY <1>1, <2>4, Zenon DEF q
  <2> QED
    BY <2>5 DEF Complete, Cut
<1>4. /\ Head(Transmitted(state, 0, None, lo, hi, x)) = TransportWrite(state, lo, lo + 1)
      /\ Tail(Transmitted(state, 0, None, lo, hi, x)) = Transmitted(state, 0, None, lo + 1, hi, x)
  BY <1>2, <1>3, TakeFrame, ZenonT(30)
<1>5. Head(b) = TransportWrite(state, lo, lo + 1)
  BY <1>1, <1>4, Zenon
<1>6. TransportReads(state, lo, Head(b))
  BY <1>5 DEF TransportReads, TransportWrite
<1> QED
  BY <1>1, <1>3, <1>4, <1>5, <1>6, Zenon

\* The next number.
LEMMA NextNumber ==
    ASSUME NEW n \in Nat
    PROVE  Append(Numbers(n), n + 1) = Numbers(n + 1) /\ Numbers(n) \in Seq(Nat) /\ Len(Numbers(n)) = n
<1>1. Numbers(n) \in Seq(Nat) /\ Len(Numbers(n)) = n /\ \A i \in 1 .. n : Numbers(n)[i] = i
  BY DEF Numbers
<1>2. /\ Numbers(n + 1) \in Seq(Nat) /\ Len(Numbers(n + 1)) = n + 1
      /\ \A i \in 1 .. (n + 1) : Numbers(n + 1)[i] = i
  BY DEF Numbers
<1>3. /\ Append(Numbers(n), n + 1) \in Seq(Nat) /\ Len(Append(Numbers(n), n + 1)) = n + 1
      /\ \A i \in 1 .. (n + 1) : Append(Numbers(n), n + 1)[i] = i
  BY <1>1
<1>4. Append(Numbers(n), n + 1) = Numbers(n + 1)
  BY <1>2, <1>3, SeqEqual, Zenon
<1> QED
  BY <1>1, <1>4, Zenon

\* The client sends a frame.
LEMMA ClientSendsFrame ==
    ASSUME IInv, ClientSends
    PROVE  IInv'
<1> DEFINE c == ep["client"]
           n == [c EXCEPT !.tx = c.tx + 1]
           t == TransportWrite(Agreed, c.tx, c.tx + 1)
<1> USE DEF IInv
<1>1. /\ c.pc = "open" /\ ~closed["client"]
      /\ sent' = [sent EXCEPT !.client = @ + 1]
      /\ ep' = [ep EXCEPT !["client"].tx = @ + 1]
      /\ wire' = Send("client", Encode("client", sent'.client))
      /\ UNCHANGED <<cfg, closed, conn, relay, up, got, listening, trip, opened, closes>>
  BY Zenon DEF ClientSends, Established
<1>2. /\ ~Offered /\ ~Answered /\ ~Begun /\ ~Proved /\ c.state = Agreed /\ c.in_msg = None
  BY <1>1, ClientEstablished, Zenon
<1>3. /\ c \in Endpoint /\ c.tx \in Nat /\ wire["server"] \in Seq(Messages)
      /\ ep["server"].in_msg \in Messages /\ ep["server"].buf \in Seq(Messages)
      /\ Agreed \in HandshakeStates
  BY SideTypes, AgreedTypes, Zenon DEF Sides, TypeOK
<1>4. /\ sent' \in [client : Nat, upstream : Nat] /\ sent'.client = c.tx + 1
      /\ sent'.upstream = sent.upstream
  <2>1. sent \in [client : Nat, upstream : Nat] /\ sent.client = c.tx
    BY Zenon DEF ClientOK, TypeOK
  <2>2. sent' = [sent EXCEPT !.client = @ + 1]
    BY <1>1, Zenon
  <2> QED
    BY <2>1, <2>2
<1>5. t \in Messages
  BY <1>3, MessageTypes
<1>6. wire' = Send("client", t)
  BY <1>1, <1>2, <1>4, Zenon DEF Encode
<1> HIDE DEF t
<1>7. /\ wire' \in [Sides -> Seq(Messages)] /\ wire'["client"] = wire["client"]
      /\ ~closed["server"] => wire'["server"] = Append(wire["server"], t)
  BY <1>3, <1>5, <1>6 DEF Send, Peer, Sides, TypeOK
<1>8. /\ n \in Endpoint /\ n.stage = c.stage /\ n.state = c.state /\ n.in_msg = c.in_msg
      /\ n.pc = c.pc /\ n.eof = c.eof /\ n.buf = c.buf /\ n.tx = c.tx + 1 /\ n.rx = c.rx
  <2>1. c.tx + 1 \in Nat
    BY <1>3
  <2> QED
    BY <1>3, <2>1, Zenon DEF Endpoint
<1>9. ep' = [ep EXCEPT !["client"] = n]
  BY <1>1, Zenon DEF TypeOK, Sides, Endpoint
<1> HIDE DEF n
<1>10. /\ ep'["client"] = n /\ ep'["server"] = ep["server"] /\ ep' \in [Sides -> Endpoint]
  BY <1>8, <1>9, Zenon DEF TypeOK, Sides
<1>11. TypeOK'
  BY <1>1, <1>4, <1>7, <1>10, Zenon DEF TypeOK
<1>12. /\ Agreed' = Agreed /\ CommonAlgorithm' = CommonAlgorithm /\ Genuine' = Genuine
       /\ LastStage' = LastStage
  BY <1>1, AgreedForGood, Zenon
<1>13. /\ ~Offered' /\ ~Answered' /\ ~Begun' /\ ~Proved' /\ InStep'
  BY <1>1, <1>2, <1>8, <1>10, SamePhase
<1>14. ClientOK'
  BY <1>1, <1>4, <1>8, <1>10, <1>12, Zenon DEF ClientOK
<1>15. ServerOK'
  BY <1>1, <1>10, <1>12, Zenon DEF ServerOK
<1>16. EofOK'
  BY <1>1, <1>7, <1>8, <1>10, Zenon DEF EofOK, Sides, Peer
<1>17. UpOK' /\ AccountsOK'
  BY <1>1, <1>4, <1>10, Zenon DEF UpOK, FromClient, Numbers, AccountsOK, ClosesTotal
<1>18. DrainOK'
  BY <1>1, <1>4, <1>10, Zenon DEF DrainOK
<1>19. ClientStream'
  <2>1. /\ c.rx <= ep["server"].tx
        /\ \A m : Pending("client") = Transmitted(Agreed, 0, m, c.rx, ep["server"].tx, 0)
    BY <1>1, <1>2, ClientIdle, Zenon
  <2>2. ToClient(0)'
    BY <1>2, <1>7, <1>8, <1>10, <1>12, <1>13, <2>1, SMTT(30) DEF ToClient, Pending
  <2> QED
    BY <2>2 DEF ClientStream
<1>20. ServerStream'
  <2>1. SUFFICES ASSUME ~closed["server"] PROVE ToServer(0, 0)'
    BY <1>1 DEF ServerStream
  <2>2. PICK x \in 0 .. 1 :
          /\ x = 1 => closed["client"]
          /\ ep["server"].rx <= c.tx
          /\ \A m : Pending("server") = Transmitted(Agreed, 0, m, ep["server"].rx, c.tx, x)
    BY <1>2, <2>1, ServerIdle, Zenon
  <2>3. PICK lo \in Nat, hi \in Nat : lo = ep["server"].rx /\ hi = c.tx
    BY SideTypes, Zenon DEF Sides
  <2>4. lo <= hi /\ x = 0 /\ \A m : Pending("server") = Transmitted(Agreed, 0, m, lo, hi, 0)
    BY <1>1, <2>2, <2>3
  <2>5. lo <= hi
    BY <2>4, Zenon
  <2>6. \A m \in Messages : Append(Transmitted(Agreed, 0, m, lo, hi, 0), TransportWrite(Agreed, hi, hi + 1))
               = Transmitted(Agreed, 0, m, lo, hi + 1, 0)
    <3>1. 0 \in 0 .. 1
      OBVIOUS
    <3> QED
      BY <1>3, <2>5, <3>1, TransmitFrame, ZenonT(30)
  <2>7. t = TransportWrite(Agreed, hi, hi + 1)
    BY <2>3, Zenon DEF t
  <2>8. ClientMsg' \in Messages
    BY <1>13, MessageTypes, Zenon DEF ClientMsg
  <2>9. Pending("server")' = Append(Pending("server"), t)
    <3>1. Unread(ep["server"].in_msg, ep["server"].buf, Append(wire["server"], t))
            = Append(Pending("server"), t)
      BY <1>3, <1>5, UnreadSend, ZenonT(30) DEF Pending
    <3> QED
      BY <1>7, <1>10, <2>1, <3>1, Zenon DEF Pending
  <2>10. Pending("server")' = Transmitted(Agreed, 0, ClientMsg', lo, hi + 1, 0)
    BY <2>4, <2>6, <2>7, <2>8, <2>9, Zenon
  <2> QED
    BY <1>8, <1>10, <1>12, <1>13, <2>3, <2>5, <2>10, SMTT(30) DEF ToServer
<1> QED
  BY <1>11, <1>13, <1>14, <1>15, <1>16, <1>17, <1>18, <1>19, <1>20, Zenon

\* The client receives a frame.
LEMMA ClientReceivesFrame ==
    ASSUME IInv, ClientReceives
    PROVE  IInv'
<1> DEFINE c == ep["client"]
           n == [c EXCEPT !.buf = Tail(c.buf), !.rx = c.rx + 1]
<1> USE DEF IInv
<1>1. /\ c.pc = "open" /\ ~closed["client"] /\ c.buf # <<>> /\ Complete(Head(c.buf))
      /\ ep' = Consumed("client")
      /\ got' = IF Decodes("client") THEN Append(got, Head(c.buf).frame) ELSE got
      /\ UNCHANGED <<cfg, wire, closed, conn, relay, up, sent, listening, trip, opened, closes>>
  BY Zenon DEF ClientReceives, Established, HasFrame
<1>2. /\ ~Offered /\ ~Answered /\ ~Begun /\ ~Proved /\ c.state = Agreed /\ c.in_msg = None
  BY <1>1, ClientEstablished, Zenon
<1>3. /\ c \in Endpoint /\ c.rx \in Nat /\ c.buf \in Seq(Messages) /\ wire["client"] \in Seq(Messages)
      /\ Agreed \in HandshakeStates /\ ep["server"].tx \in Nat
  BY SideTypes, AgreedTypes, Zenon DEF Sides, TypeOK
<1>4. PICK lo \in Nat, hi \in Nat : lo = c.rx /\ hi = ep["server"].tx
  BY <1>3, Zenon
<1>5. lo <= hi /\ Unread(None, c.buf, wire["client"]) = Transmitted(Agreed, 0, None, lo, hi, 0)
  BY <1>1, <1>2, <1>4, ClientIdle, Zenon DEF Pending
<1>6. /\ lo < hi
      /\ Head(c.buf) = TransportWrite(Agreed, lo, lo + 1)
      /\ TransportReads(Agreed, lo, Head(c.buf))
      /\ Unread(None, Tail(c.buf), wire["client"]) = Transmitted(Agreed, 0, None, lo + 1, hi, 0)
  <2>1. PICK x \in 0 .. 1 : x = 0
    OBVIOUS
  <2>2. Unread(None, c.buf, wire["client"]) = Transmitted(Agreed, 0, None, lo, hi, x)
    BY <1>5, <2>1, Zenon
  <2>3. lo <= hi
    BY <1>5, Zenon
  <2>4. PICK b \in Seq(Messages), w \in Seq(Messages) : b = c.buf /\ w = wire["client"]
    BY <1>3, Zenon
  <2>5. b # <<>> /\ Complete(Head(b)) /\ Unread(None, b, w) = Transmitted(Agreed, 0, None, lo, hi, x)
    BY <1>1, <2>2, <2>4, Zenon
  <2>6. /\ lo < hi
        /\ Head(b) = TransportWrite(Agreed, lo, lo + 1)
        /\ TransportReads(Agreed, lo, Head(b))
        /\ Unread(None, Tail(b), w) = Transmitted(Agreed, 0, None, lo + 1, hi, x)
    BY <1>3, <2>3, <2>5, NextFrame
  <2> QED
    BY <2>1, <2>4, <2>6, Zenon
<1>7. Decodes("client") /\ Head(c.buf).frame = lo + 1
  BY <1>2, <1>4, <1>6, SMTT(30) DEF Decodes, TransportWrite
<1>8. got = Numbers(lo) /\ got' = Numbers(lo + 1) /\ got' \in Seq(Nat)
  <2>1. got = Numbers(lo)
    BY <1>4, Zenon DEF ClientOK
  <2>2. Append(Numbers(lo), lo + 1) = Numbers(lo + 1) /\ Numbers(lo) \in Seq(Nat)
    BY NextNumber, Zenon
  <2> QED
    BY <1>1, <1>7, <2>1, <2>2
<1>9. /\ n \in Endpoint /\ n.stage = c.stage /\ n.state = c.state /\ n.in_msg = c.in_msg
      /\ n.pc = c.pc /\ n.eof = c.eof /\ n.buf = Tail(c.buf) /\ n.tx = c.tx /\ n.rx = lo + 1
  <2>1. c.rx + 1 \in Nat /\ Tail(c.buf) \in Seq(Messages)
    BY <1>1, <1>3
  <2> QED
    BY <1>3, <1>4, <2>1, Zenon DEF Endpoint
<1>10. ep' = [ep EXCEPT !["client"] = n]
  BY <1>1, <1>7, Zenon DEF Consumed, TypeOK, Sides, Endpoint
<1> HIDE DEF n
<1>11. /\ ep'["client"] = n /\ ep'["server"] = ep["server"] /\ ep' \in [Sides -> Endpoint]
  BY <1>9, <1>10, Zenon DEF TypeOK, Sides
<1>12. TypeOK'
  BY <1>1, <1>8, <1>11, Zenon DEF TypeOK
<1>13. /\ Agreed' = Agreed /\ CommonAlgorithm' = CommonAlgorithm /\ Genuine' = Genuine
       /\ LastStage' = LastStage
  BY <1>1, AgreedForGood, Zenon
<1>14. /\ ~Offered' /\ ~Answered' /\ ~Begun' /\ ~Proved' /\ InStep'
  <2>1. cfg' = cfg /\ ep'["client"].stage = c.stage /\ ep'["server"].stage = ep["server"].stage
    BY <1>1, <1>9, <1>11, Zenon
  <2> QED
    BY <1>2, <2>1, SamePhase
<1>15. ClientOK'
  BY <1>1, <1>8, <1>9, <1>11, <1>13, ZenonT(30) DEF ClientOK
<1>16. ServerOK'
  BY <1>1, <1>11, <1>13, Zenon DEF ServerOK
<1>17. EofOK'
  BY <1>1, <1>9, <1>11, Zenon DEF EofOK, Sides, Peer
<1>18. UpOK' /\ DrainOK' /\ AccountsOK'
  BY <1>1, <1>11, RelayUntouched, Zenon
<1>19. ClientStream'
  <2>1. \A m : Transmitted(Agreed, 0, None, lo + 1, hi, 0) = Transmitted(Agreed, 0, m, lo + 1, hi, 0)
    BY <1>6 DEF Transmitted
  <2>2. Pending("client")' = Transmitted(Agreed, 0, ServerMsg', lo + 1, hi, 0)
    BY <1>1, <1>2, <1>6, <1>9, <1>11, <2>1, Zenon DEF Pending
  <2>3. lo + 1 <= hi
    BY <1>6
  <2>4. ToClient(0)'
    BY <1>2, <1>4, <1>9, <1>11, <1>13, <1>14, <2>2, <2>3, SMTT(30) DEF ToClient
  <2> QED
    BY <2>4 DEF ClientStream
<1>20. ServerStream'
  <2>1. SUFFICES ASSUME ~closed["server"] PROVE \E h, x \in 0 .. 1 : ToServer(h, x)'
    BY <1>1, Zenon DEF ServerStream
  <2>2. PICK x \in 0 .. 1 :
          /\ x = 1 => closed["client"]
          /\ ep["server"].rx <= c.tx
          /\ \A m : Pending("server") = Transmitted(Agreed, 0, m, ep["server"].rx, c.tx, x)
    BY <1>2, <2>1, ServerIdle, Zenon
  <2>3. ToServer(0, x)'
    BY <1>1, <1>9, <1>11, <1>13, <1>14, <2>2 DEF ToServer, Pending
  <2> QED
    BY <2>3
<1> QED
  BY <1>12, <1>14, <1>15, <1>16, <1>17, <1>18, <1>19, <1>20, Zenon

-----------------------------------------------------------------------------
(* The main loop and the task                                               *)

\* A step that leaves both streams alone.
LEMMA StreamsUntouched ==
    ASSUME IInv, UNCHANGED <<cfg, ep, wire, got>>, sent'.client = sent.client,
           closed'["client"] = closed["client"], closed["server"] => closed'["server"]
    PROVE  /\ InStep' /\ ClientOK' /\ EofOK' /\ ServerStream' /\ ClientStream'
           /\ Agreed' = Agreed /\ CommonAlgorithm' = CommonAlgorithm
<1> USE DEF IInv
<1>1. /\ Agreed' = Agreed /\ CommonAlgorithm' = CommonAlgorithm /\ Genuine' = Genuine
      /\ LastStage' = LastStage
  BY AgreedForGood, Zenon
<1>2. /\ Offered' = Offered /\ Answered' = Answered /\ Begun' = Begun /\ Proved' = Proved
      /\ InStep' /\ ClientMsg' = ClientMsg /\ ServerMsg' = ServerMsg
  BY SamePhase, Zenon
<1>3. ClientOK'
  BY <1>1, Zenon DEF ClientOK, Numbers
<1>4. EofOK'
  BY Zenon DEF EofOK, Sides, Peer
<1>5. ServerStream'
  BY <1>1, <1>2, Zenon DEF ServerStream, ToServer, Pending
<1>6. ClientStream'
  BY <1>1, <1>2, Zenon DEF ClientStream, ToClient, Pending
<1> QED
  BY <1>1, <1>2, <1>3, <1>4, <1>5, <1>6, Zenon

\* A connection is accepted; the main loop ends; the tripwire is pulled.
LEMMA MainLoop ==
    ASSUME IInv, AcceptConnection \/ StopListening \/ PullTripwire
    PROVE  IInv'
<1> USE DEF IInv
<1>1. UNCHANGED <<cfg, ep, wire, closed, relay, up, sent, got, closes>>
  BY Zenon DEF AcceptConnection, StopListening, PullTripwire
<1>2. /\ InStep' /\ ClientOK' /\ EofOK' /\ ServerStream' /\ ClientStream'
      /\ Agreed' = Agreed /\ CommonAlgorithm' = CommonAlgorithm
  BY <1>1, StreamsUntouched, Zenon
<1>3. /\ conn' = conn \/ (conn = "none" /\ conn' = "proxy")
      /\ trip => trip'
      /\ opened' = opened + (IF conn' = conn THEN 0 ELSE 1)
      /\ listening' \in BOOLEAN /\ trip' \in BOOLEAN
  <2>1. opened \in Nat /\ listening \in BOOLEAN /\ trip \in BOOLEAN
    BY Zenon DEF TypeOK
  <2>2. CASE AcceptConnection
    BY <2>1, <2>2, Zenon DEF AcceptConnection
  <2>3. CASE StopListening
    <3>1. opened' = opened /\ conn' = conn /\ trip' = trip /\ listening' = FALSE
      BY <2>3, Zenon DEF StopListening
    <3>2. opened' = opened + (IF conn' = conn THEN 0 ELSE 1)
      BY <2>1, <3>1
    <3> QED
      BY <2>1, <3>1, <3>2, Zenon
  <2>4. CASE PullTripwire
    BY <2>1, <2>4 DEF PullTripwire
  <2> QED
    BY <2>2, <2>3, <2>4, Zenon
<1>4. TypeOK'
  BY <1>1, <1>3 DEF TypeOK
<1>5. ServerOK'
  BY <1>1, <1>2, <1>3, Zenon DEF ServerOK
<1>6. UpOK'
  BY <1>1, <1>3, Zenon DEF UpOK, FromClient, Numbers
<1>7. DrainOK'
  BY <1>1, <1>3, Zenon DEF DrainOK
<1>8. AccountsOK'
  BY <1>1, <1>3, <1>4, SMTT(30) DEF AccountsOK, ClosesTotal, TypeOK, Stages
<1> QED
  BY <1>2, <1>4, <1>5, <1>6, <1>7, <1>8, Zenon

\* The task ends.
LEMMA TaskEnds ==
    ASSUME IInv, NEW stage \in Stages, Ends(stage), conn \in {"proxy", "noise", "relay"},
           up' = up \/ up' = [up EXCEPT !.told = TRUE],
           stage = "ok" => conn = "relay" /\ ~relay.down_to_up
    PROVE  IInv'
<1> USE DEF IInv
<1>1. /\ UNCHANGED <<cfg, ep, wire, relay, sent, got, listening, trip, opened>>
      /\ conn' = "closed" /\ closed' = [closed EXCEPT !["server"] = TRUE]
      /\ closes' = [closes EXCEPT ![stage] = @ + 1]
  BY Zenon DEF Ends, account_tcp_close_in_stage
<1>2. /\ closed'["client"] = closed["client"] /\ closed'["server"] /\ closed' \in [Sides -> BOOLEAN]
  BY <1>1, Zenon DEF TypeOK, Sides
<1>3. /\ InStep' /\ ClientOK' /\ EofOK' /\ ServerStream' /\ ClientStream'
      /\ Agreed' = Agreed /\ CommonAlgorithm' = CommonAlgorithm
  BY <1>1, <1>2, StreamsUntouched, Zenon
<1>4. closes' \in [Stages -> Nat] /\ \A i \in Stages : closes'[i] = closes[i] + (IF i = stage THEN 1 ELSE 0)
  BY <1>1 DEF TypeOK
<1>5. /\ up' \in Upstream /\ up'.got = up.got /\ up'.queue = up.queue /\ up'.open = up.open
      /\ up'.early = up.early
  BY Zenon DEF TypeOK, Upstream
<1>6. TypeOK'
  BY <1>1, <1>2, <1>4, <1>5, Zenon DEF TypeOK
<1>7. ServerOK'
  BY <1>1, <1>2, <1>3, Zenon DEF ServerOK
<1>8. UpOK'
  BY <1>1, <1>5, Zenon DEF UpOK, FromClient, Numbers
<1>9. DrainOK'
  BY <1>1, <1>2, <1>4, Zenon DEF DrainOK, Stages, TypeOK
<1>10. AccountsOK'
  <2>1. \A i \in Stages : closes[i] \in Nat
    BY Zenon DEF TypeOK
  <2>2. ClosesTotal' = ClosesTotal + 1 /\ ClosesTotal \in Nat
    BY <1>4, <2>1 DEF ClosesTotal, Stages
  <2> QED
    BY <1>1, <2>2 DEF AccountsOK
<1> QED
  BY <1>3, <1>6, <1>7, <1>8, <1>9, <1>10, Zenon

\* The acceptor hands over what it has read.
LEMMA AcceptorDone ==
    ASSUME IInv, ProxyAccepted
    PROVE  IInv'
<1> DEFINE s == ep["server"]
<1> USE DEF IInv
<1>1. /\ conn = "proxy" /\ conn' = "noise"
      /\ UNCHANGED <<cfg, closed, relay, up, sent, got, listening, trip, opened, closes>>
  BY Zenon DEF ProxyAccepted
<1>2. PICK k \in 0 .. Len(wire["server"]) :
          /\ ep' = [ep EXCEPT !["server"].buf = SubSeq(wire["server"], 1, k)]
          /\ wire' = [wire EXCEPT !["server"] = SubSeq(@, k + 1, Len(@))]
  BY Zenon DEF ProxyAccepted
<1>3. /\ s = NewEndpoint /\ s \in Endpoint /\ wire["server"] \in Seq(Messages)
      /\ s.buf = <<>> /\ s.in_msg = None /\ ~s.eof
  <2>1. ServerOK /\ TypeOK
    BY Zenon
  <2> HIDE DEF IInv
  <2> QED
    BY <1>1, <2>1, SideTypes DEF ServerOK, Sides, NewEndpoint
<1>4. None \in Messages /\ <<>> \in Seq(Messages)
  BY MessageTypes
<1>5. PICK b \in Seq(Messages) : b = SubSeq(wire["server"], 1, k)
  BY <1>3, <1>4, ReadTypes, Zenon
<1>6. PICK w \in Seq(Messages) : w = SubSeq(wire["server"], k + 1, Len(wire["server"]))
  BY <1>3, <1>4, ReadTypes, Zenon
<1>7. Unread(None, b, w) = Unread(None, <<>>, wire["server"])
  <2>0. PICK x \in Seq(Messages), e \in Seq(Messages) : x = wire["server"] /\ e = <<>>
    BY <1>3, <1>4, Zenon
  <2>1. Unread(None, <<>> \o b, w) = Unread(None, <<>>, wire["server"])
    <3>1. k \in 0 .. Len(x) /\ b = SubSeq(x, 1, k) /\ w = SubSeq(x, k + 1, Len(x))
      BY <1>5, <1>6, <2>0, Zenon
    <3>2. Unread(None, e \o SubSeq(x, 1, k), SubSeq(x, k + 1, Len(x))) = Unread(None, e, x)
      BY <1>4, <3>1, UnreadRead, ZenonT(30)
    <3> QED
      BY <2>0, <3>1, <3>2, Zenon
  <2>2. <<>> \o b = b
    OBVIOUS
  <2> QED
    BY <2>1, <2>2, Zenon
<1> DEFINE n == [s EXCEPT !.buf = b]
<1>8. /\ n \in Endpoint /\ n.pc = s.pc /\ n.stage = s.stage /\ n.state = s.state
      /\ n.in_msg = s.in_msg /\ n.buf = b /\ n.eof = s.eof /\ n.tx = s.tx /\ n.rx = s.rx
      /\ n.timeout = s.timeout
  BY <1>3, Zenon DEF Endpoint
<1>9. ep' = [ep EXCEPT !["server"] = n]
  BY <1>2, <1>5, Zenon DEF TypeOK, Sides, Endpoint
<1> HIDE DEF n
<1>10. /\ ep'["server"] = n /\ ep'["client"] = ep["client"] /\ ep' \in [Sides -> Endpoint]
       /\ wire'["server"] = w /\ wire'["client"] = wire["client"] /\ wire' \in [Sides -> Seq(Messages)]
  BY <1>2, <1>6, <1>8, <1>9, ZenonT(30) DEF TypeOK, Sides
<1>11. TypeOK'
  BY <1>1, <1>10, Zenon DEF TypeOK
<1>12. /\ Agreed' = Agreed /\ CommonAlgorithm' = CommonAlgorithm /\ Genuine' = Genuine
       /\ LastStage' = LastStage
  BY <1>1, AgreedForGood, Zenon
<1>13. /\ Offered' = Offered /\ Answered' = Answered /\ Begun' = Begun /\ Proved' = Proved
       /\ InStep' /\ ClientMsg' = ClientMsg /\ ServerMsg' = ServerMsg
  BY <1>1, <1>8, <1>10, SamePhase, Zenon
<1>14. ClientOK'
  BY <1>1, <1>10, <1>12, Zenon DEF ClientOK, Numbers
<1>15. ServerOK'
  BY <1>1, <1>3, <1>8, <1>10, <1>12, Zenon DEF ServerOK
<1>16. EofOK'
  <2>1. ~ep'["server"].eof
    BY <1>3, <1>8, <1>10, Zenon
  <2> QED
    BY <1>1, <1>10, <2>1, Zenon DEF EofOK, Sides, Peer
<1>17. UpOK'
  BY <1>1, <1>8, <1>10, Zenon DEF UpOK, FromClient, Numbers
<1>18. DrainOK' /\ AccountsOK'
  BY <1>1, <1>8, <1>10, Zenon DEF DrainOK, AccountsOK, ClosesTotal
<1>19. /\ Pending("server")' = Pending("server") /\ Pending("client")' = Pending("client")
  BY <1>3, <1>7, <1>8, <1>10, Zenon DEF Pending
<1>20. ServerStream'
  BY <1>1, <1>8, <1>10, <1>12, <1>13, <1>19, Zenon DEF ServerStream, ToServer
<1>21. ClientStream'
  BY <1>1, <1>8, <1>10, <1>12, <1>13, <1>19, Zenon DEF ClientStream, ToClient
<1> QED
  BY <1>11, <1>13, <1>14, <1>15, <1>16, <1>17, <1>18, <1>20, <1>21, Zenon

\* The upstream is connected.
LEMMA UpstreamConnected ==
    ASSUME IInv, connect_upstream
    PROVE  IInv'
<1> USE DEF IInv
<1>1. /\ conn = "noise" /\ ep["server"].pc = "open" /\ conn' = "relay"
      /\ relay' = [down_to_up |-> TRUE, up_to_down |-> TRUE, sending |-> {}]
      /\ up' = [up EXCEPT !.open = TRUE, !.got = IF cfg.header THEN <<ProxyHeader>> ELSE <<>>]
      /\ UNCHANGED <<cfg, ep, wire, closed, sent, got, listening, trip, opened, closes>>
  BY Zenon DEF connect_upstream, Established
<1>2. /\ InStep' /\ ClientOK' /\ EofOK' /\ ServerStream' /\ ClientStream'
      /\ Agreed' = Agreed /\ CommonAlgorithm' = CommonAlgorithm
  BY <1>1, StreamsUntouched, Zenon
<1>3. up'.got \in {<<>>, <<ProxyHeader>>} /\ up'.got \in Seq(Nat)
  BY <1>1 DEF TypeOK, Upstream, ProxyHeader
<1>4. /\ up' \in Upstream /\ up'.open /\ up'.queue = up.queue /\ up'.told = up.told
      /\ up'.early = up.early
  BY <1>1, <1>3, Zenon DEF TypeOK, Upstream
<1>5. FromClient' = <<>>
  <2>1. Head(<<ProxyHeader>>) = ProxyHeader /\ Tail(<<ProxyHeader>>) = <<>> /\ <<ProxyHeader>> # <<>>
    BY DEF ProxyHeader
  <2> QED
    BY <1>3, <2>1, Zenon DEF FromClient
<1>6. Numbers(0) = <<>>
  BY DEF Numbers
<1>7. TypeOK'
  <2>1. relay' \in Relay
    BY <1>1, Zenon DEF Relay
  <2> QED
    BY <1>1, <1>4, <2>1, Zenon DEF TypeOK
<1>8. ServerOK'
  BY <1>1, <1>2, Zenon DEF ServerOK
<1>9. UpOK'
  <2>1. FromClient' = Numbers(Len(FromClient'))
    BY <1>5, <1>6, Zenon
  <2>2. ep["server"].rx = 0 /\ Len(FromClient') = 0
    BY <1>1, <1>5, Zenon DEF ServerOK
  <2> QED
    BY <1>1, <1>4, <2>1, <2>2 DEF UpOK, Numbers
<1>10. DrainOK' /\ AccountsOK'
  BY <1>1, Zenon DEF DrainOK, AccountsOK, ClosesTotal
<1> QED
  BY <1>2, <1>7, <1>8, <1>9, <1>10, Zenon

\* A loop ends.
LEMMA LoopEnds ==
    ASSUME IInv, DownEnds \/ UpEnds
    PROVE  IInv'
<1> USE DEF IInv
<1>1. /\ conn = "relay"
      /\ UNCHANGED <<cfg, ep, wire, closed, conn, sent, got, listening, trip, opened, closes>>
  BY Zenon DEF DownEnds, UpEnds
<1>2. /\ InStep' /\ ClientOK' /\ EofOK' /\ ServerStream' /\ ClientStream'
      /\ Agreed' = Agreed /\ CommonAlgorithm' = CommonAlgorithm
  BY <1>1, StreamsUntouched, Zenon
<1>3. /\ up' \in Upstream /\ up'.open = up.open /\ up'.queue = up.queue /\ up'.got = up.got
      /\ up'.early = up.early /\ relay' \in Relay
      /\ relay'.down_to_up => relay.down_to_up /\ up'.told = up.told
  BY ZenonT(30) DEF DownEnds, UpEnds, TypeOK, Upstream, Relay
<1>4. TypeOK'
  BY <1>1, <1>3, Zenon DEF TypeOK
<1>5. ServerOK'
  BY <1>1, <1>2, Zenon DEF ServerOK
<1>6. UpOK' /\ AccountsOK'
  BY <1>1, <1>3, Zenon DEF UpOK, FromClient, Numbers, AccountsOK, ClosesTotal
<1>7. DrainOK'
  <2>1. SUFFICES ASSUME ~relay'.down_to_up, relay.down_to_up, ~trip
                 PROVE  closed["client"] /\ ep["server"].rx = sent.client
    BY <1>1, <1>3, Zenon DEF DrainOK
  <2>2. ep["server"].eof /\ ep["server"].buf = <<>>
    BY <2>1, Zenon DEF DownEnds, UpEnds, AtEnd, TypeOK, Relay
  <2>3. closed["client"] /\ wire["server"] = <<>>
    BY <2>2, Zenon DEF EofOK, Sides, Peer
  <2>4. ep["server"].pc = "open" /\ ~closed["server"] /\ ep["client"].tx = sent.client
    BY <1>1, Zenon DEF ServerOK, ClientOK
  <2>5. Pending("server") = <<>> /\ ~Offered /\ ~Begun
    BY <2>2, <2>3, <2>4, ServerEstablished DEF Pending, Unread
  <2>6. PICK x \in 0 .. 1 :
          /\ ep["server"].rx <= ep["client"].tx
          /\ Pending("server") = Transmitted(Agreed, 0, None, ep["server"].rx, ep["client"].tx, x)
    BY <2>4, <2>5, ServerIdle, Zenon
  <2>7. PICK lo \in Nat, hi \in Nat : lo = ep["server"].rx /\ hi = ep["client"].tx
    BY SideTypes, Zenon DEF Sides
  <2>8. Len(Transmitted(Agreed, 0, None, lo, hi, x)) = (hi - lo) + x
    <3>1. lo <= hi
      BY <2>6, <2>7, Zenon
    <3> QED
      BY <3>1 DEF Transmitted
  <2>9. lo = hi
    BY <2>5, <2>6, <2>7, <2>8
  <2> QED
    BY <2>3, <2>4, <2>7, <2>9, Zenon
<1> QED
  BY <1>2, <1>4, <1>5, <1>6, <1>7, Zenon

\* Which loops wait for a send makes no difference to what they have to do.
LEMMA SendingFacts ==
    ASSUME relay \in Relay, NEW waiting, waiting \subseteq Loops,
           relay' \in {relay, [relay EXCEPT !.sending = waiting]}
    PROVE  /\ relay' \in Relay
           /\ relay'.down_to_up = relay.down_to_up /\ relay'.up_to_down = relay.up_to_down
BY Zenon DEF Relay

\* A sink is written to, and the loop goes on or waits.
LEMMA SinkTakes ==
    ASSUME relay \in Relay, NEW loop \in Loops, NEW connected, SinkSends(loop, connected)
    PROVE  /\ relay' \in Relay
           /\ relay'.down_to_up = relay.down_to_up /\ relay'.up_to_down = relay.up_to_down
<1>1. relay.sending \cup {loop} \subseteq Loops
  BY Zenon DEF Relay
<1>2. relay' \in {relay, [relay EXCEPT !.sending = relay.sending \cup {loop}]}
  BY Zenon DEF SinkSends
<1> QED
  BY <1>1, <1>2, SendingFacts, Zenon

\* A send returns.
LEMMA LoopGoesOn ==
    ASSUME IInv, NEW loop \in Loops, SendReturns(loop)
    PROVE  IInv'
<1> USE DEF IInv
<1>1. UNCHANGED <<cfg, ep, wire, closed, conn, up, sent, got, listening, trip, opened, closes>>
  BY Zenon DEF SendReturns
<1>2. relay' \in Relay /\ relay'.down_to_up = relay.down_to_up
  <2>1. relay \in Relay /\ relay.sending \ {loop} \subseteq Loops
    BY Zenon DEF TypeOK, Relay
  <2>2. relay' = [relay EXCEPT !.sending = relay.sending \ {loop}]
    BY Zenon DEF SendReturns
  <2> QED
    BY <2>1, <2>2, SendingFacts, Zenon
<1>3. /\ InStep' /\ ClientOK' /\ EofOK' /\ ServerStream' /\ ClientStream'
      /\ Agreed' = Agreed /\ CommonAlgorithm' = CommonAlgorithm
  BY <1>1, StreamsUntouched, Zenon
<1>4. TypeOK'
  BY <1>1, <1>2, Zenon DEF TypeOK
<1>5. ServerOK'
  BY <1>1, <1>3, Zenon DEF ServerOK
<1>6. UpOK' /\ AccountsOK'
  BY <1>1, <1>2, Zenon DEF UpOK, FromClient, Numbers, AccountsOK, ClosesTotal
<1>7. DrainOK'
  BY <1>1, <1>2, Zenon DEF DrainOK
<1> QED
  BY <1>3, <1>4, <1>5, <1>6, <1>7, Zenon

\* The task ends before the session, or after it.
LEMMA TaskOver ==
    ASSUME IInv, ProxyRefused \/ HandshakeFailed \/ ConnectFails \/ SessionCloses
    PROVE  IInv'
<1>1. CASE ProxyRefused
  BY <1>1, TaskEnds, Zenon DEF ProxyRefused, Stages
<1>2. CASE HandshakeFailed
  BY <1>2, TaskEnds, Zenon DEF HandshakeFailed, Stages
<1>3. CASE ConnectFails
  BY <1>3, TaskEnds, Zenon DEF ConnectFails, Stages
<1>4. CASE SessionCloses
  BY <1>4, TaskEnds, Zenon DEF SessionCloses, BothEnded, Stages
<1> QED
  BY <1>1, <1>2, <1>3, <1>4, Zenon

\* The header, if there is one, stays the first of what the upstream got.
LEMMA HeaderFirst ==
    ASSUME NEW g \in Seq(Nat), NEW f \in Nat \ {0}
    PROVE  LET Strip(h) == IF h # <<>> /\ Head(h) = ProxyHeader THEN Tail(h) ELSE h IN
           Strip(g) \in Seq(Nat) /\ Strip(Append(g, f)) = Append(Strip(g), f)
<1>1. Append(g, f) \in Seq(Nat) /\ Append(g, f) # <<>> /\ Len(Append(g, f)) = Len(g) + 1
  OBVIOUS
<1>2. CASE g = <<>>
  <2>1. Append(g, f) = <<f>> /\ Head(<<f>>) = f
    BY <1>2
  <2> QED
    BY <1>2, <2>1, Zenon DEF ProxyHeader
<1>3. CASE g # <<>>
  <2>1. Head(Append(g, f)) = Head(g)
    BY <1>3
  <2>2. Tail(g) \in Seq(Nat) /\ Tail(Append(g, f)) \in Seq(Nat) /\ Append(Tail(g), f) \in Seq(Nat)
    BY <1>1, <1>3
  <2>3. /\ Len(Tail(Append(g, f))) = Len(g) /\ Len(Append(Tail(g), f)) = Len(g)
    BY <1>1, <1>3, <2>2
  <2>4. \A i \in 1 .. Len(g) : Tail(Append(g, f))[i] = Append(Tail(g), f)[i]
    BY <1>1, <1>3, <2>2, SMTT(30)
  <2>5. Tail(Append(g, f)) = Append(Tail(g), f)
    BY <2>2, <2>3, <2>4, SeqEqual, Zenon
  <2> QED
    BY <1>1, <1>3, <2>1, <2>2, <2>5, Zenon
<1> QED
  BY <1>2, <1>3, Zenon

\* A frame of the client is passed on to the upstream.
LEMMA FrameDownToUp ==
    ASSUME IInv, DownFrame
    PROVE  IInv'
<1> DEFINE s == ep["server"]
           n == [s EXCEPT !.buf = Tail(s.buf), !.rx = s.rx + 1]
<1> USE DEF IInv
<1>1. /\ conn = "relay" /\ relay.down_to_up /\ s.buf # <<>> /\ Complete(Head(s.buf))
      /\ ep' = Consumed("server")
      /\ up' = IF Decodes("server") /\ up.open
               THEN [up EXCEPT !.got = Append(@, Head(s.buf).frame)] ELSE up
      /\ relay' \in Relay /\ relay'.down_to_up = relay.down_to_up
      /\ UNCHANGED <<cfg, wire, closed, conn, sent, got, listening, trip, opened, closes>>
  <2>1. SinkSends("down_to_up", Decodes("server") /\ up.open) /\ relay \in Relay
    BY Zenon DEF DownFrame, TypeOK
  <2>2. relay' \in Relay /\ relay'.down_to_up = relay.down_to_up
    BY <2>1, SinkTakes, Zenon DEF Loops
  <2> QED
    BY <2>2, Zenon DEF DownFrame, HasFrame
<1>2. s.pc = "open" /\ ~closed["server"]
  BY <1>1, Zenon DEF ServerOK
<1>3. ~Offered /\ ~Begun /\ s.state = Agreed /\ s.in_msg = None
  BY <1>2, ServerEstablished, Zenon
<1>4. /\ s \in Endpoint /\ s.rx \in Nat /\ s.buf \in Seq(Messages) /\ wire["server"] \in Seq(Messages)
      /\ Agreed \in HandshakeStates /\ ep["client"].tx \in Nat
  BY SideTypes, AgreedTypes, Zenon DEF Sides, TypeOK
<1>5. PICK lo \in Nat, hi \in Nat : lo = s.rx /\ hi = ep["client"].tx
  BY <1>4, Zenon
<1>6. PICK x \in 0 .. 1 :
         /\ x = 1 => closed["client"]
         /\ lo <= hi
         /\ Unread(None, s.buf, wire["server"]) = Transmitted(Agreed, 0, None, lo, hi, x)
  BY <1>2, <1>3, <1>5, ServerIdle, Zenon DEF Pending
<1>7. /\ lo < hi
      /\ Head(s.buf) = TransportWrite(Agreed, lo, lo + 1)
      /\ TransportReads(Agreed, lo, Head(s.buf))
      /\ Unread(None, Tail(s.buf), wire["server"]) = Transmitted(Agreed, 0, None, lo + 1, hi, x)
  <2>1. lo <= hi
    BY <1>6, Zenon
  <2>2. PICK b \in Seq(Messages), w \in Seq(Messages) : b = s.buf /\ w = wire["server"]
    BY <1>4, Zenon
  <2>3. b # <<>> /\ Complete(Head(b)) /\ Unread(None, b, w) = Transmitted(Agreed, 0, None, lo, hi, x)
    BY <1>1, <1>6, <2>2, Zenon
  <2>4. /\ lo < hi
        /\ Head(b) = TransportWrite(Agreed, lo, lo + 1)
        /\ TransportReads(Agreed, lo, Head(b))
        /\ Unread(None, Tail(b), w) = Transmitted(Agreed, 0, None, lo + 1, hi, x)
    BY <1>4, <2>1, <2>3, NextFrame, SMTT(30)
  <2> QED
    BY <2>2, <2>4, Zenon
<1>8. Decodes("server") /\ Head(s.buf).frame = lo + 1
  BY <1>3, <1>5, <1>7 DEF Decodes, TransportWrite
<1>9. /\ n \in Endpoint /\ n.stage = s.stage /\ n.state = s.state /\ n.in_msg = s.in_msg
      /\ n.pc = s.pc /\ n.eof = s.eof /\ n.buf = Tail(s.buf) /\ n.tx = s.tx /\ n.rx = lo + 1
      /\ n.timeout = s.timeout
  <2>1. s.rx + 1 \in Nat /\ Tail(s.buf) \in Seq(Messages)
    BY <1>1, <1>4, SMTT(30)
  <2> QED
    BY <1>4, <1>5, <2>1, Zenon DEF Endpoint
<1>10. ep' = [ep EXCEPT !["server"] = n]
  BY <1>1, <1>8, Zenon DEF Consumed, TypeOK, Sides, Endpoint
<1> HIDE DEF n
<1>11. /\ ep'["server"] = n /\ ep'["client"] = ep["client"] /\ ep' \in [Sides -> Endpoint]
  BY <1>9, <1>10, Zenon DEF TypeOK, Sides
<1>12. /\ up.open => up'.got = Append(up.got, lo + 1)
       /\ ~up.open => up' = up
       /\ up' \in Upstream /\ up'.open = up.open /\ up'.queue = up.queue /\ up'.told = up.told
       /\ up'.early = up.early
  <2>1. up \in Upstream /\ lo + 1 \in Nat
    BY DEF TypeOK
  <2>2. Append(up.got, lo + 1) \in Seq(Nat)
    BY <2>1 DEF Upstream
  <2> QED
    BY <1>1, <1>8, <2>1, <2>2, Zenon DEF Upstream
<1>13. TypeOK'
  BY <1>1, <1>11, <1>12, Zenon DEF TypeOK
<1>14. /\ Agreed' = Agreed /\ CommonAlgorithm' = CommonAlgorithm /\ Genuine' = Genuine
       /\ LastStage' = LastStage
  BY <1>1, AgreedForGood, Zenon
<1>15. /\ Offered' = Offered /\ Answered' = Answered /\ Begun' = Begun /\ Proved' = Proved
       /\ InStep' /\ ClientMsg' = ClientMsg /\ ServerMsg' = ServerMsg
  <2>1. cfg' = cfg /\ ep'["server"].stage = s.stage /\ ep'["client"].stage = ep["client"].stage
    BY <1>1, <1>9, <1>11, Zenon
  <2> QED
    BY <2>1, SamePhase, Zenon
<1>16. ClientOK'
  BY <1>1, <1>11, <1>14, Zenon DEF ClientOK, Numbers
<1>17. ServerOK'
  BY <1>1, <1>2, <1>9, <1>11, <1>14, Zenon DEF ServerOK
<1>18. EofOK'
  BY <1>1, <1>9, <1>11, Zenon DEF EofOK, Sides, Peer
<1>19. UpOK'
  <2>1. CASE up.open
    <3>1. ~up.early /\ FromClient = Numbers(lo) /\ up.got \in Seq(Nat)
      BY <1>5, <2>1, Zenon DEF UpOK, TypeOK, Upstream
    <3>2. FromClient' = Append(FromClient, lo + 1)
      <4>1. lo + 1 \in Nat \ {0} /\ up'.got = Append(up.got, lo + 1)
        BY <1>12, <2>1
      <4> QED
        BY <3>1, <4>1, HeaderFirst, Zenon DEF FromClient
    <3>3. FromClient' = Numbers(lo + 1) /\ Len(Numbers(lo + 1)) = lo + 1
      <4>1. lo + 1 \in Nat
        OBVIOUS
      <4>2. Append(Numbers(lo), lo + 1) = Numbers(lo + 1)
        BY NextNumber, Zenon
      <4>3. Len(Numbers(lo + 1)) = lo + 1
        BY <4>1, NextNumber, Zenon
      <4> QED
        BY <3>1, <3>2, <4>2, <4>3, Zenon
    <3> QED
      BY <1>1, <1>9, <1>11, <1>12, <3>3, SMTT(30) DEF UpOK, Numbers
  <2>2. CASE ~up.open
    <3>1. up.early
      BY <1>1, <2>2, Zenon DEF UpOK
    <3> QED
      BY <1>1, <1>9, <1>11, <1>12, <2>2, <3>1, SMTT(30) DEF UpOK, FromClient, Numbers
  <2> QED
    BY <2>1, <2>2, Zenon
<1>20. DrainOK' /\ AccountsOK'
  BY <1>1, <1>11, Zenon DEF DrainOK, AccountsOK, ClosesTotal
<1>21. ServerStream'
  <2>1. \A m : Transmitted(Agreed, 0, None, lo + 1, hi, x) = Transmitted(Agreed, 0, m, lo + 1, hi, x)
    BY <1>7 DEF Transmitted
  <2>2. Pending("server")' = Transmitted(Agreed, 0, ClientMsg', lo + 1, hi, x)
    BY <1>1, <1>3, <1>7, <1>9, <1>11, <2>1, Zenon DEF Pending
  <2>3. lo + 1 <= hi
    BY <1>7
  <2>4. ToServer(0, x)'
    BY <1>1, <1>3, <1>5, <1>6, <1>9, <1>11, <1>14, <1>15, <2>2, <2>3, SMTT(30) DEF ToServer
  <2> QED
    BY <2>4 DEF ServerStream
<1>22. ClientStream'
  BY <1>1, <1>9, <1>11, <1>14, <1>15, Zenon DEF ClientStream, ToClient, Pending
<1> QED
  BY <1>13, <1>15, <1>16, <1>17, <1>18, <1>19, <1>20, <1>21, <1>22, Zenon

\* A frame of the upstream is passed on to the client.
LEMMA FrameUpToDown ==
    ASSUME IInv, UpFrame
    PROVE  IInv'
<1> DEFINE s == ep["server"]
           c == ep["client"]
           n == [s EXCEPT !.tx = s.tx + 1]
           t == TransportWrite(Agreed, s.tx, s.tx + 1)
<1> USE DEF IInv
<1>1. /\ conn = "relay" /\ up.queue # <<>>
      /\ up' = [up EXCEPT !.queue = Tail(@)]
      /\ wire' = Send("server", Encode("server", Head(up.queue)))
      /\ ep' = [ep EXCEPT !["server"].tx = @ + 1]
      /\ relay' \in Relay /\ relay'.down_to_up = relay.down_to_up
      /\ UNCHANGED <<cfg, closed, conn, sent, got, listening, trip, opened, closes>>
  <2>1. SinkSends("up_to_down", ~closed["client"]) /\ relay \in Relay
    BY Zenon DEF UpFrame, TypeOK
  <2>2. relay' \in Relay /\ relay'.down_to_up = relay.down_to_up
    BY <2>1, SinkTakes, Zenon DEF Loops
  <2> QED
    BY <2>2, Zenon DEF UpFrame
<1>2. s.pc = "open" /\ ~closed["server"]
  BY <1>1, Zenon DEF ServerOK
<1>3. s.state = Agreed
  BY <1>2, ServerEstablished, Zenon
<1>4. /\ s \in Endpoint /\ s.tx \in Nat /\ wire["client"] \in Seq(Messages)
      /\ c.in_msg \in Messages /\ c.buf \in Seq(Messages)
      /\ Agreed \in HandshakeStates /\ ServerMsg \in Messages
  BY SideTypes, AgreedTypes, Zenon DEF Sides, TypeOK, ServerMsg
<1>5. /\ up \in Upstream /\ up.queue \in Seq(Nat) /\ Head(up.queue) = s.tx + 1
      /\ Tail(up.queue) \in Seq(Nat) /\ Len(Tail(up.queue)) = Len(up.queue) - 1
      /\ \A i \in 1 .. Len(Tail(up.queue)) : Tail(up.queue)[i] = s.tx + 1 + i
  <2>1. up \in Upstream /\ up.queue \in Seq(Nat)
    BY Zenon DEF TypeOK, Upstream
  <2>2. 1 \in 1 .. Len(up.queue) /\ Head(up.queue) = up.queue[1]
    BY <1>1, <2>1
  <2>3. Head(up.queue) = s.tx + 1
    BY <2>2, Zenon DEF UpOK
  <2>4. /\ Tail(up.queue) \in Seq(Nat) /\ Len(Tail(up.queue)) = Len(up.queue) - 1
        /\ \A i \in 1 .. Len(Tail(up.queue)) : Tail(up.queue)[i] = up.queue[i + 1]
    BY <1>1, <2>1
  <2>5. \A i \in 1 .. (Len(up.queue) - 1) : up.queue[i + 1] = s.tx + 1 + i
    <3>1. TAKE i \in 1 .. (Len(up.queue) - 1)
    <3>2. i + 1 \in 1 .. Len(up.queue)
      BY <2>1
    <3>3. up.queue[i + 1] = s.tx + (i + 1)
      BY <3>2, Zenon DEF UpOK
    <3> QED
      BY <1>4, <3>3
  <2> QED
    BY <2>1, <2>3, <2>4, <2>5, Zenon
<1>6. /\ up' \in Upstream /\ up'.queue = Tail(up.queue) /\ up'.got = up.got /\ up'.open = up.open
      /\ up'.told = up.told /\ up'.early = up.early
  BY <1>1, <1>5, Zenon DEF Upstream
<1>7. t \in Messages
  BY <1>4, MessageTypes
<1>8. wire' = Send("server", t)
  BY <1>1, <1>3, <1>5, Zenon DEF Encode
<1> HIDE DEF t
<1>9. /\ wire' \in [Sides -> Seq(Messages)] /\ wire'["server"] = wire["server"]
      /\ ~closed["client"] => wire'["client"] = Append(wire["client"], t)
  BY <1>4, <1>7, <1>8 DEF Send, Peer, Sides, TypeOK
<1>10. /\ n \in Endpoint /\ n.stage = s.stage /\ n.state = s.state /\ n.in_msg = s.in_msg
       /\ n.pc = s.pc /\ n.eof = s.eof /\ n.buf = s.buf /\ n.tx = s.tx + 1 /\ n.rx = s.rx
       /\ n.timeout = s.timeout
  <2>1. s.tx + 1 \in Nat
    BY <1>4
  <2> QED
    BY <1>4, <2>1, Zenon DEF Endpoint
<1>11. ep' = [ep EXCEPT !["server"] = n]
  BY <1>1, Zenon DEF TypeOK, Sides, Endpoint
<1> HIDE DEF n
<1>12. /\ ep'["server"] = n /\ ep'["client"] = c /\ ep' \in [Sides -> Endpoint]
  BY <1>10, <1>11, Zenon DEF TypeOK, Sides
<1>13. TypeOK'
  BY <1>1, <1>6, <1>9, <1>12, Zenon DEF TypeOK
<1>14. /\ Agreed' = Agreed /\ CommonAlgorithm' = CommonAlgorithm /\ Genuine' = Genuine
       /\ LastStage' = LastStage
  BY <1>1, AgreedForGood, Zenon
<1>15. /\ Offered' = Offered /\ Answered' = Answered /\ Begun' = Begun /\ Proved' = Proved
       /\ InStep' /\ ClientMsg' = ClientMsg /\ ServerMsg' = ServerMsg
  <2>1. cfg' = cfg /\ ep'["server"].stage = s.stage /\ ep'["client"].stage = c.stage
    BY <1>1, <1>10, <1>12, Zenon
  <2> QED
    BY <2>1, SamePhase, Zenon
<1>16. ClientOK'
  BY <1>1, <1>12, <1>14, Zenon DEF ClientOK, Numbers
<1>17. ServerOK'
  BY <1>1, <1>2, <1>10, <1>12, <1>14, Zenon DEF ServerOK
<1>18. EofOK'
  BY <1>1, <1>2, <1>9, <1>10, <1>12, Zenon DEF EofOK, Sides, Peer
<1>19. UpOK'
  <2>1. s.tx + 1 + Len(Tail(up.queue)) = sent.upstream
    <3>1. s.tx + Len(up.queue) = sent.upstream
      BY Zenon DEF UpOK
    <3>2. s.tx \in Nat /\ Len(up.queue) \in Nat /\ Len(Tail(up.queue)) = Len(up.queue) - 1
      BY <1>4, <1>5
    <3> QED
      BY <3>1, <3>2
  <2>2. /\ FromClient' = FromClient
    BY <1>6, Zenon DEF FromClient
  <2> QED
    BY <1>1, <1>5, <1>6, <1>10, <1>12, <2>1, <2>2, SMTT(30) DEF UpOK, Numbers
<1>20. DrainOK' /\ AccountsOK'
  BY <1>1, <1>10, <1>12, Zenon DEF DrainOK, AccountsOK, ClosesTotal
<1>21. ServerStream'
  BY <1>1, <1>9, <1>10, <1>12, <1>14, <1>15, ZenonT(30) DEF ServerStream, ToServer, Pending
<1>22. ClientStream'
  <2>1. SUFFICES ASSUME ~closed["client"] PROVE \E h \in 0 .. 1 : ToClient(h)'
    BY <1>1, Zenon DEF ClientStream
  <2>2. PICK h \in 0 .. 1 : ToClient(h)
    BY <2>1, Zenon DEF ClientStream
  <2>3. PICK lo \in Nat, hi \in Nat : lo = c.rx /\ hi = s.tx
    BY SideTypes, Zenon DEF Sides
  <2>4. lo <= hi /\ Pending("client") = Transmitted(Agreed, h, ServerMsg, lo, hi, 0)
    BY <2>2, <2>3, Zenon DEF ToClient
  <2>5. lo <= hi
    BY <2>4, Zenon
  <2>6. Append(Transmitted(Agreed, h, ServerMsg, lo, hi, 0), TransportWrite(Agreed, hi, hi + 1))
          = Transmitted(Agreed, h, ServerMsg, lo, hi + 1, 0)
    BY <1>4, <2>5, TransmitFrame, ZenonT(30)
  <2>7. t = TransportWrite(Agreed, hi, hi + 1)
    BY <2>3, Zenon DEF t
  <2>8. Pending("client")' = Append(Pending("client"), t)
    <3>1. Unread(c.in_msg, c.buf, Append(wire["client"], t)) = Append(Pending("client"), t)
      BY <1>4, <1>7, UnreadSend, ZenonT(30) DEF Pending
    <3> QED
      BY <1>9, <1>12, <2>1, <3>1, ZenonT(30) DEF Pending
  <2>9. Pending("client")' = Transmitted(Agreed, h, ServerMsg, lo, hi + 1, 0)
    BY <2>4, <2>6, <2>7, <2>8, Zenon
  <2>10. ToClient(h)'
    BY <1>10, <1>12, <1>14, <1>15, <2>2, <2>3, <2>5, <2>9, SMTT(30) DEF ToClient
  <2> QED
    BY <2>10, Zenon
<1> QED
  BY <1>13, <1>15, <1>16, <1>17, <1>18, <1>19, <1>20, <1>21, <1>22, Zenon

\* The upstream sends a frame, or leaves.
LEMMA UpstreamActs ==
    ASSUME IInv, UpstreamSends \/ UpstreamLeaves
    PROVE  IInv'
<1> USE DEF IInv
<1>1. UNCHANGED <<cfg, ep, wire, closed, conn, relay, got, listening, trip, opened, closes>> /\ up.open
  BY Zenon DEF UpstreamSends, UpstreamLeaves
<1>2. /\ up \in Upstream /\ up.queue \in Seq(Nat) /\ sent \in [client : Nat, upstream : Nat]
      /\ ep["server"].tx \in Nat
  BY SideTypes, Zenon DEF TypeOK, Upstream, Sides
<1>3. sent'.client = sent.client /\ sent' \in [client : Nat, upstream : Nat]
  <2>1. CASE UpstreamSends
    BY <1>2, <2>1 DEF UpstreamSends
  <2>2. CASE UpstreamLeaves
    BY <1>2, <2>2, Zenon DEF UpstreamLeaves
  <2> QED
    BY <2>1, <2>2, Zenon
<1>4. /\ InStep' /\ ClientOK' /\ EofOK' /\ ServerStream' /\ ClientStream'
      /\ Agreed' = Agreed /\ CommonAlgorithm' = CommonAlgorithm
  BY <1>1, <1>3, StreamsUntouched, Zenon
<1>5. ServerOK'
  BY <1>1, <1>4, Zenon DEF ServerOK
<1>6. DrainOK' /\ AccountsOK'
  BY <1>1, <1>3, Zenon DEF DrainOK, AccountsOK, ClosesTotal
<1>7. up' \in Upstream /\ UpOK'
  <2>1. CASE UpstreamSends
    <3>1. /\ sent'.upstream = sent.upstream + 1
          /\ up' = [up EXCEPT !.queue = Append(@, sent.upstream + 1)]
      BY <1>2, <2>1, Zenon DEF UpstreamSends
    <3>2. /\ Append(up.queue, sent.upstream + 1) \in Seq(Nat)
          /\ Len(Append(up.queue, sent.upstream + 1)) = Len(up.queue) + 1
      BY <1>2
    <3>3. /\ up' \in Upstream /\ up'.queue = Append(up.queue, sent.upstream + 1)
          /\ up'.got = up.got /\ up'.open = up.open /\ up'.told = up.told /\ up'.early = up.early
      BY <1>2, <3>1, <3>2, Zenon DEF Upstream
    <3>4. sent.upstream + 1 = ep["server"].tx + (Len(up.queue) + 1)
      <4>1. ep["server"].tx + Len(up.queue) = sent.upstream
        BY Zenon DEF UpOK
      <4>2. ep["server"].tx \in Nat /\ Len(up.queue) \in Nat
        BY <1>2
      <4> QED
        BY <4>1, <4>2
    <3>5. \A i \in 1 .. (Len(up.queue) + 1) :
             Append(up.queue, sent.upstream + 1)[i] = ep["server"].tx + i
      BY <1>2, <3>4, SMTT(30) DEF UpOK
    <3>6. FromClient' = FromClient
      BY <3>3, Zenon DEF FromClient
    <3> QED
      BY <1>1, <1>2, <3>1, <3>2, <3>3, <3>4, <3>5, <3>6, ZenonT(90) DEF UpOK, Numbers
  <2>2. CASE UpstreamLeaves
    <3>1. /\ up' \in Upstream /\ up'.queue = up.queue /\ up'.got = up.got /\ ~up'.open
          /\ up'.told = up.told /\ up'.early = ~up.told /\ sent' = sent
      BY <1>2, <2>2, Zenon DEF UpstreamLeaves, Upstream
    <3>2. ~up.early
      BY <1>1, Zenon DEF UpOK
    <3>3. FromClient' = FromClient
      BY <3>1, Zenon DEF FromClient
    <3> QED
      BY <1>1, <3>1, <3>2, <3>3, Zenon DEF UpOK, Numbers
  <2> QED
    BY <2>1, <2>2, Zenon
<1>8. TypeOK'
  BY <1>1, <1>3, <1>7, Zenon DEF TypeOK
<1> QED
  BY <1>4, <1>5, <1>6, <1>7, <1>8, Zenon

-----------------------------------------------------------------------------
(* The invariant, and what follows from it                                  *)

\* A connection starts in a state of the invariant.
LEMMA InitInvariant ==
    ASSUME Init
    PROVE  IInv
<1>1. cfg \in Cases
  BY Zenon DEF Init
<1>2. /\ cfg.legacy \in BOOLEAN /\ LastStage \in {1, 2} /\ NoHandshakeState \in HandshakeStates
      /\ Agreed \in HandshakeStates /\ None \in Messages /\ None # Cut
  BY <1>1, AgreedTypes, MessageTypes, Zenon DEF None, Cut
<1>3. /\ NewEndpoint \in Endpoint /\ NewEndpoint.pc = "step" /\ NewEndpoint.stage = 0
      /\ NewEndpoint.in_msg = None /\ NewEndpoint.buf = <<>> /\ NewEndpoint.eof = FALSE
      /\ NewEndpoint.tx = 0 /\ NewEndpoint.rx = 0
  BY <1>2 DEF NewEndpoint, Endpoint
<1>4. ep["client"] = NewEndpoint /\ ep["server"] = NewEndpoint /\ ep \in [Sides -> Endpoint]
  BY <1>3, Zenon DEF Init, Sides
<1>5. /\ wire["client"] = <<>> /\ wire["server"] = <<>> /\ wire \in [Sides -> Seq(Messages)]
      /\ closed["client"] = FALSE /\ closed["server"] = FALSE /\ closed \in [Sides -> BOOLEAN]
  BY DEF Init, Sides
<1>6. /\ closes \in [Stages -> Nat] /\ closes["proxy"] = 0 /\ closes["early"] = 0
      /\ closes["downstream_noise"] = 0 /\ closes["upstream_noise"] = 0 /\ closes["ok"] = 0
  BY Zenon DEF Init, Stages
<1>7. /\ up \in Upstream /\ up.got = <<>> /\ up.queue = <<>> /\ up.open = FALSE /\ up.told = FALSE
      /\ up.early = FALSE
  BY DEF Init, Upstream
<1>8. TypeOK
  <2>1. /\ conn = "none" /\ relay \in Relay
        /\ sent \in [client : Nat, upstream : Nat]
    <3>1. /\ conn = "none" /\ relay = [down_to_up |-> FALSE, up_to_down |-> FALSE, sending |-> {}]
          /\ sent = [client |-> 0, upstream |-> 0]
      BY Zenon DEF Init
    <3> QED
      BY <3>1, Zenon DEF Relay
  <2>2. got \in Seq(Nat) /\ listening \in BOOLEAN /\ trip \in BOOLEAN /\ opened \in Nat
    <3>1. listening = TRUE /\ trip = FALSE
      BY Zenon DEF Init
    <3>2. got \in Seq(Nat) /\ opened \in Nat
      BY DEF Init
    <3> QED
      BY <3>1, <3>2, Zenon
  <2> QED
    BY <1>1, <1>4, <1>5, <1>6, <1>7, <2>1, <2>2, Zenon DEF TypeOK
<1>9. Numbers(0) = <<>>
  BY DEF Numbers
<1>10. /\ InStep /\ ~Offered /\ ~Answered /\ ~Begun /\ ~Proved
  BY <1>2, <1>3, <1>4, SMTT(30) DEF InStep, Start, Offered, Answered, Begun, Proved
<1>11. ClientOK
  BY <1>2, <1>3, <1>4, <1>9, SMTT(30) DEF ClientOK, Init
<1>12. ServerOK
  BY <1>2, <1>3, <1>4, <1>5 DEF ServerOK, Init
<1>13. EofOK
  BY <1>3, <1>4, Zenon DEF EofOK, Sides
<1>14. /\ Pending("client") = <<>> /\ Pending("server") = <<>>
       /\ \A m : Transmitted(Agreed, 0, m, 0, 0, 0) = <<>>
  BY <1>3, <1>4, <1>5 DEF Pending, Unread, Transmitted
<1>15. ServerStream
  <2>1. ToServer(0, 0)
    BY <1>3, <1>4, <1>10, <1>14 DEF ToServer
  <2> QED
    BY <2>1 DEF ServerStream
<1>16. ClientStream
  <2>1. ToClient(0)
    BY <1>3, <1>4, <1>10, <1>14, SMTT(30) DEF ToClient
  <2> QED
    BY <2>1 DEF ClientStream
<1>17. UpOK
  <2>1. FromClient = <<>>
    BY <1>7, Zenon DEF FromClient
  <2> QED
    BY <1>3, <1>4, <1>7, <1>9, <2>1 DEF UpOK, Init
<1>18. DrainOK /\ AccountsOK
  BY <1>6 DEF DrainOK, AccountsOK, ClosesTotal, Init
<1> QED
  BY <1>8, <1>10, <1>11, <1>12, <1>13, <1>15, <1>16, <1>17, <1>18, Zenon DEF IInv

\* Every step preserves it.
LEMMA NextInvariant ==
    ASSUME IInv, [Next]_vars
    PROVE  IInv'
<1>1. CASE \E e \in Sides : Read(e)
  BY <1>1, Reads, Zenon
<1>2. CASE \E e \in Sides : Step(e)
  BY <1>2, ClientSteps, ServerSteps, Zenon DEF Sides
<1>3. CASE \E e \in Sides : receive_message(e)
  BY <1>3, ClientReceivesMessage, ServerReceivesMessage, Zenon DEF Sides
<1>4. CASE \E e \in Sides : ReceiveFails(e)
  BY <1>4, ReceivingFails, Zenon
<1>5. CASE ClientGivesUp \/ ClientLeaves
  <2>1. /\ ~closed["client"] /\ closed' = [closed EXCEPT !["client"] = TRUE]
        /\ UNCHANGED <<cfg, ep, conn, relay, up, sent, got, listening, trip, opened, closes>>
        /\ wire' \in {wire, Send("client", Cut)}
    BY <1>5, Zenon DEF ClientGivesUp, ClientLeaves
  <2> QED
    BY <2>1, ClientGoes, Zenon
<1>6. CASE ClientSends
  BY <1>6, ClientSendsFrame, Zenon
<1>7. CASE ClientReceives
  BY <1>7, ClientReceivesFrame, Zenon
<1>8. CASE AcceptConnection \/ StopListening \/ PullTripwire
  BY <1>8, MainLoop, Zenon
<1>9. CASE ProxyAccepted
  BY <1>9, AcceptorDone, Zenon
<1>10. CASE ProxyRefused \/ HandshakeFailed \/ ConnectFails \/ SessionCloses
  BY <1>10, TaskOver, Zenon
<1>11. CASE connect_upstream
  BY <1>11, UpstreamConnected, Zenon
<1>12. CASE DownFrame
  BY <1>12, FrameDownToUp, Zenon
<1>13. CASE UpFrame
  BY <1>13, FrameUpToDown, Zenon
<1>14. CASE DownEnds \/ UpEnds
  BY <1>14, LoopEnds, Zenon
<1>15. CASE UpstreamSends \/ UpstreamLeaves
  BY <1>15, UpstreamActs, Zenon
<1>16. CASE SendReturns("down_to_up") \/ SendReturns("up_to_down")
  BY <1>16, LoopGoesOn, Zenon DEF Loops
<1>17. CASE UNCHANGED vars
  <2>1. UNCHANGED Elsewhere /\ ep' = ep /\ wire' = wire
    BY <1>17, Zenon DEF vars, Elsewhere
  <2>2. TypeOK' /\ EofOK' /\ \A e \in Sides : Pending(e)' = Pending(e)
    BY <2>1, Zenon DEF IInv, TypeOK, EofOK, Pending, Elsewhere
  <2> QED
    BY <2>1, <2>2, NothingHandled, Zenon
<1> QED
  BY <1>1, <1>2, <1>3, <1>4, <1>5, <1>6, <1>7, <1>8, <1>9, <1>10, <1>11, <1>12, <1>13, <1>14,
     <1>15, <1>16, <1>17, Zenon DEF Next, Handshake, Task

\* The invariant holds of every connection.
THEOREM NoiseInvariant == Spec => []IInv
<1>1. Init => IInv
  BY InitInvariant, Zenon
<1>2. IInv /\ [Next]_vars => IInv'
  BY NextInvariant, Zenon
<1> QED
  BY <1>1, <1>2, PTL DEF Spec

\* Messages that are no frames carry none.
LEMMA NothingCarried ==
    ASSUME NEW q, \A i \in DOMAIN q : q[i].type # "transport"
    PROVE  Carry(q, 1, 0)
<1>1. {i \in DOMAIN q : q[i].type = "transport"} = {}
  BY Zenon
<1>2. {q[i].frame : i \in {}} = 1 .. 0
  BY SMTT(30)
<1> QED
  BY <1>1, <1>2 DEF Carry

\* What is in a stream carries its frames, whether or not its message of the
\* handshake was handed over already.
LEMMA TransmittedCarry ==
    ASSUME NEW state \in HandshakeStates, NEW msg \in Messages, msg.type # "transport",
           NEW lo \in Nat, NEW hi \in Nat, lo <= hi, NEW h \in 0 .. 1, NEW x \in 0 .. 1
    PROVE  Carry(Transmitted(state, h, msg, lo, hi, x), lo + 1, hi)
<1> DEFINE q == Transmitted(state, h, msg, lo, hi, x)
           T == {i \in DOMAIN q : q[i].type = "transport"}
<1>1. /\ DOMAIN q = 1 .. (h + (hi - lo) + x)
      /\ \A i \in 1 .. (h + (hi - lo) + x) : q[i] =
            IF i <= h THEN msg
            ELSE IF i <= h + (hi - lo)
            THEN TransportWrite(state, lo + i - h - 1, lo + i - h)
            ELSE Cut
  BY Zenon DEF Transmitted
<1>2. \A n, f : TransportWrite(state, n, f).type = "transport" /\ TransportWrite(state, n, f).frame = f
  BY Zenon DEF TransportWrite
<1>3. Cut.type # "transport"
  BY Zenon DEF Cut
<1> HIDE DEF q
<1>4. \A i \in 1 .. (h + (hi - lo) + x) :
         q[i].type = "transport" <=> i > h /\ i <= h + (hi - lo)
  BY <1>1, <1>2, <1>3
<1>5. T = (h + 1) .. (h + (hi - lo))
  BY <1>1, <1>4
<1>6. \A i \in T : q[i].frame = lo + i - h
  BY <1>1, <1>2, <1>5, SMTT(30)
<1> HIDE DEF T
<1>7. {q[i].frame : i \in T} = (lo + 1) .. hi
  <2>1. ASSUME NEW i \in T PROVE q[i].frame \in (lo + 1) .. hi
    BY <1>5, <1>6
  <2>2. ASSUME NEW f \in (lo + 1) .. hi PROVE f \in {q[i].frame : i \in T}
    <3>1. f - lo + h \in T
      BY <1>5
    <3>2. q[f - lo + h].frame = lo + (f - lo + h) - h
      BY <1>6, <3>1, Zenon
    <3>3. lo + (f - lo + h) - h = f
      OBVIOUS
    <3> QED
      BY <3>1, <3>2, <3>3, Zenon
  <2> QED
    BY <2>1, <2>2, Zenon
<1>8. \A i, j \in T : i < j => q[i].frame < q[j].frame
  BY <1>5, <1>6
<1> QED
  BY <1>7, <1>8 DEF Carry, q, T

\* A client that completed its handshake agrees with the proxy, and no frame
\* is exchanged with a proxy that is not genuine (StepResult::Done of either
\* side, VerifyResponder).
THEOREM HandshakeCorrect == Spec => []HandshakeSound
<1>1. IInv => HandshakeSound
  <2> SUFFICES ASSUME IInv PROVE HandshakeSound
    BY Zenon
  <2> USE DEF IInv
  <2>1. /\ cfg.legacy \in BOOLEAN /\ LastStage \in {1, 2} /\ cfg.algorithms \in Seq(EncryptionAlgorithm)
        /\ ep["client"].stage \in 0 .. 4 /\ ep["server"].stage \in 0 .. 4
        /\ ep["client"].tx \in Nat /\ ep["client"].rx \in Nat
    BY AgreedTypes, SideTypes, Zenon DEF TypeOK, Sides
  <2>2. ASSUME ep["client"].pc = "open"
        PROVE  LET chosen == ep["client"].state.chosen_algorithm IN
               /\ ep["client"].state = ep["server"].state
               /\ cfg.legacy => chosen = "ChaChaPoly"
               /\ ~cfg.legacy => /\ chosen \in Range(cfg.algorithms)
                                 /\ chosen = "AESGCM" \/ "AESGCM" \notin Range(cfg.algorithms)
    <3>1. ep["client"].state = Agreed /\ ep["server"].stage >= 3
      BY <2>2, ClientEstablished, Zenon
    <3>2. ep["server"].state = Agreed /\ CommonAlgorithm
      BY <2>1, <3>1 DEF ServerOK
    <3>3. /\ cfg.legacy => Agreed.chosen_algorithm = "ChaChaPoly"
          /\ ~cfg.legacy => Agreed.chosen_algorithm = Chosen
      BY Zenon DEF Agreed, LegacyState, EncryptionNegotiation
    <3>4. ~cfg.legacy => Chosen \in Range(cfg.algorithms)
      BY <2>1, <3>2, AlgorithmChosen, Zenon DEF CommonAlgorithm, Chosen
    <3>5. Chosen = "AESGCM" \/ "AESGCM" \notin Range(cfg.algorithms)
      BY Zenon DEF Chosen
    <3> QED
      BY <3>1, <3>2, <3>3, <3>4, <3>5, Zenon
  <2>3. sent.client > 0 \/ got # <<>> => Genuine
    <3>1. Numbers(0) = <<>>
      BY DEF Numbers
    <3>2. ep["client"].pc # "open" => sent.client = 0 /\ got = <<>>
      BY <3>1, Zenon DEF ClientOK
    <3> QED
      BY <3>2 DEF ClientOK
  <2> QED
    BY <2>2, <2>3, Zenon DEF HandshakeSound, Established
<1> QED
  BY <1>1, NoiseInvariant, PTL

\* A handshake fails for a reason only, and no step of it panics
\* (Handshake::complete_handshake and the two functions step).
THEOREM FailureCorrect == Spec => []FailureHasReason
<1>1. IInv => FailureHasReason
  <2> SUFFICES ASSUME IInv PROVE FailureHasReason
    BY Zenon
  <2>1. \A e \in Sides : ep[e].pc # "panic"
    BY Zenon DEF IInv, TypeOK, Endpoint
  <2> QED
    BY <2>1, Zenon DEF IInv, FailureHasReason, ClientOK, ServerOK
<1> QED
  BY <1>1, NoiseInvariant, PTL

\* The metrics tell the truth (account_tcp_open_in_stage,
\* account_tcp_close_in_stage and where they are called).
THEOREM AccountsCorrect == Spec => []AccountsTrue
<1>1. IInv => AccountsTrue
  <2> SUFFICES ASSUME IInv PROVE AccountsTrue
    BY Zenon
  <2> USE DEF IInv
  <2>1. ASSUME closes["ok"] = 1, ~trip
        PROVE  closed["client"] /\ (up.early \/ FromClient = Numbers(sent.client))
    <3>1. closed["client"] /\ ep["server"].rx = sent.client
      BY <2>1 DEF DrainOK
    <3>2. FromClient = Numbers(Len(FromClient)) /\ (~up.early => Len(FromClient) = ep["server"].rx)
      BY Zenon DEF UpOK
    <3> QED
      BY <3>1, <3>2, Zenon
  <2> QED
    BY <2>1, Zenon DEF AccountsTrue, AccountsOK
<1> QED
  BY <1>1, NoiseInvariant, PTL

\* No frame is lost, repeated or overtaken in either direction
\* (into_framed, CompoundCodec and the two loops of NoiseProxyConnection).
THEOREM FramesCorrect == Spec => []FramesConserved
<1>1. IInv => FramesConserved
  <2> SUFFICES ASSUME IInv PROVE FramesConserved
    BY Zenon
  <2> USE DEF IInv
  <2> DEFINE s == ep["server"]
             c == ep["client"]
  <2>1. /\ Agreed \in HandshakeStates /\ None \in Messages /\ None.type # "transport"
        /\ ClientMsg \in Messages /\ ClientMsg.type # "transport"
        /\ ServerMsg \in Messages /\ ServerMsg.type # "transport"
    BY AgreedTypes, MessageTypes, Zenon
       DEF TypeOK, ClientMsg, ServerMsg, Offer, Answer, NegotiationMessage, WriteE, Reply,
           WriteReply, None
  <2>2. /\ s.rx \in Nat /\ s.tx \in Nat /\ s.buf \in Seq(Messages) /\ wire["server"] \in Seq(Messages)
        /\ c.rx \in Nat /\ c.tx \in Nat /\ c.buf \in Seq(Messages) /\ wire["client"] \in Seq(Messages)
        /\ s.in_msg \in Messages /\ c.in_msg \in Messages /\ s.stage \in 0 .. 4 /\ c.stage \in 0 .. 4
    BY SideTypes, Zenon DEF Sides
  <2>3. FromClient = Numbers(Len(FromClient))
    BY Zenon DEF UpOK
  <2>4. ASSUME ~closed["server"], up.open \/ conn # "relay"
        PROVE  Carry(s.buf \o wire["server"], Len(FromClient) + 1, sent.client)
    <3>1. Len(FromClient) = s.rx /\ sent.client = c.tx
      BY <2>4, Zenon DEF UpOK, ClientOK, ServerOK
    <3>2. PICK lo \in Nat, hi \in Nat : lo = s.rx /\ hi = c.tx
      BY <2>2, Zenon
    <3>3. PICK h \in 0 .. 1, x \in 0 .. 1 :
             lo <= hi /\ Pending("server") = Transmitted(Agreed, h, ClientMsg, lo, hi, x)
      BY <2>4, <3>2, Zenon DEF ServerStream, ToServer
    <3>4. lo <= hi
      BY <3>3, Zenon
    <3>5. CASE s.in_msg = None
      <4>1. s.buf \o wire["server"] = Transmitted(Agreed, h, ClientMsg, lo, hi, x)
        BY <3>3, <3>5, ZenonT(30) DEF Pending, Unread
      <4>2. Carry(Transmitted(Agreed, h, ClientMsg, lo, hi, x), lo + 1, hi)
        BY <2>1, <3>4, TransmittedCarry, Zenon
      <4> QED
        BY <3>1, <3>2, <4>1, <4>2, Zenon
    <3>6. CASE s.in_msg # None
      <4>1. s.stage \in {1, 2}
        BY <2>2, <3>6 DEF ServerOK
      <4>2. c.pc # "open"
        BY <2>2, <4>1, ClientEstablished, SMTT(30)
      <4>3. lo = 0 /\ hi = 0
        BY <3>2, <3>4, <4>2 DEF ClientOK
      <4>4. /\ Pending("server") # <<>>
            /\ Unread(None, s.buf, wire["server"]) = Tail(Pending("server"))
        BY <2>2, <3>6, UnreadAct, Zenon DEF Pending
      <4>5. s.buf \o wire["server"] = Tail(Transmitted(Agreed, h, ClientMsg, 0, 0, x))
        BY <3>3, <4>3, <4>4, Zenon DEF Unread
      <4>6. /\ Transmitted(Agreed, h, ClientMsg, 0, 0, x) \in Seq(Messages)
            /\ Len(Transmitted(Agreed, h, ClientMsg, 0, 0, x)) = h + x
            /\ \A i \in 1 .. (h + x) :
                  Transmitted(Agreed, h, ClientMsg, 0, 0, x)[i].type # "transport"
        BY <2>1, MessageTypes DEF Transmitted, Cut
      <4>7. Transmitted(Agreed, h, ClientMsg, 0, 0, x) # <<>>
        BY <3>3, <4>3, <4>4, Zenon
      <4>8. \A i \in DOMAIN (s.buf \o wire["server"]) : (s.buf \o wire["server"])[i].type # "transport"
        BY <4>5, <4>6, <4>7, HeadTailProperties
      <4>9. Carry(s.buf \o wire["server"], 1, 0)
        BY <4>8, NothingCarried, Zenon
      <4> QED
        BY <3>1, <3>2, <4>3, <4>9, SMTT(30)
    <3> QED
      BY <3>5, <3>6, Zenon
  <2>5. ASSUME ~closed["client"]
        PROVE  LET relayed == sent.upstream - Len(up.queue) IN
               /\ got = Numbers(Len(got))
               /\ Carry(c.buf \o wire["client"], Len(got) + 1, relayed)
               /\ \A i \in DOMAIN up.queue : up.queue[i] = relayed + i
    <3>1. got = Numbers(c.rx) /\ Len(Numbers(c.rx)) = c.rx
      BY <2>2, NextNumber, Zenon DEF ClientOK
    <3>2. up.queue \in Seq(Nat) /\ sent.upstream - Len(up.queue) = s.tx
      <4>1. up.queue \in Seq(Nat) /\ s.tx + Len(up.queue) = sent.upstream
        BY Zenon DEF UpOK, TypeOK, Upstream
      <4>2. Len(up.queue) \in Nat
        BY <4>1
      <4> QED
        BY <2>2, <4>1, <4>2
    <3>3. \A i \in DOMAIN up.queue : up.queue[i] = s.tx + i
      <4>1. DOMAIN up.queue = 1 .. Len(up.queue)
        BY <3>2
      <4>2. \A i \in 1 .. Len(up.queue) : up.queue[i] = ep["server"].tx + i
        BY Zenon DEF UpOK
      <4> QED
        BY <4>1, <4>2, Zenon
    <3>4. PICK lo \in Nat, hi \in Nat : lo = c.rx /\ hi = s.tx
      BY <2>2, Zenon
    <3>5. PICK h \in 0 .. 1 :
             /\ lo <= hi /\ Pending("client") = Transmitted(Agreed, h, ServerMsg, lo, hi, 0)
             /\ c.in_msg # None => h = 1
      BY <2>5, <3>4, Zenon DEF ClientStream, ToClient
    <3>6. lo <= hi
      BY <3>5, Zenon
    <3>7. Carry(c.buf \o wire["client"], lo + 1, hi)
      <4>1. PICK x \in 0 .. 1 : x = 0
        OBVIOUS
      <4>2. \E g \in 0 .. 1 : c.buf \o wire["client"] = Transmitted(Agreed, g, ServerMsg, lo, hi, x)
        <5>1. CASE c.in_msg = None
          BY <3>5, <4>1, <5>1, ZenonT(30) DEF Pending, Unread
        <5>2. CASE c.in_msg # None
          <6>1. Unread(None, c.buf, wire["client"]) = Tail(Pending("client"))
            BY <2>2, <5>2, UnreadAct, Zenon DEF Pending
          <6>2. Pending("client") = Transmitted(Agreed, 1, ServerMsg, lo, hi, x)
            BY <3>5, <4>1, <5>2, Zenon
          <6>3. Tail(Transmitted(Agreed, 1, ServerMsg, lo, hi, x)) = Transmitted(Agreed, 0, ServerMsg, lo, hi, x)
            BY <2>1, <3>6, TakeMsg, ZenonT(30)
          <6>4. c.buf \o wire["client"] = Transmitted(Agreed, 0, ServerMsg, lo, hi, x)
            BY <6>1, <6>2, <6>3, Zenon DEF Unread
          <6> QED
            BY <6>4
        <5> QED
          BY <5>1, <5>2, Zenon
      <4>3. \A g \in 0 .. 1 : Carry(Transmitted(Agreed, g, ServerMsg, lo, hi, x), lo + 1, hi)
        BY <2>1, <3>6, TransmittedCarry, Zenon
      <4> QED
        BY <4>2, <4>3, Zenon
    <3> QED
      BY <3>1, <3>2, <3>3, <3>4, <3>7, Zenon
  <2> QED
    BY <2>3, <2>4, <2>5, Zenon DEF FramesConserved
<1> QED
  BY <1>1, NoiseInvariant, PTL

=============================================================================
