----------------------------- MODULE ProxyHeader -----------------------------
(***************************************************************************)
(* The two versions of the PROXY protocol header: what the encoders write  *)
(* and what the incremental decoders make of the bytes read so far         *)
(* (protocols/wire/src/proxy/codec).                                       *)
(*                                                                         *)
(* The unit of a stream is a number that stands for the bytes the decoders *)
(* never tell apart: a word of the text header, a half of its tag, an      *)
(* address, a port, or a single byte where the code looks at single bytes. *)
(* Lengths are in units.                                                   *)
(***************************************************************************)
EXTENDS Integers, Sequences

CONSTANTS
    Ip4, Ip6,          \* units that parse as an address of the family
    Port,              \* units that parse as a port
    MAX_HEADER_SIZE    \* a text header without an end in so many units is refused

\* No address; an option of the code.
None == [family |-> "None", ip |-> 0, port |-> 0]

SocketAddr(family, ip, port) == [family |-> family, ip |-> ip, port |-> port]

ProxyInfo(type, src, dst) ==
    [socket_type |-> type, original_source |-> src, original_destination |-> dst]

Inconsistent == ProxyInfo("Err", None, None)

\* Both addresses of one family, or none of them.
TryFromAddrs(src, dst) ==
    IF src.family # dst.family THEN Inconsistent
    ELSE ProxyInfo(IF src = None THEN "Unknown" ELSE src.family, src, dst)

-----------------------------------------------------------------------------
CR == 13
LF == 10
V1_TAG == <<80, 88>>
UNKNOWN == 85
TCP4 == 84
TCP6 == 86

SIGNATURE == <<CR, LF, 81>>
COMMON_HEADER_PREFIX_LEN == 2
VERSION_COMMAND == 33
PROTOCOL_UNSPEC == 0
PROTOCOL_TCP_IP4 == 17
PROTOCOL_TCP_IP6 == 33
VALID_PROTOCOLS == {PROTOCOL_UNSPEC, PROTOCOL_TCP_IP4, PROTOCOL_TCP_IP6, 18, 34, 49, 50}
SIZE_HEADER == Len(SIGNATURE) + 3
SIZE_ADDRESSES_IP4 == 4
SIZE_ADDRESSES_IP6 == 6

\* An Ipv6 address of the binary header has two units.
LowHalf == 6

-----------------------------------------------------------------------------
(***************************************************************************)
(* Encoders.                                                               *)
(***************************************************************************)
V1Encode(info) ==
    V1_TAG
    \o (IF info.socket_type = "Unknown" THEN <<UNKNOWN>>
        ELSE <<IF info.socket_type = "Ipv4" THEN TCP4 ELSE TCP6,
               info.original_source.ip, info.original_destination.ip,
               info.original_source.port, info.original_destination.port>>)
    \o <<CR, LF>>

V2Addresses(info) ==
    LET src == info.original_source
        dst == info.original_destination
    IN  CASE info.socket_type = "Ipv4" -> <<src.ip, dst.ip, src.port, dst.port>>
          [] info.socket_type = "Ipv6" ->
                 <<src.ip, LowHalf, dst.ip, LowHalf, src.port, dst.port>>
          [] OTHER -> <<>>

V2Header(info) ==
    SIGNATURE
    \o CASE info.socket_type = "Ipv4" -> <<VERSION_COMMAND, PROTOCOL_TCP_IP4, SIZE_ADDRESSES_IP4>>
         [] info.socket_type = "Ipv6" -> <<VERSION_COMMAND, PROTOCOL_TCP_IP6, SIZE_ADDRESSES_IP6>>
         [] OTHER -> <<VERSION_COMMAND, PROTOCOL_UNSPEC, 0>>

V2Encode(info) == V2Header(info) \o V2Addresses(info)

-----------------------------------------------------------------------------
(***************************************************************************)
(* Decoders.  A decoder is asked again and again with a growing buffer; it *)
(* answers with an item, an error or nothing yet, and may take units off   *)
(* the buffer in each case.  What it remembers in between:                 *)
(*   next_pos              where the text decoder looks for the line's end *)
(*   socket_type, remains  what the binary header announced                *)
(***************************************************************************)
NewCodec == [next_pos |-> 0, socket_type |-> "None", remains |-> 0]

Answer(res, info, used, codec) == [res |-> res, info |-> info, used |-> used, codec |-> codec]
NoInfo == ProxyInfo("Unknown", None, None)
Nothing(used, codec) == Answer("none", NoInfo, used, codec)
Failed(used, codec) == Answer("err", NoInfo, used, codec)

\* The addresses of a text header, sources first; an error if one does not parse.
ParseAddresses(h, ips, type) ==
    IF h[4] \in ips /\ h[6] \in Port /\ h[5] \in ips /\ h[7] \in Port
    THEN ProxyInfo(type, SocketAddr(type, h[4], h[6]), SocketAddr(type, h[5], h[7]))
    ELSE Inconsistent

\* A line of the text header.  Only a line of an unknown kind is an error that
\* takes the line off the buffer.
V1Line(h, codec) ==
    LET parts == Len(h) - 1
        item(info) == IF info = Inconsistent THEN Failed(0, codec)
                      ELSE Answer("item", info, Len(h) + 2, codec)
    IN  IF Len(h) < 2 \/ SubSeq(h, 1, 2) # V1_TAG \/ parts < 2
        THEN Failed(0, codec)
        ELSE CASE h[3] = UNKNOWN -> item(NoInfo)
               [] h[3] = TCP4 /\ parts = 6 -> item(ParseAddresses(h, Ip4, "Ipv4"))
               [] h[3] = TCP6 /\ parts = 6 -> item(ParseAddresses(h, Ip6, "Ipv6"))
               [] OTHER -> Failed(Len(h) + 2, codec)

\* Where a line ends, looking from position `from' (counted from 0).
LineEnds(buf, from) == {i \in from + 1 .. Len(buf) - 1 : buf[i] = CR /\ buf[i + 1] = LF}

\* Mutant: the position after the last byte.
ResumeAtEnd(buf) == Len(buf)

\* Where to look for the end of the line next time: its first half may be there.
ResumePos(buf) == IF buf = <<>> THEN 0 ELSE Len(buf) - 1

V1Decode(codec, buf) ==
    LET ends == LineEnds(buf, codec.next_pos)
    IN  IF ends # {}
        THEN V1Line(SubSeq(buf, 1, (CHOOSE i \in ends : \A j \in ends : i <= j) - 1), codec)
        ELSE IF Len(buf) < MAX_HEADER_SIZE
        THEN Nothing(0, [codec EXCEPT !.next_pos = ResumePos(buf)])
        ELSE Failed(0, codec)

\* Mutant: only the addresses.
TakeAddresses(codec) ==
    CASE codec.socket_type = "Ipv4" -> SIZE_ADDRESSES_IP4
      [] codec.socket_type = "Ipv6" -> SIZE_ADDRESSES_IP6
      [] OTHER -> 0

\* How much is split off the buffer.
TakeBlock(codec) == codec.remains

\* The block that the binary header announced.  It is taken off the buffer whole,
\* whatever its length; what follows the addresses is dropped.
V2Block(codec, buf, used) ==
    LET n == codec.remains
        item(info) == Answer("item", info, used + TakeBlock(codec), NewCodec)
    IN  IF n > 0 /\ Len(buf) < n THEN Nothing(used, codec)
        ELSE CASE codec.socket_type = "Ipv4" ->
                      IF n < SIZE_ADDRESSES_IP4 THEN Failed(used + n, codec)
                      ELSE item(ProxyInfo("Ipv4", SocketAddr("Ipv4", buf[1], buf[3]),
                                          SocketAddr("Ipv4", buf[2], buf[4])))
               [] codec.socket_type = "Ipv6" ->
                      IF n < SIZE_ADDRESSES_IP6 THEN Failed(used + n, codec)
                      ELSE item(ProxyInfo("Ipv6", SocketAddr("Ipv6", buf[1], buf[5]),
                                          SocketAddr("Ipv6", buf[3], buf[6])))
               [] OTHER -> item(NoInfo)

\* The fixed part of the binary header.  The fields are taken off the buffer one
\* by one, those before a wrong one included.
V2Decode(codec, buf) ==
    LET s == Len(SIGNATURE)
        type == CASE buf[s + 2] = PROTOCOL_TCP_IP4 -> "Ipv4"
                  [] buf[s + 2] = PROTOCOL_TCP_IP6 -> "Ipv6"
                  [] OTHER -> "Unknown"
    IN  IF codec.socket_type # "None" THEN V2Block(codec, buf, 0)
        ELSE IF Len(buf) < SIZE_HEADER THEN Nothing(0, codec)
        ELSE IF SubSeq(buf, 1, s) # SIGNATURE THEN Failed(0, codec)
        ELSE IF buf[s + 1] \div 16 # 2 \/ buf[s + 1] % 16 > 1 THEN Failed(s + 1, codec)
        ELSE IF buf[s + 2] \notin VALID_PROTOCOLS THEN Failed(s + 2, codec)
        ELSE V2Block([codec EXCEPT !.socket_type = type, !.remains = buf[s + 3]],
                     SubSeq(buf, SIZE_HEADER + 1, Len(buf)), SIZE_HEADER)
=============================================================================
