------------------------------ MODULE MCInbound ------------------------------
(***************************************************************************)
(* Incoming connections for TLC: the configurations of the acceptor with   *)
(* headers of every kind, and every message of the protocol.               *)
(***************************************************************************)
EXTENDS Inbound

A4(ip) == SocketAddr("Ipv4", ip, 7)
A6(ip) == SocketAddr("Ipv6", ip, 8)
MCDirect == A4(41)
MCLocal == A4(42)

Config(require, versions, upstream) ==
    [require |-> require, versions |-> versions, upstream |-> upstream]
Skip == Config(FALSE, <<>>, "None")
MCConfigs == {
    Skip,
    Config(FALSE, <<"V1", "V2">>, "V1"),
    Config(FALSE, <<"V1">>, "V2"),
    Config(TRUE, <<"V1">>, "V1"),
    Config(TRUE, <<"V2">>, "V2"),
    Config(TRUE, <<"V1", "V2">>, "V2")}

\* A value of a field: the smallest, one in between, the largest.
Text(n) == [i \in 1 .. n |-> i % NotUtf8]
Sample(t, s) ==
    CASE t.kind = "num" -> <<0, Base + 1, Pow[t.width] - 1>>[IF t.width = 1 /\ s = 2 THEN 3 ELSE s]
      [] t.kind = "bool" -> s # 1
      [] t.kind = "text" -> Text(<<0, 1, t.max>>[s])
      [] OTHER -> [i \in 1 .. <<0, 1, t.max>>[s] |-> Pow[t.width] - 1]

Body(m, s) ==
    [name |-> m, val |-> [i \in DOMAIN Messages[m].fields |-> Sample(Messages[m].fields[i], s)]]

\* Two short messages of which the bytes of the first look like the end of a line.
Bodies == {<<>>, <<Body("SetTarget", 2), Body("CloseChannel", 3)>>}

Peer(kind, header, version, info, body) ==
    [kind |-> kind, header |-> header, version |-> version, info |-> info, body |-> body]
Plain(body) == Peer("none", <<>>, "None", NoInfo, body)
Raw(bytes, body) == Peer("raw", bytes, "None", NoInfo, body)

Infos == {
    TryFromAddrs(A4(43), A4(44)),
    TryFromAddrs(A6(61), A6(62)),
    TryFromAddrs(None, None)}

Headed(body) ==
    {Peer("header", V1Encode(info), "V1", info, body) : info \in Infos}
    \cup {Peer("header", V2Encode(info), "V2", info, body) : info \in Infos}
    \cup {  \* a block longer than the addresses, and a family that is not decoded
        Peer("header", SIGNATURE \o <<33, PROTOCOL_TCP_IP4, 6>> \o <<43, 44, 7, 7>> \o <<CR, LF>>,
             "V2", TryFromAddrs(A4(43), A4(44)), body),
        Peer("header", SIGNATURE \o <<33, 18, 4>> \o <<43, 44, 7, 7>>, "V2", NoInfo, body),
        Peer("header", V1_TAG \o <<UNKNOWN, 43, 44, 7, CR, LF>>, "V1", NoInfo, body)}

\* Headers that are not: of a wrong kind, cut short, with a wrong version, protocol
\* or length, an address of the other family, or without an end.
Malformed(body) ==
    {Raw(h, body) : h \in {
        V1_TAG \o <<CR, LF>>,
        V1_TAG \o <<99, CR, LF>>,
        V1_TAG \o <<TCP4, 43, 44, 7, CR, LF>>,
        V1_TAG \o <<TCP4, 61, 44, 7, 7, CR, LF>>,
        V1_TAG \o <<TCP6, 61, 62, 8, 99, CR, LF>>,
        V1_TAG \o <<UNKNOWN, 1, 1, 1, CR, CR, CR, CR, 1, 1, 1>>,
        <<80, 1, CR, LF>>,
        <<CR, LF, 1, 33, PROTOCOL_UNSPEC, 0>>,
        SIGNATURE \o <<17, PROTOCOL_UNSPEC, 0>>,
        SIGNATURE \o <<34, PROTOCOL_UNSPEC, 0>>,
        SIGNATURE \o <<33, 19, 0>>,
        SIGNATURE \o <<33, PROTOCOL_TCP_IP4, 3, 43, 44, 7>>,
        SIGNATURE \o <<33, PROTOCOL_TCP_IP6, 4, 61, LowHalf, 62, LowHalf>>,
        <<0, 1, 3, 3, 3>>}}

\* Every short payload part between numerals of zero.
Parts(len) == UNION {[1 .. n -> 0 .. Base - 1] : n \in 0 .. len}
Zeros(n) == [i \in 1 .. n |-> 0]
Payloads(m, before, len, after) ==
    {Raw(FrameSerialize(Frame(m, Zeros(before) \o part \o Zeros(after))), <<>>)
        : part \in Parts(len)}

MCCases ==
    [cfg : MCConfigs,
     peer : UNION {{Plain(b)} \cup Headed(b) \cup Malformed(b) : b \in Bodies}]
    \cup [cfg : {Skip}, peer : {Plain(<<Body(m, s)>>) : m \in DOMAIN Messages, s \in 1 .. 3}]
    \cup [cfg : {Skip},
          peer : Payloads("SetupConnectionError", 3, 2, 1) \cup Payloads("CloseChannel", 3, 3, 0)
                 \cup Payloads("NewMiningJob", 6, 1, 7)]
=============================================================================
