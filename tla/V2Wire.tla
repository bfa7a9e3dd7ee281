------------------------------- MODULE V2Wire -------------------------------
(***************************************************************************)
(* The wire format of Stratum V2: the fields of every message, the binary  *)
(* serializer and deserializer, the frame header and the incremental frame *)
(* decoder (protocols/stratum/src/v2: messages, types, serialization,      *)
(* framing).                                                               *)
(*                                                                         *)
(* A byte is a number below Base.  The widths of the code (1, 2, 4 and 32  *)
(* bytes) and the limits of sized fields (32, 255, 65535 elements) are     *)
(* scaled down and keep their order; a length prefix of one byte still     *)
(* holds more than the limit of the short strings.                         *)
(***************************************************************************)
EXTENDS Integers, Sequences, TLC

CONSTANTS
    Base,              \* number of values of a byte
    MAX_FRAME_LENGTH   \* largest length that the length-delimited decoder accepts

ASSUME BaseAssumption == Base \in Nat /\ Base > 2

-----------------------------------------------------------------------------
(***************************************************************************)
(* Field types.  A numeral has a width; a sized field has a length prefix  *)
(* and limits, and its elements have a width.                              *)
(***************************************************************************)
Numeral(w) == [kind |-> "num", width |-> w, prefix |-> 0, min |-> 0, max |-> 0]
Sized(kind, w, p, lo, hi) == [kind |-> kind, width |-> w, prefix |-> p, min |-> lo, max |-> hi]

sized_string_type(p, lo, hi) == Sized("text", 1, p, lo, hi)
sized_bytes_type(p, lo, hi) == Sized("bytes", 1, p, lo, hi)
sized_seq_type(elem, p, lo, hi) == Sized("bytes", elem.width, p, lo, hi)

u8 == Numeral(1)
u16 == Numeral(2)
u32 == Numeral(3)
f32 == u32
Uint256Bytes == Numeral(4)
bool == [Numeral(1) EXCEPT !.kind = "bool"]
Str0_32 == sized_string_type(1, 0, Base - 2)
Str0_255 == sized_string_type(1, 0, Base - 1)
Bytes0_32 == sized_bytes_type(1, 0, Base - 2)
Bytes0_64k == sized_bytes_type(2, 0, Base * Base - 1)
Seq0_255_Uint256 == sized_seq_type(Uint256Bytes, 1, 0, Base - 1)
DeviceInfo == <<Str0_255, Str0_255, Str0_255, Str0_255>>

\* What a sized type accepts when it is built from a string, a vector or a slice.
TryFromSlice(t, v) == t.kind \in {"text", "bytes"} => Len(v) \in t.min .. t.max

\* A byte that is in no text; the others stand for well-formed UTF-8.
NotUtf8 == Base - 1

-----------------------------------------------------------------------------
Message(id, channel, ext, fields) ==
    [id |-> id, channel |-> channel, ext |-> ext, fields |-> fields]

BASE == 0
TELEMETRY == 1

ConnectionMessages == [
    SetupConnection |->
        Message(0, FALSE, BASE, <<u8, u16, u16, u32, Str0_255, u16>> \o DeviceInfo),
    SetupConnectionSuccess |-> Message(1, FALSE, BASE, <<u16, u32>>),
    SetupConnectionError |-> Message(2, FALSE, BASE, <<u32, Str0_255>>),
    ChannelEndpointChanged |-> Message(3, FALSE, BASE, <<u32>>)]

OpenMiningChannelFields == <<u32, Str0_255, f32, Uint256Bytes>>
ChannelMessages == [
    OpenStandardMiningChannel |-> Message(16, FALSE, BASE, OpenMiningChannelFields),
    OpenStandardMiningChannelSuccess |->
        Message(17, FALSE, BASE, <<u32, u32, Uint256Bytes, Bytes0_32, u32>>),
    OpenMiningChannelError |-> Message(18, FALSE, BASE, <<u32, Str0_32>>),
    OpenExtendedMiningChannel |->
        Message(19, FALSE, BASE, OpenMiningChannelFields \o <<u16>>),
    OpenExtendedMiningChannelSuccess |->
        Message(20, FALSE, BASE, <<u32, u32, Uint256Bytes, u16, Bytes0_32>>),
    UpdateChannel |-> Message(22, TRUE, BASE, <<u32, f32, Uint256Bytes>>),
    UpdateChannelError |-> Message(23, TRUE, BASE, <<u32, Str0_32>>),
    CloseChannel |-> Message(24, TRUE, BASE, <<u32, Str0_32>>)]

SubmitSharesFields == <<u32, u32, u32, u32, u32, u32>>
MiningMessages == [
    SubmitSharesStandard |-> Message(26, TRUE, BASE, SubmitSharesFields),
    SubmitSharesExtended |-> Message(27, TRUE, BASE, SubmitSharesFields \o <<Bytes0_32>>),
    SubmitSharesSuccess |-> Message(28, TRUE, BASE, <<u32, u32, u32, u32>>),
    SubmitSharesError |-> Message(29, TRUE, BASE, <<u32, u32, Str0_32>>),
    NewMiningJob |-> Message(30, TRUE, BASE, <<u32, u32, bool, u32, Uint256Bytes>>),
    NewExtendedMiningJob |->
        Message(31, TRUE, BASE, <<u32, u32, bool, u32, bool, Seq0_255_Uint256,
                                  Bytes0_64k, Bytes0_64k>>),
    SetNewPrevHash |-> Message(32, TRUE, BASE, <<u32, u32, Uint256Bytes, u32, u32>>),
    SetTarget |-> Message(33, TRUE, BASE, <<u32, Uint256Bytes>>),
    Reconnect |-> Message(37, FALSE, BASE, <<Str0_255, u16>>)]

TelemetryMessages == [
    OpenTelemetryChannel |-> Message(0, FALSE, TELEMETRY, <<u32, Str0_255>>),
    OpenTelemetryChannelSuccess |-> Message(1, FALSE, TELEMETRY, <<u32, u32>>),
    OpenTelemetryChannelError |-> Message(2, FALSE, TELEMETRY, <<u32, Str0_32>>),
    SubmitTelemetryData |-> Message(3, FALSE, TELEMETRY, <<u32, u32, Bytes0_64k>>),
    SubmitTelemetryDataSuccess |-> Message(4, FALSE, TELEMETRY, <<u32, u32>>),
    SubmitTelemetryDataError |-> Message(5, FALSE, TELEMETRY, <<u32, u32, Str0_32>>)]

Messages == ConnectionMessages @@ ChannelMessages @@ MiningMessages @@ TelemetryMessages
BaseMessages == {m \in DOMAIN Messages : Messages[m].ext = BASE}

-----------------------------------------------------------------------------
(***************************************************************************)
(* Serializer and deserializer.                                            *)
(***************************************************************************)
Pow[n \in 0 .. 4] == IF n = 0 THEN 1 ELSE Base * Pow[n - 1]

\* Numbers are little endian.
ToLe(n, w) == [i \in 1 .. w |-> (n \div Pow[i - 1]) % Base]
FromLe(s) ==
    LET sum[i \in 0 .. Len(s)] == IF i = 0 THEN 0 ELSE sum[i - 1] + s[i] * Pow[i - 1]
    IN  sum[Len(s)]

Concat(ss) ==
    LET cat[i \in 0 .. Len(ss)] == IF i = 0 THEN <<>> ELSE cat[i - 1] \o ss[i]
    IN  cat[Len(ss)]

\* The elements of a sized field; their number is written before them.
SerializeElements(t, v) == Concat([i \in 1 .. Len(v) |-> ToLe(v[i], t.width)])
SerializeSized(t, v) == ToLe(Len(v), t.prefix) \o SerializeElements(t, v)

SerializeField(t, v) ==
    CASE t.kind = "num" -> ToLe(v, t.width)
      [] t.kind = "bool" -> <<IF v THEN 1 ELSE 0>>
      [] OTHER -> SerializeSized(t, v)

\* Structures, nested ones included, are their fields one after the other.
ToWriter(fields, values) ==
    Concat([i \in 1 .. Len(fields) |-> SerializeField(fields[i], values[i])])

Read(v, used) == [err |-> "Ok", val |-> v, used |-> used]
Error(e) == [err |-> e, val |-> 0, used |-> 0]

ReadNumeral(w, bytes) ==
    IF Len(bytes) < w THEN Error("EOF") ELSE Read(FromLe(SubSeq(bytes, 1, w)), w)

ReadBool(bytes) ==
    IF bytes = <<>> THEN Error("EOF")
    ELSE IF bytes[1] > 1 THEN Error("BadBool")
    ELSE Read(bytes[1] = 1, 1)

\* So many elements; text is checked once it is all there.
ReadElements(t, size, bytes) ==
    LET elem(i) == FromLe(SubSeq(bytes, (i - 1) * t.width + 1, i * t.width))
    IN  IF Len(bytes) < size * t.width THEN Error("EOF")
        ELSE IF t.kind = "text" /\ \E i \in 1 .. size : elem(i) = NotUtf8 THEN Error("Unicode")
        ELSE Read([i \in 1 .. size |-> elem(i)], size * t.width)

\* The length comes first and is judged before the elements are read.
ReadSized(t, bytes) ==
    LET size == ReadNumeral(t.prefix, bytes)
        elems == ReadElements(t, size.val, SubSeq(bytes, t.prefix + 1, Len(bytes)))
    IN  IF size.err # "Ok" THEN size
        ELSE IF size.val < t.min THEN Error("TooShort")
        ELSE IF size.val > t.max THEN Error("Overlong")
        ELSE IF elems.err # "Ok" THEN elems
        ELSE Read(elems.val, t.prefix + elems.used)

DeserializeField(t, bytes) ==
    CASE t.kind = "num" -> ReadNumeral(t.width, bytes)
      [] t.kind = "bool" -> ReadBool(bytes)
      [] OTHER -> ReadSized(t, bytes)

\* The fields in turn, each from where the one before it ended.
ReadFields(fields, bytes) ==
    LET read[i \in 0 .. Len(fields)] ==
            IF i = 0 THEN Read(<<>>, 0)
            ELSE LET before == read[i - 1]
                     field == DeserializeField(fields[i], SubSeq(bytes, before.used + 1, Len(bytes)))
                 IN  IF before.err # "Ok" THEN before
                     ELSE IF field.err # "Ok" THEN field
                     ELSE Read(Append(before.val, field.val), before.used + field.used)
    IN  read[Len(fields)]

\* Nothing may follow the value.
CheckTrailing(r, bytes) ==
    IF r.err = "Ok" /\ r.used < Len(bytes) THEN Error("TrailingBytes") ELSE r

FromSlice(fields, bytes) == CheckTrailing(ReadFields(fields, bytes), bytes)

-----------------------------------------------------------------------------
(***************************************************************************)
(* Frames.  The two bytes of the extension are one unit here, so that a    *)
(* header has five.                                                        *)
(***************************************************************************)
CHANNEL_MSG_MASK == 32768
LEN_OFFSET == 2
LEN_SIZE == 3
HEADER_SIZE == LEN_OFFSET + LEN_SIZE

Frame(m, payload) ==
    [is_channel_message |-> Messages[m].channel, extension_type |-> Messages[m].ext,
     msg_type |-> Messages[m].id, payload |-> payload]

\* A payload of a message is serialized when the frame is.
FromSerializablePayload(m, values) == Frame(m, ToWriter(Messages[m].fields, values))

HeaderSerialize(f) ==
    <<f.extension_type + (IF f.is_channel_message THEN CHANNEL_MSG_MASK ELSE 0), f.msg_type>>
    \o ToLe(Len(f.payload), LEN_SIZE)

FrameSerialize(f) == HeaderSerialize(f) \o f.payload

\* Mutant: the channel bit stays in the extension type.
DeserializeUnmasked(bytes) ==
    [is_channel_message |-> bytes[1] >= CHANNEL_MSG_MASK, extension_type |-> bytes[1],
     msg_type |-> bytes[2], payload |-> SubSeq(bytes, HEADER_SIZE + 1, Len(bytes))]

FrameDeserialize(bytes) ==
    [is_channel_message |-> bytes[1] >= CHANNEL_MSG_MASK,
     extension_type |-> bytes[1] % CHANNEL_MSG_MASK,
     msg_type |-> bytes[2],
     payload |-> SubSeq(bytes, HEADER_SIZE + 1, Len(bytes))]

\* The length-delimited decoder: what the buffer holds, given the length of the
\* frame if it was read before (0 if not).  The length is read once per frame.
FrameLength(buf) == FromLe(SubSeq(buf, LEN_OFFSET + 1, HEADER_SIZE))
HeadKnown(want, buf) == want > 0 \/ Len(buf) >= HEADER_SIZE
TooLong(want, buf) ==
    want = 0 /\ Len(buf) >= HEADER_SIZE /\ FrameLength(buf) > MAX_FRAME_LENGTH
Wanted(want, buf) == IF want > 0 THEN want ELSE HEADER_SIZE + FrameLength(buf)

\* Mutant: a frame is complete only when something follows it.
ReadyWithMore(want, buf) ==
    HeadKnown(want, buf) /\ ~TooLong(want, buf) /\ Len(buf) > Wanted(want, buf)

FrameReady(want, buf) ==
    HeadKnown(want, buf) /\ ~TooLong(want, buf) /\ Len(buf) >= Wanted(want, buf)

\* The message that a handler of base messages makes of a frame: it is chosen by
\* the message type alone.
Dispatch(f) ==
    LET named == {m \in BaseMessages : Messages[m].id = f.msg_type}
    IN  IF named = {} THEN [name |-> "Unknown", err |-> "Ok", val |-> f.payload]
        ELSE LET m == CHOOSE n \in named : TRUE
                 r == FromSlice(Messages[m].fields, f.payload)
             IN  [name |-> m, err |-> r.err, val |-> r.val]
=============================================================================
