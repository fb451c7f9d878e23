------------------------------- MODULE Codecs -------------------------------
(***************************************************************************)
(* The bytes two peers exchange: the frame header (ducknng_wire_core.c,    *)
(* ducknng_wire.c), the prefix of an upload_append payload and the         *)
(* variable-length integers of the quack batches (ducknng_quack_core.c).   *)
(* Whatever arrives is a sequence of bytes; the widths are constants, so   *)
(* that every sequence of a small width is tried.                          *)
(***************************************************************************)
EXTENDS Integers, Sequences, FiniteSets, SequencesExt

CONSTANTS Base,              \* values of a byte of a frame (256)
          FlagBytes,         \* bytes of the flags below the status byte (3)
          LenBytes,          \* bytes of name_len and error_len (4)
          PayloadLenBytes,   \* bytes of payload_len (8)
          RpcError, RpcEvent,                                  \* frame types; the last is the largest
          StatusInternal, StatusDisabled, StatusUnspecified,   \* the largest status but one, and the last
          MaxMethodNameLen, TokenMax,                          \* longest names and tokens
          SizeMax,           \* SIZE_MAX
          MaxBody,           \* bound on the bytes after a header
          Group,             \* payload bits of an integer's byte (7)
          WordBits           \* bits of an integer (64), one more than a multiple of Group

VARIABLES wire,    \* the bytes that have arrived
          origin   \* what the sender encoded in them, if a sender did

codecVars == <<wire, origin>>

FrameVersion == 1

StatusOk == 0

HeaderLen == 2 + FlagBytes + 1 + 2 * LenBytes + PayloadLenBytes

-----------------------------------------------------------------------------
(* Frames.                                                                 *)

SizeAddOk(a, b) == b <= SizeMax - a

\* Little-endian integers of any width.
LeRead(bytes) == FoldRight(LAMBDA b, acc : b + Base * acc, bytes, 0)

LeWrite(n, value) == [i \in 1..n |-> (value \div Base ^ (i - 1)) % Base]

\* ducknng_frame_parts_validate: what may be sent.
FramePartsValid(p) ==
    /\ p.type <= RpcEvent
    /\ Len(p.name) <= MaxMethodNameLen
    /\ Len(p.error) < Base ^ LenBytes
    /\ p.flags < Base ^ FlagBytes
    /\ IF p.type = RpcError
       THEN p.status > StatusOk /\ p.status <= StatusDisabled /\ p.error # <<>>
       ELSE p.status = StatusOk /\ p.error = <<>>
    /\ SizeAddOk(HeaderLen, Len(p.name))
    /\ SizeAddOk(HeaderLen + Len(p.name), Len(p.error))
    /\ SizeAddOk(HeaderLen + Len(p.name) + Len(p.error), Len(p.payload))

FrameMeasure(p) == HeaderLen + Len(p.name) + Len(p.error) + Len(p.payload)

WireWritePrefixSwapped(p) ==
    <<FrameVersion, p.type>> \o LeWrite(FlagBytes, p.flags) \o <<p.status>>
      \o LeWrite(LenBytes, Len(p.error)) \o LeWrite(LenBytes, Len(p.name)) \o LeWrite(PayloadLenBytes, Len(p.payload))
      \o p.name \o p.error

\* The status is the top byte of the control word.
WireWritePrefix(p) ==
    <<FrameVersion, p.type>> \o LeWrite(FlagBytes, p.flags) \o <<p.status>>
      \o LeWrite(LenBytes, Len(p.name)) \o LeWrite(LenBytes, Len(p.error)) \o LeWrite(PayloadLenBytes, Len(p.payload))
      \o p.name \o p.error

EncodeFrameBytes(p) == WireWritePrefix(p) \o p.payload

Rejected == [ok |-> FALSE]

\* ducknng_decode_frame_bytes: the lengths must account for every byte.
DecodeFrameBytes(data) ==
    LET Field(at, n) == LeRead(SubSeq(data, at + 1, at + n))
        type == data[2]
        status == data[2 + FlagBytes + 1]
        nameLen == Field(2 + FlagBytes + 1, LenBytes)
        errorLen == Field(2 + FlagBytes + 1 + LenBytes, LenBytes)
        payloadLen == Field(HeaderLen - PayloadLenBytes, PayloadLenBytes)
        fixed == HeaderLen + nameLen + errorLen
    IN IF \/ Len(data) < HeaderLen
          \/ data[1] # FrameVersion \/ type > RpcEvent
          \/ nameLen > MaxMethodNameLen
          \/ ~SizeAddOk(HeaderLen, nameLen) \/ ~SizeAddOk(HeaderLen + nameLen, errorLen)
          \/ Len(data) < fixed \/ payloadLen # Len(data) - fixed
          \/ type = RpcError /\ (status > StatusDisabled \/ errorLen = 0)
          \/ type # RpcError /\ (status # StatusOk \/ errorLen # 0)
       THEN Rejected
       ELSE [ok |-> TRUE, type |-> type, flags |-> Field(2, FlagBytes),
             status |-> IF type = RpcError /\ status = StatusOk THEN StatusUnspecified ELSE status,
             name |-> SubSeq(data, HeaderLen + 1, HeaderLen + nameLen),
             error |-> SubSeq(data, HeaderLen + nameLen + 1, fixed),
             payload |-> SubSeq(data, fixed + 1, Len(data))]

\* ducknng_build_reply_status: a message, or NULL when the parts are not valid.
BuildReplyStatus(p) == IF FramePartsValid(p) THEN EncodeFrameBytes(p) ELSE <<>>

\* ducknng_error_msg: a code outside the error statuses is sent as an internal error.
ErrorMsg(name, code, message) ==
    BuildReplyStatus([type |-> RpcError, flags |-> 0, name |-> name, error |-> message, payload |-> <<>>,
                      status |-> IF code <= StatusOk \/ code > StatusDisabled THEN StatusInternal ELSE code])

\* ducknng_upload_append_parse_prefix: session id, token length, token, then the batch.
UploadAppendParsePrefix(payload) ==
    LET at == PayloadLenBytes + LenBytes
        tokenLen == LeRead(SubSeq(payload, PayloadLenBytes + 1, at))
    IN IF \/ Len(payload) < at \/ tokenLen = 0
          \/ tokenLen > TokenMax \/ tokenLen > Len(payload) - at
       THEN Rejected
       ELSE [ok |-> TRUE, session |-> LeRead(SubSeq(payload, 1, PayloadLenBytes)),
             token |-> SubSeq(payload, at + 1, at + tokenLen), offset |-> at + tokenLen]

-----------------------------------------------------------------------------
(* Integers.  A byte is payload + 2^Group when another follows.  A reader  *)
(* is [off, value, ok].                                                    *)

More == 2 ^ Group

UMax == 2 ^ WordBits - 1

MaxGroups == (WordBits - 1) \div Group + 1

\* ducknng_qk_write_uleb128: as many bytes as the value has groups, and at least one.
WriteUleb128[v \in Nat] ==
    IF v < More THEN <<v>> ELSE <<(v % More) + More>> \o WriteUleb128[v \div More]

\* ducknng_qk_write_sleb128: the rounded quotient, until the rest is the sign of the byte.
WriteSleb128[v \in Int] ==
    LET next == v \div More
        byte == v - next * More
        sign == byte >= More \div 2
    IN IF (next = 0 /\ ~sign) \/ (next = -1 /\ sign) THEN <<byte>> ELSE <<byte + More>> \o WriteSleb128[next]

\* The bytes of the number at the front of the input, 0 when it does not end there.
NumberLen(bytes) ==
    LET ends == {i \in DOMAIN bytes : bytes[i] < More}
    IN IF ends = {} THEN 0 ELSE CHOOSE i \in ends : \A j \in ends : i <= j

\* The bits of the first n groups, kept to the width of the word.
Bits(bytes, n) ==
    FoldLeft(LAMBDA acc, i : (acc + (bytes[i] % More) * 2 ^ (Group * (i - 1))) % (UMax + 1), 0, [i \in 1..n |-> i])

ReadUleb128Wraps(bytes) ==
    LET n == NumberLen(bytes)
    IN IF n = 0 \/ n > MaxGroups THEN Rejected ELSE [ok |-> TRUE, off |-> n, value |-> Bits(bytes, n)]

\* ducknng_qk_read_uleb128: in the last group only the lowest bit fits.
ReadUleb128(bytes) ==
    LET n == NumberLen(bytes)
    IN IF n = 0 \/ n > MaxGroups \/ (n = MaxGroups /\ bytes[n] % More > 1)
       THEN Rejected
       ELSE [ok |-> TRUE, off |-> n, value |-> Bits(bytes, n)]

\* ducknng_qk_read_sleb128: the last group is all sign; shorter numbers are extended.
ReadSleb128(bytes) ==
    LET n == NumberLen(bytes)
        extended == IF n < MaxGroups /\ bytes[n] % More >= More \div 2
                    THEN Bits(bytes, n) + (UMax + 1 - 2 ^ (Group * n)) ELSE Bits(bytes, n)
    IN IF n = 0 \/ n > MaxGroups \/ (n = MaxGroups /\ bytes[n] % More \notin {0, More - 1})
       THEN Rejected
       ELSE [ok |-> TRUE, off |-> n,
             value |-> IF extended > UMax \div 2 THEN extended - (UMax + 1) ELSE extended]

\* ducknng_qk_read_counted: the count may not reach past the end.
ReadCounted(bytes) ==
    LET r == ReadUleb128(bytes)
    IN IF ~r.ok THEN Rejected
       ELSE IF r.value > Len(bytes) - r.off THEN Rejected
       ELSE [ok |-> TRUE, data |-> SubSeq(bytes, r.off + 1, r.off + r.value), off |-> r.off + r.value]

\* ducknng_qk_write_counted.
WriteCounted(data) == WriteUleb128[Len(data)] \o data

-----------------------------------------------------------------------------
(* What arrives.  A peer sends a valid frame, an error reply or a number,  *)
(* or any bytes at all.                                                    *)

NoOrigin == [kind |-> "none"]

CodecInit == wire = <<>> /\ origin = NoOrigin

Quiet == wire = <<>> /\ origin = NoOrigin

Bodies == UNION {[1..n -> 0..(Base - 1)] : n \in 0..MaxBody}

SendReply(p) ==
    /\ Quiet /\ FrameMeasure(p) <= SizeMax + MaxBody
    /\ wire' = BuildReplyStatus(p)
    /\ origin' = [kind |-> "reply", parts |-> p]

SendError(name, code, message) ==
    /\ Quiet /\ message # <<>>
    /\ wire' = ErrorMsg(name, code, message)
    /\ origin' = [kind |-> "error", code |-> code, name |-> name, message |-> message]

FrameByteArrives(b) ==
    /\ origin = NoOrigin /\ Len(wire) < HeaderLen + MaxBody
    /\ wire' = Append(wire, b)
    /\ UNCHANGED origin

SendNumber(v) ==
    /\ Quiet
    /\ \/ v >= 0 /\ wire' = WriteUleb128[v] /\ origin' = [kind |-> "unsigned", value |-> v]
       \/ v \in -((UMax + 1) \div 2)..(UMax \div 2) /\ wire' = WriteSleb128[v] /\ origin' = [kind |-> "signed", value |-> v]

NumberByteArrives(b) ==
    /\ origin = NoOrigin /\ Len(wire) < MaxGroups + 1
    /\ wire' = Append(wire, b)
    /\ UNCHANGED origin

FrameNext ==
    \/ Quiet /\ \E type, flags, status \in 0..(Base - 1), name, error, payload \in Bodies :
          SendReply([type |-> type, flags |-> flags, status |-> status, name |-> name, error |-> error, payload |-> payload])
    \/ Quiet /\ \E name, message \in Bodies, code \in -1..(Base + 1) : SendError(name, code, message)
    \/ \E b \in 0..(Base - 1) : FrameByteArrives(b)

NumberNext ==
    \/ Quiet /\ \E v \in -((UMax + 1) \div 2)..UMax : SendNumber(v)
    \/ \E b \in 0..(2 * More - 1) : NumberByteArrives(b)

-----------------------------------------------------------------------------
(* Properties.                                                             *)

\* Every frame that can be built is decoded to what was sent, an error reply is
\* always built when its strings fit and carries an error status, a decoded frame
\* has exactly one encoding (so neither a shortened nor a lengthened frame passes
\* for one), and the prefix of an upload accounts for the bytes before the batch.
FrameCodecExact ==
    LET f == DecodeFrameBytes(wire)
        u == UploadAppendParsePrefix(wire)
    IN /\ origin.kind = "reply" /\ wire # <<>> =>
             f.ok /\ \A k \in DOMAIN origin.parts : f[k] = origin.parts[k]
       /\ origin.kind = "error" =>
             /\ wire # <<>> <=> (Len(origin.name) <= MaxMethodNameLen /\ HeaderLen + Len(origin.name) + Len(origin.message) <= SizeMax)
             /\ wire # <<>> => /\ f.ok /\ f.type = RpcError /\ f.error = origin.message /\ f.name = origin.name
                               /\ f.status = IF origin.code \in 1..StatusDisabled THEN origin.code ELSE StatusInternal
       /\ f.ok /\ f.status # StatusUnspecified => EncodeFrameBytes(f) = wire
       /\ f.ok => \A k \in 0..(Len(wire) - 1) : ~DecodeFrameBytes(SubSeq(wire, 1, k)).ok
       /\ u.ok => LeWrite(PayloadLenBytes, u.session) \o LeWrite(LenBytes, Len(u.token)) \o u.token
                    = SubSeq(wire, 1, u.offset)

\* The number the groups of a byte string denote, of any size, and as two's complement.
Denoted(bytes, n) == FoldRight(LAMBDA b, acc : (b % More) + More * acc, SubSeq(bytes, 1, n), 0)

DenotedSigned(bytes, n) ==
    IF bytes[n] % More >= More \div 2 THEN Denoted(bytes, n) - More ^ n ELSE Denoted(bytes, n)

\* A reader of integers accepts exactly the byte strings whose number fits the word,
\* returns that number and stops after it; what the writers write comes back; a
\* counted string never reaches past the end of the batch.
IntegersExact ==
    LET n == NumberLen(wire)
        u == ReadUleb128(wire)
        s == ReadSleb128(wire)
        c == ReadCounted(wire)
    IN /\ u.ok <=> n \in 1..MaxGroups /\ Denoted(wire, n) <= UMax
       /\ u.ok => u.value = Denoted(wire, n) /\ u.off = n
       /\ s.ok <=> n \in 1..MaxGroups /\ DenotedSigned(wire, n) \in -((UMax + 1) \div 2)..(UMax \div 2)
       /\ s.ok => s.value = DenotedSigned(wire, n) /\ s.off = n
       /\ origin.kind = "unsigned" => u.ok /\ u.value = origin.value /\ u.off = Len(wire)
       /\ origin.kind = "signed" => s.ok /\ s.value = origin.value /\ s.off = Len(wire)
       /\ c.ok => c.off <= Len(wire) /\ WriteCounted(c.data) = WriteUleb128[u.value] \o c.data
=============================================================================
