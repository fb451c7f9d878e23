-------------------------- MODULE HttpClientStream --------------------------
(***************************************************************************)
(* The body of a streaming HTTP response (ducknng_http_client_stream.c): a *)
(* stream is opened in three asynchronous steps, then each receive hands   *)
(* out at most the bytes its caller has room for, decoding what is left of *)
(* the last read before it asks the connection for another.  The peer      *)
(* sends any bytes, the connection returns them in pieces of any size, and *)
(* may fail or be closed between any two.  The byte values 0..DigitBase-1  *)
(* are the digits, the five after them the other bytes told apart.         *)
(***************************************************************************)
EXTENDS Integers, Sequences, SequencesExt

CONSTANTS Responses,    \* headers a peer answers with: [bodiless, coding, length]
          DigitBase,    \* 16 for chunk sizes, 10 for lengths
          CounterMax,   \* UINT64_MAX
          LineMax,      \* DUCKNNG_HTTP_STREAM_LINE_MAX
          RawMax,       \* sizeof(stream->raw_buf)
          MaxRoom,      \* room of a receive, DUCKNNG_HTTP_STREAM_MAX_RECV_BYTES
          Sent,         \* the byte values the peer sends, by the kind of body
          MaxArrived    \* bound on the number of them

VARIABLES stream,       \* ducknng_http_client_stream
          recv,         \* the receive in progress, or how the last one ended
          arrived,      \* every body byte the connection returned
          delivered     \* every byte receives returned

streamVars == <<stream, recv, arrived, delivered>>

CR == DigitBase
LF == DigitBase + 1
Semicolon == DigitBase + 2
ControlByte == DigitBase + 3    \* a control character other than CR, LF and TAB
Letter == DigitBase + 4     \* any other byte

NoReceive == [at |-> "idle", room |-> 0, eof |-> FALSE, lost |-> FALSE]

\* raw is what raw_buf holds between raw_pos and raw_len.
Prepared ==
    [phase |-> "connect", open |-> FALSE, failed |-> FALSE, closing |-> FALSE, eof |-> FALSE, mode |-> "none",
     raw |-> <<>>, left |-> 0, chunk |-> "size", line |-> <<>>, saw_cr |-> FALSE, crlf |-> 0]

-----------------------------------------------------------------------------
(* Numbers and lines.  A result of -1 is an error.                         *)

Digits == 0..(DigitBase - 1)

\* The value of a string of digits, refused before it could overflow.
ParseNumber(text) ==
    FoldLeft(LAMBDA n, d : IF n = -1 \/ d \notin Digits \/ n > (CounterMax - d) \div DigitBase THEN -1
                           ELSE n * DigitBase + d,
             0, text)

ParseContentLength(text) == IF text = <<>> THEN -1 ELSE ParseNumber(text)

\* A chunk size ends at a ";" that starts an extension.
SizeText(line) == LET i == SelectInSeq(line, LAMBDA c : c = Semicolon) IN IF i = 0 THEN line ELSE SubSeq(line, 1, i - 1)

ParseChunkSize(s) ==
    LET size == IF SizeText(s.line) = <<>> THEN -1 ELSE ParseNumber(SizeText(s.line))
    IN IF size = -1 THEN [s EXCEPT !.failed = TRUE]
       ELSE [s EXCEPT !.left = size, !.line = <<>>, !.chunk = IF size = 0 THEN "trailers" ELSE "data"]

\* Takes bytes up to the end of a line; what it has of one stays in s for the next read.
RECURSIVE ReadLine(_)
ReadLine(s) ==
    LET c == Head(s.raw)
        rest == [s EXCEPT !.raw = Tail(@)]
    IN CASE s.raw = <<>> -> [s |-> s, complete |-> FALSE]
         [] s.saw_cr /\ c = LF -> [s |-> [rest EXCEPT !.saw_cr = FALSE], complete |-> TRUE]
         [] ~s.saw_cr /\ c = CR -> ReadLine([rest EXCEPT !.saw_cr = TRUE])
         [] s.saw_cr \/ c \in {LF, ControlByte} \/ Len(s.line) >= LineMax ->
              [s |-> [rest EXCEPT !.failed = TRUE], complete |-> FALSE]
         [] OTHER -> ReadLine([rest EXCEPT !.line = Append(@, c)])

-----------------------------------------------------------------------------
(* Decoding.                                                               *)

Min3(a, b, c) == CHOOSE m \in {a, b, c} : m <= a /\ m <= b /\ m <= c

Took(s, n) == [s EXCEPT !.raw = SubSeq(@, n + 1, Len(@)), !.left = @ - n]

Result(s, rc, out, eof) == [s |-> s, rc |-> IF s.failed THEN -1 ELSE rc, out |-> out, eof |-> eof]

ProcessLength(s, room) ==
    LET n == Min3(Len(s.raw), room, s.left)
        t == [Took(s, n) EXCEPT !.eof = s.left = n]
    IN Result(t, IF n > 0 \/ t.eof THEN 1 ELSE 0, SubSeq(s.raw, 1, n), n = 0 /\ t.eof)

ProcessUntilClose(s, room) ==
    LET n == Min3(Len(s.raw), room, room)
    IN Result([s EXCEPT !.raw = SubSeq(@, n + 1, Len(@))], IF n > 0 THEN 1 ELSE 0, SubSeq(s.raw, 1, n), FALSE)

DataStateOnLastByteOnly(s, n) == [Took(s, n) EXCEPT !.chunk = IF s.left = n /\ n < Len(s.raw) THEN "crlf" ELSE "data"]

\* After the last byte of a chunk its CR LF is due.
DataState(s, n) == IF s.left = n THEN [Took(s, n) EXCEPT !.chunk = "crlf", !.crlf = 0] ELSE Took(s, n)

\* Matches as much of CR LF as has come.
DataCrlf(s) ==
    LET want == IF s.crlf = 0 THEN CR ELSE LF
        rest == [s EXCEPT !.raw = Tail(@)]
    IN CASE Head(s.raw) # want -> [rest EXCEPT !.failed = TRUE]
         [] want = LF -> [rest EXCEPT !.chunk = "size"]
         [] OTHER -> [rest EXCEPT !.crlf = 1]

\* rc 1: bytes or the end to return, 0: another read is needed.
RECURSIVE ProcessChunked(_, _)
ProcessChunked(s, room) ==
    LET l == ReadLine(s)
        n == Min3(Len(s.raw), room, s.left)
    IN CASE s.failed -> Result(s, -1, <<>>, FALSE)
         [] s.chunk = "data" ->
              IF n > 0 THEN Result(DataState(s, n), 1, SubSeq(s.raw, 1, n), FALSE) ELSE Result(s, 0, <<>>, FALSE)
         [] s.chunk = "crlf" -> IF s.raw = <<>> THEN Result(s, 0, <<>>, FALSE) ELSE ProcessChunked(DataCrlf(s), room)
         [] ~l.complete -> Result(l.s, 0, <<>>, FALSE)
         [] s.chunk = "size" -> ProcessChunked(ParseChunkSize(l.s), room)
         [] l.s.line = <<>> -> Result([l.s EXCEPT !.eof = TRUE], 1, <<>>, TRUE)
         [] OTHER -> ProcessChunked([l.s EXCEPT !.line = <<>>], room)

Process(s, room) ==
    CASE s.eof -> Result(s, 1, <<>>, TRUE)
      [] s.mode = "length" -> ProcessLength(s, room)
      [] s.mode = "close" -> ProcessUntilClose(s, room)
      [] s.mode = "chunked" -> ProcessChunked(s, room)
      [] OTHER -> Result([s EXCEPT !.eof = TRUE], 1, <<>>, TRUE)

-----------------------------------------------------------------------------
(* Opening.                                                                *)

\* A HEAD request, and the statuses 1xx, 204, 205 and 304.
ResponseHasNoBody(r) == r.bodiless

\* The last transfer coding must be chunked.
HeaderEndsWithToken(codings) == codings # <<>> /\ Last(codings) = "chunked"

ConfigureBody(r) ==
    LET length == ParseContentLength(r.length.text)
    IN CASE ResponseHasNoBody(r) -> [stream EXCEPT !.eof = TRUE]
         [] r.coding # <<>> -> IF HeaderEndsWithToken(r.coding) THEN [stream EXCEPT !.mode = "chunked"]
                               ELSE [stream EXCEPT !.failed = TRUE]
         [] r.length.given -> IF length = -1 THEN [stream EXCEPT !.failed = TRUE]
                                     ELSE [stream EXCEPT !.mode = "length", !.left = length, !.eof = length = 0]
         [] OTHER -> [stream EXCEPT !.mode = "close"]

\* One completed step of the opening; ok is the result of its asynchronous operation.
OpenAdvance(ok, r) ==
    LET configured == ConfigureBody(r)
    IN /\ stream.phase # "done" /\ ~stream.failed
       /\ stream' = CASE ~ok -> [stream EXCEPT !.failed = TRUE]
                      [] stream.phase = "connect" -> [stream EXCEPT !.phase = "write"]
                      [] stream.phase = "write" -> [stream EXCEPT !.phase = "headers"]
                      [] configured.failed -> configured
                      [] OTHER -> [configured EXCEPT !.phase = "done", !.open = TRUE]
       /\ UNCHANGED <<recv, arrived, delivered>>

-----------------------------------------------------------------------------
(* Receiving.                                                              *)

\* What Process left: the receive returns, fails, or is to read more.
Received(p, room, again) ==
    /\ stream' = p.s
    /\ recv' = IF p.rc = 0 THEN [NoReceive EXCEPT !.at = again, !.room = room] ELSE [NoReceive EXCEPT !.eof = p.eof]
    /\ delivered' = delivered \o p.out

RecvBegin(room) ==
    /\ recv.at = "idle" /\ stream.open /\ ~stream.failed /\ ~stream.closing
    /\ Received(Process(stream, room), room, "submit")
    /\ UNCHANGED arrived

\* ducknng_http_client_stream_submit, after rt->mu was released: a close in between
\* has taken the connection.  Only the callback marks the stream failed then.
Submit ==
    /\ recv.at \in {"submit", "resubmit"}
    /\ recv' = IF stream.closing THEN [NoReceive EXCEPT !.lost = TRUE] ELSE [recv EXCEPT !.at = "reading"]
    /\ stream' = IF stream.closing THEN [stream EXCEPT !.failed = @ \/ recv.at = "resubmit"] ELSE [stream EXCEPT !.raw = <<>>]
    /\ UNCHANGED <<arrived, delivered>>

\* ducknng_http_client_stream_recv_advance with the bytes of a completed read.
RecvAdvance(bytes) ==
    /\ recv.at = "reading"
    /\ arrived' = arrived \o bytes
    /\ Received(Process([stream EXCEPT !.raw = bytes], recv.room), recv.room, "resubmit")

\* The same when the read failed; only a body that ends with its connection may end so.
RecvAdvanceError(shut) ==
    LET ended == stream.mode = "close" /\ ~stream.closing /\ shut
    IN /\ recv.at = "reading"
       /\ recv' = [NoReceive EXCEPT !.eof = ended, !.lost = ~ended]
       /\ stream' = IF ended THEN [stream EXCEPT !.eof = TRUE] ELSE [stream EXCEPT !.failed = TRUE]
       /\ UNCHANGED <<arrived, delivered>>

\* ducknng_ncurl_stream_close, which also ends a read in progress.
StreamClosing ==
    /\ stream.open /\ ~stream.closing
    /\ stream' = [stream EXCEPT !.closing = TRUE]
    /\ UNCHANGED <<recv, arrived, delivered>>

StreamInit == stream = Prepared /\ recv = NoReceive /\ arrived = <<>> /\ delivered = <<>>

Reads == UNION {[1..n -> Sent[stream.mode]] : n \in {k \in 1..RawMax : Len(arrived) + k <= MaxArrived[stream.mode]}}

StreamNext ==
    \/ \E ok \in BOOLEAN, r \in Responses : OpenAdvance(ok, r)
    \/ \E room \in 1..MaxRoom : RecvBegin(room)
    \/ Submit
    \/ /\ recv.at = "reading"
       /\ \E bytes \in Reads : RecvAdvance(bytes)
    \/ \E shut \in BOOLEAN : RecvAdvanceError(shut)
    \/ StreamClosing

-----------------------------------------------------------------------------
(* The body the arrived bytes stand for, read as one string.               *)

Piece(b, i, j) == SubSeq(b, i, IF j > Len(b) THEN Len(b) ELSE j)
Grown(body, more) == [body EXCEPT !.data = more \o @]
Partial(data) == [data |-> data, status |-> "more"]
Malformed == [data |-> <<>>, status |-> "bad"]

\* The length of the first line of b; 0 when it is not complete, -1 when it cannot be one.
LineEnd(b) ==
    LET stops == {i \in DOMAIN b : b[i] \in {CR, LF, ControlByte}}
        i == CHOOSE j \in stops : \A k \in stops : j <= k
    IN IF stops = {} THEN IF Len(b) > LineMax THEN -1 ELSE 0
       ELSE IF i > LineMax + 1 \/ b[i] # CR THEN -1
       ELSE IF i = Len(b) THEN 0
       ELSE IF b[i + 1] = LF THEN i + 1 ELSE -1

RECURSIVE Trailers(_)
Trailers(b) ==
    LET e == LineEnd(b)
    IN CASE e = -1 -> Malformed
         [] e = 0 -> Partial(<<>>)
         [] e = 2 -> [data |-> <<>>, status |-> "end"]
         [] OTHER -> Trailers(SubSeq(b, e + 1, Len(b)))

RECURSIVE ChunkedBody(_)
ChunkedBody(b) ==
    LET e == LineEnd(b)
        text == SizeText(SubSeq(b, 1, e - 2))
        value == FoldLeft(LAMBDA n, d : n * DigitBase + d, 0, text)
        rest == SubSeq(b, e + 1, Len(b))
        data == Piece(rest, 1, value)
        after == Piece(rest, value + 1, value + 2)
    IN CASE e = -1 -> Malformed
         [] e = 0 -> Partial(<<>>)
         [] text = <<>> \/ Range(text) \cap Digits # Range(text) -> Malformed
         [] value > CounterMax -> Malformed
         [] value = 0 -> Trailers(rest)
         [] ~IsPrefix(after, <<CR, LF>>) -> Grown(Malformed, data)
         [] Len(after) < 2 -> Partial(data)
         [] OTHER -> Grown(ChunkedBody(SubSeq(rest, value + 3, Len(rest))), data)

\* However the bytes are cut into reads and whatever room the receives have, a
\* receive hands out the body's bytes in order and each once: all that have come
\* before it reads again, and the end only when the body is whole.  A read overwrites
\* nothing left of the last one.  A stream that is not closed fails only for
\* malformed framing or a lost connection, never after its end was reported.
StreamBodyExact ==
    LET body == ChunkedBody(arrived)
    IN /\ recv.at # "idle" => stream.raw = <<>> /\ ~stream.eof
       /\ stream.mode = "chunked" =>
             /\ IsPrefix(delivered, body.data)
             /\ recv.at # "idle" => delivered = body.data /\ body.status = "more"
             /\ stream.eof => delivered = body.data /\ body.status = "end"
       /\ stream.mode = "close" =>
             /\ delivered \o stream.raw = arrived
             /\ recv.eof => stream.raw = <<>>
       /\ stream.mode = "length" =>
             /\ IsPrefix(delivered, arrived)
             /\ recv.at # "idle" => delivered = arrived
             /\ stream.eof <=> stream.left = 0
       /\ recv.eof => stream.eof
       /\ stream.open /\ stream.failed => recv.lost \/ (stream.mode = "chunked" /\ body.status = "bad")
=============================================================================
