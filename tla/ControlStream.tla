--------------------------- MODULE ControlStream ---------------------------
(***************************************************************************)
(* The bytes of a control connection, from the socket to the command that  *)
(* the control loop handles: the header of the PROXY protocol, which is    *)
(* peeked at and read chunk by chunk, then lines of commands, which a      *)
(* codec finds in a buffer.  The network delivers what the client sends in *)
(* chunks of any size.                                                     *)
(***************************************************************************)
EXTENDS LineParser

CONSTANTS
  Requests,      \* what a client may send first: a keyword, its parameter, its encoding
  Probes,        \* what it may send after that, or after a header
  Headers,       \* the lines that a proxy may send before the client, without the LF
  MaxRequests,   \* bound: how many requests a client sends
  MinHeader,     \* the least index of the LF that ends a header, 13 in the code
  Capacity       \* of the buffers that headers are read into, 108 in the code

VARIABLES
  header,      \* what the proxy sent, <<>> without a proxy
  requests,    \* what the client has sent
  wire,        \* the bytes that the server has not read
  open,        \* whether the client has still to close its side
  phase,       \* "header", "commands" or "closed"
  rbuf,        \* the bytes of the header read so far
  verdict,     \* how read_proxy_header ended
  buf,         \* the buffer of Framed
  readable,    \* whether Framed decodes before it reads
  eof,         \* whether Framed has read the end of the stream
  next_index,  \* the state of FtpCodec
  results      \* what came out of the codec, in order

vars == <<header, requests, wire, open, phase, rbuf, verdict, buf, readable, eof,
          next_index, results>>
client == <<header, requests, open>>
codec == <<buf, readable, eof, next_index, results>>

ASSUME StreamAssumption ==
  /\ MinHeader \in Nat /\ Capacity \in Nat /\ 1 < MinHeader /\ MinHeader < Capacity
  /\ Probes \subseteq Requests

-----------------------------------------------------------------------------
(* The client: RFC 854 sends a CR that does not end a line as CR NUL.      *)

Encoded(p) == FlattenSeq([i \in DOMAIN p |-> IF p[i] = CR THEN <<CR, NUL>> ELSE <<p[i]>>])

\* A request on the wire: encoded and ended with CR LF, or as it is and with a LF.
Line(r) ==
  LET sep == IF r.arg = <<>> THEN <<>> ELSE <<Space>>
  IN  <<r.key>> \o sep \o (IF r.encoded THEN Encoded(r.arg) \o <<CR, LF>> ELSE r.arg \o <<LF>>)

Newline(s) == {i \in DOMAIN s : s[i] = LF}

\* What the client and the proxy send are lines: a LF ends each, and none is in it.
IsLine(s) == s \in Seq(STRING) /\ s # <<>> /\ Newline(s) = {Len(s)}
ASSUME LineAssumption ==
  /\ \A r \in Requests : IsLine(Line(r))
  /\ \A h \in Headers : IsLine(h \o <<LF>>)

Init ==
  /\ header \in {<<>>} \union {h \o <<LF>> : h \in Headers}
  /\ wire = header
  /\ phase = IF header = <<>> THEN "commands" ELSE "header"
  /\ requests = <<>> /\ open = TRUE
  /\ rbuf = <<>> /\ verdict = "none"
  /\ buf = <<>> /\ readable = FALSE /\ eof = FALSE /\ next_index = 0
  /\ results = <<>>

Request(r) ==
  /\ open /\ Len(requests) < MaxRequests
  /\ r \in IF header = <<>> /\ requests = <<>> THEN Requests ELSE Probes
  /\ requests' = Append(requests, r)
  /\ wire' = wire \o Line(r)
  /\ UNCHANGED <<header, open, phase, rbuf, verdict, codec>>

Close ==
  /\ open /\ open' = FALSE
  /\ UNCHANGED <<header, requests, wire, phase, rbuf, verdict, codec>>

-----------------------------------------------------------------------------
(* read_proxy_header.  At the end of the stream it peeks at nothing for    *)
(* ever, which changes no state.                                           *)

Rejects(why) ==
  /\ verdict' = why /\ phase' = "closed"
  /\ UNCHANGED <<client, wire, rbuf, codec>>

\* A library parses the header.  Only the addresses of IPv4 will do.
Parsed ==
  \/ verdict' = "ok" /\ phase' = "commands"
  \/ verdict' \in {"DecodeError", "IPv4Required", "UnsupportedVersion"} /\ phase' = "closed"

\* Mutant of HeaderRead: the CR is looked for in the bytes peeked at last.
HeaderReadOfChunk(pos) ==
  /\ wire' = SubSeq(wire, pos + 1, Len(wire))
  /\ rbuf' = rbuf \o SubSeq(wire, 1, pos)
  /\ IF pos > 1 /\ wire[pos - 1] = CR
     THEN Parsed
     ELSE verdict' = "CrlfError" /\ phase' = "closed"
  /\ UNCHANGED <<client, codec>>

\* The rest of the line is read: it must end with CR LF.
HeaderRead(pos) ==
  /\ wire' = SubSeq(wire, pos + 1, Len(wire))
  /\ rbuf' = rbuf \o SubSeq(wire, 1, pos)
  /\ IF rbuf'[Len(rbuf') - 1] = CR
     THEN Parsed
     ELSE verdict' = "CrlfError" /\ phase' = "closed"
  /\ UNCHANGED <<client, codec>>

\* A peek sees the first n bytes.  The index of the LF in the header is last; the
\* bytes that an earlier peek left in the buffer hold no LF.
PeekHeader(n) ==
  LET pbuf == SubSeq(wire, 1, n)
      pos  == First(Newline(pbuf))
      last == Len(rbuf) + pos - 1
  IN  /\ phase = "header"
      /\ IF Newline(pbuf) # {}
         THEN \/ (last > Capacity \/ last < MinHeader) /\ Rejects("HeaderSize")
              \/ last = Capacity /\ Rejects("panic")
              \/ last \in MinHeader..(Capacity - 1) /\ HeaderRead(pos)
         ELSE IF Len(rbuf) + n > Capacity THEN Rejects("NotProxyHdr")
         ELSE /\ rbuf' = rbuf \o pbuf
              /\ wire' = SubSeq(wire, n + 1, Len(wire))
              /\ UNCHANGED <<client, phase, verdict, codec>>

-----------------------------------------------------------------------------
(* Framed reads and decodes in turn.                                       *)

Read(n) ==
  /\ phase = "commands" /\ ~readable
  /\ n \in 1..Len(wire)
  /\ buf' = buf \o SubSeq(wire, 1, n)
  /\ wire' = SubSeq(wire, n + 1, Len(wire))
  /\ readable' = TRUE
  /\ UNCHANGED <<client, phase, rbuf, verdict, eof, next_index, results>>

ReadEof ==
  /\ phase = "commands" /\ ~readable
  /\ wire = <<>> /\ ~open
  /\ eof' = TRUE /\ readable' = TRUE
  /\ UNCHANGED <<client, wire, phase, rbuf, verdict, buf, next_index, results>>

\* The control loop closes the connection after an error in the encoding.  After
\* any other error Framed may end the stream, and the control loop with it.
Handle(result) ==
  /\ results' = Append(results, result)
  /\ IF result.cmd # "error" THEN UNCHANGED phase
     ELSE IF result.arg = <<"InvalidUtf8">> THEN phase' = "closed"
     ELSE phase' \in {phase, "closed"}

\* Mutant of Decode: next_index is not set back.
DecodeKeepsIndex ==
  /\ phase = "commands" /\ readable
  /\ LET lf == {i \in Newline(buf) : i > next_index}
     IN  IF lf # {}
         THEN /\ Handle(parse(SubSeq(buf, 1, First(lf))))
              /\ buf' = SubSeq(buf, First(lf) + 1, Len(buf))
              /\ UNCHANGED <<readable, next_index>>
         ELSE /\ next_index' = Len(buf)
              /\ IF eof THEN phase' = "closed" /\ UNCHANGED readable
                 ELSE readable' = FALSE /\ UNCHANGED phase
              /\ UNCHANGED <<buf, results>>
  /\ UNCHANGED <<client, wire, rbuf, verdict, eof>>

\* A line is taken out of the buffer, or there is none.  At the end of the stream
\* what is left is an error or, if nothing is, the end: either ends the loop.
Decode ==
  /\ phase = "commands" /\ readable
  /\ LET lf == {i \in Newline(buf) : i > next_index}
     IN  IF lf # {}
         THEN /\ Handle(parse(SubSeq(buf, 1, First(lf))))
              /\ buf' = SubSeq(buf, First(lf) + 1, Len(buf))
              /\ next_index' = 0
              /\ UNCHANGED readable
         ELSE /\ next_index' = Len(buf)
              /\ IF eof THEN phase' = "closed" /\ UNCHANGED readable
                 ELSE readable' = FALSE /\ UNCHANGED phase
              /\ UNCHANGED <<buf, results>>
  /\ UNCHANGED <<client, wire, rbuf, verdict, eof>>

Peek == \E n \in 1..Len(wire) : n <= Capacity /\ PeekHeader(n)
ReadSome == \E n \in 1..Len(wire) : Read(n)

\* The task that reads the header, then the task of the control loop.
Server == Peek \/ ReadSome \/ ReadEof \/ Decode

Next == (\E r \in Requests : Request(r)) \/ Close \/ Server

Spec == Init /\ [][Next]_vars

-----------------------------------------------------------------------------
(* Properties.                                                             *)

\* The command that a well encoded request asks for, without looking at its bytes.
\* SITE takes the first word of its parameter as the name of a command.
Meaning(r) ==
  LET word == to_uppercase(r.key)
  IN  IF word \in DOMAIN Words THEN Interpret(word, r.arg)
      ELSE Cmd("Other", <<word, Space>> \o from_utf8_lossy(r.arg))

\* What a request is to yield, and that parse finds it in the request's line.
Expected(r) ==
  IF r.encoded /\ r.key \notin {BadUtf8, "SITE"} THEN Meaning(r) ELSE parse(Line(r))
ParserExact == \A r \in Requests : parse(Line(r)) = Expected(r)

(***************************************************************************)
(* Whatever the chunks, and whatever the lines before it (FtpCodec keeps   *)
(* an index from one call of decode to the next), the n-th result is that  *)
(* of the n-th line that was sent; and for a line with the encoding of the *)
(* RFC it is the command that the client meant, with the very parameter it *)
(* had before its CRs were encoded.                                        *)
(***************************************************************************)
Delivered ==
  \A n \in DOMAIN results :
    /\ n \in DOMAIN requests
    /\ results[n] = Expected(requests[n])

(***************************************************************************)
(* read_proxy_header's verdict on a line does not depend on the chunks it  *)
(* came in, unless the line is longer than any header, and then it is no   *)
(* header in any case.                                                     *)
(***************************************************************************)
HeaderExact ==
  LET last == Len(header) - 1
  IN  verdict # "none" =>
        /\ (last < MinHeader) => (verdict = "HeaderSize")
        /\ (last \in MinHeader..(Capacity - 1)) =>
             /\ verdict \notin {"HeaderSize", "NotProxyHdr", "panic"}
             /\ (verdict = "CrlfError") <=> (header[last] # CR)
        /\ (last >= Capacity) => (verdict \in {"HeaderSize", "NotProxyHdr", "panic"})

(***************************************************************************)
(* A control loop that waits for bytes, or that ends because the client    *)
(* has closed, has left no line undecoded: FtpCodec, which does not look   *)
(* again at bytes it has seen, never makes a client wait for the answer to *)
(* a whole line until it sends another.                                    *)
(***************************************************************************)
NoLineWaits ==
  LET waits  == phase = "commands" /\ ~readable /\ wire = <<>>
      closed == phase = "closed" /\ eof /\ \A n \in DOMAIN results : results[n].cmd # "error"
  IN  waits \/ closed => Len(results) = Len(requests)
=============================================================================
