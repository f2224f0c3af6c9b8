---------------------------- MODULE HttpForward ----------------------------
(***************************************************************************)
(* A forwarded HTTP request: the handler writes the request into one end   *)
(* of an in-memory pipe, a relay thread dials the origin and copies both   *)
(* ways through the other end, and the handler parses the response out of  *)
(* its end, whatever pieces it arrives in.                                 *)
(* (src/engine/inbound/forward.rs, HttpProxyHandler::forward in http.rs)   *)
(*                                                                         *)
(* The response is a sequence of tokens: the head, data bytes, the two     *)
(* bytes of a line end, and chunk-size lines (with their own line end).    *)
(***************************************************************************)
EXTENDS Integers, Sequences, FiniteSets, SequencesExt, FiniteSetsExt

CONSTANTS Responses,   \* what an origin may answer
          ReqLens,     \* bytes of a request
          Cap,         \* capacity of the pipe, each way
          MaxBody      \* MAX_RESPONSE_BODY_BYTES

VARIABLES resp,        \* the origin's answer: its framing, body and tail
          wire,        \* what the origin has not sent yet
          origin,      \* "open", "closed" (after all of it), "cut" (before)
          up, down,    \* the two buffers of the pipe
          aClosed, bClosed, aBoth, bBoth,   \* the pipe's flags
          relay,       \* the relay thread
          upDone, downDone,                 \* its two directions
          pc, left,    \* the handler, and what it has left to write
          buf, out, need,                   \* the parser
          late,        \* RESPONSE_DEADLINE has passed
          result

pipe == <<up, down, aClosed, bClosed, aBoth, bBoth>>
parser == <<buf, out, need>>
vars == <<resp, wire, origin, pipe, relay, upDone, downDone, pc, left, parser, late, result>>

----------------------------------------------------------------------------
(* The wire format                                                         *)

HeadToken == <<"head", 0>>
Data(i) == <<"data", i>>
CR == <<"cr", 0>>
LF == <<"lf", 0>>
Size(k) == <<"size", k>>
Trailer == <<"trailer", 0>>

Body(n) == [i \in 1 .. n |-> Data(i)]
\* A chunk holds one byte, or two.
Chunk(i, k) == <<Size(k)>> \o SubSeq(Body(i + k), i + 1, i + k) \o <<CR, LF>>
Encoded(r) ==
  <<HeadToken>> \o
  CASE r.framing = "chunked" ->
         FoldLeft(LAMBDA acc, k : [at |-> acc.at + k, s |-> acc.s \o Chunk(acc.at, k)],
                  [at |-> 0, s |-> << >>], r.chunks).s
         \o <<Size(0)>> \o (IF r.trailer THEN <<Trailer>> ELSE << >>) \o <<CR, LF>>
    [] OTHER -> Body(r.len)
BodyLen(r) == IF r.framing = "chunked" THEN FoldLeft(+, 0, r.chunks) ELSE r.len

Init ==
  /\ resp \in Responses
  /\ wire = Encoded(resp)
  /\ origin = "open"
  /\ up = 0 /\ down = << >>
  /\ aClosed = FALSE /\ bClosed = FALSE /\ aBoth = FALSE /\ bBoth = FALSE
  /\ relay = "dialing" /\ upDone = FALSE /\ downDone = FALSE
  /\ pc = "send" /\ left \in ReqLens
  /\ buf = << >> /\ out = << >> /\ need = 0
  /\ late = FALSE
  /\ result = "none"

----------------------------------------------------------------------------
(* The relay thread, on the b end                                          *)

relayRest == <<resp, pc, left, parser, late, result>>
relayEnded == relay \in {"failed", "done"}

\* A dial that fails drops the b end, and the pipe does not notice a drop.
Dial == /\ relay = "dialing"
        /\ relay' \in {"copying", "failed"}
        /\ UNCHANGED <<wire, origin, pipe, upDone, downDone, relayRest>>

\* Both directions stop and shutdown(Both) is called on the b end.
Release == /\ bClosed' = TRUE /\ bBoth' = TRUE
           /\ relay' = "failed"
           /\ UNCHANGED <<wire, origin, up, down, aClosed, aBoth, upDone, downDone, relayRest>>

\* A direction that meets the end of its source closes the other side's
\* write half; the thread ends with its second direction.
Directions(u, d) == /\ upDone' = u /\ downDone' = d
                    /\ relay' = IF u /\ d THEN "done" ELSE relay
CopyUp == /\ relay = "copying" /\ ~upDone
          /\ \/ /\ up > 0
                /\ up' = 0
                /\ UNCHANGED <<relay, upDone, downDone>>
             \/ /\ up = 0 /\ aClosed
                /\ Directions(TRUE, downDone)
                /\ UNCHANGED up
          /\ UNCHANGED <<wire, origin, down, aClosed, bClosed, aBoth, bBoth, relayRest>>
CopyUpFails == relay = "copying" /\ ~upDone /\ (up > 0 \/ (up = 0 /\ ~aClosed /\ (aBoth \/ bBoth))) /\ Release

CopyDown == /\ relay = "copying" /\ ~downDone /\ origin = "open" /\ wire # << >>
            /\ ~bClosed /\ ~bBoth /\ ~aBoth
            /\ Cap > Len(down)
            /\ \E n \in 1 .. Min({Len(wire), Cap - Len(down)}) :
                 /\ down' = down \o SubSeq(wire, 1, n)
                 /\ wire' = SubSeq(wire, n + 1, Len(wire))
            /\ UNCHANGED <<origin, up, aClosed, bClosed, aBoth, bBoth, relay, upDone, downDone, relayRest>>
\* DUPLEX_WRITE_TIMEOUT on a full pipe, or the origin's connection is reset.
CopyDownFails == relay = "copying" /\ ~downDone /\ (origin = "cut" \/ (wire # << >> /\ Len(down) = Cap)) /\ Release
CopyDownEnds == /\ relay = "copying" /\ ~downDone /\ origin = "closed"
                /\ bClosed' = TRUE
                /\ Directions(upDone, TRUE)
                /\ UNCHANGED <<wire, origin, up, down, aClosed, aBoth, bBoth, relayRest>>

\* The origin closes after its answer, or breaks off.
OriginCloses == /\ origin = "open" /\ relay = "copying"
                /\ origin' = IF wire = << >> THEN "closed" ELSE "cut"
                /\ UNCHANGED <<wire, pipe, relay, upDone, downDone, relayRest>>

----------------------------------------------------------------------------
(* The handler, on the a end                                               *)

worldRest == <<resp, wire, origin, relay, upDone, downDone, late>>
Return(r) == pc' = "done" /\ result' = r

\* send_request: write_all into the pipe, with a bound on the wait for room.
SendRequest ==
  /\ pc = "send"
  /\ \/ /\ left = 0
        /\ pc' = "shutdown" /\ UNCHANGED <<up, left, result>>
     \/ /\ left > 0 /\ ~bBoth /\ up < Cap
        /\ LET n == Min({left, Cap - up}) IN up' = up + n /\ left' = left - n
        /\ UNCHANGED <<pc, result>>
     \/ /\ left > 0 /\ (bBoth \/ up = Cap)
        /\ Return("err") /\ UNCHANGED <<up, left>>
  /\ UNCHANGED <<down, aClosed, bClosed, aBoth, bBoth, parser, worldRest>>

ShutdownWrite == /\ pc = "shutdown"
                 /\ aClosed' = TRUE
                 /\ pc' = "head"
                 /\ UNCHANGED <<up, down, bClosed, aBoth, bBoth, left, parser, result, worldRest>>

\* MemDuplex::read of at most room bytes.
Read(room) == LET n == Min({room, Len(down)})
              IN /\ down # << >>
                 /\ down' = SubSeq(down, n + 1, Len(down))
                 /\ buf' = buf \o SubSeq(down, 1, n)
ReadEof == down = << >> /\ bClosed
ReadFails == down = << >> /\ ~bClosed /\ (aBoth \/ bBoth)
ReadIdle == down = << >> /\ ~bClosed /\ ~aBoth /\ ~bBoth
all == 2048
handlerPipe == <<up, aClosed, bClosed, aBoth, bBoth, left>>

\* parse_head: how the body is read; conflicting framing headers, a head
\* without a status and a length above the limit are refused.
ParseHead(r) == CASE r.framing = "bad" -> "err"
                  [] r.framing = "nobody" -> "join"
                  [] r.framing = "chunked" -> "size"
                  [] r.framing = "length" -> IF r.declared > MaxBody THEN "err" ELSE "exact"
                  [] r.framing = "close" -> "eof"

\* Fault: the head is waited for without a deadline.
ReadHeadUntimed ==
  /\ pc = "head"
  /\ \/ /\ buf # << >>
        /\ buf' = Tail(buf)
        /\ \/ ParseHead(resp) = "err" /\ Return("err")
           \/ ParseHead(resp) # "err" /\ pc' = ParseHead(resp) /\ UNCHANGED result
        /\ need' = IF resp.framing = "length" THEN resp.declared ELSE 0
        /\ UNCHANGED <<down, out>>
     \/ buf = << >> /\ Read(all) /\ UNCHANGED <<pc, result, out, need>>
     \/ buf = << >> /\ (ReadEof \/ ReadFails) /\ Return("err") /\ UNCHANGED <<down, parser>>
  /\ UNCHANGED <<handlerPipe, worldRest>>
\* read_head, then the framing it announces.
ReadHead ==
  /\ pc = "head"
  /\ \/ /\ buf # << >>
        /\ buf' = Tail(buf)
        /\ \/ ParseHead(resp) = "err" /\ Return("err")
           \/ ParseHead(resp) # "err" /\ pc' = ParseHead(resp) /\ UNCHANGED result
        /\ need' = IF resp.framing = "length" THEN resp.declared ELSE 0
        /\ UNCHANGED <<down, out>>
     \/ buf = << >> /\ late /\ Return("err") /\ UNCHANGED <<down, parser>>
     \/ buf = << >> /\ ~late /\ Read(all) /\ UNCHANGED <<pc, result, out, need>>
     \/ buf = << >> /\ ~late /\ (ReadEof \/ ReadFails) /\ Return("err") /\ UNCHANGED <<down, parser>>
  /\ UNCHANGED <<handlerPipe, worldRest>>

\* The first line of the buffer: up to a size line, or to a CR LF.
LineEnds(s) == {i \in 1 .. Len(s) : s[i][1] \in {"size", "trailer"}
                                     \/ (i > 1 /\ s[i] = LF /\ s[i - 1] = CR)}
Line(s) == SubSeq(s, 1, Min(LineEnds(s)))
\* The number a line holds; a stray line-end byte before it is trimmed.
LineSize(l) == IF Last(l)[1] = "size" THEN Last(l)[2] ELSE -1
DropLine(s) == SubSeq(s, Min(LineEnds(s)) + 1, Len(s))

ReadMore(timed) ==
  \/ timed /\ late /\ Return("err") /\ UNCHANGED <<down, parser>>
  \/ ~(timed /\ late) /\ Read(all) /\ UNCHANGED <<pc, result, out, need>>
  \/ ~(timed /\ late) /\ (ReadEof \/ ReadFails) /\ Return("err") /\ UNCHANGED <<down, parser>>

\* read_chunked: the size line
ReadChunkSize ==
  /\ pc = "size"
  /\ \/ /\ LineEnds(buf) # {}
        /\ LET n == LineSize(Line(buf))
           IN \/ n = -1 /\ Return("err") /\ need' = 0
              \/ n = 0 /\ pc' = "trailers" /\ need' = 0 /\ UNCHANGED result
              \/ n > 0 /\ Len(out) + n > MaxBody /\ Return("err") /\ need' = 0
              \/ n > 0 /\ Len(out) + n <= MaxBody /\ pc' = "data" /\ need' = n /\ UNCHANGED result
        /\ buf' = DropLine(buf)
        /\ UNCHANGED <<down, out>>
     \/ LineEnds(buf) = {} /\ ReadMore(TRUE)
  /\ UNCHANGED <<handlerPipe, worldRest>>
\* the data, without a look at the deadline
ReadChunkData ==
  /\ pc = "data"
  /\ \/ /\ need = 0
        /\ pc' = "crlf" /\ UNCHANGED <<down, parser, result>>
     \/ /\ need > 0 /\ buf # << >>
        /\ LET n == Min({need, Len(buf)})
           IN /\ out' = out \o SubSeq(buf, 1, n)
              /\ buf' = SubSeq(buf, n + 1, Len(buf))
              /\ need' = need - n
        /\ UNCHANGED <<down, pc, result>>
     \/ need > 0 /\ buf = << >> /\ ReadMore(FALSE)
  /\ UNCHANGED <<handlerPipe, worldRest>>
\* the line end after the data: whatever of two bytes is at hand
ReadChunkEnd ==
  /\ pc = "crlf"
  /\ \/ /\ buf # << >>
        /\ buf' = SubSeq(buf, Min({2, Len(buf)}) + 1, Len(buf))
        /\ pc' = "size" /\ UNCHANGED <<down, out, need, result>>
     \/ /\ buf = << >> /\ down # << >>
        /\ down' = SubSeq(down, Min({2, Len(down)}) + 1, Len(down))
        /\ pc' = "size" /\ UNCHANGED <<parser, result>>
     \/ buf = << >> /\ (ReadEof \/ ReadFails) /\ Return("err") /\ UNCHANGED <<down, parser>>
  /\ UNCHANGED <<handlerPipe, worldRest>>
\* an idle read here goes back to the size line
ChunkEndIdle == /\ pc = "crlf" /\ buf = << >> /\ ReadIdle
                /\ pc' = "size"
                /\ UNCHANGED <<down, result, parser, handlerPipe, worldRest>>
\* one line of trailers
ReadTrailers ==
  /\ pc = "trailers"
  /\ \/ /\ LineEnds(buf) # {}
        /\ buf' = DropLine(buf) /\ pc' = "join" /\ UNCHANGED <<down, out, need, result>>
     \/ LineEnds(buf) = {} /\ ReadMore(FALSE)
  /\ UNCHANGED <<handlerPipe, worldRest>>

\* Fault: read_exact takes all that is buffered.
ReadExactTakesAll ==
  /\ pc = "exact"
  /\ \/ /\ need = 0 /\ pc' = "join" /\ UNCHANGED <<down, parser, result>>
     \/ /\ need > 0 /\ ~late /\ buf # << >>
        /\ LET n == Len(buf)
           IN out' = out \o SubSeq(buf, 1, n) /\ buf' = SubSeq(buf, n + 1, Len(buf)) /\ need' = Max({need - n, 0})
        /\ UNCHANGED <<down, pc, result>>
     \/ need > 0 /\ (late \/ buf = << >>) /\ ReadMore(TRUE)
  /\ UNCHANGED <<handlerPipe, worldRest>>
\* read_exact
ReadExact ==
  /\ pc = "exact"
  /\ \/ /\ need = 0 /\ pc' = "join" /\ UNCHANGED <<down, parser, result>>
     \/ /\ need > 0 /\ ~late /\ buf # << >>
        /\ LET n == Min({need, Len(buf)})
           IN out' = out \o SubSeq(buf, 1, n) /\ buf' = SubSeq(buf, n + 1, Len(buf)) /\ need' = need - n
        /\ UNCHANGED <<down, pc, result>>
     \/ need > 0 /\ (late \/ buf = << >>) /\ ReadMore(TRUE)
  /\ UNCHANGED <<handlerPipe, worldRest>>

\* read_until_eof: a body that fills the limit leaves nothing to take, and
\* the loop turns until the deadline.
ReadUntilEof ==
  /\ pc = "eof"
  /\ \/ late /\ Return("err") /\ UNCHANGED <<down, parser>>
     \/ /\ ~late /\ buf # << >>
        /\ LET n == Min({MaxBody - Len(out), Len(buf)})
           IN out' = out \o SubSeq(buf, 1, n) /\ buf' = SubSeq(buf, n + 1, Len(buf))
        /\ UNCHANGED <<down, pc, result, need>>
     \/ ~late /\ buf = << >> /\ Read(all) /\ UNCHANGED <<pc, result, out, need>>
     \/ ~late /\ buf = << >> /\ ReadEof /\ pc' = "join" /\ UNCHANGED <<down, parser, result>>
     \/ ~late /\ buf = << >> /\ ReadFails /\ Return("err") /\ UNCHANGED <<down, parser>>
  /\ UNCHANGED <<handlerPipe, worldRest>>

\* The answer is held back until the relay thread has ended; how it ended is
\* not looked at.
Join == /\ pc = "join" /\ relayEnded
        /\ Return("ok")
        /\ UNCHANGED <<down, parser, handlerPipe, worldRest>>

Deadline == /\ ~late /\ pc \in {"head", "size", "data", "crlf", "trailers", "exact", "eof"}
            /\ late' = TRUE
            /\ UNCHANGED <<resp, wire, origin, pipe, relay, upDone, downDone, pc, left, parser, result>>

----------------------------------------------------------------------------
Relay == Dial \/ CopyUp \/ CopyUpFails \/ CopyDown \/ CopyDownFails \/ CopyDownEnds
Handler == SendRequest \/ ShutdownWrite \/ ReadHead \/ ReadChunkSize \/ ReadChunkData
           \/ ReadChunkEnd \/ ChunkEndIdle \/ ReadTrailers \/ ReadExact \/ ReadUntilEof \/ Join
Next == Relay \/ Handler \/ OriginCloses \/ Deadline

\* Threads run; time passes; an origin that has sent its answer, and whose
\* client has closed its half, closes in the end.
OriginEnds == OriginCloses /\ (wire = << >> \/ bClosed)
Fairness == /\ WF_vars(Dial) /\ WF_vars(CopyUp) /\ WF_vars(CopyDown)
            /\ WF_vars(CopyDownFails) /\ WF_vars(CopyDownEnds)
            /\ WF_vars(Handler) /\ WF_vars(Deadline)
            /\ WF_vars(OriginEnds)
Spec == Init /\ [][Next]_vars /\ Fairness

----------------------------------------------------------------------------
(* Properties                                                              *)

\* What the client is given is the origin's body: all of it when the framing
\* says where it ends, however the pipe cut it and wherever the origin
\* paused (read_http_response).
ForwardedExactly ==
  result = "ok" =>
    CASE resp.framing = "nobody" -> out = << >>
      [] resp.framing = "length" -> out = Body(resp.declared)
      [] resp.framing = "chunked" -> out = Body(BodyLen(resp))
      [] OTHER -> out = Body(Len(out)) /\ Len(out) <= BodyLen(resp)

\* A request is answered, with an error at worst: neither the bounded pipe
\* nor a dial that failed keeps the handler for ever.
HandlerReturns == <>(pc = "done")

Owed == pc # "done"

\* forward.rs: "WouldBlock/TimedOut mean idle and the loops below retry until
\* the overall deadline": a whole, well-formed answer is refused only late.
Complete == /\ resp.framing = "chunked" /\ BodyLen(resp) <= MaxBody
            /\ wire = << >> /\ origin = "open" /\ ~late
IdleIsRetried == [][Complete /\ relay = "copying" /\ result' = "err" => result = "err"]_vars
============================================================================
