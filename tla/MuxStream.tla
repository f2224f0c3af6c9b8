----------------------------- MODULE MuxStream -----------------------------
(***************************************************************************)
(* The v2ray-plugin mux session over a WebSocket: a reader that picks up   *)
(* where a short read or an idle poll left it, and a writer that opens the *)
(* session with its first bytes.                                           *)
(* (MuxStream in src/engine/outbound/v2ray_mux.rs)                         *)
(*                                                                         *)
(* Bytes are kept by what they are: [frame, part, status, last].  Frames   *)
(* are the peer's; a head that is out of range, for another session or of  *)
(* an unknown status is "bad".                                             *)
(***************************************************************************)
EXTENDS Integers, Sequences, FiniteSets

CONSTANTS MaxFrames,   \* frames the peer sends
          MaxExtra,    \* metadata past the fixed head
          MaxData,     \* payload of one frame
          HeadSize,        \* bytes of the fixed head: 6
          Buffer,      \* bytes a caller has room for
          MaxWrites

VARIABLES wire,       \* bytes under way to the reader
          sent,       \* frames the peer has put there
          closed,     \* the peer has closed
          filled,     \* head_filled
          got,        \* the head read so far
          expected,   \* size_expected
          sizeFilled, \* size_filled
          data,       \* data_remaining
          skip,       \* skip_remaining
          sawEnd,     \* saw_end
          out,        \* payload handed to the caller
          result,     \* what the last read said
          pending,    \* new_pending
          written     \* frames written: "new", "keep"

vars == <<wire, sent, closed, filled, got, expected, sizeFilled, data, skip, sawEnd, out, result,
          pending, written>>
reader == <<filled, got, expected, sizeFilled, data, skip, sawEnd, out, result>>
writer == <<pending, written>>

Statuses == {"keep", "end", "alive", "bad"}
Frames == [status : Statuses, extra : 0 .. MaxExtra, option : BOOLEAN, data : 0 .. MaxData]

Init ==
  /\ wire = << >> /\ sent = << >> /\ closed = FALSE
  /\ filled = 0 /\ got = << >> /\ expected = FALSE /\ sizeFilled = 0 /\ data = 0 /\ skip = 0
  /\ sawEnd = FALSE /\ out = << >> /\ result = "none"
  /\ pending = TRUE /\ written = << >>

----------------------------------------------------------------------------
(* External: the peer                                                      *)

Bytes(n, f) ==
  LET part(p, k) == [i \in 1 .. k |-> [frame |-> n, part |-> p, at |-> i]]
  IN part("head", HeadSize) \o part("extra", f.extra)
       \o (IF f.option THEN part("size", 2) \o part("data", f.data) ELSE << >>)
PeerSends(f) == /\ ~closed /\ Len(sent) < MaxFrames /\ \A i \in 1 .. Len(sent) : sent[i].status # "end"
                /\ f.option \/ f.data = 0
                /\ sent' = Append(sent, f)
                /\ wire' = wire \o Bytes(Len(sent) + 1, f)
                /\ UNCHANGED <<closed, reader, writer>>
\* At the end of what it sent, or cut off anywhere.
PeerCloses == /\ ~closed /\ closed' = TRUE
              /\ \E k \in 0 .. Len(wire) : wire' = SubSeq(wire, 1, k)
              /\ UNCHANGED <<sent, reader, writer>>

----------------------------------------------------------------------------
(* read.  Each step is one read of the stream below: some bytes, an idle   *)
(* poll (the state stays, the caller calls again), or the end.             *)

Alive == result \in {"none", "poll", "data"}
AtEnd == closed /\ wire = << >>
Fails == result' = "error"
Take(k) == wire' = SubSeq(wire, k + 1, Len(wire))

Stage == CASE data > 0 -> "payload"
           [] data = 0 /\ sawEnd /\ filled = 0 /\ skip = 0 -> "ended"
           [] data = 0 /\ skip > 0 -> "skip"
           [] data = 0 /\ skip = 0 /\ ~(sawEnd /\ filled = 0) /\ expected -> "size"
           [] OTHER -> "head"

\* drain_payload
Payload == /\ Alive /\ Stage = "payload"
           /\ \/ /\ AtEnd /\ Fails
                 /\ UNCHANGED <<wire, data, out>>
              \/ \E k \in 1 .. Len(wire) :
                   /\ k <= data /\ k <= Buffer
                   /\ out' = out \o SubSeq(wire, 1, k)
                   /\ data' = data - k
                   /\ result' = "data"
                   /\ Take(k)
           /\ UNCHANGED <<sent, closed, filled, got, expected, sizeFilled, skip, sawEnd, writer>>

Ended == /\ Alive /\ Stage = "ended"
         /\ result' = "eof"
         /\ UNCHANGED <<wire, sent, closed, filled, got, expected, sizeFilled, data, skip, sawEnd,
                        out, writer>>

\* drain_skip
Skip == /\ Alive /\ Stage = "skip"
        /\ \/ /\ AtEnd /\ Fails
              /\ UNCHANGED <<wire, skip>>
           \/ \E k \in 1 .. Len(wire) :
                /\ k <= skip
                /\ skip' = skip - k
                /\ Take(k)
                /\ UNCHANGED result
        /\ UNCHANGED <<sent, closed, filled, got, expected, sizeFilled, data, sawEnd, out, writer>>

\* The size of a payload: of a KEEP it is handed over, else discarded.
SizeStep == /\ Alive /\ Stage = "size"
            /\ \/ /\ AtEnd /\ Fails
                  /\ UNCHANGED <<wire, expected, sizeFilled, data, skip>>
               \/ \E k \in 1 .. Len(wire) :
                    /\ sizeFilled + k <= 2
                    /\ LET size == sent[got[1].frame].data
                           keep == sent[got[1].frame].status = "keep"
                       IN IF sizeFilled + k < 2
                          THEN /\ sizeFilled' = sizeFilled + k
                               /\ UNCHANGED <<expected, data, skip>>
                          ELSE /\ sizeFilled' = 0 /\ expected' = FALSE
                               /\ data' = IF keep THEN size ELSE data
                               /\ skip' = IF keep THEN skip ELSE skip + size
                    /\ Take(k)
                    /\ UNCHANGED result
            /\ UNCHANGED <<sent, closed, filled, got, sawEnd, out, writer>>

\* The head is complete: what it says comes from the bytes it is made of.
Metadata(head) ==
  LET f == sent[head[1].frame]
  IN /\ filled' = 0 /\ got' = head
     /\ IF f.status = "bad"
        THEN /\ Fails
             /\ UNCHANGED <<sawEnd, skip, expected>>
        ELSE /\ sawEnd' = (sawEnd \/ f.status = "end")
             /\ skip' = skip + f.extra
             /\ expected' = f.option
             /\ UNCHANGED result

HeadStepForgets ==
  /\ Alive /\ Stage = "head"
  /\ \/ /\ AtEnd
        /\ result' = IF filled = 0 THEN "eof" ELSE "error"
        /\ UNCHANGED <<wire, filled, got, sawEnd, skip, expected>>
     \/ \E k \in 1 .. Len(wire) :
          /\ filled + k <= HeadSize
          /\ LET head == SubSeq(wire, 1, k)
             IN IF k < HeadSize
                THEN filled' = 0 /\ got' = head /\ UNCHANGED <<sawEnd, skip, expected, result>>
                ELSE Metadata(head)
          /\ Take(k)
  /\ UNCHANGED <<sent, closed, sizeFilled, data, out, writer>>
HeadStep ==
  /\ Alive /\ Stage = "head"
  /\ \/ /\ AtEnd
        /\ result' = IF filled = 0 THEN "eof" ELSE "error"
        /\ UNCHANGED <<wire, filled, got, sawEnd, skip, expected>>
     \/ \E k \in 1 .. Len(wire) :
          /\ filled + k <= HeadSize
          /\ LET head == (IF filled = 0 THEN << >> ELSE got) \o SubSeq(wire, 1, k)
             IN IF filled + k < HeadSize
                THEN filled' = filled + k /\ got' = head /\ UNCHANGED <<sawEnd, skip, expected, result>>
                ELSE Metadata(head)
          /\ Take(k)
  /\ UNCHANGED <<sent, closed, sizeFilled, data, out, writer>>

----------------------------------------------------------------------------
(* write: whole frames, the first after the NEW frame                      *)

Write == /\ Len(written) < MaxWrites
         /\ \E chunks \in 1 .. 2 :
              written' = written \o (IF pending THEN <<"new">> ELSE << >>)
                                 \o [i \in 1 .. chunks |-> "keep"]
         /\ pending' = FALSE
         /\ UNCHANGED <<wire, sent, closed, reader>>

----------------------------------------------------------------------------
Next == \/ PeerCloses \/ (\E f \in Frames : PeerSends(f))
        \/ Payload \/ Ended \/ Skip \/ SizeStep \/ HeadStep \/ Write
Spec == Init /\ [][Next]_vars

----------------------------------------------------------------------------
(* Properties                                                              *)

\* All payload of KEEP frames up to the one that ends the session.
RECURSIVE PayloadOf(_)
PayloadOf(n) == IF n = 0 THEN << >>
                ELSE PayloadOf(n - 1) \o
                     (IF sent[n].status = "keep" THEN [i \in 1 .. sent[n].data |->
                                              [frame |-> n, part |-> "data", at |-> i]]
                      ELSE << >>)

\* Whatever the pieces the stream comes in, and however often the poll finds
\* nothing: the caller gets the payload, in order, and nothing else; an end of
\* stream is only reported between frames, with all of it handed over.
\* And the session is opened once, in front of the first bytes written.
MuxInStep ==
  /\ Len(out) <= Len(PayloadOf(Len(sent)))
  /\ out = SubSeq(PayloadOf(Len(sent)), 1, Len(out))
  /\ result = "eof" => \E n \in 0 .. Len(sent) : out = PayloadOf(n)
  /\ got # << >> => \A i \in 1 .. Len(got) : got[i].part = "head" /\ got[i].frame = got[1].frame
  /\ \A i \in 1 .. Len(written) : written[i] = "new" <=> i = 1
=============================================================================
