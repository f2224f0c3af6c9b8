---------------------------- MODULE QuicStreams ----------------------------
(***************************************************************************)
(* An established QUIC connection: a stream the server sends on, a stream  *)
(* the client opens, datagrams both ways, flow-control credit, keep-alive  *)
(* and idle timeout, and the threads that block on the connection.         *)
(* (src/protocol/quic/transport.rs, stream.rs, client.rs)                  *)
(*                                                                         *)
(* The server's stream holds the bytes 1 .. Bytes.  Frames of it arrive in *)
(* any order and again; its splits are fixed, or - resplit - any the wire  *)
(* format allows.  One thread uses the connection: it reads the server's    *)
(* stream, writes one of its own, or exchanges datagrams.                  *)
(***************************************************************************)
EXTENDS Integers, Sequences, SequencesExt, FiniteSetsExt, Functions

CONSTANTS Bytes,           \* what the server has to say on its stream
          Cuts,            \* the offsets at which the server splits it
          Window,          \* initial_max_stream_data and initial_max_data
          MaxRecvBuffer,   \* MAX_RECV_BUFFER
          MaxSendBuffer,   \* MAX_SEND_BUFFER
          MaxDatagramQueue,
          MaxDatagrams,    \* bound on datagrams, each way
          Resplits         \* whether the server may split anew: a subset of BOOLEAN

VARIABLES resplit, keepAlive,
          user,       \* which of the three threads of the model uses the connection
          known,      \* the server's stream is in the table
          prefix, contig, gaps, fin,         \* recv_prefix, recv_contig, recv_gaps, fin_recv_offset
          window, advertised, totalRecv,     \* peer_send_limit, max_data_advertised, total_recv
          granted,    \* the largest MAX_STREAM_DATA and MAX_DATA the server has been told
          arrived,    \* offsets that have arrived
          read,       \* what the reader has been given
          rx, tx, sentDgrams, gotDgrams,     \* datagram_rx, datagram_tx, and their far ends
          credit,     \* streams, data, stream: what the server granted the client
          local,      \* the client's own stream: written, sent, fin
          closed,
          pc          \* where that thread is

stream == <<known, prefix, contig, gaps, fin, window, advertised, totalRecv, granted, arrived>>
datagrams == <<rx, tx, sentDgrams, gotDgrams>>
vars == <<resplit, keepAlive, user, stream, read, datagrams, credit, local, closed, pc>>

Init == /\ resplit \in Resplits
        /\ keepAlive \in BOOLEAN
        /\ known = FALSE
        /\ prefix = << >> /\ contig = 0 /\ gaps = << >> /\ fin = -1
        /\ window = Window /\ advertised = Window /\ totalRecv = 0
        /\ granted = [stream |-> Window, data |-> Window]
        /\ arrived = {}
        /\ read = << >>
        /\ rx = << >> /\ tx = << >> /\ sentDgrams = 0 /\ gotDgrams = << >>
        /\ credit = [streams |-> 0, data |-> 0, stream |-> 0]
        /\ local = [open |-> FALSE, written |-> 0, sent |-> 0, fin |-> FALSE]
        /\ closed = "no"
        /\ user \in {"reader", "opener", "dgram"}
        /\ pc = "blocked"

Running == closed = "no"

----------------------------------------------------------------------------
(* Receiving: on_stream and reassembly                                     *)

End(off, data) == off + Len(data)
PrefixEnd(s) == s.contig + Len(s.prefix)

PromoteNone(s) == s
\* promote_gaps: the first gap joins the prefix if it begins where that ends.
RECURSIVE PromoteGaps(_)
PromoteGaps(s) ==
  IF s.gaps = << >> THEN s
  ELSE LET k == Min(DOMAIN s.gaps)
       IN IF k # PrefixEnd(s) THEN s
          ELSE PromoteGaps([s EXCEPT !.prefix = @ \o s.gaps[k],
                                     !.gaps = Restrict(@, DOMAIN @ \ {k})])

\* insert_gap: segments that touch or overlap the new one are merged with it;
\* where both have a byte the new one's is kept.
RECURSIVE InsertGap(_, _, _)
InsertGap(g, off, data) ==
  LET touching == {k \in DOMAIN g : k <= End(off, data) /\ End(k, g[k]) >= off}
  IN IF touching = {} THEN [k \in DOMAIN g \cup {off} |-> IF k = off THEN data ELSE g[k]]
     ELSE LET k == Min(touching)
              v == g[k]
              left == IF k < off THEN SubSeq(v, 1, off - k) ELSE << >>
              right == IF End(k, v) > End(off, data)
                       THEN SubSeq(v, End(off, data) - k + 1, Len(v)) ELSE << >>
          IN InsertGap(Restrict(g, DOMAIN g \ {k}), Min({off, k}), left \o data \o right)

Buffered == Len(prefix) + FoldSet(LAMBDA k, n : n + Len(gaps[k]), 0, DOMAIN gaps)

\* The part of on_stream that stores the bytes.
Store(s, off, data) ==
  IF off <= PrefixEnd(s)
  THEN LET skip == PrefixEnd(s) - off
       IN PromoteGaps([s EXCEPT !.prefix = @ \o SubSeq(data, skip + 1, Len(data))])
  ELSE LET s2 == [s EXCEPT !.gaps = InsertGap(@, off, data)]
       IN IF PrefixEnd(s2) \in DOMAIN s2.gaps
          THEN PromoteGaps([s2 EXCEPT !.prefix = @ \o s2.gaps[PrefixEnd(s2)],
                                      !.gaps = Restrict(@, DOMAIN @ \ {PrefixEnd(s2)})])
          ELSE s2

\* bump_recv_credit: what is buffered counts as consumed.  The frames go out
\* with the next packet, which nothing retransmits (they elicit no ACK).
BumpRecvCredit(consumed, total) ==
  LET w == IF window > 0 /\ consumed + window \div 2 > window THEN window + window \div 2 ELSE window
      a == IF total + advertised \div 2 > advertised THEN advertised + advertised \div 2
           ELSE advertised
  IN /\ window' = w
     /\ advertised' = a
     /\ \E got \in BOOLEAN :    \* the packet with the credit may be lost
          granted' = IF got THEN [stream |-> w, data |-> a] ELSE granted

Fatal == /\ closed' = "fatal"
         /\ UNCHANGED <<resplit, keepAlive, user, stream, read, datagrams, credit, local, pc>>

\* A frame of the server's stream, within the credit the server knows of.
StreamFrames == IF resplit THEN {<<a, b>> \in (0 .. Bytes) \X (0 .. Bytes) : a < b}
                ELSE {<<a, b>> \in (Cuts \cup {0, Bytes}) \X (Cuts \cup {0, Bytes}) :
                       a < b /\ ~\E x \in Cuts : a < x /\ x < b}
OnStream ==
  /\ Running
  /\ user = "reader"
  /\ \E f \in StreamFrames :
       LET off == f[1]
           data == [i \in 1 .. f[2] - f[1] |-> f[1] + i]
           s == Store([prefix |-> prefix, contig |-> contig, gaps |-> gaps], off, data)
       IN /\ f[2] <= granted.stream
          /\ f[2] <= granted.data
          /\ \/ /\ f[2] > window \/ Buffered + Len(data) > MaxRecvBuffer
                /\ Fatal
             \/ /\ f[2] <= window /\ Buffered + Len(data) <= MaxRecvBuffer
                /\ known' = TRUE
                /\ prefix' = s.prefix /\ gaps' = s.gaps
                /\ fin' = IF f[2] = Bytes THEN Bytes ELSE fin
                /\ arrived' = arrived \cup (f[1] + 1 .. f[2])
                /\ totalRecv' = Min({totalRecv + Len(data), 2 * Bytes})
                /\ BumpRecvCredit(contig + Len(s.prefix), totalRecv')
                /\ UNCHANGED <<resplit, keepAlive, user, contig, read, datagrams, credit, local, closed, pc>>

\* read_inner and recv_into: bytes of the prefix, or the end of the stream.
RecvEofAtOnce == fin >= 0
RecvEof == fin >= 0 /\ contig >= fin
ReadStream ==
  /\ user = "reader" /\ pc = "blocked"
  /\ known          \* accept_uni_ready
  /\ \/ /\ ~Running
        /\ pc' = "error"
        /\ UNCHANGED <<stream, read>>
     \/ /\ Running
        /\ prefix # << >>
        /\ \E n \in 1 .. Len(prefix) :
             /\ read' = read \o SubSeq(prefix, 1, n)
             /\ prefix' = SubSeq(prefix, n + 1, Len(prefix))
             /\ contig' = contig + n
             /\ BumpRecvCredit(contig + Len(prefix), totalRecv)
             /\ UNCHANGED <<known, gaps, fin, totalRecv, arrived, pc>>
     \/ /\ Running
        /\ prefix = << >>
        /\ RecvEof
        /\ pc' = "eof"
        /\ UNCHANGED <<stream, read>>
  /\ UNCHANGED <<resplit, keepAlive, user, datagrams, credit, local, closed>>

AcceptUniForEver == FALSE
\* accept_uni: waits for a stream or for the end of the connection.
AcceptUni == /\ user = "reader" /\ pc = "blocked"
             /\ ~known /\ ~Running
             /\ pc' = "error"
             /\ UNCHANGED <<resplit, keepAlive, user, stream, read, datagrams, credit, local, closed>>

----------------------------------------------------------------------------
(* Sending                                                                 *)

\* MAX_STREAMS, MAX_DATA and MAX_STREAM_DATA from the server.  The last one
\* raises the stream's peer_limit, which nothing reads.
Grant(k) == /\ Running
            /\ user = "opener"
            /\ credit[k] = 0
            /\ k = "stream" => local.open
            /\ credit' = [credit EXCEPT ![k] = 2]
            /\ UNCHANGED <<resplit, keepAlive, user, stream, read, datagrams, local, closed, pc>>

\* open_bi: as soon as the stream limit allows, or an error once closed.
OpenBi == /\ user = "opener" /\ pc = "blocked"
          /\ \/ /\ credit.streams > 0 /\ Running
                /\ local' = [local EXCEPT !.open = TRUE]
                /\ pc' = "opened"
             \/ /\ ~Running
                /\ pc' = "error"
                /\ UNCHANGED local
          /\ UNCHANGED <<resplit, keepAlive, user, stream, read, datagrams, credit, closed>>
\* QuicSendStream::write takes what the send buffer has room for.
WriteStream == /\ pc = "opened"
               /\ Running
               /\ local.written < MaxSendBuffer
               /\ local' = [local EXCEPT !.written = @ + 1]
               /\ UNCHANGED <<resplit, keepAlive, user, stream, read, datagrams, credit, closed, pc>>
Finish == /\ pc = "opened"
          /\ Running
          /\ local' = [local EXCEPT !.fin = TRUE]
          /\ pc' = "flushing"
          /\ UNCHANGED <<resplit, keepAlive, user, stream, read, datagrams, credit, closed>>
\* flush: until everything is acknowledged, or closed.
Flush == /\ user = "opener" /\ pc \in {"opened", "flushing"}
         /\ \/ ~Running /\ pc' = "error"
            \/ /\ Running /\ pc = "flushing" /\ local.written = local.sent
               /\ pc' = "flushed"
         /\ UNCHANGED <<resplit, keepAlive, user, stream, read, datagrams, credit, local, closed>>

\* peer_max_stream_data_bidi: 0 from QuicConn::start on; no statement sets it.
PeerMaxStreamDataBidi == 0
\* collect_stream_frames: how much of the client's stream may go out.
Sendable == Min({PeerMaxStreamDataBidi - Min({local.sent, PeerMaxStreamDataBidi}),
                 credit.data - Min({local.sent, credit.data}),
                 local.written - local.sent})

\* build_outbound: a datagram first, then what flow control lets through.
BuildOutbound ==
  /\ Running
  /\ tx # << >> \/ Sendable > 0
  /\ tx' = IF tx = << >> THEN tx ELSE Tail(tx)
  /\ local' = [local EXCEPT !.sent = @ + Sendable]
  /\ UNCHANGED <<resplit, keepAlive, user, stream, read, rx, sentDgrams, gotDgrams, credit, closed, pc>>

----------------------------------------------------------------------------
(* Datagrams                                                               *)

SendDatagram == /\ Running
                /\ user = "dgram"
                /\ Len(tx) < MaxDatagrams
                /\ tx' = Append(tx, "d")
                /\ UNCHANGED <<resplit, keepAlive, user, stream, read, rx, sentDgrams, gotDgrams,
                               credit, local, closed, pc>>
QueueUnbounded(q, d) == Append(q, d)
\* The oldest datagram makes room for the new one.
QueueDatagram(q, d) == Append(IF Len(q) >= MaxDatagramQueue THEN Tail(q) ELSE q, d)
OnDatagram == /\ Running
              /\ user = "dgram"
              /\ sentDgrams < MaxDatagrams
              /\ sentDgrams' = sentDgrams + 1
              /\ rx' = QueueDatagram(rx, sentDgrams + 1)
              /\ UNCHANGED <<resplit, keepAlive, user, stream, read, tx, gotDgrams, credit, local, closed, pc>>
\* read_datagram: a queued one, closed or not; an error if none is left.
ReadDatagram ==
  /\ user = "dgram" /\ pc = "blocked"
  /\ \/ /\ rx # << >>
        /\ gotDgrams' = Append(gotDgrams, Head(rx))
        /\ rx' = Tail(rx)
        /\ UNCHANGED pc
     \/ /\ rx = << >> /\ ~Running
        /\ pc' = "error"
        /\ UNCHANGED <<rx, gotDgrams>>
  /\ UNCHANGED <<resplit, keepAlive, user, stream, read, tx, sentDgrams, credit, local, closed>>

----------------------------------------------------------------------------
(* The end of the connection                                               *)

CloseAs(how) == /\ Running
                /\ closed' = how
                /\ UNCHANGED <<resplit, keepAlive, user, stream, read, datagrams, credit, local, pc>>
\* on_timer: with a keep-alive the idle timeout is not looked at.
IdleTimeout == ~keepAlive /\ CloseAs("idle")
ConnectionClose == CloseAs("peer")
Close == CloseAs("local")

Next == \/ OnStream \/ ReadStream \/ AcceptUni
        \/ (\E k \in {"streams", "data", "stream"} : Grant(k))
        \/ OpenBi \/ WriteStream \/ Finish \/ Flush \/ BuildOutbound
        \/ SendDatagram \/ OnDatagram \/ ReadDatagram
        \/ IdleTimeout \/ ConnectionClose \/ Close

\* The threads that block poll every 50 ms, the driver every 10 ms.
Spec == /\ Init /\ [][Next]_vars
        /\ WF_vars(ReadStream) /\ WF_vars(AcceptUni) /\ WF_vars(ReadDatagram)
        /\ WF_vars(OpenBi) /\ WF_vars(Flush) /\ WF_vars(BuildOutbound)

----------------------------------------------------------------------------
(* Properties                                                              *)

\* However the server's frames overlap, repeat and overtake one another, the
\* reader is given its bytes from the first one on, each once and in order,
\* and told of the end only when it has had them all; datagrams are lost but
\* never reordered or repeated, and their queue stays within its limit.
DeliveredInOrder ==
  /\ \A i \in 1 .. Len(read) : read[i] = i
  /\ pc = "eof" => Len(read) = Bytes
  /\ \A i, j \in 1 .. Len(gotDgrams) : i < j => gotDgrams[i] < gotDgrams[j]
  /\ Len(rx) <= MaxDatagramQueue

\* A stream that has arrived whole is read to its end, unless the connection
\* closes - as long as the server does not split its frames anew, which can
\* leave a gap that begins before the prefix ends and is never joined to it.
Unread == ~resplit /\ arrived = 1 .. Bytes /\ pc \notin {"eof", "error"}
ArrivedIsRead == <>[]~Unread

\* A thread blocked on the connection is released when it closes, whoever
\* closes it.
Unreleased == ~Running /\ pc \notin {"error", "eof", "flushed"}
CloseReleases == <>[]~Unreleased

\* "Flow control implements the MAX_DATA / MAX_STREAM_DATA / MAX_STREAMS
\* credit exchange in both directions" (transport.rs:19): what is written on
\* a stream goes out once the server has granted all three.
CreditIsUsed == (local.written > 0 /\ credit.data > 0 /\ credit.stream > 0)
                  ~> (local.sent > 0 \/ ~Running)
============================================================================
