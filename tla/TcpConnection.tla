--------------------------- MODULE TcpConnection ---------------------------
(***************************************************************************)
(* One TUN flow of the userspace TCP stack                                 *)
(* (src/src/netstack/solidtcp/tcp.rs and stack.rs): the packet thread      *)
(* reassembles the client's stream and queues it, a proxy thread dials the *)
(* local SOCKS5 inbound and attaches a writer and a reader thread, and the *)
(* queue's length is what the client's receive window is made of.          *)
(*                                                                         *)
(* The client's stream is the bytes 1..StreamLen followed by a FIN; byte p *)
(* has sequence number (Isn + p) % SeqSpace, so both directions wrap inside  *)
(* the run.  conn is the state under the connection's lock; proxy_inflight,*)
(* proxy_alive and the channel are the state shared with the writer        *)
(* without it, so a segment is processed in as many steps as it touches    *)
(* them.                                                                   *)
(*                                                                         *)
(* One life of one address pair: a SYN after the connection has left the   *)
(* table opens an unrelated flow, which is not modelled here.              *)
(***************************************************************************)
EXTENDS Integers, Sequences, FiniteSets, SequencesExt, FiniteSetsExt, Functions,
        TLC, WellFoundedInduction, FiniteSetTheorems, SequenceTheorems, TLAPS

CONSTANTS
    StreamLen,       \* bytes the client sends before its FIN
    MaxSeg,          \* the longest payload of one segment
    SeqSpace,        \* 2^32 in the code
    Isn, Iss,        \* the two initial sequence numbers
    MaxRecvBuffer,   \* TcpConfig::max_recv_buffer
    MaxOooSize,      \* max_ooo_size
    MaxWindow,       \* MAX_RECV_WINDOW: what a TCP header can carry
    Mss,             \* the negotiated segment size
    FlushAt,         \* 16384: the writer's coalescing threshold
    MaxDown          \* bound: chunks the proxy sends to the client

ASSUME TcpAssumption ==
    /\ {StreamLen, MaxSeg, Mss, MaxRecvBuffer, MaxWindow, FlushAt} \subseteq Nat \ {0}
    /\ {MaxOooSize, MaxDown} \subseteq Nat
    /\ SeqSpace \in Nat /\ SeqSpace % 2 = 0
    /\ SeqSpace > 2 * (StreamLen + MaxSeg + MaxRecvBuffer + 2)
    /\ {Isn, Iss} \subseteq 0..(SeqSpace - 1)

VARIABLES
    conn,            \* TcpConnection, under its RwLock
    proxy_inflight, proxy_alive,     \* the atomics shared with the writer
    chan,            \* the mpsc channel: how many messages, and their bytes
    rx,              \* the channel's receiver exists
    tun,             \* the packet thread: where it is and the segment in hand
    pt,              \* the thread running establish_proxy_connection
    wr, held,        \* the writer thread, and the bytes it holds
    rd,              \* the reader thread
    written, wfailed,\* what the proxy socket took, until a write has failed
    table,           \* the connection is in the manager's table
    slot,            \* the flow holds its slot of the tunnel's budget
    running,         \* the stack's running flag
    edge,            \* the client: highest byte any window has allowed
    reset            \* the client has been sent a RST

connVars  == <<conn, table, edge, reset>>
proxyVars == <<pt, rd, slot>>
wireVars  == <<proxy_inflight, proxy_alive, chan, rx>>
writeVars == <<wr, held, written, wfailed>>
vars == <<connVars, proxyVars, wireVars, writeVars, tun, running>>

(* The states a flow can be in between two packets.  close() is called     *)
(* only on the CloseWait a FIN has just led to, so the active-close states *)
(* (FinWait1, FinWait2, Closing, TimeWait) are never entered.              *)
States == {"SynReceived", "Established", "LastAck", "Closed"}

NoSegment == [pos |-> 1, len |-> 0, ack |-> 0, fin |-> FALSE]
Idle      == [pc |-> "idle", seg |-> NoSegment, data |-> <<>>]

NoMessage  == [msgs |-> 0, bytes |-> <<>>]
Sent(data) == [msgs |-> chan.msgs + 1, bytes |-> chan.bytes \o data]

------------------------------------------------------------------------------
(* Sequence arithmetic: wrapping_sub read as a signed integer.             *)

SeqAt(p)  == (Isn + p) % SeqSpace
PosOf(s)  == (s - Isn) % SeqSpace
seq_before(a, b)       == (a - b) % SeqSpace >= SeqSpace \div 2
seq_after(a, b)        == (a - b) % SeqSpace \in 1..(SeqSpace \div 2 - 1)
seq_before_or_eq(a, b) == a = b \/ seq_before(a, b)

valid_ack(ack) ==
    LET una == conn.snd_una  nxt == conn.snd_nxt
    IN  IF una <= nxt THEN ack > una /\ ack <= nxt ELSE ack > una \/ ack <= nxt

Payload(seg) == [i \in 1..seg.len |-> seg.pos + i - 1]

------------------------------------------------------------------------------
(* The queue the receive window bounds.                                    *)

queued_bytes(c) == Len(c.pending) + c.ooo_size + proxy_inflight

proxy_is_gone(c) == c.proxy_dead \/ (c.proxy_tx /\ ~proxy_alive)

(* Faults of this module: each is a definition of the code as a plausible  *)
(* mistake would leave it.                                                 *)
RoomIgnoringInflight(c, len) ==
    ~proxy_is_gone(c) /\ Len(c.pending) + c.ooo_size + len <= MaxRecvBuffer
RoomIgnoringWriter(c, len) == queued_bytes(c) + len <= MaxRecvBuffer

has_room_for(c, len) ==
    ~proxy_is_gone(c) /\ queued_bytes(c) + len <= MaxRecvBuffer

(* update_recv_window, for the bytes queued at that instant.               *)
WindowFor(queued) ==
    LET free == IF queued >= MaxRecvBuffer THEN 0 ELSE MaxRecvBuffer - queued
    IN  Min({(free \div Mss) * Mss, MaxWindow})

WithWindow(c) == [c EXCEPT !.recv_window = WindowFor(queued_bytes(c))]

(* The closed-to-open transition a stalled client cannot see by itself.    *)
NeverDue(c) == FALSE
window_update_due(c) ==
    c.recv_window = 0 /\ WindowFor(queued_bytes(c)) >= Mss

(* A segment carrying an acknowledgement reaches the client.               *)
Advertise(c) ==
    edge' = Min({StreamLen, Max({edge, PosOf(c.rcv_nxt) - 1 + c.recv_window})})

------------------------------------------------------------------------------
(* try_deliver_ooo_segments: one turn of its loop.  An entry starting at   *)
(* rcv_nxt goes first, else the first one (in map order) that straddles it *)
(* gives up its unread tail; an entry wholly behind rcv_nxt stays.         *)
OooTurn(st) ==
    LET straddling == {s \in DOMAIN st.ooo :
                         /\ seq_before_or_eq(s, st.nxt)
                         /\ seq_after(s + Len(st.ooo[s]), st.nxt)}
        s    == IF st.nxt \in DOMAIN st.ooo THEN st.nxt ELSE Min(straddling)
        skip == (st.nxt - s) % SeqSpace
        tail == SubSeq(st.ooo[s], skip + 1, Len(st.ooo[s]))
    IN  IF straddling = {} THEN st
        ELSE [buf  |-> st.buf \o tail,
              nxt  |-> (st.nxt + Len(tail)) % SeqSpace,
              ooo  |-> Restrict(st.ooo, DOMAIN st.ooo \ {s}),
              size |-> st.size - Len(st.ooo[s])]

OooTurns(start, n) ==
    LET turn[k \in 0..n] == IF k = 0 THEN start ELSE OooTurn(turn[k - 1])
    IN  turn

try_deliver_ooo_segments(buf, nxt, c) ==
    LET start == [buf |-> buf, nxt |-> nxt, ooo |-> c.ooo, size |-> c.ooo_size]
        n     == Cardinality(DOMAIN c.ooo)
    IN  OooTurns(start, n)[n]

(* The arms of process_data that accept new bytes: the whole of an         *)
(* in-order segment, or what a partial retransmission has beyond rcv_nxt.  *)
NewBytesUnskipped(seg) == Payload(seg)
NewBytes(seg) ==
    LET skip == (conn.rcv_nxt - SeqAt(seg.pos)) % SeqSpace
    IN  SubSeq(Payload(seg), skip + 1, seg.len)

Taken(new) ==
    try_deliver_ooo_segments(new, (conn.rcv_nxt + Len(new)) % SeqSpace, conn)

(* The arm that buffers a segment ahead of a gap.                          *)
Filed(ooo, seq, data) ==
    [s \in DOMAIN ooo \cup {seq} |-> IF s = seq THEN data ELSE ooo[s]]

Buffered(seg, c) ==
    IF c.ooo_size + seg.len <= MaxOooSize /\ SeqAt(seg.pos) \notin DOMAIN c.ooo
      THEN [c EXCEPT !.ooo = Filed(@, SeqAt(seg.pos), Payload(seg)),
                     !.ooo_size = @ + seg.len]
      ELSE c

------------------------------------------------------------------------------
Init ==
    /\ conn = [state |-> "SynReceived", snd_nxt |-> (Iss + 1) % SeqSpace,
               snd_una |-> Iss, rcv_nxt |-> SeqAt(1), fin_recv |-> FALSE,
               pending |-> <<>>, ooo |-> <<>>, ooo_size |-> 0,
               proxy_tx |-> FALSE, proxy_dead |-> FALSE,
               recv_window |-> MaxWindow]
    /\ proxy_inflight = 0 /\ proxy_alive = FALSE /\ chan = NoMessage /\ rx = FALSE
    /\ tun = Idle /\ pt = "syn" /\ wr = "none" /\ rd = "none"
    /\ held = <<>> /\ written = <<>> /\ wfailed = FALSE
    /\ table = FALSE /\ slot = FALSE /\ running = TRUE
    /\ edge = 0 /\ reset = FALSE

------------------------------------------------------------------------------
(* The packet thread.                                                      *)

(* handle_tcp_syn for a new flow: no slot of the budget (or no domain for  *)
(* a fake address) resets the client before any state exists; otherwise    *)
(* the connection enters the table, the SYN-ACK goes out and the proxy     *)
(* thread is spawned, which may fail and then drops the slot at once.      *)
handle_tcp_syn(served, spawned) ==
    /\ running /\ pt = "syn"
    /\ table' = served /\ reset' = ~served
    /\ slot' = (served /\ spawned)
    /\ pt' = IF served /\ spawned THEN "dial" ELSE "done"
    /\ IF served THEN Advertise(conn) ELSE UNCHANGED edge
    /\ UNCHANGED <<conn, rd, wireVars, writeVars, tun, running>>

(* A retransmitted SYN is answered from the tracked state.                 *)
DuplicateSyn ==
    /\ running /\ table /\ tun.pc = "idle" /\ Advertise(conn)
    /\ UNCHANGED <<conn, table, reset, proxyVars, wireVars, writeVars, tun,
                   running>>

(* What an honest client and a path that loses, repeats and reorders       *)
(* segments can present: payload any window has allowed, a window probe of *)
(* the one byte beyond it, the FIN after the last byte, and an             *)
(* acknowledgement of nothing new, of everything sent, or of the FIN       *)
(* beyond it.                                                              *)
Segments ==
    {seg \in [pos : 1..(StreamLen + 1), len : 0..MaxSeg, fin : BOOLEAN,
              ack : {conn.snd_una, conn.snd_nxt, (conn.snd_nxt + 1) % SeqSpace}] :
        /\ seg.pos + seg.len - 1 <= edge
             \/ (seg.pos = edge + 1 /\ seg.len = 1 /\ seg.pos <= StreamLen)
        /\ seg.fin => seg.pos + seg.len - 1 = StreamLen
        /\ seg.len = 0 /\ ~seg.fin => seg.pos = 1
        /\ seg.ack \in {conn.snd_una, conn.snd_nxt} \/ conn.fin_recv}

Acked(seg) ==
    IF valid_ack(seg.ack) THEN [conn EXCEPT !.snd_una = seg.ack] ELSE conn

(* The FIN arm of on_established and the SendFinAck it returns, which      *)
(* execute_tcp_action follows with close(): CloseWait, then LastAck.       *)
FinAccepted(c) ==
    [c EXCEPT !.fin_recv = TRUE, !.rcv_nxt = (@ + 1) % SeqSpace,
              !.state = "LastAck"]

(* Leave on_established with an acknowledgement, or with the FIN's.        *)
Answer(c, seg) ==
    LET d == IF seg.fin THEN FinAccepted(c) ELSE c
    IN  conn' = d /\ Advertise(d) /\ UNCHANGED <<table, reset>> /\ tun' = Idle

(* on_established, up to the end of process_data's first check.            *)
on_established(seg) ==
    LET c == Acked(seg)
    IN  \/ /\ seg.len > 0 /\ ~proxy_is_gone(c)
           /\ conn' = WithWindow(c)
           /\ tun' = [pc |-> "admit", seg |-> seg, data |-> <<>>]
           /\ UNCHANGED <<table, edge, reset>>
        \/ /\ seg.len > 0 /\ proxy_is_gone(c) /\ ~seg.fin
           /\ conn' = [c EXCEPT !.state = "Closed"] /\ reset' = TRUE
           /\ UNCHANGED <<table, edge, tun>>
        \/ /\ seg.fin /\ (seg.len = 0 \/ proxy_is_gone(c))
           /\ Answer(c, seg)
        \/ /\ seg.len = 0 /\ ~seg.fin
           /\ conn' = WithWindow(c)
           /\ IF window_update_due(c) THEN Advertise(conn') ELSE UNCHANGED edge
           /\ UNCHANGED <<table, reset, tun>>

on_syn_recv(seg) ==
    /\ conn' = IF valid_ack(seg.ack)
                 THEN [conn EXCEPT !.snd_una = seg.ack, !.state = "Established"]
                 ELSE conn
    /\ UNCHANGED <<table, edge, reset, tun>>

(* on_last_ack: TcpAction::Close takes the connection out of the table.    *)
on_last_ack(seg) ==
    /\ IF valid_ack(seg.ack)
         THEN conn' = [conn EXCEPT !.state = "Closed"] /\ table' = FALSE
         ELSE UNCHANGED <<conn, table>>
    /\ UNCHANGED <<edge, reset, tun>>

(* handle_tcp_packet for a flow in the table: process, then the action.    *)
(* A flow that is Closed and still in the table ignores what arrives, and  *)
(* one that is not in the table is answered with a RST and no state.       *)
Packet(seg) ==
    /\ running /\ table /\ ~reset /\ tun.pc = "idle"
    /\ \/ conn.state = "SynReceived" /\ on_syn_recv(seg)
       \/ conn.state = "Established" /\ on_established(seg)
       \/ conn.state = "LastAck" /\ on_last_ack(seg)
    /\ UNCHANGED <<proxyVars, wireVars, writeVars, running>>

(* A RST from the client: Closed, and out of the table.                    *)
ClientResets ==
    /\ running /\ table /\ ~reset /\ tun.pc = "idle"
    /\ conn' = [conn EXCEPT !.state = "Closed"] /\ table' = FALSE
    /\ UNCHANGED <<edge, reset, proxyVars, wireVars, writeVars, tun, running>>

(* The rest of process_data: a retransmission, a segment there is no room  *)
(* for and a segment ahead of a gap are acknowledged where the stream      *)
(* stands; new bytes are put on the books and go to the channel, or wait   *)
(* for the proxy.                                                          *)
Admit ==
    LET seg == tun.seg
        seq == SeqAt(seg.pos)
        end == SeqAt(seg.pos + seg.len)
        new == NewBytes(seg)
        t   == Taken(new)
        c   == [conn EXCEPT !.rcv_nxt = t.nxt, !.ooo = t.ooo,
                            !.ooo_size = t.size]
    IN  /\ tun.pc = "admit"
        /\ \/ /\ seq_before_or_eq(end, conn.rcv_nxt)
              /\ Answer(conn, seg) /\ UNCHANGED proxy_inflight
           \/ /\ seq_after(seq, conn.rcv_nxt)
              /\ Answer(Buffered(seg, conn), seg) /\ UNCHANGED proxy_inflight
           \/ /\ seq_before_or_eq(seq, conn.rcv_nxt)
              /\ seq_after(end, conn.rcv_nxt) /\ ~has_room_for(conn, Len(new))
              /\ Answer(conn, seg) /\ UNCHANGED proxy_inflight
           \/ /\ seq_before_or_eq(seq, conn.rcv_nxt)
              /\ seq_after(end, conn.rcv_nxt) /\ has_room_for(conn, Len(new))
              /\ UNCHANGED <<table, edge, reset>>
              /\ IF conn.proxy_tx
                   THEN /\ proxy_inflight' = proxy_inflight + Len(t.buf)
                        /\ conn' = c
                        /\ tun' = [tun EXCEPT !.pc = "send", !.data = t.buf]
                   ELSE /\ conn' = [c EXCEPT !.pending = @ \o t.buf]
                        /\ tun' = [tun EXCEPT !.pc = "ack"]
                        /\ UNCHANGED proxy_inflight
        /\ UNCHANGED <<proxyVars, proxy_alive, chan, rx, writeVars, running>>

(* deliver_to_proxy's send: refused once the writer's receiver is gone.    *)
Deliver ==
    /\ tun.pc = "send" /\ tun' = [tun EXCEPT !.pc = "ack", !.data = <<>>]
    /\ IF rx
         THEN /\ chan' = Sent(tun.data)
              /\ UNCHANGED <<conn, proxy_inflight>>
         ELSE /\ conn' = [conn EXCEPT !.proxy_dead = TRUE]
              /\ proxy_inflight' = proxy_inflight - Len(tun.data)
              /\ UNCHANGED chan
    /\ UNCHANGED <<table, edge, reset, proxyVars, proxy_alive, rx, writeVars,
                   running>>

(* The window is recomputed after the delivery and rides on the ACK.       *)
Acknowledge ==
    /\ tun.pc = "ack" /\ Answer(WithWindow(conn), tun.seg)
    /\ UNCHANGED <<proxyVars, wireVars, writeVars, running>>

------------------------------------------------------------------------------
(* establish_proxy_connection.                                             *)

(* The dial or the SOCKS5 handshake fails: the thread returns, its slot    *)
(* with it, and the connection stays in the table until it times out.      *)
DialFailsKeepingSlot ==
    /\ pt = "dial" /\ pt' = "done"
    /\ UNCHANGED <<connVars, rd, slot, wireVars, writeVars, tun, running>>
DialFails ==
    /\ pt = "dial" /\ pt' = "done" /\ slot' = FALSE
    /\ UNCHANGED <<connVars, rd, wireVars, writeVars, tun, running>>

(* set_proxy_tx, under the connection's lock: the bytes buffered so far    *)
(* are counted and sent first.                                             *)
set_proxy_tx ==
    /\ pt = "dial" /\ tun.pc = "idle" /\ pt' = "writer"
    /\ conn' = [conn EXCEPT !.proxy_tx = TRUE, !.pending = <<>>]
    /\ proxy_inflight' = proxy_inflight + Len(conn.pending)
    /\ chan' = IF conn.pending = <<>> THEN chan ELSE Sent(conn.pending)
    /\ rx' = TRUE /\ proxy_alive' = TRUE
    /\ UNCHANGED <<table, edge, reset, rd, slot, writeVars, tun, running>>

(* The writer's thread; a failed spawn drops the guard and the receiver.   *)
SpawnWriter(ok) ==
    /\ pt = "writer"
    /\ pt' = IF ok THEN "reader" ELSE "done"
    /\ wr' = IF ok THEN "loop" ELSE "gone"
    /\ slot' = (slot /\ ok) /\ proxy_alive' = (proxy_alive /\ ok)
    /\ rx' = (rx /\ ok)
    /\ UNCHANGED <<connVars, rd, proxy_inflight, chan, held, written, wfailed,
                   tun, running>>

(* The reader's thread, which owns the slot from here on.                  *)
SpawnReader(ok) ==
    /\ pt = "reader" /\ pt' = "done"
    /\ rd' = IF ok THEN "read" ELSE "none"
    /\ slot' = (slot /\ ok)
    /\ UNCHANGED <<connVars, wireVars, writeVars, tun, running>>

------------------------------------------------------------------------------
(* The writer thread.                                                      *)

(* Nothing holds the connection any more, so its sender is dropped: not    *)
(* the table, the packet thread, the proxy thread or the reader.           *)
SenderHeldByWriter ==
    ~table /\ tun.pc = "idle" /\ pt = "done" /\ rd # "read" /\ wr = "gone"
SenderDropped == ~table /\ tun.pc = "idle" /\ pt = "done" /\ rd # "read"

(* Take everything queued; a single message is written at once, several    *)
(* are held for the next round unless there are FlushAt bytes.             *)
WriterTakes ==
    LET all == held \o chan.bytes
    IN  /\ wr = "loop" /\ running /\ chan.msgs > 0
        /\ held' = all /\ chan' = NoMessage
        /\ wr' = IF Len(all) >= FlushAt \/ chan.msgs = 1 THEN "write" ELSE "loop"
        /\ UNCHANGED <<connVars, proxyVars, proxy_inflight, proxy_alive, rx,
                       written, wfailed, tun, running>>

(* recv_timeout expires on an empty channel: flush what is held.           *)
WriterFlushes ==
    /\ wr = "loop" /\ running /\ chan.msgs = 0 /\ held # <<>> /\ ~SenderDropped
    /\ wr' = "write"
    /\ UNCHANGED <<connVars, proxyVars, wireVars, held, written, wfailed, tun,
                   running>>

(* The stack is stopped, or every sender is gone and the queue is empty.   *)
WriterLeaves ==
    /\ wr = "loop" /\ (~running \/ (SenderDropped /\ chan.msgs = 0))
    /\ wr' = "flush"
    /\ UNCHANGED <<connVars, proxyVars, wireVars, held, written, wfailed, tun,
                   running>>

(* write_all_sync succeeds, and the bytes leave the window.                *)
WriterWrites ==
    /\ wr = "write" /\ wr' = "loop"
    /\ written' = written \o held /\ held' = <<>>
    /\ proxy_inflight' = proxy_inflight - Len(held)
    /\ UNCHANGED <<connVars, proxyVars, proxy_alive, chan, rx, wfailed, tun,
                   running>>

(* write_all_sync fails.  How much of the buffer the socket took before is *)
(* not followed: written ends with the last write that succeeded.          *)
WriterFails ==
    /\ wr = "write" /\ wr' = "flush" /\ wfailed' = TRUE
    /\ UNCHANGED <<connVars, proxyVars, wireVars, held, written, tun, running>>

(* The flush on the way out writes the whole buffer, failed write or not;  *)
(* its result is ignored.                                                  *)
FinalFlush(ok) ==
    /\ wr = "flush" /\ wr' = "drop"
    /\ wfailed' = (wfailed \/ (held # <<>> /\ ~ok))
    /\ written' = IF wfailed' THEN written ELSE written \o held
    /\ UNCHANGED <<connVars, proxyVars, wireVars, held, tun, running>>

(* ProxyWriter::drop, a local of the thread's closure ...                  *)
DropGuardKeepingHeld ==
    /\ wr = "drop" /\ wr' = "close" /\ held' = <<>> /\ proxy_alive' = FALSE
    /\ UNCHANGED <<connVars, proxyVars, proxy_inflight, chan, rx, written,
                   wfailed, tun, running>>
DropGuard ==
    /\ wr = "drop" /\ wr' = "close"
    /\ proxy_inflight' = proxy_inflight - Len(held) /\ held' = <<>>
    /\ proxy_alive' = FALSE
    /\ UNCHANGED <<connVars, proxyVars, chan, rx, written, wfailed, tun, running>>

(* ... and then the receiver, which the closure captured.                  *)
DropReceiver ==
    /\ wr = "close" /\ wr' = "gone" /\ rx' = FALSE
    /\ UNCHANGED <<connVars, proxyVars, proxy_inflight, proxy_alive, chan,
                   held, written, wfailed, tun, running>>

------------------------------------------------------------------------------
(* The reader thread.                                                      *)

(* A chunk from the proxy: under the lock snd_nxt moves past it, and the   *)
(* segment carries the acknowledgement and the window of that moment.      *)
ReaderReads ==
    /\ rd = "read" /\ running /\ tun.pc = "idle"
    /\ (conn.snd_nxt - Iss - 1) % SeqSpace < MaxDown
    /\ conn' = [conn EXCEPT !.snd_nxt = (@ + 1) % SeqSpace]
    /\ Advertise(conn)
    /\ UNCHANGED <<table, reset, proxyVars, wireVars, writeVars, tun, running>>

(* EOF, a read error or a stopped stack: the FIN goes to the client, the   *)
(* connection leaves the table and the slot is returned.                   *)
ReaderEnds ==
    /\ rd = "read" /\ tun.pc = "idle" /\ rd' = "gone"
    /\ Advertise(conn)
    /\ table' = FALSE /\ slot' = FALSE
    /\ UNCHANGED <<conn, reset, pt, wireVars, writeVars, tun, running>>

------------------------------------------------------------------------------
(* TcpManager::cleanup, from run_cleanup or stop: a closed or timed-out    *)
(* connection leaves the table.  How long a flow has been silent is not    *)
(* modelled, so it may always have expired.                                *)
Cleanup ==
    /\ table /\ tun.pc = "idle" /\ table' = FALSE
    /\ UNCHANGED <<conn, edge, reset, proxyVars, wireVars, writeVars, tun,
                   running>>

(* SolidStack::stop: the flag falls at any moment; the cleanup that        *)
(* follows waits for the connection's lock and is the step above.          *)
stop ==
    /\ running /\ running' = FALSE
    /\ UNCHANGED <<connVars, proxyVars, wireVars, writeVars, tun>>

------------------------------------------------------------------------------
PacketThread == Admit \/ Deliver \/ Acknowledge

Writer ==
    \/ WriterTakes \/ WriterFlushes \/ WriterLeaves \/ WriterWrites
    \/ WriterFails \/ \E ok \in BOOLEAN : FinalFlush(ok)
    \/ DropGuard \/ DropReceiver

ProxyThread ==
    \/ DialFails \/ set_proxy_tx
    \/ \E ok \in BOOLEAN : SpawnWriter(ok) \/ SpawnReader(ok)

Next ==
    \/ \E served, spawned \in BOOLEAN : handle_tcp_syn(served, spawned)
    \/ DuplicateSyn \/ ClientResets
    \/ \E seg \in Segments : Packet(seg)
    \/ PacketThread \/ ProxyThread \/ Writer
    \/ ReaderReads \/ ReaderEnds \/ Cleanup \/ stop

(* The client retransmits the first byte it has no acknowledgement for,    *)
(* while a window allows it, and keeps acknowledging (a window probe).     *)
ClientSends(pos, len) ==
    Packet([pos |-> pos, len |-> len, fin |-> FALSE, ack |-> conn.snd_nxt])
Retransmits == PosOf(conn.rcv_nxt) <= edge /\ ClientSends(PosOf(conn.rcv_nxt), 1)
Probes      == ClientSends(1, 0)

Spec == Init /\ [][Next]_vars
FairSpec ==
    /\ Spec
    /\ WF_vars(PacketThread) /\ WF_vars(Writer)
    /\ SF_vars(ProxyThread)
    /\ SF_vars(ReaderEnds /\ ~running)
    /\ SF_vars(Retransmits) /\ SF_vars(Probes)

------------------------------------------------------------------------------
(* Properties.                                                             *)

Accepted == written \o (IF wr = "drop" THEN <<>> ELSE held) \o chan.bytes
              \o (IF tun.pc = "send" THEN tun.data ELSE <<>>) \o conn.pending

(* The control states and the ranges of the numbers.                       *)
TypeOK ==
    /\ conn.state \in States
    /\ {conn.rcv_nxt, conn.snd_nxt, conn.snd_una} \subseteq 0..(SeqSpace - 1)
    /\ conn.recv_window \in 0..MaxWindow /\ proxy_inflight \in Nat
    /\ tun.pc \in {"idle", "admit", "send", "ack"}
    /\ pt \in {"syn", "dial", "writer", "reader", "done"}
    /\ wr \in {"none", "loop", "write", "flush", "drop", "close", "gone"}
    /\ rd \in {"none", "read", "gone"}

(* Every byte the stack has acknowledged is, in order and once, either     *)
(* with the proxy, in the writer's hands, in the channel or waiting for    *)
(* the proxy, until a write or a send to the proxy has failed: gaps,       *)
(* overlaps and repeats in what arrives leave no trace (process_data,      *)
(* try_deliver_ooo_segments, set_proxy_tx, the writer's coalescing).       *)
AckedExactlyOnce ==
    ~wfailed /\ ~conn.proxy_dead =>
        /\ Accepted = [p \in 1..Len(Accepted) |-> p]
        /\ conn.rcv_nxt = SeqAt(Len(Accepted) + IF conn.fin_recv THEN 2 ELSE 1)

(* The in-flight counter is exactly the bytes between the two threads,     *)
(* whichever of them is ahead, also after a writer that left early         *)
(* (fetch_add before send, take/written, ProxyWriter::drop).               *)
InflightIsExact ==
    proxy_inflight = Len(held) + Len(chan.bytes)
        + (IF tun.pc = "send" THEN Len(tun.data) ELSE 0)

(* A proxy that reads nothing cannot make the stack hold more than the     *)
(* receive buffer plus the reassembly budget (has_room_for counts the      *)
(* bytes the writer has not written, process_data bounds ooo_size).        *)
QueueIsBounded ==
    /\ Len(conn.pending) + proxy_inflight <= MaxRecvBuffer
    /\ conn.ooo_size <= MaxOooSize

(* What the stack holds for the proxy is counted right and bounded.        *)
HoldingIsKnown == InflightIsExact /\ QueueIsBounded

(* Once the writer's guard has run, no new payload is acknowledged any more,   *)
(* also not by a segment that was being processed at that moment; only a   *)
(* FIN still moves the acknowledgement (proxy_is_gone, has_room_for).      *)
NoAckIntoAHole ==
    [][conn.proxy_tx /\ ~proxy_alive =>
          conn'.rcv_nxt = IF conn'.fin_recv /\ ~conn.fin_recv
                            THEN (conn.rcv_nxt + 1) % SeqSpace
                            ELSE conn.rcv_nxt]_vars

(* A finished flow has left its writer behind: the reader has taken the    *)
(* connection out of the table, and the writer, which holds it weakly,     *)
(* ought to end.                                                           *)
WriterLeft == rd = "gone" /\ wr # "gone"

(* The stack is stopped, wherever the flow was, and the flow still has its *)
(* slot of the tunnel's budget.                                            *)
SlotKept == ~running /\ slot

(* The flow has ended, or been cut, before its stream was through.         *)
Disturbed ==
    \/ ~running \/ reset \/ conn.fin_recv \/ wfailed \/ conn.state = "Closed"
    \/ ~table \/ wr = "gone" \/ (pt = "done" /\ ~conn.proxy_tx)

(* A client that retransmits and probes has not got its whole stream to    *)
(* the proxy, through a window that closes and segments kept out of order  *)
(* (update_recv_window, window_update_due), and nothing disturbs it.       *)
StreamStalled == table /\ Len(written) < StreamLen /\ ~Disturbed

(* None of the three lasts for ever: the stream of a client that keeps     *)
(* trying gets through, a finished flow's writer ends, and a stopped stack *)
(* gets its slot back.                                                     *)
FlowSettles == <>[]~(WriterLeft \/ SlotKept \/ StreamStalled)

------------------------------------------------------------------------------
(* NoAckIntoAHole for every stream, window and sequence space.             *)

Fields == {"state", "snd_nxt", "snd_una", "rcv_nxt", "fin_recv", "pending",
           "ooo", "ooo_size", "proxy_tx", "proxy_dead", "recv_window"}

(* A FIN is taken once: by a flow that is Established, which it is not     *)
(* afterwards, and whose state nobody else changes while the packet thread *)
(* is between two steps of a segment.                                      *)
HoleInv ==
    /\ conn = [f \in Fields |-> conn[f]]
    /\ tun = [f \in {"pc", "seg", "data"} |-> tun[f]]
    /\ conn.fin_recv \in BOOLEAN
    /\ conn.state \in {"SynReceived", "Established"} => ~conn.fin_recv
    /\ tun.pc # "idle" => conn.state = "Established"

(* What a step may do to the acknowledgement once the writer is gone.      *)
HoleStep ==
    conn.proxy_tx /\ ~proxy_alive =>
        conn'.rcv_nxt = IF conn'.fin_recv /\ ~conn.fin_recv
                          THEN (conn.rcv_nxt + 1) % SeqSpace
                          ELSE conn.rcv_nxt

(* The fields a change of c keeps.                                         *)
LEMMA AckedKeeps ==
    ASSUME HoleInv, NEW seg
    PROVE  /\ Acked(seg) = [f \in Fields |-> Acked(seg)[f]]
           /\ \A f \in Fields \ {"snd_una"} : Acked(seg)[f] = conn[f]
BY DEF HoleInv, Acked, Fields

(* Leaving on_established: with the FIN's acknowledgement, or where the    *)
(* stream stands in c.                                                     *)
LEMMA AnswerStep ==
    ASSUME HoleInv, NEW c, NEW seg, Answer(c, seg),
           c = [f \in Fields |-> c[f]],
           c.state = "Established", ~conn.fin_recv, c.fin_recv = FALSE,
           c.rcv_nxt = conn.rcv_nxt
    PROVE  HoleInv' /\ HoleStep
<1>1. CASE seg.fin
  <2>1. conn' = FinAccepted(c) /\ tun' = Idle
    BY <1>1 DEF Answer
  <2>2. /\ conn' = [f \in Fields |-> conn'[f]]
        /\ conn'.fin_recv = TRUE /\ conn'.state = "LastAck"
        /\ conn'.rcv_nxt = (conn.rcv_nxt + 1) % SeqSpace
    BY <2>1 DEF FinAccepted, Fields
  <2> QED BY <2>1, <2>2 DEF HoleInv, HoleStep, Idle
<1>2. CASE ~seg.fin
  <2>1. conn' = c /\ tun' = Idle
    BY <1>2 DEF Answer
  <2> QED BY <2>1 DEF HoleInv, HoleStep, Idle, Fields
<1> QED BY <1>1, <1>2

(* A step that leaves conn alone, but for fields the invariant does not    *)
(* speak of, and the packet thread where it was.                           *)
LEMMA ConnKept ==
    ASSUME HoleInv, tun' = tun,
           conn' = [f \in Fields |-> conn'[f]],
           conn'.state = conn.state, conn'.fin_recv = conn.fin_recv,
           conn'.rcv_nxt = conn.rcv_nxt
    PROVE  HoleInv' /\ HoleStep
BY DEF HoleInv, HoleStep

(* A flow that is closed stays so for the FIN, and the packet thread idle. *)
LEMMA ConnClosed ==
    ASSUME HoleInv, NEW c, c = [f \in Fields |-> c[f]],
           c.fin_recv = conn.fin_recv, c.rcv_nxt = conn.rcv_nxt,
           tun.pc = "idle", tun' = tun,
           conn' = [c EXCEPT !.state = "Closed"]
    PROVE  HoleInv' /\ HoleStep
<1>1. /\ conn' = [f \in Fields |-> conn'[f]]
      /\ conn'.state = "Closed" /\ conn'.fin_recv = conn.fin_recv
      /\ conn'.rcv_nxt = conn.rcv_nxt
  BY DEF Fields
<1> QED BY <1>1 DEF HoleInv, HoleStep

LEMMA PacketStep ==
    ASSUME HoleInv, NEW seg \in Segments, Packet(seg)
    PROVE  HoleInv' /\ HoleStep
<1>1. CASE conn.state = "SynReceived" /\ on_syn_recv(seg)
  <2>1. CASE ~valid_ack(seg.ack)
    BY <1>1, <2>1, ConnKept DEF on_syn_recv, HoleInv
  <2>2. CASE valid_ack(seg.ack)
    <3>1. /\ conn' = [conn EXCEPT !.snd_una = seg.ack, !.state = "Established"]
          /\ tun' = tun
      BY <1>1, <2>2 DEF on_syn_recv
    <3>2. /\ conn' = [f \in Fields |-> conn'[f]]
          /\ conn'.state = "Established" /\ conn'.fin_recv = conn.fin_recv
          /\ conn'.rcv_nxt = conn.rcv_nxt
      BY <3>1 DEF HoleInv, Fields
    <3> QED BY <1>1, <3>1, <3>2 DEF HoleInv, HoleStep
  <2> QED BY <2>1, <2>2
<1>2. CASE conn.state = "LastAck" /\ on_last_ack(seg)
  <2>1. CASE ~valid_ack(seg.ack)
    BY <1>2, <2>1, ConnKept DEF on_last_ack, HoleInv
  <2>2. CASE valid_ack(seg.ack)
    BY <1>2, <2>2, ConnClosed DEF on_last_ack, Packet, HoleInv
  <2> QED BY <2>1, <2>2
<1>3. CASE conn.state = "Established" /\ on_established(seg)
  <2> DEFINE c == Acked(seg)
  <2>1. /\ c = [f \in Fields |-> c[f]]
        /\ c.state = "Established" /\ c.rcv_nxt = conn.rcv_nxt
        /\ c.fin_recv = FALSE /\ conn.fin_recv = FALSE
        /\ c.proxy_tx = conn.proxy_tx
    BY <1>3, AckedKeeps DEF HoleInv, Fields
  <2>2. /\ WithWindow(c) = [f \in Fields |-> WithWindow(c)[f]]
        /\ WithWindow(c).state = "Established"
        /\ WithWindow(c).fin_recv = FALSE
        /\ WithWindow(c).rcv_nxt = conn.rcv_nxt
    BY <2>1 DEF WithWindow, Fields
  <2> HIDE DEF c
  <2>3. CASE /\ conn' = WithWindow(c)
             /\ tun' = [pc |-> "admit", seg |-> seg, data |-> <<>>]
    BY <2>1, <2>2, <2>3 DEF HoleInv, HoleStep
  <2>4. CASE conn' = [c EXCEPT !.state = "Closed"] /\ UNCHANGED tun
    BY <2>1, <2>4, ConnClosed DEF Packet
  <2>5. CASE Answer(c, seg)
    BY <2>1, <2>5, AnswerStep
  <2>6. CASE conn' = WithWindow(c) /\ UNCHANGED tun
    BY <1>3, <2>1, <2>2, <2>6, ConnKept
  <2> QED BY <1>3, <2>3, <2>4, <2>5, <2>6 DEF on_established, c
<1> QED BY <1>1, <1>2, <1>3 DEF Packet

(* The only arm that moves rcv_nxt over payload asks has_room_for first.   *)
LEMMA AdmitStep ==
    ASSUME HoleInv, Admit
    PROVE  HoleInv' /\ HoleStep
<1>1. /\ conn.state = "Established" /\ conn.fin_recv = FALSE
      /\ conn = [f \in Fields |-> conn[f]]
  BY DEF HoleInv, Admit
<1>2. CASE Answer(conn, tun.seg)
  BY <1>1, <1>2, AnswerStep
<1>3. CASE Answer(Buffered(tun.seg, conn), tun.seg)
  <2> DEFINE b == Buffered(tun.seg, conn)
  <2>1. /\ b = [f \in Fields |-> b[f]]
        /\ b.state = "Established" /\ b.fin_recv = FALSE
        /\ b.rcv_nxt = conn.rcv_nxt
    BY <1>1 DEF Buffered, Fields
  <2> QED BY <1>1, <1>3, <2>1, AnswerStep
<1>4. ASSUME NEW n, has_room_for(conn, n), NEW t,
             \/ /\ conn' = [conn EXCEPT !.rcv_nxt = t.nxt, !.ooo = t.ooo,
                                        !.ooo_size = t.size]
                /\ tun' = [tun EXCEPT !.pc = "send", !.data = t.buf]
             \/ /\ conn' = [[conn EXCEPT !.rcv_nxt = t.nxt, !.ooo = t.ooo,
                                         !.ooo_size = t.size]
                              EXCEPT !.pending = @ \o t.buf]
                /\ tun' = [tun EXCEPT !.pc = "ack"]
      PROVE  HoleInv' /\ HoleStep
  <2>1. ~(conn.proxy_tx /\ ~proxy_alive)
    BY <1>4 DEF has_room_for, proxy_is_gone
  <2>2. /\ conn' = [f \in Fields |-> conn'[f]]
        /\ conn'.state = "Established" /\ conn'.fin_recv = FALSE
    BY <1>1, <1>4 DEF Fields
  <2>3. tun' = [f \in {"pc", "seg", "data"} |-> tun'[f]]
    BY <1>4 DEF HoleInv
  <2> QED BY <2>1, <2>2, <2>3 DEF HoleInv, HoleStep
<1> QED BY <1>2, <1>3, <1>4 DEF Admit

LEMMA HoleNext ==
    ASSUME HoleInv, [Next]_vars
    PROVE  HoleInv' /\ HoleStep
<1>1. CASE UNCHANGED <<conn, tun>>
  BY <1>1, ConnKept DEF HoleInv
<1>2. ASSUME NEW served \in BOOLEAN, NEW spawned \in BOOLEAN,
             handle_tcp_syn(served, spawned)
      PROVE  UNCHANGED <<conn, tun>>
  BY <1>2 DEF handle_tcp_syn
<1>3. CASE ClientResets
  BY <1>3, ConnClosed DEF ClientResets, HoleInv
<1>4. ASSUME NEW seg \in Segments, Packet(seg)
      PROVE  HoleInv' /\ HoleStep
  BY <1>4, PacketStep
<1>5. CASE Admit
  BY <1>5, AdmitStep
<1>6. CASE Deliver
  <2>1. /\ conn' = [f \in Fields |-> conn'[f]]
        /\ conn'.state = conn.state /\ conn'.fin_recv = conn.fin_recv
        /\ conn'.rcv_nxt = conn.rcv_nxt
    BY <1>6 DEF Deliver, HoleInv, Fields
  <2>2. tun.pc = "send" /\ tun' = [tun EXCEPT !.pc = "ack", !.data = <<>>]
    BY <1>6 DEF Deliver
  <2>3. tun' = [f \in {"pc", "seg", "data"} |-> tun'[f]]
    BY <2>2 DEF HoleInv
  <2> QED BY <2>1, <2>2, <2>3 DEF HoleInv, HoleStep
<1>7. CASE Acknowledge
  <2> DEFINE c == WithWindow(conn)
  <2>1. /\ c = [f \in Fields |-> c[f]]
        /\ c.state = "Established" /\ c.rcv_nxt = conn.rcv_nxt
        /\ c.fin_recv = FALSE /\ conn.fin_recv = FALSE
    BY <1>7 DEF Acknowledge, HoleInv, WithWindow, Fields
  <2>2. Answer(c, tun.seg)
    BY <1>7 DEF Acknowledge
  <2> HIDE DEF c
  <2> QED BY <2>1, <2>2, AnswerStep
<1>8. CASE ProxyThread
  <2>1. CASE set_proxy_tx
    <3>1. /\ conn' = [f \in Fields |-> conn'[f]]
          /\ conn'.state = conn.state /\ conn'.fin_recv = conn.fin_recv
          /\ conn'.rcv_nxt = conn.rcv_nxt /\ tun' = tun
      BY <2>1 DEF set_proxy_tx, HoleInv, Fields
    <3> QED BY <3>1, ConnKept
  <2>2. CASE \/ DialFails
             \/ \E ok \in BOOLEAN : SpawnWriter(ok) \/ SpawnReader(ok)
    BY <2>2, <1>1 DEF DialFails, SpawnWriter, SpawnReader, connVars
  <2> QED BY <1>8, <2>1, <2>2 DEF ProxyThread
<1>9. CASE Writer
  BY <1>9, <1>1 DEF Writer, WriterTakes, WriterFlushes, WriterLeaves,
     WriterWrites, WriterFails, FinalFlush, DropGuard, DropReceiver, connVars
<1>10. CASE ReaderReads
  <2>1. /\ conn' = [f \in Fields |-> conn'[f]]
        /\ conn'.state = conn.state /\ conn'.fin_recv = conn.fin_recv
        /\ conn'.rcv_nxt = conn.rcv_nxt /\ tun' = tun
    BY <1>10 DEF ReaderReads, HoleInv, Fields
  <2> QED BY <2>1, ConnKept
<1>11. CASE DuplicateSyn \/ ReaderEnds \/ Cleanup \/ stop
  BY <1>11, <1>1 DEF DuplicateSyn, ReaderEnds, Cleanup, stop, connVars
<1>12. CASE UNCHANGED vars
  BY <1>12, <1>1 DEF vars, connVars
<1> QED
  BY <1>1, <1>2, <1>3, <1>4, <1>5, <1>6, <1>7, <1>8, <1>9, <1>10, <1>11, <1>12
  DEF Next, PacketThread

(* No payload is acknowledged after the writer's guard has run, whatever   *)
(* the stream, the segments, the buffers and the sequence space: the test  *)
(* of has_room_for and the move of rcv_nxt are one step under the lock.    *)
THEOREM NothingAckedIntoAHole == Spec => NoAckIntoAHole
<1>1. Init => HoleInv
  BY DEF Init, HoleInv, Fields, Idle
<1>2. HoleInv /\ [Next]_vars => HoleInv'
  BY HoleNext
<1>3. HoleInv /\ [Next]_vars => [HoleStep]_vars
  BY HoleNext
<1> QED BY <1>1, <1>2, <1>3, PTL DEF Spec, NoAckIntoAHole, HoleStep

------------------------------------------------------------------------------
(* AckedExactlyOnce and HoldingIsKnown for every stream, segment size,     *)
(* buffer and sequence space.                                              *)

(* The bytes of the client's stream from position a up to, not including b. *)
Bytes(a, b) == [i \in 1..(b - a) |-> a + i - 1]

(* A set of naturals has a smallest member, and one that holds 0 and every *)
(* successor holds all.                                                    *)
LEMMA NatMin ==
    ASSUME NEW T \in SUBSET Nat, T # {}
    PROVE  \E n \in T : \A m \in T : n <= m
<1>1. PICK n \in T : \A m \in T : <<m, n>> \notin OpToRel(<, Nat)
  BY NatLessThanWellFounded, WFMin
<1>2. \A m \in T : ~(m < n)
  BY <1>1 DEF OpToRel
<1>3. ASSUME NEW m \in T PROVE n <= m
  <2>1. n \in Nat /\ m \in Nat
    OBVIOUS
  <2> QED BY <2>1, <1>2
<1> QED BY <1>3

LEMMA NatUp ==
    ASSUME NEW T, 0 \in T, \A n \in Nat : n \in T => n + 1 \in T
    PROVE  Nat \subseteq T
<1> DEFINE U == Nat \ T
<1> SUFFICES ASSUME U # {} PROVE FALSE
  OBVIOUS
<1>1. PICK n \in U : \A m \in U : n <= m
  <2>1. U \in SUBSET Nat
    OBVIOUS
  <2> HIDE DEF U
  <2> QED BY <2>1, NatMin
<1>2. n # 0 /\ n - 1 \in Nat /\ n - 1 \in T
  BY <1>1
<1> QED BY <1>1, <1>2

(* Sequence numbers of positions that are less than half the space apart:  *)
(* the wrapping comparisons are those of the positions.                    *)
Positions == 0..(StreamLen + 2)

LEMMA SpaceIsWide ==
    /\ SeqSpace \in Nat /\ SeqSpace > 0 /\ Isn \in 0..(SeqSpace - 1)
    /\ StreamLen \in Nat /\ StreamLen > 0 /\ MaxSeg \in Nat /\ MaxRecvBuffer \in Nat
    /\ MaxOooSize \in Nat
    /\ SeqSpace > 2 * (StreamLen + 2)
    /\ 2 * (SeqSpace \div 2) = SeqSpace /\ SeqSpace \div 2 \in Nat
BY TcpAssumption

LEMMA ModSmall ==
    ASSUME NEW n \in Nat, n > 0, NEW x \in (-n)..(2 * n - 1)
    PROVE  x % n = IF x < 0 THEN x + n ELSE IF x < n THEN x ELSE x - n
OBVIOUS

LEMMA SeqAtPos ==
    ASSUME NEW a \in Positions
    PROVE  /\ SeqAt(a) \in 0..(SeqSpace - 1)
           /\ SeqAt(a) = IF Isn + a < SeqSpace THEN Isn + a ELSE Isn + a - SeqSpace
           /\ PosOf(SeqAt(a)) = a
<1>1. SeqAt(a) = IF Isn + a < SeqSpace THEN Isn + a ELSE Isn + a - SeqSpace
  BY SpaceIsWide, ModSmall DEF SeqAt, Positions
<1>2. SeqAt(a) \in 0..(SeqSpace - 1)
  BY <1>1, SpaceIsWide DEF Positions
<1>3. PosOf(SeqAt(a)) = a
  BY <1>1, <1>2, SpaceIsWide, ModSmall DEF PosOf, Positions
<1> QED BY <1>1, <1>2, <1>3

LEMMA SeqDistance ==
    ASSUME NEW a \in Positions, NEW b \in Positions
    PROVE  /\ (SeqAt(a) - SeqAt(b)) % SeqSpace =
                 IF a >= b THEN a - b ELSE a - b + SeqSpace
           /\ SeqAt(a) = SeqAt(b) <=> a = b
<1>1. SeqAt(a) - SeqAt(b) \in (-SeqSpace)..(2 * SeqSpace - 1)
  BY SeqAtPos, SpaceIsWide DEF Positions
<1>2. SeqAt(a) - SeqAt(b) \in {a - b, a - b + SeqSpace, a - b - SeqSpace}
  BY SeqAtPos, SpaceIsWide DEF Positions
<1>3. /\ a \in Int /\ b \in Int /\ SeqAt(a) \in Int /\ SeqAt(b) \in Int
      /\ a - b < SeqSpace /\ b - a < SeqSpace
      /\ SeqAt(a) - SeqAt(b) < SeqSpace /\ SeqAt(b) - SeqAt(a) < SeqSpace
  BY SeqAtPos, SpaceIsWide DEF Positions
<1> QED BY <1>1, <1>2, <1>3, SpaceIsWide, ModSmall

LEMMA SeqOrder ==
    ASSUME NEW a \in Positions, NEW b \in Positions
    PROVE  /\ seq_before_or_eq(SeqAt(a), SeqAt(b)) <=> a <= b
           /\ seq_after(SeqAt(a), SeqAt(b)) <=> a > b
<1>1. /\ a \in Int /\ b \in Int
      /\ a - b < SeqSpace \div 2 /\ b - a < SeqSpace \div 2
  BY SpaceIsWide DEF Positions
<1> QED BY <1>1, SeqDistance, SpaceIsWide
  DEF seq_before_or_eq, seq_before, seq_after

LEMMA SeqForward ==
    ASSUME NEW a \in Positions, NEW n \in Nat, a + n \in Positions
    PROVE  (SeqAt(a) + n) % SeqSpace = SeqAt(a + n)
<1>1. SeqAt(a) + n \in (-SeqSpace)..(2 * SeqSpace - 1)
  BY SeqAtPos, SpaceIsWide DEF Positions
<1> QED BY <1>1, SeqAtPos, SpaceIsWide, ModSmall DEF Positions

(* Sequences of bytes: joined, compared and cut.                            *)
LEMMA Joined ==
    ASSUME NEW s \in Seq(Int), NEW t \in Seq(Int)
    PROVE  /\ s \o t \in Seq(Int)
           /\ Len(s \o t) = Len(s) + Len(t)
           /\ Len(s) \in Nat /\ Len(t) \in Nat
           /\ \A i \in 1..(Len(s) + Len(t)) :
                (s \o t)[i] = IF i <= Len(s) THEN s[i] ELSE t[i - Len(s)]
BY ConcatProperties, LenProperties

LEMMA SameSeq ==
    ASSUME NEW s \in Seq(Int), NEW t \in Seq(Int), Len(s) = Len(t),
           \A i \in 1..Len(s) : s[i] = t[i]
    PROVE  s = t
BY SeqEqual

LEMMA Cut ==
    ASSUME NEW s \in Seq(Int), NEW m \in 1..(Len(s) + 1)
    PROVE  /\ SubSeq(s, m, Len(s)) \in Seq(Int)
           /\ Len(SubSeq(s, m, Len(s))) = Len(s) - m + 1
           /\ \A i \in 1..(Len(s) - m + 1) : SubSeq(s, m, Len(s))[i] = s[m + i - 1]
<1>1. \A i \in m..Len(s) : s[i] \in Int
  OBVIOUS
<1>2. m \in Int /\ Len(s) \in Int
  OBVIOUS
<1> QED BY <1>1, <1>2, SubSeqProperties

LEMMA BytesType ==
    ASSUME NEW a \in Int, NEW b \in Int, a <= b
    PROVE  /\ Bytes(a, b) \in Seq(Int)
           /\ Len(Bytes(a, b)) = b - a
           /\ \A i \in 1..(b - a) : Bytes(a, b)[i] = a + i - 1
<1>1. b - a \in Nat
  OBVIOUS
<1>2. \A i \in 1..(b - a) : a + i - 1 \in Int
  OBVIOUS
<1> QED BY <1>1, <1>2 DEF Bytes

LEMMA IsBytes ==
    ASSUME NEW s \in Seq(Int), NEW a \in Int, NEW b \in Int, a <= b,
           Len(s) = b - a, \A i \in 1..(b - a) : s[i] = a + i - 1
    PROVE  s = Bytes(a, b)
<1>1. PICK t \in Seq(Int) : /\ t = Bytes(a, b) /\ Len(t) = b - a
                            /\ \A i \in 1..(b - a) : t[i] = a + i - 1
  BY BytesType
<1>2. Len(s) = Len(t) /\ \A i \in 1..Len(s) : s[i] = t[i]
  BY <1>1
<1>3. s = t
  BY <1>2, SameSeq
<1> QED BY <1>1, <1>3

LEMMA BytesConcat ==
    ASSUME NEW a \in Int, NEW b \in Int, NEW c \in Int, a <= b, b <= c
    PROVE  Bytes(a, b) \o Bytes(b, c) = Bytes(a, c)
<1>1. PICK s \in Seq(Int), t \in Seq(Int) :
        /\ s = Bytes(a, b) /\ t = Bytes(b, c)
        /\ Len(s) = b - a /\ Len(t) = c - b
        /\ \A i \in 1..(b - a) : s[i] = a + i - 1
        /\ \A i \in 1..(c - b) : t[i] = b + i - 1
  BY BytesType
<1>2. s \o t \in Seq(Int) /\ Len(s \o t) = c - a
  <2>1. s \o t \in Seq(Int) /\ Len(s \o t) = Len(s) + Len(t)
    BY Joined, Zenon
  <2>2. (b - a) + (c - b) = c - a
    OBVIOUS
  <2> QED
    BY <1>1, <2>1, <2>2, Zenon
<1>3. ASSUME NEW i \in 1..(c - a) PROVE (s \o t)[i] = a + i - 1
  <2>1. (s \o t)[i] = IF i <= b - a THEN s[i] ELSE t[i - (b - a)]
    BY <1>1, Joined
  <2>2. i > b - a => i - (b - a) \in 1..(c - b)
    OBVIOUS
  <2> QED BY <1>1, <2>1, <2>2
<1> DEFINE u == s \o t
<1> HIDE DEF u
<1>4. u = Bytes(a, c)
  <2>1. u \in Seq(Int) /\ Len(u) = c - a /\ \A i \in 1..(c - a) : u[i] = a + i - 1
    BY <1>2, <1>3 DEF u
  <2>2. a <= c
    OBVIOUS
  <2> QED BY <2>1, <2>2, IsBytes
<1> QED BY <1>1, <1>4 DEF u

LEMMA BytesTail ==
    ASSUME NEW a \in Int, NEW b \in Int, NEW c \in Int, a <= b, b <= c
    PROVE  SubSeq(Bytes(a, c), b - a + 1, Len(Bytes(a, c))) = Bytes(b, c)
<1>1. PICK s \in Seq(Int) :
        /\ s = Bytes(a, c) /\ Len(s) = c - a
        /\ \A i \in 1..(c - a) : s[i] = a + i - 1
  <2>1. a <= c
    OBVIOUS
  <2> QED BY <2>1, BytesType
<1> DEFINE m == b - a + 1
<1>2. m \in 1..(Len(s) + 1) /\ Len(s) - m + 1 = c - b
  BY <1>1
<1> DEFINE l == SubSeq(s, m, Len(s))
<1>3. /\ l \in Seq(Int) /\ Len(l) = c - b
      /\ \A i \in 1..(c - b) : l[i] = s[m + i - 1]
  BY <1>2, Cut
<1>4. ASSUME NEW i \in 1..(c - b) PROVE l[i] = b + i - 1
  <2>1. m + i - 1 \in 1..(c - a) /\ a + (m + i - 1) - 1 = b + i - 1
    OBVIOUS
  <2> HIDE DEF l, m
  <2> QED BY <1>1, <1>3, <2>1
<1> HIDE DEF l
<1>5. l = Bytes(b, c)
  BY <1>3, <1>4, IsBytes
<1> QED BY <1>1, <1>5 DEF l

(* One turn at a time: what holds of the start and is kept by a turn holds *)
(* of every turn.  The turns exist, by induction on their number.          *)
LEMMA TurnsExist ==
    ASSUME NEW start, NEW n \in Nat
    PROVE  /\ OooTurns(start, n)[0] = start
           /\ \A k \in 1..n : OooTurns(start, n)[k] = OooTurn(OooTurns(start, n)[k - 1])
<1> DEFINE Is(f, m) == f = [k \in 0..m |-> IF k = 0 THEN start ELSE OooTurn(f[k - 1])]
           T == {m \in Nat : \E f : Is(f, m)}
<1>1. 0 \in T
  <2>1. Is([k \in 0..0 |-> start], 0)
    OBVIOUS
  <2> QED BY <2>1
<1>2. ASSUME NEW m \in Nat, m \in T PROVE m + 1 \in T
  <2>1. PICK f : Is(f, m)
    BY <1>2
  <2> DEFINE g == [k \in 0..(m + 1) |-> IF k = m + 1 THEN OooTurn(f[m]) ELSE f[k]]
  <2>2. ASSUME NEW k \in 0..(m + 1)
        PROVE  g[k] = IF k = 0 THEN start ELSE OooTurn(g[k - 1])
    <3>1. CASE k = m + 1
      BY <3>1
    <3>2. CASE k # m + 1
      <4>1. k \in 0..m /\ g[k] = f[k]
        BY <3>2
      <4>2. f[k] = IF k = 0 THEN start ELSE OooTurn(f[k - 1])
        BY <2>1, <4>1
      <4>3. k # 0 => g[k - 1] = f[k - 1]
        BY <4>1
      <4> QED BY <4>1, <4>2, <4>3
    <3> QED BY <3>1, <3>2
  <2>3. Is(g, m + 1)
    BY <2>2
  <2>4. \E h : Is(h, m + 1)
    <3> HIDE DEF Is, g
    <3> QED BY <2>3
  <2> QED BY <2>4
<1>3. \E f : Is(f, n)
  <2> HIDE DEF T
  <2>1. n \in T
    BY <1>1, <1>2, NatUp
  <2> QED BY <2>1 DEF T
<1>4. OooTurns(start, n) = CHOOSE f : Is(f, n)
  BY DEF OooTurns
<1> HIDE DEF Is
<1>5. Is(OooTurns(start, n), n)
  BY <1>3, <1>4
<1> USE DEF Is
<1> DEFINE F == OooTurns(start, n)
<1>6. F = [k \in 0..n |-> IF k = 0 THEN start ELSE OooTurn(F[k - 1])]
  BY <1>5
<1> HIDE DEF F
<1>7. F[0] = start /\ \A k \in 1..n : F[k] = OooTurn(F[k - 1])
  BY <1>6
<1> QED BY <1>7 DEF F

(* The reassembly buffer: every entry is a piece of the stream, filed      *)
(* under the sequence number of its first byte, and its cells are the      *)
(* bytes ooo_size counts.                                                  *)
OooOK(ooo) ==
    /\ ooo = [s \in DOMAIN ooo |-> ooo[s]]
    /\ \A s \in DOMAIN ooo : \E q, e \in 1..(StreamLen + 1) :
          q < e /\ s = SeqAt(q) /\ ooo[s] = Bytes(q, e)
Cells(ooo) ==
    {c \in (0..(SeqSpace - 1)) \X (1..StreamLen) :
        c[1] \in DOMAIN ooo /\ c[2] \in 1..Len(ooo[c[1]])}

(* A turn of try_deliver_ooo_segments that began at position p0 with size  *)
(* bytes held: what it has delivered is the stream from p0 on, and came    *)
(* out of what was held.                                                   *)
TurnOK(st, p0, room, size) ==
    /\ OooOK(st.ooo) /\ st.size = Cardinality(Cells(st.ooo)) /\ st.size <= size
    /\ \E p \in p0..(StreamLen + 1) : st.buf = Bytes(p0, p) /\ st.nxt = SeqAt(p)
    /\ Len(st.buf) + st.size <= room

(* Where the stream stands, and what has been accepted up to there.        *)
StreamAt(p) ==
    /\ conn.rcv_nxt = SeqAt(p + IF conn.fin_recv THEN 1 ELSE 0)
    /\ ~wfailed /\ ~conn.proxy_dead => Accepted = Bytes(1, p)

SegmentOK(seg) ==
    /\ seg.pos \in 1..(StreamLen + 1) /\ seg.len \in Nat
    /\ seg.pos + seg.len <= StreamLen + 1

QueuesAreBytes ==
    /\ {conn.pending, tun.data, chan.bytes, held, written} \subseteq Seq(Int)
    /\ conn.recv_window \in Nat /\ edge \in Int /\ edge <= StreamLen

(* With the proxy attached nothing waits for it, and until the writer is   *)
(* spawned there is none.                                                  *)
ProxyOrder ==
    /\ conn.proxy_tx => conn.pending = <<>>
    /\ pt \in {"syn", "dial", "writer"} => wr = "none"

FlowInv ==
    /\ HoleInv
    /\ QueuesAreBytes /\ ProxyOrder
    /\ SegmentOK(tun.seg) /\ (tun.pc = "admit" => tun.seg.len > 0)
    /\ OooOK(conn.ooo) /\ conn.ooo_size = Cardinality(Cells(conn.ooo))
    /\ HoldingIsKnown
    /\ \E p \in 1..(StreamLen + 1) : StreamAt(p)

(* The cells of one entry of the reassembly buffer, and of all of them.    *)
LEMMA RowCard ==
    ASSUME NEW s, NEW n \in Nat
    PROVE  IsFiniteSet({s} \X (1..n)) /\ Cardinality({s} \X (1..n)) = n
<1>1. IsFiniteSet({s}) /\ Cardinality({s}) = 1
  BY FS_Singleton
<1>2. IsFiniteSet(1..n) /\ Cardinality(1..n) = n
  BY FS_Interval
<1>3. /\ IsFiniteSet({s} \X (1..n))
      /\ Cardinality({s} \X (1..n)) = Cardinality({s}) * Cardinality(1..n)
  BY <1>1, <1>2, FS_Product, Zenon
<1> QED BY <1>1, <1>2, <1>3

LEMMA CellsFinite ==
    ASSUME NEW ooo
    PROVE  IsFiniteSet(Cells(ooo)) /\ Cardinality(Cells(ooo)) \in Nat
<1>1. IsFiniteSet((0..(SeqSpace - 1)) \X (1..StreamLen))
  <2>1. IsFiniteSet(0..(SeqSpace - 1)) /\ IsFiniteSet(1..StreamLen)
    BY FS_Interval, SpaceIsWide
  <2> QED BY <2>1, FS_Product, Zenon
<1>2. Cells(ooo) \in SUBSET ((0..(SeqSpace - 1)) \X (1..StreamLen))
  BY DEF Cells
<1> QED BY <1>1, <1>2, FS_Subset, FS_CardinalityType

(* What an entry is: a piece of the stream from q to e.                    *)
LEMMA Entry ==
    ASSUME NEW ooo, OooOK(ooo), NEW s \in DOMAIN ooo
    PROVE  \E q, e \in 1..(StreamLen + 1) :
              /\ q < e /\ s = SeqAt(q) /\ s \in 0..(SeqSpace - 1)
              /\ ooo[s] = Bytes(q, e) /\ ooo[s] \in Seq(Int)
              /\ Len(ooo[s]) = e - q /\ Len(ooo[s]) \in 1..StreamLen
<1>1. PICK q, e \in 1..(StreamLen + 1) :
             q < e /\ s = SeqAt(q) /\ ooo[s] = Bytes(q, e)
  BY DEF OooOK
<1>2. q \in Positions /\ q \in Int /\ e \in Int /\ q <= e
  BY <1>1, SpaceIsWide DEF Positions
<1>3. s \in 0..(SeqSpace - 1)
  BY <1>1, <1>2, SeqAtPos
<1>4. ooo[s] \in Seq(Int) /\ Len(ooo[s]) = e - q
  BY <1>1, <1>2, BytesType
<1>5. e - q \in 1..StreamLen
  BY <1>1, SpaceIsWide
<1> QED BY <1>1, <1>3, <1>4, <1>5

(* Taking an entry out, and filing a new one.                              *)
LEMMA EntryOut ==
    ASSUME NEW ooo, OooOK(ooo), NEW s \in DOMAIN ooo
    PROVE  LET rest == Restrict(ooo, DOMAIN ooo \ {s})
           IN  /\ OooOK(rest)
               /\ Cardinality(Cells(rest)) = Cardinality(Cells(ooo)) - Len(ooo[s])
<1> DEFINE rest == Restrict(ooo, DOMAIN ooo \ {s})
           row == {s} \X (1..Len(ooo[s]))
<1>1. /\ DOMAIN rest = DOMAIN ooo \ {s}
      /\ \A r \in DOMAIN rest : rest[r] = ooo[r]
      /\ rest = [r \in DOMAIN rest |-> rest[r]]
  BY DEF Restrict
<1>2. OooOK(rest)
  <2> HIDE DEF rest
  <2> QED BY <1>1 DEF OooOK
<1>3. /\ Len(ooo[s]) \in 1..StreamLen /\ s \in 0..(SeqSpace - 1)
      /\ Len(ooo[s]) \in Nat /\ Len(ooo[s]) <= StreamLen
  BY Entry
<1>4. row \subseteq Cells(ooo)
  BY <1>3, SpaceIsWide DEF Cells
<1>5. Cells(rest) = Cells(ooo) \ row
  <2> HIDE DEF rest
  <2> QED BY <1>1, <1>3 DEF Cells
<1>6. Cardinality(row) = Len(ooo[s])
  BY <1>3, RowCard
<1> HIDE DEF row, rest
<1>7. Cells(ooo) \cap row = row
  BY <1>4
<1>8. Cardinality(Cells(rest)) = Cardinality(Cells(ooo)) - Len(ooo[s])
  <2>1. /\ IsFiniteSet(Cells(ooo))
        /\ Cardinality(Cells(ooo) \ row)
              = Cardinality(Cells(ooo)) - Cardinality(Cells(ooo) \cap row)
    BY CellsFinite, FS_Difference, Zenon
  <2> QED BY <1>5, <1>6, <1>7, <2>1
<1> QED BY <1>2, <1>8 DEF rest

LEMMA EntryIn ==
    ASSUME NEW ooo, OooOK(ooo),
           NEW q \in 1..(StreamLen + 1), NEW e \in 1..(StreamLen + 1), q < e,
           SeqAt(q) \notin DOMAIN ooo
    PROVE  LET more == Filed(ooo, SeqAt(q), Bytes(q, e))
           IN  /\ OooOK(more)
               /\ Cardinality(Cells(more)) = Cardinality(Cells(ooo)) + (e - q)
<1> DEFINE s == SeqAt(q)
           more == Filed(ooo, s, Bytes(q, e))
           row == {s} \X (1..(e - q))
<1>1. /\ DOMAIN more = DOMAIN ooo \cup {s}
      /\ \A r \in DOMAIN ooo : more[r] = ooo[r]
      /\ more[s] = Bytes(q, e)
      /\ more = [r \in DOMAIN more |-> more[r]]
  BY DEF Filed
<1>2. /\ s \in 0..(SeqSpace - 1) /\ Len(Bytes(q, e)) = e - q
      /\ e - q \in Nat /\ e - q <= StreamLen
  <2>1. q \in Positions /\ q \in Int /\ e \in Int /\ q <= e
    BY SpaceIsWide DEF Positions
  <2>2. s \in 0..(SeqSpace - 1)
    BY <2>1, SeqAtPos
  <2>3. Len(Bytes(q, e)) = e - q
    BY <2>1, BytesType
  <2> QED BY <2>2, <2>3, SpaceIsWide
<1>3. OooOK(more)
  <2>1. s = SeqAt(q)
    OBVIOUS
  <2> HIDE DEF more, s
  <2> QED BY <1>1, <2>1 DEF OooOK
<1>4. Cells(more) = Cells(ooo) \cup row
  <2>1. s \notin DOMAIN ooo
    OBVIOUS
  <2> HIDE DEF more, s
  <2>2. Len(more[s]) = e - q
    BY <1>1, <1>2
  <2>3. ASSUME NEW c \in Cells(more), c \notin row PROVE c \in Cells(ooo)
    <3>1. /\ c \in (0..(SeqSpace - 1)) \X (1..StreamLen)
          /\ c[1] \in DOMAIN more /\ c[2] \in 1..Len(more[c[1]])
          /\ c = <<c[1], c[2]>>
      BY DEF Cells
    <3>2. c[1] # s
      BY <2>2, <2>3, <3>1
    <3> QED BY <1>1, <3>1, <3>2 DEF Cells
  <2>4. Cells(ooo) \subseteq Cells(more)
    BY <1>1, <1>2, <2>1, <2>2 DEF Cells
  <2>5. ASSUME NEW i \in 1..(e - q) PROVE <<s, i>> \in Cells(more)
    <3>1. i \in 1..StreamLen
      <4>1. i \in Nat /\ 1 <= i /\ i <= e - q
        OBVIOUS
      <4> QED BY <4>1, <1>2, SpaceIsWide
    <3>2. s \in DOMAIN more
      BY <1>1
    <3> QED BY <1>2, <2>2, <3>1, <3>2 DEF Cells
  <2> QED BY <2>3, <2>4, <2>5
<1>5. Cells(ooo) \cap row = {}
  BY DEF Cells
<1>6. IsFiniteSet(row) /\ Cardinality(row) = e - q
  BY <1>2, RowCard
<1> HIDE DEF row, more
<1>7. Cardinality(Cells(more)) = Cardinality(Cells(ooo)) + (e - q)
  BY <1>4, <1>5, <1>6, CellsFinite, FS_Union, FS_EmptySet
<1> QED BY <1>3, <1>7 DEF more

(* The entry OooTurn takes when none starts at rcv_nxt.                    *)
LEMMA MinOfNats ==
    ASSUME NEW T \in SUBSET Nat, T # {}
    PROVE  Min(T) \in T
<1>1. \E n \in T : \A m \in T : n <= m
  BY NatMin
<1> QED BY <1>1 DEF Min

(* seq_after on an end that has not been reduced to the sequence space.    *)
LEMMA EndAfter ==
    ASSUME NEW q \in Positions, NEW e \in Positions, NEW p \in Positions, q <= e,
           seq_after(SeqAt(q) + (e - q), SeqAt(p))
    PROVE  e > p
<1>1. /\ SeqAt(q) \in 0..(SeqSpace - 1) /\ SeqAt(p) \in 0..(SeqSpace - 1)
      /\ e - q \in 0..(StreamLen + 2)
  BY SeqAtPos, SpaceIsWide DEF Positions
<1>2. SeqAt(q) + (e - q) - SeqAt(p) \in (-SeqSpace)..(2 * SeqSpace - 1)
  BY <1>1, SpaceIsWide
<1>3. SeqAt(q) + (e - q) \in {SeqAt(e), SeqAt(e) + SeqSpace}
  BY SeqAtPos, SpaceIsWide DEF Positions
<1>4. (SeqAt(q) + (e - q) - SeqAt(p)) % SeqSpace = (SeqAt(e) - SeqAt(p)) % SeqSpace
  <2>1. /\ SeqAt(e) \in 0..(SeqSpace - 1)
        /\ SeqAt(e) - SeqAt(p) \in (-SeqSpace)..(2 * SeqSpace - 1)
    BY <1>1, SeqAtPos, SpaceIsWide
  <2> QED BY <1>1, <1>2, <1>3, <2>1, ModSmall, SpaceIsWide
<1> DEFINE d == (SeqAt(q) + (e - q) - SeqAt(p)) % SeqSpace
           D == SeqSpace \div 2 - 1
<1>5. d \in 1..D
  BY <1>1, SpaceIsWide DEF seq_after
<1>6. d = IF e >= p THEN e - p ELSE e - p + SeqSpace
  BY <1>4, SeqDistance
<1> HIDE DEF d
<1> QED BY <1>5, <1>6, SpaceIsWide DEF Positions

(* A turn takes one entry that starts at or before rcv_nxt and ends after  *)
(* it: what it adds to the delivery is the stream from where the delivery  *)
(* ended, and no more than the entry held.                                 *)
LEMMA TurnKeeps ==
    ASSUME NEW st, NEW p0 \in 1..(StreamLen + 1), NEW room \in Int, NEW size \in Int,
           TurnOK(st, p0, room, size)
    PROVE  TurnOK(OooTurn(st), p0, room, size)
<1> DEFINE straddling == {s \in DOMAIN st.ooo :
                            /\ seq_before_or_eq(s, st.nxt)
                            /\ seq_after(s + Len(st.ooo[s]), st.nxt)}
           s    == IF st.nxt \in DOMAIN st.ooo THEN st.nxt ELSE Min(straddling)
           tail == SubSeq(st.ooo[s], ((st.nxt - s) % SeqSpace) + 1, Len(st.ooo[s]))
<1>1. CASE straddling = {}
  <2>1. OooTurn(st) = st
    BY <1>1 DEF OooTurn
  <2> QED BY <2>1
<1>2. CASE straddling # {}
  <2>1. PICK p \in p0..(StreamLen + 1) : st.buf = Bytes(p0, p) /\ st.nxt = SeqAt(p)
    BY DEF TurnOK
  <2>2. p \in Positions /\ p0 <= p /\ p \in Int /\ p0 \in Int /\ p \in 1..(StreamLen + 1)
    BY SpaceIsWide DEF Positions
  <2>3. OooOK(st.ooo)
    BY DEF TurnOK
  <2>4. straddling \in SUBSET Nat
    BY <2>3, Entry
  <2>5. s \in DOMAIN st.ooo /\ (s = st.nxt \/ s \in straddling)
    <3>1. Min(straddling) \in straddling
      <4> HIDE DEF straddling
      <4> QED BY <1>2, <2>4, MinOfNats
    <3> QED BY <3>1
  <2>6. PICK q, e \in 1..(StreamLen + 1) :
               /\ q < e /\ s = SeqAt(q) /\ st.ooo[s] = Bytes(q, e)
               /\ Len(st.ooo[s]) = e - q
    <3> HIDE DEF s
    <3> QED BY <2>3, <2>5, Entry
  <2>7. q \in Positions /\ e \in Positions /\ q \in Int /\ e \in Int
    BY SpaceIsWide DEF Positions
  <2>8. q <= p /\ p < e
    <3>1. CASE s = st.nxt
      <4>1. q = p
        BY <2>1, <2>2, <2>6, <2>7, <3>1, SeqDistance
      <4> QED BY <4>1, <2>6, <2>7
    <3>2. CASE s \in straddling
      <4>1. seq_before_or_eq(SeqAt(q), SeqAt(p))
        BY <2>1, <2>6, <3>2
      <4>2. seq_after(SeqAt(q) + (e - q), SeqAt(p))
        BY <2>1, <2>6, <3>2
      <4>3. q <= e
        BY <2>6, <2>7
      <4> QED BY <2>2, <2>7, <4>1, <4>2, <4>3, SeqOrder, EndAfter
    <3> QED BY <2>5, <3>1, <3>2
  <2>9. tail = Bytes(p, e)
    <3>1. (st.nxt - s) % SeqSpace = p - q
      BY <2>1, <2>2, <2>6, <2>7, <2>8, SeqDistance
    <3>2. tail = SubSeq(Bytes(q, e), p - q + 1, Len(Bytes(q, e)))
      BY <2>6, <3>1
    <3>3. p <= e
      BY <2>2, <2>7, <2>8
    <3> QED BY <2>2, <2>7, <2>8, <3>2, <3>3, BytesTail
  <2> DEFINE rest == Restrict(st.ooo, DOMAIN st.ooo \ {s})
  <2>10. OooTurn(st) = [buf  |-> st.buf \o tail,
                        nxt  |-> (st.nxt + Len(tail)) % SeqSpace,
                        ooo  |-> rest,
                        size |-> st.size - Len(st.ooo[s])]
    BY <1>2 DEF OooTurn
  <2> HIDE DEF s, tail, straddling
  <2>11. OooOK(rest) /\ Cardinality(Cells(rest)) = st.size - (e - q)
    BY <2>3, <2>5, <2>6, EntryOut DEF TurnOK
  <2> HIDE DEF rest
  <2>0. p <= e /\ p0 <= e
    BY <2>2, <2>7, <2>8
  <2>12. Len(tail) = e - p /\ Len(st.buf) = p - p0
    BY <2>0, <2>1, <2>2, <2>7, <2>9, BytesType
  <2>13. st.buf \o tail = Bytes(p0, e) /\ Len(Bytes(p0, e)) = e - p0
    <3>1. Bytes(p0, p) \o Bytes(p, e) = Bytes(p0, e)
      BY <2>0, <2>2, <2>7, BytesConcat
    <3>2. Len(Bytes(p0, e)) = e - p0
      BY <2>0, <2>2, <2>7, BytesType
    <3> QED BY <2>1, <2>9, <3>1, <3>2
  <2>14. (st.nxt + Len(tail)) % SeqSpace = SeqAt(e)
    <3>1. e - p \in Nat /\ p + (e - p) = e
      BY <2>2, <2>7, <2>8
    <3> QED BY <2>1, <2>2, <2>7, <2>12, <3>1, SeqForward
  <2>15. st.size \in Nat /\ st.size <= size /\ Len(st.buf) + st.size <= room
    BY CellsFinite DEF TurnOK
  <2>16. e \in p0..(StreamLen + 1)
    BY <2>2, <2>7, <2>8
  <2>17. /\ st.size - (e - q) <= size
         /\ (e - p0) + (st.size - (e - q)) <= room
    BY <2>2, <2>7, <2>8, <2>12, <2>15
  <2> DEFINE next == OooTurn(st)
  <2>18. /\ next.buf = Bytes(p0, e) /\ next.nxt = SeqAt(e) /\ next.ooo = rest
         /\ next.size = st.size - (e - q)
    BY <2>6, <2>10, <2>13, <2>14
  <2> HIDE DEF next
  <2>19. TurnOK(next, p0, room, size)
    BY <2>11, <2>13, <2>16, <2>17, <2>18 DEF TurnOK
  <2> QED BY <2>19 DEF next
<1> QED BY <1>1, <1>2

(* try_deliver_ooo_segments: every turn, so the last one.                  *)
LEMMA Delivered ==
    ASSUME NEW buf, NEW nxt, NEW c, NEW p0 \in 1..(StreamLen + 1), NEW room \in Int,
           TurnOK([buf |-> buf, nxt |-> nxt, ooo |-> c.ooo, size |-> c.ooo_size],
                  p0, room, c.ooo_size)
    PROVE  TurnOK(try_deliver_ooo_segments(buf, nxt, c), p0, room, c.ooo_size)
<1> DEFINE start == [buf |-> buf, nxt |-> nxt, ooo |-> c.ooo, size |-> c.ooo_size]
           n == Cardinality(DOMAIN c.ooo)
           turn == OooTurns(start, n)
           T == {k \in Nat : k <= n => TurnOK(turn[k], p0, room, c.ooo_size)}
<1>0. start.ooo = c.ooo /\ start.size = c.ooo_size
  OBVIOUS
<1> HIDE DEF start
<1>1. n \in Nat /\ c.ooo_size \in Int
  <2>1. OooOK(c.ooo) /\ c.ooo_size = Cardinality(Cells(c.ooo))
    BY <1>0 DEF TurnOK, start
  <2>2. DOMAIN c.ooo \in SUBSET (0..(SeqSpace - 1))
    BY <2>1, Entry
  <2>3. IsFiniteSet(0..(SeqSpace - 1))
    BY SpaceIsWide, FS_Interval
  <2>4. IsFiniteSet(DOMAIN c.ooo)
    BY <2>2, <2>3, FS_Subset, Zenon
  <2> QED BY <2>1, <2>4, FS_CardinalityType, CellsFinite
<1> HIDE DEF n
<1>2. turn[0] = start /\ \A k \in 1..n : turn[k] = OooTurn(turn[k - 1])
  BY <1>1, TurnsExist
<1> HIDE DEF turn
<1>3. 0 \in T
  BY <1>2 DEF start
<1>4. ASSUME NEW k \in Nat, k \in T PROVE k + 1 \in T
  <2>1. CASE k + 1 <= n
    <3>1. k <= n /\ k + 1 \in 1..n /\ (k + 1) - 1 = k
      BY <1>1, <2>1
    <3>2. turn[k + 1] = OooTurn(turn[k])
      BY <1>2, <3>1
    <3>3. TurnOK(turn[k], p0, room, c.ooo_size)
      BY <1>4, <3>1
    <3> QED BY <1>1, <3>2, <3>3, TurnKeeps
  <2>2. CASE ~(k + 1 <= n)
    BY <2>2
  <2> QED BY <2>1, <2>2
<1>5. n \in T
  <2> HIDE DEF T
  <2> QED BY <1>1, <1>3, <1>4, NatUp
<1>6. try_deliver_ooo_segments(buf, nxt, c) = turn[n]
  BY DEF try_deliver_ooo_segments, turn, n, start
<1> QED BY <1>1, <1>5, <1>6

LEMMA JoinAssociative ==
    ASSUME NEW x \in Seq(Int), NEW y \in Seq(Int), NEW z \in Seq(Int)
    PROVE  (x \o y) \o z = x \o (y \o z)
<1>1. PICK v \in Seq(Int) :
        /\ v = x \o y /\ Len(v) = Len(x) + Len(y)
        /\ \A i \in 1..(Len(x) + Len(y)) :
              v[i] = IF i <= Len(x) THEN x[i] ELSE y[i - Len(x)]
  BY Joined
<1>2. PICK w \in Seq(Int) :
        /\ w = y \o z /\ Len(w) = Len(y) + Len(z)
        /\ \A i \in 1..(Len(y) + Len(z)) :
              w[i] = IF i <= Len(y) THEN y[i] ELSE z[i - Len(y)]
  BY Joined
<1>3. PICK l \in Seq(Int) :
        /\ l = v \o z /\ Len(l) = Len(v) + Len(z)
        /\ \A i \in 1..(Len(v) + Len(z)) :
              l[i] = IF i <= Len(v) THEN v[i] ELSE z[i - Len(v)]
  BY Joined
<1>4. PICK r \in Seq(Int) :
        /\ r = x \o w /\ Len(r) = Len(x) + Len(w)
        /\ \A i \in 1..(Len(x) + Len(w)) :
              r[i] = IF i <= Len(x) THEN x[i] ELSE w[i - Len(x)]
  BY Joined
<1>5. Len(x) \in Nat /\ Len(y) \in Nat /\ Len(z) \in Nat
  BY LenProperties
<1>6. Len(l) = Len(r)
  BY <1>1, <1>2, <1>3, <1>4, <1>5
<1>7. ASSUME NEW i \in 1..Len(l) PROVE l[i] = r[i]
  BY <1>1, <1>2, <1>3, <1>4, <1>5, <1>6
<1>8. l = r
  BY <1>6, <1>7, SameSeq
<1> QED BY <1>1, <1>2, <1>3, <1>4, <1>8

(* Bytes handed on by the holder behind: what is in front stays in front.  *)
LEMMA Handed ==
    ASSUME NEW a \in Seq(Int), NEW c \in Seq(Int), NEW d \in Seq(Int)
    PROVE  a \o (c \o d) \o <<>> = a \o c \o d
<1>1. a \o (c \o d) = a \o c \o d
  BY JoinAssociative, Zenon
<1>2. PICK l \in Seq(Int) : l = a \o c \o d
  <2>1. PICK m \in Seq(Int) : m = a \o c
    BY Joined
  <2>2. m \o d \in Seq(Int)
    BY Joined
  <2> QED BY <2>1, <2>2
<1>3. l \o <<>> = l
  BY ConcatEmptySeq
<1> QED BY <1>1, <1>2, <1>3

LEMMA NothingAdded ==
    ASSUME NEW a \in Seq(Int)
    PROVE  a \o <<>> = a /\ <<>> \in Seq(Int)
BY ConcatEmptySeq

(* The window and the client's view of it stay numbers of the stream.      *)
LEMMA WindowType ==
    ASSUME NEW queued \in Nat
    PROVE  WindowFor(queued) \in Nat
<1> DEFINE free == IF queued >= MaxRecvBuffer THEN 0 ELSE MaxRecvBuffer - queued
<1>1. /\ MaxRecvBuffer \in Nat /\ Mss \in Nat /\ Mss > 0 /\ MaxWindow \in Nat
  BY TcpAssumption
<1>2. free \in Nat
  BY <1>1
<1> HIDE DEF free
<1>3. (free \div Mss) * Mss \in Nat
  BY <1>1, <1>2
<1>4. WindowFor(queued) = Min({(free \div Mss) * Mss, MaxWindow})
  BY DEF WindowFor, free
<1>5. {(free \div Mss) * Mss, MaxWindow} \in SUBSET Nat
  BY <1>1, <1>3
<1>6. Min({(free \div Mss) * Mss, MaxWindow}) \in {(free \div Mss) * Mss, MaxWindow}
  BY <1>5, MinOfNats
<1> QED BY <1>4, <1>5, <1>6

LEMMA EdgeKept ==
    ASSUME NEW c, Advertise(c), edge \in Int, c.rcv_nxt \in Int, c.recv_window \in Nat
    PROVE  edge' \in Int /\ edge' <= StreamLen
<1>1. StreamLen \in Int /\ SeqSpace \in Nat /\ SeqSpace > 0 /\ Isn \in Int
  BY SpaceIsWide
<1> DEFINE a == PosOf(c.rcv_nxt) - 1 + c.recv_window
           b == Max({edge, a})
<1>2. a \in Int
  BY <1>1 DEF PosOf
<1> HIDE DEF a
<1>3. b \in Int
  <2>1. \E x \in {edge, a} : \A y \in {edge, a} : x >= y
    BY <1>2
  <2> QED BY <1>2, <2>1 DEF Max
<1> HIDE DEF b
<1>4. Min({StreamLen, b}) \in Int /\ Min({StreamLen, b}) <= StreamLen
  <2>1. \E x \in {StreamLen, b} : \A y \in {StreamLen, b} : x <= y
    BY <1>1, <1>3
  <2>2. /\ Min({StreamLen, b}) \in {StreamLen, b}
        /\ \A y \in {StreamLen, b} : Min({StreamLen, b}) <= y
    BY <2>1 DEF Min
  <2> QED BY <2>2, <1>1, <1>3
<1>5. edge' = Min({StreamLen, b})
  BY DEF Advertise, a, b
<1> QED BY <1>4, <1>5

(* What the invariant says of the types.                                   *)
LEMMA FlowTypes ==
    ASSUME FlowInv
    PROVE  /\ conn.rcv_nxt \in 0..(SeqSpace - 1) /\ conn.rcv_nxt \in Int
           /\ conn.fin_recv \in BOOLEAN
           /\ proxy_inflight \in Nat /\ queued_bytes(conn) \in Nat
           /\ conn.ooo_size \in Nat /\ Len(conn.pending) \in Nat
           /\ {conn.pending, tun.data, chan.bytes, held, written} \subseteq Seq(Int)
           /\ WithWindow(conn).recv_window \in Nat
<1>1. {conn.pending, tun.data, chan.bytes, held, written} \subseteq Seq(Int)
  BY DEF FlowInv, QueuesAreBytes
<1>2. /\ Len(conn.pending) \in Nat /\ Len(tun.data) \in Nat /\ Len(held) \in Nat
      /\ Len(chan.bytes) \in Nat
  BY <1>1, LenProperties
<1>3. proxy_inflight \in Nat
  <2>1. InflightIsExact
    BY DEF FlowInv, HoldingIsKnown
  <2> DEFINE z == IF tun.pc = "send" THEN Len(tun.data) ELSE 0
  <2>2. z \in Nat /\ proxy_inflight = Len(held) + Len(chan.bytes) + z
    BY <1>2, <2>1 DEF InflightIsExact
  <2> HIDE DEF z
  <2> QED BY <1>2, <2>2
<1>4. conn.ooo_size \in Nat
  BY CellsFinite DEF FlowInv
<1>5. queued_bytes(conn) \in Nat
  BY <1>2, <1>3, <1>4 DEF queued_bytes
<1>6. conn.fin_recv \in BOOLEAN
  BY DEF FlowInv, HoleInv
<1>7. conn.rcv_nxt \in 0..(SeqSpace - 1)
  <2>1. PICK p \in 1..(StreamLen + 1) : StreamAt(p)
    BY DEF FlowInv
  <2>2. p \in Positions /\ p + 1 \in Positions /\ p + 0 = p
    BY SpaceIsWide DEF Positions
  <2> QED BY <2>1, <2>2, <1>6, SeqAtPos DEF StreamAt
<1>8. WithWindow(conn).recv_window \in Nat
  BY <1>5, WindowType DEF WithWindow, FlowInv, HoleInv, Fields
<1>9. conn.rcv_nxt \in Int
  BY <1>7, SpaceIsWide
<1> QED BY <1>1, <1>2, <1>3, <1>4, <1>5, <1>6, <1>7, <1>8, <1>9

(* A step that leaves the bytes where they are: it may file a segment,     *)
(* take the FIN, change the window or move the packet thread on.           *)
LEMMA BytesKept ==
    ASSUME FlowInv, HoleInv',
           conn'.pending = conn.pending, conn'.proxy_tx = conn.proxy_tx,
           conn'.proxy_dead = conn.proxy_dead, conn'.recv_window \in Nat,
           edge' \in Int, edge' <= StreamLen,
           OooOK(conn'.ooo), conn'.ooo_size = Cardinality(Cells(conn'.ooo)),
           conn'.ooo_size <= MaxOooSize,
           \/ conn'.rcv_nxt = conn.rcv_nxt /\ conn'.fin_recv = conn.fin_recv
           \/ /\ conn'.rcv_nxt = (conn.rcv_nxt + 1) % SeqSpace
              /\ conn.fin_recv = FALSE /\ conn'.fin_recv = TRUE,
           SegmentOK(tun'.seg), tun'.data \in Seq(Int),
           tun'.pc = "admit" => tun'.seg.len > 0,
           tun.pc = "send" <=> tun'.pc = "send",
           tun.pc = "send" => tun'.data = tun.data,
           UNCHANGED <<proxy_inflight, chan, wr, held, written, wfailed>>,
           pt' \in {"syn", "dial", "writer"} => pt \in {"syn", "dial", "writer"}
    PROVE  FlowInv'
<1>1. QueuesAreBytes'
  BY DEF FlowInv, QueuesAreBytes
<1>2. ProxyOrder'
  BY DEF FlowInv, ProxyOrder
<1>3. HoldingIsKnown'
  BY DEF FlowInv, HoldingIsKnown, InflightIsExact, QueueIsBounded
<1>4. Accepted' = Accepted
  BY DEF Accepted
<1>5. \E p \in 1..(StreamLen + 1) : StreamAt(p)'
  <2>1. PICK p \in 1..(StreamLen + 1) : StreamAt(p)
    BY DEF FlowInv
  <2>2. p \in Positions /\ p + 1 \in Positions /\ p + 0 = p
    BY SpaceIsWide DEF Positions
  <2>3. (SeqAt(p) + 1) % SeqSpace = SeqAt(p + 1)
    BY <2>2, SeqForward
  <2>4. StreamAt(p)'
    BY <1>4, <2>1, <2>2, <2>3 DEF StreamAt
  <2> QED BY <2>4
<1> QED BY <1>1, <1>2, <1>3, <1>5 DEF FlowInv

(* Leaving on_established with c, for a segment that carries a FIN or not. *)
LEMMA AnswerKeeps ==
    ASSUME FlowInv, HoleInv', NEW c, NEW seg, Answer(c, seg),
           c = [f \in Fields |-> c[f]],
           c.pending = conn.pending, c.proxy_tx = conn.proxy_tx,
           c.proxy_dead = conn.proxy_dead, c.recv_window \in Nat,
           c.rcv_nxt = conn.rcv_nxt, c.fin_recv = conn.fin_recv,
           conn.fin_recv = FALSE,
           OooOK(c.ooo), c.ooo_size = Cardinality(Cells(c.ooo)),
           c.ooo_size <= MaxOooSize, tun.pc # "send",
           UNCHANGED <<proxy_inflight, chan, wr, held, written, wfailed, pt>>
    PROVE  FlowInv'
<1> DEFINE d == IF seg.fin THEN FinAccepted(c) ELSE c
<1>1. conn' = d /\ Advertise(d) /\ tun' = Idle
  BY DEF Answer
<1>2. /\ d.pending = c.pending /\ d.proxy_tx = c.proxy_tx
      /\ d.proxy_dead = c.proxy_dead /\ d.recv_window = c.recv_window
      /\ d.ooo = c.ooo /\ d.ooo_size = c.ooo_size
      /\ \/ d.rcv_nxt = c.rcv_nxt /\ d.fin_recv = c.fin_recv
         \/ d.rcv_nxt = (c.rcv_nxt + 1) % SeqSpace /\ d.fin_recv = TRUE
  BY DEF FinAccepted, Fields
<1>3. d.rcv_nxt \in Int
  <2>1. c.rcv_nxt \in Int
    BY FlowTypes
  <2>2. (c.rcv_nxt + 1) % SeqSpace \in Int
    BY <2>1, SpaceIsWide
  <2> QED BY <1>2, <2>1, <2>2
<1> HIDE DEF d
<1>4. edge' \in Int /\ edge' <= StreamLen
  BY <1>1, <1>2, <1>3, EdgeKept DEF FlowInv, QueuesAreBytes
<1>5. SegmentOK(tun'.seg) /\ tun'.data \in Seq(Int) /\ tun'.pc = "idle"
  <2>1. tun'.seg = NoSegment /\ tun'.data = <<>> /\ tun'.pc = "idle"
    BY <1>1 DEF Idle
  <2>2. <<>> \in Seq(Int)
    OBVIOUS
  <2> QED BY <2>1, <2>2, SpaceIsWide DEF NoSegment, SegmentOK
<1> QED BY <1>1, <1>2, <1>4, <1>5, BytesKept

(* One lemma for each step of the flow that touches its bytes.             *)
LEMMA PacketKeeps ==
    ASSUME FlowInv, HoleInv', NEW seg \in Segments, Packet(seg)
    PROVE  FlowInv'
<1>1. /\ tun.pc = "idle" /\ conn = [f \in Fields |-> conn[f]]
      /\ conn.recv_window \in Nat /\ edge \in Int /\ edge <= StreamLen
      /\ SegmentOK(tun.seg) /\ tun.data \in Seq(Int)
      /\ tun.pc = "admit" => tun.seg.len > 0
      /\ OooOK(conn.ooo) /\ conn.ooo_size = Cardinality(Cells(conn.ooo))
      /\ conn.ooo_size <= MaxOooSize
  BY DEF Packet, FlowInv, HoleInv, QueuesAreBytes, HoldingIsKnown, QueueIsBounded
<1>2. UNCHANGED <<proxy_inflight, chan, wr, held, written, wfailed, pt>>
  BY DEF Packet, proxyVars, wireVars, writeVars
<1>3. SegmentOK(seg)
  <2>1. /\ seg.pos \in 1..(StreamLen + 1) /\ seg.len \in 0..MaxSeg
        /\ \/ seg.pos + seg.len - 1 <= edge
           \/ seg.pos = edge + 1 /\ seg.len = 1 /\ seg.pos <= StreamLen
    BY DEF Segments
  <2>2. seg.len \in Nat /\ seg.pos \in Nat
    BY <2>1, SpaceIsWide
  <2>3. edge \in Int /\ edge <= StreamLen /\ StreamLen \in Int
    BY <1>1, SpaceIsWide
  <2>4. seg.pos + seg.len <= StreamLen + 1
    <3> DEFINE a == seg.pos
               b == seg.len
    <3>1. a \in Nat /\ b \in Nat /\ (a + b - 1 <= edge \/ (b = 1 /\ a <= StreamLen))
      BY <2>1, <2>2
    <3> HIDE DEF a, b
    <3>2. a + b <= StreamLen + 1
      BY <2>3, <3>1
    <3> QED BY <3>2 DEF a, b
  <2> QED BY <2>1, <2>2, <2>4 DEF SegmentOK
<1>4. ASSUME UNCHANGED <<edge, tun>>, NEW c, c = [f \in Fields |-> c[f]],
             c.recv_window \in Nat,
             \A f \in Fields \ {"snd_una", "recv_window", "state"} : c[f] = conn[f],
             conn' = c
      PROVE  FlowInv'
  <2>1. /\ conn'.pending = conn.pending /\ conn'.proxy_tx = conn.proxy_tx
        /\ conn'.proxy_dead = conn.proxy_dead /\ conn'.recv_window \in Nat
        /\ conn'.ooo = conn.ooo /\ conn'.ooo_size = conn.ooo_size
        /\ conn'.rcv_nxt = conn.rcv_nxt /\ conn'.fin_recv = conn.fin_recv
    BY <1>4 DEF Fields
  <2> QED BY <1>1, <1>2, <1>4, <2>1, BytesKept
<1>5. CASE conn.state = "SynReceived" /\ on_syn_recv(seg)
  <2>1. CASE valid_ack(seg.ack)
    <3> DEFINE c == [conn EXCEPT !.snd_una = seg.ack, !.state = "Established"]
    <3>1. conn' = c /\ UNCHANGED <<edge, tun>>
      BY <1>5, <2>1 DEF on_syn_recv
    <3>2. /\ c = [f \in Fields |-> c[f]] /\ c.recv_window \in Nat
          /\ \A f \in Fields \ {"snd_una", "recv_window", "state"} : c[f] = conn[f]
      BY <1>1 DEF Fields
    <3> HIDE DEF c
    <3> QED BY <1>4, <3>1, <3>2
  <2>2. CASE ~valid_ack(seg.ack)
    BY <1>1, <1>4, <1>5, <2>2 DEF on_syn_recv
  <2> QED BY <2>1, <2>2
<1>6. CASE conn.state = "LastAck" /\ on_last_ack(seg)
  <2>1. CASE valid_ack(seg.ack)
    <3> DEFINE c == [conn EXCEPT !.state = "Closed"]
    <3>1. conn' = c /\ UNCHANGED <<edge, tun>>
      BY <1>6, <2>1 DEF on_last_ack
    <3>2. /\ c = [f \in Fields |-> c[f]] /\ c.recv_window \in Nat
          /\ \A f \in Fields \ {"snd_una", "recv_window", "state"} : c[f] = conn[f]
      BY <1>1 DEF Fields
    <3> HIDE DEF c
    <3> QED BY <1>4, <3>1, <3>2
  <2>2. CASE ~valid_ack(seg.ack)
    BY <1>1, <1>4, <1>6, <2>2 DEF on_last_ack
  <2> QED BY <2>1, <2>2
<1>7. CASE conn.state = "Established" /\ on_established(seg)
  <2> DEFINE c == Acked(seg)
             w == WithWindow(c)
  <2>1. /\ c = [f \in Fields |-> c[f]]
        /\ \A f \in Fields \ {"snd_una"} : c[f] = conn[f]
    BY AckedKeeps DEF FlowInv
  <2>2. /\ c.pending = conn.pending /\ c.proxy_tx = conn.proxy_tx
        /\ c.proxy_dead = conn.proxy_dead /\ c.recv_window = conn.recv_window
        /\ c.ooo = conn.ooo /\ c.ooo_size = conn.ooo_size
        /\ c.rcv_nxt = conn.rcv_nxt /\ c.fin_recv = conn.fin_recv
        /\ conn.fin_recv = FALSE
    BY <1>7, <2>1 DEF Fields, FlowInv, HoleInv
  <2> HIDE DEF c
  <2>3. WindowFor(queued_bytes(c)) \in Nat
    <3>1. queued_bytes(c) = queued_bytes(conn)
      BY <2>2 DEF queued_bytes
    <3> QED BY <3>1, FlowTypes, WindowType
  <2>4. /\ w = [f \in Fields |-> w[f]] /\ w.recv_window \in Nat
        /\ \A f \in Fields \ {"recv_window"} : w[f] = c[f]
    BY <2>1, <2>3 DEF WithWindow, Fields
  <2>5. \A f \in Fields \ {"snd_una", "recv_window", "state"} : w[f] = conn[f]
    BY <2>1, <2>4
  <2> HIDE DEF w
  <2>6. CASE /\ conn' = w /\ UNCHANGED edge /\ seg.len > 0
             /\ tun' = [pc |-> "admit", seg |-> seg, data |-> <<>>]
    <3>1. /\ conn'.pending = conn.pending /\ conn'.proxy_tx = conn.proxy_tx
          /\ conn'.proxy_dead = conn.proxy_dead /\ conn'.recv_window \in Nat
          /\ conn'.ooo = conn.ooo /\ conn'.ooo_size = conn.ooo_size
          /\ conn'.rcv_nxt = conn.rcv_nxt /\ conn'.fin_recv = conn.fin_recv
      BY <2>4, <2>5, <2>6 DEF Fields
    <3>2. tun'.seg = seg /\ tun'.data \in Seq(Int) /\ tun'.pc = "admit"
      BY <2>6
    <3> QED BY <1>1, <1>2, <1>3, <2>6, <3>1, <3>2, BytesKept
  <2>7. CASE conn' = [c EXCEPT !.state = "Closed"] /\ UNCHANGED <<edge, tun>>
    <3> DEFINE d == [c EXCEPT !.state = "Closed"]
    <3>1. /\ d = [f \in Fields |-> d[f]] /\ d.recv_window \in Nat
          /\ \A f \in Fields \ {"snd_una", "recv_window", "state"} : d[f] = conn[f]
      BY <1>1, <2>1, <2>2 DEF Fields
    <3>2. conn' = d
      BY <2>7
    <3> HIDE DEF d
    <3> QED BY <1>4, <2>7, <3>1, <3>2
  <2>8. CASE Answer(c, seg)
    BY <1>1, <1>2, <2>1, <2>2, <2>8, AnswerKeeps
  <2>9. CASE conn' = w /\ UNCHANGED tun /\ (Advertise(w) \/ UNCHANGED edge)
    <3>1. edge' \in Int /\ edge' <= StreamLen
      <4>1. CASE Advertise(w)
        <5>1. w.rcv_nxt \in Int
          BY <2>5, FlowTypes DEF Fields
        <5> QED BY <1>1, <2>4, <4>1, <5>1, EdgeKept
      <4> QED BY <1>1, <2>9, <4>1
    <3>2. /\ conn'.pending = conn.pending /\ conn'.proxy_tx = conn.proxy_tx
          /\ conn'.proxy_dead = conn.proxy_dead /\ conn'.recv_window \in Nat
          /\ conn'.ooo = conn.ooo /\ conn'.ooo_size = conn.ooo_size
          /\ conn'.rcv_nxt = conn.rcv_nxt /\ conn'.fin_recv = conn.fin_recv
      BY <2>4, <2>5, <2>9 DEF Fields
    <3> QED BY <1>1, <1>2, <2>9, <3>1, <3>2, BytesKept
  <2> QED BY <1>7, <2>6, <2>7, <2>8, <2>9 DEF on_established, c, w
<1> QED BY <1>5, <1>6, <1>7 DEF Packet

(* What process_data accepts of a segment that reaches beyond rcv_nxt.     *)
LEMMA NewIsStream ==
    ASSUME NEW seg, SegmentOK(seg), NEW p \in 1..(StreamLen + 1),
           conn.rcv_nxt = SeqAt(p),
           seq_before_or_eq(SeqAt(seg.pos), conn.rcv_nxt),
           seq_after(SeqAt(seg.pos + seg.len), conn.rcv_nxt)
    PROVE  \E e \in 1..(StreamLen + 1) :
              /\ p < e /\ NewBytes(seg) = Bytes(p, e) /\ Len(NewBytes(seg)) = e - p
              /\ (conn.rcv_nxt + Len(NewBytes(seg))) % SeqSpace = SeqAt(e)
<1> DEFINE a == seg.pos
           e == seg.pos + seg.len
<1>1. a \in 1..(StreamLen + 1) /\ seg.len \in Nat /\ a + seg.len <= StreamLen + 1
  BY DEF SegmentOK
<1>2. /\ a \in Positions /\ e \in Positions /\ p \in Positions
      /\ a \in Int /\ e \in Int /\ p \in Int /\ e \in 1..(StreamLen + 1)
      /\ e - a = seg.len /\ a <= e
  BY <1>1, SpaceIsWide DEF Positions
<1>3. seq_before_or_eq(SeqAt(a), SeqAt(p)) /\ seq_after(SeqAt(e), SeqAt(p))
  OBVIOUS
<1> HIDE DEF a, e
<1>4. a <= p /\ p < e
  BY <1>2, <1>3, SeqOrder
<1>5. (conn.rcv_nxt - SeqAt(a)) % SeqSpace = p - a
  BY <1>2, <1>4, SeqDistance
<1>6. Payload(seg) = Bytes(a, e)
  BY <1>2 DEF Payload, Bytes, a
<1>7. NewBytes(seg) = SubSeq(Bytes(a, e), p - a + 1, Len(Bytes(a, e)))
  <2>1. Len(Bytes(a, e)) = seg.len
    BY <1>2, BytesType
  <2>2. NewBytes(seg) = SubSeq(Payload(seg), ((conn.rcv_nxt - SeqAt(a)) % SeqSpace) + 1,
                               seg.len)
    BY DEF NewBytes, a
  <2> QED BY <1>5, <1>6, <2>1, <2>2
<1>8. NewBytes(seg) = Bytes(p, e)
  <2>1. p <= e
    BY <1>2, <1>4
  <2> QED BY <1>2, <1>4, <1>7, <2>1, BytesTail
<1>9. Len(NewBytes(seg)) = e - p
  <2>1. p <= e
    BY <1>2, <1>4
  <2> QED BY <1>2, <1>8, <2>1, BytesType
<1>10. (SeqAt(p) + (e - p)) % SeqSpace = SeqAt(e)
  <2>1. e - p \in Nat /\ p + (e - p) = e
    BY <1>2, <1>4
  <2> QED BY <1>2, <2>1, SeqForward
<1> QED BY <1>2, <1>4, <1>8, <1>9, <1>10

(* Filing a segment ahead of a gap.                                        *)
LEMMA BufferedKeeps ==
    ASSUME FlowInv, NEW seg, SegmentOK(seg), NEW p \in 1..(StreamLen + 1),
           conn.rcv_nxt = SeqAt(p), seg.len > 0
    PROVE  LET b == Buffered(seg, conn)
           IN  /\ b = [f \in Fields |-> b[f]]
               /\ \A f \in Fields \ {"ooo", "ooo_size"} : b[f] = conn[f]
               /\ OooOK(b.ooo) /\ b.ooo_size = Cardinality(Cells(b.ooo))
               /\ b.ooo_size <= MaxOooSize
<1> DEFINE a == seg.pos
           e == seg.pos + seg.len
           b == Buffered(seg, conn)
           more == Filed(conn.ooo, SeqAt(a), Payload(seg))
<1>1. /\ conn = [f \in Fields |-> conn[f]]
      /\ OooOK(conn.ooo) /\ conn.ooo_size = Cardinality(Cells(conn.ooo))
      /\ conn.ooo_size <= MaxOooSize
  BY DEF FlowInv, HoleInv, HoldingIsKnown, QueueIsBounded
<1>2. CASE conn.ooo_size + seg.len <= MaxOooSize /\ SeqAt(a) \notin DOMAIN conn.ooo
  <2>1. b = [conn EXCEPT !.ooo = more, !.ooo_size = @ + seg.len]
    BY <1>2 DEF Buffered
  <2> HIDE DEF more
  <2>2. /\ b = [f \in Fields |-> b[f]]
        /\ \A f \in Fields \ {"ooo", "ooo_size"} : b[f] = conn[f]
        /\ b.ooo = more /\ b.ooo_size = conn.ooo_size + seg.len
    BY <1>1, <2>1 DEF Fields
  <2>3. /\ a \in 1..(StreamLen + 1) /\ e \in 1..(StreamLen + 1) /\ a < e
        /\ e - a = seg.len
    BY SpaceIsWide DEF SegmentOK
  <2>4. Payload(seg) = Bytes(a, e)
    BY <2>3 DEF Payload, Bytes
  <2>5. OooOK(more) /\ Cardinality(Cells(more)) = Cardinality(Cells(conn.ooo)) + (e - a)
    <3> HIDE DEF a, e
    <3> QED BY <1>1, <1>2, <2>3, <2>4, EntryIn DEF more
  <2> HIDE DEF b
  <2>6. b.ooo_size = Cardinality(Cells(more)) /\ b.ooo_size <= MaxOooSize
    BY <1>1, <1>2, <2>2, <2>3, <2>5
  <2> QED BY <2>2, <2>5, <2>6 DEF b
<1>3. CASE ~(conn.ooo_size + seg.len <= MaxOooSize /\ SeqAt(a) \notin DOMAIN conn.ooo)
  <2>1. b = conn
    BY <1>3 DEF Buffered
  <2> QED BY <1>1, <2>1
<1> QED BY <1>2, <1>3

LEMMA AdmitKeeps ==
    ASSUME FlowInv, HoleInv', Admit
    PROVE  FlowInv'
<1> DEFINE seg == tun.seg
           new == NewBytes(seg)
           t == Taken(new)
<1>1. /\ tun.pc = "admit" /\ conn = [f \in Fields |-> conn[f]]
      /\ conn.fin_recv = FALSE
      /\ conn.recv_window \in Nat /\ edge \in Int /\ edge <= StreamLen
      /\ SegmentOK(seg) /\ seg.len > 0 /\ tun.data \in Seq(Int)
      /\ OooOK(conn.ooo) /\ conn.ooo_size = Cardinality(Cells(conn.ooo))
      /\ conn.ooo_size <= MaxOooSize
      /\ tun = [f \in {"pc", "seg", "data"} |-> tun[f]]
  BY DEF Admit, FlowInv, HoleInv, QueuesAreBytes, HoldingIsKnown, QueueIsBounded
<1>2. UNCHANGED <<proxy_alive, chan, wr, held, written, wfailed, pt>>
  BY DEF Admit, proxyVars, writeVars
<1>3. PICK p \in 1..(StreamLen + 1) : StreamAt(p)
  BY DEF FlowInv
<1>4. /\ conn.rcv_nxt = SeqAt(p) /\ p \in Positions /\ p \in Int
      /\ ~wfailed /\ ~conn.proxy_dead => Accepted = Bytes(1, p)
  <2>1. p + 0 = p /\ p \in Positions /\ p \in Int
    BY SpaceIsWide DEF Positions
  <2> QED BY <1>1, <1>3, <2>1 DEF StreamAt
<1>5. CASE Answer(conn, seg) /\ UNCHANGED proxy_inflight
  BY <1>1, <1>2, <1>5, AnswerKeeps
<1>6. CASE /\ seq_after(SeqAt(seg.pos), conn.rcv_nxt)
           /\ Answer(Buffered(seg, conn), seg) /\ UNCHANGED proxy_inflight
  <2> DEFINE b == Buffered(seg, conn)
  <2>1. /\ b = [f \in Fields |-> b[f]]
        /\ \A f \in Fields \ {"ooo", "ooo_size"} : b[f] = conn[f]
        /\ OooOK(b.ooo) /\ b.ooo_size = Cardinality(Cells(b.ooo))
        /\ b.ooo_size <= MaxOooSize
    <3> HIDE DEF seg
    <3> QED BY <1>1, <1>4, BufferedKeeps
  <2>2. Answer(b, seg)
    BY <1>6
  <2> HIDE DEF b, seg
  <2>3. /\ b.pending = conn.pending /\ b.proxy_tx = conn.proxy_tx
        /\ b.proxy_dead = conn.proxy_dead /\ b.recv_window \in Nat
        /\ b.rcv_nxt = conn.rcv_nxt /\ b.fin_recv = conn.fin_recv
    BY <1>1, <2>1 DEF Fields
  <2> QED BY <1>1, <1>2, <1>6, <2>1, <2>2, <2>3, AnswerKeeps
<1>7. CASE /\ seq_before_or_eq(SeqAt(seg.pos), conn.rcv_nxt)
           /\ seq_after(SeqAt(seg.pos + seg.len), conn.rcv_nxt)
           /\ has_room_for(conn, Len(new))
           /\ UNCHANGED edge
           /\ LET c == [conn EXCEPT !.rcv_nxt = t.nxt, !.ooo = t.ooo,
                                    !.ooo_size = t.size]
              IN \/ /\ conn.proxy_tx
                    /\ proxy_inflight' = proxy_inflight + Len(t.buf)
                    /\ conn' = c
                    /\ tun' = [tun EXCEPT !.pc = "send", !.data = t.buf]
                 \/ /\ ~conn.proxy_tx
                    /\ conn' = [c EXCEPT !.pending = @ \o t.buf]
                    /\ tun' = [tun EXCEPT !.pc = "ack"]
                    /\ UNCHANGED proxy_inflight
  <2>1. PICK e \in 1..(StreamLen + 1) :
              /\ p < e /\ new = Bytes(p, e) /\ Len(new) = e - p
              /\ (conn.rcv_nxt + Len(new)) % SeqSpace = SeqAt(e)
    <3> HIDE DEF seg
    <3> QED BY <1>1, <1>4, <1>7, NewIsStream
  <2> DEFINE room == MaxRecvBuffer - Len(conn.pending) - proxy_inflight
  <2>2. /\ room \in Int /\ Len(new) + conn.ooo_size <= room
        /\ Len(conn.pending) \in Nat /\ proxy_inflight \in Nat
        /\ conn.ooo_size \in Nat /\ conn.pending \in Seq(Int)
        /\ MaxRecvBuffer \in Int
    <3>1. queued_bytes(conn) + Len(new) <= MaxRecvBuffer
      BY <1>7 DEF has_room_for
    <3>2. /\ Len(conn.pending) \in Nat /\ proxy_inflight \in Nat
          /\ conn.ooo_size \in Nat /\ MaxRecvBuffer \in Nat /\ Len(new) \in Int
          /\ conn.pending \in Seq(Int)
      BY <2>1, FlowTypes, SpaceIsWide
    <3> HIDE DEF new
    <3> QED BY <3>1, <3>2 DEF queued_bytes
  <2> DEFINE nxt == (conn.rcv_nxt + Len(new)) % SeqSpace
  <2>3. TurnOK([buf |-> new, nxt |-> nxt, ooo |-> conn.ooo, size |-> conn.ooo_size],
               p, room, conn.ooo_size)
    <3>1. e \in p..(StreamLen + 1)
      BY <1>4, <2>1
    <3>2. nxt = SeqAt(e)
      BY <2>1
    <3> DEFINE st == [buf |-> new, nxt |-> nxt, ooo |-> conn.ooo, size |-> conn.ooo_size]
    <3> HIDE DEF new, room, nxt
    <3>3. /\ st.buf = new /\ st.nxt = nxt /\ st.ooo = conn.ooo
          /\ st.size = conn.ooo_size /\ conn.ooo_size <= conn.ooo_size
      BY <2>2
    <3> HIDE DEF st
    <3>4. TurnOK(st, p, room, conn.ooo_size)
      BY <1>1, <2>1, <2>2, <3>1, <3>2, <3>3 DEF TurnOK
    <3> QED BY <3>4 DEF st
  <2>4. t = try_deliver_ooo_segments(new, nxt, conn)
    BY DEF Taken
  <2> HIDE DEF new, nxt, room, seg, t
  <2>5. TurnOK(t, p, room, conn.ooo_size)
    BY <1>4, <2>2, <2>3, <2>4, Delivered
  <2>6. PICK q \in p..(StreamLen + 1) : t.buf = Bytes(p, q) /\ t.nxt = SeqAt(q)
    BY <2>5 DEF TurnOK
  <2>7. /\ OooOK(t.ooo) /\ t.size = Cardinality(Cells(t.ooo)) /\ t.size \in Nat
        /\ t.size <= MaxOooSize /\ Len(t.buf) <= room
        /\ t.buf \in Seq(Int) /\ Len(t.buf) = q - p /\ Len(t.buf) \in Nat
    <3>1. OooOK(t.ooo) /\ t.size = Cardinality(Cells(t.ooo)) /\ t.size \in Nat
      BY <2>5, CellsFinite DEF TurnOK
    <3>2. /\ q \in Int /\ p <= q /\ t.buf \in Seq(Int) /\ Len(t.buf) = q - p
          /\ Len(t.buf) \in Nat
      <4>1. q \in Int /\ p <= q /\ q - p \in Nat
        BY <1>4
      <4>2. Bytes(p, q) \in Seq(Int) /\ Len(Bytes(p, q)) = q - p
        BY <1>4, <4>1, BytesType
      <4> QED BY <2>6, <4>1, <4>2
    <3>3. t.size <= conn.ooo_size /\ Len(t.buf) + t.size <= room
      BY <2>5 DEF TurnOK
    <3>4. t.size <= MaxOooSize
      <4>1. conn.ooo_size <= MaxOooSize /\ MaxOooSize \in Nat
        BY <1>1, SpaceIsWide
      <4> QED BY <2>2, <3>1, <3>3, <4>1
    <3>5. Len(t.buf) <= room
      BY <2>2, <3>1, <3>2, <3>3
    <3> QED BY <3>1, <3>2, <3>4, <3>5
  <2>8. q \in 1..(StreamLen + 1) /\ q \in Positions /\ q + 0 = q /\ q \in Int /\ p <= q
        /\ 1 <= p
    BY <1>4, SpaceIsWide DEF Positions
  <2>9. Bytes(1, p) \o t.buf = Bytes(1, q)
    <3>1. Bytes(1, p) \o Bytes(p, q) = Bytes(1, q)
      BY <1>4, <2>8, BytesConcat
    <3> QED BY <2>6, <3>1
  <2>10. /\ conn'.rcv_nxt = t.nxt /\ conn'.ooo = t.ooo /\ conn'.ooo_size = t.size
         /\ conn'.fin_recv = FALSE /\ conn'.proxy_tx = conn.proxy_tx
         /\ conn'.proxy_dead = conn.proxy_dead /\ conn'.recv_window = conn.recv_window
         /\ tun'.seg = tun.seg
    BY <1>1, <1>7 DEF Fields
  <2> DEFINE X == IF wr = "drop" THEN <<>> ELSE held
             A == written \o X \o chan.bytes
  <2>11. /\ X \in Seq(Int) /\ chan.bytes \in Seq(Int) /\ written \in Seq(Int)
         /\ held \in Seq(Int)
    BY FlowTypes
  <2>12. /\ QueuesAreBytes' /\ ProxyOrder' /\ HoldingIsKnown'
         /\ Accepted' = Accepted \o t.buf
    <3>1. CASE /\ conn.proxy_tx
               /\ proxy_inflight' = proxy_inflight + Len(t.buf)
               /\ conn'.pending = conn.pending
               /\ tun'.pc = "send" /\ tun'.data = t.buf
      <4>1. conn.pending = <<>> /\ conn'.pending = <<>>
        BY <3>1 DEF FlowInv, ProxyOrder
      <4>2. QueuesAreBytes'
        <5>1. /\ conn'.pending \in Seq(Int) /\ tun'.data \in Seq(Int)
              /\ chan'.bytes \in Seq(Int) /\ held' \in Seq(Int) /\ written' \in Seq(Int)
          BY <1>2, <2>7, <2>11, <3>1, <4>1
        <5>2. conn'.recv_window \in Nat /\ edge' \in Int /\ edge' <= StreamLen
          BY <1>1, <1>7, <2>10
        <5> QED BY <5>1, <5>2 DEF QueuesAreBytes
      <4>3. ProxyOrder'
        BY <1>2, <4>1 DEF FlowInv, ProxyOrder
      <4>4. InflightIsExact'
        <5>1. proxy_inflight = Len(held) + Len(chan.bytes)
          <6>1. /\ proxy_inflight = Len(held) + Len(chan.bytes) + 0
                /\ Len(held) \in Nat /\ Len(chan.bytes) \in Nat
            BY <1>1, <2>11, LenProperties
            DEF FlowInv, HoldingIsKnown, InflightIsExact
          <6> QED BY <6>1
        <5> QED BY <1>2, <3>1, <5>1 DEF InflightIsExact
      <4>5. QueueIsBounded'
        <5>1. Len(conn.pending) + (proxy_inflight + Len(t.buf)) <= MaxRecvBuffer
          <6> DEFINE x == Len(conn.pending)
                     y == Len(t.buf)
          <6>1. /\ x \in Nat /\ y \in Nat /\ proxy_inflight \in Nat
                /\ MaxRecvBuffer \in Int
                /\ y <= MaxRecvBuffer - x - proxy_inflight
            BY <2>2, <2>7 DEF room
          <6> HIDE DEF x, y
          <6>2. x + (proxy_inflight + y) <= MaxRecvBuffer /\ x + y + proxy_inflight <= MaxRecvBuffer
            BY <6>1
          <6> QED BY <6>2 DEF x, y
        <5> QED BY <2>7, <2>10, <3>1, <5>1 DEF QueueIsBounded
      <4>6. Accepted' = Accepted \o t.buf
        <5>1. Accepted = A \o <<>> \o <<>>
          BY <1>1, <4>1 DEF Accepted
        <5>2. Accepted' = A \o t.buf \o <<>>
          BY <1>2, <3>1, <4>1 DEF Accepted
        <5> HIDE DEF X
        <5>3. A \in Seq(Int)
          BY <2>11, Joined
        <5> HIDE DEF A
        <5>4. A \o <<>> = A /\ A \o t.buf \in Seq(Int)
          BY <2>7, <5>3, Joined, NothingAdded
        <5>5. A \o t.buf \o <<>> = A \o t.buf
          BY <5>4, NothingAdded
        <5> QED BY <5>1, <5>2, <5>4, <5>5
      <4> QED BY <4>2, <4>3, <4>4, <4>5, <4>6 DEF HoldingIsKnown
    <3>2. CASE /\ ~conn.proxy_tx /\ UNCHANGED proxy_inflight
               /\ conn'.pending = conn.pending \o t.buf
               /\ tun'.pc = "ack" /\ tun'.data = tun.data
      <4>1. /\ conn'.pending \in Seq(Int)
            /\ Len(conn'.pending) = Len(conn.pending) + Len(t.buf)
        BY <2>2, <2>7, <3>2, Joined
      <4>2. QueuesAreBytes'
        BY <1>1, <1>2, <1>7, <2>10, <2>11, <3>2, <4>1 DEF QueuesAreBytes
      <4>3. ProxyOrder'
        BY <1>2, <2>10, <3>2 DEF FlowInv, ProxyOrder
      <4>4. InflightIsExact'
        BY <1>1, <1>2, <3>2 DEF FlowInv, HoldingIsKnown, InflightIsExact
      <4>5. QueueIsBounded'
        <5>1. Len(conn.pending) + Len(t.buf) + proxy_inflight <= MaxRecvBuffer
          <6> DEFINE x == Len(conn.pending)
                     y == Len(t.buf)
          <6>1. /\ x \in Nat /\ y \in Nat /\ proxy_inflight \in Nat
                /\ MaxRecvBuffer \in Int
                /\ y <= MaxRecvBuffer - x - proxy_inflight
            BY <2>2, <2>7 DEF room
          <6> HIDE DEF x, y
          <6>2. x + (proxy_inflight + y) <= MaxRecvBuffer /\ x + y + proxy_inflight <= MaxRecvBuffer
            BY <6>1
          <6> QED BY <6>2 DEF x, y
        <5> QED BY <2>7, <2>10, <3>2, <4>1, <5>1 DEF QueueIsBounded
      <4>6. Accepted' = Accepted \o t.buf
        <5>1. Accepted = A \o <<>> \o conn.pending
          BY <1>1 DEF Accepted
        <5>2. Accepted' = A \o <<>> \o (conn.pending \o t.buf)
          BY <1>2, <3>2 DEF Accepted
        <5> HIDE DEF X
        <5>3. A \o <<>> \in Seq(Int)
          <6>1. A \in Seq(Int)
            BY <2>11, Joined
          <6> HIDE DEF A
          <6>2. <<>> \in Seq(Int)
            OBVIOUS
          <6> QED BY <6>1, <6>2, Joined
        <5> DEFINE B == A \o <<>>
        <5> HIDE DEF B
        <5>4. B \o (conn.pending \o t.buf) = B \o conn.pending \o t.buf
          BY <2>2, <2>7, <5>3, JoinAssociative, Zenon DEF B
        <5> QED BY <5>1, <5>2, <5>4 DEF B
      <4> QED BY <4>2, <4>3, <4>4, <4>5, <4>6 DEF HoldingIsKnown
    <3> QED BY <1>1, <1>7, <3>1, <3>2 DEF Fields
  <2>13. StreamAt(q)'
    BY <1>2, <1>4, <2>6, <2>8, <2>9, <2>10, <2>12 DEF StreamAt
  <2> QED BY <1>1, <2>7, <2>8, <2>10, <2>12, <2>13 DEF FlowInv, seg
<1> QED BY <1>5, <1>6, <1>7 DEF Admit, connVars

(* A step of the writer, the proxy thread or the packet thread's send that *)
(* moves bytes from one holder to another and leaves the acknowledgement.  *)
LEMMA BytesMoved ==
    ASSUME FlowInv, HoleInv', QueuesAreBytes', ProxyOrder', InflightIsExact',
           Len(conn'.pending) + proxy_inflight' <= MaxRecvBuffer,
           conn'.ooo = conn.ooo, conn'.ooo_size = conn.ooo_size,
           conn'.rcv_nxt = conn.rcv_nxt, conn'.fin_recv = conn.fin_recv,
           tun'.seg = tun.seg, tun'.pc = "admit" => tun.pc = "admit",
           ~wfailed' /\ ~conn'.proxy_dead =>
               Accepted' = Accepted /\ ~wfailed /\ ~conn.proxy_dead
    PROVE  FlowInv'
<1>1. HoldingIsKnown'
  BY DEF FlowInv, HoldingIsKnown, QueueIsBounded
<1>2. PICK p \in 1..(StreamLen + 1) : StreamAt(p)
  BY DEF FlowInv
<1>3. StreamAt(p)'
  BY <1>2 DEF StreamAt
<1> QED BY <1>1, <1>3 DEF FlowInv

LEMMA DeliverKeeps ==
    ASSUME FlowInv, HoleInv', Deliver
    PROVE  FlowInv'
<1>1. /\ tun.pc = "send" /\ tun'.pc = "ack" /\ tun'.data = <<>> /\ tun'.seg = tun.seg
      /\ UNCHANGED <<edge, pt, wr, held, written, wfailed>>
  BY DEF Deliver, FlowInv, HoleInv, proxyVars, writeVars
<1>2. /\ conn'.pending = conn.pending /\ conn'.ooo = conn.ooo
      /\ conn'.ooo_size = conn.ooo_size /\ conn'.rcv_nxt = conn.rcv_nxt
      /\ conn'.fin_recv = conn.fin_recv /\ conn'.recv_window = conn.recv_window
      /\ conn'.proxy_tx = conn.proxy_tx
  BY DEF Deliver, FlowInv, HoleInv, Fields
<1>3. /\ conn.pending \in Seq(Int) /\ tun.data \in Seq(Int) /\ chan.bytes \in Seq(Int)
      /\ held \in Seq(Int) /\ written \in Seq(Int) /\ proxy_inflight \in Nat
      /\ Len(conn.pending) \in Nat /\ <<>> \in Seq(Int) /\ MaxRecvBuffer \in Nat
  BY FlowTypes, SpaceIsWide
<1>4. PICK h, c, d, x \in Nat : /\ h = Len(held) /\ c = Len(chan.bytes)
                                /\ d = Len(tun.data) /\ x = Len(conn.pending)
  BY <1>3, LenProperties
<1>5. /\ proxy_inflight = h + c + d /\ x + proxy_inflight <= MaxRecvBuffer
      /\ conn.recv_window \in Nat /\ edge \in Int /\ edge <= StreamLen
  BY <1>1, <1>4
  DEF FlowInv, HoldingIsKnown, InflightIsExact, QueueIsBounded, QueuesAreBytes
<1>6. ProxyOrder'
  BY <1>1, <1>2 DEF FlowInv, ProxyOrder
<1>7. CASE rx
  <2>1. /\ chan'.bytes = chan.bytes \o tun.data
        /\ conn' = conn /\ proxy_inflight' = proxy_inflight
    <3>1. chan' = Sent(tun.data) /\ UNCHANGED <<conn, proxy_inflight>>
      BY <1>7 DEF Deliver
    <3> QED BY <3>1 DEF Sent
  <2>2. /\ chan'.bytes \in Seq(Int)
        /\ Len(chan'.bytes) = Len(chan.bytes) + Len(tun.data)
    BY <1>3, <2>1, Joined
  <2>3. QueuesAreBytes'
    BY <1>1, <1>2, <1>3, <1>5, <2>2 DEF QueuesAreBytes
  <2>4. InflightIsExact'
    <3>1. proxy_inflight = h + (c + d) + 0
      BY <1>5
    <3> QED BY <1>1, <1>4, <2>1, <2>2, <3>1 DEF InflightIsExact
  <2> DEFINE X == IF wr = "drop" THEN <<>> ELSE held
  <2>5. Accepted' = Accepted
    <3>1. Accepted = written \o X \o chan.bytes \o tun.data \o conn.pending
      BY <1>1 DEF Accepted
    <3>2. Accepted' = written \o X \o (chan.bytes \o tun.data) \o <<>> \o conn.pending
      BY <1>1, <1>2, <2>1 DEF Accepted
    <3>3. X \in Seq(Int)
      BY <1>3
    <3> HIDE DEF X
    <3>4. PICK a \in Seq(Int) : a = written \o X
      BY <1>3, <3>3, Joined
    <3>5. a \o (chan.bytes \o tun.data) \o <<>> = a \o chan.bytes \o tun.data
      BY <1>3, Handed
    <3> QED BY <3>1, <3>2, <3>4, <3>5
  <2>6. Len(conn'.pending) + proxy_inflight' <= MaxRecvBuffer
    BY <1>2, <1>4, <1>5, <2>1
  <2> QED BY <1>1, <1>2, <1>6, <2>1, <2>3, <2>4, <2>5, <2>6, BytesMoved
<1>8. CASE ~rx
  <2>1. /\ chan' = chan /\ proxy_inflight' = proxy_inflight - Len(tun.data)
        /\ conn' = [conn EXCEPT !.proxy_dead = TRUE]
    BY <1>8 DEF Deliver
  <2>2. conn'.proxy_dead = TRUE
    BY <2>1 DEF FlowInv, HoleInv, Fields
  <2>3. QueuesAreBytes'
    BY <1>1, <1>2, <1>3, <1>5, <2>1 DEF QueuesAreBytes
  <2>4. InflightIsExact'
    <3>1. proxy_inflight - d = h + c + 0
      BY <1>5
    <3> QED BY <1>1, <1>4, <2>1, <3>1 DEF InflightIsExact
  <2>5. Len(conn.pending) + proxy_inflight' <= MaxRecvBuffer
    <3>1. x + (proxy_inflight - d) <= MaxRecvBuffer
      BY <1>3, <1>5
    <3> QED BY <1>4, <2>1, <3>1
  <2> QED BY <1>1, <1>2, <1>6, <2>2, <2>3, <2>4, <2>5, BytesMoved
<1> QED BY <1>7, <1>8

LEMMA AttachKeeps ==
    ASSUME FlowInv, HoleInv', set_proxy_tx
    PROVE  FlowInv'
<1>1. /\ tun.pc = "idle" /\ tun' = tun /\ pt = "dial" /\ pt' = "writer"
      /\ UNCHANGED <<edge, wr, held, written, wfailed>>
      /\ proxy_inflight' = proxy_inflight + Len(conn.pending)
  BY DEF set_proxy_tx, writeVars
<1>2. /\ conn'.pending = <<>> /\ conn'.ooo = conn.ooo
      /\ conn'.ooo_size = conn.ooo_size /\ conn'.rcv_nxt = conn.rcv_nxt
      /\ conn'.fin_recv = conn.fin_recv /\ conn'.recv_window = conn.recv_window
      /\ conn'.proxy_dead = conn.proxy_dead
  BY DEF set_proxy_tx, FlowInv, HoleInv, Fields
<1>3. /\ conn.pending \in Seq(Int) /\ tun.data \in Seq(Int) /\ chan.bytes \in Seq(Int)
      /\ held \in Seq(Int) /\ written \in Seq(Int) /\ proxy_inflight \in Nat
      /\ Len(conn.pending) \in Nat /\ <<>> \in Seq(Int) /\ MaxRecvBuffer \in Nat
  BY FlowTypes, SpaceIsWide
<1>0. PICK h, c, x \in Nat : h = Len(held) /\ c = Len(chan.bytes) /\ x = Len(conn.pending)
  BY <1>3, LenProperties
<1>4. /\ proxy_inflight = h + c + 0 /\ x + proxy_inflight <= MaxRecvBuffer
      /\ conn.recv_window \in Nat /\ edge \in Int /\ edge <= StreamLen
  BY <1>0, <1>1
  DEF FlowInv, HoldingIsKnown, InflightIsExact, QueueIsBounded, QueuesAreBytes
<1>5. ProxyOrder'
  BY <1>1, <1>2 DEF FlowInv, ProxyOrder
<1>6. chan'.bytes = chan.bytes \o conn.pending
  <2>1. CASE conn.pending = <<>>
    <3>1. chan' = chan
      BY <2>1 DEF set_proxy_tx
    <3> QED BY <1>3, <2>1, <3>1, ConcatEmptySeq
  <2>2. CASE conn.pending # <<>>
    BY <2>2 DEF set_proxy_tx, Sent
  <2> QED BY <2>1, <2>2
<1>7. /\ chan'.bytes \in Seq(Int)
      /\ Len(chan'.bytes) = Len(chan.bytes) + Len(conn.pending)
  BY <1>3, <1>6, Joined
<1>8. QueuesAreBytes'
  BY <1>1, <1>2, <1>3, <1>4, <1>7 DEF QueuesAreBytes
<1>9. InflightIsExact'
  <2>1. proxy_inflight + x = h + (c + x) + 0
    BY <1>4
  <2> QED BY <1>0, <1>1, <1>7, <2>1 DEF InflightIsExact
<1>10. Len(conn'.pending) + proxy_inflight' <= MaxRecvBuffer
  <2>1. Len(conn'.pending) = 0
    BY <1>2
  <2>2. 0 + (proxy_inflight + x) <= MaxRecvBuffer
    BY <1>3, <1>4
  <2> QED BY <1>0, <1>1, <2>1, <2>2
<1> DEFINE X == IF wr = "drop" THEN <<>> ELSE held
<1>11. Accepted' = Accepted
  <2>1. Accepted = written \o X \o chan.bytes \o <<>> \o conn.pending
    BY <1>1 DEF Accepted
  <2>2. Accepted' = written \o X \o (chan.bytes \o conn.pending) \o <<>> \o <<>>
    BY <1>1, <1>2, <1>6 DEF Accepted
  <2>3. X \in Seq(Int)
    BY <1>3
  <2> HIDE DEF X
  <2>4. PICK a \in Seq(Int) : a = written \o X
    BY <1>3, <2>3, Joined
  <2>5. a \o (chan.bytes \o conn.pending) \o <<>> = a \o chan.bytes \o conn.pending
    BY <1>3, Handed
  <2>6. PICK b \in Seq(Int) : b = a \o chan.bytes
    BY <1>3, Joined
  <2>7. b \o <<>> = b
    BY NothingAdded
  <2>8. PICK g \in Seq(Int) : g = b \o conn.pending
    BY <1>3, Joined
  <2>9. g \o <<>> = g
    BY NothingAdded
  <2> QED BY <2>1, <2>2, <2>4, <2>5, <2>6, <2>7, <2>8, <2>9
<1> QED BY <1>1, <1>2, <1>5, <1>8, <1>9, <1>10, <1>11, BytesMoved

LEMMA WriterKeeps ==
    ASSUME FlowInv, HoleInv', Writer
    PROVE  FlowInv'
<1>1. UNCHANGED <<conn, edge, tun, pt>>
  BY DEF Writer, WriterTakes, WriterFlushes, WriterLeaves, WriterWrites, WriterFails,
         FinalFlush, DropGuard, DropReceiver, connVars, proxyVars
<1>2. wr # "none" /\ pt \notin {"syn", "dial", "writer"}
  BY DEF Writer, WriterTakes, WriterFlushes, WriterLeaves, WriterWrites, WriterFails,
         FinalFlush, DropGuard, DropReceiver, FlowInv, ProxyOrder
<1>3. /\ conn.pending \in Seq(Int) /\ tun.data \in Seq(Int) /\ chan.bytes \in Seq(Int)
      /\ held \in Seq(Int) /\ written \in Seq(Int) /\ proxy_inflight \in Nat
      /\ Len(conn.pending) \in Nat /\ <<>> \in Seq(Int) /\ MaxRecvBuffer \in Nat
  BY FlowTypes, SpaceIsWide
<1> DEFINE Y == IF tun.pc = "send" THEN tun.data ELSE <<>>
           z == IF tun.pc = "send" THEN Len(tun.data) ELSE 0
<1>4. Y \in Seq(Int) /\ z \in Nat
  BY <1>3, LenProperties
<1>0. PICK h, c, x \in Nat : h = Len(held) /\ c = Len(chan.bytes) /\ x = Len(conn.pending)
  BY <1>3, LenProperties
<1>5. /\ x + proxy_inflight <= MaxRecvBuffer
      /\ conn.recv_window \in Nat /\ edge \in Int /\ edge <= StreamLen
  BY <1>0 DEF FlowInv, HoldingIsKnown, QueueIsBounded, QueuesAreBytes
<1>6. proxy_inflight = h + c + z
  BY <1>0 DEF FlowInv, HoldingIsKnown, InflightIsExact
<1>7. ProxyOrder'
  BY <1>1, <1>2 DEF FlowInv, ProxyOrder
<1>8. ASSUME proxy_inflight' = Len(held') + Len(chan'.bytes) + z,
             proxy_inflight' <= proxy_inflight, proxy_inflight' \in Nat,
             held' \in Seq(Int), chan'.bytes \in Seq(Int), written' \in Seq(Int),
             ~wfailed' => Accepted' = Accepted /\ ~wfailed
      PROVE  FlowInv'
  <2>1. QueuesAreBytes'
    BY <1>1, <1>3, <1>5, <1>8 DEF QueuesAreBytes
  <2>2. InflightIsExact'
    BY <1>1, <1>8 DEF InflightIsExact
  <2>3. Len(conn.pending) + proxy_inflight' <= MaxRecvBuffer
    <3>1. x + proxy_inflight' <= MaxRecvBuffer
      <4>1. proxy_inflight' \in Nat /\ proxy_inflight' <= proxy_inflight
        BY <1>8
      <4>2. x + proxy_inflight <= MaxRecvBuffer
        BY <1>5
      <4>3. proxy_inflight \in Nat /\ MaxRecvBuffer \in Nat
        BY <1>3
      <4>4. PICK m, n, b \in Nat :
              m = proxy_inflight' /\ n = proxy_inflight /\ b = MaxRecvBuffer
        BY <4>1, <4>3
      <4>5. m <= n /\ x + n <= b
        BY <4>1, <4>2, <4>4
      <4>6. x + m <= b
        BY <4>5
      <4> QED BY <4>4, <4>6
    <3> QED BY <1>0, <3>1
  <2> QED BY <1>1, <1>7, <1>8, <2>1, <2>2, <2>3, BytesMoved
<1> DEFINE p == conn.pending
           d == chan.bytes
<1>9. CASE WriterTakes
  <2>1. /\ held' = held \o d /\ chan'.bytes = <<>> /\ wr = "loop" /\ wr' # "drop"
        /\ UNCHANGED <<proxy_inflight, written, wfailed>>
    BY <1>9 DEF WriterTakes, NoMessage
  <2>2. held' \in Seq(Int) /\ Len(held') = Len(held) + Len(d)
    BY <1>3, <2>1, Joined
  <2>3. proxy_inflight' = Len(held') + Len(chan'.bytes) + z
    <3> HIDE DEF z
    <3>1. proxy_inflight = (h + c) + 0 + z
      BY <1>4, <1>6
    <3>2. Len(chan'.bytes) = 0
      BY <2>1
    <3> QED BY <1>0, <2>1, <2>2, <3>1, <3>2
  <2>4. Accepted' = Accepted
    <3>1. Accepted = written \o held \o d \o Y \o p
      BY <2>1 DEF Accepted
    <3>2. Accepted' = written \o (held \o d) \o <<>> \o Y \o p
      BY <1>1, <2>1 DEF Accepted
    <3> HIDE DEF Y
    <3>3. written \o (held \o d) \o <<>> = written \o held \o d
      BY <1>3, Handed
    <3> QED BY <3>1, <3>2, <3>3
  <2>5. proxy_inflight' <= proxy_inflight /\ proxy_inflight' \in Nat
    BY <1>3, <2>1
  <2> HIDE DEF Y, z
  <2> QED BY <1>3, <1>8, <2>1, <2>2, <2>3, <2>4, <2>5
<1>10. CASE WriterWrites
  <2>1. /\ written' = written \o held /\ held' = <<>> /\ wr = "write" /\ wr' = "loop"
        /\ UNCHANGED <<chan, wfailed>> /\ proxy_inflight' = proxy_inflight - Len(held)
    BY <1>10 DEF WriterWrites
  <2>2. written' \in Seq(Int)
    BY <1>3, <2>1, Joined
  <2>3. /\ proxy_inflight' = Len(held') + Len(chan'.bytes) + z
        /\ proxy_inflight' \in Nat /\ proxy_inflight' <= proxy_inflight
    <3> HIDE DEF z
    <3>1. /\ proxy_inflight - h = 0 + c + z
          /\ proxy_inflight - h \in Nat /\ proxy_inflight - h <= proxy_inflight
      BY <1>4, <1>6
    <3>2. Len(held') = 0
      BY <2>1
    <3> QED BY <1>0, <2>1, <3>1, <3>2
  <2>4. Accepted' = Accepted
    <3>1. Accepted = written \o held \o d \o Y \o p
      BY <2>1 DEF Accepted
    <3>2. Accepted' = (written \o held) \o <<>> \o d \o Y \o p
      BY <1>1, <2>1 DEF Accepted
    <3> HIDE DEF Y
    <3>3. written \o held \o <<>> = written \o held
      BY <1>3, Joined, NothingAdded
    <3> QED BY <3>1, <3>2, <3>3
  <2> HIDE DEF Y, z
  <2> QED BY <1>3, <1>8, <2>1, <2>2, <2>3, <2>4
<1>11. ASSUME NEW ok \in BOOLEAN, FinalFlush(ok) PROVE FlowInv'
  <2>1. /\ wr = "flush" /\ wr' = "drop" /\ UNCHANGED <<held, chan, proxy_inflight>>
        /\ written' = IF wfailed' THEN written ELSE written \o held
        /\ ~wfailed' => ~wfailed
    BY <1>11 DEF FinalFlush, wireVars
  <2>2. written' \in Seq(Int)
    BY <1>3, <2>1, Joined
  <2>3. ASSUME ~wfailed' PROVE Accepted' = Accepted
    <3>1. Accepted = written \o held \o d \o Y \o p
      BY <2>1 DEF Accepted
    <3>2. Accepted' = (written \o held) \o <<>> \o d \o Y \o p
      BY <1>1, <2>1, <2>3 DEF Accepted
    <3> HIDE DEF Y
    <3>3. written \o held \o <<>> = written \o held
      BY <1>3, Joined, NothingAdded
    <3> QED BY <3>1, <3>2, <3>3
  <2>4. /\ proxy_inflight' = Len(held') + Len(chan'.bytes) + z
        /\ proxy_inflight' \in Nat /\ proxy_inflight' <= proxy_inflight
    <3> HIDE DEF z
    <3> QED BY <1>0, <1>3, <1>6, <2>1
  <2> HIDE DEF Y, z
  <2> QED BY <1>3, <1>8, <2>1, <2>2, <2>3, <2>4
<1>12. CASE DropGuard
  <2>1. /\ wr = "drop" /\ wr' = "close" /\ held' = <<>>
        /\ UNCHANGED <<chan, written, wfailed>>
        /\ proxy_inflight' = proxy_inflight - Len(held)
    BY <1>12 DEF DropGuard
  <2>2. /\ proxy_inflight' = Len(held') + Len(chan'.bytes) + z
        /\ proxy_inflight' \in Nat /\ proxy_inflight' <= proxy_inflight
    <3> HIDE DEF z
    <3>1. /\ proxy_inflight - h = 0 + c + z
          /\ proxy_inflight - h \in Nat /\ proxy_inflight - h <= proxy_inflight
      BY <1>4, <1>6
    <3>2. Len(held') = 0
      BY <2>1
    <3> QED BY <1>0, <2>1, <3>1, <3>2
  <2>3. Accepted' = Accepted
    BY <1>1, <2>1 DEF Accepted
  <2> HIDE DEF Y, z
  <2> QED BY <1>3, <1>8, <2>1, <2>2, <2>3
<1>13. CASE WriterFlushes \/ WriterLeaves \/ WriterFails \/ DropReceiver
  <2>1. /\ wr # "drop" /\ wr' # "drop" /\ (~wfailed' => ~wfailed)
        /\ UNCHANGED <<held, chan, written, proxy_inflight>>
    BY <1>13 DEF WriterFlushes, WriterLeaves, WriterFails, DropReceiver, wireVars
  <2>2. Accepted' = Accepted
    BY <1>1, <2>1 DEF Accepted
  <2>3. proxy_inflight' <= proxy_inflight
    BY <1>3, <2>1
  <2>4. proxy_inflight' = Len(held') + Len(chan'.bytes) + z
    <3> HIDE DEF z
    <3> QED BY <1>0, <1>6, <2>1
  <2> HIDE DEF Y, z
  <2> QED BY <1>3, <1>8, <2>1, <2>2, <2>3, <2>4
<1> QED BY <1>9, <1>10, <1>11, <1>12, <1>13 DEF Writer

(* Every step keeps the invariant, from every state it holds in.           *)
LEMMA FlowNext ==
    ASSUME FlowInv, [Next]_vars
    PROVE  FlowInv'
<1>1. HoleInv'
  BY HoleNext DEF FlowInv
<1>2. /\ conn.recv_window \in Nat /\ edge \in Int /\ edge <= StreamLen
      /\ SegmentOK(tun.seg) /\ tun.data \in Seq(Int)
      /\ (tun.pc = "admit" => tun.seg.len > 0)
      /\ OooOK(conn.ooo) /\ conn.ooo_size = Cardinality(Cells(conn.ooo))
      /\ conn.ooo_size <= MaxOooSize /\ conn.rcv_nxt \in Int
      /\ conn = [f \in Fields |-> conn[f]]
  BY FlowTypes DEF FlowInv, HoleInv, QueuesAreBytes, HoldingIsKnown, QueueIsBounded
<1>3. ASSUME conn'.pending = conn.pending, conn'.proxy_tx = conn.proxy_tx,
             conn'.proxy_dead = conn.proxy_dead,
             conn'.recv_window = conn.recv_window, conn'.ooo = conn.ooo,
             conn'.ooo_size = conn.ooo_size, conn'.rcv_nxt = conn.rcv_nxt,
             conn'.fin_recv = conn.fin_recv, tun' = tun,
             UNCHANGED edge \/ Advertise(conn),
             UNCHANGED <<proxy_inflight, chan, wr, held, written, wfailed>>,
             pt' \in {"syn", "dial", "writer"} => pt \in {"syn", "dial", "writer"}
      PROVE  FlowInv'
  <2>1. edge' \in Int /\ edge' <= StreamLen
    BY <1>2, <1>3, EdgeKept
  <2> QED BY <1>1, <1>2, <1>3, <2>1, BytesKept
<1>4. ASSUME NEW served \in BOOLEAN, NEW spawned \in BOOLEAN,
             handle_tcp_syn(served, spawned)
      PROVE  FlowInv'
  BY <1>3, <1>4 DEF handle_tcp_syn, wireVars, writeVars
<1>5. CASE DuplicateSyn
  BY <1>3, <1>5 DEF DuplicateSyn, proxyVars, wireVars, writeVars
<1>6. CASE ClientResets
  <2>1. conn' = [conn EXCEPT !.state = "Closed"]
    BY <1>6 DEF ClientResets
  <2>2. /\ conn'.pending = conn.pending /\ conn'.proxy_tx = conn.proxy_tx
        /\ conn'.proxy_dead = conn.proxy_dead
        /\ conn'.recv_window = conn.recv_window /\ conn'.ooo = conn.ooo
        /\ conn'.ooo_size = conn.ooo_size /\ conn'.rcv_nxt = conn.rcv_nxt
        /\ conn'.fin_recv = conn.fin_recv
    BY <1>2, <2>1 DEF Fields
  <2> QED BY <1>3, <1>6, <2>2 DEF ClientResets, proxyVars, wireVars, writeVars
<1>7. ASSUME NEW seg \in Segments, Packet(seg)
      PROVE  FlowInv'
  BY <1>1, <1>7, PacketKeeps
<1>8. CASE Admit
  BY <1>1, <1>8, AdmitKeeps
<1>9. CASE Deliver
  BY <1>1, <1>9, DeliverKeeps
<1>10. CASE Acknowledge
  <2> DEFINE c == WithWindow(conn)
  <2>1. /\ tun.pc = "ack" /\ Answer(c, tun.seg) /\ conn.fin_recv = FALSE
        /\ UNCHANGED <<proxy_inflight, chan, wr, held, written, wfailed, pt>>
    BY <1>10 DEF Acknowledge, proxyVars, wireVars, writeVars, FlowInv, HoleInv
  <2>2. /\ c = [f \in Fields |-> c[f]]
        /\ \A f \in Fields \ {"recv_window"} : c[f] = conn[f]
    BY <1>2 DEF WithWindow, Fields
  <2>3. c.recv_window \in Nat
    BY FlowTypes
  <2> HIDE DEF c
  <2>4. /\ c.pending = conn.pending /\ c.proxy_tx = conn.proxy_tx
        /\ c.proxy_dead = conn.proxy_dead
        /\ c.rcv_nxt = conn.rcv_nxt /\ c.fin_recv = conn.fin_recv
        /\ c.ooo = conn.ooo /\ c.ooo_size = conn.ooo_size
    BY <2>2 DEF Fields
  <2> QED BY <1>1, <1>2, <2>1, <2>2, <2>3, <2>4, AnswerKeeps
<1>11. CASE set_proxy_tx
  BY <1>1, <1>11, AttachKeeps
<1>12. ASSUME NEW ok \in BOOLEAN, SpawnWriter(ok) PROVE FlowInv'
  <2>1. /\ pt = "writer" /\ pt' \notin {"syn", "dial", "writer"}
        /\ wr' # "drop"
        /\ UNCHANGED <<conn, edge, tun, proxy_inflight, chan, held, written, wfailed>>
    BY <1>12 DEF SpawnWriter, connVars
  <2>2. wr = "none"
    BY <2>1 DEF FlowInv, ProxyOrder
  <2>3. QueuesAreBytes' /\ ProxyOrder' /\ InflightIsExact'
    BY <2>1 DEF FlowInv, HoldingIsKnown, InflightIsExact, QueuesAreBytes, ProxyOrder
  <2>4. Accepted' = Accepted
    BY <2>1, <2>2 DEF Accepted
  <2>5. Len(conn'.pending) + proxy_inflight' <= MaxRecvBuffer
    BY <2>1 DEF FlowInv, HoldingIsKnown, QueueIsBounded
  <2> QED BY <1>1, <2>1, <2>3, <2>4, <2>5, BytesMoved
<1>13. CASE DialFails \/ \E ok \in BOOLEAN : SpawnReader(ok)
  BY <1>3, <1>13 DEF DialFails, SpawnReader, connVars, wireVars, writeVars
<1>14. CASE Writer
  BY <1>1, <1>14, WriterKeeps
<1>15. CASE ReaderReads
  <2>1. conn' = [conn EXCEPT !.snd_nxt = (@ + 1) % SeqSpace]
    BY <1>15 DEF ReaderReads
  <2>2. /\ conn'.pending = conn.pending /\ conn'.proxy_tx = conn.proxy_tx
        /\ conn'.proxy_dead = conn.proxy_dead
        /\ conn'.recv_window = conn.recv_window /\ conn'.ooo = conn.ooo
        /\ conn'.ooo_size = conn.ooo_size /\ conn'.rcv_nxt = conn.rcv_nxt
        /\ conn'.fin_recv = conn.fin_recv
    BY <1>2, <2>1 DEF Fields
  <2> QED BY <1>3, <1>15, <2>2 DEF ReaderReads, proxyVars, wireVars, writeVars
<1>16. CASE ReaderEnds
  BY <1>3, <1>16 DEF ReaderEnds, wireVars, writeVars
<1>17. CASE Cleanup \/ stop \/ UNCHANGED vars
  BY <1>3, <1>17 DEF Cleanup, stop, vars, connVars, proxyVars, wireVars, writeVars
<1> QED
  BY <1>4, <1>5, <1>6, <1>7, <1>8, <1>9, <1>10, <1>11, <1>12, <1>13, <1>14, <1>15,
     <1>16, <1>17
  DEF Next, PacketThread, ProxyThread

LEMMA FlowInit == Init => FlowInv
<1> SUFFICES ASSUME Init PROVE FlowInv
  OBVIOUS
<1>1. HoleInv
  BY DEF Init, HoleInv, Fields, Idle
<1>2. /\ conn.pending = <<>> /\ tun.data = <<>> /\ chan.bytes = <<>> /\ held = <<>>
      /\ written = <<>> /\ conn.ooo = <<>> /\ conn.ooo_size = 0 /\ wr = "none"
      /\ tun.seg = NoSegment /\ tun.pc = "idle" /\ conn.recv_window = MaxWindow
      /\ edge = 0 /\ proxy_inflight = 0 /\ conn.rcv_nxt = SeqAt(1)
      /\ conn.fin_recv = FALSE
  BY DEF Init, NoMessage, Idle
<1>3. QueuesAreBytes
  BY <1>2, TcpAssumption DEF QueuesAreBytes
<1>4. ProxyOrder /\ SegmentOK(tun.seg)
  BY <1>2, SpaceIsWide DEF ProxyOrder, SegmentOK, NoSegment
<1>5. OooOK(conn.ooo) /\ conn.ooo_size = Cardinality(Cells(conn.ooo))
  <2>1. conn.ooo = [s \in DOMAIN conn.ooo |-> conn.ooo[s]] /\ DOMAIN conn.ooo = {}
    BY <1>2
  <2>2. Cells(conn.ooo) = {}
    BY <2>1 DEF Cells
  <2> QED BY <1>2, <2>1, <2>2, FS_EmptySet DEF OooOK
<1>6. HoldingIsKnown
  BY <1>2, SpaceIsWide DEF HoldingIsKnown, InflightIsExact, QueueIsBounded
<1>7. StreamAt(1)
  <2>1. Accepted = <<>>
    BY <1>2 DEF Accepted
  <2>2. Bytes(1, 1) = <<>>
    <3>1. Bytes(1, 1) \in Seq(Int) /\ Len(Bytes(1, 1)) = 0
      BY BytesType
    <3> QED BY <3>1
  <2> QED BY <1>2, <2>1, <2>2 DEF StreamAt
<1> QED BY <1>1, <1>2, <1>3, <1>4, <1>5, <1>6, <1>7, SpaceIsWide DEF FlowInv

(* The inductive invariant of a flow: the bytes held, and where the stream *)
(* stands, for every stream, segment size, buffer and sequence space.      *)
THEOREM FlowIsSound == Spec => []FlowInv
BY FlowInit, FlowNext, PTL DEF Spec

(* The in-flight counter is exact and the queue stays within the receive   *)
(* buffer, whatever the interleaving of the packet thread with the writer. *)
THEOREM HoldingIsAlwaysKnown == Spec => []HoldingIsKnown
<1>1. FlowInv => HoldingIsKnown
  BY DEF FlowInv
<1> QED BY <1>1, FlowIsSound, PTL

(* What the stack has acknowledged has gone to the proxy or is held for    *)
(* it, in order and once, whatever the losses, repeats and overlaps of the *)
(* segments and wherever the sequence numbers wrap, until a write or a     *)
(* send has failed.                                                        *)
THEOREM NothingLostOrRepeated == Spec => []AckedExactlyOnce
<1>1. FlowInv => AckedExactlyOnce
  <2> SUFFICES ASSUME FlowInv, ~wfailed, ~conn.proxy_dead
               PROVE  /\ Accepted = [p \in 1..Len(Accepted) |-> p]
                      /\ conn.rcv_nxt
                           = SeqAt(Len(Accepted) + IF conn.fin_recv THEN 2 ELSE 1)
    BY DEF AckedExactlyOnce
  <2>1. PICK p \in 1..(StreamLen + 1) : StreamAt(p)
    BY DEF FlowInv
  <2>2. /\ Accepted = Bytes(1, p)
        /\ conn.rcv_nxt = SeqAt(p + IF conn.fin_recv THEN 1 ELSE 0)
    BY <2>1 DEF StreamAt
  <2>3. Len(Bytes(1, p)) = p - 1 /\ p \in Int /\ 1 <= p
    BY BytesType
  <2>4. Bytes(1, p) = [i \in 1..(p - 1) |-> i]
    BY DEF Bytes
  <2>5. (p - 1) + (IF conn.fin_recv THEN 2 ELSE 1)
           = p + IF conn.fin_recv THEN 1 ELSE 0
    BY <2>3
  <2> QED BY <2>2, <2>3, <2>4, <2>5
<1> QED BY <1>1, FlowIsSound, PTL
=============================================================================
