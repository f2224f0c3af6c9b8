--------------------------- MODULE QuicOutbounds ---------------------------
(***************************************************************************)
(* The outbounds that share one QUIC connection among their callers:       *)
(* Hysteria, Hysteria 2 and TUIC.  The connection is made and              *)
(* authenticated under the lock of its slot; TCP relays open a stream on   *)
(* it, UDP relays send a datagram and wait for the next one that arrives,  *)
(* through one reassembly buffer.                                          *)
(* (src/engine/outbound/{hysteria,hysteria2,tuic}.rs)                      *)
(***************************************************************************)
EXTENDS Naturals, FiniteSets, FiniteSetsExt

CONSTANTS Protocols,   \* a subset of {"hysteria", "hysteria2", "tuic"}
          Callers,
          NoOne,
          MaxConns,    \* bound on the connections made
          MaxPackets,  \* bound on the datagrams a server sends to a session
          MaxPending,  \* MAX_PENDING_FRAGMENTS
          MaxBytes     \* MAX_PENDING_BYTES, in fragments

Conns == 1 .. MaxConns
Frags == 0 .. 1        \* a datagram that does not fit is sent in two
Packets == [session : Callers, packet : 1 .. MaxPackets]

VARIABLES proto,
          lock,     \* the holder of the connection slot's mutex
          slot,     \* the connection in the slot, 0 for none
          conns,    \* per connection: made, open, authenticated
          pc, op, mine,
          sent,     \* per session: datagrams the server has sent back
          arrived,  \* the transport's datagram queue
          pending,  \* FragAssembler::pending
          bytes,    \* FragAssembler::bytes
          reply     \* per caller: the fragments of the answer it was given

vars == <<proto, lock, slot, conns, pc, op, mine, sent, arrived, pending, bytes, reply>>
link == <<proto, lock, slot, conns>>
udp == <<sent, arrived, pending, bytes, reply>>

Ops == {"tcp", "udp", "connect", "disconnect"}
\* Hysteria 1 has no UDP.
Supported == IF proto = "hysteria" THEN Ops \ {"udp"} ELSE Ops

Init ==
  /\ proto \in Protocols
  /\ lock = NoOne /\ slot = 0
  /\ conns = [i \in Conns |-> [made |-> FALSE, open |-> FALSE, authed |-> FALSE]]
  /\ pc = [c \in Callers |-> "start"]
  /\ op = [c \in Callers |-> "none"]
  /\ mine = [c \in Callers |-> 0]
  /\ sent = [c \in Callers |-> 0]
  /\ arrived = {} /\ pending = {} /\ bytes = 0
  /\ reply = [c \in Callers |-> {}]

Goto(c, l) == pc' = [pc EXCEPT ![c] = l]
Release(c) == lock = c /\ lock' = NoOne

----------------------------------------------------------------------------
(* get_or_create_connection                                                *)

Call(c) ==
  /\ pc[c] = "start"
  /\ \E o \in Supported : op' = [op EXCEPT ![c] = o]
  /\ Goto(c, "lock")
  /\ UNCHANGED <<link, mine, udp>>

TakeSlot(c) ==
  /\ pc[c] = "lock" /\ lock = NoOne /\ lock' = c
  /\ Goto(c, IF op[c] = "disconnect" THEN "drop" ELSE "check")
  /\ UNCHANGED <<proto, slot, conns, op, mine, udp>>

\* Where a caller goes with its connection.
Ready(c) == CASE op[c] = "tcp" -> "stream" [] op[c] = "udp" -> "send" [] op[c] = "connect" -> "done"

Live == slot # 0 /\ conns[slot].open

Reuse(c) ==
  /\ pc[c] = "check" /\ Live
  /\ mine' = [mine EXCEPT ![c] = slot]
  /\ Release(c)
  /\ Goto(c, Ready(c))
  /\ UNCHANGED <<proto, slot, conns, op, udp>>

(***************************************************************************)
(* resolve_host and QuicClient::connect, both bounded.  The datagrams and  *)
(* the reassembly buffer are the connection's: those of a dead one are     *)
(* forgotten when the next is made.                                        *)
(***************************************************************************)
Dial(c) ==
  /\ pc[c] = "check" /\ ~Live
  /\ \/ /\ Release(c) /\ Goto(c, "failed")
        /\ UNCHANGED <<conns, mine, arrived, pending, bytes>>
     \/ \E i \in Conns :
          /\ ~conns[i].made /\ \A j \in 1 .. (i - 1) : conns[j].made
          /\ conns' = [conns EXCEPT ![i] = [made |-> TRUE, open |-> TRUE, authed |-> FALSE]]
          /\ mine' = [mine EXCEPT ![c] = i]
          /\ Goto(c, "auth")
          /\ arrived' = {} /\ pending' = {} /\ bytes' = 0
          /\ UNCHANGED lock
  /\ UNCHANGED <<proto, slot, op, sent, reply>>

\* *guard = Some(conn), and the lock goes
Publish(c) ==
  /\ slot' = mine[c]
  /\ Release(c)

(***************************************************************************)
(* authenticate: Hysteria reads the server's hello, Hysteria 2 the status  *)
(* of POST /auth, each within its deadline; TUIC sends its token and takes *)
(* the stream's acceptance for it.                                         *)
(***************************************************************************)
HysteriaHello(c) ==
  /\ proto = "hysteria" /\ conns[mine[c]].open
  /\ conns' = [conns EXCEPT ![mine[c]].authed = TRUE]
Hysteria2Auth(c) ==
  /\ proto = "hysteria2" /\ conns[mine[c]].open
  /\ conns' = [conns EXCEPT ![mine[c]].authed = TRUE]
TuicAuth(c) ==
  /\ proto = "tuic" /\ conns[mine[c]].open
  /\ conns' = [conns EXCEPT ![mine[c]].authed = TRUE]

Authenticate(c) ==
  /\ pc[c] = "auth"
  /\ HysteriaHello(c) \/ Hysteria2Auth(c) \/ TuicAuth(c)
  /\ Publish(c)
  /\ Goto(c, Ready(c))
  /\ UNCHANGED <<proto, op, mine, udp>>

\* Fault: a refused connection stays in the slot.
RefusedKept(c) ==
  /\ pc[c] = "auth"
  /\ slot' = mine[c]
  /\ Release(c) /\ Goto(c, "failed")
  /\ UNCHANGED <<proto, conns, op, mine, udp>>

\* Fault: an early return that leaves the guard locked.
RefusedHolding(c) ==
  /\ pc[c] = "auth"
  /\ conns' = [conns EXCEPT ![mine[c]].open = FALSE]
  /\ Goto(c, "failed")
  /\ UNCHANGED <<proto, lock, slot, op, mine, udp>>

\* Refused, or silent past the deadline: the last handle goes, and the connection with it.
Refused(c) ==
  /\ pc[c] = "auth"
  /\ conns' = [conns EXCEPT ![mine[c]].open = FALSE]
  /\ Release(c) /\ Goto(c, "failed")
  /\ UNCHANGED <<proto, slot, op, mine, udp>>

Disconnect(c) ==
  /\ pc[c] = "drop"
  /\ slot' = 0
  /\ conns' = IF slot = 0 THEN conns ELSE [conns EXCEPT ![slot].open = FALSE]
  /\ Release(c) /\ Goto(c, "done")
  /\ UNCHANGED <<proto, op, mine, udp>>

\* The server closes, or the idle timeout does.
ConnectionDies ==
  /\ \E i \in Conns : conns[i].open /\ conns' = [conns EXCEPT ![i].open = FALSE]
  /\ UNCHANGED <<proto, lock, slot, pc, op, mine, udp>>

----------------------------------------------------------------------------
(* TCP: open_tcp_stream reads the server's status within its deadline.     *)

OpenTcpStream(c) ==
  /\ pc[c] = "stream"
  /\ \/ conns[mine[c]].open /\ Goto(c, "done")
     \/ Goto(c, "failed")
  /\ UNCHANGED <<link, op, mine, udp>>

----------------------------------------------------------------------------
(* UDP                                                                     *)

\* send_udp_packet: the session is the caller's own, chosen at random.
SendUdpPacket(c) ==
  /\ pc[c] = "send"
  /\ \/ conns[mine[c]].open /\ Goto(c, "recv")
     \/ Goto(c, "failed")
  /\ UNCHANGED <<link, op, mine, udp>>

\* Whether the caller's connection is the last one made.
Latest(c) == mine[c] = Cardinality({i \in Conns : conns[i].made})

\* The server answers a session, now or after its caller has gone, whole or in fragments; what
\* is lost on the way never arrives.
ServerReplies(c) ==
  /\ op[c] = "udp" /\ pc[c] \in {"recv", "failed"} /\ mine[c] # 0 /\ Latest(c) /\ conns[mine[c]].open
  /\ sent[c] < MaxPackets
  /\ sent' = [sent EXCEPT ![c] = @ + 1]
  /\ \E got \in (SUBSET Frags) \ {{}} :
       LET p == [session |-> c, packet |-> sent[c] + 1]
       IN \/ arrived' = arrived \cup {[of |-> p, frag |-> f, count |-> 2] : f \in got}
          \/ arrived' = arrived \cup {[of |-> p, frag |-> 0, count |-> 1]}
  /\ UNCHANGED <<link, pc, op, mine, pending, bytes, reply>>

\* Fault: the fragments of a session are put together whichever packet they are of.
KeyBySession(d) == [session |-> d.of.session, packet |-> 1]

\* What an entry is filed under: TUIC has the association alone.
Key(d) == IF proto = "tuic" THEN [session |-> d.of.session, packet |-> 1] ELSE d.of

\* FragAssembler::add prunes what has expired, and only when it holds more than the limit: what
\* may be left of its entries.
Pruned(p) == IF Cardinality(p) > MaxPending THEN SUBSET p ELSE {p}

Held(p) == MapThenSumSet(LAMBDA e : Cardinality(e.parts), p)

EntryOf(p, k) == IF \E e \in p : e.key = k THEN CHOOSE e \in p : e.key = k
                 ELSE [key |-> k, parts |-> {}]

\* A fragment with the same number takes the place of the one before.
Insert(e, d) ==
  [e EXCEPT !.parts = {x \in @ : x.frag # d.frag} \cup {[of |-> d.of, frag |-> d.frag]}]

\* Fault: the length of a fragment that was replaced stays counted.
BytesAfterCounting(b, e, f) == b + 1

BytesAfter(b, e, f) == b + 1 - (Cardinality(e.parts) + 1 - Cardinality(f.parts))

(***************************************************************************)
(* FragAssembler::add: dropped at either bound, kept, or the last one of   *)
(* its packet.                                                             *)
(***************************************************************************)
Add(c, d) ==
  \E p \in Pruned(pending) :
    LET k == Key(d)
        e == EntryOf(p, k)
        f == Insert(e, d)
        kept == p \ {e}
        held == IF p = pending THEN bytes ELSE Held(p)
        full == (~\E x \in p : x.key = k) /\ Cardinality(p) >= MaxPending
    IN IF full \/ held + 1 > MaxBytes
       THEN pending' = p /\ bytes' = held /\ UNCHANGED reply /\ Goto(c, "recv")
       ELSE IF Cardinality(f.parts) >= d.count
       THEN /\ pending' = kept
            /\ bytes' = BytesAfter(held, e, f) - Cardinality(f.parts)
            /\ reply' = [reply EXCEPT ![c] = f.parts]
            /\ Goto(c, "done")
       ELSE /\ pending' = kept \cup {f}
            /\ bytes' = BytesAfter(held, e, f)
            /\ UNCHANGED reply
            /\ Goto(c, "recv")

\* recv_udp_packet: the next datagram, whoever it is for
RecvUdpPacket(c) ==
  /\ pc[c] = "recv" /\ Latest(c)
  /\ \E d \in arrived :
       /\ arrived' = arrived \ {d}
       /\ IF d.count = 1
          THEN /\ reply' = [reply EXCEPT ![c] = {[of |-> d.of, frag |-> 0]}]
               /\ Goto(c, "done")
               /\ UNCHANGED <<pending, bytes>>
          ELSE Add(c, d)
  /\ UNCHANGED <<link, op, mine, sent>>

\* Nothing within the timeout, or the connection is gone.
RecvFails(c) ==
  /\ pc[c] = "recv" /\ (arrived = {} \/ ~Latest(c))
  /\ Goto(c, "failed")
  /\ UNCHANGED <<link, op, mine, udp>>

Step(c) == TakeSlot(c) \/ Reuse(c) \/ Dial(c) \/ Authenticate(c) \/ Refused(c) \/ Disconnect(c)
             \/ OpenTcpStream(c) \/ SendUdpPacket(c) \/ RecvUdpPacket(c) \/ RecvFails(c)
Next == \/ \E c \in Callers : Call(c) \/ Step(c) \/ ServerReplies(c)
        \/ ConnectionDies

\* A caller runs; the calls are bounded, so the lock it waits for is left alone
\* in the end: weak fairness is enough.
Fairness == \A c \in Callers : WF_vars(Step(c))
Spec == Init /\ [][Next]_vars /\ Fairness

----------------------------------------------------------------------------
(* Properties                                                              *)

(***************************************************************************)
(* No caller opens a stream or sends a datagram on a connection that is    *)
(* not authenticated, whoever made it and whichever call failed in between *)
(* (get_or_create_connection publishes last).                              *)
(***************************************************************************)
UsedAuthenticated ==
  \A c \in Callers : pc[c] \in {"stream", "send", "recv"} => conns[mine[c]].authed

(***************************************************************************)
(* The byte count the reassembly buffer refuses by is what it holds, after *)
(* fragments that were replaced, completed or pruned: a count that drifts  *)
(* ends by refusing every fragment.                                        *)
(***************************************************************************)
BytesAreExact == bytes = Held(pending)

(***************************************************************************)
(* Hysteria 2: an answer is the whole of one packet and of no other, in    *)
(* whatever order the fragments of several came in.                        *)
(***************************************************************************)
AnswerIsWhole ==
  proto = "hysteria2" =>
    \A c \in Callers : Cardinality({x.of : x \in reply[c]}) <= 1

(***************************************************************************)
(* Every call returns, whoever holds the slot and whatever the server      *)
(* answers or does not.                                                    *)
(***************************************************************************)
Owed == \E c \in Callers : pc[c] \notin {"start", "done", "failed"}
CallerReturns == <>[]~Owed

(***************************************************************************)
(* "Relay a single UDP packet and return the reply"                        *)
(* (src/engine/outbound.rs:256): the reply is to this packet.              *)
(***************************************************************************)
ReplyIsOwn == \A c \in Callers : \A x \in reply[c] : x.of.session = c
=============================================================================
