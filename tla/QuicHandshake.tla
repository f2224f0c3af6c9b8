--------------------------- MODULE QuicHandshake ---------------------------
(***************************************************************************)
(* The handshake of the QUIC client: three packet-number spaces, the       *)
(* CRYPTO streams in both directions, TLS 1.3 over them, acknowledgement   *)
(* and loss of what the client sent, Retry, probe timeouts, and the thread *)
(* that waits for the handshake.  (src/protocol/quic/transport.rs,         *)
(* tls13.rs, client.rs, obfs.rs)                                           *)
(*                                                                         *)
(* The driver thread handles one datagram or one timer tick under the      *)
(* state lock and builds everything that can be sent before it lets go, so *)
(* a step of the model is one turn of its loop.  The server and the        *)
(* network are the environment: whatever a server could have sent by now   *)
(* may arrive next, again, or never.  A handshake byte string is a         *)
(* sequence of units; the Certificate message is two units long.           *)
(***************************************************************************)
EXTENDS Naturals, Sequences, SequencesExt, FiniteSetsExt

CONSTANTS MaxArrivals,   \* bound on datagrams that arrive
          MaxProbes,     \* bound on probe timeouts
          InitialCwnd,   \* INITIAL_CWND and MIN_CWND, in packets
          MinCwnd

VARIABLES c,         \* ConnState, with its Tls13Client
          flight,    \* the server's Handshake flight (the server may be wrong)
          arrivals,
          probes,
          waiter     \* the thread in ClientConnection::wait_handshake

vars == <<c, flight, arrivals, probes, waiter>>

Spaces == {"initial", "handshake", "application"}
CryptoSpaces == {"initial", "handshake"}

----------------------------------------------------------------------------
(* TLS 1.3                                                                 *)

ClientHello == <<"CH">>
Flights == {<<"EE", "C1", "C2", "CV", "FIN">>,   \* a correct server
            <<"EE", "C1", "C2", "FIN">>,         \* one that does not prove its key
            <<"EE", "FIN">>}                     \* one that shows no certificate

Tls13Client == [pending |-> ClientHello, suite |-> FALSE, peer_tp |-> FALSE,
                leaf |-> FALSE, verified |-> FALSE, finished |-> FALSE,
                log |-> ClientHello]
\* reset_after_retry: the same ClientHello, nothing queued.
ResetAfterRetry(t) == [Tls13Client EXCEPT !.pending = << >>]

IsComplete(t) == t.finished

\* take_hs_message: the first message of the buffer, or nothing if it is not
\* all there.
MessageLength(buf) == IF Head(buf) = "C1" THEN 2 ELSE 1
HasMessage(buf) == Len(buf) > 0 /\ Len(buf) >= MessageLength(buf)

Failed == [failed |-> TRUE]
IsFailed(t) == "failed" \in DOMAIN t

OnServerHello(t) == IF t.suite THEN Failed ELSE [t EXCEPT !.suite = TRUE]
OnEncryptedExtensions(t) == IF t.peer_tp THEN Failed ELSE [t EXCEPT !.peer_tp = TRUE]
\* A certificate message that is not what the server sent may still parse.
OnCertificate(t, m, parses) ==
  IF t.leaf \/ (m # <<"C1", "C2">> /\ ~parses) THEN Failed ELSE [t EXCEPT !.leaf = TRUE]
\* The signature covers the transcript before this message.
OnCertificateVerify(t) ==
  IF t.verified \/ ~t.leaf \/ t.log # <<"CH", "SH", "EE", "C1", "C2">>
  THEN Failed ELSE [t EXCEPT !.verified = TRUE]
\* verify_data covers the transcript before this message; the client's own
\* Finished is queued behind whatever is pending.
Finished(t, before) ==
  IF before # <<"CH", "SH">> \o SubSeq(flight, 1, Len(flight) - 1) THEN Failed
  ELSE [t EXCEPT !.finished = TRUE, !.pending = @ \o <<"FIN">>]
OnServerFinishedUnproved(t, before) == IF t.finished THEN Failed ELSE Finished(t, before)
OnServerFinished(t, before) ==
  IF t.finished \/ ~t.leaf \/ ~t.verified THEN Failed ELSE Finished(t, before)

\* consume_crypto: every complete message at the front of the buffer.
RECURSIVE ConsumeCrypto(_, _, _)
ConsumeCrypto(t, buf, parses) ==
  IF ~HasMessage(buf) THEN [tls |-> t, rest |-> buf]
  ELSE LET n == MessageLength(buf)
           m == SubSeq(buf, 1, n)
           rest == SubSeq(buf, n + 1, Len(buf))
           logged == [t EXCEPT !.log = @ \o m]
           t2 == CASE m[1] = "SH" -> OnServerHello(logged)
                   [] m[1] = "EE" -> OnEncryptedExtensions(logged)
                   [] m[1] = "C1" -> OnCertificate(logged, m, parses)
                   [] m[1] = "CV" -> LET v == OnCertificateVerify(t)
                                     IN IF IsFailed(v) THEN v
                                        ELSE [v EXCEPT !.log = @ \o m]
                   [] m[1] = "FIN" -> OnServerFinished(logged, t.log)
                   [] OTHER -> Failed        \* a ticket, or the middle of a message
       IN IF IsFailed(t2) \/ m[1] = "FIN" THEN [tls |-> t2, rest |-> rest]
          ELSE ConsumeCrypto(t2, rest, parses)

----------------------------------------------------------------------------
(* Connection state                                                        *)

\* Space::new; crypto_send holds what was written from crypto_acked on.
Space == [next_pn |-> 0, recv |-> << >>, written |-> << >>,
          acked |-> 0, csent |-> 0, sent |-> << >>]

Start == [tls |-> Tls13Client,
          keys |-> {"initial"},
          spaces |-> [s \in Spaces |->
                        IF s = "initial" THEN [Space EXCEPT !.written = ClientHello] ELSE Space],
          in_flight |-> 0, cwnd |-> InitialCwnd, pto_due |-> FALSE,
          complete |-> FALSE, confirmed |-> FALSE, leaked |-> 0, closed |-> "no"]

\* process_fatal
ProcessFatal(st) == [st EXCEPT !.closed = IF @ = "no" THEN "fatal" ELSE @]

\* install_keys
InstallKeys(st) == [st EXCEPT !.keys = @ \cup (IF st.tls.suite THEN {"handshake"} ELSE {})
                                          \cup (IF IsComplete(st.tls) THEN {"application"} ELSE {})]

\* on_crypto.  The length of the unread rest is taken for the next offset,
\* though what was consumed has been drained from it.
OnCrypto(st, s, off, data, parses) ==
  LET buf == st.spaces[s].recv
  IN IF off > Len(buf) THEN ProcessFatal(st)
     ELSE LET new == SubSeq(buf, 1, off) \o data
                       \o SubSeq(buf, off + Len(data) + 1, Len(buf))
              r == ConsumeCrypto(st.tls, new, parses)
          IN IF IsFailed(r.tls) THEN ProcessFatal(st)
             ELSE LET t == [r.tls EXCEPT !.pending = << >>]
                      st2 == [st EXCEPT !.tls = t, !.spaces[s].recv = r.rest]
                      st3 == [st2 EXCEPT !.spaces["handshake"].written = @ \o r.tls.pending]
                  IN [InstallKeys(st3) EXCEPT !.complete = @ \/ IsComplete(t)]

\* ack_intervals: the ranges of the frame as the peer encodes them (largest
\* first, each with the gap before it) back to intervals.  Of every range but
\* the first the upper end is put at the packet below the range before.
Ranges(A) == LET Starts == {x \in A : x - 1 \notin A}
             IN {<<lo, CHOOSE hi \in A : /\ \A x \in lo .. hi : x \in A
                                         /\ hi + 1 \notin A>> : lo \in Starts}
AckIntervals(A) ==
  {<<r[1], LET above == {q[1] : q \in {q \in Ranges(A) : q[1] > r[1]}}
           IN IF above = {} THEN r[2] ELSE Min(above) - 1>> : r \in Ranges(A)}
AckCovers(intervals, pn) == \E i \in intervals : pn >= i[1] /\ pn <= i[2]

\* on_acked_frame: an acknowledged CRYPTO frame is credited to both handshake
\* spaces, whichever of them it was sent in.
OnAckedFrame(st, f) ==
  IF f.kind # "crypto" THEN st
  ELSE [st EXCEPT !.spaces = [s \in Spaces |->
          IF s \in CryptoSpaces /\ f.end > @[s].acked /\ f.end <= Len(@[s].written)
          THEN [@[s] EXCEPT !.acked = f.end] ELSE @[s]]]

\* on_lost_frame: sending resumes at the start of the lost frame, and the
\* window is halved unless a recovery period is on (`cut`, a matter of time).
OnLostFrame(st, s, f, cut) ==
  LET st2 == IF f.kind = "crypto" /\ f.off < st.spaces[s].csent
             THEN [st EXCEPT !.spaces[s].csent = f.off] ELSE st
  IN IF cut THEN [st2 EXCEPT !.cwnd = Max({@ \div 2, MinCwnd})] ELSE st2

SettleNone(st, gone) == st.in_flight
\* The packets an ACK settles, acknowledged or lost, are no longer in flight.
Settle(st, gone) == st.in_flight - Min({gone, st.in_flight})

\* on_ack: the covered packets are acknowledged; of the others the oldest
\* `old` ones were sent more than 9/8 of a round trip ago and are lost.
OnAck(st, s, A, old, cut) ==
  LET covered(p) == AckCovers(AckIntervals(A), p.pn)
      sent == st.spaces[s].sent
      acked == SelectSeq(sent, covered)
      others == SelectSeq(sent, LAMBDA p : ~covered(p))
      lost == SubSeq(others, 1, Min({old, Len(others)}))
      kept == SubSeq(others, Len(lost) + 1, Len(others))
      st1 == [st EXCEPT !.spaces[s].sent = kept,
                        !.in_flight = Settle(st, Len(acked) + Len(lost)),
                        !.pto_due = FALSE]
      st2 == FoldLeft(LAMBDA x, p : OnAckedFrame(x, p.frame), st1, acked)
      st3 == FoldLeft(LAMBDA x, p : OnLostFrame(x, s, p.frame, cut), st2, lost)
  \* on_acks_cc, up to the window the instance is given
  IN [st3 EXCEPT !.cwnd = Min({@ + Len(acked), InitialCwnd})]

\* send_one, for a packet that elicits an acknowledgement.
SendOne(st, s, frame) ==
  LET sp == st.spaces[s]
      pkt == [pn |-> sp.next_pn, frame |-> frame]
  IN [st EXCEPT !.spaces[s] = [sp EXCEPT !.next_pn = @ + 1, !.sent = Append(@, pkt),
                                  !.csent = IF frame.kind = "crypto" THEN frame.end ELSE @],
                !.in_flight = @ + 1, !.pto_due = TRUE]
Ping == [kind |-> "ping"]

\* Where the unsent bytes begin in the buffer is crypto_sent - crypto_acked,
\* unsigned: behind the acknowledged prefix it wraps and nothing is found.
SendCrypto(st, s) ==
  LET sp == st.spaces[s]
  IN IF s \in st.keys /\ st.in_flight < st.cwnd
        /\ sp.csent < Len(sp.written) /\ sp.csent >= sp.acked
     THEN SendOne(st, s, [kind |-> "crypto", off |-> sp.csent, end |-> Len(sp.written)])
     ELSE st

\* A PING for every free place in the window: the probe's own packet arms the
\* timer that asks for the next one.
RECURSIVE SendPings(_)
SendPings(st) == IF "application" \in st.keys /\ st.pto_due /\ st.in_flight < st.cwnd
                 THEN SendPings(SendOne(st, "application", Ping)) ELSE st

\* build_outbound
BuildOutbound(st) == IF st.closed # "no" THEN st
                     ELSE SendPings(SendCrypto(SendCrypto(st, "initial"), "handshake"))

----------------------------------------------------------------------------
(* The driver thread                                                       *)

Running == c.closed = "no"
Received(s) == {n \in 0 .. 9 : n < c.spaces[s].next_pn}   \* what the server may have

Arrive(st) == /\ Running
              /\ arrivals < MaxArrivals
              /\ arrivals' = arrivals + 1
              /\ c' = BuildOutbound(st)
              /\ UNCHANGED <<flight, probes, waiter>>

\* A packet of a space whose key is not installed is dropped (and not acknowledged).
ProcessPacket(s, st) == Arrive(IF s \in c.keys THEN st ELSE c)

\* The server answers only once it has heard the ClientHello.
Heard == c.spaces["initial"].next_pn > 0
ArriveServerHello == /\ Heard
                     /\ ProcessPacket("initial", OnCrypto(c, "initial", 0, <<"SH">>, FALSE))
ArriveFlight == /\ Heard
                /\ \E a \in 1 .. Len(flight), parses \in BOOLEAN : \E b \in a .. Len(flight) :
                     ProcessPacket("handshake",
                                   OnCrypto(c, "handshake", a - 1, SubSeq(flight, a, b), parses))
\* NewSessionTicket comes in a CRYPTO frame of the application space.
ArriveTicket == /\ c.complete
                /\ ProcessPacket("application", OnCrypto(c, "application", 0, <<"NST">>, FALSE))
ArriveAck == \E s \in Spaces, old \in 0 .. 2, cut \in BOOLEAN :
               \E A \in SUBSET Received(s) \ {{}} :
                 ProcessPacket(s, OnAck(c, s, A, old, cut))
\* The acknowledgement of the ClientHello and the ServerHello in one packet.
ArriveHelloAndAck == /\ Heard
                     /\ ProcessPacket("initial",
                          OnAck(OnCrypto(c, "initial", 0, <<"SH">>, FALSE), "initial", {0}, 0, FALSE))
ArriveDone == /\ c.complete
              /\ ProcessPacket("application",
                   [c EXCEPT !.confirmed = TRUE, !.keys = @ \ {"initial", "handshake"}])
ArriveClose == Arrive([c EXCEPT !.closed = "peer"])
ArriveVersionNegotiation == Arrive(ProcessFatal(c))
\* Not ours, not authentic, a duplicate, or shorter than the obfuscation's salt.
ArriveJunk == Arrive(c)
\* process_retry, in answer to the first Initial: the space starts afresh
\* while its packets stay counted as in flight.
ArriveRetry == /\ Heard /\ arrivals = 0
               /\ Arrive([c EXCEPT !.spaces["initial"] = [Space EXCEPT !.written = ClientHello],
                                   !.tls = ResetAfterRetry(@),
                                   !.leaked = @ + Len(c.spaces["initial"].sent)])

Tick(st) == /\ Running
            /\ c' = BuildOutbound(st)
            /\ UNCHANGED <<flight, arrivals, waiter>>
\* on_timer, handshake_timeout
HandshakeTimeout == /\ ~c.complete
                    /\ Tick([c EXCEPT !.closed = "timeout"])
                    /\ UNCHANGED probes
\* on_timer with nothing due; the first one sends the ClientHello.
Poll == /\ Tick(c)
        /\ UNCHANGED probes
\* on_timer, pto_due: the oldest packet of the highest space in use is
\* treated as lost, but stays in flight.
SendProbe ==
  /\ c.pto_due
  /\ probes < MaxProbes
  /\ probes' = probes + 1
  /\ \E cut \in BOOLEAN :
       LET live(s) == s \in c.keys /\ c.spaces[s].sent # << >>
           s == IF live("application") THEN "application"
                ELSE IF live("handshake") THEN "handshake" ELSE "initial"
       IN Tick(IF live(s) THEN OnLostFrame(c, s, Head(c.spaces[s].sent).frame, cut) ELSE c)

WaitForKeysOnly == /\ waiter = "waiting"
                   /\ c.complete
                   /\ waiter' = "connected"
                   /\ UNCHANGED <<c, flight, arrivals, probes>>
\* wait_handshake looks at the state every CONN_POLL.
WaitHandshake == /\ waiter = "waiting"
                 /\ c.complete \/ ~Running
                 /\ waiter' = IF c.complete THEN "connected" ELSE "error"
                 /\ UNCHANGED <<c, flight, arrivals, probes>>
\* ClientConnection::close
Close == /\ waiter = "connected" /\ Running
         /\ c' = [c EXCEPT !.closed = "local"]
         /\ UNCHANGED <<flight, arrivals, probes, waiter>>

Init == /\ c = Start
        /\ flight \in Flights
        /\ arrivals = 0
        /\ probes = 0
        /\ waiter = "waiting"

Arrivals == \/ ArriveServerHello \/ ArriveFlight \/ ArriveTicket \/ ArriveAck
            \/ ArriveHelloAndAck \/ ArriveDone \/ ArriveClose
            \/ ArriveVersionNegotiation \/ ArriveJunk \/ ArriveRetry
Next == Arrivals \/ HandshakeTimeout \/ Poll \/ SendProbe \/ WaitHandshake \/ Close

\* The driver polls for ever and the waiter with it; nothing is assumed of
\* the server but that it is silent in the end (MaxArrivals), since every
\* datagram, junk included, restarts the handshake timeout.
Spec == Init /\ [][Next]_vars /\ WF_vars(HandshakeTimeout) /\ WF_vars(WaitHandshake)

----------------------------------------------------------------------------
(* Properties                                                              *)

\* However its flight was cut into frames, repeated or overtaken, a handshake
\* that completes has read the server's messages each once and in order, and
\* the server has shown a certificate and proved its key.
CompleteIsGenuine ==
  c.complete => c.tls.log = <<"CH", "SH", "EE", "C1", "C2", "CV", "FIN">>

\* What counts against the congestion window is exactly what is awaiting an
\* acknowledgement, but for the packets a Retry discarded, which are never
\* taken off again.
InFlightIsTracked ==
  c.in_flight = c.leaked + Len(c.spaces["initial"].sent)
                 + Len(c.spaces["handshake"].sent) + Len(c.spaces["application"].sent)

\* The thread that waits for the handshake is answered.
Owed == waiter = "waiting"
ConnectReturns == <>[]~Owed

\* "Queued crypto-stream bytes to send (the client Finished)" (tls13.rs:415):
\* in the Handshake space the client says its Finished and nothing else.
FlightIsFinished == IsPrefix(c.spaces["handshake"].written, <<"FIN">>)
============================================================================
