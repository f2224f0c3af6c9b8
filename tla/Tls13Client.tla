----------------------------- MODULE Tls13Client -----------------------------
(***************************************************************************)
(* The in-repository TLS 1.3 client (protocol/tls13) and the three         *)
(* profiles that use it: a browser fingerprint (engine/tls.rs), REALITY    *)
(* (protocol/reality), whose hook seals an authenticator into the session  *)
(* id and whose proof replaces the certificate chain, and ShadowTLS        *)
(* (engine/outbound/shadowtls.rs), whose hook signs the session id and     *)
(* whose server wraps the records of the camouflage handshake.             *)
(*                                                                         *)
(* Cryptography is symbolic: a signature or MAC is the transcript it       *)
(* covers, a key its generation (0 for the handshake, then one per         *)
(* KeyUpdate), a sealed record the key and number it was sealed with.  A   *)
(* handshake message has two halves, so that records can split it.         *)
(***************************************************************************)
EXTENDS Naturals, Sequences

CONSTANTS Profiles,   \* subset of {"fingerprint", "reality", "shadowtls"}
          Servers,    \* "peer" knows the shared secret, "site" is the decoy
          MaxOddities, \* bound of the server's deviations from RFC 8446
          MaxFlight,  \* bound of the server's handshake messages
          MaxRecords, \* bound of the records of the data phase
          MaxWire,    \* bound of the records on the wire
          Splits,     \* the server may split post-handshake messages
          Polls       \* the socket's read timeout may pass during an idle spell

VARIABLES profile, server,
          wire,   \* records to the client
          back,   \* records to the server
          client, \* the client's state
          srv,    \* the server's state
          odd,    \* how often the server has deviated
          sent    \* records of the data phase so far

vars == <<profile, server, wire, back, client, srv, odd, sent>>

Hooked == profile \in {"reality", "shadowtls"}
Rec(gen, seq, inner, halves) == [gen |-> gen, seq |-> seq, inner |-> inner, halves |-> halves]

\* HandshakeSecrets, AppSecrets and the traffic updates.
HandshakeKey == 0
ApplicationKey == HandshakeKey + 1
NextTrafficSecret(gen) == gen + 1

\* A signature or a Finished is good for the transcript it was made over.
Proves(m, transcript) == m.good /\ m.over = transcript

-----------------------------------------------------------------------------
(* connect: the hello.                                                     *)

\* seal_session_id, SessionIdSigner: the hook rewrites the session id.
SessionIdOnWire == IF Hooked THEN "sealed" ELSE "zero"

\* The id the echo is compared with is copied before the hook runs.
SentSessionId == "zero"

Init ==
    /\ profile \in Profiles /\ server \in Servers
    /\ wire = <<>> /\ back = <<>>
    /\ client = [pc |-> "hello", pending |-> <<>>, transcript |-> <<"ch">>, ee |-> FALSE, cert |-> "none",
                 cv |-> FALSE, rGen |-> HandshakeKey, rSeq |-> 0, wGen |-> HandshakeKey, wSeq |-> 0,
                 owes |-> FALSE, closed |-> FALSE, end |-> "-"]
    /\ srv = [pc |-> "hello", transcript |-> <<"ch">>, out |-> <<>>, msgs |-> 0, wGen |-> 0, wSeq |-> 0,
              rGen |-> 0, rSeq |-> 0, asked |-> 0, failed |-> FALSE, log |-> <<>>]
    /\ odd = 0 /\ sent = 0

Fail(why) == client' = [client EXCEPT !.pc = "failed", !.end = why]

-----------------------------------------------------------------------------
(* The server, honest or not.                                              *)

Deviates == odd < MaxOddities /\ odd' = odd + 1

\* ServerHello: it echoes the session id it got; suite, key share and version
\* are as offered (good) or not.
ServerHello(echo, good) ==
    /\ srv.pc = "hello"
    /\ IF echo = SessionIdOnWire /\ good THEN UNCHANGED odd ELSE Deviates
    /\ wire' = Append(wire, [gen |-> 9, seq |-> 0, inner |-> echo, halves |-> <<good>>])
    /\ srv' = [srv EXCEPT !.pc = "flight", !.transcript = Append(@, "sh")]
    /\ UNCHANGED <<profile, server, back, client, sent>>

HonestOrder == <<"ee", "cert", "cv", "fin">>

\* One message of the flight: the next one in order and good, or a deviation.
ServerSays(t, good) ==
    /\ srv.pc = "flight" /\ srv.msgs < MaxFlight
    /\ IF good /\ Len(srv.log) < 4 /\ t = HonestOrder[Len(srv.log) + 1] THEN UNCHANGED odd ELSE Deviates
    /\ LET m == [t |-> t, good |-> good, over |-> srv.transcript]
       IN  srv' = [srv EXCEPT !.out = @ \o << [m |-> m, half |-> 1], [m |-> m, half |-> 2] >>,
                              !.transcript = Append(@, t), !.msgs = @ + 1,
                              !.log = IF Len(@) < 4 /\ t = HonestOrder[Len(@) + 1] THEN Append(@, t) ELSE @,
                              !.pc = IF t = "fin" THEN "finished" ELSE "flight"]
    /\ UNCHANGED <<profile, server, wire, back, client, sent>>

\* One record with some halves of what is waiting, under the handshake key.
ServerFlushes(n) ==
    /\ n <= Len(srv.out) /\ Len(wire) < MaxWire
    /\ wire' = Append(wire, Rec(0, srv.wSeq, "handshake", SubSeq(srv.out, 1, n)))
    /\ srv' = [srv EXCEPT !.out = SubSeq(@, n + 1, Len(@)), !.wSeq = @ + 1]
    /\ UNCHANGED <<profile, server, back, client, odd, sent>>

\* It has sent its flight: application keys.
ServerSwitches ==
    /\ srv.pc = "finished" /\ srv.out = <<>>
    /\ srv' = [srv EXCEPT !.pc = "open", !.wGen = 1, !.wSeq = 0]
    /\ UNCHANGED <<profile, server, wire, back, client, odd, sent>>

\* The data phase: data, a ticket, a KeyUpdate (and the new key), close_notify.
ServerSends(kind, split) ==
    /\ srv.pc = "open" /\ sent < MaxRecords /\ Len(wire) < MaxWire
    /\ split => (Splits /\ kind = "nst")
    /\ sent' = sent + 1
    /\ LET m == [t |-> kind, good |-> TRUE, over |-> <<>>]
           inner == IF kind \in {"data", "close"} THEN kind ELSE "handshake"
           one == Rec(srv.wGen, srv.wSeq, inner, << [m |-> m, half |-> 1], [m |-> m, half |-> 2] >>)
           two == << Rec(srv.wGen, srv.wSeq, inner, << [m |-> m, half |-> 1] >>),
                     Rec(srv.wGen, srv.wSeq + 1, inner, << [m |-> m, half |-> 2] >>) >>
           update == kind \in {"ku", "kuAsk"}
       IN  /\ wire' = IF split THEN wire \o two ELSE Append(wire, one)
           /\ srv' = [srv EXCEPT !.wGen = IF update THEN @ + 1 ELSE @,
                                 !.wSeq = IF update THEN 0 ELSE IF split THEN @ + 2 ELSE @ + 1,
                                 !.asked = IF kind = "kuAsk" THEN @ + 1 ELSE @,
                                 !.pc = IF kind = "close" THEN "closed" ELSE @]
    /\ UNCHANGED <<profile, server, back, client, odd>>

\* It opens what the client has sealed, in order.
ServerReads ==
    /\ back # <<>>
    /\ LET r == Head(back)
       IN  srv' = IF r.gen # srv.rGen \/ r.seq # srv.rSeq THEN [srv EXCEPT !.failed = TRUE]
                  ELSE IF r.inner \in {"fin", "ku"} THEN [srv EXCEPT !.rGen = @ + 1, !.rSeq = 0]
                  ELSE [srv EXCEPT !.rSeq = @ + 1]
    /\ back' = Tail(back)
    /\ UNCHANGED <<profile, server, wire, client, odd, sent>>

-----------------------------------------------------------------------------
(* The handshake of the client.                                            *)

\* parse_server_hello and the echo.
OnServerHello ==
    /\ client.pc = "hello" /\ wire # <<>>
    /\ wire' = Tail(wire)
    /\ IF ~Head(wire).halves[1] THEN Fail("hello")
       ELSE IF Head(wire).inner # SentSessionId THEN Fail("echo")
       ELSE client' = [client EXCEPT !.pc = "flight", !.transcript = Append(@, "sh")]
    /\ UNCHANGED <<profile, server, back, srv, odd, sent>>

\* RecordProtector::open: the record's key and number are the reader's.
Opens(r) == r.gen = client.rGen /\ r.seq = client.rSeq

\* HandshakeReader::prepare: the wrapping of a ShadowTLS server.
Unwraps == profile = "shadowtls" => server = "peer"

\* verify_certificate: the chain, or the REALITY proof.
VerifyCertificate(m) == m.good /\ (profile = "reality" => server = "peer")

\* A record of the flight: its bytes join the pending ones.
ReadFlight ==
    /\ client.pc = "flight" /\ wire # <<>> /\ Len(client.pending) < 2
    /\ wire' = Tail(wire)
    /\ IF Opens(Head(wire)) /\ Unwraps
         THEN client' = [client EXCEPT !.pending = @ \o Head(wire).halves, !.rSeq = @ + 1]
         ELSE Fail("record")
    /\ UNCHANGED <<profile, server, back, srv, odd, sent>>

OnEncryptedExtensions(c, m) ==
    IF c.ee \/ ~m.good THEN [c EXCEPT !.pc = "failed"]
    ELSE [c EXCEPT !.ee = TRUE, !.transcript = Append(@, "ee")]
OnCertificate(c, m) ==
    IF c.cert # "none" \/ ~VerifyCertificate(m) THEN [c EXCEPT !.pc = "failed"]
    ELSE [c EXCEPT !.cert = "verified", !.transcript = Append(@, "cert")]
OnCertificateVerify(c, m) ==
    IF c.cv \/ c.cert = "none" \/ ~Proves(m, c.transcript) THEN [c EXCEPT !.pc = "failed"]
    ELSE [c EXCEPT !.cv = TRUE, !.transcript = Append(@, "cv")]
OnFinished(c, m) ==
    IF ~Proves(m, c.transcript) THEN [c EXCEPT !.pc = "failed"]
    ELSE [c EXCEPT !.pc = "finish"]

\* read_hs_message: one whole message leaves the pending bytes.  A ticket is
\* skipped; a KeyUpdate or anything else is an error.
OnMessage(c, m) ==
    CASE m.t = "ee" -> OnEncryptedExtensions(c, m)
      [] m.t = "cert" -> OnCertificate(c, m)
      [] m.t = "cv" -> OnCertificateVerify(c, m)
      [] m.t = "fin" -> OnFinished(c, m)
      [] m.t = "nst" -> c
      [] OTHER -> [c EXCEPT !.pc = "failed"]
HandleMessage ==
    /\ client.pc = "flight" /\ Len(client.pending) >= 2
    /\ LET rest == [client EXCEPT !.pending = SubSeq(@, 3, Len(@))]
       IN  client' = [OnMessage(rest, client.pending[1].m) EXCEPT !.end = IF @ = "-" THEN "message" ELSE @]
    /\ UNCHANGED <<profile, server, wire, back, srv, odd, sent>>

\* Mutation: a Certificate is enough.
RequireCertificate == client.cert # "none"

RequireCertificateVerify == client.cert # "none" /\ client.cv

\* RecordProtector::rekey.
Rekeyed(gen) == [gen |-> gen, seq |-> 0]

\* The client's Finished goes out under the handshake key, then both directions
\* change to the application keys.
Finish ==
    /\ client.pc = "finish"
    /\ IF ~RequireCertificateVerify THEN Fail("certificate") /\ UNCHANGED back
       ELSE /\ back' = Append(back, Rec(client.wGen, client.wSeq, "fin", <<>>))
            /\ client' = [client EXCEPT !.pc = "open", !.pending = <<>>, !.transcript = Append(@, "fin"),
                                        !.rGen = Rekeyed(ApplicationKey).gen, !.rSeq = Rekeyed(ApplicationKey).seq,
                                        !.wGen = Rekeyed(ApplicationKey).gen, !.wSeq = Rekeyed(ApplicationKey).seq]
    /\ UNCHANGED <<profile, server, wire, srv, odd, sent>>

-----------------------------------------------------------------------------
(* Tls13Stream.                                                            *)

\* Mutation: the new key goes on with the old numbers.
OnKeyUpdateKeepingSeq(c, asked) == [c EXCEPT !.rGen = NextTrafficSecret(@), !.owes = @ \/ asked]

\* on_post_handshake: the next key, and an answer with the next write.
OnKeyUpdate(c, asked) == [c EXCEPT !.rGen = NextTrafficSecret(@), !.rSeq = Rekeyed(@).seq, !.owes = @ \/ asked]

\* fill_plaintext.  A post-handshake record is taken on its own: the first half
\* of a message is no message, and the second is not one either.
ReadRecord ==
    /\ client.pc = "open" /\ ~client.closed /\ wire # <<>>
    /\ wire' = Tail(wire)
    /\ LET r == Head(wire)
           opened == [client EXCEPT !.rSeq = @ + 1]
       IN  IF ~Opens(r) THEN Fail("record")
           ELSE IF r.inner = "data" THEN client' = opened
           ELSE IF r.inner = "close" THEN client' = [opened EXCEPT !.closed = TRUE]
           ELSE IF Len(r.halves) = 1
             THEN client' = IF r.halves[1].half = 1 THEN opened
                            ELSE [opened EXCEPT !.pc = "failed", !.end = "message"]
           ELSE client' = IF r.halves[1].m.t = "nst" THEN opened
                          ELSE OnKeyUpdate(opened, r.halves[1].m.t = "kuAsk")
    /\ UNCHANGED <<profile, server, back, srv, odd, sent>>

\* The read times out: Tls13Error::Io becomes InvalidData, and the relay ends.
ReadTimesOut ==
    /\ Polls /\ client.pc = "open" /\ ~client.closed /\ wire = <<>>
    /\ Fail("idle")
    /\ UNCHANGED <<profile, server, wire, back, srv, odd, sent>>

\* The peer never answers, or the connection breaks, during connect.
HandshakeTimesOut ==
    /\ client.pc \in {"hello", "flight"} /\ wire = <<>>
    /\ Fail("timeout")
    /\ UNCHANGED <<profile, server, wire, back, srv, odd, sent>>

\* write: an answer that is owed first, under the old key, then the data.
WriteRecord ==
    /\ client.pc = "open" /\ sent < MaxRecords
    /\ sent' = sent + 1
    /\ IF client.owes
         THEN /\ back' = back \o << Rec(client.wGen, client.wSeq, "ku", <<>>),
                                    Rec(client.wGen + 1, 0, "data", <<>>) >>
              /\ client' = [client EXCEPT !.owes = FALSE, !.wGen = @ + 1, !.wSeq = 1]
         ELSE /\ back' = Append(back, Rec(client.wGen, client.wSeq, "data", <<>>))
              /\ client' = [client EXCEPT !.wSeq = @ + 1]
    /\ UNCHANGED <<profile, server, wire, srv, odd>>

ClientStep ==
    \/ OnServerHello
    \/ ReadFlight
    \/ HandleMessage
    \/ Finish
    \/ ReadRecord
    \/ HandshakeTimesOut

Next ==
    \/ ClientStep
    \/ ReadTimesOut
    \/ WriteRecord
    \/ \E e \in {"zero", "sealed"}, g \in BOOLEAN : ServerHello(e, g)
    \/ \E t \in {"ee", "cert", "cv", "fin", "nst", "ku"}, g \in BOOLEAN : ServerSays(t, g)
    \/ \E n \in 1 .. 3 : ServerFlushes(n)
    \/ ServerSwitches
    \/ \E k \in {"data", "nst", "ku", "kuAsk", "close"}, s \in BOOLEAN : ServerSends(k, s)
    \/ ServerReads

Spec == Init /\ [][Next]_vars

-----------------------------------------------------------------------------
(* Properties.                                                             *)

Before(s, a, b) == \E i, j \in DOMAIN s : i < j /\ s[i] = a /\ s[j] = b

(* client.rs:176-182, 327-338: a stream is handed out only when the server *)
(* proved the key of a certificate the profile accepts (of the REALITY     *)
(* peer, not of the decoy), and both ends finished over the same           *)
(* transcript, whatever the server leaves out, repeats or reorders.        *)
EstablishedIsAuthentic ==
    client.pc = "open" =>
        /\ client.transcript = srv.transcript
        /\ Before(srv.transcript, "cert", "cv") /\ Before(srv.transcript, "cv", "fin")
        /\ Hooked => server = "peer"

(* record.rs:98-103, client.rs:595-620: keys and record numbers stay in    *)
(* step in both directions through the change to the application keys and  *)
(* any number of KeyUpdates, with records and answers under way: no record *)
(* of an honest server fails to open, and it opens all of the client's.    *)
RecordsInStep == odd = 0 => client.end # "record" \/ ~Unwraps
RepliesInStep == odd = 0 => ~srv.failed
KeysInStep == RecordsInStep /\ RepliesInStep

(* client.rs:311-315: a server that echoes the session id it was sent      *)
(* (RFC 8446 4.1.3) is not refused for its echo.                           *)
EchoIsAccepted == odd = 0 => client.end # "echo"

(* reality/client.rs:275-277, tls.rs:120: "The relay reads with a bounded  *)
(* timeout so its writer thread is never starved": an idle spell is no     *)
(* error.                                                                  *)
IdleIsSurvived == client.end # "idle"
=============================================================================
