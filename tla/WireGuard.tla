------------------------------ MODULE WireGuard ------------------------------
(***************************************************************************)
(* The WireGuard outbound: one tunnel and one socket in two mutexes,       *)
(* shared by every relay, every latency test and `disconnect`; the         *)
(* handshake of `protocol::wireguard`, symbolically; and the replay filter *)
(* of a session.  Packets of the server are lost, duplicated and           *)
(* reordered: a read of the socket returns any of them, or times out.      *)
(***************************************************************************)
EXTENDS Naturals, FiniteSets, Sequences

CONSTANTS
    Callers,        \* threads that use the outbound
    MaxCalls,       \* bound: calls they make between them
    MaxReads,       \* bound: one-second reads that fit into the 30 s deadline
    MaxSessions,    \* bound: sessions ever established
    MaxNonce,       \* bound: nonces of the server's packets
    WindowSize,     \* REPLAY_WINDOW_SIZE, scaled down
    Peers           \* what the server may be: subset of {"same", "otherPsk"}

Ops == {"udp", "tcp", "ping", "disconnect"}
Nobody == "nobody"
None == 0

WgAssumption ==
    /\ Nobody \notin Callers
    /\ MaxSessions \in Nat /\ MaxNonce \in Nat /\ WindowSize \in Nat \ {0}

VARIABLES
    peer,       \* the server's configuration, fixed
    tunnel,     \* the tunnel mutex's value: a session, or None
    socket,     \* the socket mutex's value: the session it was made for
    tlock,      \* holder of the tunnel mutex
    slock,      \* holder of the socket mutex
    expired,    \* sessions older than REJECT_AFTER_TIME
    sessions,   \* sessions established so far
    filter,     \* filter[s]: the replay filter of session s
    pc, op, calls, reads, packet,   \* per caller
    accepted,   \* history: the packets whose plaintext was handed out
    exact       \* history: the filter's answers so far were what they should be

lockVars == <<tunnel, socket, tlock, slock, expired, sessions>>
callVars == <<pc, op, calls, reads, packet>>
dataVars == <<filter, accepted, exact>>
vars == <<peer, lockVars, callVars, dataVars>>
---------------------------------------------------------------------------
(* The handshake, with terms for keys: a chaining key is the sequence of    *)
(* what was mixed into it, a Diffie-Hellman result the set of the two key   *)
(* owners, a ciphertext the key and the transcript it was sealed with.      *)

Dh(a, b) == {a, b}
MixHash(st, x) == [st EXCEPT !.hash = Append(@, x)]
MixKey(st, x) == [st EXCEPT !.ck = Append(@, x)]
Kdf2Key(st, x) == <<st.ck, x>>
Kdf3Key(st, x) == <<"psk", st.ck, x>>
Start == [hash |-> <<"construction", "identifier", "Sr">>, ck |-> <<"construction">>]

\* create_initiation and process_initiation: the same transcript on both sides
\* (mix_key and the kdf2 that follows both take the Diffie-Hellman result).
Initiation ==
    LET s1 == MixKey(MixHash(Start, "Ei"), Dh("Ei", "Sr"))
        s2 == MixKey(s1, Dh("Ei", "Sr"))
        s3 == MixHash(s2, <<"static", Kdf2Key(s1, Dh("Ei", "Sr")), s2.hash>>)
        s4 == MixKey(s3, Dh("Si", "Sr"))
    IN MixHash(s4, <<"time", Kdf2Key(s3, Dh("Si", "Sr")), s3.hash>>)

\* Both sides mix the responder's ephemeral, two Diffie-Hellman results and
\* the preshared key.
ResponseState(psk) ==
    LET s1 == MixKey(MixKey(MixHash(Initiation, "Er"), Dh("Ei", "Er")), Dh("Si", "Er"))
    IN MixHash(MixKey(s1, psk), <<"psk-hash", Kdf3Key(s1, psk)>>)

Sealed(psk) == <<Kdf3Key(ResponseState(psk), psk), ResponseState(psk).hash>>

CreateResponse(psk) == [receiver |-> "li", sealed |-> Sealed(psk)]

\* The initiator opens the empty payload with its own transcript.
ConsumeAnyResponse(r, psk) == r.receiver = "li"
ConsumeResponse(r, psk) == r.receiver = "li" /\ r.sealed = Sealed(psk)

SendKey(psk) == <<ResponseState(psk).ck, 1>>
PeerRecvKey(psk) == <<ResponseState(psk).ck, 1>>

PeerPsk == IF peer = "same" THEN "psk" ELSE "other"

(* Noise_IKpsk2: what CONSTRUCTION names.  With a preshared key, an `e`     *)
(* token mixes the ephemeral into the chaining key as well.                 *)
NoiseChain(psk) ==
    <<"construction", "Ei", Dh("Ei", "Sr"), Dh("Si", "Sr"),
      "Er", Dh("Ei", "Er"), Dh("Si", "Er"), psk>>
---------------------------------------------------------------------------
(* ReplayFilter::check_and_record; the buffer as a set.                     *)

NewFilter == [initialized |-> FALSE, highest |-> 0, buffer |-> {}]

Record(f, n) == [f EXCEPT !.initialized = TRUE, !.highest = n, !.buffer = {n}]
AdvanceKeepsAll(f, n) == [f EXCEPT !.highest = n, !.buffer = @ \cup {n}]
Advance(f, n) == [f EXCEPT !.highest = n,
                           !.buffer = {b \in @ : b + WindowSize > n} \cup {n}]
LateUnrecorded(f, n) == f
Late(f, n) == [f EXCEPT !.buffer = @ \cup {n}]

Fresh(f, n) == \/ ~f.initialized \/ n > f.highest
               \/ f.highest - n < WindowSize /\ n \notin f.buffer

CheckAndRecord(f, n) ==
    IF ~Fresh(f, n) THEN f
    ELSE IF ~f.initialized THEN Record(f, n)
    ELSE IF n > f.highest THEN Advance(f, n)
    ELSE Late(f, n)
---------------------------------------------------------------------------
Goto(c, l) == pc' = [pc EXCEPT ![c] = l]
Unlocked(lock) == lock = Nobody
Live(s) == s # None /\ s \notin expired

\* Where a relay goes on after a read: a UDP relay reads again until its
\* deadline; a TCP relay turns to its inbound stream, sends what it has as one
\* more packet, and ends with the stream.
RelayUdpAgain(c) == IF reads[c] + 1 >= MaxReads THEN "idle" ELSE "recv"
RelayTcpAgain(c) == IF reads[c] + 1 >= MaxReads THEN "idle" ELSE "send"

Call(c) ==
    /\ pc[c] = "idle" /\ calls < MaxCalls
    /\ \E o \in Ops : /\ op' = [op EXCEPT ![c] = o]
                      /\ Goto(c, IF o = "disconnect" THEN "clearTunnel" ELSE "ensure")
    /\ calls' = calls + 1
    /\ reads' = [reads EXCEPT ![c] = 0]
    /\ UNCHANGED <<peer, lockVars, dataVars, packet>>

\* ensure_tunnel: a live session is used; otherwise the mutex stays locked
\* through the handshake.
EnsureTunnel(c) ==
    /\ pc[c] = "ensure" /\ Unlocked(tlock)
    /\ IF Live(tunnel) THEN Goto(c, "send") /\ UNCHANGED tlock
       ELSE Goto(c, "handshake") /\ tlock' = c
    /\ UNCHANGED <<peer, tunnel, socket, slock, expired, sessions, dataVars,
                   op, calls, reads, packet>>

\* One initiation is sent; the first datagram that arrives decides.
HandshakeOk(c) ==
    /\ pc[c] = "handshake" /\ sessions < MaxSessions
    /\ ConsumeResponse(CreateResponse(PeerPsk), "psk")
    /\ sessions' = sessions + 1 /\ tunnel' = sessions + 1
    /\ filter' = [filter EXCEPT ![sessions + 1] = NewFilter]
    /\ Goto(c, "install")
    /\ UNCHANGED <<peer, socket, tlock, slock, expired, accepted, exact,
                   op, calls, reads, packet>>

\* No answer in 10 s, an answer that is not the response, no socket.
HandshakeFails(c) ==
    /\ pc[c] = "handshake" /\ tlock' = Nobody /\ Goto(c, "idle")
    /\ UNCHANGED <<peer, tunnel, socket, slock, expired, sessions, dataVars,
                   op, calls, reads, packet>>

\* The socket goes into its own mutex before the tunnel's is released.
InstallSocket(c) ==
    /\ pc[c] = "install" /\ Unlocked(slock)
    /\ socket' = tunnel /\ tlock' = Nobody /\ Goto(c, "send")
    /\ UNCHANGED <<peer, tunnel, slock, expired, sessions, dataVars,
                   op, calls, reads, packet>>

\* send_ip_packet, create_keepalive: encrypt under the tunnel's mutex ...
Encrypt(c) ==
    /\ pc[c] = "send" /\ Unlocked(tlock)
    /\ IF tunnel = None THEN Goto(c, "idle") /\ UNCHANGED tlock
       ELSE Goto(c, "sendSocket") /\ tlock' = c
    /\ UNCHANGED <<peer, tunnel, socket, slock, expired, sessions, dataVars,
                   op, calls, reads, packet>>

\* ... and send under both.
SendIpPacket(c) ==
    /\ pc[c] = "sendSocket" /\ Unlocked(slock)
    /\ tlock' = Nobody
    /\ Goto(c, IF socket = None \/ op[c] = "ping" THEN "idle" ELSE "recv")
    /\ UNCHANGED <<peer, tunnel, socket, slock, expired, sessions, dataVars,
                   op, calls, reads, packet>>

\* recv_ip_packet: the read of up to a second holds the socket's mutex.
RecvLock(c) ==
    /\ pc[c] = "recv" /\ Unlocked(slock)
    /\ IF socket = None THEN Goto(c, "idle") /\ UNCHANGED slock
       ELSE Goto(c, "recving") /\ slock' = c
    /\ UNCHANGED <<peer, tunnel, socket, tlock, expired, sessions, dataVars,
                   op, calls, reads, packet>>

\* The read timed out: again until the deadline (udp), or back to the inbound
\* stream, which may have ended (tcp).
RecvTimeout(c) ==
    /\ pc[c] = "recving" /\ slock' = Nobody
    /\ reads' = [reads EXCEPT ![c] = @ + 1]
    /\ Goto(c, IF op[c] = "udp" THEN RelayUdpAgain(c) ELSE RelayTcpAgain(c))
    /\ UNCHANGED <<peer, tunnel, socket, tlock, expired, sessions, dataVars,
                   op, calls, packet>>

RecvPacketKeepsLock(c) ==
    /\ pc[c] = "recving"
    /\ \E n \in 0..MaxNonce : packet' = [packet EXCEPT ![c] = <<socket, n>>]
    /\ Goto(c, "decrypt")
    /\ UNCHANGED <<peer, lockVars, dataVars, op, calls, reads>>

\* A packet of the server's for this socket; the mutex is released at once.
RecvPacket(c) ==
    /\ pc[c] = "recving" /\ slock' = Nobody
    /\ \E n \in 0..MaxNonce : packet' = [packet EXCEPT ![c] = <<socket, n>>]
    /\ Goto(c, "decrypt")
    /\ UNCHANGED <<peer, tunnel, socket, tlock, expired, sessions, dataVars,
                   op, calls, reads>>

\* decrypt_packet under the tunnel's mutex: the receiver index names the
\* session, then the tag, then the replay filter.  Any error ends the call.
Decrypt(c) ==
    /\ pc[c] = "decrypt" /\ Unlocked(tlock)
    /\ LET s == packet[c][1]
           n == packet[c][2]
       IN IF tunnel # s
          THEN Goto(c, "idle") /\ UNCHANGED <<dataVars, reads>>
          ELSE /\ filter' = [filter EXCEPT ![s] = CheckAndRecord(@, n)]
               /\ exact' = (exact /\ Fresh(filter[s], n) =
                            (packet[c] \notin accepted /\ n + WindowSize > filter[s].highest))
               /\ reads' = [reads EXCEPT ![c] = @ + 1]
               /\ IF Fresh(filter[s], n)
                  THEN /\ accepted' = accepted \cup {packet[c]}
                       /\ Goto(c, IF op[c] = "udp" THEN "idle" ELSE RelayTcpAgain(c))
                  ELSE accepted' = accepted /\ Goto(c, "idle")
    /\ slock' = IF slock = c THEN Nobody ELSE slock
    /\ packet' = [packet EXCEPT ![c] = <<None, 0>>]
    /\ UNCHANGED <<peer, tunnel, socket, tlock, expired, sessions, op, calls>>

\* disconnect: two statements, two mutexes, one after the other.
ClearTunnel(c) ==
    /\ pc[c] = "clearTunnel" /\ Unlocked(tlock)
    /\ tunnel' = None /\ Goto(c, "clearSocket")
    /\ UNCHANGED <<peer, socket, tlock, slock, expired, sessions, dataVars,
                   op, calls, reads, packet>>
ClearSocket(c) ==
    /\ pc[c] = "clearSocket" /\ Unlocked(slock)
    /\ socket' = None /\ Goto(c, "idle")
    /\ UNCHANGED <<peer, tunnel, tlock, slock, expired, sessions, dataVars,
                   op, calls, reads, packet>>

\* The session grows older than REJECT_AFTER_TIME.
Expire ==
    /\ Live(tunnel) /\ expired' = expired \cup {tunnel}
    /\ UNCHANGED <<peer, tunnel, socket, tlock, slock, sessions, callVars, dataVars>>
---------------------------------------------------------------------------
Init ==
    /\ peer \in Peers
    /\ tunnel = None /\ socket = None /\ tlock = Nobody /\ slock = Nobody
    /\ expired = {} /\ sessions = 0
    /\ filter = [s \in 1..MaxSessions |-> NewFilter]
    /\ pc = [c \in Callers |-> "idle"] /\ op = [c \in Callers |-> "udp"]
    /\ calls = 0 /\ reads = [c \in Callers |-> 0]
    /\ packet = [c \in Callers |-> <<None, 0>>]
    /\ accepted = {} /\ exact = TRUE

\* Steps that wait for a mutex, and the others.
Acquire(c) == EnsureTunnel(c) \/ InstallSocket(c) \/ Encrypt(c) \/ SendIpPacket(c)
              \/ RecvLock(c) \/ Decrypt(c) \/ ClearTunnel(c) \/ ClearSocket(c)
Proceed(c) == HandshakeOk(c) \/ HandshakeFails(c) \/ RecvTimeout(c) \/ RecvPacket(c)

Next == Expire \/ \E c \in Callers : Call(c) \/ Acquire(c) \/ Proceed(c)

\* Threads run; their calls are bounded, so a mutex that one of them waits for
\* is left alone in the end: weak fairness is enough.
Spec == Init /\ [][Next]_vars
        /\ \A c \in Callers : WF_vars(Acquire(c)) /\ WF_vars(Proceed(c))
---------------------------------------------------------------------------
(* A session exists only where both ends derived the same keys from the     *)
(* handshake: same statics, ephemerals and preshared key.                   *)
KeysAgree == tunnel # None => SendKey("psk") = PeerRecvKey(PeerPsk)

(* The replay filter accepts a packet exactly when it is fresh: never       *)
(* handed out before and inside the window of the highest nonce (mod.rs:    *)
(* 66-70), however often and in whatever order datagrams arrive, and its    *)
(* buffer of REPLAY_WINDOW_SIZE entries is never overrun.                   *)
ReplayIsExact ==
    /\ exact
    /\ \A s \in 1..MaxSessions : Cardinality(filter[s].buffer) <= WindowSize

(* Every call on the outbound returns, whatever else holds the two mutexes. *)
Owed == \E c \in Callers : pc[c] # "idle"
WgCallsReturn == <>[]~Owed

(* The handshake is the one its CONSTRUCTION string names.                  *)
HandshakeIsNoise == tunnel # None => ResponseState("psk").ck = NoiseChain("psk")
=============================================================================
