---------------------------- MODULE MCProtocols ----------------------------
(*****************************************************************************)
(* The protocols of the outbounds. The components share nothing here:        *)
(* `which` says which of them a behaviour is about and the slots hold its    *)
(* variables. FramedStreams, which this module extends, keeps its own        *)
(* variables and stands still, on a stream that carries nothing, while       *)
(* another component runs.                                                   *)
(*****************************************************************************)
EXTENDS FramedStreams, FiniteSets

VARIABLES which,  \* the component that runs
          s1, s2, s3, s4, s5, s6, s7, s8, s9, s10, s11, s12, s13, s14, s15, s16, s17, s18,
          s19, s20, s21, s22
          \* the state of that component

\* The slots from the i-th on, and these slots unused.
From22 == <<s22>>
From21 == <<s21, From22>>
From20 == <<s20, From21>>
From19 == <<s19, From20>>
From18 == <<s18, From19>>
From17 == <<s17, From18>>
From16 == <<s16, From17>>
From15 == <<s15, From16>>
From14 == <<s14, From15>>
From13 == <<s13, From14>>
From12 == <<s12, From13>>
From11 == <<s11, From12>>
From10 == <<s10, From11>>
From9 == <<s9, From10>>
From8 == <<s8, From9>>
From7 == <<s7, From8>>
From6 == <<s6, From7>>
From5 == <<s5, From6>>
From4 == <<s4, From5>>
From3 == <<s3, From4>>
From2 == <<s2, From3>>
From1 == <<s1, From2>>

Blank22 == s22 = 0
Blank21 == s21 = 0 /\ Blank22
Blank20 == s20 = 0 /\ Blank21
Blank19 == s19 = 0 /\ Blank20
Blank18 == s18 = 0 /\ Blank19
Blank17 == s17 = 0 /\ Blank18
Blank16 == s16 = 0 /\ Blank17
Blank15 == s15 = 0 /\ Blank16
Blank14 == s14 = 0 /\ Blank15
Blank13 == s13 = 0 /\ Blank14
Blank12 == s12 = 0 /\ Blank13
Blank11 == s11 = 0 /\ Blank12
Blank10 == s10 = 0 /\ Blank11
Blank9 == s9 = 0 /\ Blank10
Blank8 == s8 = 0 /\ Blank9
Blank7 == s7 = 0 /\ Blank8
Blank6 == s6 = 0 /\ Blank7
Blank5 == s5 = 0 /\ Blank6
Blank4 == s4 = 0 /\ Blank5
Blank3 == s3 = 0 /\ Blank4
Blank2 == s2 = 0 /\ Blank3
Blank1 == s1 = 0 /\ Blank2

CONSTANT NoOne   \* nobody holds a lock

Standing == Init /\ codec = "ws"

Dialogs == INSTANCE OutboundDialogs WITH
  Protocols <- {"socks4", "socks5", "http", "trojan", "vless", "vmess", "ss", "ssr", "snell", "shadowtls"},
  MaxHead <- 5, Data <- <<"d1", "d2">>,
  conf <- s1, pc <- s2, armed <- s3, ask <- s4, inbox <- s5, closed <- s6, server <- s7,
  said <- s8, prefix <- s9, delivered <- s10
ASSUME DialogsDialogsAssumption == Dialogs!DialogsAssumption

Handshake == INSTANCE QuicHandshake WITH
  MaxArrivals <- 5, MaxProbes <- 1, InitialCwnd <- 4, MinCwnd <- 2,
  c <- s1, flight <- s2, arrivals <- s3, probes <- s4, waiter <- s5

Streams == INSTANCE QuicStreams WITH
  Bytes <- 4, Cuts <- {1, 3}, Window <- 4, MaxRecvBuffer <- 8, MaxSendBuffer <- 1,
  MaxDatagramQueue <- 1, MaxDatagrams <- 2, Resplits <- {TRUE, FALSE},
  resplit <- s1, keepAlive <- s2, user <- s3, known <- s4, prefix <- s5, contig <- s6,
  gaps <- s7, fin <- s8, window <- s9, advertised <- s10, totalRecv <- s11,
  granted <- s12, arrived <- s13, read <- s14, rx <- s15, tx <- s16, sentDgrams <- s17,
  gotDgrams <- s18, credit <- s19, local <- s20, closed <- s21, pc <- s22

Quic == INSTANCE QuicOutbounds WITH
  Protocols <- {"hysteria", "hysteria2", "tuic"}, Callers <- {"c1", "c2"}, NoOne <- NoOne,
  MaxConns <- 2, MaxPackets <- 2, MaxPending <- 2, MaxBytes <- 3,
  proto <- s1, lock <- s2, slot <- s3, conns <- s4, pc <- s5, op <- s6, mine <- s7,
  sent <- s8, arrived <- s9, pending <- s10, bytes <- s11, reply <- s12

Wg == INSTANCE WireGuard WITH
  Callers <- {"c1", "c2"}, MaxCalls <- 2, MaxReads <- 2, MaxSessions <- 2, MaxNonce <- 2,
  WindowSize <- 2, Peers <- {"same", "otherPsk"},
  peer <- s1, tunnel <- s2, socket <- s3, tlock <- s4, slock <- s5, expired <- s6,
  sessions <- s7, filter <- s8, pc <- s9, op <- s10, calls <- s11, reads <- s12,
  packet <- s13, accepted <- s14, exact <- s15
ASSUME WgWgAssumption == Wg!WgAssumption

Naive == INSTANCE NaiveTunnel WITH
  Window <- 3, Threshold <- 2, NewWindows <- {0, 4}, MaxDown <- 4, MaxUp <- 4,
  MaxControl <- 2, MaxRead <- 2,
  wire <- s1, server <- s2, status <- s3, ready <- s4, consumed <- s5, uncredited <- s6,
  sWin <- s7, cWin <- s8, initial <- s9, closed <- s10, call <- s11, written <- s12,
  controls <- s13, overrun <- s14

-----------------------------------------------------------------------------
ProtocolsInit ==
  \/ which = "framed" /\ Init /\ Blank1
  \/ which = "dialogs" /\ Dialogs!Init /\ Blank11 /\ Standing
  \/ which = "handshake" /\ Handshake!Init /\ Blank6 /\ Standing
  \/ which = "streams" /\ Streams!Init /\ Standing
  \/ which = "quic" /\ Quic!Init /\ Blank13 /\ Standing
  \/ which = "wireguard" /\ Wg!Init /\ Blank16 /\ Standing
  \/ which = "naive" /\ Naive!Init /\ Blank15 /\ Standing

ProtocolsNext ==
  \/ which = "framed" /\ Next /\ UNCHANGED <<which, From1>>
  \/ which = "dialogs" /\ Dialogs!Next /\ UNCHANGED <<which, From11, vars>>
  \/ which = "handshake" /\ Handshake!Next /\ UNCHANGED <<which, From6, vars>>
  \/ which = "streams" /\ Streams!Next /\ UNCHANGED <<which, vars>>
  \/ which = "quic" /\ Quic!Next /\ UNCHANGED <<which, From13, vars>>
  \/ which = "wireguard" /\ Wg!Next /\ UNCHANGED <<which, From16, vars>>
  \/ which = "naive" /\ Naive!Next /\ UNCHANGED <<which, From15, vars>>

slots == <<which, From1, vars>>

dialogsVars == Dialogs!vars
handshakeVars == Handshake!vars
streamsVars == Streams!vars
quicVars == Quic!vars
wgVars == Wg!vars
naiveVars == Naive!vars

\* The fairness of the components, as they state it.
ProtocolsFairness ==
  /\ WF_vars(which = "framed" /\ Reading)
  /\ WF_dialogsVars(which = "dialogs" /\ Dialogs!Client)
  /\ WF_handshakeVars(which = "handshake" /\ Handshake!HandshakeTimeout)
  /\ WF_handshakeVars(which = "handshake" /\ Handshake!WaitHandshake)
  /\ WF_streamsVars(which = "streams" /\ Streams!ReadStream)
  /\ WF_streamsVars(which = "streams" /\ Streams!AcceptUni)
  /\ WF_streamsVars(which = "streams" /\ Streams!ReadDatagram)
  /\ WF_streamsVars(which = "streams" /\ Streams!OpenBi)
  /\ WF_streamsVars(which = "streams" /\ Streams!Flush)
  /\ WF_streamsVars(which = "streams" /\ Streams!BuildOutbound)
  /\ \A i \in {"c1", "c2"} :
       /\ WF_quicVars(which = "quic" /\ Quic!Step(i))
       /\ WF_wgVars(which = "wireguard" /\ Wg!Acquire(i))
       /\ WF_wgVars(which = "wireguard" /\ Wg!Proceed(i))
  /\ WF_naiveVars(which = "naive" /\ Naive!ClientStep)
  /\ SF_naiveVars(which = "naive" /\ Naive!ConnectTurn(TRUE))
  /\ SF_naiveVars(which = "naive" /\ Naive!WriteWaits(TRUE))
  /\ WF_naiveVars(which = "naive" /\ \E n \in 1 .. 2 : Naive!ServerData(n, 0, FALSE))

ProtocolsSpec == ProtocolsInit /\ [][ProtocolsNext]_slots /\ ProtocolsFairness

-----------------------------------------------------------------------------
(* The components' properties, each for the behaviours of its component.   *)

\* What the relay hands to the client is what the target said, from its
\* first byte, through a server that took the request (engine/outbound/).
DialogIsClean == which = "dialogs" => Dialogs!TunnelIsClean

\* A completed QUIC handshake is the server's own, what is in flight is
\* tracked, and streams and datagrams keep their order (protocol/quic/);
\* nothing is sent on a connection that is not authenticated, and fragments
\* are counted and put together right (engine/outbound/hysteria*.rs, tuic.rs).
QuicIsSound ==
  /\ which = "handshake" => Handshake!CompleteIsGenuine /\ Handshake!InFlightIsTracked
  /\ which = "streams" => Streams!DeliveredInOrder
  /\ which = "quic" => Quic!UsedAuthenticated /\ Quic!BytesAreExact /\ Quic!AnswerIsWhole

\* Both ends of a WireGuard session hold the same keys, and each packet of
\* the server is taken once; no byte of an HTTP/2 window is lost or given
\* twice (protocol/wireguard/, engine/outbound/naive.rs).
TunnelsAreKept == /\ which = "wireguard" => Wg!KeysAgree /\ Wg!ReplayIsExact
                  /\ which = "naive" => Naive!WindowsAreKept

\* What each component still owes.
ProtocolsOwe ==
  CASE which = "framed" -> Unread
    [] which = "dialogs" -> Dialogs!Owed
    [] which = "handshake" -> Handshake!Owed
    [] which = "streams" -> Streams!Unread \/ Streams!Unreleased
    [] which = "quic" -> Quic!Owed
    [] which = "wireguard" -> Wg!Owed
    [] which = "naive" -> Naive!Owed

\* Nothing is owed for ever: a read ends once the peer has closed, a dial, a
\* handshake and a call on a shared connection return, a stream that arrived
\* whole is read, a closed connection lets its threads go, and a tunnel
\* whose server keeps to the protocol carries all its bytes.
ProtocolsSettle == <>[]~ProtocolsOwe
=============================================================================
