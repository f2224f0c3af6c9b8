-------------------------- MODULE OutboundDialogs --------------------------
(***************************************************************************)
(* The opening dialogue of one outbound connection: the constructor, the   *)
(* TCP dial, the wrapping of the socket (TLS, fingerprinted TLS, REALITY,  *)
(* WebSocket, ShadowTLS), the protocol's own request and the reading of    *)
(* the reply, and then either the relay, a latency probe or one UDP        *)
(* exchange.  (src/engine/outbound/*.rs, src/common/socket.rs,             *)
(* src/engine/tls.rs, src/protocol/tls/client.rs)                          *)
(*                                                                         *)
(* The server and the target behind it are the environment: they may       *)
(* accept, refuse, answer anything the wire format allows, stay silent or  *)
(* close, and the target may speak the moment it is reached, so that its   *)
(* first bytes arrive in the same segment as the reply.  A byte string is  *)
(* a sequence of units: the fields of a reply, then the target's data.     *)
(***************************************************************************)
EXTENDS Naturals, Sequences, SequencesExt, FiniteSetsExt

CONSTANTS Protocols,  \* the outbound kinds of the instance
          MaxHead,    \* MAX_HEAD of http.rs, in units
          Data        \* what the target says, in units

Kinds == {"socks4", "socks5", "http", "trojan", "vless", "vmess", "ss", "ssr", "snell", "shadowtls"}

DialogsAssumption == Protocols \subseteq Kinds /\ Data \in Seq(STRING)

VARIABLES conf,       \* what is dialled: protocol, transport, mode, target, options
          pc,         \* where the dialling thread is
          armed,      \* the socket has a read timeout
          ask,        \* the client's last message, until the server answers it
          inbox,      \* units the server sent and the client has not read
          closed,     \* the server closed its side
          server,     \* accepted: it took the request; target: what it parsed;
                      \* owes: a reply it holds back until the target speaks
          said,       \* units the target has said
          prefix,     \* bytes of the head buffer, later PrefixedStream's bytes
          delivered   \* what the relay handed to the client side, in order

vars == <<conf, pc, armed, ask, inbox, closed, server, said, prefix, delivered>>

----------------------------------------------------------------------------
(* Configuration                                                           *)

SocksNeeds == {"server", "port"}
HttpNeeds == {"server", "port"}
TrojanNeeds == {"server", "port", "secret"}
VlessNeeds == {"server", "port", "secret"}
VmessNeeds == {"server", "port", "secret"}
ShadowsocksNeeds == {"server", "port", "secret"}
SsrNeeds == {"server", "port", "secret", "method"}
SnellNeeds == {"server", "port", "secret"}
ShadowTlsNeeds == {"server", "port", "secret", "sni"}

\* The options without which the constructor refuses the profile.
Needs(p) == CASE p \in {"socks4", "socks5"} -> SocksNeeds
              [] p = "http" -> HttpNeeds
              [] p = "trojan" -> TrojanNeeds
              [] p = "vless" -> VlessNeeds
              [] p = "vmess" -> VmessNeeds
              [] p = "ss" -> ShadowsocksNeeds
              [] p = "ssr" -> SsrNeeds
              [] p = "snell" -> SnellNeeds
              [] p = "shadowtls" -> ShadowTlsNeeds

\* VmessOutbound::connect_stream
VmessTransports == {"plain", "tls", "advanced", "reality", "ws"}
\* Plugin::wrap
PluginTransports == {"plain", "obfs", "ws", "shadowtls"}

Transports(p) == CASE p \in {"socks4", "socks5", "ssr"} -> {"plain"}
                   [] p = "http" -> {"plain", "tls", "advanced", "reality"}
                   [] p \in {"trojan", "vless"} -> {"tls", "advanced", "reality"}
                   [] p = "vmess" -> VmessTransports
                   [] p = "ss" -> PluginTransports
                   [] p = "snell" -> {"plain", "obfs"}
                   [] p = "shadowtls" -> {"shadowtls"}

\* shadowtls has no probe, and only trojan and vless answer a datagram over
\* a stream dialled for it alone.
Modes(p) == {"relay"}
            \cup (IF p = "shadowtls" THEN {} ELSE {"probe"})
            \cup (IF p \in {"trojan", "vless"} THEN {"udp"} ELSE {})

Targets == {"v4", "v6", "name", "longname"}   \* longname: 256 bytes or more

----------------------------------------------------------------------------
(* What goes on the wire for a target                                      *)

TrojanAddress(t) == IF t = "longname" THEN "error" ELSE t
VlessAddress(t) == IF t = "longname" THEN "error" ELSE t
ShadowsocksAddress(t) == IF t = "longname" THEN "error" ELSE t
SsrAddress(t) == IF t = "longname" THEN "error" ELSE t
Socks4Address(t) == IF t \in {"longname", "v6"} THEN "error" ELSE t
\* `domain.len() as u8`: the length byte wraps and the server reads another name.
Socks5Address(t) == IF t = "longname" THEN "clipped" ELSE t
VmessAddress(t) == IF t = "longname" THEN "clipped" ELSE t
\* the host is cut at 255 bytes
SnellAddress(t) == IF t = "longname" THEN "clipped" ELSE t
HttpAuthority(t) == t

Wire(p, t) == CASE p = "trojan" -> TrojanAddress(t)
                [] p = "vless" -> VlessAddress(t)
                [] p = "ss" -> ShadowsocksAddress(t)
                [] p = "ssr" -> SsrAddress(t)
                [] p = "socks4" -> Socks4Address(t)
                [] p = "socks5" -> Socks5Address(t)
                [] p = "vmess" -> VmessAddress(t)
                [] p = "snell" -> SnellAddress(t)
                [] p = "http" -> HttpAuthority(t)

\* The replies a server of each kind may give: <<accepting, refusing>>.
Socks5Replies == <<{<<"ok", "v4", "a">>, <<"ok", "v6", "a", "a">>,
                    <<"ok", "host", "a", "a", "a">>, <<"ok", "other">>},
                   {<<"no", "v4", "a">>}>>
Socks4Replies == <<{<<"ok", "a">>}, {<<"no", "a">>}>>
HttpReplies == <<{<<"200", "end">>, <<"200", "field", "field", "field", "field", "end">>},
                 {<<"407", "end">>}>>
VlessReplies == <<{<<"version", "0">>, <<"version", "1", "a">>}, {<<"junk", "0">>}>>
SnellReplies == <<{<<"tunnel">>}, {<<"error", "code", "text">>}>>

\* Outbounds that wait for the server's word before the relay starts.
Answered == {"socks4", "socks5", "http", "vless", "snell"}
Replies(p) == CASE p = "socks5" -> Socks5Replies
                [] p = "socks4" -> Socks4Replies
                [] p = "http" -> HttpReplies
                [] p = "vless" -> VlessReplies
                [] p = "snell" -> SnellReplies
                [] OTHER -> <<{<< >>}, {}>>

----------------------------------------------------------------------------
(* Client                                                                  *)

Nothing == <<"nothing">>
Goto(l) == /\ pc' = l
           /\ UNCHANGED <<conf, armed, ask, inbox, closed, server, said, prefix, delivered>>
Write(m, l) == /\ ask' = m
               /\ pc' = l
               /\ UNCHANGED <<conf, armed, inbox, closed, server, said, prefix, delivered>>

Init == /\ conf \in {c \in [protocol : Protocols,
                            transport : UNION {Transports(p) : p \in Protocols},
                            mode : {"relay", "probe", "udp"}, target : Targets,
                            complete : BOOLEAN, creds : BOOLEAN] :
                     /\ c.transport \in Transports(c.protocol)
                     /\ c.mode \in Modes(c.protocol)
                     /\ c.creds => c.protocol = "socks5"
                     /\ c.mode = "probe" => c.target \in {"name", "longname"}
                     \* an incomplete profile goes no further than its constructor
                     /\ ~c.complete => c.mode = "relay" /\ c.target = "v4"}
        /\ pc = "new"
        /\ armed = FALSE
        /\ ask = Nothing
        /\ inbox = << >>
        /\ closed = FALSE
        /\ server = [accepted |-> FALSE, target |-> "none", owes |-> << >>]
        /\ said = 0
        /\ prefix = << >>
        /\ delivered = << >>

\* <Protocol>Outbound::new, given all of its options or all but one of them.
New == /\ pc = "new"
       /\ \E given \in IF conf.complete THEN {Needs(conf.protocol)}
                       ELSE {Needs(conf.protocol) \ {o} : o \in Needs(conf.protocol)} :
             Goto(IF Needs(conf.protocol) \subseteq given THEN "dial" ELSE "err")

\* The outbounds that set the timeouts on the TCP socket they have just
\* dialled; the others leave it to whatever wraps the socket.
ArmsAtDial(c) == \/ c.protocol \in {"socks4", "socks5", "ss", "ssr", "snell", "shadowtls"}
                 \/ c.protocol = "http" /\ (c.transport = "plain" \/ c.mode = "relay")

DialUnarmed == /\ pc = "dial"
               /\ \/ Goto("err")
                  \/ Goto(IF conf.transport \in {"plain", "obfs"} THEN "request" ELSE "wrap")
\* connect_host: the TCP connect is bounded; it succeeds or fails.
Dial == /\ pc = "dial"
        /\ \/ Goto("err")
           \/ /\ pc' = IF conf.transport \in {"plain", "obfs"} THEN "request" ELSE "wrap"
              /\ armed' = ArmsAtDial(conf)
              /\ UNCHANGED <<conf, ask, inbox, closed, server, said, prefix, delivered>>

\* TlsConnector::connect, reality::connect and WebSocket::connect arm the
\* socket first; connect_advanced_tls with a fingerprint does so only after.
ArmsBeforeHandshake(t) == t \in {"tls", "reality", "ws"}

Wrap == /\ pc = "wrap"
        /\ armed' = (armed \/ ArmsBeforeHandshake(conf.transport))
        /\ ask' = <<"wrap">>
        /\ pc' = "wrapping"
        /\ UNCHANGED <<conf, inbox, closed, server, said, prefix, delivered>>

\* read_exact of n units.
Take(n) == /\ Len(inbox) >= n
           /\ inbox' = SubSeq(inbox, n + 1, Len(inbox))
           /\ UNCHANGED <<conf, armed, ask, closed, server, said, prefix, delivered>>
Short(n) == Len(inbox) < n

WrapDone == /\ pc = "wrapping"
            /\ Len(inbox) >= 1
            /\ inbox' = Tail(inbox)
            /\ armed' = TRUE
            /\ pc' = "request"
            /\ UNCHANGED <<conf, ask, closed, server, said, prefix, delivered>>

\* perform_handshake: the methods offered, then the one the server picked.
Socks5Hello == /\ pc = "request"
               /\ conf.protocol = "socks5"
               /\ Write(<<"hello">>, "method")
Socks5Method == /\ pc = "method"
                /\ Take(1)
                /\ pc' = CASE inbox[1] = "noauth" -> "connect"
                           [] inbox[1] = "userpass" /\ conf.creds -> "auth"
                           [] OTHER -> "err"
Socks5Auth == /\ pc = "auth"
              /\ Write(<<"auth">>, "granted")
Socks5Granted == /\ pc = "granted"
                 /\ Take(1)
                 /\ pc' = IF inbox[1] = "yes" THEN "connect" ELSE "err"
\* The request itself, refused before a byte is written when the target does
\* not fit it.  Where the server is not heard first, the tunnel is open.
SendRequest ==
  /\ pc = IF conf.protocol = "socks5" THEN "connect" ELSE "request"
  /\ IF conf.protocol = "shadowtls"
     THEN Goto("tunnel")               \* the target is the server's own choice
     ELSE LET w == Wire(conf.protocol, conf.target)
          IN IF w = "error" THEN Goto("err")
             ELSE Write(<<"request", w>>,
                        IF conf.protocol \in Answered THEN "reply" ELSE "tunnel")

Socks5AddressUnitsFixed(kind) == 1
Socks5AddressUnits(kind) == CASE kind = "v4" -> 1 [] kind = "v6" -> 2 [] kind = "host" -> 3
\* read_connect_response: the header, then as much address as its type says.
Socks5Reply == /\ pc = "reply"
               /\ conf.protocol = "socks5"
               /\ Len(inbox) >= 2
               /\ IF inbox[1] # "ok" \/ inbox[2] = "other" THEN Goto("err")
                  ELSE /\ Take(2 + Socks5AddressUnits(inbox[2]))
                       /\ pc' = "tunnel"
Socks4Reply == /\ pc = "reply"
               /\ conf.protocol = "socks4"
               /\ Take(2)
               /\ pc' = IF inbox[1] = "ok" THEN "tunnel" ELSE "err"
\* Two bytes, then the addons the second one counts.
VlessReply == /\ pc = "reply"
              /\ conf.protocol = "vless"
              /\ Len(inbox) >= 2
              /\ IF inbox[1] # "version" THEN Goto("err")
                 ELSE /\ Take(IF inbox[2] = "1" THEN 3 ELSE 2)
                      /\ pc' = "tunnel"
SnellReply == /\ pc = "reply"
              /\ conf.protocol = "snell"
              /\ Take(IF Len(inbox) > 0 /\ inbox[1] = "error" THEN 3 ELSE 1)
              /\ pc' = IF inbox[1] = "tunnel" THEN "tunnel" ELSE "err"

\* read_head: segments are appended to the buffer until it holds the blank
\* line; what follows the blank line is kept and read first by the tunnel.
HeadEnd(b) == SelectInSeq(b, LAMBDA u : u = "end")
LeftoverDropped(b) == << >>
Leftover(b) == SubSeq(b, HeadEnd(b) + 1, Len(b))
HttpHead == /\ pc = "reply"
            /\ conf.protocol = "http"
            /\ IF HeadEnd(prefix) # 0
               THEN /\ pc' = IF prefix[1] # "200" THEN "err"
                             ELSE IF conf.mode = "probe" THEN "probe" ELSE "tunnel"
                    /\ prefix' = Leftover(prefix)
                    /\ UNCHANGED inbox
               ELSE IF Len(prefix) >= MaxHead
               THEN pc' = "err" /\ UNCHANGED <<prefix, inbox>>
               ELSE \E n \in 1 .. Min({2, Len(inbox)}) :   \* a chunk of at most two units
                      /\ prefix' = prefix \o SubSeq(inbox, 1, n)
                      /\ inbox' = SubSeq(inbox, n + 1, Len(inbox))
                      /\ UNCHANGED pc
            /\ UNCHANGED <<conf, armed, ask, closed, server, said, delivered>>

\* The dialogue is over: relay_streams!, or the probe's GET, or one datagram.
Open == /\ pc = "tunnel"
        /\ CASE conf.mode = "relay" -> Goto("relay")
             [] conf.mode = "probe" -> Goto("probe")
             [] conf.mode = "udp" -> Write(<<"datagram">>, "answer")

\* The probe wants one unit of the target's answer.  An HTTPS target asks
\* for a TLS handshake on the bare socket, which bytes already read forbid;
\* otherwise the probe reads on behind them.
Probe == /\ pc = "probe"
         /\ \/ prefix # << >> /\ Goto("err")
            \/ Take(1) /\ pc' = "ok"
\* read_udp_packet
Answer == /\ pc = "answer"
          /\ Take(1)
          /\ pc' = "ok"

\* The relay drains the bytes read with the head before it reads the socket.
PrefixedRead == /\ pc = "relay"
                /\ prefix # << >>
                /\ delivered' = delivered \o prefix
                /\ prefix' = << >>
                /\ UNCHANGED <<conf, pc, armed, ask, inbox, closed, server, said>>
RelayRead == /\ pc = "relay"
             /\ prefix = << >>
             /\ inbox # << >>
             /\ delivered' = delivered \o inbox
             /\ inbox' = << >>
             /\ UNCHANGED <<conf, pc, armed, ask, closed, server, said, prefix>>

Waiting == pc \in {"wrapping", "method", "granted", "reply", "probe", "answer"}
\* How much the client is waiting for.
Missing == CASE pc \in {"wrapping", "method", "granted", "probe", "answer"} -> Short(1)
             [] pc = "reply" /\ conf.protocol = "http" -> inbox = << >> /\ HeadEnd(prefix) = 0
             [] pc = "reply" /\ conf.protocol = "socks5" ->
                   IF Short(2) THEN TRUE
                   ELSE /\ inbox[1] = "ok" /\ inbox[2] # "other"
                        /\ Short(2 + Socks5AddressUnits(inbox[2]))
             [] pc = "reply" /\ conf.protocol = "vless" ->
                   IF Short(2) THEN TRUE ELSE inbox[1] = "version" /\ inbox[2] = "1" /\ Short(3)
             [] pc = "reply" /\ conf.protocol = "snell" ->
                   IF Short(1) THEN TRUE ELSE inbox[1] = "error" /\ Short(3)
             [] OTHER -> Short(2)

\* The read ends early: end of stream, or - if the socket has a read timeout -
\* nothing arrived in time.  Every caller gives up on the second one, at once
\* or when its deadline has passed.
ReadFails == /\ Waiting
             /\ Missing
             /\ closed \/ armed
             /\ Goto("err")

Client == New \/ Dial \/ Wrap \/ WrapDone \/ Socks5Hello \/ Socks5Method \/ Socks5Auth
            \/ Socks5Granted \/ SendRequest \/ Socks5Reply \/ Socks4Reply \/ VlessReply
            \/ SnellReply \/ HttpHead \/ Open \/ Probe \/ Answer \/ PrefixedRead
            \/ RelayRead \/ ReadFails

----------------------------------------------------------------------------
(* The server and the target behind it                                     *)

ServerSends(units, s) == /\ inbox' = inbox \o units
                         /\ server' = s
                         /\ ask' = Nothing
                         /\ UNCHANGED <<conf, pc, armed, closed, said, prefix, delivered>>

Serve ==
  /\ ~closed
  /\ \/ ask = <<"wrap">> /\ ServerSends(<<"wrapped">>, server)
     \/ ask = <<"hello">> /\ \E m \in {"noauth", "userpass", "refused"} :
                                ServerSends(<<m>>, server)
     \/ ask = <<"auth">> /\ \E g \in {"yes", "no"} : ServerSends(<<g>>, server)
     \/ /\ ask[1] = "request"
        /\ \/ \E r \in Replies(conf.protocol)[1] :
                \/ ServerSends(r, [accepted |-> TRUE, target |-> ask[2], owes |-> << >>])
                \* a VLESS server answers with the target's first bytes
                \/ conf.protocol = "vless"
                   /\ ServerSends(<< >>, [accepted |-> TRUE, target |-> ask[2], owes |-> r])
           \/ \E r \in Replies(conf.protocol)[2] : ServerSends(r, server)

TargetSpeaks ==
  /\ server.accepted
  /\ ~closed
  /\ said < Len(Data)
  /\ said' = said + 1
  /\ inbox' = inbox \o server.owes \o <<Data[said + 1]>>
  /\ server' = [server EXCEPT !.owes = << >>]
  /\ UNCHANGED <<conf, pc, armed, ask, closed, prefix, delivered>>

ServerCloses == /\ ~closed
                /\ pc \notin {"new", "dial"}
                /\ closed' = TRUE
                /\ UNCHANGED <<conf, pc, armed, ask, inbox, server, said, prefix, delivered>>

Next == Client \/ Serve \/ TargetSpeaks \/ ServerCloses

\* The dialling thread is never stopped by anything but a read with no
\* timeout; nothing is assumed of the server.
Spec == Init /\ [][Next]_vars /\ WF_vars(Client)

----------------------------------------------------------------------------
(* Properties                                                              *)

\* The relay of an outbound that waits for the server's word only starts on
\* a server that took the request, and what it hands to the client side is
\* what the target said, from its first byte: no field of the reply leaks
\* into the stream and no byte read together with the reply is lost.  For
\* the encoders that check the length of the name, the server reached for
\* the target that was asked (socks5.rs, vmess.rs and snell.rs do not check).
TunnelIsClean ==
  /\ pc = "relay" /\ conf.protocol \in Answered => server.accepted
  /\ IsPrefix(delivered, Data)
  /\ pc = "relay" => prefix \o inbox = SubSeq(Data, Len(delivered) + 1, said)
  /\ server.accepted /\ conf.protocol \notin {"socks5", "vmess", "snell"} =>
        server.target = conf.target

Settled == pc \in {"relay", "ok", "err"}
\* Dials that reach a read while the socket has no timeout at all.
Untimed(c) == \/ c.transport = "advanced" /\ ~ArmsAtDial(c)
              \/ c.protocol = "vmess" /\ c.transport = "plain" /\ c.mode = "probe"

\* Every dial comes to the relay, to an answer or to an error whatever the
\* server does, silence included - but for the two kinds in Untimed, which
\* read a socket nobody gave a timeout.
Owed == ~Untimed(conf) /\ ~Settled
DialEnds == <>[]~Owed

\* "Every socket in Corduit is a plain `std` socket configured with explicit
\* read/write timeouts" (socket.rs:3): no dial waits for ever.
EveryDialEnds == <>Settled
============================================================================
