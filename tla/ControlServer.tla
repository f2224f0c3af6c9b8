--------------------------- MODULE ControlServer ---------------------------
(***************************************************************************)
(* One connection of the control plane: the bounded HTTP/1.1 driver        *)
(* (src/rpc/http1.rs) in front of the JSON-RPC server (server.rs) or of    *)
(* the external controller (controller.rs), and the method table both call *)
(* (mod.rs).                                                               *)
(*                                                                         *)
(* A request is a line, a head and, for some, a body; the peer delivers    *)
(* them in fragments of its own choice, several at once or less than one.  *)
(* Time passes only while the driver waits in a read: a phase keeps what   *)
(* is left of its budget, and the read in progress what is left of its     *)
(* own timeout.                                                            *)
(***************************************************************************)
EXTENDS Naturals, FiniteSets

CONSTANTS Servers,      \* a subset of {"rpc", "controller"}
          Idle, HeadDeadline, HeadGap, BodyDeadline, BodyGap, PingInterval, \* Limits, in ticks
          MaxRequests,  \* Limits::max_requests
          MaxAhead      \* bound on the pieces one read brings

ControlAssumption ==
  /\ Servers \subseteq {"rpc", "controller"}
  /\ Idle \in Nat /\ HeadDeadline \in Nat /\ HeadGap \in Nat
  /\ BodyDeadline \in Nat /\ BodyGap \in Nat /\ PingInterval \in Nat
  /\ MaxRequests \in Nat /\ MaxAhead \in Nat

VARIABLES server, secret,
          pc,      \* "line", "headers", "body", "serve", "ws" or "closed"
          phase,   \* the current Phase
          wait,    \* what is left of the timeout of the read in progress
          ahead,   \* whole pieces (line, head or body) in the read buffer
          frag,    \* whether the buffer also holds a beginning of one
          got,     \* state.bytes() != mark
          begun,   \* whether a byte of this request was received, in whatever read
          age,     \* the ticks since the request's first byte
          framed,  \* the body of the request: "none", "fixed" or "chunked"
          served,
          told,    \* the status of the last answer
          ended,   \* how the connection ended
          engine,  \* what the calls have changed
          calls,   \* the calls that reached the engine, with the credentials shown
          ws       \* the session: the silence since the last message, whether a ping is out, and whose it is

vars == <<server, secret, pc, phase, wait, ahead, frag, got, begun, age, framed, served, told,
          ended, engine, calls, ws>>
buffer == <<ahead, frag>>
clock == <<phase, wait, age>>
world == <<engine, calls>>
who == <<server, secret>>

Least(a, b) == IF a < b THEN a ELSE b
EnterIdle == [left |-> Idle, gap |-> Idle, window |-> TRUE]
EnterHead == [left |-> HeadDeadline, gap |-> HeadGap, window |-> FALSE]
EnterBody == [left |-> BodyDeadline, gap |-> BodyGap, window |-> FALSE]
\* BoundedIo::read: the timeout of one read
Armed(p) == Least(p.gap, p.left)

\* RpcServer::bind takes neither an empty token nor an address that is not loopback.
RpcBind(loopback) == secret /\ loopback
\* ExternalControllerConfig::guard: an open controller is bound to loopback.
ControllerGuard(loopback) == secret \/ loopback

Init ==
  /\ server \in Servers
  /\ secret \in BOOLEAN
  /\ \E loopback \in BOOLEAN :
       IF server = "rpc" THEN RpcBind(loopback) ELSE ControllerGuard(loopback)
  /\ pc = "line"
  /\ phase = EnterIdle /\ wait = Armed(EnterIdle)
  /\ ahead = 0 /\ frag = FALSE
  /\ got = FALSE /\ begun = FALSE /\ age = 0
  /\ framed = "none" /\ served = 0
  /\ told = "nothing" /\ ended = "open"
  /\ engine = [mode |-> "config", level |-> "old"]
  /\ calls = {}
  /\ ws = [silence |-> 0, pinged |-> FALSE, entitled |-> FALSE]

\* `limits.ws`: the controller has none.
Upgrades == server = "rpc"
Reading == pc \in {"line", "headers", "body"} /\ ahead = 0
Close(why) == pc' = "closed" /\ ended' = why
Say(status) == told' = status

----------------------------------------------------------------------------
(* The bounded reader                                                      *)

Tick ==
  /\ \/ /\ Reading /\ wait > 0
        /\ phase' = [phase EXCEPT !.left = @ - 1]
        /\ wait' = wait - 1
        /\ age' = IF begun THEN age + 1 ELSE age
        /\ UNCHANGED ws
     \/ /\ pc = "ws" /\ ws.silence < 2 * PingInterval
        /\ ws' = [ws EXCEPT !.silence = @ + 1]
        /\ UNCHANGED clock
  /\ UNCHANGED <<who, pc, buffer, got, begun, framed, served, told, ended, world>>

\* Fault: a byte starts a new window, as a per-read timeout would.
AfterByteRenewed(p) == IF pc = "body" THEN EnterBody ELSE EnterHead

\* The first byte of a request moves its clock from idle to head.
AfterByte(p) == IF p.window THEN EnterHead ELSE p

\* BoundedIo::read returns bytes: some whole pieces, a fragment, or both.
ReadBytes ==
  /\ Reading /\ wait > 0
  /\ \E n \in 0 .. MaxAhead, f \in BOOLEAN :
       /\ n > 0 \/ f
       /\ ahead' = n /\ frag' = f
  /\ got' = TRUE /\ begun' = TRUE
  /\ phase' = AfterByte(phase)
  /\ wait' = Armed(AfterByte(phase))
  /\ UNCHANGED <<who, pc, age, framed, served, told, ended, world, ws>>

\* The end of the stream, at any point of a request, is answered by nothing.
PeerGone ==
  /\ Reading
  /\ Close("eof")
  /\ UNCHANGED <<who, clock, buffer, got, begun, framed, served, told, world, ws>>

(***************************************************************************)
(* The deadline or the gap runs out.  Only the read of the request line    *)
(* answers: the errors of the later reads have no refusal_status, and a    *)
(* body's is_disconnect.                                                   *)
(***************************************************************************)
TimedOut ==
  /\ Reading /\ wait = 0
  /\ IF pc = "line" /\ got THEN Say("408") ELSE UNCHANGED told
  /\ Close("timeout")
  /\ UNCHANGED <<who, clock, buffer, got, begun, framed, served, world, ws>>

\* refuse, write_refusal and the linger after it
Refuse(status) == Say(status) /\ Close("refused")

TakePiece == ahead > 0 /\ ahead' = ahead - 1

\* parse_request_line
ParseLine ==
  /\ pc = "line" /\ TakePiece
  /\ \/ pc' = "headers" /\ UNCHANGED <<told, ended>>
     \/ \E status \in {"400", "431"} : Refuse(status)
  /\ UNCHANGED <<who, clock, frag, got, begun, framed, served, world, ws>>

\* read_headers_scratch, host_header_error, body_length and the declared length
ParseHeaders ==
  /\ pc = "headers" /\ TakePiece
  /\ \/ \E status \in {"400", "413", "431"} :
          Refuse(status) /\ UNCHANGED <<clock, framed>>
     \/ \E f \in {"none", "fixed", "chunked"} :
          /\ framed' = f
          /\ phase' = EnterBody /\ wait' = Armed(EnterBody) /\ age' = 0
          /\ pc' = IF f = "none" THEN "serve" ELSE "body"
          /\ UNCHANGED <<told, ended>>
  /\ UNCHANGED <<who, frag, got, begun, served, world, ws>>

\* read_body_fixed_scratch, read_body_chunked_scratch
ReadBody ==
  /\ pc = "body" /\ TakePiece
  /\ \/ pc' = "serve" /\ UNCHANGED <<told, ended>>
     \/ framed = "chunked" /\ \E status \in {"400", "413"} : Refuse(status)
  /\ UNCHANGED <<who, clock, frag, got, begun, framed, served, world, ws>>

----------------------------------------------------------------------------
(* The method table                                                        *)

Modes == {"global", "direct", "rule"}

\* dispatch: an argument that is missing or has another type stops it before the engine.
Dispatch(method, args, authorized, ok) ==
  IF args # "good" THEN ~ok /\ UNCHANGED calls
  ELSE calls' = calls \cup {[method |-> method, authorized |-> authorized]}

\* What a successful call changes.
Effect(method, value) ==
  CASE method = "set_proxy_mode" -> [engine EXCEPT !.mode = value]
    [] method = "set_log_level" -> [engine EXCEPT !.level = value]
    [] OTHER -> engine

\* process_payload: not UTF-8, not JSON, no method and an unknown method are errors.
ProcessPayload(authorized) ==
  \/ UNCHANGED world
  \/ \E method \in {"set_proxy_mode", "any"}, args \in {"good", "bad"}, ok \in BOOLEAN :
       /\ Dispatch(method, args, authorized, ok)
       /\ \/ engine' = engine
          \/ ok /\ \E m \in Modes : engine' = Effect(method, m)

----------------------------------------------------------------------------
(* The handlers: the status, and what was called                           *)

Creds == {"none", "wrong", "right"}
\* Whether these credentials are the server's: what the history records of a call.
Entitled(cred) == ~secret \/ cred = "right"

\* handle_http_request
HandleRpc(cred) ==
  \/ Say("204") /\ UNCHANGED world                            \* OPTIONS
  \/ Say("200") /\ UNCHANGED world                            \* GET /health
  \/ Say("404") /\ UNCHANGED world
  \/ IF cred = "right" THEN Say("200") /\ ProcessPayload(Entitled(cred))
     ELSE Say("401") /\ UNCHANGED world

\* Fault: the secret is looked at only when one is presented.
AuthorizedIfPresented(cred) == ~secret \/ cred # "wrong"

Authorized(cred) == ~secret \/ cred = "right"

\* handle_configs_patch: the mode is applied before the level is looked at.
HandlePatch(cred) ==
  \/ Say("400") /\ UNCHANGED world                            \* not JSON, no field
  \/ \E mode \in Modes \cup {"absent", "unknown"}, level \in {"absent", "new", "unknown"} :
       LET moded == IF mode \in Modes THEN Effect("set_proxy_mode", mode) ELSE engine
           called == (IF mode \in Modes THEN {"set_proxy_mode"} ELSE {})
                       \cup (IF mode # "unknown" /\ level # "absent" THEN {"set_log_level"} ELSE {})
       IN /\ calls' = calls \cup {[method |-> m, authorized |-> Entitled(cred)] : m \in called}
          /\ CASE mode = "unknown" -> Say("400") /\ UNCHANGED engine
               [] mode # "unknown" /\ level = "unknown" -> Say("400") /\ engine' = moded
               [] mode = "absent" /\ level = "absent" -> Say("400") /\ UNCHANGED engine
               [] OTHER -> /\ Say("204")
                           /\ engine' = IF level = "new" THEN [moded EXCEPT !.level = "new"]
                                        ELSE moded

\* A command with a body: not JSON, or without its field, it is not called.
Command(cred, method) ==
  \E body \in BOOLEAN, ok \in BOOLEAN :
    /\ IF body THEN Dispatch(method, "good", Entitled(cred), ok) ELSE UNCHANGED calls
    /\ Say(IF body /\ ok THEN "204" ELSE "400")
    /\ UNCHANGED engine

HandleConfigsPut(cred) == Command(cred, "reload_config_from_file")
HandleProxySelect(cred) == Command(cred, "select_proxy")

\* A route that reads: a call that fails has the status `failed`; what is read besides it is
\* left out of the answer when it cannot be had.
ReadRoute(cred, methods, failed) ==
  \E ok \in BOOLEAN :
    /\ calls' = calls \cup {[method |-> m, authorized |-> Entitled(cred)] : m \in methods}
    /\ Say(IF ok THEN "200" ELSE failed)
    /\ UNCHANGED engine

HandleVersion(cred) == ReadRoute(cred, {"get_version"}, "200")
HandleConfigsGet(cred) == ReadRoute(cred, {"get_general_snapshot", "get_dns_config"}, "503")
ProxyTable == {"get_proxies", "get_proxy_groups"}
HandleProxies(cred) == ReadRoute(cred, ProxyTable, "503")
HandleProxyGet(cred) == \/ ReadRoute(cred, ProxyTable, "503")
                        \/ ReadRoute(cred, ProxyTable, "404")
\* The test ran and found no latency, or could not run.
HandleProxyDelay(cred) == ReadRoute(cred, {"test_proxy_latency_dto"}, "504")
HandleRules(cred) == ReadRoute(cred, {"get_rules"}, "503")
HandleConnections(cred) == ReadRoute(cred, {"get_connections_dto", "get_traffic_stats_dto"}, "503")
HandleTraffic(cred) == ReadRoute(cred, {"get_traffic_stats_dto"}, "503")
HandleMemory(cred) == ReadRoute(cred, {"get_system_info"}, "503")
HandleReads(cred) ==
  \/ HandleVersion(cred) \/ HandleConfigsGet(cred) \/ HandleProxies(cred) \/ HandleProxyGet(cred)
  \/ HandleProxyDelay(cred) \/ HandleRules(cred) \/ HandleConnections(cred)
  \/ HandleTraffic(cred) \/ HandleMemory(cred)

\* handle_connection_close: a call that fails is an identifier that is not there.
HandleClose(cred) ==
  \E m \in {"close_connection_by_id", "close_all_connections_dto"}, ok \in BOOLEAN :
    /\ Dispatch(m, "good", Entitled(cred), ok)
    /\ Say(IF ok THEN "204" ELSE IF m = "close_connection_by_id" THEN "404" ELSE "500")
    /\ UNCHANGED engine

\* route
Route(cred) ==
  \/ Say("204") /\ UNCHANGED world                            \* OPTIONS
  \/ /\ ~Authorized(cred)
     /\ Say("401") /\ UNCHANGED world
  \/ /\ Authorized(cred)
     /\ \/ HandlePatch(cred) \/ HandleConfigsPut(cred) \/ HandleProxySelect(cred)
        \/ HandleClose(cred) \/ HandleReads(cred)
        \/ \E status \in {"200", "404"} : Say(status) /\ UNCHANGED world   \* the index, no route

\* The next turn of the loop: a buffered beginning starts the head clock at once.
NextRequest ==
  /\ pc' = "line"
  /\ got' = FALSE
  /\ begun' = (ahead > 0 \/ frag)
  /\ phase' = IF begun' THEN EnterHead ELSE EnterIdle
  /\ wait' = Armed(phase')
  /\ age' = 0
  /\ UNCHANGED ended

KeepAlive(close) == ~close /\ served + 1 < MaxRequests

\* handler.handle, write_response and the decision to keep the connection
Answer ==
  /\ pc = "serve"
  /\ \E cred \in Creds, close \in BOOLEAN :
       /\ IF server = "rpc" THEN HandleRpc(cred) ELSE Route(cred)
       /\ \/ KeepAlive(close) /\ NextRequest
          \/ ~KeepAlive(close) /\ Close("served") /\ UNCHANGED <<clock, got, begun>>
          \/ Close("write failed") /\ UNCHANGED <<clock, got, begun>>
  /\ served' = served + 1
  /\ UNCHANGED <<who, buffer, framed, ws>>

\* Fault: an upgrade without a token is let through to the policy walk.
UpgradeOpen(cred) == cred # "wrong"

UpgradeAllowed(cred) == cred = "right"

\* RpcHandler::websocket: refused, or accepted by courierust's plan
UpgradeToWebSocket ==
  /\ pc = "serve" /\ Upgrades
  /\ \E cred \in Creds, close \in BOOLEAN, planned \in BOOLEAN :
       IF UpgradeAllowed(cred) /\ planned
       THEN /\ Say("101")
            /\ pc' = "ws" /\ ws' = [silence |-> 0, pinged |-> FALSE, entitled |-> Entitled(cred)]
            /\ UNCHANGED <<clock, got, begun, ended, served>>
       ELSE /\ Say(IF UpgradeAllowed(cred) THEN "400" ELSE "401")
            /\ served' = served + 1
            /\ \/ KeepAlive(close) /\ NextRequest
               \/ ~KeepAlive(close) /\ Close("served") /\ UNCHANGED <<clock, got, begun>>
            /\ UNCHANGED ws
  /\ UNCHANGED <<who, buffer, framed, world>>

----------------------------------------------------------------------------
(* serve_websocket                                                         *)

\* A message, pipelined with the handshake or read now, and its reply.
WsMessage ==
  /\ pc = "ws"
  /\ ws' = [ws EXCEPT !.silence = 0, !.pinged = FALSE]
  /\ ahead' = (IF ahead > 0 THEN ahead - 1 ELSE 0)
  /\ ProcessPayload(ws.entitled)
  /\ \/ UNCHANGED <<pc, ended>>
     \/ Close("1011")
  /\ UNCHANGED <<who, clock, frag, got, begun, framed, served, told>>

WsClosed ==
  /\ pc = "ws" /\ Close("peer")
  /\ UNCHANGED <<who, clock, buffer, got, begun, framed, served, told, world, ws>>

\* Fault: a ping counts as a sign of life.
WsPollResets ==
  /\ pc = "ws" /\ ws.silence >= PingInterval /\ ~ws.pinged
  /\ ws' = [ws EXCEPT !.silence = 0]
  /\ UNCHANGED <<who, pc, ended, clock, buffer, got, begun, framed, served, told, world>>

\* A poll that read nothing: a ping after one interval, the end after two.
WsPoll ==
  /\ pc = "ws"
  /\ \/ /\ ws.silence >= 2 * PingInterval
        /\ Close("1001") /\ UNCHANGED ws
     \/ /\ ws.silence >= PingInterval /\ ws.silence < 2 * PingInterval /\ ~ws.pinged
        /\ \/ ws' = [ws EXCEPT !.pinged = TRUE] /\ UNCHANGED <<pc, ended>>
           \/ Close("ping failed") /\ UNCHANGED ws
  /\ UNCHANGED <<who, clock, buffer, got, begun, framed, served, told, world>>

Step == TimedOut \/ ParseLine \/ ParseHeaders \/ ReadBody \/ Answer \/ UpgradeToWebSocket \/ WsPoll
Next == Tick \/ ReadBytes \/ PeerGone \/ Step \/ WsMessage \/ WsClosed

(***************************************************************************)
(* Time passes, and the thread of the connection does what it can.  The    *)
(* peer owes nothing.                                                      *)
(***************************************************************************)
Spec == Init /\ [][Next]_vars /\ WF_vars(Tick) /\ WF_vars(Step)

----------------------------------------------------------------------------
(* Properties                                                              *)

(***************************************************************************)
(* A peer that drips its request, however it spaces the bytes and whatever *)
(* it pipelines, holds its slot for no longer than the budget of the head  *)
(* or of the body: the deadline is checked at every read (BoundedIo), and  *)
(* a request whose first bytes came with the one before is on the clock.   *)
(***************************************************************************)
DripIsBounded ==
  /\ pc \in {"line", "headers"} => age <= HeadDeadline
  /\ pc = "body" => age <= BodyDeadline

(***************************************************************************)
(* Nothing reaches the engine for a peer that did not show the secret, in  *)
(* a request, after others on the same connection, or in a session.        *)
(***************************************************************************)
CallsAreAuthorized == \A c \in calls : c.authorized

\* The control plane serves who may be served, and nobody for too long.
ControlIsGuarded == CallsAreAuthorized /\ DripIsBounded

(***************************************************************************)
(* A connection ends, in a request, between two or in a session, unless    *)
(* its peer sends messages in a session for ever: no drip, no pause and no *)
(* unanswered ping keeps it.                                               *)
(***************************************************************************)
Ended == pc = "closed"
SilentPeerEnds == <>Ended \/ []<><<WsMessage>>_vars

(***************************************************************************)
(* "When a phase expires with bytes already on the wire the client is told *)
(* (408)" (src/rpc/http1.rs:44).                                           *)
(***************************************************************************)
ToldOnTimeout == (ended = "timeout" /\ begun) => told = "408"
=============================================================================
