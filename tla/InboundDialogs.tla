-------------------------- MODULE InboundDialogs --------------------------
(***************************************************************************)
(* One accepted connection of the SOCKS5, HTTP or mixed inbound, from its  *)
(* first byte to its end: sniffing, authentication, the request, routing,  *)
(* the answer and the relay, and the requests that follow on a kept HTTP   *)
(* connection.  (src/engine/inbound/{socks5,http,mixed,auth}.rs)           *)
(*                                                                         *)
(* Every read of a step has a timeout, so that at each of them the client  *)
(* may also have gone.  What the client sends is chosen step by step.      *)
(***************************************************************************)
EXTENDS Integers, Sequences, FiniteSets, TLAPS

CONSTANTS Kinds,        \* the inbounds: a subset of {"socks5", "http", "mixed"}
          MaxRequests   \* bound on the requests of a kept connection

VARIABLES kind,
          required,   \* InboundAuth::required
          outbounds,  \* whether the routed outbound exists, right now
          pc,
          cred,       \* what the client showed last: "none", "bad" or "good"
          command,
          replies,    \* the answers written, in order
          tracked,    \* entries in the connection tracker
          opened,     \* what was opened for the client, with the credentials then
          requests

vars == <<kind, required, outbounds, pc, cred, command, replies, tracked, opened, requests>>
conn == <<kind, required, outbounds, requests>>

Init ==
  /\ kind \in Kinds
  /\ required \in BOOLEAN
  /\ outbounds \in BOOLEAN
  /\ pc = CASE kind = "socks5" -> "greeting" [] kind = "http" -> "peek" [] kind = "mixed" -> "sniff"
  /\ cred = "none" /\ command = "none"
  /\ replies = << >>
  /\ tracked = 0
  /\ opened = {}
  /\ requests = 0

Say(r) == replies' = Append(replies, r)
End == pc' = "done"
Check(c) == c = "good"
\* An open inbound looks at no credentials.
Allowed(c) == ~required \/ Check(c)

----------------------------------------------------------------------------
(* The client goes away, or stays silent past the step's timeout.          *)

Gone == /\ pc \in {"sniff", "greeting", "userpass", "request", "reply", "peek", "keep"}
        /\ End
        /\ UNCHANGED <<conn, cred, command, replies, tracked, opened>>

\* A configuration reload adds or removes the outbound between two steps.
Reload == /\ pc # "done"
          /\ outbounds' = ~outbounds
          /\ UNCHANGED <<kind, required, pc, cred, command, replies, tracked, opened, requests>>

\* mixed: dispatch on the first byte
Dispatch == /\ pc = "sniff"
            /\ pc' \in {"greeting", "peek"}
            /\ UNCHANGED <<conn, cred, command, replies, tracked, opened>>

----------------------------------------------------------------------------
(* SOCKS5                                                                  *)

Methods == SUBSET {"none", "userpass"}
\* perform_handshake
PerformHandshake ==
  /\ pc = "greeting"
  /\ \/ End /\ UNCHANGED replies                    \* not version 5
     \/ \E methods \in Methods :
          LET wanted == IF required THEN "userpass" ELSE "none"
          IN IF wanted \notin methods THEN Say("refused") /\ End
             ELSE Say(wanted) /\ pc' = IF required THEN "userpass" ELSE "request"
  /\ UNCHANGED <<conn, cred, command, tracked, opened>>

\* Fault: the answer is sent, the session goes on.
Socks5UserpassReplies ==
  /\ pc = "userpass"
  /\ \/ End /\ UNCHANGED <<replies, cred>>
     \/ \E c \in {"good", "bad"} : cred' = c /\ Say(c) /\ pc' = "request"
  /\ UNCHANGED <<conn, command, tracked, opened>>
\* socks5_userpass
Socks5Userpass ==
  /\ pc = "userpass"
  /\ \/ End /\ UNCHANGED <<replies, cred>>          \* malformed
     \/ \E c \in {"good", "bad"} :
          /\ cred' = c
          /\ Say(c)
          /\ pc' = IF Check(c) THEN "request" ELSE "done"
  /\ UNCHANGED <<conn, command, tracked, opened>>

\* read_request: the address is judged before the command.
ReadRequest ==
  /\ pc = "request"
  /\ \/ End /\ UNCHANGED <<replies, command>>       \* malformed
     \/ Say("bad address") /\ End /\ UNCHANGED command
     \/ Say("unsupported") /\ End /\ UNCHANGED command
     \/ \E c \in {"connect", "associate"} :
          command' = c /\ pc' = "route" /\ UNCHANGED replies
  /\ UNCHANGED <<conn, cred, tracked, opened>>

----------------------------------------------------------------------------
(* HTTP                                                                    *)

\* peek_connect_head: the whole head of a CONNECT is waited for; any other
\* request is left to the HTTP server.
PeekConnectHead == /\ pc = "peek"
                   /\ pc' \in {"connect", "keep"}
                   /\ UNCHANGED <<conn, cred, command, replies, tracked, opened>>

\* serve_connect, up to its route: the head, the credentials, the authority.
ServeConnect ==
  /\ pc = "connect"
  /\ command' = "connect"
  /\ \/ Say("400") /\ End /\ UNCHANGED cred
     \/ \E c \in {"none", "bad", "good"} :
          /\ cred' = c
          /\ \/ ~Allowed(c) /\ Say("407") /\ End
             \/ Allowed(c) /\ Say("400") /\ End     \* no authority
             \/ Allowed(c) /\ pc' = "route" /\ UNCHANGED replies
  /\ UNCHANGED <<conn, tracked, opened>>

\* Handler::handle: each request of a kept connection shows its own
\* credentials; a refusal keeps the connection.
Handle ==
  /\ pc = "keep" /\ requests < MaxRequests
  /\ requests' = requests + 1
  /\ \E c \in {"none", "bad", "good"} :
       /\ cred' = c
       /\ \/ ~Allowed(c) /\ Say("407") /\ pc' = "keep"
          \/ Allowed(c) /\ pc' = "forward" /\ UNCHANGED replies
  /\ command' = "forward"
  /\ UNCHANGED <<kind, required, outbounds, tracked, opened>>
\* forward: a request without a target, an unknown outbound and a relay that
\* fails are all a bad gateway.
Forward ==
  /\ pc = "forward"
  /\ pc' = "keep"
  /\ \/ Say("502") /\ UNCHANGED opened
     \/ /\ outbounds
        /\ opened' = opened \cup {<<"forward", cred>>}
        /\ \/ Say("200") \/ Say("502")
  /\ UNCHANGED <<conn, cred, command, tracked>>

----------------------------------------------------------------------------
(* Routing, the answer, and the relay                                      *)

Answer(ok) == CASE kind = "http" \/ Len(replies) = 0 -> IF ok THEN "200" ELSE "502"
                [] OTHER -> IF ok THEN "succeeded" ELSE "failed"

\* router.route and get_proxy: an outbound that is gone is an answer.
RouteConnect ==
  /\ pc = "route" /\ command = "connect"
  /\ \/ outbounds /\ pc' = "reply" /\ UNCHANGED replies
     \/ ~outbounds /\ Say(Answer(FALSE)) /\ End
  /\ UNCHANGED <<conn, cred, command, tracked, opened>>
\* The client is told of success before the outbound is dialled.
Reply == /\ pc = "reply"
         /\ Say(Answer(TRUE))
         /\ pc' = "track"
         /\ UNCHANGED <<conn, cred, command, tracked, opened>>
Track == /\ pc = "track"
         /\ tracked' = tracked + 1
         /\ pc' = "relay"
         /\ opened' = opened \cup {<<"connect", cred>>}
         /\ UNCHANGED <<conn, cred, command, replies>>
\* Fault: a relay that failed returns before the entry is removed.
RelayReturnsEarly == /\ pc = "relay"
                     /\ \E failed \in BOOLEAN :
                          pc' = (IF failed THEN "done" ELSE "untrack")
                     /\ UNCHANGED <<conn, cred, command, replies, tracked, opened>>
\* The relay ends, cleanly or not.
RelayReturns == /\ pc = "relay"
                /\ pc' = "untrack"
                /\ UNCHANGED <<conn, cred, command, replies, tracked, opened>>
Untrack == /\ pc = "untrack"
           /\ tracked' = tracked - 1
           /\ End
           /\ UNCHANGED <<conn, cred, command, replies, opened>>

\* handle_udp_associate: the control connection is read until it ends; the
\* association itself is a module of its own.
Associate == /\ pc = "route" /\ command = "associate"
             /\ \/ End /\ UNCHANGED <<replies, opened>>          \* no socket
                \/ /\ Say("succeeded") /\ pc' = "control"
                   /\ opened' = opened \cup {<<"associate", cred>>}
             /\ UNCHANGED <<conn, cred, command, tracked>>
ControlEnds == /\ pc = "control"
               /\ End
               /\ UNCHANGED <<conn, cred, command, replies, tracked, opened>>

----------------------------------------------------------------------------
Next == \/ Gone \/ Reload \/ Dispatch
        \/ PerformHandshake \/ Socks5Userpass \/ ReadRequest
        \/ PeekConnectHead \/ ServeConnect \/ Handle \/ Forward
        \/ RouteConnect \/ Reply \/ Track \/ RelayReturns \/ Untrack
        \/ Associate \/ ControlEnds

\* Every wait for the client has a timeout; a relay, and an association's
\* control connection, end with the client.
Fairness == /\ WF_vars(Gone) /\ WF_vars(ServeConnect) /\ WF_vars(Forward)
            /\ WF_vars(RouteConnect) /\ WF_vars(Reply) /\ WF_vars(Track)
            /\ WF_vars(RelayReturns) /\ WF_vars(Untrack)
            /\ WF_vars(Associate) /\ WF_vars(ControlEnds)
Spec == Init /\ [][Next]_vars /\ Fairness

----------------------------------------------------------------------------
(* Properties                                                              *)

\* On an inbound with credentials nothing is opened for a client whose last
\* word was not a valid pair, by whichever protocol it came in and however
\* many requests it made before.
InboundIsGuarded == required => \A o \in opened : o[2] = "good"

\* Every connection comes to an end, and leaves nothing in the tracker.
Owed == pc # "done" \/ tracked # 0
DialogEnds == <>[]~Owed

----------------------------------------------------------------------------
(* InboundIsGuarded for every set of inbounds and every number of requests.*)

\* The steps between the test of the credentials and the opening.
Gated == {"request", "route", "reply", "track", "forward"}

\* InboundIsGuarded alone says nothing of a dialogue that is about to open: what was
\* accepted is still the last word of the client when it is used.
GateInv == /\ InboundIsGuarded
           /\ required /\ pc \in Gated => cred = "good"

(* A step of the dialogue keeps the invariant.                             *)
LEMMA GateNext == GateInv /\ [Next]_vars => GateInv'
<1> SUFFICES ASSUME GateInv, [Next]_vars PROVE GateInv'
  OBVIOUS
<1> USE DEF GateInv, InboundIsGuarded, Gated, conn, End
<1>1. CASE Gone \/ Reload \/ Dispatch \/ ControlEnds
  BY <1>1 DEF Gone, Reload, Dispatch, ControlEnds
<1>2. CASE PerformHandshake
  BY <1>2 DEF PerformHandshake
<1>3. CASE Socks5Userpass
  BY <1>3 DEF Socks5Userpass, Check
<1>4. CASE ReadRequest
  BY <1>4 DEF ReadRequest
<1>5. CASE PeekConnectHead \/ ServeConnect
  BY <1>5 DEF PeekConnectHead, ServeConnect, Allowed, Check
<1>6. CASE Handle
  BY <1>6 DEF Handle, Allowed, Check
<1>7. CASE Forward
  BY <1>7 DEF Forward
<1>8. CASE RouteConnect \/ Reply
  <2>1. pc \in {"route", "reply"} /\ UNCHANGED <<required, cred, opened>>
    BY <1>8 DEF RouteConnect, Reply
  <2> QED BY <2>1
<1>9. CASE Track
  BY <1>9 DEF Track
<1>10. CASE RelayReturns \/ Untrack
  BY <1>10 DEF RelayReturns, Untrack
<1>11. CASE Associate
  BY <1>11 DEF Associate
<1>12. CASE UNCHANGED vars
  BY <1>12 DEF vars
<1> QED
  BY <1>1, <1>2, <1>3, <1>4, <1>5, <1>6, <1>7, <1>8, <1>9, <1>10, <1>11, <1>12
  DEF Next

(* Nothing is opened for a client without valid credentials on an inbound  *)
(* that asks for them, by any of the three protocols and however many      *)
(* requests, refusals and reloads came before.                             *)
THEOREM GateNeverBypassed ==
  ASSUME Kinds \subseteq {"socks5", "http", "mixed"}
  PROVE  Spec => []InboundIsGuarded
<1>1. Init => GateInv
  BY DEF Init, GateInv, InboundIsGuarded, Gated
<1>2. GateInv => InboundIsGuarded
  BY DEF GateInv
<1> QED BY <1>1, <1>2, GateNext, PTL DEF Spec
============================================================================
