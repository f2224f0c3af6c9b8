----------------------------- MODULE HttpFetch -----------------------------
(***************************************************************************)
(* A GET through an HTTP proxy: for every hop a CONNECT tunnel, TLS where  *)
(* the URL says so, one request, one answer, and the redirect it may be.   *)
(* (HttpClient::get_bytes, proxy_get, proxy_get_once, h1_get_once,         *)
(* read_to_eof_capped, establish_connect_tunnel in src/common/http.rs)     *)
(*                                                                         *)
(* The HTTP/1 codec and the TLS connector are a library's and external     *)
(* here, like the proxy and the origins.  A body is a number of pieces.    *)
(***************************************************************************)
EXTENDS Integers

CONSTANTS Origins,        \* scheme, host and port of a URL
          Https,          \* those that need TLS
          MaxRedirects,   \* MAX_REDIRECTS
          MaxBody,        \* MAX_BODY_BYTES
          MaxHead,        \* MAX_CONNECT_HEAD_BYTES
          None

FetchAssumption == None # "ok"

VARIABLES url,       \* the URL asked now
          hops,      \* requests made
          tunnel,    \* the origin the connection leads to, or None
          at,        \* what the call does
          head,      \* pieces of the CONNECT answer read so far
          reply,     \* the answer: [from, class, framing, size]
          sent,      \* pieces of its body the origin has sent
          closed,    \* how the origin closed the stream: None, "fin", "cut"
          body,      \* pieces read
          result     \* None, "ok" or an error

vars == <<url, hops, tunnel, at, head, reply, sent, closed, body, result>>

Classes == {"success", "redirect", "failure", "empty"}
Framings == {"length", "chunked", "eof"}
Replies == [from : Origins, class : Classes, framing : Framings, size : 0 .. MaxBody + 1]

Init ==
  /\ url \in Origins /\ hops = 0 /\ tunnel = None /\ at = "connect" /\ head = 0
  /\ reply = None /\ sent = 0 /\ closed = None /\ body = 0 /\ result = None

Done(r) == at' = "done" /\ result' = r
Error == Done("error")
answer == <<reply, sent, closed, body>>

----------------------------------------------------------------------------
(* proxy_get_once                                                          *)

Connect == /\ at = "connect"
           /\ \/ at' = "tunnel" /\ UNCHANGED result
              \/ Error
           /\ hops' = hops + 1 /\ head' = 0 /\ tunnel' = None
           /\ reply' = None /\ sent' = 0 /\ closed' = None /\ body' = 0
           /\ UNCHANGED url

\* establish_connect_tunnel: read until the blank line, up to a cap.
TunnelRead ==
  /\ at = "tunnel"
  /\ \/ /\ head <= MaxHead
        /\ head' = head + 1
        /\ UNCHANGED <<tunnel, at, result>>
     \/ /\ tunnel' = url                       \* status 200
        /\ at' = IF url \in Https THEN "tls" ELSE "request"
        /\ UNCHANGED <<head, result>>
     \/ Error /\ UNCHANGED <<tunnel, head>>    \* refused, closed, malformed, too long
  /\ UNCHANGED <<url, hops, answer>>

Tls == /\ at = "tls"
       /\ \/ at' = "request" /\ UNCHANGED result
          \/ Error
       /\ UNCHANGED <<url, hops, tunnel, head, answer>>

\* The request, and the head of the answer: from whoever the tunnel leads to.
Request ==
  /\ at = "request"
  /\ \/ \E r \in Replies :
          /\ r.from = tunnel
          /\ reply' = r
          /\ at' = IF r.framing = "length" /\ r.size > MaxBody THEN "done" ELSE "body"
          /\ result' = IF r.framing = "length" /\ r.size > MaxBody THEN "error" ELSE None
     \/ Error /\ UNCHANGED reply
  /\ UNCHANGED <<url, hops, tunnel, head, sent, closed, body>>

\* External: the origin sends its body and closes the stream, or is cut off.
OriginSends == /\ at = "body" /\ closed = None /\ sent < reply.size
               /\ sent' = sent + 1
               /\ UNCHANGED <<url, hops, tunnel, at, head, reply, closed, body, result>>
OriginCloses == /\ at = "body" /\ closed = None
                /\ closed' \in {"cut"} \cup (IF sent = reply.size THEN {"fin"} ELSE {})
                /\ UNCHANGED <<url, hops, tunnel, at, head, reply, sent, body, result>>

----------------------------------------------------------------------------
(* The body                                                                *)

Read == /\ at = "body" /\ body < sent
        /\ body' = body + 1
        /\ IF body' > MaxBody THEN Error ELSE UNCHANGED <<at, result>>
        /\ UNCHANGED <<url, hops, tunnel, head, reply, sent, closed>>

\* Length and chunked bodies say where they end.
FramedEndAtClose == \/ reply.class = "empty"
                    \/ reply.framing # "eof" /\ (body = reply.size \/ closed # None)
FramedEnd == \/ reply.class = "empty"
             \/ reply.framing # "eof" /\ body = reply.size
\* A body without framing ends at the end of the stream; a stream that is cut
\* off, and one that is silent for the timeout, count as its end too.
EofEnd == reply.framing = "eof" /\ body = sent

\* The answer is there: is it a redirect?  A redirect without a usable
\* Location is an error; every hop makes its own tunnel.
FollowTo(next) == IF hops <= MaxRedirects
                  THEN /\ url' = next
                       /\ at' = "connect"
                       /\ UNCHANGED result
                  ELSE Done("too many redirects") /\ UNCHANGED url
Finish == /\ at = "body" /\ (FramedEnd \/ EofEnd)
          /\ IF reply.class # "redirect"
             THEN Done("ok") /\ UNCHANGED url
             ELSE \/ \E next \in Origins : FollowTo(next)
                  \/ Error /\ UNCHANGED url
          /\ UNCHANGED <<hops, tunnel, head, answer>>

\* The stream ends, or the read times out, inside a framed body.
BodyFails == /\ at = "body" /\ ~FramedEnd /\ reply.framing # "eof" /\ body = sent
             /\ Error
             /\ UNCHANGED <<url, hops, tunnel, head, answer>>

----------------------------------------------------------------------------
Next == \/ Connect \/ TunnelRead \/ Tls \/ Request \/ OriginSends \/ OriginCloses
        \/ Read \/ Finish \/ BodyFails
Spec == Init /\ [][Next]_vars

----------------------------------------------------------------------------
(* Properties                                                              *)

\* "Every hop re-establishes the tunnel, so a redirect to another origin can
\* never reuse a connection built for the previous one" (proxy_get): an answer
\* is the one of the URL that was asked last.  And it is whole when its framing
\* says how long it is, whatever the origin's stream did.
FetchIsSound ==
  result = "ok" => /\ reply.from = url
                   /\ \/ reply.class = "empty" \/ reply.framing = "eof"
                      \/ body = reply.size

\* "Fetch a whole body with a timeout" (http.rs:3).
BodyIsWhole == result = "ok" /\ reply.class # "empty" => body = reply.size
=============================================================================
