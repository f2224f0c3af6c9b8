------------------------------ MODULE VmessUdp ------------------------------
(***************************************************************************)
(* UDP over VMess: request and answer over a stream that all datagrams for *)
(* one destination share.  Each chunk of either direction is sealed with a *)
(* counter the other end must agree on.                                    *)
(* (VmessUdpSession, get_or_create_udp_session, relay_udp,                 *)
(* read_response_chunk in src/engine/outbound/vmess.rs)                    *)
(*                                                                         *)
(* Sessions are kept by destination alone; this is one destination.  The   *)
(* server answers a datagram at most once, in any order.                   *)
(***************************************************************************)
EXTENDS Integers, Sequences, FiniteSets

CONSTANTS Callers,    \* threads in relay_udp
          Sessions,   \* session objects, each used once
          MaxCount,   \* chunk counters: 2^16 in the code
          MaxCalls,   \* calls of relay_udp in all
          None

VmessAssumption == None \notin Sessions /\ None \notin Callers

VARIABLES table,      \* udp_sessions at this destination
          fresh,      \* sessions not created yet
          drawn,      \* session -> chunk_count
          response,   \* session -> response_chunk_count
          consumed,   \* session -> header_consumed
          holder,     \* session -> who holds the stream
          asked,      \* session -> datagrams the server has not answered
          taken,      \* session -> request chunks the server has opened
          sent,       \* session -> answers the server has sealed
          stream,     \* session -> what the server has sent: the header, then [n, to]
          broken,     \* session -> the connection is closed
          call,       \* caller -> [at, id, session, count, answer]
          calls       \* how many calls there were

vars == <<table, fresh, drawn, response, consumed, holder, asked, taken, sent, stream, broken,
          call, calls>>
server == <<asked, taken, sent, stream, broken>>
counters == <<drawn, response, consumed>>

Idle == [at |-> "idle", id |-> 0, session |-> None, count |-> 0, answer |-> 0]
Header == [n |-> 0, to |-> 0]

Init ==
  /\ table = None /\ fresh = Sessions
  /\ drawn = [s \in Sessions |-> 0] /\ response = [s \in Sessions |-> 0]
  /\ consumed = [s \in Sessions |-> FALSE] /\ holder = [s \in Sessions |-> None]
  /\ asked = [s \in Sessions |-> {}] /\ taken = [s \in Sessions |-> 0]
  /\ sent = [s \in Sessions |-> 0] /\ stream = [s \in Sessions |-> << >>]
  /\ broken = [s \in Sessions |-> FALSE]
  /\ call = [c \in Callers |-> Idle] /\ calls = 0

At(c, at) == call[c].at = at
Go(c, at) == call' = [call EXCEPT ![c].at = at]
S(c) == call[c].session
Release(c) == holder' = [holder EXCEPT ![S(c)] = None]

\* The call fails after the session was thrown away: whichever session is in
\* the table by now.
Discard(c) == /\ table' = None
              /\ Go(c, "failed")

----------------------------------------------------------------------------
(* relay_udp                                                               *)

Start(c) == /\ call[c].at \in {"idle", "failed", "answered"} /\ calls < MaxCalls
            /\ calls' = calls + 1
            /\ call' = [call EXCEPT ![c] = [Idle EXCEPT !.at = "lookup", !.id = calls + 1]]
            /\ UNCHANGED <<table, fresh, counters, holder, server>>

\* A session that has been silent for a minute is thrown away.
Lookup(c) ==
  /\ At(c, "lookup")
  /\ \/ /\ table # None
        /\ call' = [call EXCEPT ![c].at = "count", ![c].session = table]
        /\ UNCHANGED table
     \/ /\ table' = None                       \* none, or expired
        /\ Go(c, "dial")
  /\ UNCHANGED <<fresh, counters, holder, server, calls>>

\* connect_stream and handshake, then the insert: a session another caller
\* has put there meanwhile is replaced, and stays with who uses it.
Dial(c) ==
  /\ At(c, "dial")
  /\ \/ Go(c, "failed") /\ UNCHANGED <<table, fresh>>
     \/ \E s \in fresh :
          /\ fresh' = fresh \ {s}
          /\ table' = s
          /\ call' = [call EXCEPT ![c].at = "count", ![c].session = s]
  /\ UNCHANGED <<counters, holder, server, calls>>

\* next_chunk_count, before the stream is locked.
DrawCount(c) ==
  /\ At(c, "count")
  /\ drawn' = [drawn EXCEPT ![S(c)] = @ + 1]
  /\ IF drawn[S(c)] < MaxCount
     THEN /\ call' = [call EXCEPT ![c].at = "lock", ![c].count = drawn[S(c)]]
          /\ UNCHANGED table
     ELSE Discard(c)
  /\ UNCHANGED <<fresh, response, consumed, holder, server, calls>>

Lock(c) == /\ At(c, "lock") /\ holder[S(c)] = None
           /\ holder' = [holder EXCEPT ![S(c)] = c]
           /\ Go(c, "write")
           /\ UNCHANGED <<table, fresh, counters, server, calls>>

\* External: the server opens request chunks in the order of their counters
\* and closes the connection at one that does not open.
ServerTakes(s, id, n) ==
  IF n = taken[s] THEN /\ taken' = [taken EXCEPT ![s] = n + 1]
                       /\ asked' = [asked EXCEPT ![s] = @ \cup {id}]
                       /\ UNCHANGED broken
                  ELSE /\ broken' = [broken EXCEPT ![s] = TRUE]
                       /\ UNCHANGED <<taken, asked>>

Write(c) ==
  /\ At(c, "write")
  /\ \/ /\ IF broken[S(c)] THEN UNCHANGED <<asked, taken, broken>>
           ELSE ServerTakes(S(c), call[c].id, call[c].count)
        /\ Go(c, IF consumed[S(c)] THEN "respond" ELSE "header")
        /\ consumed' = [consumed EXCEPT ![S(c)] = TRUE]
        /\ UNCHANGED <<table, holder>>
     \/ /\ broken[S(c)]                        \* the write fails
        /\ Release(c) /\ Discard(c)
        /\ UNCHANGED <<asked, taken, broken, consumed>>
  /\ UNCHANGED <<fresh, drawn, response, sent, stream, calls>>

\* read_response_header; it is not read again when this fails.
ReadHeader(c) ==
  /\ At(c, "header")
  /\ \/ /\ stream[S(c)] # << >>
        /\ stream' = [stream EXCEPT ![S(c)] = Tail(@)]
        /\ IF Head(stream[S(c)]) = Header
           THEN Go(c, "respond") /\ UNCHANGED <<table, holder>>
           ELSE Release(c) /\ Discard(c)
     \/ /\ stream[S(c)] = << >>                \* deadline, or closed
        /\ Release(c) /\ Discard(c)
        /\ UNCHANGED stream
  /\ UNCHANGED <<fresh, counters, asked, taken, sent, broken, calls>>

\* What it must not be: a counter spent only on an answer that is there.
DrawResponseOfAnswers(c) ==
  /\ At(c, "respond")
  /\ response' = [response EXCEPT ![S(c)] = IF stream[S(c)] = << >> THEN @ ELSE @ + 1]
  /\ call' = [call EXCEPT ![c].at = "read", ![c].count = response[S(c)]]
  /\ UNCHANGED <<table, fresh, drawn, consumed, holder, server, calls>>

\* next_response_chunk_count: the counter is spent whatever the read brings.
DrawResponse(c) ==
  /\ At(c, "respond")
  /\ response' = [response EXCEPT ![S(c)] = @ + 1]
  /\ IF response[S(c)] < MaxCount
     THEN /\ call' = [call EXCEPT ![c].at = "read", ![c].count = response[S(c)]]
          /\ UNCHANGED <<table, holder>>
     ELSE Release(c) /\ Discard(c)
  /\ UNCHANGED <<fresh, drawn, consumed, server, calls>>

\* A chunk opens under the counter it was sealed with.
Opens(item, n) == item # Header /\ item.n = n

\* read_response_chunk, then the lock is released.
ReadChunk(c) ==
  /\ At(c, "read")
  /\ \/ /\ stream[S(c)] # << >>
        /\ stream' = [stream EXCEPT ![S(c)] = Tail(@)]
        /\ LET item == Head(stream[S(c)])
           IN IF Opens(item, call[c].count)
              THEN /\ call' = [call EXCEPT ![c].at = "answered", ![c].answer = item.to]
                   /\ UNCHANGED table
              ELSE Discard(c)
     \/ /\ stream[S(c)] = << >>
        /\ Discard(c)
        /\ UNCHANGED stream
  /\ Release(c)
  /\ UNCHANGED <<fresh, counters, asked, taken, sent, broken, calls>>

----------------------------------------------------------------------------
(* External: the server                                                    *)

Answer(s) ==
  /\ ~broken[s]
  /\ \E id \in asked[s] :
       /\ asked' = [asked EXCEPT ![s] = @ \ {id}]
       /\ stream' = [stream EXCEPT ![s] =
                       @ \o (IF sent[s] = 0 THEN <<Header>> ELSE << >>)
                         \o <<[n |-> sent[s], to |-> id]>>]
       /\ sent' = [sent EXCEPT ![s] = @ + 1]
  /\ UNCHANGED <<table, fresh, counters, holder, taken, broken, call, calls>>
Close(s) == /\ s \notin fresh /\ ~broken[s]
            /\ broken' = [broken EXCEPT ![s] = TRUE]
            /\ UNCHANGED <<table, fresh, counters, holder, asked, taken, sent, stream, call, calls>>

----------------------------------------------------------------------------
Steps(c) == \/ Lookup(c) \/ Dial(c) \/ DrawCount(c) \/ Lock(c) \/ Write(c)
            \/ ReadHeader(c) \/ DrawResponse(c) \/ ReadChunk(c)
Next == \/ \E c \in Callers : Start(c) \/ Steps(c)
        \/ \E s \in Sessions : Answer(s) \/ Close(s)
Spec == Init /\ [][Next]_vars

----------------------------------------------------------------------------
(* Properties                                                              *)

\* Callers of different associations share one stream, and an answer may come
\* after its caller gave up: no caller returns the answer to another's datagram.
AnswersAreOwn == \A c \in Callers : At(c, "answered") => call[c].answer = call[c].id
=============================================================================
