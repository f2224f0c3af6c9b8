---------------------------- MODULE UdpSessions ----------------------------
(***************************************************************************)
(* The UDP sessions of an outbound that answers through sinks: one socket  *)
(* and one reader thread for each (client association, destination).       *)
(* DIRECT and Shadowsocks keep the same table with the same steps.         *)
(* (udp_session, register_sink, send, pump_direct_udp_replies in           *)
(* src/engine/outbound/direct.rs and their twins in shadowsocks.rs)        *)
(*                                                                         *)
(* A session is looked up by the ADDRESS of the association's sink, and    *)
(* holds the sink by a weak reference.  The address of a sink is taken     *)
(* while the sink lives or some session still has a weak reference to it.  *)
(***************************************************************************)
EXTENDS Integers, FiniteSets

CONSTANTS Clients,      \* associations, each with a sink of its own
          Addresses,    \* where a sink may be allocated
          Targets,
          Workers,      \* threads that submit datagrams
          Sessions,     \* session objects
          MaxSessions,  \* MAX_UDP_SESSIONS
          MaxOwed,      \* answers under way to one session
          None

SessionsAssumption == /\ IsFiniteSet(Sessions) /\ IsFiniteSet(Workers)
                      /\ None \notin Sessions /\ None \notin Clients /\ None \notin Addresses

VARIABLES outbound,  \* "direct" or "shadowsocks"
          sink,      \* client -> "new", "open", "dropped"
          address,   \* client -> the address of its sink
          stage,     \* session -> its life, see Stages
          sinks,     \* session -> clients its weak references name
          target,    \* session -> its destination
          owed,      \* session -> clients whose datagrams are not answered
          table,     \* udp_sessions: key -> session, or None
          live,      \* live_udp_sessions
          job,       \* worker -> what it does: [at, client, target, session]
          crossed    \* an answer reached a client it was not for

vars == <<outbound, sink, address, stage, sinks, target, owed, table, live, job, crossed>>
session == <<stage, sinks, target, owed>>

\* "bound" has no reader yet; the reader of a "deaf" one has left its loop;
\* "over" has alive = FALSE; at "ended" the thread is gone.
Stages == {"none", "bound", "running", "deaf", "over", "ended"}
Idle == [at |-> "idle", client |-> None, target |-> None, session |-> None]
TableKeys == Addresses \X Targets

Alive(s) == stage[s] \in {"bound", "running", "deaf"}
Holders(s) == {k \in TableKeys : table[k] = s}
Referenced(s) == \/ stage[s] \in {"running", "deaf", "over"}
                 \/ Holders(s) # {}
                 \/ \E w \in Workers : job[w].session = s
Occupied(a) == \E c \in Clients :
                 /\ address[c] = a
                 /\ \/ sink[c] = "open"
                    \/ \E s \in Sessions : Referenced(s) /\ c \in sinks[s]

TypeOK ==
  /\ sink \in [Clients -> {"new", "open", "dropped"}]
  /\ address \in [Clients -> Addresses \cup {None}]
  /\ stage \in [Sessions -> Stages]
  /\ sinks \in [Sessions -> SUBSET Clients] /\ owed \in [Sessions -> SUBSET Clients]
  /\ table \in [TableKeys -> Sessions \cup {None}]
  /\ live \in Nat /\ crossed \in BOOLEAN

Init ==
  /\ outbound \in {"direct", "shadowsocks"}
  /\ sink = [c \in Clients |-> "new"] /\ address = [c \in Clients |-> None]
  /\ stage = [s \in Sessions |-> "none"] /\ target = [s \in Sessions |-> None]
  /\ sinks = [s \in Sessions |-> {}] /\ owed = [s \in Sessions |-> {}]
  /\ table = [k \in TableKeys |-> None]
  /\ live = 0
  /\ job = [w \in Workers |-> Idle]
  /\ crossed = FALSE

----------------------------------------------------------------------------
(* Associations                                                            *)

\* UdpReplySink::new
Open(c, a) == /\ sink[c] = "new" /\ ~Occupied(a)
              /\ sink' = [sink EXCEPT ![c] = "open"]
              /\ address' = [address EXCEPT ![c] = a]
              /\ UNCHANGED <<outbound, session, table, live, job, crossed>>

\* The association ends; a worker with its datagram still holds the sink.
Drop(c) == /\ sink[c] = "open" /\ \A w \in Workers : job[w].client # c
           /\ sink' = [sink EXCEPT ![c] = "dropped"]
           /\ UNCHANGED <<outbound, address, session, table, live, job, crossed>>

----------------------------------------------------------------------------
(* udp_submit                                                              *)

KeyByTarget(c, t) == <<CHOOSE a \in Addresses : TRUE, t>>
Key(c, t) == <<address[c], t>>

At(w, at) == job[w].at = at
Go(w, at) == job' = [job EXCEPT ![w].at = at]
Fail(w) == job' = [job EXCEPT ![w] = Idle]

Submit(w, c, t) ==
  /\ At(w, "idle") /\ sink[c] = "open"
  /\ job' = [job EXCEPT ![w] = [at |-> "lookup", client |-> c, target |-> t, session |-> None]]
  /\ UNCHANGED <<outbound, sink, address, session, table, live, crossed>>

\* A session that is alive NOW is used, whatever it is when the datagram leaves.
Lookup(w) ==
  /\ At(w, "lookup")
  /\ LET found == table[Key(job[w].client, job[w].target)]
     IN IF found # None /\ Alive(found)
        THEN job' = [job EXCEPT ![w].at = "register", ![w].session = found]
        ELSE Go(w, "limit")
  /\ UNCHANGED <<outbound, sink, address, session, table, live, crossed>>

CheckLimit(w) ==
  /\ At(w, "limit")
  /\ IF live >= MaxSessions THEN Fail(w) ELSE Go(w, "bind")
  /\ UNCHANGED <<outbound, sink, address, session, table, live, crossed>>

\* A socket connected to the destination, or to the Shadowsocks server.
Bound(w) == \E s \in Sessions :
  /\ stage[s] = "none" \/ (stage[s] = "ended" /\ ~Referenced(s))
  /\ stage' = [stage EXCEPT ![s] = "bound"]
  /\ sinks' = [sinks EXCEPT ![s] = {}] /\ owed' = [owed EXCEPT ![s] = {}]
  /\ target' = [target EXCEPT ![s] = job[w].target]
  /\ job' = [job EXCEPT ![w].at = "count", ![w].session = s]
\* Resolve, bind and connect: any of them may fail.
Bind(w) == /\ At(w, "bind") /\ outbound = "direct"
           /\ Bound(w) \/ (Fail(w) /\ UNCHANGED session)
           /\ UNCHANGED <<outbound, sink, address, table, live, crossed>>
\* The cipher may be unknown as well.
CreateUdpSession(w) == /\ At(w, "bind") /\ outbound = "shadowsocks"
                       /\ Bound(w) \/ (Fail(w) /\ UNCHANGED session)
                       /\ UNCHANGED <<outbound, sink, address, table, live, crossed>>

CountSession(w) == /\ At(w, "count")
                   /\ live' = live + 1
                   /\ Go(w, "spawn")
                   /\ UNCHANGED <<outbound, sink, address, session, table, crossed>>

Spawn(w) == /\ At(w, "spawn")
            /\ stage' = [stage EXCEPT ![job[w].session] = "running"]
            /\ Go(w, "insert")
            /\ UNCHANGED <<outbound, sink, address, sinks, target, owed, table, live, crossed>>

\* The closure is dropped with the guard in it.
SpawnFailsLeaking(w) ==
  /\ At(w, "spawn")
  /\ stage' = [stage EXCEPT ![job[w].session] = "none"]
  /\ Fail(w)
  /\ UNCHANGED <<outbound, sink, address, sinks, target, owed, table, live, crossed>>
SpawnFails(w) ==
  /\ At(w, "spawn")
  /\ stage' = [stage EXCEPT ![job[w].session] = "none"]
  /\ live' = live - 1
  /\ Fail(w)
  /\ UNCHANGED <<outbound, sink, address, sinks, target, owed, table, crossed>>

\* Sessions that are not alive leave the table; one with the same key that is
\* alive is replaced, and runs on until it is idle.
Insert(w) ==
  /\ At(w, "insert")
  /\ table' = [k \in TableKeys |->
                 IF k = Key(job[w].client, job[w].target) THEN job[w].session
                 ELSE IF table[k] # None /\ Alive(table[k]) THEN table[k] ELSE None]
  /\ Go(w, "register")
  /\ UNCHANGED <<outbound, sink, address, session, live, crossed>>

RegisterSink(w) ==
  /\ At(w, "register")
  /\ sinks' = [sinks EXCEPT ![job[w].session] =
                 {c \in @ : sink[c] = "open"} \cup {job[w].client}]
  /\ Go(w, "send")
  /\ UNCHANGED <<outbound, sink, address, stage, target, owed, table, live, crossed>>

\* The socket is open whatever its reader does: the send succeeds or fails.
Sent(w) == /\ Cardinality(owed[job[w].session]) < MaxOwed
           /\ owed' = [owed EXCEPT ![job[w].session] = @ \cup {job[w].client}]
Send(w) == /\ At(w, "send") /\ outbound = "direct"
           /\ Sent(w) \/ UNCHANGED owed
           /\ Fail(w)
           /\ UNCHANGED <<outbound, sink, address, stage, sinks, target, table, live, crossed>>
\* The datagram is sealed for the server with the session's target.
SsSend(w) == /\ At(w, "send") /\ outbound = "shadowsocks"
             /\ Sent(w) \/ UNCHANGED owed
             /\ Fail(w)
             /\ UNCHANGED <<outbound, sink, address, stage, sinks, target, table, live, crossed>>

----------------------------------------------------------------------------
(* The reader thread                                                       *)

\* Every sink still alive gets the answer, the others are forgotten.
Deliver(s, c) == LET listening == {x \in sinks[s] : sink[x] = "open"}
                 IN /\ crossed' = (crossed \/ listening \ {c} # {})
                    /\ sinks' = [sinks EXCEPT ![s] = listening]
\* The destination may answer one datagram more than once.
Answered(s, c) == /\ c \in owed[s]
                  /\ owed' \in {owed, [owed EXCEPT ![s] = @ \ {c}]}
Reply(s) == /\ stage[s] = "running" /\ outbound = "direct"
            /\ \E c \in Clients : Answered(s, c) /\ Deliver(s, c)
            /\ UNCHANGED <<outbound, sink, address, stage, target, table, live, job>>
\* A datagram that does not open is dropped before any sink is looked at.
SsReply(s) == /\ stage[s] = "running" /\ outbound = "shadowsocks"
              /\ \E c \in Clients :
                   /\ Answered(s, c)
                   /\ Deliver(s, c) \/ UNCHANGED <<crossed, sinks>>
              /\ UNCHANGED <<outbound, sink, address, stage, target, table, live, job>>

\* Silent for DIRECT_UDP_SESSION_IDLE, or the socket failed.
ReaderBreaks(s) == /\ stage[s] = "running"
                   /\ stage' = [stage EXCEPT ![s] = "deaf"]
                   /\ UNCHANGED <<outbound, sink, address, sinks, target, owed, table, live, job, crossed>>
ReaderEnds(s) == /\ stage[s] = "deaf"
                 /\ stage' = [stage EXCEPT ![s] = "over"]
                 /\ UNCHANGED <<outbound, sink, address, sinks, target, owed, table, live, job, crossed>>
DropGuard(s) == /\ stage[s] = "over"
                /\ stage' = [stage EXCEPT ![s] = "ended"]
                /\ live' = live - 1
                /\ UNCHANGED <<outbound, sink, address, sinks, target, owed, table, job, crossed>>

----------------------------------------------------------------------------
\* udp_session; the Shadowsocks outbound has the same one.
UdpSession(w) == \/ Lookup(w) \/ CheckLimit(w) \/ Bind(w) \/ CreateUdpSession(w)
                 \/ CountSession(w) \/ Spawn(w) \/ SpawnFails(w) \/ Insert(w)
Next ==
  \/ \E c \in Clients : Drop(c) \/ \E a \in Addresses : Open(c, a)
  \/ \E w \in Workers : \/ \E c \in Clients, t \in Targets : Submit(w, c, t)
                        \/ UdpSession(w) \/ RegisterSink(w) \/ Send(w) \/ SsSend(w)
  \/ \E s \in Sessions : \/ Reply(s) \/ SsReply(s) \/ ReaderBreaks(s) \/ ReaderEnds(s)
                         \/ DropGuard(s)

Spec == Init /\ [][Next]_vars

----------------------------------------------------------------------------
(* Properties                                                              *)

\* "A session is never shared between associations" (udp_session): no session
\* has two live sinks, through address reuse, racing workers and late inserts.
NotShared == \A s \in Sessions : Cardinality({c \in sinks[s] : sink[c] = "open"}) <= 1

\* The counter is the number of reader threads, also when a spawn fails: a
\* leak would in the end refuse every new flow (LiveSessionGuard).
CountIsExact == live = Cardinality({s \in Sessions : stage[s] \in {"running", "deaf", "over"}})
                       + Cardinality({w \in Workers : At(w, "spawn")})

AnswersAreOwn == NotShared /\ CountIsExact

\* "Hard cap on concurrently live UDP sessions" (direct.rs:25).
HardCap == Cardinality({s \in Sessions : stage[s] \in {"running", "deaf", "over"}}) <= MaxSessions

\* "Replies from the destination reach exactly the client that sent the
\* matching datagrams" (direct.rs:224).
RepliesReachSender == ~crossed
=============================================================================
