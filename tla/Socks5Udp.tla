----------------------------- MODULE Socks5Udp -----------------------------
(***************************************************************************)
(* One UDP association of the SOCKS5 inbound: the control connection, the  *)
(* relay loop that receives datagrams, the pool of workers that carry them *)
(* out, and the replies.                                                   *)
(* (handle_udp_associate, run_udp_relay, UdpRelayPool in                   *)
(* src/engine/inbound/socks5.rs)                                           *)
(***************************************************************************)
EXTENDS Integers, Sequences, FiniteSets

CONSTANTS Endpoints,    \* addresses a datagram may come from
          ClientIp,     \* those with the IP address of the control connection
          ControlPeer,  \* the control connection's own address (a TCP port)
          Datagrams,    \* datagrams, each sent once
          MaxWorkers,   \* UDP_RELAY_MAX_WORKERS
          Queue,        \* UDP_RELAY_QUEUE
          MaxErrors,    \* UDP_RELAY_MAX_ERRORS
          None, Exited

AssociationAssumption ==
  /\ ClientIp \subseteq Endpoints /\ ControlPeer \in ClientIp /\ None \notin Endpoints
  /\ MaxWorkers > 0 /\ Queue > 0 /\ MaxErrors > 0

VARIABLES control,    \* the control connection: "open" or "ended"
          handler,    \* its thread: "reading", "joining" or "done"
          cancelled,
          loop,       \* the relay loop: "recv", "submit" or "ended"
          pinned,     \* the endpoint the association belongs to
          errors,
          job,        \* the datagram at hand, with its source
          queue,      \* the pool's channel
          workers,    \* the pool's worker count
          threads,    \* worker threads, each with its job or None
          carried,    \* datagrams handed to an outbound
          replies,    \* where replies were sent
          unsent      \* datagrams not sent yet

vars == <<control, handler, cancelled, loop, pinned, errors, job, queue, workers, threads,
          carried, replies, unsent>>
pool == <<queue, workers, threads, carried, replies>>

Init ==
  /\ control = "open" /\ handler = "reading" /\ cancelled = FALSE
  /\ loop = "recv"
  /\ pinned \in {None} \cup ClientIp       \* declared_udp_peer
  /\ errors = 0
  /\ job = None
  /\ queue = << >> /\ workers = 0
  /\ threads = << >>
  /\ carried = {} /\ replies = {}
  /\ unsent = Datagrams

----------------------------------------------------------------------------
(* The control connection                                                  *)

ClientCloses == /\ control = "open"
                /\ control' = "ended"
                /\ UNCHANGED <<handler, cancelled, loop, pinned, errors, job, pool, unsent>>
\* The loop of reads ends: cancel, then join.
ControlEnds == /\ handler = "reading" /\ control = "ended"
               /\ cancelled' = TRUE /\ handler' = "joining"
               /\ UNCHANGED <<control, loop, pinned, errors, job, pool, unsent>>
JoinRelay == /\ handler = "joining" /\ loop = "ended"
             /\ handler' = "done"
             /\ UNCHANGED <<control, cancelled, loop, pinned, errors, job, pool, unsent>>

----------------------------------------------------------------------------
(* The relay loop                                                          *)

\* Fault: the address is the association's for ever after, but its IP alone
\* is compared.
SourceAllowedByIp(src) == src \in ClientIp
\* A datagram counts only from the client's IP address, and from the endpoint
\* that was declared or came first.
SourceAllowed(src) == src \in ClientIp /\ pinned \in {None, src}

\* recv_from: a datagram; what it holds may be too short, fragmented or
\* badly addressed, which is found only after its source is pinned.
Receive == /\ loop = "recv" /\ ~cancelled
           /\ \E d \in unsent, src \in Endpoints :
                /\ unsent' = unsent \ {d}
                /\ errors' = 0
                /\ IF SourceAllowed(src)
                   THEN /\ pinned' = IF pinned = None THEN src ELSE pinned
                        /\ \/ job' = [id |-> d, src |-> src] /\ loop' = "submit"
                           \/ UNCHANGED <<job, loop>>
                   ELSE UNCHANGED <<pinned, job, loop>>
           /\ UNCHANGED <<control, handler, cancelled, pool>>
ReceiveError == /\ loop = "recv" /\ ~cancelled
                /\ errors' = errors + 1
                /\ loop' = IF errors' >= MaxErrors THEN "ended" ELSE "recv"
                /\ UNCHANGED <<control, handler, cancelled, pinned, job, pool, unsent>>
\* Nothing for UDP_SESSION_TIMEOUT, or the association is cancelled.
LoopEnds == /\ loop = "recv"
            /\ loop' = "ended"
            /\ UNCHANGED <<control, handler, cancelled, pinned, errors, job, pool, unsent>>

----------------------------------------------------------------------------
(* The pool                                                                *)

\* spawn_worker counts first, and takes the count back when there are enough
\* workers or the thread cannot be started.
CanSpawn == workers < MaxWorkers
Spawned == threads' = Append(threads, None) /\ workers' = workers + 1
NotSpawned == UNCHANGED <<threads, workers>>
Enqueue == queue' = IF Len(queue) < Queue THEN Append(queue, job) ELSE queue

\* submit: a first worker when there is none, another one only when the
\* queue is full; what does not fit is shed.
Submit ==
  /\ loop = "submit"
  /\ \/ /\ workers = 0
        /\ (CanSpawn /\ Spawned) \/ NotSpawned
        /\ Enqueue
     \/ /\ workers > 0 /\ Len(queue) < Queue
        /\ Enqueue /\ NotSpawned
     \/ /\ workers > 0 /\ Len(queue) = Queue
        /\ (CanSpawn /\ Spawned) \/ NotSpawned
        /\ UNCHANGED queue
  /\ loop' = "recv" /\ job' = None
  /\ UNCHANGED <<control, handler, cancelled, pinned, errors, carried, replies, unsent>>

Busy(i) == threads[i] \notin {None, Exited}
\* A worker takes the next job; the last jobs are still taken after the
\* loop has dropped the sender.
Take(i) == /\ threads[i] = None /\ queue # << >>
           /\ threads' = [threads EXCEPT ![i] = Head(queue)]
           /\ queue' = Tail(queue)
           /\ UNCHANGED <<control, handler, cancelled, loop, pinned, errors, job, workers, carried, replies, unsent>>
\* relay_udp_datagram, and the reply: the sink answers the control
\* connection's address.
RelayDatagram(i) ==
  /\ Busy(i)
  /\ carried' = carried \cup {threads[i]}
  /\ replies' \in {replies, replies \cup {ControlPeer}}
  /\ threads' = [threads EXCEPT ![i] = None]
  /\ UNCHANGED <<control, handler, cancelled, loop, pinned, errors, job, queue, workers, unsent>>
\* Fault: a worker outlives the channel.
WorkerStays(i) == FALSE /\ UNCHANGED vars
\* The channel is disconnected once the loop has ended and it is empty.
WorkerExits(i) ==
  /\ threads[i] = None /\ queue = << >> /\ loop = "ended"
  /\ threads' = [threads EXCEPT ![i] = Exited]
  /\ workers' = workers - 1
  /\ UNCHANGED <<control, handler, cancelled, loop, pinned, errors, job, queue, carried, replies, unsent>>

----------------------------------------------------------------------------
Worker == \E i \in DOMAIN threads : Take(i) \/ RelayDatagram(i) \/ WorkerExits(i)
Next == \/ ClientCloses \/ ControlEnds \/ JoinRelay
        \/ Receive \/ ReceiveError \/ LoopEnds \/ Submit \/ Worker
\* A receive returns every 250 ms, so that a cancelled loop ends; a relayed
\* datagram has its outbound's timeouts.
LoopStops == LoopEnds /\ cancelled
WorkerStep(i) == i \in DOMAIN threads /\ (Take(i) \/ RelayDatagram(i) \/ WorkerExits(i))
Fairness == /\ WF_vars(ControlEnds) /\ WF_vars(JoinRelay)
            /\ WF_vars(LoopStops) /\ WF_vars(Submit)
            /\ \A i \in 1 .. MaxWorkers : WF_vars(WorkerStep(i))
Spec == Init /\ [][Next]_vars /\ Fairness

----------------------------------------------------------------------------
(* Properties                                                              *)

\* An association carries the datagrams of one endpoint, with its client's
\* IP address: the bound port is no relay for anyone else, not even for
\* another process of the same host, whatever came first.
InboundIsGuarded ==
  /\ \A j \in carried : j.src \in ClientIp
  /\ \A i, j \in carried : i.src = j.src

\* When the client closes its control connection all of the association's
\* threads end: "every parked worker wakes on the disconnect and exits".
Gone == /\ handler = "done" /\ loop = "ended"
        /\ workers = 0 /\ \A i \in DOMAIN threads : threads[i] = Exited
AssociationEnds == control = "ended" ~> Gone

Owed == control = "ended" /\ ~Gone

\* socks5.rs: "frames every reply back to the client".
RepliesReachClient == replies \subseteq {pinned}
============================================================================
