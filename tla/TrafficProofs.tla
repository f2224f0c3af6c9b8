---------------------------- MODULE TrafficProofs ----------------------------
(***************************************************************************)
(* Proofs about what carries the traffic: the connection listener, whose   *)
(* module this one extends, the associations of the userspace UDP stack,   *)
(* the connection tracker, the resolvers, the SOCKS5 associations, the UDP *)
(* sessions of VMess, the QUIC, WireGuard and TLS 1.3 outbounds, hole      *)
(* punching, the HTTP client and the dialogs of the outbounds. A theorem   *)
(* is about the specification of one module, for every value of that       *)
(* module's constants; where two modules give a parameter the same name,   *)
(* each theorem speaks of its own.                                         *)
(***************************************************************************)
EXTENDS ConnectionListener, FiniteSetTheorems, Integers, SequenceTheorems, Sequences, FiniteSets, Naturals, NaturalsInduction, WellFoundedInduction, TLAPS

CONSTANTS Flows, MaxSessions, SweepEvery, MaxOpen, MaxReplies, Sessions, Named,
          Closers, Resetters, MaxChunks, MaxLookups, Keys, Plans, Answers, MaxConfigs,
          MaxRetries, Endpoints, ClientIp, ControlPeer, Datagrams, MaxWorkers, Queue,
          MaxErrors, None, Exited, Callers, MaxCount, MaxCalls, MaxReads, MaxNonce,
          WindowSize, Peers, Predicted, Where, Rounds, Profiles, Servers, MaxOddities,
          MaxFlight, MaxRecords, MaxWire, Splits, Polls, Protocols, NoOne, MaxConns,
          MaxPackets, MaxPending, MaxBytes, Origins, Https, MaxRedirects, MaxBody,
          MaxHead, Data

VARIABLES session, doomed, table, assoc, opened, packet, queued, sent, tunUp,
          connections, token, bytes, total, realtime, window, toSwap, spc, fpc, cpc,
          ids, removed, lookups, lpc, reported, plan, engine, configs, live, retries,
          ans, reach, worker, caller, trusted, captured, control, handler, loop,
          pinned, errors, job, queue, workers, threads, carried, replies, unsent,
          fresh, drawn, response, consumed, holder, asked, taken, stream, broken, call,
          calls, peer, tunnel, socket, tlock, slock, expired, sessions, filter, pc, op,
          reads, accepted, exact, round, reading, net, outcome, winner, profile,
          server, wire, back, client, srv, odd, proto, lock, slot, conns, mine,
          arrived, pending, reply, url, hops, at, head, closed, body, result, conf,
          armed, ask, inbox, said, prefix, delivered

\* The accept thread has a connection in its hand, or has it past the test
\* that follows accept().
Hand == {"got", "acquire", "parked", "admit", "spawn"}
PastTest == {"acquire", "parked", "admit", "spawn"}

Queued(c) == \E i \in 1..Len(backlog) : backlog[i] = c

\* A client is at one place: in the backlog once, in the accept thread's hand,
\* or with a worker.
OnePlace ==
  /\ \A i, j \in 1..Len(backlog) : backlog[i] = backlog[j] /\ backlog[i] \in Conns => i = j
  /\ \A c \in Conns : Queued(c) => wpc[c] = "queued"
  /\ apc \in Hand /\ inHand \in Conns => wpc[inHand] = "queued" /\ ~Queued(inHand)

\* The listener's own connection exists only after the cancellation, so it is
\* dropped by the test that follows accept() and never asks for a permit.
WakeIsDropped ==
  /\ opc \in {"hookConnect", "hookWake", "join", "stopped"} => cancelled
  /\ Queued(Wake) \/ (apc \in Hand /\ inHand = Wake) => cancelled
  /\ apc \in PastTest => inHand \in Conns

\* What the loop condition has found under the mutex still holds when the
\* permit is taken: the other threads only give permits back.
RoomWhenAdmitted == apc = "admit" => cancelled \/ active < max

\* There is no accept thread before start(), none after a start() that
\* failed, and stop() has joined it.
ThreadOfOwner ==
  /\ opc \in {"new", "failed"} => apc = "off"
  /\ opc = "stopped" => apc \in {"off", "exit"}

ListenerInv ==
  /\ TypeOK
  /\ OnePlace
  /\ WakeIsDropped
  /\ RoomWhenAdmitted
  /\ ThreadOfOwner
  /\ IsFiniteSet(Serving)
  /\ SlotsAccounted

-----------------------------------------------------------------------------
(* Facts about the set of running handlers and the backlog                 *)

\* A change of one client's state to or from "serving" changes the number of
\* handlers by one, and every other change leaves it alone.
LEMMA ServingGrows ==
  ASSUME TypeOK, IsFiniteSet(Serving), NEW c \in Conns, wpc[c] # "serving",
         wpc' = [wpc EXCEPT ![c] = "serving"]
  PROVE  IsFiniteSet(Serving') /\ Cardinality(Serving') = Cardinality(Serving) + 1
<1>1. Serving' = Serving \cup {c} /\ c \notin Serving
  BY DEF TypeOK, Serving
<1> QED
  BY <1>1, FS_AddElement

LEMMA ServingShrinks ==
  ASSUME TypeOK, IsFiniteSet(Serving), NEW c \in Conns, wpc[c] = "serving",
         wpc' = [wpc EXCEPT ![c] = "notify"]
  PROVE  /\ IsFiniteSet(Serving')
         /\ Cardinality(Serving) \in Nat \ {0}
         /\ Cardinality(Serving') = Cardinality(Serving) - 1
<1>1. Serving' = Serving \ {c} /\ c \in Serving
  BY DEF TypeOK, Serving
<1>2. Cardinality(Serving) \in Nat \ {0}
  BY <1>1, FS_CardinalityType, FS_EmptySet
<1> QED
  BY <1>1, <1>2, FS_RemoveElement

LEMMA ServingStays ==
  ASSUME TypeOK, NEW c \in Conns, NEW s \in {"queued", "closed"}, wpc[c] # "serving",
         wpc' = [wpc EXCEPT ![c] = s]
  PROVE  Serving' = Serving
  BY DEF TypeOK, Serving

\* Dropping the connection in hand, the listener's own included, stops no
\* handler.
LEMMA DropStopsNoHandler ==
  ASSUME TypeOK, OnePlace, apc \in Hand, wpc' = Drop(inHand)
  PROVE  Serving' = Serving
<1>1. CASE inHand \in Conns
  <2>1. wpc[inHand] # "serving" /\ wpc' = [wpc EXCEPT ![inHand] = "closed"]
    BY <1>1 DEF OnePlace, Drop
  <2> QED
    BY <1>1, <2>1, ServingStays
<1>2. CASE inHand \notin Conns
  BY <1>2 DEF Drop, Serving
<1> QED
  BY <1>1, <1>2

\* A connection enters the backlog at its end.
LEMMA BacklogAppend ==
  ASSUME TypeOK, NEW c \in Conns \cup {Wake}, backlog' = Append(backlog, c)
  PROVE  /\ backlog' \in Seq(Conns \cup {Wake})
         /\ Len(backlog') = Len(backlog) + 1
         /\ \A i \in 1..Len(backlog) : backlog'[i] = backlog[i]
         /\ backlog'[Len(backlog) + 1] = c
  BY DEF TypeOK

\* accept() takes the backlog's first connection.
LEMMA BacklogAccept ==
  ASSUME TypeOK, backlog # <<>>, backlog' = Tail(backlog)
  PROVE  /\ backlog' \in Seq(Conns \cup {Wake})
         /\ Len(backlog) >= 1
         /\ Head(backlog) = backlog[1]
         /\ Head(backlog) \in Conns \cup {Wake}
         /\ Len(backlog') = Len(backlog) - 1
         /\ \A i \in 1..Len(backlog') : backlog'[i] = backlog[i + 1]
  BY DEF TypeOK

-----------------------------------------------------------------------------
(* The invariant is inductive                                              *)

LEMMA ListenerInvInit == Init => ListenerInv
<1> SUFFICES ASSUME Init PROVE ListenerInv
  OBVIOUS
<1>1. Serving = {}
  BY DEF Init, Serving
<1>2. max \in Nat
  BY ListenerAssumption DEF Init, SlotsNew
<1>3. backlog \in Seq(Conns \cup {Wake}) /\ Len(backlog) = 0
  BY DEF Init
<1>4. wpc \in [Conns -> {"none", "queued", "serving", "notify", "closed"}]
  BY DEF Init
<1>5. TypeOK
  BY <1>2, <1>3, <1>4 DEF Init, TypeOK
<1>6. IsFiniteSet(Serving) /\ SlotsAccounted
  BY <1>1, <1>2, FS_EmptySet DEF Init, SlotsAccounted, Holds
<1>7. OnePlace /\ WakeIsDropped /\ RoomWhenAdmitted /\ ThreadOfOwner
  BY <1>3 DEF Init, OnePlace, WakeIsDropped, RoomWhenAdmitted, ThreadOfOwner, Queued, Hand,
         PastTest
<1> QED
  BY <1>5, <1>6, <1>7 DEF ListenerInv

\* A step that moves no permit and starts or ends no handler keeps the count.
LEMMA CountKept ==
  ASSUME ListenerInv, UNCHANGED <<max, active>>, Serving' = Serving,
         apc = "spawn" <=> apc' = "spawn"
  PROVE  IsFiniteSet(Serving)' /\ SlotsAccounted'
  BY DEF ListenerInv, SlotsAccounted, Holds

\* The owner: start(), stop(), the hook and the join.
LEMMA OwnerKeepsInv ==
  ASSUME ListenerInv,
         \/ Start \/ StartModeError \/ StartSpawnError
         \/ StopCancel \/ HookConnect \/ HookWakeAll \/ StopJoin
  PROVE  ListenerInv'
<1>1. Serving' = Serving
  BY DEF Start, StartModeError, StartSpawnError, StopCancel, HookConnect, HookWakeAll,
         StopJoin, Serving
<1>2. UNCHANGED <<max, active, wpc, inHand>> /\ (apc = "spawn" <=> apc' = "spawn")
  BY DEF Start, StartModeError, StartSpawnError, StopCancel, HookConnect, HookWakeAll,
         StopJoin, ListenerInv, ThreadOfOwner
<1>3. IsFiniteSet(Serving)' /\ SlotsAccounted'
  BY <1>1, <1>2, CountKept
<1>4. CASE HookConnect /\ open /\ Len(backlog) < BacklogLimit
  <2>1. backlog' = Append(backlog, Wake) /\ Wake \notin Conns
    BY <1>4, ListenerAssumption DEF HookConnect
  <2>2. /\ backlog' \in Seq(Conns \cup {Wake}) /\ Len(backlog') = Len(backlog) + 1
        /\ \A i \in 1..Len(backlog) : backlog'[i] = backlog[i]
        /\ backlog'[Len(backlog) + 1] = Wake
    BY <2>1, BacklogAppend DEF ListenerInv
  <2>3. Len(backlog) \in Nat
    BY DEF ListenerInv, TypeOK
  <2>4. \A c \in Conns : Queued(c)' => Queued(c)
    BY <2>1, <2>2, <2>3 DEF Queued
  <2>5. TypeOK'
    BY <1>2, <1>4, <2>2 DEF HookConnect, ListenerInv, TypeOK
  <2>6. OnePlace'
    BY <1>2, <1>4, <2>1, <2>2, <2>3, <2>4 DEF HookConnect, ListenerInv, OnePlace
  <2>7. (WakeIsDropped /\ RoomWhenAdmitted /\ ThreadOfOwner)'
    BY <1>2, <1>4 DEF HookConnect, ListenerInv, WakeIsDropped, RoomWhenAdmitted, ThreadOfOwner
  <2> QED
    BY <1>3, <2>5, <2>6, <2>7 DEF ListenerInv
<1>5. CASE ~(HookConnect /\ open /\ Len(backlog) < BacklogLimit)
  <2>1. UNCHANGED backlog
    BY <1>5 DEF Start, StartModeError, StartSpawnError, StopCancel, HookConnect, HookWakeAll,
         StopJoin
  <2>2. TypeOK'
    BY <1>2, <2>1 DEF Start, StartModeError, StartSpawnError, StopCancel, HookConnect,
         HookWakeAll, StopJoin, ListenerInv, TypeOK
  <2>3. apc' = apc \/ (apc = "parked" /\ apc' = "acquire") \/ (apc = "off" /\ apc' = "check")
    BY DEF Start, StartModeError, StartSpawnError, StopCancel, HookConnect,
         HookWakeAll, StopJoin, ListenerInv, ThreadOfOwner
  <2>4. OnePlace'
    BY <1>2, <2>1, <2>3 DEF ListenerInv, OnePlace, Queued, Hand
  <2>5. (WakeIsDropped /\ RoomWhenAdmitted /\ ThreadOfOwner)'
    BY <1>2, <2>1, <2>3 DEF Start, StartModeError, StartSpawnError, StopCancel, HookConnect,
         HookWakeAll, StopJoin, ListenerInv, WakeIsDropped, RoomWhenAdmitted, ThreadOfOwner,
         Queued, Hand, PastTest
  <2> QED
    BY <1>3, <2>2, <2>4, <2>5 DEF ListenerInv
<1> QED
  BY <1>4, <1>5

\* The accept thread where it moves no connection: the loop condition, the
\* errors of accept(), the gate's test and the end of the loop.
LEMMA LoopKeepsInv ==
  ASSUME ListenerInv,
         \/ LoopCheck \/ AcceptTransientError \/ AcceptFatalError \/ AcquireTest \/ LeaveLoop
  PROVE  ListenerInv'
<1> USE DEF LoopCheck, AcceptTransientError, AcceptFatalError, AcquireTest, LeaveLoop, owner
<1>1. UNCHANGED <<max, active, wpc, inHand, backlog, opc, cancelled>>
  OBVIOUS
<1>2. Serving' = Serving
  BY <1>1 DEF Serving
<1>3. apc # "spawn" /\ apc' # "spawn"
  OBVIOUS
<1>4. IsFiniteSet(Serving)' /\ SlotsAccounted'
  BY <1>1, <1>2, <1>3, CountKept
<1>5. apc' \in Hand => apc \in PastTest /\ apc' \in PastTest
  BY DEF Hand, PastTest
<1>6. TypeOK'
  BY DEF ListenerInv, TypeOK
<1>7. OnePlace'
  BY <1>1, <1>5 DEF ListenerInv, OnePlace, Queued, Hand, PastTest
<1>8. WakeIsDropped'
  BY <1>1, <1>5 DEF ListenerInv, WakeIsDropped, Queued, Hand, PastTest
<1>9. (RoomWhenAdmitted /\ ThreadOfOwner)'
  BY <1>1 DEF ListenerInv, RoomWhenAdmitted, ThreadOfOwner
<1> QED
  BY <1>4, <1>6, <1>7, <1>8, <1>9 DEF ListenerInv

\* accept() returns a connection.
LEMMA AcceptKeepsInv ==
  ASSUME ListenerInv, AcceptOk
  PROVE  ListenerInv'
<1> USE DEF AcceptOk, owner
<1>1. UNCHANGED <<max, active, wpc, opc, cancelled>> /\ inHand' = Head(backlog)
  OBVIOUS
<1>2. /\ backlog' \in Seq(Conns \cup {Wake}) /\ Len(backlog) >= 1
      /\ Head(backlog) = backlog[1] /\ Head(backlog) \in Conns \cup {Wake}
      /\ Len(backlog') = Len(backlog) - 1
      /\ \A i \in 1..Len(backlog') : backlog'[i] = backlog[i + 1]
  BY BacklogAccept DEF ListenerInv
<1>3. Len(backlog) \in Nat
  BY DEF ListenerInv, TypeOK
<1>4. \A c \in Conns \cup {Wake} : Queued(c)' => Queued(c)
  BY <1>2, <1>3 DEF Queued
<1>5. Queued(Head(backlog))
  BY <1>2, <1>3 DEF Queued
<1>6. inHand' \in Conns => ~Queued(inHand)'
  BY <1>1, <1>2, <1>3 DEF ListenerInv, OnePlace, Queued
<1>7. IsFiniteSet(Serving)' /\ SlotsAccounted'
  BY <1>1, CountKept DEF Serving
<1>8. TypeOK'
  BY <1>1, <1>2 DEF ListenerInv, TypeOK
<1>9. OnePlace'
  <2>1. \A i, j \in 1..Len(backlog') :
          backlog'[i] = backlog'[j] /\ backlog'[i] \in Conns => i = j
    BY <1>2, <1>3 DEF ListenerInv, OnePlace
  <2>2. \A c \in Conns : Queued(c)' => wpc'[c] = "queued"
    BY <1>1, <1>4 DEF ListenerInv, OnePlace
  <2>3. inHand' \in Conns => wpc'[inHand'] = "queued" /\ ~Queued(inHand)'
    BY <1>1, <1>5, <1>6 DEF ListenerInv, OnePlace, Queued
  <2> QED
    BY <2>1, <2>2, <2>3 DEF OnePlace
<1>10. WakeIsDropped'
  <2>1. Queued(Wake)' => cancelled'
    BY <1>1, <1>4 DEF ListenerInv, WakeIsDropped
  <2>2. inHand' = Wake => cancelled'
    BY <1>1, <1>5 DEF ListenerInv, WakeIsDropped
  <2> QED
    BY <1>1, <2>1, <2>2 DEF ListenerInv, WakeIsDropped, PastTest
<1>11. (RoomWhenAdmitted /\ ThreadOfOwner)'
  BY <1>1 DEF ListenerInv, RoomWhenAdmitted, ThreadOfOwner
<1> QED
  BY <1>7, <1>8, <1>9, <1>10, <1>11 DEF ListenerInv

\* The accept thread lets go of the connection in its hand: a drop after the
\* cancellation, or a failed spawn.
LEMMA DropKeepsPlaces ==
  ASSUME ListenerInv, apc \in Hand, wpc' = Drop(inHand), UNCHANGED <<inHand, backlog>>,
         apc' \notin Hand
  PROVE  /\ wpc' \in [Conns -> {"none", "queued", "serving", "notify", "closed"}]
         /\ OnePlace'
<1>1. \A c \in Conns : c # inHand => wpc'[c] = wpc[c]
  BY DEF Drop, ListenerInv, TypeOK
<1>2. wpc' \in [Conns -> {"none", "queued", "serving", "notify", "closed"}]
  BY DEF Drop, ListenerInv, TypeOK
<1>3. \A c \in Conns : Queued(c) => wpc'[c] = "queued"
  BY <1>1 DEF ListenerInv, OnePlace
<1>4. \A c \in Conns : Queued(c)' <=> Queued(c)
  BY DEF Queued
<1> QED
  BY <1>2, <1>3, <1>4 DEF ListenerInv, OnePlace

LEMMA AfterAcceptKeepsInv ==
  ASSUME ListenerInv, AfterAccept
  PROVE  ListenerInv'
<1> USE DEF AfterAccept, owner
<1>1. UNCHANGED <<max, active, opc, cancelled, inHand, backlog>> /\ apc = "got"
  OBVIOUS
<1>2. (RoomWhenAdmitted /\ ThreadOfOwner)'
  BY <1>1 DEF ListenerInv, RoomWhenAdmitted, ThreadOfOwner
<1>3. WakeIsDropped'
  BY <1>1, ListenerAssumption DEF ListenerInv, TypeOK, WakeIsDropped, Queued, Hand, PastTest
<1>4. CASE cancelled
  <2>1. wpc' = Drop(inHand) /\ apc' = "leave"
    BY <1>4
  <2>2. Serving' = Serving
    BY <1>1, <2>1, DropStopsNoHandler DEF ListenerInv, Hand
  <2>3. IsFiniteSet(Serving)' /\ SlotsAccounted'
    BY <1>1, <2>1, <2>2, CountKept
  <2>4. /\ wpc' \in [Conns -> {"none", "queued", "serving", "notify", "closed"}]
        /\ OnePlace'
    BY <1>1, <2>1, DropKeepsPlaces DEF Hand
  <2>5. TypeOK'
    BY <1>1, <2>1, <2>4 DEF ListenerInv, TypeOK
  <2> QED
    BY <1>2, <1>3, <2>3, <2>4, <2>5 DEF ListenerInv
<1>5. CASE ~cancelled
  <2>1. wpc' = wpc /\ apc' = "acquire"
    BY <1>5
  <2>2. IsFiniteSet(Serving)' /\ SlotsAccounted'
    BY <1>1, <2>1, CountKept DEF Serving
  <2>3. TypeOK' /\ OnePlace'
    BY <1>1, <2>1 DEF ListenerInv, TypeOK, OnePlace, Queued, Hand
  <2> QED
    BY <1>2, <1>3, <2>2, <2>3 DEF ListenerInv
<1> QED
  BY <1>4, <1>5

\* Slots::acquire takes the permit, or gives up after a cancellation.
LEMMA AdmitKeepsInv ==
  ASSUME ListenerInv, AcquireAdmit
  PROVE  ListenerInv'
<1> USE DEF AcquireAdmit, owner
<1>1. UNCHANGED <<max, opc, cancelled, inHand, backlog>> /\ apc = "admit"
  OBVIOUS
<1>2. (RoomWhenAdmitted /\ ThreadOfOwner)'
  BY <1>1 DEF ListenerInv, RoomWhenAdmitted, ThreadOfOwner
<1>3. WakeIsDropped'
  BY <1>1 DEF ListenerInv, WakeIsDropped, Queued, Hand, PastTest
<1>4. CASE cancelled
  <2>1. wpc' = Drop(inHand) /\ apc' = "leave" /\ active' = active
    BY <1>4
  <2>2. Serving' = Serving
    BY <1>1, <2>1, DropStopsNoHandler DEF ListenerInv, Hand
  <2>3. IsFiniteSet(Serving)' /\ SlotsAccounted'
    BY <1>1, <2>1, <2>2, CountKept
  <2>4. /\ wpc' \in [Conns -> {"none", "queued", "serving", "notify", "closed"}]
        /\ OnePlace'
    BY <1>1, <2>1, DropKeepsPlaces DEF Hand
  <2>5. TypeOK'
    BY <1>1, <2>1, <2>4 DEF ListenerInv, TypeOK
  <2> QED
    BY <1>2, <1>3, <2>3, <2>4, <2>5 DEF ListenerInv
<1>5. CASE ~cancelled
  <2>1. wpc' = wpc /\ apc' = "spawn" /\ active' = active + 1
    BY <1>5
  <2>2. Serving' = Serving
    BY <2>1 DEF Serving
  <2>3. Cardinality(Serving) \in Nat
    BY FS_CardinalityType DEF ListenerInv
  <2>4. IsFiniteSet(Serving)' /\ SlotsAccounted'
    BY <1>1, <1>5, <2>1, <2>2, <2>3
       DEF ListenerInv, TypeOK, SlotsAccounted, Holds, RoomWhenAdmitted
  <2>5. TypeOK'
    <3>1. active' \in Nat /\ apc' = "spawn"
      BY <2>1 DEF ListenerInv, TypeOK
    <3> QED
      BY <1>1, <2>1, <3>1, Zenon DEF ListenerInv, TypeOK
  <2>6. OnePlace'
    BY <1>1, <2>1 DEF ListenerInv, OnePlace, Queued, Hand
  <2> QED
    BY <1>2, <1>3, <2>4, <2>5, <2>6 DEF ListenerInv
<1> QED
  BY <1>4, <1>5

\* The worker's thread is spawned and owns the permit, or the permit and the
\* connection are dropped with the closure.
LEMMA SpawnKeepsInv ==
  ASSUME ListenerInv, SpawnWorker \/ SpawnError
  PROVE  ListenerInv'
<1> USE DEF SpawnWorker, SpawnError, owner
<1>1. /\ UNCHANGED <<max, opc, cancelled, inHand, backlog>>
      /\ apc = "spawn" /\ apc' = "check"
  OBVIOUS
<1>2. (RoomWhenAdmitted /\ ThreadOfOwner)'
  BY <1>1 DEF ListenerInv, RoomWhenAdmitted, ThreadOfOwner
<1>3. WakeIsDropped'
  BY <1>1 DEF ListenerInv, WakeIsDropped, Queued, Hand, PastTest
<1>4. Cardinality(Serving) \in Nat
  BY FS_CardinalityType DEF ListenerInv
<1>5. inHand \in Conns /\ wpc[inHand] = "queued" /\ ~Queued(inHand)
  BY <1>1 DEF ListenerInv, WakeIsDropped, OnePlace, Hand, PastTest
<1>6. CASE SpawnWorker
  <2>1. wpc' = [wpc EXCEPT ![inHand] = "serving"] /\ active' = active
    BY <1>6
  <2>2. IsFiniteSet(Serving') /\ Cardinality(Serving') = Cardinality(Serving) + 1
    BY <1>5, <2>1, ServingGrows DEF ListenerInv
  <2>3. SlotsAccounted'
    BY <1>1, <1>4, <2>1, <2>2 DEF ListenerInv, SlotsAccounted, Holds
  <2>4. TypeOK'
    BY <1>1, <1>6, <2>1 DEF ListenerInv, TypeOK
  <2>5. OnePlace'
    BY <1>1, <1>5, <2>1 DEF ListenerInv, TypeOK, OnePlace, Queued, Hand
  <2> QED
    BY <1>2, <1>3, <2>2, <2>3, <2>4, <2>5 DEF ListenerInv
<1>7. CASE SpawnError
  <2>1. wpc' = Drop(inHand) /\ active' = active - 1
    BY <1>7
  <2>2. Serving' = Serving
    BY <1>1, <2>1, DropStopsNoHandler DEF ListenerInv, Hand
  <2>3. active' \in Nat /\ SlotsAccounted'
    BY <1>1, <1>4, <2>1, <2>2 DEF ListenerInv, TypeOK, SlotsAccounted, Holds
  <2>4. /\ wpc' \in [Conns -> {"none", "queued", "serving", "notify", "closed"}]
        /\ OnePlace'
    BY <1>1, <2>1, DropKeepsPlaces DEF Hand
  <2>5. TypeOK'
    BY <1>1, <1>7, <2>3, <2>4 DEF ListenerInv, TypeOK
  <2> QED
    BY <1>2, <1>3, <2>2, <2>3, <2>4, <2>5 DEF ListenerInv
<1> QED
  BY <1>6, <1>7

\* A handler returns; its permit and then its notification are given back.
LEMMA WorkerKeepsInv ==
  ASSUME ListenerInv, NEW c \in Conns, WorkerEnd(c) \/ WorkerNotify(c)
  PROVE  ListenerInv'
<1> USE DEF WorkerEnd, WorkerNotify, owner
<1>1. /\ UNCHANGED <<max, opc, cancelled, inHand, backlog>>
      /\ apc' = apc \/ (apc = "parked" /\ apc' = "acquire")
  OBVIOUS
<1>2. ThreadOfOwner'
  BY <1>1 DEF ListenerInv, ThreadOfOwner
<1>3. WakeIsDropped'
  BY <1>1 DEF ListenerInv, WakeIsDropped, Queued, Hand, PastTest
<1>4. Cardinality(Serving) \in Nat
  BY FS_CardinalityType DEF ListenerInv
<1>5. \A d \in Conns : wpc[d] = "queued" => d # c /\ wpc'[d] = "queued"
  BY DEF ListenerInv, TypeOK
<1>6. OnePlace'
  BY <1>1, <1>5 DEF ListenerInv, OnePlace, Queued, Hand
<1>7. CASE WorkerEnd(c)
  <2>1. /\ wpc[c] = "serving" /\ wpc' = [wpc EXCEPT ![c] = "notify"]
        /\ active' = active - 1 /\ apc' = apc
    BY <1>7
  <2>2. /\ IsFiniteSet(Serving') /\ Cardinality(Serving) \in Nat \ {0}
        /\ Cardinality(Serving') = Cardinality(Serving) - 1
    BY <2>1, ServingShrinks DEF ListenerInv
  <2>3. active' \in Nat /\ SlotsAccounted'
    BY <1>1, <2>1, <2>2 DEF ListenerInv, TypeOK, SlotsAccounted, Holds
  <2>4. TypeOK'
    BY <1>1, <1>7, <2>1, <2>3 DEF ListenerInv, TypeOK
  <2>5. RoomWhenAdmitted'
    BY <1>1, <2>1 DEF ListenerInv, TypeOK, RoomWhenAdmitted
  <2> QED
    BY <1>2, <1>3, <1>6, <2>2, <2>3, <2>4, <2>5 DEF ListenerInv
<1>8. CASE WorkerNotify(c)
  <2>1. /\ wpc[c] # "serving" /\ wpc' = [wpc EXCEPT ![c] = "closed"]
        /\ active' = active
    BY <1>8
  <2>2. Serving' = Serving
    BY <2>1, ServingStays DEF ListenerInv
  <2>3. IsFiniteSet(Serving)' /\ SlotsAccounted'
    BY <1>1, <2>1, <2>2, CountKept
  <2>4. TypeOK'
    BY <1>1, <1>8, <2>1 DEF ListenerInv, TypeOK
  <2>5. RoomWhenAdmitted'
    BY <1>1, <2>1 DEF ListenerInv, RoomWhenAdmitted
  <2> QED
    BY <1>2, <1>3, <1>6, <2>3, <2>4, <2>5 DEF ListenerInv
<1> QED
  BY <1>7, <1>8

\* A client's connection is completed by the kernel.
LEMMA ConnectKeepsInv ==
  ASSUME ListenerInv, NEW c \in Conns, ClientConnect(c)
  PROVE  ListenerInv'
<1> USE DEF ClientConnect, owner
<1>1. /\ UNCHANGED <<max, active, opc, apc, cancelled, inHand>>
      /\ wpc[c] = "none" /\ wpc' = [wpc EXCEPT ![c] = "queued"]
      /\ backlog' = Append(backlog, c)
  OBVIOUS
<1>2. /\ backlog' \in Seq(Conns \cup {Wake}) /\ Len(backlog') = Len(backlog) + 1
      /\ \A i \in 1..Len(backlog) : backlog'[i] = backlog[i]
      /\ backlog'[Len(backlog) + 1] = c
  BY <1>1, BacklogAppend DEF ListenerInv
<1>3. Len(backlog) \in Nat
  BY DEF ListenerInv, TypeOK
<1>4. ~Queued(c) /\ (apc \in Hand => inHand # c)
  BY <1>1 DEF ListenerInv, OnePlace
<1>5. \A d : Queued(d)' => Queued(d) \/ d = c
  BY <1>2, <1>3 DEF Queued
<1>6. Serving' = Serving
  BY <1>1, ServingStays DEF ListenerInv
<1>7. IsFiniteSet(Serving)' /\ SlotsAccounted'
  BY <1>1, <1>6, CountKept
<1>8. TypeOK'
  BY <1>1, <1>2 DEF ListenerInv, TypeOK
<1>9. OnePlace'
  <2>1. \A i, j \in 1..Len(backlog') :
          backlog'[i] = backlog'[j] /\ backlog'[i] \in Conns => i = j
    BY <1>2, <1>3, <1>4 DEF ListenerInv, OnePlace, Queued
  <2>2. \A d \in Conns : Queued(d)' => wpc'[d] = "queued"
    BY <1>1, <1>5 DEF ListenerInv, TypeOK, OnePlace
  <2>3. apc \in Hand /\ inHand \in Conns => wpc'[inHand] = "queued" /\ ~Queued(inHand)'
    BY <1>1, <1>4, <1>5 DEF ListenerInv, TypeOK, OnePlace, Queued
  <2> QED
    BY <1>1, <2>1, <2>2, <2>3 DEF OnePlace
<1>10. WakeIsDropped'
  <2>1. Queued(Wake)' => Queued(Wake)
    BY <1>5, ListenerAssumption
  <2> QED
    BY <1>1, <2>1 DEF ListenerInv, WakeIsDropped
<1>11. (RoomWhenAdmitted /\ ThreadOfOwner)'
  BY <1>1 DEF ListenerInv, RoomWhenAdmitted, ThreadOfOwner
<1> QED
  BY <1>7, <1>8, <1>9, <1>10, <1>11 DEF ListenerInv

LEMMA ListenerInvStep == ListenerInv /\ [Next]_vars => ListenerInv'
<1> SUFFICES ASSUME ListenerInv, [Next]_vars PROVE ListenerInv'
  OBVIOUS
<1>1. CASE UNCHANGED vars
  BY <1>1 DEF vars, ListenerInv, TypeOK, OnePlace, WakeIsDropped, RoomWhenAdmitted,
              ThreadOfOwner, SlotsAccounted, Holds, Serving, Queued
<1>2. CASE Next
  BY <1>2, OwnerKeepsInv, LoopKeepsInv, AcceptKeepsInv, AfterAcceptKeepsInv, AdmitKeepsInv,
     SpawnKeepsInv, WorkerKeepsInv, ConnectKeepsInv DEF Next, AcceptThread, AcceptFailures
<1> QED
  BY <1>1, <1>2

-----------------------------------------------------------------------------
(* Theorems                                                                *)

\* Every variable of the listener keeps its type; in particular the permit
\* counter, an unsigned integer in the code, is never decremented below zero
\* (Drop for Slot, the failed spawn).
THEOREM ListenerTypeCorrect == Spec => []TypeOK
<1>1. ListenerInv => TypeOK
  BY DEF ListenerInv
<1> QED
  BY <1>1, ListenerInvInit, ListenerInvStep, PTL DEF Spec

\* The permit counter is exactly the number of running handlers plus the
\* permit in the accept thread's hand, and within the budget, through
\* failed spawns, cancellations and panicking handlers.
THEOREM SlotsNeverLeak == Spec => []SlotsAccounted
<1>1. ListenerInv => SlotsAccounted
  BY DEF ListenerInv
<1> QED
  BY <1>1, ListenerInvInit, ListenerInvStep, PTL DEF Spec

\* The connection stop() makes to its own listener never asks for a permit:
\* what the accept thread carries past the test is a client.
THEOREM WakeNeverServed == Spec => [](apc \in PastTest => inHand \in Conns)
<1>1. ListenerInv => (apc \in PastTest => inHand \in Conns)
  BY DEF ListenerInv, WakeIsDropped
<1> QED
  BY <1>1, ListenerInvInit, ListenerInvStep, PTL DEF Spec

\* No handler begins after stop() has returned: the accept thread it joined
\* is the only one that starts handlers.
THEOREM NoHandlerAfterStop == Spec => NothingAfterStop
<1> DEFINE Begins == opc = "stopped" =>
                       \A c \in Conns : wpc'[c] = "serving" => wpc[c] = "serving"
<1>1. ListenerInv /\ [Next]_vars => [Begins]_vars
  <2> SUFFICES ASSUME ListenerInv, Next, opc = "stopped", NEW c \in Conns,
                      wpc'[c] = "serving"
               PROVE  wpc[c] = "serving"
    BY DEF vars
  <2>1. apc \in {"off", "exit"} /\ wpc \in [Conns -> {"none", "queued", "serving", "notify", "closed"}]
    BY DEF ListenerInv, ThreadOfOwner, TypeOK
  <2> QED
    BY <2>1 DEF Next, AcceptThread, AcceptFailures, Start, StartModeError, StartSpawnError,
       StopCancel, HookConnect, HookWakeAll, StopJoin, LoopCheck, AcceptOk, AfterAccept,
       AcquireTest, AcquireAdmit, SpawnWorker, LeaveLoop, AcceptTransientError,
       AcceptFatalError, SpawnError, WorkerEnd, WorkerNotify, ClientConnect
<1> QED
  BY <1>1, ListenerInvInit, ListenerInvStep, PTL DEF Spec, NothingAfterStop

(***************************************************************************)
(* UdpAssociations                                                         *)
(***************************************************************************)

Assoc == INSTANCE UdpAssociations

AssocRec == [flow : Flows \cup {"none"}, alive : BOOLEAN,
             pump : {"none", "recv", "leaving", "closing", "done"}, server : BOOLEAN]

PacketRec == [pc : {"idle", "lookup", "open", "insert", "send"},
              flow : Flows \cup {"none"}, id : 0 .. MaxOpen]

AssocType ==
  /\ table \in [Flows -> 0 .. MaxOpen]
  /\ assoc \in [Assoc!Ids -> AssocRec]
  /\ opened \in 0 .. MaxOpen
  /\ packet \in PacketRec
  /\ packet.pc # "idle" => packet.flow \in Flows

\* What is alive has been opened for a flow, and its pump has not said it is
\* leaving; an identifier nobody has drawn has no pump.
LiveIsOpened ==
  \A i \in Assoc!Ids :
    /\ assoc[i].pump # "none" => i <= opened /\ assoc[i].flow \in Flows
    /\ assoc[i].alive => assoc[i].pump # "none"

\* An entry of the table is an association of its own flow.
EntriesMatch == \A f \in Flows : table[f] # 0 => /\ assoc[table[f]].flow = f
                                                 /\ assoc[table[f]].pump # "none"

\* What the lookup has found of the flow still holds when the relay is there:
\* the other threads only end associations.
NoneWhileOpening ==
  /\ packet.pc = "open" =>
       \A i \in Assoc!Ids : assoc[i].alive => assoc[i].flow # packet.flow
  /\ packet.pc = "insert" =>
       /\ packet.id \in Assoc!Ids
       /\ assoc[packet.id].flow = packet.flow
       /\ assoc[packet.id].pump # "none"
       /\ \A i \in Assoc!Ids : assoc[i].alive /\ assoc[i].flow = packet.flow => i = packet.id

AssocInv ==
  /\ AssocType
  /\ LiveIsOpened
  /\ EntriesMatch
  /\ NoneWhileOpening
  /\ Assoc!AssociationIsOne

\* What a step of pump i does to its association.
Ends(i, a) ==
  /\ UNCHANGED <<table, opened, packet>>
  /\ assoc' = [assoc EXCEPT ![i] = a]
  /\ a.flow = assoc[i].flow
  /\ a.alive => assoc[i].alive
  /\ a.pump = "none" <=> assoc[i].pump = "none"

(* A pump never revives an association, nor gives it to another flow.      *)
LEMMA PumpOnlyEnds ==
  ASSUME NEW i \in Assoc!Ids, assoc \in [Assoc!Ids -> AssocRec], Assoc!PumpStep(i)
  PROVE  \E a \in AssocRec : Ends(i, a)
<1> DEFINE r == assoc[i]
<1>1. r \in AssocRec
  OBVIOUS
<1>2. CASE Assoc!Reply(i, TRUE) \/ Assoc!Reply(i, FALSE)
  <2>1. UNCHANGED <<table, opened, packet>>
    BY <1>2 DEF Assoc!Reply
  <2>2. CASE assoc' = assoc
    <3>1. assoc' = [assoc EXCEPT ![i] = r]
      BY <2>2
    <3> QED BY <1>1, <2>1, <3>1 DEF Ends
  <2>3. CASE assoc' # assoc
    <3>1. assoc' = [assoc EXCEPT ![i] = [r EXCEPT !.pump = "leaving"]] /\ r.pump = "recv"
      BY <1>2, <2>3 DEF Assoc!Reply
    <3>2. [r EXCEPT !.pump = "leaving"] \in AssocRec
      BY <1>1 DEF AssocRec
    <3> QED BY <1>1, <2>1, <3>1, <3>2 DEF Ends, AssocRec
  <2> QED BY <2>2, <2>3
<1>3. CASE Assoc!GoIdle(i)
  <2>1. /\ assoc' = [assoc EXCEPT ![i] = [r EXCEPT !.pump = "leaving"]] /\ r.pump = "recv"
        /\ UNCHANGED <<table, opened, packet>>
    BY <1>3 DEF Assoc!GoIdle
  <2>2. [r EXCEPT !.pump = "leaving"] \in AssocRec
    BY <1>1 DEF AssocRec
  <2> QED BY <1>1, <2>1, <2>2 DEF Ends, AssocRec
<1>4. CASE Assoc!MarkDead(i)
  <2>1. /\ assoc' = [assoc EXCEPT ![i] = [r EXCEPT !.alive = FALSE, !.pump = "closing"]]
        /\ r.pump = "leaving"
        /\ UNCHANGED <<table, opened, packet>>
    BY <1>4 DEF Assoc!MarkDead
  <2>2. [r EXCEPT !.alive = FALSE, !.pump = "closing"] \in AssocRec
    BY <1>1 DEF AssocRec
  <2> QED BY <1>1, <2>1, <2>2 DEF Ends, AssocRec
<1>5. CASE Assoc!CloseControl(i)
  <2>1. /\ assoc' = [assoc EXCEPT ![i] = [r EXCEPT !.pump = "done", !.server = FALSE]]
        /\ r.pump = "closing"
        /\ UNCHANGED <<table, opened, packet>>
    BY <1>5 DEF Assoc!CloseControl
  <2>2. [r EXCEPT !.pump = "done", !.server = FALSE] \in AssocRec
    BY <1>1 DEF AssocRec
  <2> QED BY <1>1, <2>1, <2>2 DEF Ends, AssocRec
<1> QED
  BY <1>2, <1>3, <1>4, <1>5 DEF Assoc!PumpStep

(* The packet thread's registers after the relay has been opened.          *)
LEMMA InsertTyped ==
  ASSUME NEW p \in PacketRec, NEW n \in 1 .. MaxOpen, MaxOpen \in Nat
  PROVE  [p EXCEPT !.pc = "insert", !.id = n] \in PacketRec
<1>1. n \in 0 .. MaxOpen
  OBVIOUS
<1> QED BY <1>1 DEF PacketRec

(* A step of the packet thread, of a pump or of the cleanup thread keeps   *)
(* the invariant.                                                          *)
LEMMA AssocNext ==
  ASSUME MaxOpen \in Nat, AssocInv, [Assoc!Next]_(Assoc!vars)
  PROVE  AssocInv'
<1> USE DEF AssocInv, AssocType, LiveIsOpened, EntriesMatch, NoneWhileOpening,
            Assoc!AssociationIsOne, Assoc!Ids, PacketRec
<1>1. ASSUME NEW f \in Flows,
             Assoc!Datagram(f) \/ Assoc!SessionTimesOut(f) \/ Assoc!CleanupRemove(f)
      PROVE  AssocInv'
  BY <1>1 DEF Assoc!Datagram, Assoc!SessionTimesOut, Assoc!CleanupRemove
<1>2. CASE Assoc!Lookup
  <2>1. AssocType'
    BY <1>2 DEF Assoc!Lookup, Assoc!Live
  <2>2. LiveIsOpened'
    BY <1>2 DEF Assoc!Lookup, Assoc!Live
  <2>3. EntriesMatch'
    BY <1>2 DEF Assoc!Lookup, Assoc!Live
  <2>4. NoneWhileOpening'
    BY <1>2 DEF Assoc!Lookup, Assoc!Live
  <2>5. Assoc!AssociationIsOne'
    BY <1>2 DEF Assoc!Lookup, Assoc!Live
  <2> QED
    BY <2>1, <2>2, <2>3, <2>4, <2>5
<1>3. CASE Assoc!OpenFails
  BY <1>3 DEF Assoc!OpenFails, Assoc!Idle
<1>4. CASE Assoc!OpenSucceeds
  <2>1. AssocType'
    <3>1. [flow |-> packet.flow, alive |-> TRUE, pump |-> "recv", server |-> TRUE] \in AssocRec
      BY <1>4 DEF Assoc!OpenSucceeds, AssocRec
    <3>2. assoc' \in [Assoc!Ids -> AssocRec]
      BY <1>4, <3>1 DEF Assoc!OpenSucceeds
    <3>3. opened' \in 1 .. MaxOpen
      BY <1>4 DEF Assoc!OpenSucceeds
    <3>4. packet' = [packet EXCEPT !.pc = "insert", !.id = opened'] /\ packet.flow \in Flows
      BY <1>4 DEF Assoc!OpenSucceeds
    <3>5. table' = table
      BY <1>4 DEF Assoc!OpenSucceeds
    <3>6. packet' \in PacketRec
      BY <3>3, <3>4, InsertTyped
    <3>7. packet'.flow \in Flows
      BY <3>4 DEF PacketRec
    <3> HIDE DEF PacketRec
    <3> QED BY <3>2, <3>3, <3>5, <3>6, <3>7
  <2>2. LiveIsOpened'
    BY <1>4 DEF Assoc!OpenSucceeds
  <2>3. EntriesMatch'
    BY <1>4 DEF Assoc!OpenSucceeds
  <2>4. NoneWhileOpening'
    BY <1>4 DEF Assoc!OpenSucceeds
  <2>5. Assoc!AssociationIsOne'
    BY <1>4 DEF Assoc!OpenSucceeds
  <2> QED
    BY <2>1, <2>2, <2>3, <2>4, <2>5
<1>5. CASE Assoc!Insert
  <2>1. AssocType'
    BY <1>5 DEF Assoc!Insert
  <2>2. LiveIsOpened'
    BY <1>5 DEF Assoc!Insert
  <2>3. EntriesMatch'
    BY <1>5 DEF Assoc!Insert
  <2>4. NoneWhileOpening'
    BY <1>5 DEF Assoc!Insert
  <2>5. Assoc!AssociationIsOne'
    <3>1. ASSUME NEW i \in Assoc!Ids, assoc[i].alive
          PROVE  table'[assoc[i].flow] = i
      <4>1. assoc[i].flow \in Flows /\ i # 0
        BY <3>1
      <4>2. CASE packet.id = i
        BY <1>5, <3>1, <4>1, <4>2 DEF Assoc!Insert
      <4>3. CASE packet.id # i
        <5>1. table[assoc[i].flow] = i
          BY <3>1, <4>3
        <5>2. assoc[i].flow # packet.flow
          BY <1>5, <3>1, <4>3, <5>1 DEF Assoc!Insert
        <5> QED BY <1>5, <3>1, <4>1, <5>1, <5>2 DEF Assoc!Insert
      <4> QED BY <4>2, <4>3
    <3>2. assoc' = assoc
      BY <1>5 DEF Assoc!Insert
    <3> QED BY <3>1, <3>2
  <2> QED
    BY <2>1, <2>2, <2>3, <2>4, <2>5
<1>6. ASSUME NEW b \in BOOLEAN, Assoc!Send(b)
      PROVE  AssocInv'
  BY <1>6 DEF Assoc!Send, Assoc!Idle
<1>7. ASSUME NEW i \in Assoc!Ids, Assoc!PumpStep(i)
      PROVE  AssocInv'
  <2>1. PICK a \in AssocRec : Ends(i, a)
    BY <1>7, PumpOnlyEnds
  <2>2. /\ UNCHANGED <<table, opened, packet>>
        /\ assoc' = [assoc EXCEPT ![i] = a]
        /\ a.flow = assoc[i].flow
        /\ a.alive => assoc[i].alive
        /\ a.pump = "none" <=> assoc[i].pump = "none"
    BY <2>1 DEF Ends
  <2>3. AssocType'
    BY <2>2
  <2>4. LiveIsOpened'
    BY <2>2
  <2>5. EntriesMatch'
    BY <2>2
  <2>6. NoneWhileOpening'
    BY <2>2
  <2>7. Assoc!AssociationIsOne'
    BY <2>2
  <2> QED
    BY <2>3, <2>4, <2>5, <2>6, <2>7
<1>8. CASE Assoc!CleanupCollect \/ Assoc!TunnelGoes \/ UNCHANGED Assoc!vars
  BY <1>8 DEF Assoc!CleanupCollect, Assoc!TunnelGoes, Assoc!vars
<1> QED
  BY <1>1, <1>2, <1>3, <1>4, <1>5, <1>6, <1>7, <1>8 DEF Assoc!Next, Assoc!PacketStep

(* For every set of flows, at most one association of a flow is alive, and *)
(* it is the one the table serves the flow from or is about to.            *)
THEOREM FlowNeverSplits ==
  ASSUME MaxOpen \in Nat
  PROVE  Assoc!Spec => []Assoc!AssociationIsOne
<1>1. Assoc!Init => AssocInv
  <2>1. Assoc!Unused \in AssocRec
    BY DEF Assoc!Unused, AssocRec
  <2> QED
   BY <2>1 DEF Assoc!Init, AssocInv, AssocType, LiveIsOpened, EntriesMatch, NoneWhileOpening,
         Assoc!AssociationIsOne, Assoc!Ids, Assoc!Unused, Assoc!Idle, PacketRec
<1>2. AssocInv /\ [Assoc!Next]_(Assoc!vars) => AssocInv'
  BY AssocNext
<1>3. AssocInv => Assoc!AssociationIsOne
  BY DEF AssocInv
<1> QED
  BY <1>1, <1>2, <1>3, PTL DEF Assoc!Spec

(***************************************************************************)
(* ConnectionTracker                                                       *)
(***************************************************************************)

Tracker == INSTANCE ConnectionTracker

\* A flow copies only while its session relays, and the flow that holds the
\* window is the one that is swapping: nobody else's step can take a flow from
\* between its two counters.
FlowsAtWork ==
  /\ \A f \in Flows : spc[f[1]] # "relay" => fpc[f] \in {"off", "end"}
  /\ \A f \in Flows : f \in window => fpc[f] = "swap"

\* A closer holds a removed session only on its way to cancel it, and only a
\* resetter clears.
ClosersAtWork ==
  \A c \in Closers : /\ cpc[c] # "cancel" => removed[c] = {}
                     /\ cpc[c] \in {"clear", "zero"} => c \in Resetters

TrackerInv ==
  /\ Tracker!TypeOK
  /\ FlowsAtWork
  /\ ClosersAtWork
  /\ Tracker!WindowConserves
  /\ Tracker!HiddenIsClosed
  /\ Tracker!LookupsBounded

-----------------------------------------------------------------------------
(* The sets the counters stand for                                         *)

Waiting(d) == {f \in Flows : f[2] = d /\ fpc[f] \in {"realtime"}}
Looking == {s \in Sessions : lpc[s] \in {"over", "spawn", "run"}}
Running == {s \in Sessions : lpc[s] \in {"spawn", "run"}}

(* The tracker's finite sets and cardinalities are the library's.          *)
LEMMA FiniteIsFinite == ASSUME NEW S PROVE Tracker!IsFiniteSet(S) = IsFiniteSet(S)
  BY DEF Tracker!IsFiniteSet, IsFiniteSet

LEMMA CardIsCard == ASSUME NEW S PROVE Tracker!Cardinality(S) = Cardinality(S)
  BY DEF Tracker!Cardinality, Cardinality

(* The flows are finitely many, and each has a session and a direction.    *)
LEMMA FlowFacts ==
  ASSUME Tracker!TrackerAssumption
  PROVE  /\ IsFiniteSet(Sessions)
         /\ IsFiniteSet(Flows)
         /\ \A f \in Flows : f[1] \in Sessions /\ f[2] \in Tracker!Dirs
         /\ Tracker!Poller \notin Flows
<1>1. IsFiniteSet({"up", "down"})
  <2>1. IsFiniteSet({"up"})
    BY FS_Singleton
  <2>2. {"up", "down"} = {"up"} \cup {"down"}
    OBVIOUS
  <2> QED BY <2>1, <2>2, FS_AddElement
<1>2. IsFiniteSet(Sessions \X {"up", "down"})
  BY <1>1, FS_Product, FiniteIsFinite DEF Tracker!TrackerAssumption
<1>3. IsFiniteSet(Flows)
  BY <1>2, FS_Subset DEF Tracker!TrackerAssumption
<1> QED
  BY <1>3, FiniteIsFinite DEF Tracker!TrackerAssumption, Tracker!Dirs, Tracker!Poller

(* One element more, one less.                                             *)
LEMMA OneMore ==
  ASSUME NEW S, NEW x, NEW T, IsFiniteSet(S), x \notin S, T = S \cup {x}
  PROVE  IsFiniteSet(T) /\ Cardinality(T) = Cardinality(S) + 1 /\ Cardinality(S) \in Nat
  BY FS_AddElement, FS_CardinalityType

LEMMA OneLess ==
  ASSUME NEW S, NEW x, NEW T, IsFiniteSet(S), x \in S, T = S \ {x}
  PROVE  /\ IsFiniteSet(T) /\ Cardinality(T) = Cardinality(S) - 1
         /\ Cardinality(S) \in Nat /\ Cardinality(T) \in Nat
  BY FS_RemoveElement, FS_CardinalityType

-----------------------------------------------------------------------------
(* One lemma per conjunct: a step keeps it.                                *)

LEMMA FlowsNext ==
  ASSUME Tracker!TrackerAssumption, TrackerInv, [Tracker!Next]_(Tracker!vars)
  PROVE  FlowsAtWork'
<1> USE DEF TrackerInv, FlowsAtWork, Tracker!TypeOK, Tracker!flow, Tracker!closer, Tracker!look, Tracker!GotoFlow, Tracker!Dirs, Tracker!NextSwap
<1>0. \A f \in Flows : f[1] \in Sessions /\ f # Tracker!Poller
  BY FlowFacts
<1>1. ASSUME NEW s \in Sessions, Tracker!Track(s)
      PROVE  FlowsAtWork'
  BY <1>0, <1>1 DEF Tracker!Track
<1>2. ASSUME NEW s \in Sessions, Tracker!RelayRefused(s)
      PROVE  FlowsAtWork'
  BY <1>0, <1>2 DEF Tracker!RelayRefused
<1>3. ASSUME NEW s \in Sessions, Tracker!RelayBegin(s)
      PROVE  FlowsAtWork'
  BY <1>0, <1>3 DEF Tracker!RelayBegin
<1>4. ASSUME NEW s \in Sessions, Tracker!RelayEnd(s)
      PROVE  FlowsAtWork'
  BY <1>0, <1>4 DEF Tracker!RelayEnd
<1>5. ASSUME NEW s \in Sessions, Tracker!Untrack(s)
      PROVE  FlowsAtWork'
  BY <1>0, <1>5 DEF Tracker!Untrack
<1>6. ASSUME NEW s \in Sessions, Tracker!LookupEnter(s)
      PROVE  FlowsAtWork'
  BY <1>0, <1>6 DEF Tracker!LookupEnter
<1>7. ASSUME NEW s \in Sessions, Tracker!LookupShed(s)
      PROVE  FlowsAtWork'
  BY <1>0, <1>7 DEF Tracker!LookupShed
<1>8. ASSUME NEW s \in Sessions, Tracker!LookupSpawn(s)
      PROVE  FlowsAtWork'
  BY <1>0, <1>8 DEF Tracker!LookupSpawn
<1>9. ASSUME NEW s \in Sessions, Tracker!LookupSpawnError(s)
      PROVE  FlowsAtWork'
  BY <1>0, <1>9 DEF Tracker!LookupSpawnError
<1>10. ASSUME NEW s \in Sessions, Tracker!LookupDone(s)
      PROVE  FlowsAtWork'
  BY <1>0, <1>10 DEF Tracker!LookupDone
<1>11. ASSUME NEW f \in Flows, Tracker!FlowEnd(f)
      PROVE  FlowsAtWork'
  BY <1>0, <1>11 DEF Tracker!FlowEnd
<1>12. ASSUME NEW f \in Flows, Tracker!FlowCopy(f)
      PROVE  FlowsAtWork'
  BY <1>0, <1>12 DEF Tracker!FlowCopy
<1>13. ASSUME NEW f \in Flows, Tracker!AddTotal(f)
      PROVE  FlowsAtWork'
  BY <1>0, <1>13 DEF Tracker!AddTotal
<1>14. ASSUME NEW f \in Flows, Tracker!AddRealtime(f)
      PROVE  FlowsAtWork'
  BY <1>0, <1>14 DEF Tracker!AddRealtime
<1>15. ASSUME NEW f \in Flows, Tracker!WindowSkip(f)
      PROVE  FlowsAtWork'
  BY <1>0, <1>15 DEF Tracker!WindowSkip
<1>16. ASSUME NEW f \in Flows, Tracker!WindowTake(f)
      PROVE  FlowsAtWork'
  BY <1>0, <1>16 DEF Tracker!WindowTake
<1>17. ASSUME NEW f \in Flows, Tracker!AddConn(f)
      PROVE  FlowsAtWork'
  BY <1>0, <1>17 DEF Tracker!AddConn
<1>18. ASSUME NEW f \in Flows \cup {Tracker!Poller}, Tracker!WindowSwap(f)
      PROVE  FlowsAtWork'
  BY <1>0, <1>18 DEF Tracker!WindowSwap
<1>19. ASSUME NEW f \in Flows \cup {Tracker!Poller}, Tracker!WindowRelease(f)
      PROVE  FlowsAtWork'
  BY <1>0, <1>19 DEF Tracker!WindowRelease
<1>20. CASE Tracker!UpdateSpeed
  BY <1>0, <1>20 DEF Tracker!UpdateSpeed
<1>21. ASSUME NEW c \in Closers, Tracker!CloseAll(c)
      PROVE  FlowsAtWork'
  BY <1>0, <1>21 DEF Tracker!CloseAll
<1>22. ASSUME NEW c \in Closers, Tracker!Remove(c)
      PROVE  FlowsAtWork'
  BY <1>0, <1>22 DEF Tracker!Remove
<1>23. ASSUME NEW c \in Closers, Tracker!CancelRemoved(c)
      PROVE  FlowsAtWork'
  BY <1>0, <1>23 DEF Tracker!CancelRemoved
<1>24. ASSUME NEW c \in Closers, Tracker!CloseAllReturns(c)
      PROVE  FlowsAtWork'
  BY <1>0, <1>24 DEF Tracker!CloseAllReturns
<1>25. ASSUME NEW c \in Closers, Tracker!ResetClear(c)
      PROVE  FlowsAtWork'
  BY <1>0, <1>25 DEF Tracker!ResetClear
<1>26. ASSUME NEW c \in Closers, Tracker!ResetZero(c)
      PROVE  FlowsAtWork'
  BY <1>0, <1>26 DEF Tracker!ResetZero
<1>27. CASE UNCHANGED Tracker!vars
  BY <1>0, <1>27 DEF Tracker!vars
<1> QED
  BY <1>0, <1>1, <1>2, <1>3, <1>4, <1>5, <1>6, <1>7, <1>8, <1>9, <1>10, <1>11, <1>12, <1>13, <1>14, <1>15, <1>16, <1>17, <1>18, <1>19, <1>20, <1>21, <1>22, <1>23, <1>24, <1>25, <1>26, <1>27
  DEF Tracker!Next, Tracker!Lookup, Tracker!Account, Tracker!Window, Tracker!Close

LEMMA ClosersNext ==
  ASSUME Tracker!TrackerAssumption, TrackerInv, [Tracker!Next]_(Tracker!vars)
  PROVE  ClosersAtWork'
<1> USE DEF TrackerInv, ClosersAtWork, Tracker!TypeOK, Tracker!flow, Tracker!closer, Tracker!look, Tracker!GotoFlow, Tracker!Dirs, Tracker!NextSwap
<1>1. ASSUME NEW s \in Sessions, Tracker!Track(s)
      PROVE  ClosersAtWork'
  BY <1>1 DEF Tracker!Track
<1>2. ASSUME NEW s \in Sessions, Tracker!RelayRefused(s)
      PROVE  ClosersAtWork'
  BY <1>2 DEF Tracker!RelayRefused
<1>3. ASSUME NEW s \in Sessions, Tracker!RelayBegin(s)
      PROVE  ClosersAtWork'
  BY <1>3 DEF Tracker!RelayBegin
<1>4. ASSUME NEW s \in Sessions, Tracker!RelayEnd(s)
      PROVE  ClosersAtWork'
  BY <1>4 DEF Tracker!RelayEnd
<1>5. ASSUME NEW s \in Sessions, Tracker!Untrack(s)
      PROVE  ClosersAtWork'
  BY <1>5 DEF Tracker!Untrack
<1>6. ASSUME NEW s \in Sessions, Tracker!LookupEnter(s)
      PROVE  ClosersAtWork'
  BY <1>6 DEF Tracker!LookupEnter
<1>7. ASSUME NEW s \in Sessions, Tracker!LookupShed(s)
      PROVE  ClosersAtWork'
  BY <1>7 DEF Tracker!LookupShed
<1>8. ASSUME NEW s \in Sessions, Tracker!LookupSpawn(s)
      PROVE  ClosersAtWork'
  BY <1>8 DEF Tracker!LookupSpawn
<1>9. ASSUME NEW s \in Sessions, Tracker!LookupSpawnError(s)
      PROVE  ClosersAtWork'
  BY <1>9 DEF Tracker!LookupSpawnError
<1>10. ASSUME NEW s \in Sessions, Tracker!LookupDone(s)
      PROVE  ClosersAtWork'
  BY <1>10 DEF Tracker!LookupDone
<1>11. ASSUME NEW f \in Flows, Tracker!FlowEnd(f)
      PROVE  ClosersAtWork'
  BY <1>11 DEF Tracker!FlowEnd
<1>12. ASSUME NEW f \in Flows, Tracker!FlowCopy(f)
      PROVE  ClosersAtWork'
  BY <1>12 DEF Tracker!FlowCopy
<1>13. ASSUME NEW f \in Flows, Tracker!AddTotal(f)
      PROVE  ClosersAtWork'
  BY <1>13 DEF Tracker!AddTotal
<1>14. ASSUME NEW f \in Flows, Tracker!AddRealtime(f)
      PROVE  ClosersAtWork'
  BY <1>14 DEF Tracker!AddRealtime
<1>15. ASSUME NEW f \in Flows, Tracker!WindowSkip(f)
      PROVE  ClosersAtWork'
  BY <1>15 DEF Tracker!WindowSkip
<1>16. ASSUME NEW f \in Flows, Tracker!WindowTake(f)
      PROVE  ClosersAtWork'
  BY <1>16 DEF Tracker!WindowTake
<1>17. ASSUME NEW f \in Flows, Tracker!AddConn(f)
      PROVE  ClosersAtWork'
  BY <1>17 DEF Tracker!AddConn
<1>18. ASSUME NEW f \in Flows \cup {Tracker!Poller}, Tracker!WindowSwap(f)
      PROVE  ClosersAtWork'
  BY <1>18 DEF Tracker!WindowSwap
<1>19. ASSUME NEW f \in Flows \cup {Tracker!Poller}, Tracker!WindowRelease(f)
      PROVE  ClosersAtWork'
  BY <1>19 DEF Tracker!WindowRelease
<1>20. CASE Tracker!UpdateSpeed
  BY <1>20 DEF Tracker!UpdateSpeed
<1>21. ASSUME NEW c \in Closers, Tracker!CloseAll(c)
      PROVE  ClosersAtWork'
  BY <1>21 DEF Tracker!CloseAll
<1>22. ASSUME NEW c \in Closers, Tracker!Remove(c)
      PROVE  ClosersAtWork'
  BY <1>22 DEF Tracker!Remove
<1>23. ASSUME NEW c \in Closers, Tracker!CancelRemoved(c)
      PROVE  ClosersAtWork'
  BY <1>23 DEF Tracker!CancelRemoved
<1>24. ASSUME NEW c \in Closers, Tracker!CloseAllReturns(c)
      PROVE  ClosersAtWork'
  BY <1>24 DEF Tracker!CloseAllReturns
<1>25. ASSUME NEW c \in Closers, Tracker!ResetClear(c)
      PROVE  ClosersAtWork'
  BY <1>25 DEF Tracker!ResetClear
<1>26. ASSUME NEW c \in Closers, Tracker!ResetZero(c)
      PROVE  ClosersAtWork'
  BY <1>26 DEF Tracker!ResetZero
<1>27. CASE UNCHANGED Tracker!vars
  BY <1>27 DEF Tracker!vars
<1> QED
  BY <1>1, <1>2, <1>3, <1>4, <1>5, <1>6, <1>7, <1>8, <1>9, <1>10, <1>11, <1>12, <1>13, <1>14, <1>15, <1>16, <1>17, <1>18, <1>19, <1>20, <1>21, <1>22, <1>23, <1>24, <1>25, <1>26, <1>27
  DEF Tracker!Next, Tracker!Lookup, Tracker!Account, Tracker!Window, Tracker!Close

LEMMA HiddenNext ==
  ASSUME Tracker!TrackerAssumption, TrackerInv, [Tracker!Next]_(Tracker!vars)
  PROVE  Tracker!HiddenIsClosed'
<1> USE DEF TrackerInv, ClosersAtWork, Tracker!TypeOK, Tracker!HiddenIsClosed, Tracker!ResetCleared, Tracker!flow, Tracker!closer, Tracker!look, Tracker!GotoFlow, Tracker!Dirs, Tracker!NextSwap
<1>1. ASSUME NEW s \in Sessions, Tracker!Track(s)
      PROVE  Tracker!HiddenIsClosed'
  BY <1>1 DEF Tracker!Track
<1>2. ASSUME NEW s \in Sessions, Tracker!RelayRefused(s)
      PROVE  Tracker!HiddenIsClosed'
  BY <1>2 DEF Tracker!RelayRefused
<1>3. ASSUME NEW s \in Sessions, Tracker!RelayBegin(s)
      PROVE  Tracker!HiddenIsClosed'
  BY <1>3 DEF Tracker!RelayBegin
<1>4. ASSUME NEW s \in Sessions, Tracker!RelayEnd(s)
      PROVE  Tracker!HiddenIsClosed'
  BY <1>4 DEF Tracker!RelayEnd
<1>5. ASSUME NEW s \in Sessions, Tracker!Untrack(s)
      PROVE  Tracker!HiddenIsClosed'
  BY <1>5 DEF Tracker!Untrack
<1>6. ASSUME NEW s \in Sessions, Tracker!LookupEnter(s)
      PROVE  Tracker!HiddenIsClosed'
  BY <1>6 DEF Tracker!LookupEnter
<1>7. ASSUME NEW s \in Sessions, Tracker!LookupShed(s)
      PROVE  Tracker!HiddenIsClosed'
  BY <1>7 DEF Tracker!LookupShed
<1>8. ASSUME NEW s \in Sessions, Tracker!LookupSpawn(s)
      PROVE  Tracker!HiddenIsClosed'
  BY <1>8 DEF Tracker!LookupSpawn
<1>9. ASSUME NEW s \in Sessions, Tracker!LookupSpawnError(s)
      PROVE  Tracker!HiddenIsClosed'
  BY <1>9 DEF Tracker!LookupSpawnError
<1>10. ASSUME NEW s \in Sessions, Tracker!LookupDone(s)
      PROVE  Tracker!HiddenIsClosed'
  BY <1>10 DEF Tracker!LookupDone
<1>11. ASSUME NEW f \in Flows, Tracker!FlowEnd(f)
      PROVE  Tracker!HiddenIsClosed'
  BY <1>11 DEF Tracker!FlowEnd
<1>12. ASSUME NEW f \in Flows, Tracker!FlowCopy(f)
      PROVE  Tracker!HiddenIsClosed'
  BY <1>12 DEF Tracker!FlowCopy
<1>13. ASSUME NEW f \in Flows, Tracker!AddTotal(f)
      PROVE  Tracker!HiddenIsClosed'
  BY <1>13 DEF Tracker!AddTotal
<1>14. ASSUME NEW f \in Flows, Tracker!AddRealtime(f)
      PROVE  Tracker!HiddenIsClosed'
  BY <1>14 DEF Tracker!AddRealtime
<1>15. ASSUME NEW f \in Flows, Tracker!WindowSkip(f)
      PROVE  Tracker!HiddenIsClosed'
  BY <1>15 DEF Tracker!WindowSkip
<1>16. ASSUME NEW f \in Flows, Tracker!WindowTake(f)
      PROVE  Tracker!HiddenIsClosed'
  BY <1>16 DEF Tracker!WindowTake
<1>17. ASSUME NEW f \in Flows, Tracker!AddConn(f)
      PROVE  Tracker!HiddenIsClosed'
  BY <1>17 DEF Tracker!AddConn
<1>18. ASSUME NEW f \in Flows \cup {Tracker!Poller}, Tracker!WindowSwap(f)
      PROVE  Tracker!HiddenIsClosed'
  BY <1>18 DEF Tracker!WindowSwap
<1>19. ASSUME NEW f \in Flows \cup {Tracker!Poller}, Tracker!WindowRelease(f)
      PROVE  Tracker!HiddenIsClosed'
  BY <1>19 DEF Tracker!WindowRelease
<1>20. CASE Tracker!UpdateSpeed
  BY <1>20 DEF Tracker!UpdateSpeed
<1>21. ASSUME NEW c \in Closers, Tracker!CloseAll(c)
      PROVE  Tracker!HiddenIsClosed'
  BY <1>21 DEF Tracker!CloseAll
<1>22. ASSUME NEW c \in Closers, Tracker!Remove(c)
      PROVE  Tracker!HiddenIsClosed'
  BY <1>22 DEF Tracker!Remove
<1>23. ASSUME NEW c \in Closers, Tracker!CancelRemoved(c)
      PROVE  Tracker!HiddenIsClosed'
  <2>1. spc' = spc /\ connections' = connections
    BY <1>23 DEF Tracker!CancelRemoved
  <2>2. ASSUME NEW s \in Sessions, token[s] \/ \E k \in Closers : s \in removed[k]
        PROVE  token'[s] \/ \E k \in Closers : s \in removed'[k]
    <3>1. CASE token[s] \/ s \in removed[c]
      BY <1>23, <3>1 DEF Tracker!CancelRemoved
    <3>2. CASE ~token[s] /\ s \notin removed[c]
      <4>1. PICK k \in Closers : s \in removed[k]
        BY <2>2, <3>2
      <4> QED BY <1>23, <3>2, <4>1 DEF Tracker!CancelRemoved
    <3> QED BY <3>1, <3>2
  <2>3. Tracker!ResetCleared => Tracker!ResetCleared'
    BY <1>23 DEF Tracker!CancelRemoved, Tracker!TrackerAssumption
  <2> QED BY <2>1, <2>2, <2>3
<1>24. ASSUME NEW c \in Closers, Tracker!CloseAllReturns(c)
      PROVE  Tracker!HiddenIsClosed'
  BY <1>24 DEF Tracker!CloseAllReturns
<1>25. ASSUME NEW c \in Closers, Tracker!ResetClear(c)
      PROVE  Tracker!HiddenIsClosed'
  BY <1>25 DEF Tracker!ResetClear
<1>26. ASSUME NEW c \in Closers, Tracker!ResetZero(c)
      PROVE  Tracker!HiddenIsClosed'
  BY <1>26 DEF Tracker!ResetZero
<1>27. CASE UNCHANGED Tracker!vars
  BY <1>27 DEF Tracker!vars
<1> QED
  BY <1>1, <1>2, <1>3, <1>4, <1>5, <1>6, <1>7, <1>8, <1>9, <1>10, <1>11, <1>12, <1>13, <1>14, <1>15, <1>16, <1>17, <1>18, <1>19, <1>20, <1>21, <1>22, <1>23, <1>24, <1>25, <1>26, <1>27
  DEF Tracker!Next, Tracker!Lookup, Tracker!Account, Tracker!Window, Tracker!Close

-----------------------------------------------------------------------------
(* The bytes                                                               *)

\* What the window accounts for, and the flows between their two counters as
\* they are.
Accounted(d) == realtime[d] + reported[d] + Cardinality(Waiting(d))
BytesKept == \A d \in Tracker!Dirs : total[d] = Accounted(d)

LEMMA BytesAre == Tracker!WindowConserves <=> (~Tracker!ResetCleared => BytesKept)
  BY CardIsCard DEF Tracker!WindowConserves, Tracker!Between, BytesKept, Accounted, Waiting

LEMMA WaitingFinite ==
  ASSUME Tracker!TrackerAssumption, NEW d
  PROVE  IsFiniteSet(Waiting(d)) /\ Cardinality(Waiting(d)) \in Nat
  BY FlowFacts, FS_Subset, FS_CardinalityType DEF Waiting

\* A step that leaves the counters alone and takes no flow into or out of the
\* place between them.
BytesAside ==
  /\ UNCHANGED <<total, realtime, reported>>
  /\ \A f \in Flows : fpc'[f] = "realtime" <=> fpc[f] = "realtime"

(* The steps that do not account.                                          *)
LEMMA MostStepsAside ==
  ASSUME Tracker!TrackerAssumption, TrackerInv, [Tracker!Next]_(Tracker!vars)
  PROVE  \/ BytesAside
         \/ \E f \in Flows : Tracker!AddTotal(f) \/ Tracker!AddRealtime(f)
         \/ \E f \in Flows \cup {Tracker!Poller} : Tracker!WindowSwap(f)
         \/ \E c \in Closers : Tracker!ResetZero(c)
<1>0. \A f \in Flows : f[1] \in Sessions /\ f # Tracker!Poller
  BY FlowFacts
<1> USE DEF TrackerInv, Tracker!TypeOK, FlowsAtWork, BytesAside, Tracker!flow, Tracker!GotoFlow
<1>1. ASSUME NEW s \in Sessions,
             Tracker!Track(s) \/ Tracker!RelayRefused(s) \/ Tracker!RelayEnd(s) \/ Tracker!Untrack(s)
      PROVE  BytesAside
  BY <1>0, <1>1 DEF Tracker!Track, Tracker!RelayRefused, Tracker!RelayEnd, Tracker!Untrack
<1>2. ASSUME NEW s \in Sessions,
             Tracker!RelayBegin(s)
      PROVE  BytesAside
  BY <1>0, <1>2 DEF Tracker!RelayBegin
<1>3. ASSUME NEW s \in Sessions,
             Tracker!LookupEnter(s) \/ Tracker!LookupShed(s) \/ Tracker!LookupSpawn(s) \/ Tracker!LookupSpawnError(s) \/ Tracker!LookupDone(s)
      PROVE  BytesAside
  BY <1>0, <1>3 DEF Tracker!LookupEnter, Tracker!LookupShed, Tracker!LookupSpawn, Tracker!LookupSpawnError, Tracker!LookupDone
<1>4. ASSUME NEW f \in Flows,
             Tracker!FlowEnd(f) \/ Tracker!FlowCopy(f) \/ Tracker!WindowSkip(f) \/ Tracker!WindowTake(f) \/ Tracker!AddConn(f)
      PROVE  BytesAside
  BY <1>0, <1>4 DEF Tracker!FlowEnd, Tracker!FlowCopy, Tracker!WindowSkip, Tracker!WindowTake, Tracker!AddConn
<1>5. ASSUME NEW f \in Flows \cup {Tracker!Poller},
             Tracker!WindowRelease(f)
      PROVE  BytesAside
  BY <1>0, <1>5 DEF Tracker!WindowRelease
<1>6. ASSUME NEW c \in Closers,
             Tracker!CloseAll(c) \/ Tracker!Remove(c) \/ Tracker!CancelRemoved(c) \/ Tracker!CloseAllReturns(c) \/ Tracker!ResetClear(c)
      PROVE  BytesAside
  BY <1>0, <1>6 DEF Tracker!CloseAll, Tracker!Remove, Tracker!CancelRemoved, Tracker!CloseAllReturns, Tracker!ResetClear
<1>7. CASE Tracker!UpdateSpeed \/ UNCHANGED Tracker!vars
  BY <1>7 DEF Tracker!UpdateSpeed, Tracker!vars
<1> QED
  BY <1>1, <1>2, <1>3, <1>4, <1>5, <1>6, <1>7
  DEF Tracker!Next, Tracker!Lookup, Tracker!Account, Tracker!Window, Tracker!Close

(* A reset() that has cleared the table is never undone.                   *)
LEMMA ResetStays ==
  ASSUME Tracker!TrackerAssumption, Tracker!TypeOK, [Tracker!Next]_(Tracker!vars)
  PROVE  Tracker!ResetCleared => Tracker!ResetCleared'
<1> USE DEF Tracker!TypeOK, Tracker!ResetCleared, Tracker!TrackerAssumption, Tracker!closer
<1>1. ASSUME NEW s \in Sessions,
             Tracker!Track(s) \/ Tracker!RelayRefused(s) \/ Tracker!RelayBegin(s) \/ Tracker!RelayEnd(s) \/ Tracker!Untrack(s) \/ Tracker!LookupEnter(s) \/ Tracker!LookupShed(s) \/ Tracker!LookupSpawn(s) \/ Tracker!LookupSpawnError(s) \/ Tracker!LookupDone(s)
      PROVE  cpc' = cpc
  BY <1>1 DEF Tracker!Track, Tracker!RelayRefused, Tracker!RelayBegin, Tracker!RelayEnd, Tracker!Untrack, Tracker!LookupEnter, Tracker!LookupShed, Tracker!LookupSpawn, Tracker!LookupSpawnError, Tracker!LookupDone
<1>2. ASSUME NEW f \in Flows,
             Tracker!FlowEnd(f) \/ Tracker!FlowCopy(f) \/ Tracker!WindowSkip(f) \/ Tracker!WindowTake(f) \/ Tracker!AddConn(f) \/ Tracker!AddTotal(f) \/ Tracker!AddRealtime(f)
      PROVE  cpc' = cpc
  BY <1>2 DEF Tracker!FlowEnd, Tracker!FlowCopy, Tracker!WindowSkip, Tracker!WindowTake, Tracker!AddConn, Tracker!AddTotal, Tracker!AddRealtime
<1>3. ASSUME NEW f \in Flows \cup {Tracker!Poller},
             Tracker!WindowSwap(f) \/ Tracker!WindowRelease(f)
      PROVE  cpc' = cpc
  BY <1>3 DEF Tracker!WindowSwap, Tracker!WindowRelease
<1>4. ASSUME NEW c \in Closers, Tracker!CloseAll(c) \/ Tracker!Remove(c) \/ Tracker!CancelRemoved(c)
             \/ Tracker!CloseAllReturns(c) \/ Tracker!ResetClear(c) \/ Tracker!ResetZero(c)
      PROVE  Tracker!ResetCleared => Tracker!ResetCleared'
  BY <1>4 DEF Tracker!CloseAll, Tracker!Remove, Tracker!CancelRemoved, Tracker!CloseAllReturns, Tracker!ResetClear, Tracker!ResetZero
<1>5. CASE Tracker!UpdateSpeed \/ UNCHANGED Tracker!vars
  BY <1>5 DEF Tracker!UpdateSpeed, Tracker!vars
<1> QED
  BY <1>1, <1>2, <1>3, <1>4, <1>5
  DEF Tracker!Next, Tracker!Lookup, Tracker!Account, Tracker!Window, Tracker!Close

(* The window conserves bytes from step to step.                           *)
LEMMA BytesNext ==
  ASSUME Tracker!TrackerAssumption, TrackerInv, [Tracker!Next]_(Tracker!vars)
  PROVE  Tracker!WindowConserves'
<1>1. /\ Tracker!TypeOK /\ FlowsAtWork /\ ClosersAtWork
      /\ ~Tracker!ResetCleared => BytesKept
      /\ Tracker!ResetCleared => Tracker!ResetCleared'
  BY BytesAre, ResetStays DEF TrackerInv
<1>2. SUFFICES ASSUME ~Tracker!ResetCleared', BytesKept
               PROVE  BytesKept'
  <2>1. Tracker!WindowConserves' <=> (~Tracker!ResetCleared' => BytesKept')
    BY CardIsCard DEF Tracker!WindowConserves, Tracker!Between, BytesKept, Accounted, Waiting
  <2> QED BY <1>1, <2>1
<1>3. CASE BytesAside
  <2>1. ASSUME NEW d \in Tracker!Dirs PROVE Waiting(d)' = Waiting(d)
    BY <1>3 DEF BytesAside, Waiting
  <2> QED BY <1>2, <1>3, <2>1 DEF BytesAside, BytesKept, Accounted
<1>4. ASSUME NEW f \in Flows, Tracker!AddTotal(f) PROVE BytesKept'
  <2>1. /\ f[2] \in Tracker!Dirs /\ total' = [total EXCEPT ![f[2]] = @ + 1]
        /\ UNCHANGED <<realtime, reported>>
        /\ fpc[f] = "total" /\ fpc' = [fpc EXCEPT ![f] = "realtime"]
    BY <1>4, FlowFacts DEF Tracker!AddTotal, Tracker!GotoFlow
  <2>2. ASSUME NEW d \in Tracker!Dirs PROVE total'[d] = Accounted(d)'
    <3>1. total[d] = Accounted(d) /\ Accounted(d)' = realtime[d] + reported[d] + Cardinality(Waiting(d)')
      BY <1>2, <2>1 DEF BytesKept, Accounted
    <3>2. CASE d = f[2]
      <4>1. Waiting(d)' = Waiting(d) \cup {f} /\ f \notin Waiting(d)
        BY <1>1, <2>1, <3>2 DEF Waiting, Tracker!TypeOK
      <4>2. Cardinality(Waiting(d)') = Cardinality(Waiting(d)) + 1
        BY <4>1, OneMore, WaitingFinite
      <4>3. total'[d] = total[d] + 1
        BY <1>1, <2>1, <3>2 DEF Tracker!TypeOK
      <4> QED BY <1>1, <3>1, <4>2, <4>3, WaitingFinite DEF Accounted, Tracker!TypeOK
    <3>3. CASE d # f[2]
      <4>1. Waiting(d)' = Waiting(d)
        BY <1>1, <2>1, <3>3 DEF Waiting, Tracker!TypeOK
      <4>2. total'[d] = total[d]
        BY <1>1, <2>1, <3>3 DEF Tracker!TypeOK
      <4> QED BY <3>1, <4>1, <4>2 DEF Accounted
    <3> QED BY <3>2, <3>3
  <2> QED BY <2>2 DEF BytesKept
<1>5. ASSUME NEW f \in Flows, Tracker!AddRealtime(f) PROVE BytesKept'
  <2>1. /\ f[2] \in Tracker!Dirs /\ realtime' = [realtime EXCEPT ![f[2]] = @ + 1]
        /\ UNCHANGED <<total, reported>>
        /\ fpc[f] = "realtime" /\ fpc' = [fpc EXCEPT ![f] = "window"]
    BY <1>5, FlowFacts DEF Tracker!AddRealtime, Tracker!GotoFlow
  <2>2. ASSUME NEW d \in Tracker!Dirs PROVE total'[d] = Accounted(d)'
    <3>1. total[d] = Accounted(d) /\ Accounted(d)' = realtime'[d] + reported[d] + Cardinality(Waiting(d)')
      BY <1>2, <2>1 DEF BytesKept, Accounted
    <3>2. CASE d = f[2]
      <4>1. Waiting(d)' = Waiting(d) \ {f} /\ f \in Waiting(d)
        BY <1>1, <2>1, <3>2 DEF Waiting, Tracker!TypeOK
      <4>2. Cardinality(Waiting(d)') = Cardinality(Waiting(d)) - 1 /\ Cardinality(Waiting(d)') \in Nat
        BY <4>1, OneLess, WaitingFinite
      <4>3. realtime'[d] = realtime[d] + 1
        BY <1>1, <2>1, <3>2 DEF Tracker!TypeOK
      <4> QED BY <1>1, <2>1, <3>1, <4>2, <4>3, WaitingFinite DEF Accounted, Tracker!TypeOK
    <3>3. CASE d # f[2]
      <4>1. Waiting(d)' = Waiting(d)
        BY <1>1, <2>1, <3>3 DEF Waiting, Tracker!TypeOK
      <4>2. realtime'[d] = realtime[d]
        BY <1>1, <2>1, <3>3 DEF Tracker!TypeOK
      <4> QED BY <2>1, <3>1, <4>1, <4>2 DEF Accounted
    <3> QED BY <3>2, <3>3
  <2> QED BY <2>2 DEF BytesKept
<1>6. ASSUME NEW f \in Flows \cup {Tracker!Poller}, Tracker!WindowSwap(f) PROVE BytesKept'
  <2>1. PICK n \in Tracker!Dirs : n = Tracker!NextSwap
    BY DEF Tracker!NextSwap, Tracker!Dirs
  <2>2. /\ reported' = [reported EXCEPT ![n] = @ + realtime[n]]
        /\ realtime' = [realtime EXCEPT ![n] = 0]
        /\ UNCHANGED <<total, fpc>>
    BY <1>6, <2>1 DEF Tracker!WindowSwap
  <2>3. ASSUME NEW d \in Tracker!Dirs PROVE total'[d] = Accounted(d)'
    <3>1. Waiting(d)' = Waiting(d) /\ Cardinality(Waiting(d)) \in Nat
      BY <2>2, WaitingFinite DEF Waiting
    <3>2. realtime'[d] + reported'[d] = realtime[d] + reported[d]
      BY <1>1, <2>2 DEF Tracker!TypeOK
    <3> QED BY <1>2, <2>2, <3>1, <3>2 DEF BytesKept, Accounted
  <2> QED BY <2>3 DEF BytesKept
<1>7. ASSUME NEW c \in Closers, Tracker!ResetZero(c) PROVE FALSE
  BY <1>1, <1>2, <1>7 DEF Tracker!ResetZero, Tracker!ResetCleared, ClosersAtWork, Tracker!TypeOK
<1> QED
  BY <1>3, <1>4, <1>5, <1>6, <1>7, MostStepsAside

-----------------------------------------------------------------------------
(* The display lookups                                                     *)

LEMMA LookupsAre ==
  Tracker!LookupsBounded
    <=> Cardinality(Running) <= MaxLookups /\ lookups = Cardinality(Looking)
  BY CardIsCard DEF Tracker!LookupsBounded, Running, Looking

(* The steps of everybody else.                                            *)
LEMMA LookupsAside ==
  ASSUME [Tracker!Next]_(Tracker!vars)
  PROVE  \/ UNCHANGED <<lookups, lpc>>
         \/ \E s \in Sessions : Tracker!LookupEnter(s) \/ Tracker!Lookup(s)
<1> USE DEF Tracker!look
<1>1. ASSUME NEW s \in Sessions,
             Tracker!Track(s) \/ Tracker!RelayRefused(s) \/ Tracker!RelayBegin(s) \/ Tracker!RelayEnd(s) \/ Tracker!Untrack(s)
      PROVE  UNCHANGED <<lookups, lpc>>
  BY <1>1 DEF Tracker!Track, Tracker!RelayRefused, Tracker!RelayBegin, Tracker!RelayEnd, Tracker!Untrack
<1>2. ASSUME NEW f \in Flows,
             Tracker!FlowEnd(f) \/ Tracker!FlowCopy(f) \/ Tracker!AddTotal(f) \/ Tracker!AddRealtime(f) \/ Tracker!WindowSkip(f) \/ Tracker!WindowTake(f) \/ Tracker!AddConn(f)
      PROVE  UNCHANGED <<lookups, lpc>>
  BY <1>2 DEF Tracker!FlowEnd, Tracker!FlowCopy, Tracker!AddTotal, Tracker!AddRealtime, Tracker!WindowSkip, Tracker!WindowTake, Tracker!AddConn
<1>3. ASSUME NEW f \in Flows \cup {Tracker!Poller},
             Tracker!WindowSwap(f) \/ Tracker!WindowRelease(f)
      PROVE  UNCHANGED <<lookups, lpc>>
  BY <1>3 DEF Tracker!WindowSwap, Tracker!WindowRelease
<1>4. ASSUME NEW c \in Closers,
             Tracker!CloseAll(c) \/ Tracker!Remove(c) \/ Tracker!CancelRemoved(c) \/ Tracker!CloseAllReturns(c) \/ Tracker!ResetClear(c) \/ Tracker!ResetZero(c)
      PROVE  UNCHANGED <<lookups, lpc>>
  BY <1>4 DEF Tracker!CloseAll, Tracker!Remove, Tracker!CancelRemoved, Tracker!CloseAllReturns, Tracker!ResetClear, Tracker!ResetZero
<1>5. CASE Tracker!UpdateSpeed \/ UNCHANGED Tracker!vars
  BY <1>5 DEF Tracker!UpdateSpeed, Tracker!vars
<1> QED
  BY <1>1, <1>2, <1>3, <1>4, <1>5
  DEF Tracker!Next, Tracker!Account, Tracker!Window, Tracker!Close

LEMMA LookupsNext ==
  ASSUME Tracker!TrackerAssumption, TrackerInv, [Tracker!Next]_(Tracker!vars)
  PROVE  Tracker!LookupsBounded' /\ lookups' \in Nat
<1>1. /\ lpc \in [Sessions -> {"off", "over", "spawn", "run", "end"}]
      /\ lookups = Cardinality(Looking) /\ Cardinality(Running) <= MaxLookups
      /\ MaxLookups \in Nat /\ lookups \in Nat
  BY LookupsAre DEF TrackerInv, Tracker!TypeOK, Tracker!TrackerAssumption
<1>2. /\ IsFiniteSet(Looking) /\ IsFiniteSet(Running)
      /\ Cardinality(Looking) \in Nat /\ Cardinality(Running) \in Nat
      /\ Cardinality(Running) <= Cardinality(Looking)
  <2>1. IsFiniteSet(Looking)
    BY FlowFacts, FS_Subset DEF Looking
  <2>2. Running \subseteq Looking
    BY DEF Running, Looking
  <2> QED BY <2>1, <2>2, FS_Subset, FS_CardinalityType
<1>3. SUFFICES Cardinality(Running') <= MaxLookups /\ lookups' = Cardinality(Looking') /\ lookups' \in Nat
  BY CardIsCard DEF Tracker!LookupsBounded, Running, Looking
<1>4. CASE UNCHANGED <<lookups, lpc>>
  BY <1>1, <1>4 DEF Running, Looking
<1>5. ASSUME NEW s \in Sessions, Tracker!LookupEnter(s)
      PROVE  Cardinality(Running') <= MaxLookups /\ lookups' = Cardinality(Looking') /\ lookups' \in Nat
  <2>1. /\ lpc[s] = "off" /\ lookups' = lookups + 1
        /\ lpc' = [lpc EXCEPT ![s] = IF lookups >= MaxLookups THEN "over" ELSE "spawn"]
    BY <1>5 DEF Tracker!LookupEnter
  <2>2. Looking' = Looking \cup {s} /\ s \notin Looking
    BY <1>1, <2>1 DEF Looking
  <2>3. Cardinality(Looking') = Cardinality(Looking) + 1
    BY <1>2, <2>2, OneMore
  <2>4. CASE lookups >= MaxLookups
    <3>1. Running' = Running
      BY <1>1, <2>1, <2>4 DEF Running
    <3> QED BY <1>1, <2>1, <2>3, <3>1
  <2>5. CASE ~(lookups >= MaxLookups)
    <3>1. Running' = Running \cup {s} /\ s \notin Running
      BY <1>1, <2>1, <2>5 DEF Running
    <3>2. Cardinality(Running') = Cardinality(Running) + 1
      BY <1>2, <3>1, OneMore
    <3> QED BY <1>1, <1>2, <2>1, <2>3, <2>5, <3>2
  <2> QED BY <2>4, <2>5
<1>6. ASSUME NEW s \in Sessions, Tracker!LookupShed(s) \/ Tracker!LookupSpawnError(s) \/ Tracker!LookupDone(s)
      PROVE  Cardinality(Running') <= MaxLookups /\ lookups' = Cardinality(Looking') /\ lookups' \in Nat
  <2>1. /\ lpc[s] \in {"over", "spawn", "run"} /\ lookups' = lookups - 1
        /\ lpc' = [lpc EXCEPT ![s] = "end"]
    BY <1>6 DEF Tracker!LookupShed, Tracker!LookupSpawnError, Tracker!LookupDone
  <2>2. Looking' = Looking \ {s} /\ s \in Looking
    BY <1>1, <2>1 DEF Looking
  <2>3. Cardinality(Looking') = Cardinality(Looking) - 1 /\ Cardinality(Looking') \in Nat
    BY <1>2, <2>2, OneLess
  <2>4. Running' \subseteq Running
    BY <1>1, <2>1 DEF Running
  <2>5. Cardinality(Running') <= Cardinality(Running) /\ Cardinality(Running') \in Nat
    BY <1>2, <2>4, FS_Subset, FS_CardinalityType
  <2> QED BY <1>1, <1>2, <2>1, <2>3, <2>5
<1>7. ASSUME NEW s \in Sessions, Tracker!LookupSpawn(s)
      PROVE  Cardinality(Running') <= MaxLookups /\ lookups' = Cardinality(Looking') /\ lookups' \in Nat
  <2>1. lpc[s] = "spawn" /\ lookups' = lookups /\ lpc' = [lpc EXCEPT ![s] = "run"]
    BY <1>7 DEF Tracker!LookupSpawn
  <2>2. Looking' = Looking /\ Running' = Running
    BY <1>1, <2>1 DEF Looking, Running
  <2> QED BY <1>1, <2>1, <2>2
<1> QED
  BY <1>4, <1>5, <1>6, <1>7, LookupsAside DEF Tracker!Lookup

-----------------------------------------------------------------------------

(* A step keeps the types.                                                 *)
LEMMA TypedNext ==
  ASSUME Tracker!TrackerAssumption, TrackerInv, [Tracker!Next]_(Tracker!vars)
  PROVE  Tracker!TypeOK'
<1> USE DEF TrackerInv, Tracker!TypeOK, Tracker!flow, Tracker!closer, Tracker!look, Tracker!GotoFlow, Tracker!Dirs, Tracker!NextSwap
<1>0. /\ \A f \in Flows : f[1] \in Sessions /\ f[2] \in Tracker!Dirs
      /\ lookups' \in Nat
  BY FlowFacts, LookupsNext
<1>1. ASSUME NEW s \in Sessions, Tracker!Track(s)
      PROVE  Tracker!TypeOK'
  BY <1>0, <1>1 DEF Tracker!Track
<1>2. ASSUME NEW s \in Sessions, Tracker!RelayRefused(s)
      PROVE  Tracker!TypeOK'
  BY <1>0, <1>2 DEF Tracker!RelayRefused
<1>3. ASSUME NEW s \in Sessions, Tracker!RelayBegin(s)
      PROVE  Tracker!TypeOK'
  BY <1>0, <1>3 DEF Tracker!RelayBegin
<1>4. ASSUME NEW s \in Sessions, Tracker!RelayEnd(s)
      PROVE  Tracker!TypeOK'
  BY <1>0, <1>4 DEF Tracker!RelayEnd
<1>5. ASSUME NEW s \in Sessions, Tracker!Untrack(s)
      PROVE  Tracker!TypeOK'
  BY <1>0, <1>5 DEF Tracker!Untrack
<1>6. ASSUME NEW s \in Sessions, Tracker!LookupEnter(s)
      PROVE  Tracker!TypeOK'
  BY <1>0, <1>6 DEF Tracker!LookupEnter
<1>7. ASSUME NEW s \in Sessions, Tracker!LookupShed(s)
      PROVE  Tracker!TypeOK'
  BY <1>0, <1>7 DEF Tracker!LookupShed
<1>8. ASSUME NEW s \in Sessions, Tracker!LookupSpawn(s)
      PROVE  Tracker!TypeOK'
  BY <1>0, <1>8 DEF Tracker!LookupSpawn
<1>9. ASSUME NEW s \in Sessions, Tracker!LookupSpawnError(s)
      PROVE  Tracker!TypeOK'
  BY <1>0, <1>9 DEF Tracker!LookupSpawnError
<1>10. ASSUME NEW s \in Sessions, Tracker!LookupDone(s)
      PROVE  Tracker!TypeOK'
  BY <1>0, <1>10 DEF Tracker!LookupDone
<1>11. ASSUME NEW f \in Flows, Tracker!FlowEnd(f)
      PROVE  Tracker!TypeOK'
  BY <1>0, <1>11 DEF Tracker!FlowEnd
<1>12. ASSUME NEW f \in Flows, Tracker!FlowCopy(f)
      PROVE  Tracker!TypeOK'
  BY <1>0, <1>12 DEF Tracker!FlowCopy
<1>13. ASSUME NEW f \in Flows, Tracker!AddTotal(f)
      PROVE  Tracker!TypeOK'
  BY <1>0, <1>13 DEF Tracker!AddTotal
<1>14. ASSUME NEW f \in Flows, Tracker!AddRealtime(f)
      PROVE  Tracker!TypeOK'
  BY <1>0, <1>14 DEF Tracker!AddRealtime
<1>15. ASSUME NEW f \in Flows, Tracker!WindowSkip(f)
      PROVE  Tracker!TypeOK'
  BY <1>0, <1>15 DEF Tracker!WindowSkip
<1>16. ASSUME NEW f \in Flows, Tracker!WindowTake(f)
      PROVE  Tracker!TypeOK'
  BY <1>0, <1>16 DEF Tracker!WindowTake
<1>17. ASSUME NEW f \in Flows, Tracker!AddConn(f)
      PROVE  Tracker!TypeOK'
  BY <1>0, <1>17 DEF Tracker!AddConn
<1>18. ASSUME NEW f \in Flows \cup {Tracker!Poller}, Tracker!WindowSwap(f)
      PROVE  Tracker!TypeOK'
  BY <1>0, <1>18 DEF Tracker!WindowSwap
<1>19. ASSUME NEW f \in Flows \cup {Tracker!Poller}, Tracker!WindowRelease(f)
      PROVE  Tracker!TypeOK'
  BY <1>0, <1>19 DEF Tracker!WindowRelease
<1>20. CASE Tracker!UpdateSpeed
  BY <1>0, <1>20 DEF Tracker!UpdateSpeed
<1>21. ASSUME NEW c \in Closers, Tracker!CloseAll(c)
      PROVE  Tracker!TypeOK'
  BY <1>0, <1>21 DEF Tracker!CloseAll
<1>22. ASSUME NEW c \in Closers, Tracker!Remove(c)
      PROVE  Tracker!TypeOK'
  BY <1>0, <1>22 DEF Tracker!Remove
<1>23. ASSUME NEW c \in Closers, Tracker!CancelRemoved(c)
      PROVE  Tracker!TypeOK'
  BY <1>0, <1>23 DEF Tracker!CancelRemoved
<1>24. ASSUME NEW c \in Closers, Tracker!CloseAllReturns(c)
      PROVE  Tracker!TypeOK'
  BY <1>0, <1>24 DEF Tracker!CloseAllReturns
<1>25. ASSUME NEW c \in Closers, Tracker!ResetClear(c)
      PROVE  Tracker!TypeOK'
  BY <1>0, <1>25 DEF Tracker!ResetClear
<1>26. ASSUME NEW c \in Closers, Tracker!ResetZero(c)
      PROVE  Tracker!TypeOK'
  BY <1>0, <1>26 DEF Tracker!ResetZero
<1>27. CASE UNCHANGED Tracker!vars
  BY <1>0, <1>27 DEF Tracker!vars
<1> QED
  BY <1>0, <1>1, <1>2, <1>3, <1>4, <1>5, <1>6, <1>7, <1>8, <1>9, <1>10, <1>11, <1>12, <1>13, <1>14, <1>15, <1>16, <1>17, <1>18, <1>19, <1>20, <1>21, <1>22, <1>23, <1>24, <1>25, <1>26, <1>27
  DEF Tracker!Next, Tracker!Lookup, Tracker!Account, Tracker!Window, Tracker!Close

LEMMA TrackerNext ==
  ASSUME Tracker!TrackerAssumption, TrackerInv, [Tracker!Next]_(Tracker!vars)
  PROVE  TrackerInv'
  BY TypedNext, FlowsNext, ClosersNext, BytesNext, HiddenNext, LookupsNext DEF TrackerInv

LEMMA TrackerInit == Tracker!TrackerAssumption /\ Tracker!Init => TrackerInv
<1> SUFFICES ASSUME Tracker!TrackerAssumption, Tracker!Init PROVE TrackerInv
  OBVIOUS
<1>1. Tracker!TypeOK
  BY DEF Tracker!Init, Tracker!TypeOK, Tracker!Dirs
<1>2. FlowsAtWork /\ ClosersAtWork /\ Tracker!HiddenIsClosed
  BY FlowFacts DEF Tracker!Init, FlowsAtWork, ClosersAtWork, Tracker!HiddenIsClosed
<1>3. Tracker!WindowConserves
  <2>1. ASSUME NEW d \in Tracker!Dirs PROVE Waiting(d) = {}
    BY DEF Tracker!Init, Waiting
  <2>2. ASSUME NEW d \in Tracker!Dirs PROVE total[d] = Accounted(d)
    <3>1. total[d] = 0 /\ realtime[d] = 0 /\ reported[d] = 0
      BY DEF Tracker!Init
    <3>2. Cardinality(Waiting(d)) = 0
      BY <2>1, FS_EmptySet
    <3> QED
      BY <3>1, <3>2 DEF Accounted
  <2> QED BY <2>2, BytesAre DEF BytesKept
<1>4. Tracker!LookupsBounded
  <2>1. Looking = {} /\ Running = {}
    BY DEF Tracker!Init, Looking, Running
  <2> QED BY <2>1, FS_EmptySet, LookupsAre DEF Tracker!Init, Tracker!TrackerAssumption
<1> QED BY <1>1, <1>2, <1>3, <1>4 DEF TrackerInv

(* For any sessions, flows and closers: the speed window neither loses nor *)
(* doubles a byte, the list hides no relay that nobody closed, and the     *)
(* display lookups are counted and bounded.                                *)
THEOREM TrackerAlwaysAccounts ==
  ASSUME Tracker!TrackerAssumption
  PROVE  Tracker!Spec => []Tracker!TrackerAccounts
<1>1. Tracker!Init => TrackerInv
  BY TrackerInit
<1>2. TrackerInv /\ [Tracker!Next]_(Tracker!vars) => TrackerInv'
  BY TrackerNext
<1>3. TrackerInv => Tracker!TrackerAccounts
  BY DEF TrackerInv, Tracker!TrackerAccounts
<1> QED
  BY <1>1, <1>2, <1>3, PTL DEF Tracker!Spec

(***************************************************************************)
(* DnsResolution                                                           *)
(***************************************************************************)

Dns == INSTANCE DnsResolution

LiveRec == [primary : BOOLEAN, fallback : BOOLEAN, threads : Nat,
            lock : Dns!Workers \cup {"free"}, failedAt : Nat, failed : BOOLEAN, dropped : BOOLEAN]
WorkerPcs == {"idle", "read", "write", "build", "query", "fallback", "done"}
WorkerRec == [pc : WorkerPcs, result : Dns!Worth]
CallerPcs == {"idle", "lookup", "policy", "system", "exchange", "done"}
Results == Dns!Worth \cup {"hosts", "forward", "empty", "fake"}
Sources == {"none", "engine", "responder", "os", "tunnel", "trusted", "timeout"}
CallerRec == [pc : CallerPcs, engine : 0 .. MaxConfigs, result : Results, from : Sources]

DnsType ==
  /\ configs \in 1 .. MaxConfigs /\ engine \in 0 .. configs
  /\ plan \in [Dns!Gens -> Plans]
  /\ live \in [Dns!Gens -> LiveRec]
  /\ retries \in Nat
  /\ ans \in Answers
  /\ worker \in [Dns!Workers -> WorkerRec]
  /\ caller \in [Dns!Callers -> CallerRec]

\* What a resolver runs is what it owns.
Owns(l) ==
  /\ l.threads = (IF l.primary THEN 1 ELSE 0) + (IF l.fallback THEN 1 ELSE 0)
  /\ l.fallback => l.primary
  /\ l.dropped => ~l.primary

\* A resolver that threads still ask is the one their caller took, and its
\* caller holds it.
AskedIsHeld ==
  /\ \A c \in Dns!Callers : caller[c].pc = "lookup" => caller[c].engine \in 1 .. configs
  /\ \A w \in Dns!Workers : worker[w].pc # "idle" =>
       /\ caller[Dns!OwnerOf(w)].pc = "lookup"
       /\ Dns!Eng(w) \in 1 .. configs

\* The thread that builds holds the write lock and has found nothing built;
\* one that asks has found a resolver.
BuilderIsAlone ==
  \A w \in Dns!Workers :
    /\ worker[w].pc = "build" => /\ live[Dns!Eng(w)].lock = w
                                 /\ ~live[Dns!Eng(w)].primary
    /\ worker[w].pc \in {"query", "fallback"} => live[Dns!Eng(w)].primary
    /\ worker[w].pc = "fallback" => live[Dns!Eng(w)].fallback

\* Nothing runs for a resolver nobody holds.
UnheldIsDown ==
  \A g \in Dns!Gens :
    /\ Owns(live[g])
    /\ live[g].primary => g = engine \/ g \in Dns!Holders(caller)
    /\ live[g].dropped => g <= configs /\ g # engine /\ g \notin Dns!Holders(caller)

DnsInv == DnsType /\ AskedIsHeld /\ BuilderIsAlone /\ UnheldIsDown

-----------------------------------------------------------------------------
(* What the operators do to one resolver                                   *)

LEMMA ShutdownOwns ==
  ASSUME NEW l \in LiveRec, Owns(l)
  PROVE  /\ Dns!Shutdown(l) \in LiveRec /\ Owns(Dns!Shutdown(l))
         /\ ~Dns!Shutdown(l).primary /\ Dns!Shutdown(l).lock = l.lock
<1> DEFINE n == l.threads - ((IF l.primary THEN 1 ELSE 0) + (IF l.fallback THEN 1 ELSE 0))
<1>1. n = 0
  BY DEF Owns, LiveRec
<1>2. Dns!Shutdown(l) = [l EXCEPT !.primary = FALSE, !.fallback = FALSE, !.dropped = TRUE, !.threads = n]
  BY DEF Dns!Shutdown
<1> DEFINE r == [l EXCEPT !.primary = FALSE, !.fallback = FALSE, !.dropped = TRUE, !.threads = 0]
<1>3. r \in LiveRec
  BY DEF LiveRec
<1>4. r.primary = FALSE /\ r.fallback = FALSE /\ r.threads = 0 /\ r.lock = l.lock
  BY DEF LiveRec
<1>5. Dns!Shutdown(l) = r
  BY <1>1, <1>2
<1> HIDE DEF r, n
<1>6. Owns(r)
  BY <1>4 DEF Owns
<1> QED BY <1>3, <1>4, <1>5, <1>6

(* A resolver that is still held, or is not configured yet, is left alone; *)
(* any other one is down afterwards.                                       *)
LEMMA ReleaseFacts ==
  ASSUME live \in [Dns!Gens -> LiveRec], \A g \in Dns!Gens : Owns(live[g]),
         NEW cur, NEW held
  PROVE  /\ Dns!ReleaseUnused(live, cur, held) \in [Dns!Gens -> LiveRec]
         /\ \A g \in Dns!Gens : Owns(Dns!ReleaseUnused(live, cur, held)[g])
         /\ \A g \in Dns!Gens : g \in held \cup {cur} =>
              Dns!ReleaseUnused(live, cur, held)[g] = live[g]
         /\ \A g \in Dns!Gens : Dns!ReleaseUnused(live, cur, held)[g].primary =>
              live[g].primary /\ g \in held \cup {cur}
         /\ \A g \in Dns!Gens : Dns!ReleaseUnused(live, cur, held)[g].dropped =>
              live[g].dropped \/ g \notin held \cup {cur}
<1> DEFINE after == Dns!ReleaseUnused(live, cur, held)
<1>1. ASSUME NEW g \in Dns!Gens
      PROVE  /\ after[g] \in LiveRec /\ Owns(after[g])
             /\ g \in held \cup {cur} => after[g] = live[g]
             /\ after[g].primary => live[g].primary /\ g \in held \cup {cur}
             /\ after[g].dropped => live[g].dropped \/ g \notin held \cup {cur}
  <2>1. after[g] = IF g \in held \cup {cur} \/ live[g].dropped THEN live[g] ELSE Dns!Shutdown(live[g])
    BY DEF Dns!ReleaseUnused
  <2>2. live[g].dropped => ~live[g].primary
    BY DEF Owns
  <2> QED BY <2>1, <2>2, ShutdownOwns
<1>2. after = [g \in Dns!Gens |-> after[g]]
  BY DEF Dns!ReleaseUnused
<1> QED BY <1>1, <1>2
-----------------------------------------------------------------------------
(* The steps by what they change                                           *)

\* The tunnel and the network: nothing the resolvers or their users own.
WorldAside ==
  /\ UNCHANGED <<plan, engine, configs, live, ans, worker, caller>>
  /\ retries' \in Nat

\* A caller that neither begins nor ends a lookup.
CallerAside ==
  /\ UNCHANGED <<plan, engine, configs, live, retries, ans, worker>>
  /\ \E c \in Dns!Callers, r \in CallerRec :
       /\ caller' = [caller EXCEPT ![c] = r]
       /\ caller[c].pc # "lookup" /\ r.pc # "lookup"

\* A worker that moves on, with what it has found to be built.
WorkerReads(w) ==
  /\ UNCHANGED <<plan, engine, configs, live, retries, ans, caller>>
  /\ \E x \in WorkerRec :
       /\ worker' = [worker EXCEPT ![w] = x]
       /\ worker[w].pc # "idle" /\ x.pc \notin {"idle", "build"}
       /\ x.pc \in {"query", "fallback"} => live[Dns!Eng(w)].primary
       /\ x.pc = "fallback" => live[Dns!Eng(w)].fallback

\* A worker that takes the write lock, having found nothing built.
WorkerLocks(w) ==
  /\ UNCHANGED <<plan, engine, configs, retries, ans, caller>>
  /\ \E x \in WorkerRec : worker' = [worker EXCEPT ![w] = x] /\ x.pc = "build"
  /\ worker[w].pc # "idle"
  /\ live[Dns!Eng(w)].lock = "free" /\ ~live[Dns!Eng(w)].primary
  /\ live' = [live EXCEPT ![Dns!Eng(w)] = [@ EXCEPT !.lock = w]]

\* A worker that has built, or failed to.
WorkerBuilds(w) ==
  /\ UNCHANGED <<plan, engine, configs, retries, ans, caller>>
  /\ worker[w].pc = "build"
  /\ \E x \in WorkerRec, l \in LiveRec :
       /\ worker' = [worker EXCEPT ![w] = x]
       /\ x.pc \in {"query", "done"}
       /\ x.pc = "query" <=> l.primary
       /\ live' = [live EXCEPT ![Dns!Eng(w)] = l]
       /\ Owns(l)
       /\ l.dropped = live[Dns!Eng(w)].dropped

(* Records after an assignment to some of their fields.                    *)
LEMMA CallerGoes ==
  ASSUME NEW x \in CallerRec, NEW p \in CallerPcs
  PROVE  [x EXCEPT !.pc = p] \in CallerRec /\ [x EXCEPT !.pc = p].pc = p
  BY DEF CallerRec

Took(x, p, e) == [x EXCEPT !.pc = p, !.engine = e]
LEMMA CallerTakes ==
  ASSUME NEW x \in CallerRec, NEW p \in CallerPcs, NEW e \in 0 .. MaxConfigs
  PROVE  Took(x, p, e) \in CallerRec /\ Took(x, p, e).pc = p /\ Took(x, p, e).engine = e
  BY DEF CallerRec, Took

LEMMA CallerEnds ==
  ASSUME NEW x \in CallerRec, NEW r \in Results, NEW f \in Sources
  PROVE  /\ [x EXCEPT !.pc = "done", !.result = r, !.from = f] \in CallerRec
         /\ [x EXCEPT !.pc = "done", !.result = r, !.from = f].pc = "done"
  BY DEF CallerRec, CallerPcs

LEMMA WorkerGoes ==
  ASSUME NEW x \in WorkerRec, NEW p \in WorkerPcs
  PROVE  [x EXCEPT !.pc = p] \in WorkerRec /\ [x EXCEPT !.pc = p].pc = p
  BY DEF WorkerRec

LEMMA WorkerEnds ==
  ASSUME NEW r \in Dns!Worth
  PROVE  [pc |-> "done", result |-> r] \in WorkerRec
  BY DEF WorkerRec, WorkerPcs

LEMMA AsideIsAside ==
  ASSUME DnsType,
         Dns!Arm \/ Dns!Disarm \/ Dns!Uncapture \/ Dns!Elapse \/ Dns!Network \/ UNCHANGED Dns!vars
  PROVE  WorldAside
<1>1. CASE Dns!Arm \/ Dns!Disarm \/ Dns!Uncapture \/ Dns!Network \/ UNCHANGED Dns!vars
  <2>1. UNCHANGED <<plan, engine, configs, live, ans, worker, caller, retries>>
    BY <1>1 DEF Dns!Arm, Dns!Disarm, Dns!Uncapture, Dns!Network, Dns!Threads, Dns!vars
  <2> QED BY <2>1 DEF DnsType, WorldAside
<1>2. CASE Dns!Elapse
  BY <1>2 DEF DnsType, WorldAside, Dns!Elapse, Dns!Threads
<1> QED BY <1>1, <1>2

LEMMA CallersAside ==
  ASSUME Dns!DnsAssumption, DnsType, NEW c \in Dns!Callers,
         Dns!CheckPolicy(c) \/ Dns!AskOs(c) \/ Dns!AskTrusted(c) \/ Dns!Exchange(c) \/ Dns!GiveUp(c)
  PROVE  CallerAside
<1>1. caller[c] \in CallerRec /\ ans.trusted \in Results
  BY DEF DnsType, Dns!DnsAssumption, Results
<1>2. /\ UNCHANGED <<plan, engine, configs, live, retries, ans, worker>>
      /\ caller[c].pc # "lookup"
  BY DEF Dns!CheckPolicy, Dns!AskOs, Dns!AskTrusted, Dns!Exchange, Dns!GiveUp, Dns!World
<1>3. \/ \E p \in {"system", "exchange"} : caller' = [caller EXCEPT ![c] = [caller[c] EXCEPT !.pc = p]]
      \/ \E r \in Results, f \in Sources :
           caller' = [caller EXCEPT ![c] = [caller[c] EXCEPT !.pc = "done", !.result = r, !.from = f]]
  <2>1. {"good", "fail"} \subseteq Results /\ {"engine", "os", "tunnel", "trusted", "timeout"} \subseteq Sources
    BY DEF Results, Sources, Dns!Worth
  <2>2. CASE Dns!CheckPolicy(c)
    BY <2>1, <2>2 DEF Dns!CheckPolicy, Dns!SetCaller, Dns!Outcome
  <2>3. CASE Dns!AskOs(c)
    BY <2>1, <2>3 DEF Dns!AskOs, Dns!SetCaller, Dns!Outcome
  <2>4. CASE Dns!AskTrusted(c)
    BY <2>1, <2>4 DEF Dns!AskTrusted, Dns!SetCaller, Dns!Outcome
  <2>5. CASE Dns!Exchange(c)
    BY <1>1, <2>1, <2>5 DEF Dns!Exchange, Dns!SetCaller, Dns!Outcome
  <2>6. CASE Dns!GiveUp(c)
    BY <2>1, <2>6 DEF Dns!GiveUp, Dns!SetCaller, Dns!Outcome
  <2> QED BY <2>2, <2>3, <2>4, <2>5, <2>6
<1>4. ASSUME NEW p \in {"system", "exchange"},
             caller' = [caller EXCEPT ![c] = [caller[c] EXCEPT !.pc = p]]
      PROVE  CallerAside
  <2>1. p \in CallerPcs /\ p # "lookup"
    BY DEF CallerPcs
  <2>2. PICK x \in CallerRec : x = [caller[c] EXCEPT !.pc = p] /\ x.pc = p
    BY <1>1, <2>1, CallerGoes
  <2>3. caller' = [caller EXCEPT ![c] = x] /\ x.pc # "lookup"
    BY <1>4, <2>1, <2>2
  <2> QED BY <1>2, <2>3 DEF CallerAside
<1>5. ASSUME NEW r \in Results, NEW f \in Sources,
             caller' = [caller EXCEPT ![c] = [caller[c] EXCEPT !.pc = "done", !.result = r, !.from = f]]
      PROVE  CallerAside
  BY <1>1, <1>2, <1>5, CallerEnds DEF CallerAside
<1> QED BY <1>3, <1>4, <1>5

LEMMA SettleAside ==
  ASSUME DnsType, Dns!Settle
  PROVE  CallerAside
<1>1. PICK q \in Dns!Queries : Dns!HandleQuery(q) # "real" /\ Dns!Outcome("client", Dns!HandleQuery(q), "responder")
  BY DEF Dns!Settle
<1>2. Dns!HandleQuery(q) \in {"hosts", "forward", "empty", "real", "fake"}
  BY DEF Dns!HandleQuery, Dns!Queries
<1>3. Dns!HandleQuery(q) \in Results /\ "responder" \in Sources /\ "client" \in Dns!Callers
  BY <1>1, <1>2 DEF Results, Sources, Dns!Callers
<1>4. /\ UNCHANGED <<plan, engine, configs, live, retries, ans, worker>>
      /\ caller["client"].pc # "lookup" /\ caller["client"] \in CallerRec
  BY <1>3 DEF Dns!Settle, Dns!World, DnsType
<1>5. caller' = [caller EXCEPT !["client"] =
                   [caller["client"] EXCEPT !.pc = "done", !.result = Dns!HandleQuery(q), !.from = "responder"]]
  BY <1>1 DEF Dns!Outcome, Dns!SetCaller
<1> QED BY <1>3, <1>4, <1>5, CallerEnds DEF CallerAside

LEMMA BuiltOwns ==
  ASSUME NEW l \in LiveRec, NEW fb \in BOOLEAN, l.threads = 0, ~l.dropped
  PROVE  LET k == [l EXCEPT !.primary = TRUE, !.fallback = fb,
                            !.threads = @ + 1 + (IF fb THEN 1 ELSE 0), !.lock = "free"]
         IN  k \in LiveRec /\ k.primary /\ Owns(k) /\ k.dropped = l.dropped
<1> DEFINE n == IF fb THEN 2 ELSE 1
           k == [l EXCEPT !.primary = TRUE, !.fallback = fb, !.threads = n, !.lock = "free"]
<1>1. [l EXCEPT !.primary = TRUE, !.fallback = fb,
               !.threads = @ + 1 + (IF fb THEN 1 ELSE 0), !.lock = "free"] = k
  <2>1. l.threads + 1 + (IF fb THEN 1 ELSE 0) = n
    OBVIOUS
  <2> QED BY <2>1
<1>2. k \in LiveRec
  BY DEF LiveRec
<1>3. k.primary = TRUE /\ k.fallback = fb /\ k.threads = n /\ k.dropped = l.dropped
  BY DEF LiveRec
<1>4. Owns(k)
  BY <1>3 DEF Owns
<1> QED BY <1>1, <1>2, <1>3, <1>4

LEMMA FailedOwns ==
  ASSUME NEW l \in LiveRec, NEW n \in Nat, Owns(l), ~l.primary
  PROVE  LET k == [l EXCEPT !.failed = TRUE, !.failedAt = n, !.lock = "free"]
         IN  k \in LiveRec /\ ~k.primary /\ Owns(k) /\ k.dropped = l.dropped
<1> DEFINE k == [l EXCEPT !.failed = TRUE, !.failedAt = n, !.lock = "free"]
<1>1. k \in LiveRec
  BY DEF LiveRec
<1>2. /\ k.primary = l.primary /\ k.fallback = l.fallback
      /\ k.threads = l.threads /\ k.dropped = l.dropped
  BY DEF LiveRec
<1> HIDE DEF k
<1>3. Owns(k)
  BY <1>2 DEF Owns
<1>4. k \in LiveRec /\ ~k.primary /\ Owns(k) /\ k.dropped = l.dropped
  BY <1>1, <1>2, <1>3
<1> QED BY <1>4 DEF k

LEMMA EngTyped ==
  ASSUME Dns!DnsAssumption, DnsType, AskedIsHeld, NEW w \in Dns!Workers, worker[w].pc # "idle"
  PROVE  Dns!Eng(w) \in Dns!Gens
<1>1. /\ Dns!Eng(w) \in 1 .. configs /\ configs \in 1 .. MaxConfigs /\ MaxConfigs \in Nat
  BY DEF DnsType, AskedIsHeld, Dns!DnsAssumption
<1> QED BY <1>1 DEF Dns!Gens

LEMMA WorkersMove ==
  ASSUME Dns!DnsAssumption, DnsType, AskedIsHeld, BuilderIsAlone, UnheldIsDown, NEW w \in Dns!Workers,
         Dns!ResolveIps(w)
  PROVE  WorkerReads(w) \/ WorkerLocks(w) \/ WorkerBuilds(w)
<1> DEFINE g == Dns!Eng(w)
           l == live[g]
<1>1. /\ UNCHANGED <<plan, engine, configs, retries, ans, caller>>
      /\ worker[w].pc # "idle" /\ worker[w] \in WorkerRec
  BY DEF Dns!ResolveIps, Dns!ReadLive, Dns!WriteLive, Dns!Build, Dns!Query, Dns!QueryFallback,
         Dns!World, DnsType
<1>2. g \in Dns!Gens /\ l \in LiveRec /\ Owns(l)
  <2>1. g \in 1 .. configs /\ configs \in 1 .. MaxConfigs /\ MaxConfigs \in Nat
    BY <1>1 DEF DnsType, AskedIsHeld, Dns!DnsAssumption
  <2>2. g \in 1 .. MaxConfigs
    BY <2>1
  <2> QED BY <2>2 DEF DnsType, UnheldIsDown, Dns!Gens
<1>3. ans \in [primary : Dns!Worth, v6 : Dns!Worth, fallback : Dns!Worth, system : BOOLEAN, trusted : Dns!Worth]
  BY DEF DnsType, Dns!DnsAssumption
<1>4. ASSUME NEW p \in WorkerPcs, Dns!To(w, p)
      PROVE  \E x \in WorkerRec : worker' = [worker EXCEPT ![w] = x] /\ x.pc = p
  <2>1. worker' = [worker EXCEPT ![w] = [worker[w] EXCEPT !.pc = p]]
    BY <1>4 DEF Dns!To
  <2> QED BY <1>1, <2>1, WorkerGoes
<1>5. ASSUME NEW r \in Dns!Worth, Dns!Return(w, r)
      PROVE  \E x \in WorkerRec : worker' = [worker EXCEPT ![w] = x] /\ x.pc = "done"
  BY <1>5, WorkerEnds DEF Dns!Return
<1>6. CASE Dns!ReadLive(w)
  <2>1. live' = live /\ ((Dns!To(w, "query") /\ l.primary) \/ Dns!To(w, "write"))
    BY <1>6 DEF Dns!ReadLive
  <2>2. {"query", "write"} \subseteq WorkerPcs
    BY DEF WorkerPcs
  <2>3. PICK x \in WorkerRec :
          /\ worker' = [worker EXCEPT ![w] = x]
          /\ (x.pc = "query" /\ l.primary) \/ x.pc = "write"
    BY <1>4, <2>1, <2>2
  <2>4. CASE x.pc = "query" /\ l.primary
    BY <1>1, <2>1, <2>3, <2>4 DEF WorkerReads
  <2>5. CASE x.pc = "write"
    <3>1. worker' = [worker EXCEPT ![w] = x] /\ live' = live
      BY <2>1, <2>3
    <3> QED BY <1>1, <2>5, <3>1 DEF WorkerReads
  <2> QED BY <2>3, <2>4, <2>5
<1>7. CASE Dns!WriteLive(w)
  <2>1. live[g].lock = "free"
    BY <1>7 DEF Dns!WriteLive
  <2>2. {"query", "build"} \subseteq WorkerPcs /\ "fail" \in Dns!Worth
    BY DEF WorkerPcs, Dns!Worth
  <2>3. CASE l.primary
    <3>1. Dns!To(w, "query") /\ live' = live
      BY <1>7, <2>3 DEF Dns!WriteLive
    <3>2. PICK x \in WorkerRec : worker' = [worker EXCEPT ![w] = x] /\ x.pc = "query"
      BY <1>4, <2>2, <3>1
    <3> QED BY <1>1, <2>3, <3>1, <3>2 DEF WorkerReads
  <2>4. CASE ~l.primary /\ l.failed /\ l.failedAt = retries
    <3>1. Dns!Return(w, "fail") /\ live' = live
      BY <1>7, <2>4 DEF Dns!WriteLive
    <3>2. PICK x \in WorkerRec : worker' = [worker EXCEPT ![w] = x] /\ x.pc = "done"
      BY <1>5, <2>2, <3>1
    <3> QED BY <1>1, <3>1, <3>2 DEF WorkerReads
  <2>5. CASE ~l.primary /\ ~(l.failed /\ l.failedAt = retries)
    <3>1. Dns!To(w, "build") /\ live' = [live EXCEPT ![g].lock = w]
      BY <1>7, <2>5 DEF Dns!WriteLive
    <3>2. PICK x \in WorkerRec : worker' = [worker EXCEPT ![w] = x] /\ x.pc = "build"
      BY <1>4, <2>2, <3>1
    <3> QED BY <1>1, <2>1, <2>5, <3>1, <3>2 DEF WorkerLocks
  <2> QED BY <2>3, <2>4, <2>5
<1>8. CASE Dns!Build(w)
  <2>1. worker[w].pc = "build" /\ ~l.primary /\ ~l.fallback /\ l.threads = 0
    BY <1>2, <1>8 DEF Dns!Build, BuilderIsAlone, Owns
  <2>2. "query" \in WorkerPcs /\ "fail" \in Dns!Worth
    BY DEF WorkerPcs, Dns!Worth
  <2>3. CASE Dns!Builds(plan[g])
    <3> DEFINE fb == Dns!BuildFallback(plan[g])
    <3>1. /\ Dns!To(w, "query")
          /\ live' = [live EXCEPT ![g] = [l EXCEPT !.primary = TRUE, !.fallback = fb,
                                      !.threads = @ + 1 + (IF fb THEN 1 ELSE 0), !.lock = "free"]]
      BY <1>8, <2>3 DEF Dns!Build
    <3>2. PICK x \in WorkerRec : worker' = [worker EXCEPT ![w] = x] /\ x.pc = "query"
      BY <1>4, <2>2, <3>1
    <3>3. fb \in BOOLEAN
      BY DEF Dns!BuildFallback
    <3>4. ~l.dropped
      BY <1>1, <1>2 DEF UnheldIsDown, AskedIsHeld, Dns!Holders, Dns!Callers, Dns!OwnerOf, Dns!Eng
    <3>5. PICK k \in LiveRec :
            /\ live' = [live EXCEPT ![g] = k]
            /\ k.primary /\ Owns(k) /\ k.dropped = l.dropped
      BY <1>2, <2>1, <3>1, <3>3, <3>4, BuiltOwns
    <3> QED BY <1>1, <2>1, <3>2, <3>5 DEF WorkerBuilds
  <2>4. CASE ~Dns!Builds(plan[g])
    <3>1. /\ Dns!Return(w, "fail")
          /\ live' = [live EXCEPT ![g] = [l EXCEPT !.failed = TRUE, !.failedAt = retries, !.lock = "free"]]
      BY <1>8, <2>4 DEF Dns!Build
    <3>2. PICK x \in WorkerRec : worker' = [worker EXCEPT ![w] = x] /\ x.pc = "done"
      BY <1>5, <2>2, <3>1
    <3>3. PICK k \in LiveRec :
            /\ live' = [live EXCEPT ![g] = k]
            /\ ~k.primary /\ Owns(k) /\ k.dropped = l.dropped
      BY <1>2, <2>1, <3>1, FailedOwns DEF DnsType
    <3> QED BY <1>1, <2>1, <3>2, <3>3 DEF WorkerBuilds
  <2> QED BY <2>3, <2>4
<1>9. CASE Dns!Query(w)
  <2>1. live' = live /\ l.primary
    BY <1>9 DEF Dns!Query, BuilderIsAlone
  <2>2. PICK a \in Dns!Worth : a = IF w = "v6" THEN ans.v6 ELSE ans.primary
    BY <1>3
  <2>3. Dns!Return(w, "fail") \/ (Dns!To(w, "fallback") /\ l.fallback) \/ Dns!Return(w, a)
    BY <1>9, <2>2 DEF Dns!Query
  <2>4. "fallback" \in WorkerPcs /\ "fail" \in Dns!Worth
    BY DEF WorkerPcs, Dns!Worth
  <2>5. PICK x \in WorkerRec :
          /\ worker' = [worker EXCEPT ![w] = x]
          /\ (x.pc = "fallback" /\ l.fallback) \/ x.pc = "done"
    BY <1>4, <1>5, <2>3, <2>4
  <2>6. CASE x.pc = "fallback" /\ l.fallback
    BY <1>1, <2>1, <2>5, <2>6 DEF WorkerReads
  <2>7. CASE x.pc = "done"
    <3>1. worker' = [worker EXCEPT ![w] = x] /\ live' = live
      BY <2>1, <2>5
    <3> QED BY <1>1, <2>7, <3>1 DEF WorkerReads
  <2> QED BY <2>5, <2>6, <2>7
<1>10. CASE Dns!QueryFallback(w)
  <2>1. PICK a \in Dns!Worth : Dns!Return(w, a)
    BY <1>3, <1>10 DEF Dns!QueryFallback, Dns!Worth
  <2>2. PICK x \in WorkerRec : worker' = [worker EXCEPT ![w] = x] /\ x.pc = "done"
    BY <1>5, <2>1
  <2> QED BY <1>1, <1>10, <2>2 DEF WorkerReads, Dns!QueryFallback
<1> QED BY <1>6, <1>7, <1>8, <1>9, <1>10 DEF Dns!ResolveIps

-----------------------------------------------------------------------------
(* A step keeps the invariant                                              *)

LEMMA AsideKeeps ==
  ASSUME Dns!DnsAssumption, DnsInv, WorldAside \/ CallerAside
  PROVE  DnsInv'
<1>1. UNCHANGED <<plan, engine, configs, live, ans, worker>> /\ retries' \in Nat
  BY DEF WorldAside, CallerAside, DnsInv, DnsType
<1>2. /\ caller' \in [Dns!Callers -> CallerRec]
      /\ \A d \in Dns!Callers : (caller'[d].pc = "lookup") = (caller[d].pc = "lookup")
      /\ \A d \in Dns!Callers : caller[d].pc = "lookup" => caller'[d] = caller[d]
  <2>1. CASE WorldAside
    BY <2>1 DEF WorldAside, DnsInv, DnsType
  <2>2. CASE CallerAside
    BY <2>2 DEF CallerAside, DnsInv, DnsType
  <2> QED BY <2>1, <2>2
<1>3. Dns!Holders(caller') = Dns!Holders(caller)
  BY <1>2 DEF Dns!Holders
<1>4. ASSUME NEW w \in Dns!Workers, worker[w].pc # "idle"
      PROVE  caller'[Dns!OwnerOf(w)] = caller[Dns!OwnerOf(w)] /\ Dns!Eng(w)' = Dns!Eng(w)
  <2>1. Dns!OwnerOf(w) \in Dns!Callers /\ caller[Dns!OwnerOf(w)].pc = "lookup"
    BY <1>4 DEF Dns!OwnerOf, Dns!Callers, DnsInv, AskedIsHeld
  <2> QED BY <1>2, <2>1 DEF Dns!Eng
<1>5. DnsType'
  BY <1>1, <1>2 DEF DnsInv, DnsType
<1>6. AskedIsHeld'
  BY <1>1, <1>2, <1>4 DEF DnsInv, AskedIsHeld
<1>7. BuilderIsAlone'
  BY <1>1, <1>4 DEF DnsInv, BuilderIsAlone
<1>8. UnheldIsDown'
  BY <1>1, <1>3 DEF DnsInv, UnheldIsDown
<1> QED BY <1>5, <1>6, <1>7, <1>8 DEF DnsInv

LEMMA LockFacts ==
  ASSUME NEW l \in LiveRec, NEW w \in Dns!Workers
  PROVE  LET k == [l EXCEPT !.lock = w]
         IN  /\ k \in LiveRec
             /\ k.primary = l.primary /\ k.fallback = l.fallback
             /\ k.threads = l.threads /\ k.dropped = l.dropped
  BY DEF LiveRec

LEMMA WorkersKeep ==
  ASSUME Dns!DnsAssumption, DnsInv, NEW w \in Dns!Workers,
         WorkerReads(w) \/ WorkerLocks(w) \/ WorkerBuilds(w)
  PROVE  DnsInv'
<1> DEFINE g == Dns!Eng(w)
<1>1. UNCHANGED <<plan, engine, configs, retries, ans, caller>> /\ worker[w].pc # "idle"
  BY DEF WorkerReads, WorkerLocks, WorkerBuilds
<1>2. g \in Dns!Gens /\ live \in [Dns!Gens -> LiveRec] /\ live[g] \in LiveRec
  <2>1. g \in 1 .. configs /\ configs \in 1 .. MaxConfigs /\ MaxConfigs \in Nat
    BY <1>1 DEF DnsInv, DnsType, AskedIsHeld, Dns!DnsAssumption
  <2>2. g \in 1 .. MaxConfigs
    BY <2>1
  <2> QED BY <2>2 DEF DnsInv, DnsType, Dns!Gens
<1>3. g \in Dns!Holders(caller) /\ Owns(live[g]) /\ ~live[g].dropped
  BY <1>1, <1>2 DEF DnsInv, AskedIsHeld, UnheldIsDown, Dns!Holders, Dns!OwnerOf, Dns!Callers, Dns!Eng
<1>4. PICK x \in WorkerRec : worker' = [worker EXCEPT ![w] = x] /\ x.pc # "idle"
  BY DEF WorkerReads, WorkerLocks, WorkerBuilds
<1>5. PICK l \in LiveRec : live' = [live EXCEPT ![g] = l] /\ Owns(l) /\ l.dropped = live[g].dropped
  <2>1. CASE WorkerReads(w)
    BY <1>2, <1>3, <2>1 DEF WorkerReads
  <2>2. CASE WorkerLocks(w)
    <3>1. live' = [live EXCEPT ![g] = [live[g] EXCEPT !.lock = w]]
      BY <2>2 DEF WorkerLocks
    <3>2. PICK k \in LiveRec :
            /\ k = [live[g] EXCEPT !.lock = w] /\ k.primary = live[g].primary
            /\ k.fallback = live[g].fallback /\ k.threads = live[g].threads
            /\ k.dropped = live[g].dropped
      BY <1>2, LockFacts
    <3>3. Owns(k)
      BY <1>3, <3>2 DEF Owns
    <3> QED BY <3>1, <3>2, <3>3
  <2>3. CASE WorkerBuilds(w)
    BY <2>3 DEF WorkerBuilds
  <2> QED BY <2>1, <2>2, <2>3
<1>6. \A v \in Dns!Workers : Dns!Eng(v)' = Dns!Eng(v) /\ Dns!OwnerOf(v)' = Dns!OwnerOf(v)
  BY <1>1 DEF Dns!Eng, Dns!OwnerOf
<1>7. DnsType'
  BY <1>1, <1>2, <1>4, <1>5 DEF DnsInv, DnsType
<1>8. AskedIsHeld'
  BY <1>1, <1>4, <1>6 DEF DnsInv, DnsType, AskedIsHeld
<1>9. UnheldIsDown'
  <2>1. Dns!Holders(caller') = Dns!Holders(caller)
    BY <1>1
  <2> QED BY <1>1, <1>2, <1>3, <1>5, <2>1 DEF DnsInv, UnheldIsDown
<1>10. BuilderIsAlone'
  <2>1. CASE WorkerReads(w)
    BY <1>1, <1>6, <2>1 DEF WorkerReads, DnsInv, DnsType, BuilderIsAlone
  <2>2. CASE WorkerLocks(w)
    <3>1. live' = [live EXCEPT ![g] = [live[g] EXCEPT !.lock = w]] /\ live[g].lock = "free" /\ ~live[g].primary
      BY <2>2 DEF WorkerLocks
    <3>2. /\ live'[g].lock = w /\ live'[g].primary = live[g].primary /\ live'[g].fallback = live[g].fallback
          /\ \A h \in Dns!Gens : h # g => live'[h] = live[h]
      BY <1>2, <3>1 DEF LiveRec
    <3>3. worker'[w].pc = "build" /\ \A v \in Dns!Workers : v # w => worker'[v] = worker[v]
      BY <2>2 DEF WorkerLocks, DnsInv, DnsType
    <3>4. ASSUME NEW v \in Dns!Workers, v # w, worker[v].pc # "idle"
          PROVE  Dns!Eng(v) \in Dns!Gens
      BY <3>4, EngTyped DEF DnsInv
    <3>5. \A v \in Dns!Workers : v # "free"
      BY DEF Dns!Workers, Dns!Families
    <3> QED BY <1>6, <3>1, <3>2, <3>3, <3>4, <3>5 DEF DnsInv, BuilderIsAlone
  <2>3. CASE WorkerBuilds(w)
    <3>1. PICK y \in WorkerRec, k \in LiveRec :
            /\ worker' = [worker EXCEPT ![w] = y]
            /\ y.pc \in {"query", "done"} /\ (y.pc = "query" <=> k.primary)
            /\ live' = [live EXCEPT ![g] = k]
      BY <2>3 DEF WorkerBuilds
    <3>2. worker'[w] = y /\ \A v \in Dns!Workers : v # w => worker'[v] = worker[v]
      BY <3>1 DEF DnsInv, DnsType
    <3>3. live'[g] = k /\ \A h \in Dns!Gens : h # g => live'[h] = live[h]
      BY <1>2, <3>1
    <3>4. live[g].lock = w /\ ~live[g].primary
      BY <2>3 DEF WorkerBuilds, DnsInv, BuilderIsAlone
    <3>5. ASSUME NEW v \in Dns!Workers, v # w, worker[v].pc # "idle"
          PROVE  Dns!Eng(v) \in Dns!Gens
      BY <3>5, EngTyped DEF DnsInv
    <3> QED BY <1>6, <3>1, <3>2, <3>3, <3>4, <3>5 DEF DnsInv, BuilderIsAlone, Owns
  <2> QED BY <2>1, <2>2, <2>3
<1> QED BY <1>7, <1>8, <1>9, <1>10 DEF DnsInv


(* A lookup begins: its caller takes the resolver that is configured.      *)
LEMMA BeginKeeps ==
  ASSUME Dns!DnsAssumption, DnsInv, NEW c \in Dns!Callers, Dns!Begin(c)
  PROVE  DnsInv'
<1>1. CASE engine = 0
  <2>1. caller' = [caller EXCEPT ![c] = [caller[c] EXCEPT !.pc = "system"]] /\ caller[c].pc = "idle"
    BY <1>1 DEF Dns!Begin, Dns!SetCaller
  <2>2. UNCHANGED <<plan, engine, configs, live, retries, ans, worker>>
    BY <1>1 DEF Dns!Begin, Dns!World
  <2>3. caller[c] \in CallerRec /\ "system" \in CallerPcs
    BY DEF DnsInv, DnsType, CallerPcs
  <2>4. PICK x \in CallerRec : x = [caller[c] EXCEPT !.pc = "system"] /\ x.pc = "system"
    BY <2>3, CallerGoes
  <2>5. CallerAside
    BY <2>1, <2>2, <2>4 DEF CallerAside
  <2> QED BY <2>5, AsideKeeps
<1>2. CASE engine # 0
  <2>1. /\ caller' = [caller EXCEPT ![c] = Took(caller[c], "lookup", engine)]
        /\ caller[c].pc = "idle" /\ caller[c] \in CallerRec
        /\ worker' = [w \in Dns!Workers |-> IF w \in Dns!Started(c) THEN [pc |-> "read", result |-> "none"]
                                            ELSE worker[w]]
        /\ UNCHANGED <<plan, engine, configs, live, retries, ans>>
    BY <1>2 DEF Dns!Begin, Dns!SetCaller, Dns!World, DnsInv, DnsType, Took
  <2>2. engine \in 1 .. configs /\ configs \in 1 .. MaxConfigs /\ MaxConfigs \in Nat
    BY <1>2 DEF DnsInv, DnsType, Dns!DnsAssumption
  <2>3. engine \in 0 .. MaxConfigs
    BY <2>2
  <2>4. PICK x \in CallerRec : /\ x = Took(caller[c], "lookup", engine)
                               /\ x.pc = "lookup" /\ x.engine = engine
    <3>1. "lookup" \in CallerPcs
      BY DEF CallerPcs
    <3> QED BY <2>1, <2>3, <3>1, CallerTakes
  <2>5. /\ caller' \in [Dns!Callers -> CallerRec]
        /\ caller'[c] = x /\ \A d \in Dns!Callers : d # c => caller'[d] = caller[d]
    BY <2>1, <2>4 DEF DnsInv, DnsType
  <2>6. Dns!Holders(caller') = Dns!Holders(caller) \cup {engine}
    BY <2>1, <2>4, <2>5 DEF Dns!Holders
  <2>7. [pc |-> "read", result |-> "none"] \in WorkerRec
    BY DEF WorkerRec, WorkerPcs, Dns!Worth
  <2>8. DnsType'
    BY <2>1, <2>5, <2>7 DEF DnsInv, DnsType
  <2>9. ASSUME NEW w \in Dns!Workers
        PROVE  /\ w \in Dns!Started(c) <=> Dns!OwnerOf(w) = c
               /\ Dns!OwnerOf(w) \in Dns!Callers
    BY DEF Dns!Started, Dns!OwnerOf, Dns!Workers, Dns!Families, Dns!Callers
  <2>10. AskedIsHeld'
    BY <2>1, <2>2, <2>4, <2>5, <2>9 DEF DnsInv, AskedIsHeld, Dns!Eng
  <2>11. BuilderIsAlone'
    BY <2>1, <2>5, <2>9 DEF DnsInv, BuilderIsAlone, Dns!Eng
  <2>12. UnheldIsDown'
    BY <2>1, <2>6 DEF DnsInv, UnheldIsDown
  <2> QED BY <2>8, <2>10, <2>11, <2>12 DEF DnsInv
<1> QED BY <1>1, <1>2

(* The resolvers that nobody holds go; what the workers ask is untouched.  *)
LEMMA ReleaseKeeps ==
  ASSUME Dns!DnsAssumption, DnsInv, DnsType', AskedIsHeld',
         live' = Dns!ReleaseUnused(live, engine', Dns!Holders(caller') \cup {g \in Dns!Gens : g > configs'}),
         \A g \in Dns!Gens : g > configs' => ~live[g].primary /\ ~live[g].dropped /\ g # engine' /\ g \notin Dns!Holders(caller'),
         \A g \in Dns!Gens : live[g].dropped => g # engine' /\ g \notin Dns!Holders(caller'),
         \A w \in Dns!Workers : worker'[w].pc # "idle" =>
           worker'[w] = worker[w] /\ Dns!Eng(w)' = Dns!Eng(w)
  PROVE  DnsInv'
<1> DEFINE held == Dns!Holders(caller') \cup {g \in Dns!Gens : g > configs'}
<1>1. /\ \A g \in Dns!Gens : Owns(live'[g])
      /\ \A g \in Dns!Gens : g \in held \cup {engine'} => live'[g] = live[g]
      /\ \A g \in Dns!Gens : live'[g].primary => live[g].primary /\ g \in held \cup {engine'}
      /\ \A g \in Dns!Gens : live'[g].dropped => live[g].dropped \/ g \notin held \cup {engine'}
  BY ReleaseFacts DEF DnsInv, DnsType, UnheldIsDown
<1>2. UnheldIsDown'
  <2>1. ASSUME NEW g \in Dns!Gens, live'[g].primary PROVE g = engine' \/ g \in Dns!Holders(caller')
    BY <1>1, <2>1
  <2>2. ASSUME NEW g \in Dns!Gens, live'[g].dropped
        PROVE  g <= configs' /\ g # engine' /\ g \notin Dns!Holders(caller')
    <3>1. g \notin held \cup {engine'}
      BY <1>1, <2>2
    <3>2. g \in Nat /\ configs' \in Nat
      BY DEF Dns!Gens, DnsType, Dns!DnsAssumption
    <3> QED BY <3>1, <3>2
  <2> QED BY <1>1, <2>1, <2>2 DEF UnheldIsDown
<1>3. BuilderIsAlone'
  <2>1. ASSUME NEW w \in Dns!Workers, worker'[w].pc # "idle"
        PROVE  /\ live'[Dns!Eng(w)'] = live[Dns!Eng(w)]
               /\ worker'[w] = worker[w]
    <3>1. Dns!Eng(w)' \in Dns!Holders(caller')
      BY <2>1 DEF AskedIsHeld, Dns!Holders, Dns!Eng, Dns!OwnerOf, Dns!Callers
    <3>2. Dns!Eng(w)' \in Dns!Gens
      <4>1. Dns!Eng(w)' \in 1 .. configs' /\ configs' \in 1 .. MaxConfigs /\ MaxConfigs \in Nat
        BY <2>1 DEF AskedIsHeld, DnsType, Dns!DnsAssumption
      <4> QED BY <4>1 DEF Dns!Gens
    <3> QED BY <1>1, <2>1, <3>1, <3>2
  <2> QED BY <2>1 DEF DnsInv, BuilderIsAlone
<1> QED BY <1>2, <1>3 DEF DnsInv

(* A generation that is not configured yet is not built, nor is it held.   *)
LEMMA NotConfigured ==
  ASSUME Dns!DnsAssumption, DnsInv, NEW g \in Dns!Gens, g > configs
  PROVE  ~live[g].primary /\ ~live[g].dropped /\ g # engine /\ g \notin Dns!Holders(caller)
<1>1. g \in Nat /\ configs \in Nat /\ engine \in 0 .. configs
  BY DEF Dns!Gens, DnsInv, DnsType, Dns!DnsAssumption
<1>2. g # engine
  BY <1>1
<1>3. g \notin Dns!Holders(caller)
  <2> SUFFICES ASSUME NEW c \in Dns!Callers, caller[c].pc = "lookup" PROVE caller[c].engine # g
    BY DEF Dns!Holders
  <2>1. caller[c].engine \in 1 .. configs
    BY DEF DnsInv, AskedIsHeld
  <2> QED BY <1>1, <2>1
<1>4. ~live[g].primary
  BY <1>2, <1>3 DEF DnsInv, UnheldIsDown
<1>5. ~live[g].dropped
  BY <1>1 DEF DnsInv, UnheldIsDown
<1> QED BY <1>2, <1>3, <1>4, <1>5

(* A lookup ends: its caller gives the resolver back.                      *)
LEMMA JoinKeeps ==
  ASSUME Dns!DnsAssumption, DnsInv, NEW c \in Dns!Callers, Dns!Join(c)
  PROVE  DnsInv'
<1> DEFINE found == {worker[w].result : w \in Dns!Started(c)} \ {"fail"}
<1>1. /\ caller' = [caller EXCEPT ![c] =
            IF found # {} THEN [pc |-> "done", engine |-> 0, result |-> CHOOSE r \in found : TRUE,
                                from |-> "engine"]
            ELSE Took(caller[c], "policy", 0)]
      /\ live' = Dns!ReleaseUnused(live, engine, Dns!Holders(caller') \cup {g \in Dns!Gens : g > configs})
      /\ worker' = [w \in Dns!Workers |-> IF w \in Dns!Started(c) THEN [pc |-> "idle", result |-> "none"]
                                          ELSE worker[w]]
      /\ UNCHANGED <<plan, engine, configs, retries, ans>>
  BY DEF Dns!Join, Dns!SetCaller, Dns!World, Took
<1>2. caller[c] \in CallerRec /\ caller[c].pc = "lookup"
  BY DEF DnsInv, DnsType, Dns!Join
<1>3. found \subseteq Dns!Worth
  BY DEF DnsInv, DnsType, WorkerRec, Dns!Started, Dns!Workers, Dns!Families
<1>4. 0 \in 0 .. MaxConfigs
  BY DEF Dns!DnsAssumption
<1>5. PICK x \in CallerRec : caller' = [caller EXCEPT ![c] = x] /\ x.pc # "lookup"
  <2>1. CASE found # {}
    <3>1. (CHOOSE r \in found : TRUE) \in Results
      BY <1>3, <2>1 DEF Results
    <3>2. [pc |-> "done", engine |-> 0, result |-> CHOOSE r \in found : TRUE, from |-> "engine"] \in CallerRec
      BY <1>4, <3>1 DEF CallerRec, CallerPcs, Sources
    <3> QED BY <1>1, <2>1, <3>2
  <2>2. CASE found = {}
    <3>1. PICK y \in CallerRec : y = Took(caller[c], "policy", 0) /\ y.pc = "policy"
      <4>1. "policy" \in CallerPcs
        BY DEF CallerPcs
      <4> QED BY <1>2, <1>4, <4>1, CallerTakes
    <3> QED BY <1>1, <2>2, <3>1
  <2> QED BY <2>1, <2>2
<1>6. /\ caller' \in [Dns!Callers -> CallerRec]
      /\ caller'[c] = x /\ \A d \in Dns!Callers : d # c => caller'[d] = caller[d]
  BY <1>5 DEF DnsInv, DnsType
<1>7. Dns!Holders(caller') \subseteq Dns!Holders(caller)
  BY <1>5, <1>6 DEF Dns!Holders
<1>8. ASSUME NEW w \in Dns!Workers
      PROVE  /\ w \in Dns!Started(c) <=> Dns!OwnerOf(w) = c
             /\ Dns!OwnerOf(w) \in Dns!Callers
  BY DEF Dns!Started, Dns!OwnerOf, Dns!Workers, Dns!Families, Dns!Callers
<1>9. [pc |-> "idle", result |-> "none"] \in WorkerRec
  BY DEF WorkerRec, WorkerPcs, Dns!Worth
<1>10. live' \in [Dns!Gens -> LiveRec]
  BY <1>1, ReleaseFacts DEF DnsInv, DnsType, UnheldIsDown
<1>11. DnsType'
  BY <1>1, <1>6, <1>9, <1>10 DEF DnsInv, DnsType
<1>12. ASSUME NEW w \in Dns!Workers, worker'[w].pc # "idle"
       PROVE  worker'[w] = worker[w] /\ Dns!Eng(w)' = Dns!Eng(w)
              /\ caller'[Dns!OwnerOf(w)] = caller[Dns!OwnerOf(w)]
  BY <1>1, <1>6, <1>8, <1>12 DEF Dns!Eng
<1>13. AskedIsHeld'
  BY <1>1, <1>5, <1>6, <1>12 DEF DnsInv, AskedIsHeld
<1>14. ASSUME NEW g \in Dns!Gens, g > configs
       PROVE  ~live[g].primary /\ ~live[g].dropped /\ g # engine /\ g \notin Dns!Holders(caller')
  BY <1>7, <1>14, NotConfigured
<1>15. \A g \in Dns!Gens : live[g].dropped => g # engine /\ g \notin Dns!Holders(caller')
  BY <1>7 DEF DnsInv, UnheldIsDown
<1> QED BY <1>1, <1>11, <1>12, <1>13, <1>14, <1>15, ReleaseKeeps

(* A new configuration, or none: the old resolver goes with its last user. *)
LEMMA ConfigureKeeps ==
  ASSUME Dns!DnsAssumption, DnsInv, Dns!Configure \/ Dns!ConfigureNone
  PROVE  DnsInv'
<1>1. /\ UNCHANGED <<retries, ans, worker, caller>>
      /\ live' = Dns!ReleaseUnused(live, engine', Dns!Holders(caller') \cup {g \in Dns!Gens : g > configs'})
  BY DEF Dns!Configure, Dns!ConfigureNone, Dns!Install, Dns!Later
<1>2. /\ configs' \in 1 .. MaxConfigs /\ engine' \in 0 .. configs' /\ plan' \in [Dns!Gens -> Plans]
      /\ configs <= configs' /\ configs \in Nat /\ configs' \in Nat
      /\ engine' = 0 \/ engine' > configs
  <2>1. configs \in 1 .. MaxConfigs /\ engine \in 0 .. configs /\ MaxConfigs \in Nat /\ plan \in [Dns!Gens -> Plans]
    BY DEF DnsInv, DnsType, Dns!DnsAssumption
  <2>2. CASE Dns!ConfigureNone
    <3>1. engine' = 0 /\ UNCHANGED <<configs, plan>>
      BY <2>2 DEF Dns!ConfigureNone
    <3> QED BY <2>1, <3>1
  <2>3. ASSUME NEW p \in Plans, Dns!Install(p)
        PROVE  /\ configs' \in 1 .. MaxConfigs /\ engine' \in 0 .. configs' /\ plan' \in [Dns!Gens -> Plans]
               /\ configs <= configs' /\ configs \in Nat /\ configs' \in Nat
               /\ engine' = 0 \/ engine' > configs
    <3>1. configs' = configs + 1 /\ engine' = configs + 1 /\ configs < MaxConfigs
      BY <2>3 DEF Dns!Install
    <3>2. plan' \in [Dns!Gens -> Plans]
      BY <2>1, <2>3 DEF Dns!Install
    <3> QED BY <2>1, <3>1, <3>2
  <2> QED BY <2>2, <2>3 DEF Dns!Configure
<1>3. Dns!Holders(caller') = Dns!Holders(caller)
  BY <1>1
<1>4. live' \in [Dns!Gens -> LiveRec]
  BY <1>1, ReleaseFacts DEF DnsInv, DnsType, UnheldIsDown
<1>5. DnsType'
  BY <1>1, <1>2, <1>4 DEF DnsInv, DnsType
<1>6. \A n \in 1 .. configs : n \in 1 .. configs'
  BY <1>2
<1>7. \A w \in Dns!Workers : Dns!Eng(w)' = Dns!Eng(w)
  BY <1>1 DEF Dns!Eng
<1>8. AskedIsHeld'
  BY <1>1, <1>6, <1>7 DEF DnsInv, AskedIsHeld
<1>9. ASSUME NEW g \in Dns!Gens, g > configs'
      PROVE  ~live[g].primary /\ ~live[g].dropped /\ g # engine' /\ g \notin Dns!Holders(caller')
  <2>1. g \in Nat /\ g # 0
    BY DEF Dns!Gens, Dns!DnsAssumption
  <2>2. g > configs /\ g # engine'
    BY <1>2, <1>9, <2>1
  <2> QED BY <1>3, <2>2, NotConfigured
<1>10. ASSUME NEW g \in Dns!Gens, live[g].dropped PROVE g # engine' /\ g \notin Dns!Holders(caller')
  <2>1. g <= configs /\ g \notin Dns!Holders(caller)
    BY <1>10 DEF DnsInv, UnheldIsDown
  <2>2. g \in Nat /\ g # 0
    BY DEF Dns!Gens, Dns!DnsAssumption
  <2> QED BY <1>2, <1>3, <2>1, <2>2
<1> QED BY <1>1, <1>5, <1>7, <1>8, <1>9, <1>10, ReleaseKeeps

LEMMA DnsNext ==
  ASSUME Dns!DnsAssumption, DnsInv, [Dns!Next]_(Dns!vars)
  PROVE  DnsInv'
<1>1. ASSUME NEW w \in Dns!Workers, Dns!ResolveIps(w) PROVE DnsInv'
  BY <1>1, WorkersMove, WorkersKeep DEF DnsInv
<1>2. ASSUME NEW c \in Dns!Callers, Dns!Begin(c) PROVE DnsInv'
  BY <1>2, BeginKeeps
<1>3. ASSUME NEW c \in Dns!Callers, Dns!Join(c) PROVE DnsInv'
  BY <1>3, JoinKeeps
<1>4. ASSUME NEW c \in Dns!Callers,
             Dns!CheckPolicy(c) \/ Dns!AskOs(c) \/ Dns!AskTrusted(c) \/ Dns!Exchange(c) \/ Dns!GiveUp(c)
      PROVE  DnsInv'
  BY <1>4, CallersAside, AsideKeeps DEF DnsInv
<1>5. CASE Dns!Settle
  BY <1>5, SettleAside, AsideKeeps DEF DnsInv
<1>6. CASE Dns!Configure \/ Dns!ConfigureNone
  BY <1>6, ConfigureKeeps
<1>7. CASE Dns!Arm \/ Dns!Disarm \/ Dns!Uncapture \/ Dns!Elapse \/ Dns!Network \/ UNCHANGED Dns!vars
  BY <1>7, AsideIsAside, AsideKeeps DEF DnsInv
<1> QED
  BY <1>1, <1>2, <1>3, <1>4, <1>5, <1>6, <1>7 DEF Dns!Next, Dns!Call, Dns!Proceed

LEMMA DnsInit == ASSUME Dns!DnsAssumption, Dns!Init PROVE DnsInv
<1>1. Dns!NotBuilt \in LiveRec /\ Owns(Dns!NotBuilt) /\ ~Dns!NotBuilt.primary /\ ~Dns!NotBuilt.dropped
  BY DEF Dns!NotBuilt, LiveRec, Owns
<1>2. [pc |-> "idle", result |-> "none"] \in WorkerRec
  BY DEF WorkerRec, WorkerPcs, Dns!Worth
<1>3. Dns!Idle \in CallerRec /\ Dns!Idle.pc = "idle"
  BY DEF Dns!Idle, CallerRec, CallerPcs, Results, Sources, Dns!Worth, Dns!DnsAssumption
<1>4. configs \in 1 .. MaxConfigs /\ engine \in 0 .. configs /\ retries \in Nat
  BY DEF Dns!Init, Dns!DnsAssumption
<1>5. DnsType
  BY <1>1, <1>2, <1>3, <1>4 DEF Dns!Init, DnsType
<1>6. AskedIsHeld /\ BuilderIsAlone
  BY <1>3 DEF Dns!Init, AskedIsHeld, BuilderIsAlone
<1>7. UnheldIsDown
  BY <1>1 DEF Dns!Init, UnheldIsDown
<1> QED BY <1>5, <1>6, <1>7 DEF DnsInv

(* For any profiles, answers and number of reconfigurations: a resolver    *)
(* that threads still ask has not been shut down, each is built at most    *)
(* once at a time, and what runs in the background belongs to a resolver   *)
(* that is configured or still held.                                       *)
THEOREM ResolversAlwaysOwned ==
  ASSUME Dns!DnsAssumption
  PROVE  Dns!Spec => []Dns!ResolversAreOwned
<1>1. Dns!Init => DnsInv
  BY DnsInit
<1>2. DnsInv /\ [Dns!Next]_(Dns!vars) => DnsInv'
  BY DnsNext
<1>3. DnsInv => Dns!ResolversAreOwned
  <2> SUFFICES ASSUME DnsInv PROVE Dns!ResolversAreOwned
    OBVIOUS
  <2>1. ASSUME NEW g \in Dns!Gens, live[g].threads > 0 PROVE live[g].primary
    BY <2>1 DEF DnsInv, UnheldIsDown, Owns
  <2> QED BY <2>1 DEF DnsInv, BuilderIsAlone, UnheldIsDown, Owns, Dns!ResolversAreOwned
<1> QED
  BY <1>1, <1>2, <1>3, PTL DEF Dns!Spec

(* With policy keys that are plain names, a name under a policy is never   *)
(* put to the system's servers after the engine's resolver was asked, also *)
(* when the configuration was replaced in between.                         *)
THEOREM PolicyNeverBypassed ==
  ASSUME Dns!DnsAssumption,
         \A p \in Plans : \A key \in p.policy : Dns!NormalizeSuffix(key) = key
  PROVE  Dns!Spec => Dns!PolicyHasTheLastWord
<1>1. DnsInv /\ [Dns!Next]_(Dns!vars) => [Dns!PolicyStep]_(Dns!vars)
  <2> SUFFICES ASSUME DnsInv, Dns!Next, NEW c \in Dns!Callers,
                      caller[c].pc = "policy", caller'[c].pc = "system", engine # 0
               PROVE  ~\E key \in plan[engine].policy : Dns!SuffixMatches(Dns!Host, Dns!NormalizeSuffix(key))
    BY DEF Dns!PolicyStep
  <2>1. engine \in Dns!Gens /\ plan[engine] \in Plans
    BY DEF DnsInv, DnsType, Dns!Gens, Dns!DnsAssumption
  <2>2. Dns!CheckPolicy(c)
    <3> USE DEF Dns!SetCaller, Dns!Outcome
    <3>1. caller \in [Dns!Callers -> CallerRec] /\ caller' # caller
      BY DEF DnsInv, DnsType
    <3>2. ASSUME NEW w \in Dns!Workers, Dns!ResolveIps(w) PROVE FALSE
      BY <3>1, <3>2 DEF Dns!ResolveIps, Dns!ReadLive, Dns!WriteLive, Dns!Build, Dns!Query, Dns!QueryFallback
    <3>3. CASE Dns!Configure \/ Dns!ConfigureNone \/ Dns!Arm \/ Dns!Disarm \/ Dns!Uncapture \/ Dns!Elapse \/ Dns!Network
      BY <3>1, <3>3 DEF Dns!Configure, Dns!ConfigureNone, Dns!Install, Dns!Arm, Dns!Disarm, Dns!Uncapture,
         Dns!Elapse, Dns!Network, Dns!Threads
    <3>4. CASE Dns!Settle
      BY <3>1, <3>4 DEF Dns!Settle
    <3>5. ASSUME NEW d \in Dns!Callers, Dns!Call(d), d # c PROVE FALSE
      BY <3>1, <3>5 DEF Dns!Call, Dns!Proceed, Dns!Begin, Dns!Join, Dns!CheckPolicy, Dns!AskOs, Dns!AskTrusted,
         Dns!Exchange, Dns!GiveUp
    <3>6. ASSUME Dns!Call(c) PROVE Dns!CheckPolicy(c)
      BY <3>6 DEF Dns!Call, Dns!Proceed, Dns!Begin, Dns!Join, Dns!AskOs, Dns!AskTrusted, Dns!Exchange, Dns!GiveUp
    <3> QED BY <3>2, <3>3, <3>4, <3>5, <3>6 DEF Dns!Next
  <2>3. ~Dns!UsesPolicy(engine)
    BY <2>2 DEF Dns!CheckPolicy, Dns!Outcome, Dns!SetCaller, DnsInv, DnsType, CallerRec
  <2> QED BY <2>1, <2>3 DEF Dns!UsesPolicy
<1>2. Dns!Init => DnsInv
  BY DnsInit
<1>3. DnsInv /\ [Dns!Next]_(Dns!vars) => DnsInv'
  BY DnsNext
<1> QED
  BY <1>1, <1>2, <1>3, PTL DEF Dns!Spec, Dns!PolicyHasTheLastWord

(***************************************************************************)
(* Socks5Udp                                                               *)
(***************************************************************************)

Socks == INSTANCE Socks5Udp

Jobs == [id : Datagrams, src : Endpoints]

\* A datagram of the association: from the endpoint that is pinned, which has
\* the client's address.
OfClient(j, p) == j \in Jobs /\ j.src \in ClientIp /\ j.src = p

\* What is in hand, queued, with a worker or carried is the client's.
SocksInv ==
  /\ pinned \in {None} \cup ClientIp
  /\ unsent \subseteq Datagrams
  /\ loop = "submit" => OfClient(job, pinned)
  /\ queue \in Seq(Jobs) /\ \A i \in 1 .. Len(queue) : OfClient(queue[i], pinned)
  /\ threads \in Seq(Jobs \cup {None, Exited})
  /\ \A i \in 1 .. Len(threads) : threads[i] \notin {None, Exited} => OfClient(threads[i], pinned)
  /\ \A j \in carried : OfClient(j, pinned)

\* While the endpoint stays, what was the client's is the client's.
LEMMA ClientStays ==
  ASSUME NEW j, OfClient(j, pinned), Socks!AssociationAssumption,
         pinned' = pinned \/ (pinned = None /\ pinned' \in Endpoints)
  PROVE OfClient(j, pinned')
  BY DEF OfClient, Jobs, Socks!AssociationAssumption

\* A worker's slot is filled or freed: the other workers keep what they have.
LEMMA SlotSet ==
  ASSUME SocksInv, NEW i \in 1 .. Len(threads), NEW v \in Jobs \cup {None, Exited},
         v \notin {None, Exited} => OfClient(v, pinned),
         threads' = [threads EXCEPT ![i] = v], UNCHANGED pinned
  PROVE /\ threads' \in Seq(Jobs \cup {None, Exited})
        /\ \A k \in 1 .. Len(threads') : threads'[k] \notin {None, Exited} => OfClient(threads'[k], pinned')
<1>1. threads' \in Seq(Jobs \cup {None, Exited}) /\ Len(threads') = Len(threads)
  BY ExceptSeq DEF SocksInv
<1>2. \A k \in 1 .. Len(threads) : threads'[k] = IF k = i THEN v ELSE threads[k]
  BY ExceptSeq DEF SocksInv
<1> QED BY <1>1, <1>2 DEF SocksInv, OfClient

LEMMA SlotAdded ==
  ASSUME SocksInv, UNCHANGED pinned,
         Socks!Spawned \/ Socks!NotSpawned
  PROVE /\ threads' \in Seq(Jobs \cup {None, Exited})
        /\ \A k \in 1 .. Len(threads') : threads'[k] \notin {None, Exited} => OfClient(threads'[k], pinned')
<1>1. CASE Socks!Spawned
  <2>1. threads' = Append(threads, None) /\ threads \in Seq(Jobs \cup {None, Exited})
    BY <1>1 DEF Socks!Spawned, SocksInv
  <2>2. /\ threads' \in Seq(Jobs \cup {None, Exited})
        /\ Len(threads') = Len(threads) + 1
        /\ \A k \in 1 .. Len(threads) : threads'[k] = threads[k]
        /\ threads'[Len(threads) + 1] = None
    BY <2>1, AppendProperties
  <2>3. \A k \in 1 .. Len(threads') : k \in 1 .. Len(threads) \/ k = Len(threads) + 1
    BY <2>1, <2>2
  <2> QED BY <2>2, <2>3 DEF SocksInv, OfClient
<1>2. CASE Socks!NotSpawned
  BY <1>2 DEF Socks!NotSpawned, SocksInv, OfClient
<1> QED BY <1>1, <1>2

LEMMA QueueAdded ==
  ASSUME SocksInv, UNCHANGED pinned, loop = "submit", Socks!Enqueue \/ UNCHANGED queue
  PROVE queue' \in Seq(Jobs) /\ \A k \in 1 .. Len(queue') : OfClient(queue'[k], pinned')
<1>1. CASE UNCHANGED queue
  BY <1>1 DEF SocksInv, OfClient
<1>2. CASE queue' = Append(queue, job)
  <2>1. queue \in Seq(Jobs) /\ job \in Jobs /\ OfClient(job, pinned')
    BY DEF SocksInv, OfClient
  <2>2. /\ queue' \in Seq(Jobs)
        /\ Len(queue') = Len(queue) + 1
        /\ \A k \in 1 .. Len(queue) : queue'[k] = queue[k]
        /\ queue'[Len(queue) + 1] = job
    BY <1>2, <2>1, AppendProperties
  <2>3. \A k \in 1 .. Len(queue') : k \in 1 .. Len(queue) \/ k = Len(queue) + 1
    BY <2>1, <2>2
  <2> QED BY <2>1, <2>2, <2>3 DEF SocksInv, OfClient
<1> QED BY <1>1, <1>2 DEF Socks!Enqueue

LEMMA SocksNext ==
  ASSUME Socks!AssociationAssumption, SocksInv, [Socks!Next]_(Socks!vars)
  PROVE SocksInv'
<1>1. ASSUME UNCHANGED <<pinned, queue, threads, carried, unsent>>, loop' = "submit" => loop = "submit",
             UNCHANGED job
      PROVE SocksInv'
  BY <1>1 DEF SocksInv, OfClient
<1>2. CASE UNCHANGED Socks!vars
  BY <1>1, <1>2 DEF Socks!vars
<1>3. CASE Socks!ClientCloses \/ Socks!ControlEnds \/ Socks!JoinRelay
  BY <1>1, <1>3 DEF Socks!ClientCloses, Socks!ControlEnds, Socks!JoinRelay, Socks!pool
<1>4. CASE Socks!ReceiveError \/ Socks!LoopEnds
  BY <1>1, <1>4 DEF Socks!ReceiveError, Socks!LoopEnds, Socks!pool
<1>5. CASE Socks!Receive
  <2>1. PICK d \in unsent, src \in Endpoints :
          /\ unsent' = unsent \ {d}
          /\ IF Socks!SourceAllowed(src)
             THEN /\ pinned' = (IF pinned = None THEN src ELSE pinned)
                  /\ \/ job' = [id |-> d, src |-> src] /\ loop' = "submit"
                     \/ UNCHANGED <<job, loop>>
             ELSE UNCHANGED <<pinned, job, loop>>
    BY <1>5 DEF Socks!Receive
  <2>2. UNCHANGED <<queue, threads, carried>> /\ loop = "recv"
    BY <1>5 DEF Socks!Receive, Socks!pool
  <2>3. CASE ~Socks!SourceAllowed(src)
    BY <2>1, <2>2, <2>3 DEF SocksInv, OfClient
  <2>4. CASE Socks!SourceAllowed(src)
    <3>1. src \in ClientIp /\ pinned' = src /\ (pinned' = pinned \/ (pinned = None /\ pinned' \in Endpoints))
      BY <2>1, <2>4 DEF Socks!SourceAllowed
    <3>2. \A j : OfClient(j, pinned) => OfClient(j, pinned')
      BY <3>1, ClientStays
    <3>3. loop' = "submit" => OfClient(job', pinned')
      BY <2>1, <2>2, <2>4, <3>1 DEF OfClient, Jobs, SocksInv
    <3>4. queue' \in Seq(Jobs) /\ \A i \in 1 .. Len(queue') : OfClient(queue[i], pinned')
      BY <2>2, <3>2 DEF SocksInv
    <3>5. /\ threads' \in Seq(Jobs \cup {None, Exited})
          /\ \A i \in 1 .. Len(threads') : threads[i] \notin {None, Exited} => OfClient(threads[i], pinned')
      BY <2>2, <3>2 DEF SocksInv
    <3>6. \A j \in carried' : OfClient(j, pinned')
      BY <2>2, <3>2 DEF SocksInv
    <3>7. pinned' \in {None} \cup ClientIp /\ unsent' \subseteq Datagrams
      BY <2>1, <3>1 DEF SocksInv
    <3> QED BY <2>2, <3>3, <3>4, <3>5, <3>6, <3>7 DEF SocksInv, OfClient
  <2> QED BY <2>3, <2>4
<1>6. CASE Socks!Submit
  <2>1. UNCHANGED <<pinned, carried, unsent>> /\ loop = "submit" /\ loop' = "recv"
    BY <1>6 DEF Socks!Submit
  <2>2. /\ Socks!Spawned \/ Socks!NotSpawned
        /\ Socks!Enqueue \/ UNCHANGED queue
    BY <1>6 DEF Socks!Submit
  <2>3. /\ threads' \in Seq(Jobs \cup {None, Exited})
        /\ \A k \in 1 .. Len(threads') : threads'[k] \notin {None, Exited} => OfClient(threads'[k], pinned')
    BY <2>1, <2>2, SlotAdded
  <2>4. queue' \in Seq(Jobs) /\ \A k \in 1 .. Len(queue') : OfClient(queue'[k], pinned')
    BY <2>1, <2>2, QueueAdded
  <2> QED BY <2>1, <2>3, <2>4 DEF SocksInv, OfClient
<1>7. ASSUME NEW i \in DOMAIN threads, Socks!Take(i)
      PROVE SocksInv'
  <2>1. i \in 1 .. Len(threads) /\ queue \in Seq(Jobs) /\ queue # << >>
    BY <1>7 DEF SocksInv, Socks!Take
  <2>2. Head(queue) = queue[1] /\ 1 \in 1 .. Len(queue)
    BY <2>1, HeadTailProperties
  <2>3. UNCHANGED <<pinned, carried, unsent, loop, job>> /\ threads' = [threads EXCEPT ![i] = Head(queue)]
    BY <1>7 DEF Socks!Take
  <2>4. OfClient(Head(queue), pinned) /\ Head(queue) \in Jobs
    BY <2>2 DEF SocksInv, OfClient
  <2>5. /\ threads' \in Seq(Jobs \cup {None, Exited})
        /\ \A k \in 1 .. Len(threads') : threads'[k] \notin {None, Exited} => OfClient(threads'[k], pinned')
    BY <2>1, <2>3, <2>4, SlotSet
  <2>6. /\ queue' \in Seq(Jobs) /\ Len(queue') = Len(queue) - 1
        /\ \A k \in 1 .. Len(queue') : queue'[k] = queue[k + 1] /\ k + 1 \in 1 .. Len(queue)
    BY <1>7, <2>1, HeadTailProperties DEF Socks!Take
  <2>7. \A k \in 1 .. Len(queue') : OfClient(queue'[k], pinned)
    BY <2>6 DEF SocksInv
  <2> QED BY <2>3, <2>5, <2>6, <2>7 DEF SocksInv, OfClient
<1>8. ASSUME NEW i \in DOMAIN threads, Socks!RelayDatagram(i)
      PROVE SocksInv'
  <2>1. i \in 1 .. Len(threads) /\ threads[i] \notin {None, Exited}
    BY <1>8 DEF SocksInv, Socks!RelayDatagram, Socks!Busy
  <2>2. /\ UNCHANGED <<pinned, unsent, loop, job, queue>> /\ threads' = [threads EXCEPT ![i] = None]
        /\ carried' = carried \cup {threads[i]}
    BY <1>8 DEF Socks!RelayDatagram
  <2>3. /\ threads' \in Seq(Jobs \cup {None, Exited})
        /\ \A k \in 1 .. Len(threads') : threads'[k] \notin {None, Exited} => OfClient(threads'[k], pinned')
    BY <2>1, <2>2, SlotSet
  <2>4. \A j \in carried' : OfClient(j, pinned)
    BY <2>1, <2>2 DEF SocksInv
  <2> QED BY <2>2, <2>3, <2>4 DEF SocksInv, OfClient
<1>9. ASSUME NEW i \in DOMAIN threads, Socks!WorkerExits(i)
      PROVE SocksInv'
  <2>1. /\ i \in 1 .. Len(threads)
        /\ UNCHANGED <<pinned, unsent, loop, job, queue, carried>>
        /\ threads' = [threads EXCEPT ![i] = Exited]
    BY <1>9 DEF Socks!WorkerExits, SocksInv
  <2>2. /\ threads' \in Seq(Jobs \cup {None, Exited})
        /\ \A k \in 1 .. Len(threads') : threads'[k] \notin {None, Exited} => OfClient(threads'[k], pinned')
    BY <2>1, SlotSet
  <2> QED BY <2>1, <2>2 DEF SocksInv, OfClient
<1> QED BY <1>2, <1>3, <1>4, <1>5, <1>6, <1>7, <1>8, <1>9 DEF Socks!Next, Socks!Worker

\* A UDP association of the SOCKS5 inbound carries the datagrams of one
\* endpoint, which has the address of the control connection
\* (src/engine/inbound/socks5.rs), for every number of datagrams, workers and
\* places in the queue.
THEOREM AssociationServesItsClient ==
  ASSUME Socks!AssociationAssumption
  PROVE Socks!Spec => []Socks!InboundIsGuarded
<1>1. Socks!Init => SocksInv
  <2> SUFFICES ASSUME Socks!Init PROVE SocksInv
    OBVIOUS
  <2>1. queue = << >> /\ threads = << >> /\ carried = {} /\ loop = "recv" /\ unsent = Datagrams
    BY DEF Socks!Init
  <2>2. queue \in Seq(Jobs) /\ Len(queue) = 0 /\ threads \in Seq(Jobs \cup {None, Exited}) /\ Len(threads) = 0
    BY <2>1
  <2>3. pinned \in {None} \cup ClientIp
    BY DEF Socks!Init
  <2> QED BY <2>1, <2>2, <2>3 DEF SocksInv
<1>2. SocksInv /\ [Socks!Next]_(Socks!vars) => SocksInv'
  BY SocksNext
<1>3. SocksInv => Socks!InboundIsGuarded
  BY DEF SocksInv, OfClient, Socks!InboundIsGuarded
<1> QED BY <1>1, <1>2, <1>3, PTL DEF Socks!Spec

(***************************************************************************)
(* VmessUdp                                                                *)
(***************************************************************************)

Vmess == INSTANCE VmessUdp

Before == {"lookup", "dial", "count", "lock", "write"}   \* its chunk is not written
Past == {"header", "respond", "read"}                    \* it waits for the answer
Chunk == [n : Nat, to : Nat]
Ats == {"idle", "failed", "answered"} \cup Before \cup Past
Call == [at : Ats, id : Nat, session : Sessions \cup {None}, count : Nat, answer : Nat]

VmessType ==
  /\ table \in Sessions \cup {None} /\ fresh \subseteq Sessions
  /\ drawn \in [Sessions -> Nat] /\ response \in [Sessions -> Nat] /\ sent \in [Sessions -> Nat]
  /\ consumed \in [Sessions -> BOOLEAN] /\ holder \in [Sessions -> Callers \cup {None}]
  /\ asked \in [Sessions -> SUBSET Nat] /\ stream \in [Sessions -> Seq(Chunk)]
  /\ call \in [Callers -> Call] /\ calls \in Nat
  /\ \A c \in Callers : call[c].at \in {"count", "lock", "write"} \cup Past => call[c].session \in Sessions

\* The stream is locked from the write to the answer.
StreamIsHeld ==
  \A c \in Callers : call[c].at \in {"write"} \cup Past => holder[call[c].session] = c

\* A datagram has one number of its own, and is asked for or answered once.
IdsAreOwn ==
  /\ \A c \in Callers : call[c].id <= calls /\ (call[c].at # "idle" => call[c].id > 0)
  /\ \A c, d \in Callers : c # d /\ call[c].id = call[d].id => call[c].id = 0
OnceOf(s) ==
  /\ \A x \in asked[s] : x > 0 /\ x <= calls
  /\ \A i \in 1 .. Len(stream[s]) : stream[s][i].to <= calls /\ stream[s][i].to \notin asked[s]
  /\ \A i, j \in 1 .. Len(stream[s]) : i # j => stream[s][i].to # stream[s][j].to
AskedOnce == \A s \in Sessions : OnceOf(s)
NotAskedYet ==
  \A c \in Callers, s \in Sessions : call[c].at \in Before =>
    /\ call[c].id \notin asked[s]
    /\ \A i \in 1 .. Len(stream[s]) : stream[s][i].to # call[c].id

\* What is left of the server's stream: the end of the header and the answers
\* in the order of their counters.
ShapeOf(s) ==
  /\ Len(stream[s]) <= sent[s] + 1
  /\ sent[s] = 0 => Len(stream[s]) = 0
  /\ \A i \in 1 .. Len(stream[s]) :
       IF i = 1 /\ Len(stream[s]) = sent[s] + 1
       THEN stream[s][i] = Vmess!Header
       ELSE stream[s][i].n = sent[s] - Len(stream[s]) + i - 1 /\ stream[s][i].to > 0
StreamShape == \A s \in Sessions : ShapeOf(s)

Free(s) == \A c \in Callers : call[c].session = s => call[c].at \notin Past
UnusedOf(s) == ~consumed[s] => asked[s] = {} /\ sent[s] = 0 /\ response[s] = 0 /\ Free(s)
Unused == \A s \in Sessions : UnusedOf(s)

\* The answers taken off the stream; they are never ahead of the counters that
\* were spent, and once behind they stay behind.
Got(s) == sent[s] - Len(stream[s])
InStep(s) == sent[s] > 0 /\ Len(stream[s]) <= sent[s]
OnlyOf(s, c) == /\ asked[s] \subseteq {call[c].id}
                /\ \A i \in 1 .. Len(stream[s]) : stream[s][i].to \in {0, call[c].id}

HeaderOf(s, c) ==
  response[s] = 0 /\ (sent[s] = 0 \/ Len(stream[s]) = sent[s] + 1) /\ OnlyOf(s, c)
RespondOf(s, c) ==
  Got(s) <= response[s] /\ (InStep(s) /\ Got(s) = response[s] => OnlyOf(s, c))
ReadOf(s, c) ==
  /\ call[c].count = response[s] - 1 /\ Got(s) <= call[c].count
  /\ InStep(s) /\ Got(s) = call[c].count => OnlyOf(s, c)
RestOf(s) ==
  /\ Got(s) <= response[s]
  /\ InStep(s) /\ Got(s) = response[s] => asked[s] = {} /\ Len(stream[s]) = 0

WaitOf(s, c) == call[c].session = s => /\ call[c].at = "header" => HeaderOf(s, c)
                                       /\ call[c].at = "respond" => RespondOf(s, c)
                                       /\ call[c].at = "read" => ReadOf(s, c)
WaitIsOwn == \A c \in Callers, s \in Sessions : WaitOf(s, c)
AtRest == \A s \in Sessions : Free(s) => RestOf(s)

VmessInv ==
  /\ VmessType /\ StreamIsHeld /\ IdsAreOwn /\ AskedOnce /\ NotAskedYet /\ StreamShape /\ Unused
  /\ WaitIsOwn /\ AtRest /\ Vmess!AnswersAreOwn


\* What a step does to the call of c; the other calls stay.
Others(c) == call' \in [Callers -> Call] /\ \A d \in Callers \ {c} : call'[d] = call[d]
Moved(c, x, s, n, a) ==
  /\ Others(c) /\ call'[c].at = x /\ call'[c].id = call[c].id /\ call'[c].session = s
  /\ call'[c].count = n /\ call'[c].answer = a

LEMMA GoMoves ==
  ASSUME VmessType, NEW c \in Callers, NEW x \in Ats, Vmess!Go(c, x)
  PROVE Moved(c, x, call[c].session, call[c].count, call[c].answer)
<1> DEFINE r == [call[c] EXCEPT !.at = x]
<1>1. call[c] \in Call /\ call' = [call EXCEPT ![c] = r] BY DEF VmessType, Vmess!Go
<1>2. r \in Call BY <1>1 DEF Call
<1>3. r.at = x /\ r.id = call[c].id /\ r.session = call[c].session /\ r.count = call[c].count /\ r.answer = call[c].answer
  BY <1>1 DEF Call
<1> HIDE DEF r
<1>4. call'[c] = r /\ Others(c) BY <1>1, <1>2 DEF VmessType, Others
<1> QED BY <1>3, <1>4 DEF Moved

LEMMA SessionMoves ==
  ASSUME VmessType, NEW c \in Callers, NEW s \in Sessions,
         call' = [call EXCEPT ![c].at = "count", ![c].session = s]
  PROVE Moved(c, "count", s, call[c].count, call[c].answer)
<1> DEFINE r == [call[c] EXCEPT !.at = "count", !.session = s]
<1>1. call[c] \in Call /\ call' = [call EXCEPT ![c] = r] BY DEF VmessType
<1>2. r \in Call BY <1>1 DEF Call, Ats, Before
<1>3. r.at = "count" /\ r.id = call[c].id /\ r.session = s /\ r.count = call[c].count /\ r.answer = call[c].answer
  BY <1>1 DEF Call
<1> HIDE DEF r
<1>4. call'[c] = r /\ Others(c) BY <1>1, <1>2 DEF VmessType, Others
<1> QED BY <1>3, <1>4 DEF Moved

LEMMA CountMoves ==
  ASSUME VmessType, NEW c \in Callers, NEW x \in Ats, NEW n \in Nat,
         call' = [call EXCEPT ![c].at = x, ![c].count = n]
  PROVE Moved(c, x, call[c].session, n, call[c].answer)
<1> DEFINE r == [call[c] EXCEPT !.at = x, !.count = n]
<1>1. call[c] \in Call /\ call' = [call EXCEPT ![c] = r] BY DEF VmessType
<1>2. r \in Call BY <1>1 DEF Call
<1>3. r.at = x /\ r.id = call[c].id /\ r.session = call[c].session /\ r.count = n /\ r.answer = call[c].answer
  BY <1>1 DEF Call
<1> HIDE DEF r
<1>4. call'[c] = r /\ Others(c) BY <1>1, <1>2 DEF VmessType, Others
<1> QED BY <1>3, <1>4 DEF Moved

LEMMA AnswerMoves ==
  ASSUME VmessType, NEW c \in Callers, NEW a \in Nat,
         call' = [call EXCEPT ![c].at = "answered", ![c].answer = a]
  PROVE Moved(c, "answered", call[c].session, call[c].count, a)
<1> DEFINE r == [call[c] EXCEPT !.at = "answered", !.answer = a]
<1>1. call[c] \in Call /\ call' = [call EXCEPT ![c] = r] BY DEF VmessType
<1>2. r \in Call BY <1>1 DEF Call, Ats
<1>3. r.at = "answered" /\ r.id = call[c].id /\ r.session = call[c].session /\ r.count = call[c].count /\ r.answer = a
  BY <1>1 DEF Call
<1> HIDE DEF r
<1>4. call'[c] = r /\ Others(c) BY <1>1, <1>2 DEF VmessType, Others
<1> QED BY <1>3, <1>4 DEF Moved

\* The types that the arithmetic of the counters needs.
LEMMA VmessNumbers ==
  ASSUME VmessType
  PROVE /\ \A s \in Sessions : sent[s] \in Nat /\ response[s] \in Nat /\ Len(stream[s]) \in Nat
        /\ \A c \in Callers : call[c].id \in Nat /\ call[c].count \in Nat /\ call[c].at \in Ats
        /\ \A s \in Sessions : \A i \in 1 .. Len(stream[s]) : stream[s][i] \in Chunk
<1>1. \A s \in Sessions : sent[s] \in Nat /\ response[s] \in Nat /\ stream[s] \in Seq(Chunk) BY DEF VmessType
<1>2. \A s \in Sessions : Len(stream[s]) \in Nat /\ \A i \in 1 .. Len(stream[s]) : stream[s][i] \in Chunk
  BY <1>1
<1>3. \A c \in Callers : call[c] \in Call BY DEF VmessType
<1> QED BY <1>1, <1>2, <1>3 DEF Call

\* A call that does not wait for an answer goes on, or is over, while the
\* streams stay as they are.
LEMMA VmessQuiet ==
  ASSUME VmessInv, NEW c \in Callers, NEW x \in Ats \ ({"idle", "answered"} \cup Past),
         NEW q, NEW n, VmessType', Moved(c, x, q, n, call[c].answer),
         call[c].at \in Before, x \in Before \cup {"failed"},
         UNCHANGED <<asked, sent, stream, response, consumed, calls>>
  PROVE IdsAreOwn' /\ AskedOnce' /\ NotAskedYet' /\ StreamShape' /\ Unused' /\ WaitIsOwn' /\ AtRest'
        /\ Vmess!AnswersAreOwn'
<1> USE DEF Moved, Others
<1>0. call[c].at \notin Past /\ call[c].at # "idle" /\ x \notin Past /\ x # "idle" /\ x # "answered"
  BY DEF Before, Past
<1>1. IdsAreOwn' BY <1>0 DEF VmessInv, IdsAreOwn
<1>2. AskedOnce' BY DEF VmessInv, AskedOnce, OnceOf
<1>3. NotAskedYet' BY <1>0 DEF VmessInv, NotAskedYet
<1>4. StreamShape' BY DEF VmessInv, StreamShape, ShapeOf
<1>5. Unused' BY <1>0 DEF VmessInv, Unused, UnusedOf, Free
<1>6. ASSUME NEW d \in Callers, NEW s \in Sessions PROVE WaitOf(s, d)'
  <2>1. CASE d = c BY <1>0, <2>1 DEF WaitOf, Past
  <2>2. CASE d # c
    <3>1. call'[d] = call[d] /\ WaitOf(s, d) BY <2>2 DEF VmessInv, WaitIsOwn
    <3> QED BY <3>1 DEF WaitOf, HeaderOf, RespondOf, ReadOf, OnlyOf, Got, InStep
  <2> QED BY <2>1, <2>2
<1>7. WaitIsOwn' BY <1>6 DEF WaitIsOwn
<1>9. AtRest' BY <1>0 DEF VmessInv, AtRest, RestOf, Free, Past, Got, InStep
<1>10. Vmess!AnswersAreOwn' BY <1>0 DEF VmessInv, Vmess!AnswersAreOwn, Vmess!At
<1> QED BY <1>1, <1>2, <1>3, <1>4, <1>5, <1>7, <1>9, <1>10

LEMMA VmessLookup ==
  ASSUME NEW c \in Callers, VmessInv, Vmess!VmessAssumption, Vmess!Lookup(c) PROVE VmessInv'
<1>1. VmessType /\ call[c].at = "lookup" BY DEF VmessInv, Vmess!Lookup, Vmess!At
<1>2. /\ UNCHANGED <<fresh, drawn, response, consumed, holder, asked, sent, stream, calls>>
      /\ \/ table \in Sessions /\ call' = [call EXCEPT ![c].at = "count", ![c].session = table] /\ table' = table
         \/ table' = None /\ Vmess!Go(c, "dial")
  BY <1>1 DEF Vmess!Lookup, Vmess!counters, Vmess!server, VmessType
<1>3. PICK x \in {"count", "dial"}, q \in Sessions \cup {None} :
        /\ Moved(c, x, q, call[c].count, call[c].answer)
        /\ x = "count" => q \in Sessions
        /\ table' \in Sessions \cup {None}
  <2>1. "dial" \in Ats /\ call[c].session \in Sessions \cup {None} BY <1>1 DEF Ats, Before, VmessType, Call
  <2> QED BY <1>1, <1>2, <2>1, GoMoves, SessionMoves
<1>4. VmessType'
  BY <1>1, <1>2, <1>3 DEF VmessType, Moved, Others, Past
<1>5. StreamIsHeld' BY <1>1, <1>2, <1>3 DEF VmessInv, StreamIsHeld, Moved, Others, Past
<1>6. x \in Ats \ ({"idle", "answered"} \cup Past) /\ x \in Before /\ call[c].at \in Before
  BY <1>1 DEF Ats, Before, Past
<1> QED BY <1>2, <1>3, <1>4, <1>5, <1>6, VmessQuiet DEF VmessInv

LEMMA VmessDial ==
  ASSUME NEW c \in Callers, VmessInv, Vmess!VmessAssumption, Vmess!Dial(c) PROVE VmessInv'
<1>1. VmessType /\ call[c].at = "dial" BY DEF VmessInv, Vmess!Dial, Vmess!At
<1>2. /\ UNCHANGED <<drawn, response, consumed, holder, asked, sent, stream, calls>>
      /\ \/ Vmess!Go(c, "failed") /\ UNCHANGED <<table, fresh>>
         \/ \E s \in fresh : /\ fresh' = fresh \ {s} /\ table' = s
                             /\ call' = [call EXCEPT ![c].at = "count", ![c].session = s]
  BY <1>1 DEF Vmess!Dial, Vmess!counters, Vmess!server
<1>3. PICK x \in {"count", "failed"}, q \in Sessions \cup {None} :
        /\ Moved(c, x, q, call[c].count, call[c].answer)
        /\ x = "count" => q \in Sessions
        /\ table' \in Sessions \cup {None} /\ fresh' \subseteq Sessions
  <2>1. CASE Vmess!Go(c, "failed") /\ UNCHANGED <<table, fresh>>
    <3>1. "failed" \in Ats /\ call[c].session \in Sessions \cup {None} BY <1>1 DEF Ats, VmessType, Call
    <3>2. table' \in Sessions \cup {None} /\ fresh' \subseteq Sessions BY <1>1, <2>1 DEF VmessType
    <3> QED BY <1>1, <2>1, <3>1, <3>2, GoMoves
  <2>2. ASSUME NEW s \in fresh, fresh' = fresh \ {s}, table' = s,
               call' = [call EXCEPT ![c].at = "count", ![c].session = s]
        PROVE \E x \in {"count", "failed"}, q \in Sessions \cup {None} :
                /\ Moved(c, x, q, call[c].count, call[c].answer)
                /\ x = "count" => q \in Sessions
                /\ table' \in Sessions \cup {None} /\ fresh' \subseteq Sessions
    <3>1. s \in Sessions /\ fresh' \subseteq Sessions BY <1>1, <2>2 DEF VmessType
    <3> QED BY <1>1, <2>2, <3>1, SessionMoves
  <2> QED BY <1>2, <2>1, <2>2
<1>4. VmessType'
  BY <1>1, <1>2, <1>3 DEF VmessType, Moved, Others, Past
<1>5. StreamIsHeld' BY <1>1, <1>2, <1>3 DEF VmessInv, StreamIsHeld, Moved, Others, Past
<1>6. x \in Ats \ ({"idle", "answered"} \cup Past) /\ x \in Before \cup {"failed"} /\ call[c].at \in Before
  BY <1>1 DEF Ats, Before, Past
<1> QED BY <1>2, <1>3, <1>4, <1>5, <1>6, VmessQuiet DEF VmessInv

LEMMA VmessDrawCount ==
  ASSUME NEW c \in Callers, VmessInv, Vmess!VmessAssumption, Vmess!DrawCount(c) PROVE VmessInv'
<1>1. VmessType /\ call[c].at = "count" /\ call[c].session \in Sessions
  BY DEF VmessInv, VmessType, Vmess!DrawCount, Vmess!At
<1>2. /\ UNCHANGED <<fresh, response, consumed, holder, asked, sent, stream, calls>>
      /\ drawn' \in [Sessions -> Nat] /\ drawn[call[c].session] \in Nat
      /\ \/ /\ call' = [call EXCEPT ![c].at = "lock", ![c].count = drawn[call[c].session]]
            /\ table' = table
         \/ table' = None /\ Vmess!Go(c, "failed")
  BY <1>1 DEF Vmess!DrawCount, Vmess!server, Vmess!S, Vmess!Discard, VmessType
<1>3. PICK x \in {"lock", "failed"}, n \in Nat :
        /\ Moved(c, x, call[c].session, n, call[c].answer) /\ table' \in Sessions \cup {None}
  <2>1. "lock" \in Ats /\ "failed" \in Ats /\ call[c].count \in Nat BY <1>1 DEF Ats, Before, VmessType, Call
  <2>2. table' \in Sessions \cup {None} BY <1>1, <1>2 DEF VmessType
  <2> QED BY <1>1, <1>2, <2>1, <2>2, GoMoves, CountMoves
<1>4. VmessType'
  BY <1>1, <1>2, <1>3 DEF VmessType, Moved, Others, Past
<1>5. StreamIsHeld' BY <1>1, <1>2, <1>3 DEF VmessInv, StreamIsHeld, Moved, Others, Past
<1>6. x \in Ats \ ({"idle", "answered"} \cup Past) /\ x \in Before \cup {"failed"} /\ call[c].at \in Before
  BY <1>1 DEF Ats, Before, Past
<1> QED BY <1>2, <1>3, <1>4, <1>5, <1>6, VmessQuiet DEF VmessInv

LEMMA VmessLock ==
  ASSUME NEW c \in Callers, VmessInv, Vmess!VmessAssumption, Vmess!Lock(c) PROVE VmessInv'
<1>1. VmessType /\ call[c].at = "lock" /\ call[c].session \in Sessions /\ holder[call[c].session] = None
  BY DEF VmessInv, VmessType, Vmess!Lock, Vmess!At, Vmess!S
<1>2. /\ UNCHANGED <<table, fresh, drawn, response, consumed, asked, sent, stream, calls>>
      /\ holder' = [holder EXCEPT ![call[c].session] = c]
      /\ Vmess!Go(c, "write")
  BY <1>1 DEF Vmess!Lock, Vmess!server, Vmess!counters, Vmess!S
<1>3. Moved(c, "write", call[c].session, call[c].count, call[c].answer)
  <2>1. "write" \in Ats BY DEF Ats, Before
  <2> QED BY <1>1, <1>2, <2>1, GoMoves
<1>4. VmessType'
  BY <1>1, <1>2, <1>3 DEF VmessType, Moved, Others, Past
<1>5. StreamIsHeld'
  <2>1. \A d \in Callers \ {c} : call[d].at \in {"write"} \cup Past => call[d].session # call[c].session
    BY <1>1 DEF VmessInv, StreamIsHeld, Vmess!VmessAssumption
  <2>2. \A d \in Callers : call[d].at \in {"write"} \cup Past => call[d].session \in Sessions
    BY <1>1 DEF VmessType
  <2>3. ASSUME NEW d \in Callers, call'[d].at \in {"write"} \cup Past PROVE holder'[call'[d].session] = d
    <3>1. CASE d = c BY <3>1, <1>1, <1>2, <1>3 DEF Moved, VmessType
    <3>2. CASE d # c
      <4>1. call'[d] = call[d] BY <3>2, <1>3 DEF Moved, Others
      <4>2. holder[call[d].session] = d BY <2>3, <4>1 DEF VmessInv, StreamIsHeld
      <4> QED BY <2>1, <2>2, <2>3, <3>2, <4>1, <4>2, <1>2 DEF VmessType
    <3> QED BY <3>1, <3>2
  <2> QED BY <2>3 DEF StreamIsHeld
<1>6. "write" \in Ats \ ({"idle", "answered"} \cup Past) /\ "write" \in Before /\ call[c].at \in Before
  BY <1>1 DEF Ats, Before, Past
<1> QED BY <1>2, <1>3, <1>4, <1>5, <1>6, VmessQuiet DEF VmessInv


LEMMA VmessStart ==
  ASSUME NEW c \in Callers, VmessInv, Vmess!VmessAssumption, Vmess!Start(c) PROVE VmessInv'
<1> DEFINE r == [Vmess!Idle EXCEPT !.at = "lookup", !.id = calls + 1]
<1>1. /\ VmessType /\ call[c].at \in {"idle", "failed", "answered"} /\ calls' = calls + 1 /\ calls \in Nat
      /\ call' = [call EXCEPT ![c] = r]
      /\ UNCHANGED <<table, fresh, drawn, response, consumed, holder, asked, sent, stream>>
  BY DEF VmessInv, VmessType, Vmess!Start, Vmess!counters, Vmess!server
<1>2. r \in Call /\ r.at = "lookup" /\ r.id = calls + 1
  <2>1. Vmess!Idle \in Call BY DEF Vmess!Idle, Call, Ats
  <2>2. "lookup" \in Ats BY DEF Ats, Before
  <2>3. calls + 1 \in Nat BY <1>1
  <2> QED BY <2>1, <2>2, <2>3 DEF Call
<1> HIDE DEF r
<1>3. Others(c) /\ call'[c].at = "lookup" /\ call'[c].id = calls + 1 BY <1>1, <1>2 DEF Others, VmessType
<1>4. VmessType' BY <1>1, <1>3 DEF VmessType, Others, Past
<1>5. StreamIsHeld' BY <1>1, <1>3 DEF VmessInv, StreamIsHeld, Others, Past
<1>6. \A d \in Callers : call[d].id \in Nat /\ call[d].id <= calls BY <1>1, VmessNumbers DEF VmessInv, IdsAreOwn
<1>7. IdsAreOwn' BY <1>1, <1>3, <1>6 DEF VmessInv, IdsAreOwn, Others
<1>8. \A s \in Sessions : \A i \in 1 .. Len(stream[s]) : stream[s][i].to \in Nat
  BY <1>1, VmessNumbers DEF Chunk
<1>9. AskedOnce'
  <2>1. \A s \in Sessions : asked[s] \subseteq Nat BY <1>1 DEF VmessType
  <2> QED BY <1>1, <1>8, <2>1 DEF VmessInv, AskedOnce, OnceOf
<1>10. NotAskedYet' BY <1>1, <1>3, <1>8 DEF VmessInv, NotAskedYet, AskedOnce, OnceOf, Others
<1>11. StreamShape' BY <1>1 DEF VmessInv, StreamShape, ShapeOf
<1>12. Unused' BY <1>1, <1>3 DEF VmessInv, Unused, UnusedOf, Free, Others, Past
<1>13. ASSUME NEW d \in Callers, NEW s \in Sessions PROVE WaitOf(s, d)'
  <2>1. CASE d = c BY <1>3, <2>1 DEF WaitOf
  <2>2. CASE d # c
    <3>1. call'[d] = call[d] /\ WaitOf(s, d) BY <1>3, <2>2 DEF VmessInv, WaitIsOwn, Others
    <3> QED BY <1>1, <3>1 DEF WaitOf, HeaderOf, RespondOf, ReadOf, OnlyOf, Got, InStep
  <2> QED BY <2>1, <2>2
<1>14. AtRest' BY <1>1, <1>3 DEF VmessInv, AtRest, RestOf, Free, Past, Got, InStep, Others
<1>15. Vmess!AnswersAreOwn' BY <1>3 DEF VmessInv, Vmess!AnswersAreOwn, Vmess!At, Others
<1> QED BY <1>4, <1>5, <1>7, <1>9, <1>10, <1>11, <1>12, <1>13, <1>14, <1>15 DEF VmessInv, WaitIsOwn

LEMMA VmessStill ==
  ASSUME VmessInv,
         UNCHANGED <<table, fresh, drawn, response, consumed, holder, asked, sent, stream, call, calls>>
  PROVE VmessInv'
<1>1. VmessType' /\ StreamIsHeld' BY DEF VmessInv, VmessType, StreamIsHeld
<1>2. IdsAreOwn' /\ AskedOnce' /\ NotAskedYet' BY DEF VmessInv, IdsAreOwn, AskedOnce, OnceOf, NotAskedYet
<1>3. StreamShape' /\ Unused' BY DEF VmessInv, StreamShape, ShapeOf, Unused, UnusedOf, Free
<1>4. WaitIsOwn'
  BY DEF VmessInv, WaitIsOwn, WaitOf, HeaderOf, RespondOf, ReadOf, OnlyOf, Got, InStep
<1>5. AtRest' /\ Vmess!AnswersAreOwn'
  BY DEF VmessInv, AtRest, RestOf, Free, Got, InStep, Vmess!AnswersAreOwn, Vmess!At
<1> QED BY <1>1, <1>2, <1>3, <1>4, <1>5 DEF VmessInv

LEMMA VmessClose ==
  ASSUME NEW s \in Sessions, VmessInv, Vmess!Close(s) PROVE VmessInv'
  BY VmessStill DEF Vmess!Close, Vmess!counters

\* A step of the holder of a stream changes that session alone: what is known
\* of the other sessions and of the other calls stays.
SessionKept(s) == /\ asked'[s] = asked[s] /\ sent'[s] = sent[s] /\ stream'[s] = stream[s]
                  /\ response'[s] = response[s] /\ consumed'[s] = consumed[s]
LEMMA VmessElsewhere ==
  ASSUME VmessInv, NEW c \in Callers, NEW q \in Sessions, call[c].session = q, call[c].at \in {"write"} \cup Past,
         Others(c), call'[c].session = q, call'[c].id = call[c].id, call'[c].at # "idle", calls' = calls,
         \A s \in Sessions \ {q} : SessionKept(s)
  PROVE /\ \A d \in Callers \ {c}, s \in Sessions : WaitOf(s, d)'
        /\ \A s \in Sessions \ {q} : OnceOf(s)' /\ ShapeOf(s)' /\ UnusedOf(s)' /\ (Free(s)' => RestOf(s)')
        /\ \A d \in Callers \ {c} : call[d].session = q => call[d].at \notin Past
        /\ IdsAreOwn'
<1>1. \A d \in Callers \ {c} : call[d].session = q => call[d].at \notin Past
  BY DEF VmessInv, StreamIsHeld
<1>2. ASSUME NEW d \in Callers \ {c}, NEW s \in Sessions PROVE WaitOf(s, d)'
  <2>1. call'[d] = call[d] /\ WaitOf(s, d) BY DEF VmessInv, WaitIsOwn, Others
  <2>2. CASE s = q BY <1>1, <2>1, <2>2 DEF WaitOf, Past
  <2>3. CASE s # q
    BY <2>1, <2>3 DEF SessionKept, WaitOf, HeaderOf, RespondOf, ReadOf, OnlyOf, Got, InStep
  <2> QED BY <2>2, <2>3
<1>3. ASSUME NEW s \in Sessions \ {q}
      PROVE OnceOf(s)' /\ ShapeOf(s)' /\ UnusedOf(s)' /\ (Free(s)' => RestOf(s)')
  <2>1. SessionKept(s) OBVIOUS
  <2>2. OnceOf(s)' BY <2>1 DEF VmessInv, AskedOnce, OnceOf, SessionKept
  <2>3. ShapeOf(s)' BY <2>1 DEF VmessInv, StreamShape, ShapeOf, SessionKept
  <2>4. Free(s)' <=> Free(s) BY DEF Free, Others
  <2>5. UnusedOf(s)' BY <2>1, <2>4 DEF VmessInv, Unused, UnusedOf, SessionKept
  <2>6. Free(s) => RestOf(s) BY DEF VmessInv, AtRest
  <2>7. RestOf(s) => RestOf(s)' BY <2>1 DEF RestOf, Got, InStep, SessionKept
  <2> QED BY <2>2, <2>3, <2>4, <2>5, <2>6, <2>7
<1>4. IdsAreOwn'
  <2>1. call[c].at # "idle" BY DEF Past
  <2> QED BY <2>1 DEF VmessInv, IdsAreOwn, Others
<1> QED BY <1>1, <1>2, <1>3, <1>4


\* The caller that holds a stream leaves it.
LEMMA VmessReleased ==
  ASSUME VmessInv, Vmess!VmessAssumption, NEW c \in Callers, Others(c), call[c].at \in {"write"} \cup Past,
         call'[c].at \in {"failed", "answered"}, Vmess!Release(c)
  PROVE StreamIsHeld' /\ holder' \in [Sessions -> Callers \cup {None}]
<1>1. VmessType /\ call[c].session \in Sessions /\ holder[call[c].session] = c
  BY DEF VmessInv, VmessType, StreamIsHeld
<1>2. holder' = [holder EXCEPT ![call[c].session] = None] BY DEF Vmess!Release, Vmess!S
<1>3. holder' \in [Sessions -> Callers \cup {None}] BY <1>1, <1>2 DEF VmessType
<1>4. ASSUME NEW d \in Callers, call'[d].at \in {"write"} \cup Past PROVE holder'[call'[d].session] = d
  <2>1. d # c BY <1>4 DEF Past
  <2>2. call'[d] = call[d] BY <2>1 DEF Others
  <2>3. holder[call[d].session] = d /\ call[d].session \in Sessions
    BY <1>1, <1>4, <2>2 DEF VmessInv, StreamIsHeld, VmessType
  <2> QED BY <1>1, <1>2, <2>1, <2>2, <2>3 DEF VmessType
<1> QED BY <1>3, <1>4 DEF StreamIsHeld

\* The caller that holds a stream keeps it.
LEMMA VmessKept ==
  ASSUME VmessInv, NEW c \in Callers, Others(c), call[c].at \in {"write"} \cup Past,
         call'[c].session = call[c].session, holder' = holder
  PROVE StreamIsHeld'
  BY DEF VmessInv, StreamIsHeld, Others

LEMMA VmessWrite ==
  ASSUME NEW c \in Callers, VmessInv, Vmess!VmessAssumption, Vmess!Write(c) PROVE VmessInv'
<1>0. PICK q \in Sessions : q = call[c].session BY DEF VmessInv, VmessType, Vmess!Write, Vmess!At
<1>1. VmessType /\ call[c].at = "write" /\ q = call[c].session /\ call[c].at \in Before
  BY <1>0 DEF VmessInv, Vmess!Write, Vmess!At, Before
<1>2. UNCHANGED <<fresh, drawn, response, sent, stream, calls>> BY DEF Vmess!Write
<1>3. CASE Vmess!Release(c) /\ Vmess!Discard(c) /\ UNCHANGED <<asked, taken, broken, consumed>>
  <2>1. "failed" \in Ats BY DEF Ats
  <2>2. Moved(c, "failed", call[c].session, call[c].count, call[c].answer) /\ table' = None
    BY <1>1, <1>3, <2>1, GoMoves DEF Vmess!Discard
  <2>3. StreamIsHeld' /\ holder' \in [Sessions -> Callers \cup {None}]
    BY <1>1, <1>3, <2>2, VmessReleased DEF Moved
  <2>4. VmessType'
    <3>1. \A d \in Callers : call'[d].at \in {"count", "lock", "write"} \cup Past => call'[d].session \in Sessions
      BY <1>1, <2>2 DEF VmessType, Moved, Others, Past
    <3> QED BY <1>1, <1>2, <1>3, <2>2, <2>3, <3>1 DEF VmessType, Moved, Others
  <2>5. "failed" \in Ats \ ({"idle", "answered"} \cup Past) BY DEF Ats, Past
  <2> QED BY <1>1, <1>2, <1>3, <2>2, <2>3, <2>4, <2>5, VmessQuiet DEF VmessInv
<1>4. CASE /\ asked' = asked \/ asked' = [asked EXCEPT ![q] = @ \cup {call[c].id}]
           /\ Vmess!Go(c, IF consumed[q] THEN "respond" ELSE "header")
           /\ consumed' = [consumed EXCEPT ![q] = TRUE]
           /\ UNCHANGED <<table, holder>>
  <2> DEFINE x == IF consumed[q] THEN "respond" ELSE "header"
  <2>1. x \in Ats /\ x \in Past /\ x # "idle" /\ x \notin Before /\ x # "answered"
    BY DEF Ats, Past, Before
  <2>2. Moved(c, x, call[c].session, call[c].count, call[c].answer) BY <1>1, <1>4, <2>1, GoMoves
  <2> HIDE DEF x
  <2>3. call[c].id \in Nat /\ call[c].id > 0 /\ call[c].id <= calls /\ calls \in Nat
    BY <1>1, VmessNumbers DEF VmessInv, IdsAreOwn, VmessType
  <2>4. /\ asked' \in [Sessions -> SUBSET Nat]
        /\ \A s \in Sessions \ {q} : asked'[s] = asked[s]
        /\ asked'[q] \subseteq asked[q] \cup {call[c].id}
    <3>1. CASE asked' = asked BY <1>1, <3>1 DEF VmessType
    <3>2. CASE asked' = [asked EXCEPT ![q] = @ \cup {call[c].id}]
      <4>1. asked[q] \cup {call[c].id} \in SUBSET Nat BY <1>1, <2>3 DEF VmessType
      <4> QED BY <1>1, <3>2, <4>1 DEF VmessType
    <3> QED BY <1>4, <3>1, <3>2
  <2>5. /\ consumed' \in [Sessions -> BOOLEAN] /\ consumed'[q] = TRUE
        /\ \A s \in Sessions \ {q} : consumed'[s] = consumed[s]
    BY <1>1, <1>4 DEF VmessType
  <2>6. VmessType'
    <3>1. \A d \in Callers : call'[d].at \in {"count", "lock", "write"} \cup Past => call'[d].session \in Sessions
      BY <1>1, <2>2 DEF VmessType, Moved, Others
    <3> QED BY <1>1, <1>2, <1>4, <2>2, <2>4, <2>5, <3>1 DEF VmessType, Moved, Others
  <2>7. StreamIsHeld' BY <1>1, <1>4, <2>2, VmessKept DEF Moved
  <2>8. \A s \in Sessions \ {q} : SessionKept(s) BY <1>2, <2>4, <2>5 DEF SessionKept
  <2>9. /\ \A d \in Callers \ {c}, s \in Sessions : WaitOf(s, d)'
        /\ \A s \in Sessions \ {q} : OnceOf(s)' /\ ShapeOf(s)' /\ UnusedOf(s)' /\ (Free(s)' => RestOf(s)')
        /\ \A d \in Callers \ {c} : call[d].session = q => call[d].at \notin Past
        /\ IdsAreOwn'
    BY <1>1, <1>2, <2>1, <2>2, <2>8, VmessElsewhere DEF Moved
  <2>10. call[c].id \notin asked[q] /\ \A i \in 1 .. Len(stream[q]) : stream[q][i].to # call[c].id
    BY <1>1 DEF VmessInv, NotAskedYet
  <2>11. OnceOf(q)'
    <3>1. OnceOf(q) BY <1>1 DEF VmessInv, AskedOnce
    <3> QED BY <1>2, <2>3, <2>4, <2>10, <3>1 DEF OnceOf
  <2>12. ShapeOf(q)' BY <1>1, <1>2 DEF VmessInv, StreamShape, ShapeOf
  <2>13. UnusedOf(q)' BY <2>5 DEF UnusedOf
  <2>14. ~Free(q)' BY <1>1, <2>1, <2>2 DEF Free, Moved
  <2>15. NotAskedYet'
    <3> SUFFICES ASSUME NEW d \in Callers, NEW s \in Sessions, call'[d].at \in Before
                 PROVE /\ call'[d].id \notin asked'[s]
                       /\ \A i \in 1 .. Len(stream'[s]) : stream'[s][i].to # call'[d].id
      BY DEF NotAskedYet
    <3>1. d # c /\ call'[d] = call[d] BY <2>1, <2>2 DEF Moved, Others
    <3>2. call[d].id # call[c].id BY <2>3, <3>1 DEF VmessInv, IdsAreOwn
    <3>3. call[d].id \notin asked[s] /\ \A i \in 1 .. Len(stream[s]) : stream[s][i].to # call[d].id
      BY <3>1 DEF VmessInv, NotAskedYet
    <3> QED BY <1>2, <2>4, <3>1, <3>2, <3>3
  <2>16. RestOf(q) /\ (~consumed[q] => asked[q] = {} /\ sent[q] = 0 /\ response[q] = 0)
    <3>1. Free(q) BY <1>1, <2>9 DEF Free, Past
    <3> QED BY <1>1, <3>1 DEF VmessInv, AtRest, Unused, UnusedOf
  <2>17. WaitOf(q, c)'
    <3>1. Len(stream[q]) \in Nat /\ sent[q] \in Nat /\ response[q] \in Nat BY <1>1, VmessNumbers
    <3>2. CASE consumed[q]
      <4>1. call'[c].at = "respond" BY <3>2, <2>2 DEF Moved, x
      <4>2. RespondOf(q, c)'
        BY <1>2, <2>2, <2>4, <2>16, <3>1 DEF RespondOf, RestOf, Got, InStep, OnlyOf, Moved
      <4> QED BY <4>1, <4>2 DEF WaitOf
    <3>3. CASE ~consumed[q]
      <4>1. call'[c].at = "header" BY <3>3, <2>2 DEF Moved, x
      <4>2. ShapeOf(q) BY <1>1 DEF VmessInv, StreamShape
      <4>3. HeaderOf(q, c)'
        BY <1>2, <2>2, <2>4, <2>16, <3>1, <3>3, <4>2 DEF HeaderOf, ShapeOf, OnlyOf, Moved
      <4> QED BY <4>1, <4>3 DEF WaitOf
    <3> QED BY <3>2, <3>3
  <2>18. \A s \in Sessions \ {q} : WaitOf(s, c)' BY <1>1, <2>2 DEF WaitOf, Moved
  <2>19. WaitIsOwn' BY <2>9, <2>17, <2>18 DEF WaitIsOwn
  <2>20. AskedOnce' /\ StreamShape' /\ Unused' /\ AtRest'
    BY <2>9, <2>11, <2>12, <2>13, <2>14 DEF AskedOnce, StreamShape, Unused, AtRest
  <2>21. Vmess!AnswersAreOwn' BY <2>1, <2>2 DEF VmessInv, Vmess!AnswersAreOwn, Vmess!At, Moved, Others
  <2> QED BY <2>6, <2>7, <2>9, <2>15, <2>19, <2>20, <2>21 DEF VmessInv
<1> QED BY <1>1, <1>3, <1>4 DEF Vmess!Write, Vmess!ServerTakes, Vmess!S


\* A caller that waits on the stream of q goes on: what is left to show is of
\* that session and of that call.
LEMMA VmessSettles ==
  ASSUME VmessInv, NEW c \in Callers, NEW q \in Sessions, q = call[c].session, call[c].at \in Past,
         NEW x \in {"respond", "read", "failed", "answered"}, NEW n, NEW a, Moved(c, x, call[c].session, n, a),
         VmessType', StreamIsHeld', UNCHANGED <<asked, sent, consumed, calls>>,
         \A s \in Sessions \ {q} : stream'[s] = stream[s] /\ response'[s] = response[s],
         OnceOf(q)', ShapeOf(q)',
         \A i \in 1 .. Len(stream'[q]) : \E j \in 1 .. Len(stream[q]) : stream'[q][i] = stream[q][j],
         x = "respond" => RespondOf(q, c)', x = "read" => ReadOf(q, c)',
         x \in {"failed", "answered"} => RestOf(q)', x = "answered" => a = call[c].id
  PROVE VmessInv'
<1>1. \A s \in Sessions \ {q} : SessionKept(s) BY DEF SessionKept
<1>2. /\ \A d \in Callers \ {c}, s \in Sessions : WaitOf(s, d)'
      /\ \A s \in Sessions \ {q} : OnceOf(s)' /\ ShapeOf(s)' /\ UnusedOf(s)' /\ (Free(s)' => RestOf(s)')
      /\ \A d \in Callers \ {c} : call[d].session = q => call[d].at \notin Past
      /\ IdsAreOwn'
  BY <1>1, VmessElsewhere DEF Moved
<1>3. UnusedOf(q)'
  <2>1. ~Free(q) /\ UnusedOf(q) BY DEF VmessInv, Free, Unused
  <2> QED BY <2>1 DEF UnusedOf
<1>4. Free(q)' => RestOf(q)' BY DEF Free, Moved, Past
<1>5. NotAskedYet'
  <2> SUFFICES ASSUME NEW d \in Callers, NEW s \in Sessions, call'[d].at \in Before
               PROVE /\ call'[d].id \notin asked'[s]
                     /\ \A i \in 1 .. Len(stream'[s]) : stream'[s][i].to # call'[d].id
    BY DEF NotAskedYet
  <2>1. d # c /\ call'[d] = call[d] BY DEF Moved, Others, Before
  <2>2. call[d].id \notin asked[s] /\ \A i \in 1 .. Len(stream[s]) : stream[s][i].to # call[d].id
    BY <2>1 DEF VmessInv, NotAskedYet
  <2> QED BY <2>1, <2>2
<1>6. \A s \in Sessions : WaitOf(s, c)' BY DEF WaitOf, Moved
<1>7. WaitIsOwn' BY <1>2, <1>6 DEF WaitIsOwn
<1>8. AskedOnce' /\ StreamShape' /\ Unused' /\ AtRest'
  BY <1>2, <1>3, <1>4 DEF AskedOnce, StreamShape, Unused, AtRest
<1>9. Vmess!AnswersAreOwn' BY DEF VmessInv, Vmess!AnswersAreOwn, Vmess!At, Moved, Others
<1> QED BY <1>2, <1>5, <1>7, <1>8, <1>9 DEF VmessInv

\* The head of a stream is taken off, or nothing is.
LEMMA VmessHeadTaken ==
  ASSUME VmessInv, NEW q \in Sessions, UNCHANGED <<asked, sent, calls>>,
         \/ stream[q] # << >> /\ stream' = [stream EXCEPT ![q] = Tail(@)]
         \/ UNCHANGED stream
  PROVE /\ stream' \in [Sessions -> Seq(Chunk)] /\ \A s \in Sessions \ {q} : stream'[s] = stream[s]
        /\ OnceOf(q)' /\ ShapeOf(q)'
        /\ \A i \in 1 .. Len(stream'[q]) : \E j \in 1 .. Len(stream[q]) : stream'[q][i] = stream[q][j]
        /\ UNCHANGED stream \/ (/\ Len(stream'[q]) = Len(stream[q]) - 1 /\ Len(stream[q]) > 0
                                /\ \A i \in 1 .. Len(stream[q]) - 1 : stream'[q][i] = stream[q][i + 1])
<1>1. stream \in [Sessions -> Seq(Chunk)] /\ stream[q] \in Seq(Chunk) /\ sent[q] \in Nat
  BY DEF VmessInv, VmessType
<1>2. OnceOf(q) /\ ShapeOf(q) BY DEF VmessInv, AskedOnce, StreamShape
<1>3. CASE UNCHANGED stream BY <1>1, <1>2, <1>3 DEF OnceOf, ShapeOf
<1>4. CASE stream[q] # << >> /\ stream' = [stream EXCEPT ![q] = Tail(@)]
  <2>1. stream'[q] = Tail(stream[q]) /\ \A s \in Sessions \ {q} : stream'[s] = stream[s] BY <1>1, <1>4
  <2>2. /\ Tail(stream[q]) \in Seq(Chunk) /\ Len(Tail(stream[q])) = Len(stream[q]) - 1
        /\ Len(stream[q]) \in Nat /\ Len(stream[q]) > 0
        /\ \A i \in 1 .. Len(stream[q]) - 1 : Tail(stream[q])[i] = stream[q][i + 1]
    BY <1>1, <1>4
  <2>3. stream' \in [Sessions -> Seq(Chunk)] BY <1>1, <1>4, <2>2
  <2> DEFINE m == Len(stream[q])
  <2>4. m \in Nat /\ m > 0 /\ Len(stream'[q]) = m - 1 /\ \A i \in 1 .. m - 1 : stream'[q][i] = stream[q][i + 1]
    BY <2>1, <2>2
  <2> HIDE DEF m
  <2>5. \A i \in 1 .. m - 1 : i + 1 \in 1 .. m BY <2>4
  <2>a. m = Len(stream[q]) BY DEF m
  <2>6. OnceOf(q)'
    <3>1. ASSUME NEW i \in 1 .. Len(stream'[q])
          PROVE stream'[q][i].to <= calls /\ stream'[q][i].to \notin asked[q]
      <4>1. i + 1 \in 1 .. m /\ stream'[q][i] = stream[q][i + 1] BY <2>4, <2>5
      <4> QED BY <1>2, <2>a, <4>1 DEF OnceOf
    <3>2. ASSUME NEW i \in 1 .. Len(stream'[q]), NEW j \in 1 .. Len(stream'[q]), i # j
          PROVE stream'[q][i].to # stream'[q][j].to
      <4>1. /\ i + 1 \in 1 .. m /\ stream'[q][i] = stream[q][i + 1]
            /\ j + 1 \in 1 .. m /\ stream'[q][j] = stream[q][j + 1] /\ i + 1 # j + 1
        BY <2>4, <2>5, <3>2
      <4> QED BY <1>2, <2>a, <4>1 DEF OnceOf
    <3> QED BY <1>2, <3>1, <3>2 DEF OnceOf
  <2>7. ShapeOf(q)'
    <3>1. m <= sent[q] + 1 /\ (sent[q] = 0 => m = 0) BY <1>2, <2>a DEF ShapeOf
    <3>2. ASSUME NEW i \in 1 .. m - 1
          PROVE stream'[q][i].n = sent[q] - (m - 1) + i - 1 /\ stream'[q][i].to > 0
      <4>1. i + 1 \in 1 .. m /\ stream'[q][i] = stream[q][i + 1] /\ i + 1 # 1 BY <2>4, <2>5
      <4>2. stream[q][i + 1].n = sent[q] - m + (i + 1) - 1 /\ stream[q][i + 1].to > 0
        BY <1>2, <2>a, <4>1 DEF ShapeOf
      <4>0. \A k \in Int, y \in Int, z \in Int : k - y + (z + 1) - 1 = k - (y - 1) + z - 1 OBVIOUS
      <4>3. sent[q] - m + (i + 1) - 1 = sent[q] - (m - 1) + i - 1
        <5>1. sent[q] \in Int /\ m \in Int /\ i \in Int BY <1>1, <2>4
        <5> QED BY <4>0, <5>1
      <4> QED BY <4>1, <4>2, <4>3
    <3>3. m - 1 <= sent[q] + 1 /\ m - 1 # sent[q] + 1 /\ (sent[q] = 0 => m - 1 = 0) BY <1>1, <2>4, <3>1
    <3> QED BY <2>4, <3>2, <3>3 DEF ShapeOf
  <2> QED BY <2>1, <2>3, <2>4, <2>5, <2>6, <2>7, <2>a
<1> QED BY <1>3, <1>4

LEMMA VmessReadHeader ==
  ASSUME NEW c \in Callers, VmessInv, Vmess!VmessAssumption, Vmess!ReadHeader(c) PROVE VmessInv'
<1>0. PICK q \in Sessions : q = call[c].session BY DEF VmessInv, VmessType, Vmess!ReadHeader, Vmess!At, Past
<1>1. VmessType /\ call[c].at = "header" /\ q = call[c].session /\ call[c].at \in Past
  BY <1>0 DEF VmessInv, Vmess!ReadHeader, Vmess!At, Past
<1>2. UNCHANGED <<fresh, drawn, response, consumed, asked, sent, calls>> BY DEF Vmess!ReadHeader, Vmess!counters
<1>3. /\ stream' \in [Sessions -> Seq(Chunk)] /\ \A s \in Sessions \ {q} : stream'[s] = stream[s]
      /\ OnceOf(q)' /\ ShapeOf(q)'
      /\ \A i \in 1 .. Len(stream'[q]) : \E j \in 1 .. Len(stream[q]) : stream'[q][i] = stream[q][j]
      /\ UNCHANGED stream \/ (/\ Len(stream'[q]) = Len(stream[q]) - 1 /\ Len(stream[q]) > 0
                              /\ \A i \in 1 .. Len(stream[q]) - 1 : stream'[q][i] = stream[q][i + 1])
  BY <1>1, <1>2, VmessHeadTaken DEF Vmess!ReadHeader, Vmess!S
<1>4. HeaderOf(q, c) /\ ShapeOf(q) BY <1>1 DEF VmessInv, WaitIsOwn, WaitOf, StreamShape
<1>5. Len(stream[q]) \in Nat /\ sent[q] \in Nat /\ response[q] \in Nat /\ stream[q] \in Seq(Chunk)
  BY <1>1, VmessNumbers DEF VmessType
<1>6. CASE Vmess!Release(c) /\ Vmess!Discard(c)
  <2>1. "failed" \in Ats BY DEF Ats
  <2>2. Moved(c, "failed", call[c].session, call[c].count, call[c].answer) /\ table' = None
    BY <1>1, <1>6, <2>1, GoMoves DEF Vmess!Discard
  <2>3. StreamIsHeld' /\ holder' \in [Sessions -> Callers \cup {None}]
    BY <1>1, <1>6, <2>2, VmessReleased DEF Moved
  <2>4. VmessType'
    <3>1. \A d \in Callers : call'[d].at \in {"count", "lock", "write"} \cup Past => call'[d].session \in Sessions
      BY <1>1, <2>2 DEF VmessType, Moved, Others, Past
    <3> QED BY <1>1, <1>2, <1>3, <2>2, <2>3, <3>1 DEF VmessType, Moved, Others
  <2>5. Len(stream[q]) = 0 /\ UNCHANGED stream
    <3>1. CASE Len(stream[q]) > 0
      <4>1. stream[q][1] = Vmess!Header BY <1>4, <1>5, <3>1 DEF HeaderOf, ShapeOf
      <4>2. stream[q] # << >> /\ Head(stream[q]) = Vmess!Header BY <1>5, <3>1, <4>1
      <4>3. Vmess!Go(c, "respond") BY <1>1, <4>2 DEF Vmess!ReadHeader, Vmess!S
      <4>4. "respond" \in Ats BY DEF Ats, Past
      <4>5. Moved(c, "respond", call[c].session, call[c].count, call[c].answer) BY <1>1, <4>3, <4>4, GoMoves
      <4> QED BY <2>2, <4>5 DEF Moved
    <3> QED BY <3>1, <1>3, <1>5
  <2>6. RestOf(q)'
    BY <1>2, <1>4, <1>5, <2>5 DEF RestOf, HeaderOf, Got, InStep
  <2> QED BY <1>1, <1>2, <1>3, <2>2, <2>3, <2>4, <2>6, VmessSettles
<1>7. CASE /\ stream[q] # << >> /\ stream' = [stream EXCEPT ![q] = Tail(@)]
           /\ Vmess!Go(c, "respond") /\ UNCHANGED <<table, holder>>
  <2>1. "respond" \in Ats BY DEF Ats, Past
  <2>2. Moved(c, "respond", call[c].session, call[c].count, call[c].answer)
    BY <1>1, <1>7, <2>1, GoMoves
  <2>3. StreamIsHeld' BY <1>1, <1>7, <2>2, VmessKept DEF Moved
  <2>4. VmessType'
    <3>1. \A d \in Callers : call'[d].at \in {"count", "lock", "write"} \cup Past => call'[d].session \in Sessions
      BY <1>1, <2>2 DEF VmessType, Moved, Others
    <3> QED BY <1>1, <1>2, <1>3, <1>7, <2>2, <3>1 DEF VmessType, Moved, Others
  <2>5. Len(stream'[q]) = Len(stream[q]) - 1 /\ Len(stream[q]) > 0
    <3>1. stream'[q] = Tail(stream[q]) BY <1>1, <1>7 DEF VmessType
    <3>2. Len(Tail(stream[q])) = Len(stream[q]) - 1 /\ Len(stream[q]) > 0 BY <1>5, <1>7
    <3> QED BY <3>1, <3>2
  <2>6. sent[q] > 0 /\ Len(stream[q]) = sent[q] + 1 BY <1>4, <1>5, <2>5 DEF HeaderOf, ShapeOf
  <2>7. OnlyOf(q, c)'
    BY <1>2, <1>3, <1>4, <2>2 DEF HeaderOf, OnlyOf, Moved
  <2>8. RespondOf(q, c)'
    BY <1>2, <1>4, <1>5, <2>5, <2>6, <2>7 DEF RespondOf, HeaderOf, Got
  <2> QED BY <1>1, <1>2, <1>3, <2>2, <2>3, <2>4, <2>8, VmessSettles
<1> QED BY <1>1, <1>6, <1>7 DEF Vmess!ReadHeader, Vmess!S

LEMMA VmessDrawResponse ==
  ASSUME NEW c \in Callers, VmessInv, Vmess!VmessAssumption, Vmess!DrawResponse(c) PROVE VmessInv'
<1>0. PICK q \in Sessions : q = call[c].session BY DEF VmessInv, VmessType, Vmess!DrawResponse, Vmess!At, Past
<1>1. VmessType /\ call[c].at = "respond" /\ q = call[c].session /\ call[c].at \in Past
  BY <1>0 DEF VmessInv, Vmess!DrawResponse, Vmess!At, Past
<1>2. UNCHANGED <<fresh, drawn, consumed, asked, sent, stream, calls>> BY DEF Vmess!DrawResponse, Vmess!server
<1>3. Len(stream[q]) \in Nat /\ sent[q] \in Nat /\ response[q] \in Nat BY <1>1, VmessNumbers
<1>4. response' = [response EXCEPT ![q] = response[q] + 1] BY <1>1 DEF Vmess!DrawResponse, Vmess!S
<1>5. /\ response' \in [Sessions -> Nat] /\ response'[q] = response[q] + 1
      /\ \A s \in Sessions \ {q} : stream'[s] = stream[s] /\ response'[s] = response[s]
  BY <1>1, <1>2, <1>3, <1>4 DEF VmessType
<1>6. RespondOf(q, c) BY <1>1 DEF VmessInv, WaitIsOwn, WaitOf
<1>7. /\ OnceOf(q)' /\ ShapeOf(q)'
      /\ \A i \in 1 .. Len(stream'[q]) : \E j \in 1 .. Len(stream[q]) : stream'[q][i] = stream[q][j]
  BY <1>2, VmessHeadTaken
<1>8. CASE Vmess!Release(c) /\ Vmess!Discard(c)
  <2>1. "failed" \in Ats BY DEF Ats
  <2>2. Moved(c, "failed", call[c].session, call[c].count, call[c].answer) /\ table' = None
    BY <1>1, <1>8, <2>1, GoMoves DEF Vmess!Discard
  <2>3. StreamIsHeld' /\ holder' \in [Sessions -> Callers \cup {None}]
    BY <1>1, <1>8, <2>2, VmessReleased DEF Moved
  <2>4. VmessType'
    <3>1. \A d \in Callers : call'[d].at \in {"count", "lock", "write"} \cup Past => call'[d].session \in Sessions
      BY <1>1, <2>2 DEF VmessType, Moved, Others, Past
    <3> QED BY <1>1, <1>2, <1>5, <2>2, <2>3, <3>1 DEF VmessType, Moved, Others
  <2>5. RestOf(q)' BY <1>2, <1>3, <1>5, <1>6 DEF RestOf, RespondOf, Got
  <2> QED BY <1>1, <1>2, <1>5, <1>7, <2>2, <2>3, <2>4, <2>5, VmessSettles
<1>9. CASE /\ call' = [call EXCEPT ![c].at = "read", ![c].count = response[q]]
           /\ UNCHANGED <<table, holder>>
  <2>1. "read" \in Ats BY DEF Ats, Past
  <2>2. Moved(c, "read", call[c].session, response[q], call[c].answer)
    BY <1>1, <1>3, <1>9, <2>1, CountMoves
  <2>3. StreamIsHeld' BY <1>1, <1>9, <2>2, VmessKept DEF Moved
  <2>4. VmessType'
    <3>1. \A d \in Callers : call'[d].at \in {"count", "lock", "write"} \cup Past => call'[d].session \in Sessions
      BY <1>1, <2>2 DEF VmessType, Moved, Others, Past
    <3> QED BY <1>1, <1>2, <1>5, <1>9, <2>2, <3>1 DEF VmessType, Moved, Others
  <2>5. ReadOf(q, c)'
    BY <1>2, <1>3, <1>5, <1>6, <2>2 DEF ReadOf, RespondOf, Got, InStep, OnlyOf, Moved
  <2> QED BY <1>1, <1>2, <1>5, <1>7, <2>2, <2>3, <2>4, <2>5, VmessSettles
<1> QED BY <1>1, <1>8, <1>9 DEF Vmess!DrawResponse, Vmess!S


LEMMA VmessReadChunk ==
  ASSUME NEW c \in Callers, VmessInv, Vmess!VmessAssumption, Vmess!ReadChunk(c) PROVE VmessInv'
<1>0. PICK q \in Sessions : q = call[c].session BY DEF VmessInv, VmessType, Vmess!ReadChunk, Vmess!At, Past
<1>1. VmessType /\ call[c].at = "read" /\ q = call[c].session /\ call[c].at \in Past
  BY <1>0 DEF VmessInv, Vmess!ReadChunk, Vmess!At, Past
<1>2. /\ UNCHANGED <<fresh, drawn, response, consumed, asked, sent, calls>>
      /\ \/ stream[q] # << >> /\ stream' = [stream EXCEPT ![q] = Tail(@)]
         \/ stream[q] = << >> /\ UNCHANGED stream
      /\ Vmess!Release(c)
  BY <1>1 DEF Vmess!ReadChunk, Vmess!counters, Vmess!S
<1>a. /\ UNCHANGED <<fresh, drawn, response, consumed, asked, sent, calls>> /\ Vmess!Release(c)
      /\ sent'[q] = sent[q] /\ response'[q] = response[q]
  BY <1>2
<1>3. /\ stream' \in [Sessions -> Seq(Chunk)] /\ \A s \in Sessions \ {q} : stream'[s] = stream[s]
      /\ OnceOf(q)' /\ ShapeOf(q)'
      /\ \A i \in 1 .. Len(stream'[q]) : \E j \in 1 .. Len(stream[q]) : stream'[q][i] = stream[q][j]
  BY <1>2, VmessHeadTaken
<1>4. ReadOf(q, c) /\ ShapeOf(q) /\ OnceOf(q)
  BY <1>1 DEF VmessInv, WaitIsOwn, WaitOf, StreamShape, AskedOnce
<1>5. /\ Len(stream[q]) \in Nat /\ sent[q] \in Nat /\ response[q] \in Nat /\ stream[q] \in Seq(Chunk)
      /\ call[c].count \in Nat /\ call[c].id \in Nat
  BY <1>1, VmessNumbers DEF VmessType
<1>6. \/ Len(stream[q]) > 0 /\ Len(stream'[q]) = Len(stream[q]) - 1 /\ Head(stream[q]) = stream[q][1]
         /\ stream[q] # << >>
      \/ Len(stream[q]) = 0 /\ stream'[q] = stream[q] /\ stream[q] = << >>
  <2>1. CASE stream[q] # << >> /\ stream' = [stream EXCEPT ![q] = Tail(@)]
    <3>1. stream'[q] = Tail(stream[q]) BY <1>1, <2>1 DEF VmessType
    <3>2. Len(Tail(stream[q])) = Len(stream[q]) - 1 /\ Len(stream[q]) > 0 /\ Head(stream[q]) = stream[q][1]
      BY <1>5, <2>1
    <3> QED BY <2>1, <3>1, <3>2
  <2>2. CASE stream[q] = << >> /\ UNCHANGED stream BY <1>5, <2>2
  <2> QED BY <1>2, <2>1, <2>2
<1>7. CASE Vmess!Discard(c) /\ (stream[q] = << >> \/ ~Vmess!Opens(stream[q][1], call[c].count))
  <2>1. "failed" \in Ats BY DEF Ats
  <2>2. Moved(c, "failed", call[c].session, call[c].count, call[c].answer) /\ table' = None
    BY <1>1, <1>7, <2>1, GoMoves DEF Vmess!Discard
  <2>3. StreamIsHeld' /\ holder' \in [Sessions -> Callers \cup {None}]
    BY <1>1, <1>2, <2>2, VmessReleased DEF Moved
  <2>4. VmessType'
    <3>1. \A d \in Callers : call'[d].at \in {"count", "lock", "write"} \cup Past => call'[d].session \in Sessions
      BY <1>1, <2>2 DEF VmessType, Moved, Others
    <3> QED BY <1>1, <1>a, <1>3, <2>2, <2>3, <3>1 DEF VmessType, Moved, Others
  <2>5. RestOf(q)'
    <3>1. CASE Len(stream[q]) = 0
      BY <1>2, <1>4, <1>5, <1>6, <3>1 DEF RestOf, ReadOf, Got
    <3>2. CASE Len(stream[q]) > 0 /\ Len(stream[q]) = sent[q] + 1
      BY <1>2, <1>4, <1>5, <1>6, <3>2 DEF RestOf, ReadOf, Got
    <3>3. CASE Len(stream[q]) > 0 /\ Len(stream[q]) # sent[q] + 1
      <4>1. stream[q][1].n = sent[q] - Len(stream[q]) + 1 - 1 /\ stream[q][1].to > 0
        BY <1>4, <1>5, <3>3 DEF ShapeOf
      <4>2. stream[q][1].n = Got(q) BY <1>5, <4>1 DEF Got
      <4>3. stream[q][1] # Vmess!Header BY <4>1 DEF Vmess!Header
      <4>4. Got(q) # call[c].count BY <1>5, <1>6, <1>7, <3>3, <4>2, <4>3 DEF Vmess!Opens
      <4>5. Len(stream'[q]) = Len(stream[q]) - 1 BY <1>5, <1>6, <3>3
      <4>6. response[q] = call[c].count + 1 /\ Got(q) < call[c].count
        BY <1>4, <1>5, <4>4 DEF ReadOf, Got
      <4>7. Got(q)' = Got(q) + 1 /\ Got(q) \in Int BY <1>a, <1>5, <4>5 DEF Got
      <4>8. Got(q)' < response'[q] BY <1>a, <1>5, <4>6, <4>7
      <4>9. Got(q)' \in Int /\ response'[q] \in Int BY <1>a, <1>5, <4>7
      <4> QED BY <4>8, <4>9 DEF RestOf
    <3> QED BY <3>1, <3>2, <3>3, <1>5
  <2> QED BY <1>1, <1>2, <1>3, <2>2, <2>3, <2>4, <2>5, VmessSettles
<1>8. CASE /\ stream[q] # << >> /\ Vmess!Opens(stream[q][1], call[c].count)
           /\ call' = [call EXCEPT ![c].at = "answered", ![c].answer = stream[q][1].to] /\ UNCHANGED table
  <2> DEFINE m == Len(stream[q])
  <2>1. m > 0 /\ Len(stream'[q]) = m - 1 /\ 1 \in 1 .. m /\ stream[q][1] \in Chunk BY <1>5, <1>6, <1>8
  <2>2. stream[q][1].to \in Nat BY <2>1 DEF Chunk
  <2>3. Moved(c, "answered", call[c].session, call[c].count, stream[q][1].to)
    BY <1>1, <1>8, <2>2, AnswerMoves
  <2>4. StreamIsHeld' /\ holder' \in [Sessions -> Callers \cup {None}]
    BY <1>1, <1>2, <2>3, VmessReleased DEF Moved
  <2>5. VmessType'
    <3>1. \A d \in Callers : call'[d].at \in {"count", "lock", "write"} \cup Past => call'[d].session \in Sessions
      BY <1>1, <2>3 DEF VmessType, Moved, Others, Past
    <3> QED BY <1>1, <1>2, <1>3, <1>8, <2>3, <2>4, <3>1 DEF VmessType, Moved, Others
  <2>6. m # sent[q] + 1 BY <1>4, <1>8, <2>1 DEF ShapeOf, Vmess!Opens
  <2>7. stream[q][1].n = sent[q] - m + 1 - 1 /\ stream[q][1].to > 0 BY <1>4, <2>1, <2>6 DEF ShapeOf
  <2>8. m <= sent[q] BY <1>4, <1>5, <2>6 DEF ShapeOf
  <2>9. Got(q) = call[c].count /\ InStep(q)
    BY <1>5, <1>8, <2>1, <2>7, <2>8 DEF Got, InStep, Vmess!Opens
  <2>10. OnlyOf(q, c) BY <1>4, <2>9 DEF ReadOf
  <2>11. stream[q][1].to = call[c].id BY <2>1, <2>7, <2>10 DEF OnlyOf
  <2>12. asked[q] = {} BY <1>4, <2>1, <2>10, <2>11 DEF OnceOf, OnlyOf
  <2>13. m = 1
    <3>1. ASSUME m > 1 PROVE FALSE
      <4>1. 2 \in 1 .. m BY <1>5, <3>1
      <4>2. stream[q][2].to > 0 BY <1>4, <4>1 DEF ShapeOf
      <4>3. stream[q][2].to = call[c].id BY <2>10, <4>1, <4>2 DEF OnlyOf
      <4> QED BY <1>4, <2>1, <2>11, <4>1, <4>3 DEF OnceOf
    <3>2. m \in Nat BY <1>5
    <3> HIDE DEF m
    <3> QED BY <3>1, <3>2, <2>1
  <2>14. RestOf(q)'
    BY <1>2, <1>4, <1>5, <2>1, <2>9, <2>12, <2>13 DEF RestOf, ReadOf, Got
  <2> QED BY <1>1, <1>2, <1>3, <2>3, <2>4, <2>5, <2>11, <2>14, VmessSettles
<1> QED BY <1>1, <1>5, <1>6, <1>7, <1>8 DEF Vmess!ReadChunk, Vmess!S

\* One more on both sides.
LEMMA OneMoreEach ==
  ASSUME NEW a \in Nat, NEW b \in Nat
  PROVE /\ (a + 1) - (b + 1) = a - b /\ b + 1 \in Nat /\ a + 1 \in Nat /\ a + 1 > 0
        /\ (b + 1 <= a + 1 => b <= a) /\ (b = a + 1 => b + 1 = (a + 1) + 1)
  OBVIOUS

\* The server seals one more answer, and the header before the first.
LEMMA VmessAnswer ==
  ASSUME NEW q \in Sessions, VmessInv, Vmess!Answer(q) PROVE VmessInv'
<1> DEFINE front == IF sent[q] = 0 THEN <<Vmess!Header>> ELSE << >>
<1>1. PICK id \in asked[q] :
        /\ asked' = [asked EXCEPT ![q] = asked[q] \ {id}]
        /\ stream' = [stream EXCEPT ![q] = stream[q] \o front \o <<[n |-> sent[q], to |-> id]>>]
        /\ sent' = [sent EXCEPT ![q] = sent[q] + 1]
  BY DEF Vmess!Answer
<1>2. VmessType /\ UNCHANGED <<table, fresh, drawn, response, consumed, holder, call, calls>>
  BY DEF VmessInv, Vmess!Answer, Vmess!counters
<1>3. /\ id \in Nat /\ id > 0 /\ id <= calls /\ calls \in Nat /\ OnceOf(q) /\ ShapeOf(q)
      /\ stream[q] \in Seq(Chunk) /\ Len(stream[q]) \in Nat /\ sent[q] \in Nat /\ response[q] \in Nat
  <2>1. OnceOf(q) /\ ShapeOf(q) BY DEF VmessInv, AskedOnce, StreamShape
  <2>2. asked[q] \subseteq Nat /\ calls \in Nat /\ stream[q] \in Seq(Chunk) /\ sent[q] \in Nat /\ response[q] \in Nat
    BY <1>2 DEF VmessType
  <2>3. id > 0 /\ id <= calls BY <2>1 DEF OnceOf
  <2> QED BY <2>1, <2>2, <2>3
<1>4. /\ asked' \in [Sessions -> SUBSET Nat] /\ asked'[q] = asked[q] \ {id}
      /\ \A s \in Sessions \ {q} : asked'[s] = asked[s]
  BY <1>1, <1>2, <1>3 DEF VmessType
<1>5. sent' \in [Sessions -> Nat] /\ sent'[q] = sent[q] + 1 /\ \A s \in Sessions \ {q} : sent'[s] = sent[s]
  BY <1>1, <1>2, <1>3 DEF VmessType
<1>6. PICK new \in Chunk : new = [n |-> sent[q], to |-> id] BY <1>3 DEF Chunk
<1>7. new.n = sent[q] /\ new.to = id BY <1>6
<1>8. /\ stream' \in [Sessions -> Seq(Chunk)] /\ \A s \in Sessions \ {q} : stream'[s] = stream[s]
      /\ sent[q] = 0 => Len(stream'[q]) = 2 /\ stream'[q][1] = Vmess!Header /\ stream'[q][2] = new
      /\ sent[q] > 0 => /\ Len(stream'[q]) = Len(stream[q]) + 1 /\ stream'[q][Len(stream[q]) + 1] = new
                        /\ \A i \in 1 .. Len(stream[q]) : stream'[q][i] = stream[q][i]
  <2>1. stream' = [stream EXCEPT ![q] = stream[q] \o front \o <<new>>] BY <1>1, <1>6
  <2>2. CASE sent[q] = 0
    <3>1. stream[q] = << >> BY <1>3, <2>2, EmptySeq DEF ShapeOf
    <3>2. front = <<Vmess!Header>> /\ Vmess!Header \in Chunk BY <2>2 DEF Vmess!Header, Chunk
    <3>3. << >> \o <<Vmess!Header>> = <<Vmess!Header>> /\ <<Vmess!Header>> \in Seq(Chunk) /\ <<new>> \in Seq(Chunk)
      BY <3>2
    <3>4. stream' = [stream EXCEPT ![q] = <<Vmess!Header>> \o <<new>>] BY <2>1, <3>1, <3>2, <3>3
    <3>5. /\ <<Vmess!Header>> \o <<new>> \in Seq(Chunk) /\ Len(<<Vmess!Header>> \o <<new>>) = 2
          /\ (<<Vmess!Header>> \o <<new>>)[1] = Vmess!Header /\ (<<Vmess!Header>> \o <<new>>)[2] = new
      BY <3>3
    <3>6. stream'[q] = <<Vmess!Header>> \o <<new>> /\ stream' \in [Sessions -> Seq(Chunk)]
          /\ \A s \in Sessions \ {q} : stream'[s] = stream[s]
      BY <1>2, <3>4, <3>5 DEF VmessType
    <3> QED BY <2>2, <3>5, <3>6
  <2>3. CASE sent[q] > 0
    <3>1. front = << >> BY <1>3, <2>3
    <3>2. stream[q] \o << >> \o <<new>> = Append(stream[q], new) BY <1>3
    <3>3. stream' = [stream EXCEPT ![q] = Append(stream[q], new)] BY <2>1, <3>1, <3>2
    <3>4. Append(stream[q], new) \in Seq(Chunk) BY <1>3
    <3>5. stream'[q] = Append(stream[q], new) /\ stream' \in [Sessions -> Seq(Chunk)]
          /\ \A s \in Sessions \ {q} : stream'[s] = stream[s]
      BY <1>2, <3>3, <3>4 DEF VmessType
    <3> QED BY <1>3, <2>3, <3>5
  <2> QED BY <1>3, <2>2, <2>3
<1> HIDE DEF front
<1> DEFINE m == Len(stream[q])
<1>9. /\ m \in Nat /\ Vmess!Header.to = 0 /\ \A s \in Sessions \ {q} : SessionKept(s)
      /\ sent[q] = 0 => m = 0
  BY <1>2, <1>3, <1>4, <1>5, <1>8 DEF Vmess!Header, SessionKept, ShapeOf
<1>10. \A i \in 1 .. Len(stream'[q]) :
         \/ stream'[q][i].to = 0 /\ sent[q] = 0 /\ i = 1
         \/ stream'[q][i].to = id /\ i = Len(stream'[q])
         \/ sent[q] > 0 /\ i \in 1 .. m /\ stream'[q][i] = stream[q][i]
  <2>1. CASE sent[q] = 0
    <3>1. Len(stream'[q]) = 2 /\ stream'[q][1].to = 0 /\ stream'[q][2].to = id BY <1>7, <1>8, <1>9, <2>1
    <3>2. \A i \in 1 .. 2 : i = 1 \/ i = 2 OBVIOUS
    <3> QED BY <2>1, <3>1, <3>2
  <2>2. CASE sent[q] > 0 BY <1>7, <1>8, <1>9, <2>2
  <2> QED BY <1>3, <2>1, <2>2
<1>11. /\ \A x \in asked[q] : x > 0 /\ x <= calls
       /\ \A i \in 1 .. m : stream[q][i].to <= calls /\ stream[q][i].to \notin asked[q]
       /\ \A i, j \in 1 .. m : i # j => stream[q][i].to # stream[q][j].to
  BY <1>3 DEF OnceOf
<1>12. /\ m <= sent[q] + 1 
       /\ \A i \in 1 .. m : IF i = 1 /\ m = sent[q] + 1 THEN stream[q][i] = Vmess!Header
                            ELSE stream[q][i].n = sent[q] - m + i - 1 /\ stream[q][i].to > 0
  BY <1>3 DEF ShapeOf
<1>13. OnceOf(q)'
  <2>1. \A x \in asked'[q] : x > 0 /\ x <= calls' BY <1>2, <1>4, <1>11
  <2>2. \A i \in 1 .. Len(stream'[q]) : stream'[q][i].to <= calls' /\ stream'[q][i].to \notin asked'[q]
    BY <1>2, <1>3, <1>4, <1>10, <1>11
  <2>3. \A i, j \in 1 .. Len(stream'[q]) : i # j => stream'[q][i].to # stream'[q][j].to
    <3> SUFFICES ASSUME NEW i \in 1 .. Len(stream'[q]), NEW j \in 1 .. Len(stream'[q]), i # j
                 PROVE stream'[q][i].to # stream'[q][j].to
      OBVIOUS
    <3>1. id # 0 /\ \A k \in 1 .. m : stream[q][k].to # id BY <1>3, <1>11
    <3>2. CASE sent[q] = 0 BY <1>10, <3>1, <3>2
    <3>3. CASE sent[q] > 0
      <4>1. \/ stream'[q][i].to = id /\ i = Len(stream'[q])
            \/ i \in 1 .. m /\ stream'[q][i] = stream[q][i]
        BY <1>3, <1>10, <3>3
      <4>2. \/ stream'[q][j].to = id /\ j = Len(stream'[q])
            \/ j \in 1 .. m /\ stream'[q][j] = stream[q][j]
        BY <1>3, <1>10, <3>3
      <4> QED BY <1>11, <3>1, <4>1, <4>2
    <3> QED BY <1>3, <3>2, <3>3
  <2> QED BY <2>1, <2>2, <2>3 DEF OnceOf
<1>14. ShapeOf(q)'
  <2>1. CASE sent[q] = 0
    <3>1. sent'[q] = 1 /\ Len(stream'[q]) = 2 /\ stream'[q][1] = Vmess!Header /\ stream'[q][2].n = 0
          /\ stream'[q][2].to > 0
      BY <1>3, <1>5, <1>7, <1>8, <2>1
    <3>2. \A i \in 1 .. 2 : i = 1 \/ i = 2 OBVIOUS
    <3>3. \A i \in 1 .. 2 : IF i = 1 /\ 2 = 1 + 1 THEN stream'[q][i] = Vmess!Header
                            ELSE stream'[q][i].n = 1 - 2 + i - 1 /\ stream'[q][i].to > 0
      BY <3>1, <3>2
    <3> QED BY <3>1, <3>3 DEF ShapeOf
  <2>2. CASE sent[q] > 0
    <3>1. sent'[q] = sent[q] + 1 /\ Len(stream'[q]) = m + 1 BY <1>5, <1>8, <2>2
    <3>2. ASSUME NEW i \in 1 .. m + 1
          PROVE IF i = 1 /\ m + 1 = (sent[q] + 1) + 1 THEN stream'[q][i] = Vmess!Header
                ELSE stream'[q][i].n = (sent[q] + 1) - (m + 1) + i - 1 /\ stream'[q][i].to > 0
      <4>1. CASE i \in 1 .. m
        <5>1. stream'[q][i] = stream[q][i] BY <1>8, <2>2, <4>1
        <5>2. (sent[q] + 1) - (m + 1) + i - 1 = sent[q] - m + i - 1 BY <1>3, <1>9, <4>1
        <5>3. m + 1 = (sent[q] + 1) + 1 <=> m = sent[q] + 1 BY <1>3, <1>9
        <5> QED BY <1>12, <4>1, <5>1, <5>2, <5>3
      <4>2. CASE i = m + 1
        <5>1. stream'[q][i] = new BY <1>8, <2>2, <4>2
        <5>2. (sent[q] + 1) - (m + 1) + (m + 1) - 1 = sent[q] BY <1>3, <1>9
        <5>3. ~(i = 1 /\ m + 1 = (sent[q] + 1) + 1) BY <1>3, <1>9, <2>2, <4>2
        <5> QED BY <1>3, <1>7, <4>2, <5>1, <5>2, <5>3
      <4> QED BY <1>9, <4>1, <4>2
    <3>3. m + 1 <= (sent[q] + 1) + 1 /\ sent[q] + 1 # 0 BY <1>3, <1>9, <1>12
    <3> HIDE DEF m
    <3> QED BY <3>1, <3>2, <3>3 DEF ShapeOf
  <2> QED BY <1>3, <2>1, <2>2
<1>15. UnusedOf(q)'
  <2>1. UnusedOf(q) /\ id \in asked[q] BY DEF VmessInv, Unused
  <2> QED BY <1>2, <2>1 DEF UnusedOf
<1>16. /\ Len(stream'[q]) \in Nat /\ sent'[q] \in Nat /\ sent'[q] > 0
       /\ sent[q] = 0 => Got(q)' = -1 /\ ~InStep(q)' /\ Len(stream'[q]) = sent'[q] + 1
       /\ sent[q] > 0 => /\ Got(q)' = Got(q) /\ (InStep(q)' => InStep(q))
                         /\ m = sent[q] + 1 => Len(stream'[q]) = sent'[q] + 1
  <2>1. CASE sent[q] = 0
    <3>1. sent'[q] = 1 /\ Len(stream'[q]) = 2 BY <1>5, <1>8, <2>1
    <3> QED BY <2>1, <3>1 DEF Got, InStep
  <2>2. CASE sent[q] > 0
    <3>1. sent'[q] = sent[q] + 1 /\ Len(stream'[q]) = m + 1 BY <1>5, <1>8, <2>2
    <3>2. /\ (sent[q] + 1) - (m + 1) = sent[q] - m /\ m + 1 \in Nat /\ sent[q] + 1 \in Nat /\ sent[q] + 1 > 0
          /\ (m + 1 <= sent[q] + 1 => m <= sent[q]) /\ (m = sent[q] + 1 => m + 1 = (sent[q] + 1) + 1)
      BY <1>3, <1>9, OneMoreEach
    <3> QED BY <2>2, <3>1, <3>2 DEF Got, InStep
  <2> QED BY <1>3, <2>1, <2>2
<1>17. ASSUME NEW c \in Callers, OnlyOf(q, c) PROVE OnlyOf(q, c)'
  <2>1. id = call[c].id BY <1>17 DEF OnlyOf
  <2> QED BY <1>2, <1>4, <1>10, <1>17, <2>1 DEF OnlyOf
<1>18. ASSUME NEW c \in Callers, HeaderOf(q, c) PROVE HeaderOf(q, c)'
  BY <1>2, <1>3, <1>16, <1>17, <1>18 DEF HeaderOf
<1>19. Got(q) \in Int /\ \A c \in Callers : call[c].count \in Nat BY <1>2, <1>3, VmessNumbers DEF Got
<1>20. ASSUME NEW c \in Callers, RespondOf(q, c) PROVE RespondOf(q, c)'
  BY <1>2, <1>3, <1>16, <1>17, <1>19, <1>20 DEF RespondOf
<1>21. ASSUME NEW c \in Callers, ReadOf(q, c) PROVE ReadOf(q, c)'
  BY <1>2, <1>3, <1>16, <1>17, <1>19, <1>21 DEF ReadOf
<1>22. ASSUME RestOf(q) PROVE RestOf(q)'
  BY <1>2, <1>3, <1>16, <1>19, <1>22 DEF RestOf
<1>23. ASSUME NEW s \in Sessions \ {q}
       PROVE /\ OnceOf(s)' /\ ShapeOf(s)' /\ UnusedOf(s)' /\ (RestOf(s) => RestOf(s)')
             /\ \A c \in Callers : WaitOf(s, c)'
  <2>1. SessionKept(s) BY <1>9
  <2>2. OnceOf(s)' /\ ShapeOf(s)'
    <3>1. OnceOf(s) /\ ShapeOf(s) BY DEF VmessInv, AskedOnce, StreamShape
    <3>2. OnceOf(s)' BY <1>2, <2>1, <3>1 DEF OnceOf, SessionKept
    <3>3. ShapeOf(s)' BY <2>1, <3>1 DEF ShapeOf, SessionKept
    <3> QED BY <3>2, <3>3
  <2>3. UnusedOf(s)' BY <1>2, <2>1 DEF VmessInv, Unused, UnusedOf, SessionKept, Free
  <2>4. RestOf(s) => RestOf(s)' BY <2>1 DEF RestOf, Got, InStep, SessionKept
  <2>5. \A c \in Callers : WaitOf(s, c)'
    BY <1>2, <2>1 DEF VmessInv, WaitIsOwn, WaitOf, HeaderOf, RespondOf, ReadOf, OnlyOf, Got, InStep, SessionKept
  <2> QED BY <2>2, <2>3, <2>4, <2>5
<1>24. \A c \in Callers : WaitOf(q, c)'
  <2>1. \A c \in Callers : WaitOf(q, c) BY DEF VmessInv, WaitIsOwn
  <2> QED BY <1>2, <1>18, <1>20, <1>21, <2>1 DEF WaitOf
<1>25. WaitIsOwn' BY <1>23, <1>24 DEF WaitIsOwn
<1>26. AtRest'
  <2>1. \A s \in Sessions : Free(s)' => Free(s) BY <1>2 DEF Free
  <2> QED BY <1>22, <1>23, <2>1 DEF AtRest, VmessInv
<1>27. AskedOnce' /\ StreamShape' /\ Unused'
  BY <1>13, <1>14, <1>15, <1>23 DEF AskedOnce, StreamShape, Unused
<1>28. NotAskedYet'
  <2> SUFFICES ASSUME NEW c \in Callers, NEW s \in Sessions, call'[c].at \in Before
               PROVE /\ call'[c].id \notin asked'[s]
                     /\ \A i \in 1 .. Len(stream'[s]) : stream'[s][i].to # call'[c].id
    BY DEF NotAskedYet
  <2>1. /\ call[c].at \in Before /\ call'[c].id = call[c].id /\ call[c].id # 0
        /\ call[c].id \notin asked[s] /\ \A i \in 1 .. Len(stream[s]) : stream[s][i].to # call[c].id
    <3>1. call[c].at \in Before BY <1>2
    <3>2. call[c].id > 0 /\ call[c].id \in Nat BY <1>2, <3>1, VmessNumbers DEF VmessInv, IdsAreOwn, Before
    <3> QED BY <1>2, <3>1, <3>2 DEF VmessInv, NotAskedYet
  <2>2. CASE s = q BY <1>4, <1>10, <2>1, <2>2
  <2>3. CASE s # q BY <1>9, <2>1, <2>3 DEF SessionKept
  <2> QED BY <2>2, <2>3
<1>29. VmessType' /\ StreamIsHeld' /\ IdsAreOwn' /\ Vmess!AnswersAreOwn'
  <2>1. VmessType' BY <1>2, <1>4, <1>5, <1>8 DEF VmessType
  <2>2. StreamIsHeld' /\ IdsAreOwn' BY <1>2 DEF VmessInv, StreamIsHeld, IdsAreOwn
  <2>3. Vmess!AnswersAreOwn' BY <1>2 DEF VmessInv, Vmess!AnswersAreOwn, Vmess!At
  <2> QED BY <2>1, <2>2, <2>3
<1> QED BY <1>25, <1>26, <1>27, <1>28, <1>29 DEF VmessInv

LEMMA VmessNext ==
  ASSUME VmessInv, Vmess!VmessAssumption, [Vmess!Next]_(Vmess!vars) PROVE VmessInv'
<1>1. CASE UNCHANGED Vmess!vars BY <1>1, VmessStill DEF Vmess!vars
<1>2. ASSUME NEW c \in Callers, Vmess!Start(c) PROVE VmessInv' BY <1>2, VmessStart
<1>3. ASSUME NEW c \in Callers, Vmess!Lookup(c) PROVE VmessInv' BY <1>3, VmessLookup
<1>4. ASSUME NEW c \in Callers, Vmess!Dial(c) PROVE VmessInv' BY <1>4, VmessDial
<1>5. ASSUME NEW c \in Callers, Vmess!DrawCount(c) PROVE VmessInv' BY <1>5, VmessDrawCount
<1>6. ASSUME NEW c \in Callers, Vmess!Lock(c) PROVE VmessInv' BY <1>6, VmessLock
<1>7. ASSUME NEW c \in Callers, Vmess!Write(c) PROVE VmessInv' BY <1>7, VmessWrite
<1>8. ASSUME NEW c \in Callers, Vmess!ReadHeader(c) PROVE VmessInv' BY <1>8, VmessReadHeader
<1>9. ASSUME NEW c \in Callers, Vmess!DrawResponse(c) PROVE VmessInv' BY <1>9, VmessDrawResponse
<1>10. ASSUME NEW c \in Callers, Vmess!ReadChunk(c) PROVE VmessInv' BY <1>10, VmessReadChunk
<1>11. ASSUME NEW s \in Sessions, Vmess!Answer(s) PROVE VmessInv' BY <1>11, VmessAnswer
<1>12. ASSUME NEW s \in Sessions, Vmess!Close(s) PROVE VmessInv' BY <1>12, VmessClose
<1> QED BY <1>1, <1>2, <1>3, <1>4, <1>5, <1>6, <1>7, <1>8, <1>9, <1>10, <1>11, <1>12
        DEF Vmess!Next, Vmess!Steps

LEMMA VmessInit == Vmess!Init => VmessInv
<1> SUFFICES ASSUME Vmess!Init PROVE VmessInv OBVIOUS
<1>1. Vmess!Idle \in Call /\ Vmess!Idle.at = "idle" /\ Vmess!Idle.id = 0 BY DEF Vmess!Idle, Call, Ats
<1>2. /\ \A c \in Callers : call[c] = Vmess!Idle
      /\ \A s \in Sessions : /\ stream[s] = << >> /\ Len(stream[s]) = 0 /\ sent[s] = 0 /\ asked[s] = {}
                             /\ response[s] = 0
  BY DEF Vmess!Init
<1>3. VmessType
  <2>1. << >> \in Seq(Chunk) OBVIOUS
  <2>2. \A c \in Callers : call[c].at \notin {"count", "lock", "write"} \cup Past BY <1>1, <1>2 DEF Past
  <2> QED BY <1>1, <2>1, <2>2 DEF Vmess!Init, VmessType
<1>4. StreamIsHeld /\ NotAskedYet BY <1>1, <1>2 DEF StreamIsHeld, NotAskedYet, Past, Before
<1>5. IdsAreOwn /\ AskedOnce BY <1>1, <1>2 DEF IdsAreOwn, AskedOnce, OnceOf, Vmess!Init
<1>6. StreamShape /\ Unused BY <1>1, <1>2 DEF StreamShape, ShapeOf, Unused, UnusedOf, Free, Past
<1>7. WaitIsOwn BY <1>1, <1>2 DEF WaitIsOwn, WaitOf
<1>8. AtRest /\ Vmess!AnswersAreOwn
  BY <1>1, <1>2 DEF AtRest, RestOf, Got, InStep, Vmess!AnswersAreOwn, Vmess!At
<1> QED BY <1>3, <1>4, <1>5, <1>6, <1>7, <1>8 DEF VmessInv

\* However callers of one destination share, time out on, discard and re-dial
\* a stream, and in whatever order the server answers, no call of relay_udp
\* returns the answer to another call's datagram: an answer opens under one
\* counter, the counters spent are never behind the answers read, and once
\* ahead they stay ahead.
THEOREM VmessAnswerIsTheCallers ==
  ASSUME Vmess!VmessAssumption PROVE Vmess!Spec => []Vmess!AnswersAreOwn
<1>1. VmessInv /\ [Vmess!Next]_(Vmess!vars) => VmessInv' BY VmessNext
<1>2. VmessInv => Vmess!AnswersAreOwn BY DEF VmessInv
<1> QED BY <1>1, <1>2, VmessInit, PTL DEF Vmess!Spec

(***************************************************************************)
(* WireGuard                                                               *)
(***************************************************************************)

Wg == INSTANCE WireGuard

WgPlaces == {"idle", "ensure", "handshake", "install", "send", "sendSocket", "recv", "recving",
             "decrypt", "clearTunnel", "clearSocket"}
WgFilters == [initialized : BOOLEAN, highest : Nat, buffer : SUBSET Nat]

\* What a replay filter remembers of the nonces that were handed out: the
\* highest, and those inside the window below it.
Remembers(f, s, acc) ==
  /\ ~f.initialized => f.highest = 0 /\ f.buffer = {} /\ \A n \in Nat : <<s, n>> \notin acc
  /\ f.initialized => /\ \A n \in Nat : <<s, n>> \in acc => n <= f.highest
                      /\ \A n \in Nat : n \in f.buffer <=> <<s, n>> \in acc /\ n + WindowSize > f.highest

WgType ==
  /\ sessions \in 0 .. MaxSessions /\ tunnel \in 0 .. sessions /\ socket \in 0 .. sessions
  /\ filter \in [1 .. MaxSessions -> WgFilters]
  /\ pc \in [Callers -> WgPlaces]
  /\ packet \in [Callers -> Nat \X Nat]
  /\ accepted \subseteq (1 .. sessions) \X Nat

\* Whoever reads has the socket, which stays; what is decrypted was read from it.
SocketHeld ==
  /\ \A c \in Callers : slock = c <=> pc[c] = "recving"
  /\ \A c \in Callers : pc[c] = "recving" => socket # 0
  /\ \A c \in Callers : pc[c] = "decrypt" => packet[c][1] \in 1 .. sessions

WgInv ==
  /\ WgType /\ SocketHeld
  /\ \A s \in 1 .. MaxSessions : Remembers(filter[s], s, accepted)
  /\ exact
  /\ tunnel # 0 => peer = "same"

\* The filter calls a nonce fresh exactly when it was never handed out and is
\* inside the window of the highest.
LEMMA FreshIsExact ==
  ASSUME Wg!WgAssumption, NEW f \in WgFilters, NEW s, NEW acc, Remembers(f, s, acc), NEW n \in Nat
  PROVE Wg!Fresh(f, n) <=> <<s, n>> \notin acc /\ n + WindowSize > f.highest
<1>1. f.highest \in Nat /\ f.initialized \in BOOLEAN /\ WindowSize \in Nat \ {0}
  BY DEF WgFilters, Wg!WgAssumption
<1>2. CASE ~f.initialized BY <1>1, <1>2 DEF Wg!Fresh, Remembers
<1>3. CASE f.initialized
  <2>1. CASE n > f.highest BY <1>1, <1>3, <2>1 DEF Wg!Fresh, Remembers
  <2>2. CASE n <= f.highest
    <3>1. f.highest - n < WindowSize <=> n + WindowSize > f.highest BY <1>1, <2>2
    <3> QED BY <1>1, <1>3, <2>2, <3>1 DEF Wg!Fresh, Remembers
  <2> QED BY <1>1, <2>1, <2>2
<1> QED BY <1>2, <1>3

LEMMA RecordIsRemembered ==
  ASSUME Wg!WgAssumption, NEW f \in WgFilters, NEW s, NEW acc, Remembers(f, s, acc), NEW n \in Nat,
         Wg!Fresh(f, n)
  PROVE /\ Wg!CheckAndRecord(f, n) \in WgFilters
        /\ Remembers(Wg!CheckAndRecord(f, n), s, acc \cup {<<s, n>>})
<1>1. /\ f.highest \in Nat /\ f.initialized \in BOOLEAN /\ f.buffer \subseteq Nat
      /\ WindowSize \in Nat \ {0}
  BY DEF WgFilters, Wg!WgAssumption
<1>2. CASE ~f.initialized
  <2>1. Wg!CheckAndRecord(f, n) = [initialized |-> TRUE, highest |-> n, buffer |-> {n}]
    BY <1>2 DEF Wg!CheckAndRecord, Wg!Record, WgFilters
  <2> QED BY <1>1, <1>2, <2>1 DEF WgFilters, Remembers
<1>3. CASE f.initialized /\ n > f.highest
  <2>1. Wg!CheckAndRecord(f, n) =
          [initialized |-> TRUE, highest |-> n,
           buffer |-> {b \in f.buffer : b + WindowSize > n} \cup {n}]
    BY <1>3 DEF Wg!CheckAndRecord, Wg!Advance, WgFilters
  <2> QED BY <1>1, <1>3, <2>1 DEF WgFilters, Remembers
<1>4. CASE f.initialized /\ ~(n > f.highest)
  <2>1. Wg!CheckAndRecord(f, n) =
          [initialized |-> TRUE, highest |-> f.highest, buffer |-> f.buffer \cup {n}]
    BY <1>4 DEF Wg!CheckAndRecord, Wg!Late, WgFilters
  <2>2. n + WindowSize > f.highest BY FreshIsExact
  <2> QED BY <1>1, <1>4, <2>1, <2>2 DEF WgFilters, Remembers
<1> QED BY <1>2, <1>3, <1>4

LEMMA WgCardinality == ASSUME NEW S PROVE Wg!Cardinality(S) = Cardinality(S)
  BY DEF Wg!Cardinality, Cardinality

\* A filter that remembers holds no more than its window.
LEMMA WindowIsEnough ==
  ASSUME Wg!WgAssumption, NEW f \in WgFilters, NEW s, NEW acc, Remembers(f, s, acc)
  PROVE Cardinality(f.buffer) <= WindowSize
<1>1. f.highest \in Nat /\ f.buffer \subseteq Nat /\ WindowSize \in Nat \ {0}
  BY DEF WgFilters, Wg!WgAssumption
<1>2. CASE ~f.initialized BY <1>1, <1>2, FS_EmptySet DEF Remembers
<1>3. CASE f.initialized
  <2> DEFINE low == f.highest - WindowSize + 1
  <2>0. low \in Int /\ f.highest \in Int /\ low <= f.highest /\ f.highest - low + 1 = WindowSize
    BY <1>1
  <2>1. ASSUME NEW n \in f.buffer PROVE n \in low .. f.highest
    <3>1. n \in Nat /\ n <= f.highest /\ n + WindowSize > f.highest BY <1>1, <1>3 DEF Remembers
    <3> QED BY <1>1, <3>1
  <2> HIDE DEF low
  <2>2. IsFiniteSet(low .. f.highest) /\ Cardinality(low .. f.highest) = WindowSize
    <3>1. /\ IsFiniteSet(low .. f.highest)
          /\ Cardinality(low .. f.highest) = IF low > f.highest THEN 0 ELSE f.highest - low + 1
      BY <2>0, FS_Interval, Zenon
    <3> QED BY <2>0, <3>1
  <2>3. Cardinality(f.buffer) <= Cardinality(low .. f.highest) BY <2>1, <2>2, FS_Subset
  <2> QED BY <2>2, <2>3
<1> QED BY <1>2, <1>3 DEF WgFilters

LEMMA WgStart ==
  ASSUME Wg!WgAssumption, Wg!Init
  PROVE WgInv
<1> USE DEF Wg!WgAssumption, Wg!Init, Wg!None, Wg!Nobody
<1>1. WgType BY DEF WgType, WgPlaces, WgFilters, Wg!NewFilter
<1>2. SocketHeld BY DEF SocketHeld
<1>3. \A s \in 1 .. MaxSessions : Remembers(filter[s], s, accepted)
  BY DEF Remembers, Wg!NewFilter
<1> QED BY <1>1, <1>2, <1>3 DEF WgInv

\* A response that opens was sealed under the preshared key of this side.
LEMMA SealTellsThePsk ==
  ASSUME NEW p, NEW q, Wg!ConsumeResponse(Wg!CreateResponse(p), q)
  PROVE p = q
<1>1. Wg!Sealed(p) = Wg!Sealed(q) BY DEF Wg!ConsumeResponse, Wg!CreateResponse
<1>2. Wg!Kdf3Key(Wg!ResponseState(p), p) = Wg!Kdf3Key(Wg!ResponseState(q), q) BY <1>1 DEF Wg!Sealed
<1> QED BY <1>2 DEF Wg!Kdf3Key

LEMMA HandshakeIsWithThePeer ==
  ASSUME NEW c \in Callers, Wg!HandshakeOk(c)
  PROVE peer = "same"
<1>1. Wg!PeerPsk = "psk" BY SealTellsThePsk DEF Wg!HandshakeOk
<1> QED BY <1>1 DEF Wg!PeerPsk

\* A step of c that leaves the sessions, the packets and the socket's lock alone.
LEMMA AsideOfTheSocket ==
  ASSUME Wg!WgAssumption, WgInv, NEW c \in Callers, NEW l \in WgPlaces \ {"recving", "decrypt"},
         pc[c] # "recving", pc' = [pc EXCEPT ![c] = l],
         UNCHANGED <<peer, sessions, slock, packet, filter, accepted, exact>>,
         tunnel' \in {0, tunnel},
         socket' \in 0 .. sessions, socket' = socket \/ slock = Wg!Nobody
  PROVE WgInv'
<1>1. WgType'
  BY DEF WgInv, WgType, WgPlaces
<1>2. SocketHeld'
  BY DEF WgInv, WgType, WgPlaces, SocketHeld, Wg!WgAssumption
<1> QED BY <1>1, <1>2 DEF WgInv

LEMMA WgKept ==
  ASSUME Wg!WgAssumption, WgInv, Wg!Next
  PROVE WgInv'
<1>0. WgType /\ SocketHeld BY DEF WgInv
<1>1. CASE Wg!Expire
  BY <1>1 DEF Wg!Expire, Wg!callVars, Wg!dataVars, WgInv, WgType, WgPlaces, SocketHeld
<1>2. ASSUME NEW c \in Callers, Wg!Call(c) PROVE WgInv'
  BY <1>2, AsideOfTheSocket DEF Wg!Call, Wg!Goto, Wg!lockVars, Wg!dataVars, WgInv, WgType, WgPlaces
<1>3. ASSUME NEW c \in Callers, Wg!EnsureTunnel(c) PROVE WgInv'
  BY <1>3, AsideOfTheSocket DEF Wg!EnsureTunnel, Wg!Goto, Wg!dataVars, WgInv, WgType, WgPlaces
<1>4. ASSUME NEW c \in Callers, Wg!HandshakeFails(c) PROVE WgInv'
  BY <1>4, AsideOfTheSocket DEF Wg!HandshakeFails, Wg!Goto, Wg!dataVars, WgInv, WgType, WgPlaces
<1>5. ASSUME NEW c \in Callers, Wg!InstallSocket(c) PROVE WgInv'
  BY <1>5, AsideOfTheSocket DEF Wg!InstallSocket, Wg!Unlocked, Wg!Goto, Wg!dataVars, WgInv,
     WgType, WgPlaces
<1>6. ASSUME NEW c \in Callers, Wg!Encrypt(c) PROVE WgInv'
  BY <1>6, AsideOfTheSocket DEF Wg!Encrypt, Wg!Goto, Wg!dataVars, WgInv, WgType, WgPlaces
<1>7. ASSUME NEW c \in Callers, Wg!SendIpPacket(c) PROVE WgInv'
  BY <1>7, AsideOfTheSocket DEF Wg!SendIpPacket, Wg!Goto, Wg!dataVars, WgInv, WgType, WgPlaces
<1>8. ASSUME NEW c \in Callers, Wg!ClearTunnel(c) PROVE WgInv'
  BY <1>8, AsideOfTheSocket DEF Wg!ClearTunnel, Wg!Goto, Wg!dataVars, WgInv, WgType, WgPlaces,
     Wg!None
<1>9. ASSUME NEW c \in Callers, Wg!ClearSocket(c) PROVE WgInv'
  <2>1. /\ pc[c] = "clearSocket" /\ slock = Wg!Nobody /\ socket' = 0 /\ pc' = [pc EXCEPT ![c] = "idle"]
        /\ UNCHANGED <<peer, tunnel, slock, sessions, filter, accepted, exact, packet>>
    BY <1>9 DEF Wg!ClearSocket, Wg!Unlocked, Wg!Goto, Wg!dataVars, Wg!None
  <2>2. 0 \in 0 .. sessions BY <1>0 DEF WgType, Wg!WgAssumption
  <2> QED BY <2>1, <2>2, AsideOfTheSocket DEF WgPlaces
<1>10. ASSUME NEW c \in Callers, Wg!HandshakeOk(c) PROVE WgInv'
  <2>1. /\ sessions < MaxSessions /\ sessions' = sessions + 1 /\ tunnel' = sessions + 1
        /\ filter' = [filter EXCEPT ![sessions + 1] = Wg!NewFilter]
        /\ pc' = [pc EXCEPT ![c] = "install"] /\ pc[c] = "handshake"
        /\ UNCHANGED <<peer, socket, slock, accepted, exact, packet>>
    BY <1>10 DEF Wg!HandshakeOk, Wg!Goto
  <2>2. WgType' BY <1>0, <2>1 DEF WgType, WgPlaces, WgFilters, Wg!NewFilter, Wg!WgAssumption
  <2>3. SocketHeld' BY <1>0, <2>1 DEF SocketHeld, WgType, WgPlaces, Wg!WgAssumption
  <2>4. ASSUME NEW s \in 1 .. MaxSessions PROVE Remembers(filter'[s], s, accepted')
    <3>1. CASE s = sessions + 1
      <4>1. filter'[s] = Wg!NewFilter BY <1>0, <2>1, <3>1 DEF WgType, WgPlaces
      <4>2. \A n \in Nat : <<s, n>> \notin accepted BY <1>0, <3>1 DEF WgType, WgPlaces
      <4> QED BY <2>1, <4>1, <4>2 DEF Remembers, Wg!NewFilter
    <3>2. CASE s # sessions + 1
      BY <1>0, <2>1, <3>2 DEF WgType, WgPlaces, WgInv
    <3> QED BY <3>1, <3>2
  <2>5. peer = "same" BY <1>10, HandshakeIsWithThePeer
  <2> QED BY <2>1, <2>2, <2>3, <2>4, <2>5 DEF WgInv
<1>11. ASSUME NEW c \in Callers, Wg!RecvLock(c) PROVE WgInv'
  <2>1. CASE socket = 0
    BY <1>11, <2>1, AsideOfTheSocket DEF Wg!RecvLock, Wg!Goto, Wg!dataVars, WgInv, WgType,
       WgPlaces, Wg!None
  <2>2. CASE socket # 0
    <3>1. /\ pc' = [pc EXCEPT ![c] = "recving"] /\ slock' = c /\ slock = Wg!Nobody
          /\ UNCHANGED <<peer, tunnel, socket, sessions, filter, accepted, exact, packet>>
      BY <1>11, <2>2 DEF Wg!RecvLock, Wg!Goto, Wg!dataVars, Wg!None, Wg!Unlocked
    <3>2. WgType' BY <1>0, <3>1 DEF WgType, WgPlaces
    <3>3. SocketHeld' BY <1>0, <2>2, <3>1 DEF WgType, WgPlaces, SocketHeld, Wg!WgAssumption
    <3> QED BY <3>1, <3>2, <3>3 DEF WgInv
  <2> QED BY <2>1, <2>2
<1>12. ASSUME NEW c \in Callers, Wg!RecvTimeout(c) PROVE WgInv'
  <2>1. PICK l \in {"idle", "recv", "send"} : pc' = [pc EXCEPT ![c] = l]
    BY <1>12 DEF Wg!RecvTimeout, Wg!Goto, Wg!RelayUdpAgain, Wg!RelayTcpAgain
  <2>2. /\ pc[c] = "recving" /\ slock' = Wg!Nobody
        /\ UNCHANGED <<peer, tunnel, socket, sessions, filter, accepted, exact, packet>>
    BY <1>12 DEF Wg!RecvTimeout, Wg!dataVars
  <2>3. WgType' BY <1>0, <2>1, <2>2 DEF WgType, WgPlaces
  <2>4. SocketHeld' BY <1>0, <2>1, <2>2 DEF WgType, WgPlaces, SocketHeld, Wg!WgAssumption
  <2> QED BY <2>2, <2>3, <2>4 DEF WgInv
<1>13. ASSUME NEW c \in Callers, Wg!RecvPacket(c) PROVE WgInv'
  <2>1. PICK n \in 0 .. MaxNonce : packet' = [packet EXCEPT ![c] = <<socket, n>>]
    BY <1>13 DEF Wg!RecvPacket
  <2>2. /\ pc[c] = "recving" /\ slock' = Wg!Nobody /\ pc' = [pc EXCEPT ![c] = "decrypt"]
        /\ UNCHANGED <<peer, tunnel, socket, sessions, filter, accepted, exact>>
    BY <1>13 DEF Wg!RecvPacket, Wg!Goto, Wg!dataVars
  <2>3. socket \in 1 .. sessions BY <1>0, <2>2 DEF WgType, WgPlaces, SocketHeld
  <2>4. WgType' BY <1>0, <2>1, <2>2 DEF WgType, WgPlaces, Wg!WgAssumption
  <2>5. SocketHeld' BY <1>0, <2>1, <2>2, <2>3 DEF WgType, WgPlaces, SocketHeld, Wg!WgAssumption
  <2> QED BY <2>2, <2>4, <2>5 DEF WgInv
<1>14. ASSUME NEW c \in Callers, Wg!Decrypt(c) PROVE WgInv'
  <2> DEFINE s == packet[c][1]
             n == packet[c][2]
  <2>1. /\ pc[c] = "decrypt" /\ slock' = slock
        /\ packet' = [packet EXCEPT ![c] = <<0, 0>>]
        /\ UNCHANGED <<peer, tunnel, socket, sessions>>
    BY <1>0, <1>14 DEF Wg!Decrypt, SocketHeld, Wg!None
  <2>2. s \in 1 .. sessions /\ s \in 1 .. MaxSessions /\ n \in Nat /\ packet[c] = <<s, n>>
    BY <1>0, <2>1 DEF SocketHeld, WgType, WgPlaces, Wg!WgAssumption
  <2>3. PICK l \in {"idle", "send"} : pc' = [pc EXCEPT ![c] = l]
    BY <1>14 DEF Wg!Decrypt, Wg!Goto, Wg!RelayTcpAgain
  <2>4. SocketHeld' BY <1>0, <2>1, <2>3 DEF WgType, WgPlaces, SocketHeld, Wg!WgAssumption
  <2>5. CASE tunnel # s
    <3>1. UNCHANGED <<filter, accepted, exact>> BY <1>14, <2>5 DEF Wg!Decrypt, Wg!dataVars
    <3>2. WgType' BY <1>0, <2>1, <2>3, <3>1 DEF WgType, WgPlaces
    <3> QED BY <2>1, <2>4, <3>1, <3>2 DEF WgInv
  <2>6. CASE tunnel = s
    <3>1. /\ filter' = [filter EXCEPT ![s] = Wg!CheckAndRecord(filter[s], n)]
          /\ exact' = (exact /\ Wg!Fresh(filter[s], n) =
                         (packet[c] \notin accepted /\ n + WindowSize > filter[s].highest))
          /\ Wg!Fresh(filter[s], n) => accepted' = accepted \cup {<<s, n>>}
          /\ ~Wg!Fresh(filter[s], n) => accepted' = accepted
      BY <1>14, <2>2, <2>6 DEF Wg!Decrypt
    <3>2. filter[s] \in WgFilters /\ Remembers(filter[s], s, accepted)
      BY <1>0, <2>2 DEF WgType, WgPlaces, WgInv
    <3>3. Wg!Fresh(filter[s], n) <=> packet[c] \notin accepted /\ n + WindowSize > filter[s].highest
      <4> DEFINE f == filter[s]
      <4>1. <<s, n>> = packet[c] /\ n \in Nat /\ f \in WgFilters /\ Remembers(f, s, accepted) BY <2>2, <3>2
      <4> HIDE DEF f, s, n
      <4>2. Wg!Fresh(f, n) <=> <<s, n>> \notin accepted /\ n + WindowSize > f.highest
        BY <4>1, FreshIsExact
      <4> QED BY <4>1, <4>2 DEF f
    <3>4. Wg!Fresh(filter[s], n) = (packet[c] \notin accepted /\ n + WindowSize > filter[s].highest)
      <4>1. Wg!Fresh(filter[s], n) \in BOOLEAN BY DEF Wg!Fresh
      <4> QED BY <3>3, <4>1, Zenon
    <3>5. exact' BY <3>1, <3>4 DEF WgInv
    <3>6. /\ Wg!CheckAndRecord(filter[s], n) \in WgFilters
          /\ Remembers(Wg!CheckAndRecord(filter[s], n), s, accepted')
      <4>1. CASE Wg!Fresh(filter[s], n)
        <5>1. /\ Wg!CheckAndRecord(filter[s], n) \in WgFilters
              /\ Remembers(Wg!CheckAndRecord(filter[s], n), s, accepted \cup {<<s, n>>})
          BY <2>2, <3>2, <4>1, RecordIsRemembered
        <5> QED BY <3>1, <4>1, <5>1
      <4>2. CASE ~Wg!Fresh(filter[s], n) BY <3>1, <3>2, <4>2 DEF Wg!CheckAndRecord
      <4> QED BY <4>1, <4>2
    <3>7. WgType'
      <4>1. accepted' \subseteq (1 .. sessions) \X Nat BY <1>0, <2>2, <3>1 DEF WgType, WgPlaces
      <4>2. filter' \in [1 .. MaxSessions -> WgFilters]
        BY <1>0, <2>2, <3>1, <3>6 DEF WgType, WgPlaces
      <4> QED BY <1>0, <2>1, <2>3, <4>1, <4>2 DEF WgType, WgPlaces
    <3>8. ASSUME NEW z \in 1 .. MaxSessions PROVE Remembers(filter'[z], z, accepted')
      <4>1. CASE z = s BY <1>0, <2>2, <3>1, <3>6, <4>1 DEF WgType, WgPlaces
      <4>2. CASE z # s
        <5>1. filter'[z] = filter[z] BY <1>0, <2>2, <3>1, <4>2 DEF WgType, WgPlaces
        <5>2. \A k \in Nat : <<z, k>> \in accepted' <=> <<z, k>> \in accepted BY <3>1, <4>2
        <5> QED BY <5>1, <5>2 DEF WgInv, Remembers
      <4> QED BY <4>1, <4>2
    <3> QED BY <2>1, <2>4, <3>5, <3>7, <3>8 DEF WgInv
  <2> QED BY <2>5, <2>6
<1> QED
  BY <1>1, <1>2, <1>3, <1>4, <1>5, <1>6, <1>7, <1>8, <1>9, <1>10, <1>11, <1>12, <1>13, <1>14
  DEF Wg!Next, Wg!Acquire, Wg!Proceed

\* Whatever datagrams arrive, however often and in whatever order, at however
\* many threads: a session is used with a server that derived the same keys, the
\* filter hands a packet out exactly when it was not handed out before and is
\* inside the window, and never keeps more than a window of nonces
\* (protocol/wireguard/, engine/outbound/wireguard.rs).
THEOREM ReplayAlwaysExact ==
  ASSUME Wg!WgAssumption
  PROVE Wg!Spec => [](Wg!KeysAgree /\ Wg!ReplayIsExact)
<1>1. Wg!Init => WgInv BY WgStart
<1>2. WgInv /\ [Wg!Next]_(Wg!vars) => WgInv'
  <2>1. ASSUME WgInv, UNCHANGED Wg!vars PROVE WgInv'
    BY <2>1 DEF Wg!vars, Wg!lockVars, Wg!callVars, Wg!dataVars, WgInv, WgType, WgPlaces, SocketHeld
  <2> QED BY <2>1, WgKept
<1>3. WgInv => Wg!KeysAgree /\ Wg!ReplayIsExact
  <2>1. ASSUME WgInv PROVE Wg!KeysAgree
    BY <2>1 DEF WgInv, Wg!KeysAgree, Wg!None, Wg!SendKey, Wg!PeerRecvKey, Wg!PeerPsk
  <2>2. ASSUME WgInv PROVE Wg!ReplayIsExact
    <3>1. ASSUME NEW s \in 1 .. MaxSessions PROVE Cardinality(filter[s].buffer) <= WindowSize
      <4>1. filter[s] \in WgFilters /\ Remembers(filter[s], s, accepted) BY <2>2 DEF WgInv, WgType
      <4> QED BY <4>1, WindowIsEnough
    <3> QED BY <2>2, <3>1, WgCardinality DEF WgInv, Wg!ReplayIsExact
  <2> QED BY <2>1, <2>2
<1> QED BY <1>1, <1>2, <1>3, PTL DEF Wg!Spec

(***************************************************************************)
(* HolePunch                                                               *)
(***************************************************************************)

Punch == INSTANCE HolePunch WITH Targets <- Predicted

\* A datagram of this session, wherever it was reflected to, was sealed by a
\* role that has begun to probe.
Genuine(d) ==
  /\ d = [to |-> d.to, from |-> d.from, kind |-> d.kind, session |-> d.session, key |-> d.key]
  /\ d.session = 1 => \E q \in Punch!Roles : d.key = Punch!SendLabel(q) /\ round[q] > 0

PunchInv ==
  /\ round \in [Punch!Roles -> Nat]
  /\ reading = [r \in Punch!Roles |-> reading[r]]
  /\ winner = [r \in Punch!Roles |-> winner[r]]
  /\ \A d \in net : Genuine(d)
  /\ \A r \in Punch!Roles : reading[r] => round[r] > 0
  /\ Punch!WinnerHeardPeer

\* The session of the probe that an earlier session left behind is not this one.
LEMMA PunchStart ==
  ASSUME Punch!Init
  PROVE PunchInv
<1>1. ASSUME NEW d \in net
      PROVE Genuine(d)
  <2>1. PICK r \in Punch!Roles : d = [Punch!EncodeProbe(r, Where[Punch!Other(r)], "probe") EXCEPT !.session = 0]
    BY DEF Punch!Init
  <2>2. d = [to |-> Where[Punch!Other(r)], from |-> Where[r], kind |-> "probe", session |-> 0,
             key |-> Punch!SendLabel(r)]
    BY <2>1 DEF Punch!EncodeProbe
  <2> QED
    BY <2>2 DEF Genuine
<1> QED
  BY <1>1 DEF Punch!Init, PunchInv, Punch!WinnerHeardPeer

\* A datagram stays genuine while rounds only grow.
LEMMA GenuineStays ==
  ASSUME round \in [Punch!Roles -> Nat], round' \in [Punch!Roles -> Nat],
         \A q \in Punch!Roles : round[q] =< round'[q],
         NEW d, Genuine(d)
  PROVE Genuine(d)'
<1>1. \A q \in Punch!Roles : round[q] > 0 => round'[q] > 0
  OBVIOUS
<1> QED
  BY <1>1 DEF Genuine

\* What a role seals is genuine once it has begun to probe.
LEMMA SealedIsGenuine ==
  ASSUME NEW r \in Punch!Roles, NEW t, NEW k, round'[r] > 0
  PROVE Genuine(Punch!EncodeProbe(r, t, k))'
BY DEF Genuine, Punch!EncodeProbe

\* A role accepts only what the other role sealed.
LEMMA AcceptedIsPeers ==
  ASSUME NEW r \in Punch!Roles, NEW d, Genuine(d), Punch!ValidateProbe(r, d)
  PROVE round[Punch!Other(r)] > 0 /\ d.key = Punch!SendLabel(Punch!Other(r))
BY DEF Genuine, Punch!ValidateProbe, Punch!Other, Punch!SendLabel, Punch!ReceiveLabel, Punch!Roles

LEMMA PunchRound ==
  ASSUME PunchInv, NEW r \in Punch!Roles, Punch!Round(r)
  PROVE PunchInv'
<1>1. /\ round' \in [Punch!Roles -> Nat] /\ round'[r] > 0
      /\ \A q \in Punch!Roles : round[q] =< round'[q]
      /\ \A q \in Punch!Roles : round[q] > 0 => round'[q] > 0
  BY DEF PunchInv, Punch!Round
<1>2. PICK arrive \in SUBSET Predicted[r] :
        net' = net \cup {Punch!EncodeProbe(r, t, "probe") : t \in arrive}
  BY DEF Punch!Round
<1>3. \A d \in net' : Genuine(d)'
  BY <1>1, <1>2, GenuineStays, SealedIsGenuine DEF PunchInv
<1>4. /\ reading' = [q \in Punch!Roles |-> reading'[q]]
      /\ \A q \in Punch!Roles : reading'[q] => round'[q] > 0
  BY <1>1 DEF PunchInv, Punch!Round
<1>5. Punch!WinnerHeardPeer'
  BY <1>1 DEF PunchInv, Punch!Round, Punch!WinnerHeardPeer, Punch!Other, Punch!Roles
<1> QED
  BY <1>1, <1>3, <1>4, <1>5 DEF PunchInv, Punch!Round

LEMMA PunchWin ==
  ASSUME PunchInv, NEW r \in Punch!Roles, NEW d \in net, Punch!Win(r, d)
  PROVE PunchInv'
<1>1. round' = round /\ round \in [Punch!Roles -> Nat] /\ round'[r] > 0
  BY DEF PunchInv, Punch!Win
<1>2. \A e \in net' : Genuine(e)'
  <2>1. \A e \in net : Genuine(e)'
    BY <1>1, GenuineStays DEF PunchInv
  <2>2. Genuine(Punch!EncodeProbe(r, d.from, "ack"))'
    BY <1>1, SealedIsGenuine
  <2> QED
    BY <2>1, <2>2 DEF Punch!Win
<1>3. round[Punch!Other(r)] > 0 /\ d.key = Punch!SendLabel(Punch!Other(r))
  BY AcceptedIsPeers DEF PunchInv, Punch!Win
<1>4. winner' = [winner EXCEPT ![r] = {d}] /\ reading' = [reading EXCEPT ![r] = FALSE]
  BY DEF Punch!Win
<1>5. winner' = [q \in Punch!Roles |-> IF q = r THEN {d} ELSE winner[q]]
  BY <1>4 DEF PunchInv
<1>6. Punch!WinnerHeardPeer'
  BY <1>1, <1>3, <1>5 DEF PunchInv, Punch!WinnerHeardPeer
<1> QED
  BY <1>1, <1>2, <1>4, <1>5, <1>6 DEF PunchInv

\* A datagram that comes back is one, and its session and key are the same.
LEMMA Reflected ==
  ASSUME NEW d, NEW e, e = [d EXCEPT !.to = d.from, !.from = d.to],
         d = [to |-> d.to, from |-> d.from, kind |-> d.kind, session |-> d.session, key |-> d.key]
  PROVE /\ e = [to |-> e.to, from |-> e.from, kind |-> e.kind, session |-> e.session, key |-> e.key]
        /\ e.session = d.session /\ e.key = d.key
<1> DEFINE S == {d.to, d.from}
           D == [to : S, from : S, kind : {d.kind}, session : {d.session}, key : {d.key}]
<1>1. d \in D
  OBVIOUS
<1>2. e \in D
  BY <1>1
<1> QED
  BY <1>1, <1>2

LEMMA PunchReflect ==
  ASSUME PunchInv, NEW d \in net, Punch!Reflect(d)
  PROVE PunchInv'
<1> DEFINE e == [d EXCEPT !.to = d.from, !.from = d.to]
<1>1. round' = round
  BY DEF Punch!Reflect
<1>2. Genuine(e)'
  <2>1. Genuine(d)
    BY DEF PunchInv
  <2>2. /\ e = [to |-> e.to, from |-> e.from, kind |-> e.kind, session |-> e.session, key |-> e.key]
        /\ e.session = d.session /\ e.key = d.key
    BY <2>1, Reflected DEF Genuine
  <2> HIDE DEF e
  <2> QED
    BY <2>1, <2>2, <1>1 DEF Genuine
<1>3. \A f \in net' : Genuine(f)'
  BY <1>1, <1>2, GenuineStays DEF PunchInv, Punch!Reflect
<1> QED
  BY <1>1, <1>3 DEF PunchInv, Punch!Reflect, Punch!WinnerHeardPeer

LEMMA PunchKept ==
  ASSUME PunchInv, [Punch!Next]_(Punch!vars)
  PROVE PunchInv'
<1>1. ASSUME NEW r \in Punch!Roles, Punch!RoundEnds(r) PROVE PunchInv'
  BY <1>1 DEF Punch!RoundEnds, PunchInv, Genuine, Punch!WinnerHeardPeer
<1>2. ASSUME NEW r \in Punch!Roles, Punch!NoPath(r) PROVE PunchInv'
  BY <1>2 DEF Punch!NoPath, PunchInv, Genuine, Punch!WinnerHeardPeer
<1>3. CASE UNCHANGED Punch!vars
  BY <1>3 DEF Punch!vars, PunchInv, Genuine, Punch!WinnerHeardPeer
<1> QED
  BY <1>1, <1>2, <1>3, PunchRound, PunchWin, PunchReflect DEF Punch!Next, Punch!Step

(* Whoever wins the race really heard the other role of this session, which   *)
(* has begun to probe, and never its own datagram come back, whatever the     *)
(* network loses, keeps, repeats and reflects and however long the race is    *)
(* (validate_probe and the direction keys of `punch`). What MCState checks in *)
(* NatVerdictsHold of the race.                                               *)
THEOREM WinnerAlwaysHeardPeer == Punch!Spec => []Punch!WinnerHeardPeer
<1>1. PunchInv => Punch!WinnerHeardPeer
  BY DEF PunchInv
<1> QED
  BY <1>1, PunchStart, PunchKept, PTL DEF Punch!Spec

(***************************************************************************)
(* Tls13Client                                                             *)
(***************************************************************************)

Tls == INSTANCE Tls13Client

TlsWords == {"ch", "sh", "ee", "cert", "cv", "fin", "nst", "ku", "kuAsk", "data", "close"}
TlsHalves == [m : [t : TlsWords, good : BOOLEAN, over : Seq(TlsWords)], half : {1, 2}]
TlsRecords ==
  [gen : Nat, seq : Nat, inner : {"zero", "sealed", "handshake", "data", "close"},
   halves : Seq(TlsHalves) \cup {<<b>> : b \in BOOLEAN}]

TlsClients ==
  [pc : {"hello", "flight", "finish", "open", "failed"}, pending : Seq(TlsHalves),
   transcript : Seq(TlsWords), ee : BOOLEAN, cert : {"none", "verified"}, cv : BOOLEAN, rGen : Nat,
   rSeq : Nat, wGen : Nat, wSeq : Nat, owes : BOOLEAN, closed : BOOLEAN,
   end : {"-", "hello", "echo", "record", "message", "certificate", "idle", "timeout"}]
TlsServers ==
  [pc : {"hello", "flight", "finished", "open", "closed"}, transcript : Seq(TlsWords),
   out : Seq(TlsHalves), msgs : Nat, wGen : Nat, wSeq : Nat, rGen : Nat, rSeq : Nat, asked : Nat,
   failed : BOOLEAN, log : Seq(TlsWords)]
TlsTypes ==
  /\ wire \in Seq(TlsRecords)
  /\ client \in TlsClients
  /\ srv \in TlsServers

\* The server's Finished was the last it said, over all it had said before.
FlightDone == srv.pc \notin {"hello", "flight"}
FinishedLast(h) == h.m.t = "fin" => FlightDone /\ srv.transcript = Append(h.m.over, "fin")

\* So it is with every half of a message on its way: waiting, in a record under
\* the handshake key, or pending at the client.
AllFinishedLast(q) == \A i \in 1 .. Len(q) : FinishedLast(q[i])
RecordGenuine(r) == r.gen = 0 => r.halves \in Seq(TlsHalves) /\ AllFinishedLast(r.halves)
FlightGenuine ==
  /\ AllFinishedLast(srv.out)
  /\ AllFinishedLast(client.pending)
  /\ \A k \in 1 .. Len(wire) : RecordGenuine(wire[k])

\* Until it is open the client reads under the handshake key, under which the
\* server seals nothing but its flight.
HandshakeKeyed ==
  /\ client.pc \in {"hello", "flight", "finish"} => client.rGen = 0
  /\ srv.pc = "open" => srv.wGen > 0

Heard(s, a) == \E i \in DOMAIN s : s[i] = a

\* What the client has noted of the flight is in its transcript, in that order.
ClientNoted ==
  /\ client.cert # "none" => Heard(client.transcript, "cert")
  /\ client.cv => Tls!Before(client.transcript, "cert", "cv")

\* With a hook, only the peer gets as far as a certificate.
PeerOnly ==
  /\ Tls!Hooked /\ client.cert # "none" => server = "peer"
  /\ profile = "shadowtls" /\ client.pending # <<>> => server = "peer"

\* The Finished the client took over its own transcript is the server's.
FinishedAgrees ==
  /\ client.pc = "finish" => FlightDone /\ srv.transcript = Append(client.transcript, "fin")
  /\ client.pc = "open" => FlightDone

TlsInv ==
  /\ TlsTypes
  /\ FlightGenuine
  /\ HandshakeKeyed
  /\ ClientNoted
  /\ PeerOnly
  /\ FinishedAgrees
  /\ Tls!EstablishedIsAuthentic

TlsParts == <<wire, client, srv, profile, server>>

LEMMA HeardGrows ==
  ASSUME NEW S, NEW s \in Seq(S), NEW a, NEW b, NEW e \in S
  PROVE /\ Heard(s, a) => Heard(Append(s, e), a)
        /\ Heard(Append(s, e), e)
        /\ Heard(s, a) => Tls!Before(Append(s, e), a, e)
        /\ Tls!Before(s, a, b) => Tls!Before(Append(s, e), a, b)
        /\ Tls!Before(s, a, b) => Heard(s, b)
<1> DEFINE l == Append(s, e)
<1>1. /\ Len(s) \in Nat /\ DOMAIN s = 1 .. Len(s)
      /\ l \in Seq(S) /\ Len(l) = Len(s) + 1
  OBVIOUS
<1>2. DOMAIN l = 1 .. Len(s) + 1
  BY <1>1
<1>3. l[Len(s) + 1] = e
  BY <1>1
<1>4. \A i \in 1 .. Len(s) : l[i] = s[i]
  BY <1>1
<1> HIDE DEF l
<1>5. \A i \in DOMAIN s : i \in DOMAIN l /\ l[i] = s[i] /\ i < Len(s) + 1
  BY <1>1, <1>2, <1>4
<1>6. Len(s) + 1 \in DOMAIN l
  BY <1>1, <1>2
<1>7. Heard(s, a) => Heard(l, a) /\ Tls!Before(l, a, e)
  BY <1>3, <1>5, <1>6 DEF Heard, Tls!Before
<1>8. Heard(l, e)
  BY <1>3, <1>6 DEF Heard
<1>9. Tls!Before(s, a, b) => Tls!Before(l, a, b) /\ Heard(s, b)
  BY <1>5 DEF Heard, Tls!Before
<1> QED
  BY <1>7, <1>8, <1>9 DEF l

LEMMA TwoMore ==
  ASSUME NEW S, NEW s \in Seq(S), NEW x \in S, NEW y \in S, NEW l, l = s \o <<x, y>>
  PROVE /\ l \in Seq(S) /\ Len(l) = Len(s) + 2 /\ Len(s) \in Nat
        /\ \A i \in 1 .. Len(s) : l[i] = s[i]
        /\ l[Len(s) + 1] = x /\ l[Len(s) + 2] = y
<1>1. <<x, y>> \in Seq(S) /\ Len(<<x, y>>) = 2 /\ <<x, y>>[1] = x /\ <<x, y>>[2] = y
  OBVIOUS
<1>2. PICK two \in Seq(S) : two = <<x, y>>
  BY <1>1
<1>3. Len(two) = 2 /\ two[1] = x /\ two[2] = y
  BY <1>1, <1>2
<1>4. l = s \o two
  BY <1>2
<1>5. l \in Seq(S) /\ Len(l) = Len(s) + 2 /\ Len(s) \in Nat
  BY <1>3, <1>4
<1>6. \A i \in 1 .. Len(s) : l[i] = s[i]
  BY <1>3, <1>4
<1>7. l[Len(s) + 1] = x /\ l[Len(s) + 2] = y
  BY <1>3, <1>4
<1> QED
  BY <1>5, <1>6, <1>7

LEMMA TlsStart ==
  ASSUME Tls!Init
  PROVE TlsInv
<1>1. wire \in Seq(TlsRecords)
  BY DEF Tls!Init
<1>2. <<>> \in Seq(TlsHalves) /\ <<"ch">> \in Seq(TlsWords) /\ <<>> \in Seq(TlsWords)
  BY DEF TlsWords
<1>3. TlsTypes
  BY <1>1, <1>2 DEF Tls!Init, TlsTypes, TlsClients, TlsServers, Tls!HandshakeKey
<1> QED
  BY <1>3 DEF Tls!Init, TlsInv, Tls!HandshakeKey, FlightGenuine, HandshakeKeyed, ClientNoted,
     PeerOnly,
    FinishedAgrees, Tls!EstablishedIsAuthentic, AllFinishedLast

LEMMA TlsStill ==
  ASSUME TlsInv, UNCHANGED TlsParts
  PROVE TlsInv'
<1> USE DEF TlsParts
<1>1. TlsTypes'
  BY DEF TlsInv, TlsTypes
<1>2. FlightGenuine'
  BY DEF TlsInv, FlightGenuine, AllFinishedLast, RecordGenuine, FinishedLast, FlightDone
<1>3. HandshakeKeyed' /\ PeerOnly' /\ FinishedAgrees'
  BY DEF TlsInv, HandshakeKeyed, PeerOnly, FinishedAgrees, Tls!Hooked, FlightDone
<1>4. ClientNoted'
  BY DEF TlsInv, ClientNoted, Heard, Tls!Before
<1>5. Tls!EstablishedIsAuthentic'
  BY DEF TlsInv, Tls!EstablishedIsAuthentic, Tls!Hooked, Tls!Before
<1> QED
  BY <1>1, <1>2, <1>3, <1>4, <1>5 DEF TlsInv

\* A half stays what it was while the server's flight is as it was.
LEMMA FinishedLastStays ==
  ASSUME NEW h, FinishedLast(h), FlightDone => FlightDone' /\ srv'.transcript = srv.transcript
  PROVE FinishedLast(h)'
BY DEF FinishedLast

\* What a step of the server owes the invariant.
LEMMA ServerMoves ==
  ASSUME TlsInv, UNCHANGED <<client, profile, server>>, TlsTypes',
         FlightDone => FlightDone' /\ srv'.transcript = srv.transcript,
         srv'.pc = "open" => srv'.wGen > 0,
         AllFinishedLast(srv.out)', \A k \in 1 .. Len(wire') : RecordGenuine(wire[k])'
  PROVE TlsInv'
<1>1. AllFinishedLast(client.pending)'
  <2>1. AllFinishedLast(client.pending) /\ client' = client
    BY DEF TlsInv, FlightGenuine
  <2> QED
    BY <2>1, FinishedLastStays DEF AllFinishedLast
<1>2. HandshakeKeyed' /\ PeerOnly' /\ FinishedAgrees'
  BY DEF TlsInv, HandshakeKeyed, PeerOnly, FinishedAgrees, Tls!Hooked
<1>3. ClientNoted'
  BY DEF TlsInv, ClientNoted, Heard, Tls!Before
<1>4. Tls!EstablishedIsAuthentic'
  BY DEF TlsInv, FinishedAgrees, Tls!EstablishedIsAuthentic, Tls!Hooked, Tls!Before
<1> QED
  BY <1>1, <1>2, <1>3, <1>4 DEF TlsInv, FlightGenuine

\* The records on the wire as more join them.
LEMMA WireExtends ==
  ASSUME TlsInv, wire' \in Seq(TlsRecords),
         \A k \in 1 .. Len(wire') : (k \in 1 .. Len(wire) /\ wire'[k] = wire[k]) \/ RecordGenuine(wire[k])',
         FlightDone => FlightDone' /\ srv'.transcript = srv.transcript
  PROVE \A k \in 1 .. Len(wire') : RecordGenuine(wire[k])'
<1> SUFFICES ASSUME NEW k \in 1 .. Len(wire'), k \in 1 .. Len(wire), wire'[k] = wire[k]
             PROVE RecordGenuine(wire[k])'
  OBVIOUS
<1>1. RecordGenuine(wire[k])
  BY DEF TlsInv, FlightGenuine
<1> QED
  BY <1>1, FinishedLastStays DEF RecordGenuine, AllFinishedLast

LEMMA WireGrows ==
  ASSUME TlsInv, NEW r \in TlsRecords, wire' = Append(wire, r), RecordGenuine(r)',
         FlightDone => FlightDone' /\ srv'.transcript = srv.transcript
  PROVE /\ wire' \in Seq(TlsRecords)
        /\ \A k \in 1 .. Len(wire') : RecordGenuine(wire[k])'
<1>1. wire \in Seq(TlsRecords)
  BY DEF TlsInv, TlsTypes
<1>2. /\ wire' \in Seq(TlsRecords) /\ Len(wire') = Len(wire) + 1 /\ Len(wire) \in Nat
      /\ \A k \in 1 .. Len(wire) : wire'[k] = wire[k]
      /\ wire'[Len(wire) + 1] = r
  BY <1>1
<1>3. \A k \in 1 .. Len(wire') : (k \in 1 .. Len(wire) /\ wire'[k] = wire[k]) \/ RecordGenuine(wire[k])'
  BY <1>2
<1> QED
  BY <1>2, <1>3, WireExtends

LEMMA TlsServerHello ==
  ASSUME TlsInv, NEW echo \in {"zero", "sealed"}, NEW good \in BOOLEAN, Tls!ServerHello(echo, good)
  PROVE TlsInv'
<1> DEFINE r == [gen |-> 9, seq |-> 0, inner |-> echo, halves |-> <<good>>]
<1>1. r \in TlsRecords /\ RecordGenuine(r)'
  BY DEF TlsRecords, RecordGenuine
<1>2. wire' = Append(wire, r) /\ UNCHANGED <<client, profile, server>> /\ ~FlightDone
  BY DEF Tls!ServerHello, FlightDone
<1>3. srv' = [srv EXCEPT !.pc = "flight", !.transcript = Append(@, "sh")] /\ "sh" \in TlsWords
  BY DEF Tls!ServerHello, TlsWords
<1> HIDE DEF r
<1>4. /\ wire' \in Seq(TlsRecords)
      /\ \A k \in 1 .. Len(wire') : RecordGenuine(wire[k])'
  BY <1>1, <1>2, WireGrows
<1>0. srv \in TlsServers
  BY DEF TlsInv, TlsTypes
<1>6. srv' \in TlsServers /\ srv'.out = srv.out /\ srv'.pc = "flight"
  <2>1. Append(srv.transcript, "sh") \in Seq(TlsWords)
    BY <1>0, <1>3 DEF TlsServers
  <2> QED
    BY <2>1, <1>0, <1>3 DEF TlsServers
<1>5. TlsTypes'
  BY <1>2, <1>4, <1>6 DEF TlsInv, TlsTypes
<1>7. AllFinishedLast(srv.out)'
  BY <1>2, <1>6, FinishedLastStays DEF TlsInv, FlightGenuine, AllFinishedLast
<1> QED
  BY <1>2, <1>4, <1>5, <1>6, <1>7, ServerMoves

LEMMA TlsServerSays ==
  ASSUME TlsInv, NEW t \in {"ee", "cert", "cv", "fin", "nst", "ku"}, NEW good \in BOOLEAN, Tls!ServerSays(t, good)
  PROVE TlsInv'
<1> DEFINE m == [t |-> t, good |-> good, over |-> srv.transcript]
           two == << [m |-> m, half |-> 1], [m |-> m, half |-> 2] >>
           lg == IF Len(srv.log) < 4 /\ t = Tls!HonestOrder[Len(srv.log) + 1] THEN Append(srv.log, t) ELSE srv.log
           p == IF t = "fin" THEN "finished" ELSE "flight"
<1>0. srv.transcript \in Seq(TlsWords) /\ srv.out \in Seq(TlsHalves) /\ srv.log \in Seq(TlsWords)
      /\ t \in TlsWords
  BY DEF TlsInv, TlsTypes, TlsServers, TlsWords
<1>1. two \in Seq(TlsHalves)
  <2>1. [m |-> m, half |-> 1] \in TlsHalves /\ [m |-> m, half |-> 2] \in TlsHalves
    BY <1>0 DEF TlsHalves
  <2> QED
    BY <2>1
<1>2. UNCHANGED <<wire, client, profile, server>> /\ ~FlightDone
  BY DEF Tls!ServerSays, FlightDone
<1>3. srv' = [srv EXCEPT !.out = srv.out \o two, !.transcript = Append(srv.transcript, t), !.msgs = srv.msgs + 1,
                         !.log = lg, !.pc = p]
  BY DEF Tls!ServerSays
<1>4. lg \in Seq(TlsWords) /\ p \in {"finished", "flight"}
  BY <1>0
<1> HIDE DEF lg
<1>5. srv' \in TlsServers /\ srv'.out = srv.out \o two /\ srv'.transcript = Append(srv.transcript, t) /\ srv'.pc = p
  <2>1. srv.out \o two \in Seq(TlsHalves) /\ Append(srv.transcript, t) \in Seq(TlsWords)
    BY <1>0, <1>1
  <2>2. srv \in TlsServers
    BY DEF TlsInv, TlsTypes
  <2> DEFINE o == srv.out \o two
             tr == Append(srv.transcript, t)
             n == srv.msgs + 1
  <2> HIDE DEF two, p, o, tr, n
  <2>3. srv' = [srv EXCEPT !.out = o, !.transcript = tr, !.msgs = n, !.log = lg, !.pc = p]
    BY <1>3 DEF o, tr, n
  <2>4. o \in Seq(TlsHalves) /\ tr \in Seq(TlsWords) /\ n \in Nat
    BY <2>1, <2>2 DEF o, tr, n, TlsServers
  <2>5. srv' \in TlsServers
    <3>1. p \in {"hello", "flight", "finished", "open", "closed"}
      BY <1>4
    <3> QED
      BY <2>2, <2>3, <2>4, <3>1, <1>4 DEF TlsServers
  <2>6. srv'.out = o /\ srv'.transcript = tr /\ srv'.pc = p
    BY <2>2, <2>3 DEF TlsServers
  <2> QED
    BY <2>5, <2>6 DEF o, tr
<1>6. TlsTypes'
  BY <1>2, <1>5 DEF TlsInv, TlsTypes
<1>7. AllFinishedLast(srv.out)'
  <2>1. ASSUME NEW i \in 1 .. Len(srv.out) PROVE FinishedLast(srv.out[i])'
    <3>1. FinishedLast(srv.out[i])
      BY DEF TlsInv, FlightGenuine, AllFinishedLast
    <3>2. srv'.out[i] = srv.out[i]
      BY <1>0, <1>1, <1>5
    <3> QED
      BY <3>1, <3>2, <1>2 DEF FinishedLast
  <2>2. \A h \in {two[1], two[2]} : h.m.t = "fin" => FlightDone' /\ srv'.transcript = Append(h.m.over, "fin")
    BY <1>5 DEF FlightDone
  <2>3. /\ Len(srv'.out) = Len(srv.out) + 2 /\ Len(srv.out) \in Nat
        /\ srv'.out[Len(srv.out) + 1] = two[1] /\ srv'.out[Len(srv.out) + 2] = two[2]
    BY <1>0, <1>1, <1>5
  <2> HIDE DEF two
  <2>4. ASSUME NEW i \in 1 .. Len(srv'.out), i \notin 1 .. Len(srv.out) PROVE srv'.out[i] \in {two[1], two[2]}
    <3>1. i = Len(srv.out) + 1 \/ i = Len(srv.out) + 2
      BY <2>3, <2>4
    <3> QED
      BY <3>1, <2>3
  <2> QED
    BY <2>1, <2>2, <2>4 DEF AllFinishedLast, FinishedLast
<1>8. \A k \in 1 .. Len(wire') : RecordGenuine(wire[k])'
  BY <1>2, <1>6, WireExtends DEF TlsTypes
<1> QED
  BY <1>2, <1>4, <1>5, <1>6, <1>7, <1>8, ServerMoves

LEMMA TlsServerFlushes ==
  ASSUME TlsInv, NEW n \in 1 .. 3, Tls!ServerFlushes(n)
  PROVE TlsInv'
<1> DEFINE hs == SubSeq(srv.out, 1, n)
           r == [gen |-> 0, seq |-> srv.wSeq, inner |-> "handshake", halves |-> hs]
           o == SubSeq(srv.out, n + 1, Len(srv.out))
<1>1. srv \in TlsServers /\ srv.out \in Seq(TlsHalves) /\ srv.wSeq \in Nat /\ n \in 1 .. Len(srv.out)
      /\ AllFinishedLast(srv.out)
  BY DEF TlsInv, TlsTypes, TlsServers, Tls!ServerFlushes, FlightGenuine
<1>2. /\ hs \in Seq(TlsHalves) /\ Len(hs) = n /\ \A i \in 1 .. n : hs[i] = srv.out[i]
      /\ o \in Seq(TlsHalves) /\ Len(o) = Len(srv.out) - n /\ \A i \in 1 .. Len(o) : o[i] = srv.out[n + i]
  BY <1>1
<1>3. AllFinishedLast(hs) /\ AllFinishedLast(o)
  <2> HIDE DEF hs, o
  <2> QED
    BY <1>1, <1>2 DEF AllFinishedLast
<1>4. /\ wire' = Append(wire, r) /\ UNCHANGED <<client, profile, server>>
      /\ srv' = [srv EXCEPT !.out = o, !.wSeq = srv.wSeq + 1]
  BY DEF Tls!ServerFlushes, Tls!Rec
<1> HIDE DEF hs, o
<1>5. r \in TlsRecords
  BY <1>1, <1>2 DEF TlsRecords
<1>6. srv' \in TlsServers
  <2>1. srv.wSeq + 1 \in Nat
    BY <1>1
  <2> QED
    BY <2>1, <1>1, <1>2, <1>4 DEF TlsServers
<1>7. srv'.out = o /\ srv'.pc = srv.pc /\ srv'.transcript = srv.transcript /\ srv'.wGen = srv.wGen
  BY <1>1, <1>4 DEF TlsServers
<1>8. FlightDone' = FlightDone
  BY <1>7 DEF FlightDone
<1>9. PICK rec \in TlsRecords : rec = r
  BY <1>5
<1>13. AllFinishedLast(srv.out)' /\ RecordGenuine(rec)'
  <2>1. AllFinishedLast(rec.halves) /\ rec.halves \in Seq(TlsHalves)
    BY <1>2, <1>3, <1>9
  <2>2. AllFinishedLast(srv.out)'
    BY <1>3, <1>7, <1>8, FinishedLastStays DEF AllFinishedLast
  <2> QED
    BY <2>1, <2>2, <1>7, <1>8, FinishedLastStays DEF AllFinishedLast, RecordGenuine
<1> HIDE DEF r
<1>10. wire' \in Seq(TlsRecords) /\ \A k \in 1 .. Len(wire') : RecordGenuine(wire[k])'
  BY <1>4, <1>7, <1>8, <1>9, <1>13, WireGrows
<1>11. TlsTypes'
  BY <1>4, <1>6, <1>10 DEF TlsInv, TlsTypes
<1>12. srv'.pc = "open" => srv'.wGen > 0
  BY <1>7 DEF TlsInv, HandshakeKeyed
<1> QED
  BY <1>4, <1>7, <1>8, <1>10, <1>11, <1>12, <1>13, ServerMoves

LEMMA TlsServerSwitches ==
  ASSUME TlsInv, Tls!ServerSwitches
  PROVE TlsInv'
<1>1. srv \in TlsServers
  BY DEF TlsInv, TlsTypes
<1>2. UNCHANGED <<wire, client, profile, server>> /\ srv' = [srv EXCEPT !.pc = "open", !.wGen = 1, !.wSeq = 0]
  BY DEF Tls!ServerSwitches
<1>3. srv' \in TlsServers
  BY <1>1, <1>2 DEF TlsServers
<1>4. srv'.pc = "open" /\ srv'.wGen > 0 /\ srv'.out = srv.out /\ srv'.transcript = srv.transcript
  BY <1>1, <1>2 DEF TlsServers
<1>5. FlightDone'
  BY <1>4 DEF FlightDone
<1>6. AllFinishedLast(srv.out)'
  BY <1>4, <1>5, FinishedLastStays DEF TlsInv, FlightGenuine, AllFinishedLast
<1>7. TlsTypes'
  BY <1>2, <1>3 DEF TlsInv, TlsTypes
<1>8. \A k \in 1 .. Len(wire') : RecordGenuine(wire[k])'
  BY <1>2, <1>4, <1>5, <1>7, WireExtends DEF TlsTypes
<1> QED
  BY <1>2, <1>4, <1>5, <1>6, <1>7, <1>8, ServerMoves

LEMMA TlsServerReads ==
  ASSUME TlsInv, Tls!ServerReads
  PROVE TlsInv'
<1>1. srv \in TlsServers
  BY DEF TlsInv, TlsTypes
<1>2. /\ UNCHANGED <<wire, client, profile, server>>
      /\ \/ srv' = [srv EXCEPT !.failed = TRUE]
         \/ srv' = [srv EXCEPT !.rGen = srv.rGen + 1, !.rSeq = 0]
         \/ srv' = [srv EXCEPT !.rSeq = srv.rSeq + 1]
  BY DEF Tls!ServerReads
<1>3. srv' \in TlsServers
  <2>1. srv.rGen + 1 \in Nat /\ srv.rSeq + 1 \in Nat
    BY <1>1 DEF TlsServers
  <2>2. CASE srv' = [srv EXCEPT !.failed = TRUE]
    BY <2>2, <1>1 DEF TlsServers
  <2>3. CASE srv' = [srv EXCEPT !.rGen = srv.rGen + 1, !.rSeq = 0]
    BY <2>1, <2>3, <1>1 DEF TlsServers
  <2>4. CASE srv' = [srv EXCEPT !.rSeq = srv.rSeq + 1]
    BY <2>1, <2>4, <1>1 DEF TlsServers
  <2> QED
    BY <2>2, <2>3, <2>4, <1>2
<1>4. srv'.pc = srv.pc /\ srv'.wGen = srv.wGen /\ srv'.out = srv.out /\ srv'.transcript = srv.transcript
  BY <1>1, <1>2 DEF TlsServers
<1>5. FlightDone' = FlightDone
  BY <1>4 DEF FlightDone
<1>6. AllFinishedLast(srv.out)'
  BY <1>4, <1>5, FinishedLastStays DEF TlsInv, FlightGenuine, AllFinishedLast
<1>7. TlsTypes'
  BY <1>2, <1>3 DEF TlsInv, TlsTypes
<1>8. \A k \in 1 .. Len(wire') : RecordGenuine(wire[k])'
  BY <1>2, <1>4, <1>5, <1>7, WireExtends DEF TlsTypes
<1>9. srv'.pc = "open" => srv'.wGen > 0
  BY <1>4 DEF TlsInv, HandshakeKeyed
<1> QED
  BY <1>2, <1>4, <1>5, <1>6, <1>7, <1>8, <1>9, ServerMoves

LEMMA TlsServerSends ==
  ASSUME TlsInv, NEW kind \in {"data", "nst", "ku", "kuAsk", "close"}, NEW split \in BOOLEAN,
         Tls!ServerSends(kind, split)
  PROVE TlsInv'
<1> DEFINE m == [t |-> kind, good |-> TRUE, over |-> <<>>]
           inner == IF kind \in {"data", "close"} THEN kind ELSE "handshake"
           h1 == [m |-> m, half |-> 1]
           h2 == [m |-> m, half |-> 2]
           one == [gen |-> srv.wGen, seq |-> srv.wSeq, inner |-> inner, halves |-> <<h1, h2>>]
           first == [gen |-> srv.wGen, seq |-> srv.wSeq, inner |-> inner, halves |-> <<h1>>]
           second == [gen |-> srv.wGen, seq |-> srv.wSeq + 1, inner |-> inner, halves |-> <<h2>>]
<1>1. srv \in TlsServers /\ srv.wGen \in Nat /\ srv.wSeq \in Nat /\ srv.wGen > 0 /\ srv.pc = "open"
      /\ wire \in Seq(TlsRecords)
  BY DEF TlsInv, TlsTypes, TlsServers, Tls!ServerSends, HandshakeKeyed
<1>2. h1 \in TlsHalves /\ h2 \in TlsHalves
  BY DEF TlsHalves, TlsWords
<1>3. one \in TlsRecords /\ first \in TlsRecords /\ second \in TlsRecords
  <2>1. <<h1, h2>> \in Seq(TlsHalves) /\ <<h1>> \in Seq(TlsHalves) /\ <<h2>> \in Seq(TlsHalves)
    BY <1>2
  <2>2. inner \in {"zero", "sealed", "handshake", "data", "close"}
    OBVIOUS
  <2> HIDE DEF h1, h2, inner
  <2> QED
    BY <2>1, <2>2, <1>1 DEF TlsRecords
<1>4. one.gen > 0 /\ first.gen > 0 /\ second.gen > 0
  BY <1>1
<1>5. wire' = (IF split THEN wire \o <<first, second>> ELSE Append(wire, one)) /\ UNCHANGED <<client, profile, server>>
  BY DEF Tls!ServerSends, Tls!Rec
<1> DEFINE update == kind \in {"ku", "kuAsk"}
           g == IF update THEN srv.wGen + 1 ELSE srv.wGen
           q == IF update THEN 0 ELSE IF split THEN srv.wSeq + 2 ELSE srv.wSeq + 1
           a == IF kind = "kuAsk" THEN srv.asked + 1 ELSE srv.asked
           p == IF kind = "close" THEN "closed" ELSE srv.pc
<1>6. srv' = [srv EXCEPT !.wGen = g, !.wSeq = q, !.asked = a, !.pc = p]
  BY DEF Tls!ServerSends
<1>7. g \in Nat /\ g > 0 /\ q \in Nat /\ a \in Nat /\ p \in {"open", "closed"}
  BY <1>1 DEF TlsServers
<1> HIDE DEF g, q, a, p, one, first, second
<1>8. srv' \in TlsServers
  BY <1>1, <1>6, <1>7 DEF TlsServers
<1>9. srv'.pc = p /\ srv'.wGen = g /\ srv'.out = srv.out /\ srv'.transcript = srv.transcript
  BY <1>1, <1>6 DEF TlsServers
<1>10. FlightDone'
  BY <1>7, <1>9 DEF FlightDone
<1>11. /\ wire' \in Seq(TlsRecords)
       /\ \A k \in 1 .. Len(wire') : (k \in 1 .. Len(wire) /\ wire'[k] = wire[k]) \/ wire'[k].gen > 0
  <2>1. CASE split
    <3>1. wire' = wire \o <<first, second>>
      BY <2>1, <1>5
    <3>2. /\ wire' \in Seq(TlsRecords) /\ Len(wire') = Len(wire) + 2 /\ Len(wire) \in Nat
          /\ \A k \in 1 .. Len(wire) : wire'[k] = wire[k]
          /\ wire'[Len(wire) + 1] = first /\ wire'[Len(wire) + 2] = second
      BY <3>1, <1>1, <1>3, TwoMore
    <3>3. \A k \in 1 .. Len(wire') : k \in 1 .. Len(wire) \/ k = Len(wire) + 1 \/ k = Len(wire) + 2
      BY <3>2
    <3> QED
      BY <3>2, <3>3, <1>4
  <2>2. CASE ~split
    <3>1. wire' = Append(wire, one)
      BY <2>2, <1>5
    <3>2. /\ wire' \in Seq(TlsRecords) /\ Len(wire') = Len(wire) + 1 /\ Len(wire) \in Nat
          /\ \A k \in 1 .. Len(wire) : wire'[k] = wire[k]
          /\ wire'[Len(wire) + 1] = one
      BY <3>1, <1>1, <1>3
    <3>3. \A k \in 1 .. Len(wire') : k \in 1 .. Len(wire) \/ k = Len(wire) + 1
      BY <3>2
    <3> QED
      BY <3>2, <3>3, <1>4
  <2> QED
    BY <2>1, <2>2
<1>12. \A k \in 1 .. Len(wire') : RecordGenuine(wire[k])'
  BY <1>9, <1>10, <1>11, WireExtends DEF RecordGenuine
<1>13. AllFinishedLast(srv.out)'
  BY <1>9, <1>10, FinishedLastStays DEF TlsInv, FlightGenuine, AllFinishedLast
<1>14. TlsTypes'
  BY <1>5, <1>8, <1>11 DEF TlsInv, TlsTypes
<1> QED
  BY <1>5, <1>7, <1>9, <1>10, <1>12, <1>13, <1>14, ServerMoves

\* What a step of the client owes the invariant.
LEMMA ClientMoves ==
  ASSUME TlsInv, UNCHANGED <<srv, profile, server>>, client' \in TlsClients,
         wire' = wire \/ (wire # <<>> /\ wire' = Tail(wire)),
         AllFinishedLast(client'.pending), HandshakeKeyed', ClientNoted', PeerOnly', FinishedAgrees',
         Tls!EstablishedIsAuthentic'
  PROVE TlsInv'
<1>1. wire \in Seq(TlsRecords) /\ \A k \in 1 .. Len(wire) : RecordGenuine(wire[k])
  BY DEF TlsInv, TlsTypes, FlightGenuine
<1>2. wire' \in Seq(TlsRecords) /\ \A k \in 1 .. Len(wire') : RecordGenuine(wire'[k])
  <2>1. CASE wire' = wire
    BY <2>1, <1>1
  <2>2. CASE wire # <<>> /\ wire' = Tail(wire)
    <3>1. wire' \in Seq(TlsRecords) /\ \A k \in 1 .. Len(wire') : k + 1 \in 1 .. Len(wire) /\ wire'[k] = wire[k + 1]
      BY <2>2, <1>1
    <3> QED
      BY <3>1, <1>1
  <2> QED
    BY <2>1, <2>2
<1>3. TlsTypes'
  BY <1>2 DEF TlsInv, TlsTypes
<1>4. FlightGenuine'
  BY <1>2 DEF TlsInv, FlightGenuine, AllFinishedLast, RecordGenuine, FinishedLast, FlightDone
<1> QED
  BY <1>3, <1>4 DEF TlsInv

\* A client that gives up.
LEMMA ClientFails ==
  ASSUME TlsInv, UNCHANGED <<srv, profile, server>>,
         NEW why \in {"hello", "echo", "record", "certificate", "idle", "timeout"}, Tls!Fail(why),
         wire' = wire \/ (wire # <<>> /\ wire' = Tail(wire))
  PROVE TlsInv'
<1>1. client \in TlsClients /\ client' = [client EXCEPT !.pc = "failed", !.end = why]
  BY DEF TlsInv, TlsTypes, Tls!Fail
<1>2. client' \in TlsClients
  BY <1>1 DEF TlsClients
<1>3. /\ client'.pc = "failed" /\ client'.pending = client.pending /\ client'.transcript = client.transcript
      /\ client'.cert = client.cert /\ client'.cv = client.cv
  BY <1>1 DEF TlsClients
<1>4. HandshakeKeyed' /\ FinishedAgrees' /\ Tls!EstablishedIsAuthentic'
  BY <1>3 DEF TlsInv, HandshakeKeyed, FinishedAgrees, Tls!EstablishedIsAuthentic
<1>5. ClientNoted' /\ PeerOnly'
  BY <1>3 DEF TlsInv, ClientNoted, PeerOnly, Heard, Tls!Before, Tls!Hooked
<1>6. AllFinishedLast(client'.pending)
  BY <1>3 DEF TlsInv, FlightGenuine
<1> QED
  BY <1>2, <1>4, <1>5, <1>6, ClientMoves

LEMMA TlsOnServerHello ==
  ASSUME TlsInv, Tls!OnServerHello
  PROVE TlsInv'
<1>1. client.pc = "hello" /\ wire # <<>> /\ wire' = Tail(wire) /\ UNCHANGED <<srv, profile, server>>
  BY DEF Tls!OnServerHello
<1>2. CASE Tls!Fail("hello") \/ Tls!Fail("echo")
  BY <1>1, <1>2, ClientFails
<1>3. CASE client' = [client EXCEPT !.pc = "flight", !.transcript = Append(@, "sh")]
  <2>1. client \in TlsClients /\ "sh" \in TlsWords
    BY DEF TlsInv, TlsTypes, TlsWords
  <2> DEFINE tr == Append(client.transcript, "sh")
  <2>2. tr \in Seq(TlsWords) /\ client.transcript \in Seq(TlsWords)
    BY <2>1 DEF TlsClients
  <2>3. client' = [client EXCEPT !.pc = "flight", !.transcript = tr]
    BY <1>3
  <2> HIDE DEF tr
  <2>4. client' \in TlsClients
    BY <2>1, <2>2, <2>3 DEF TlsClients
  <2>5. /\ client'.pc = "flight" /\ client'.pending = client.pending /\ client'.transcript = tr
        /\ client'.cert = client.cert /\ client'.cv = client.cv /\ client'.rGen = client.rGen
    BY <2>1, <2>3 DEF TlsClients
  <2>6. HandshakeKeyed' /\ FinishedAgrees' /\ Tls!EstablishedIsAuthentic' /\ PeerOnly'
    BY <1>1, <2>5 DEF TlsInv, HandshakeKeyed, FinishedAgrees, Tls!EstablishedIsAuthentic,
       PeerOnly, Tls!Hooked
  <2>7. /\ Heard(client.transcript, "cert") => Heard(tr, "cert")
        /\ Tls!Before(client.transcript, "cert", "cv") => Tls!Before(tr, "cert", "cv")
    BY <2>1, <2>2, HeardGrows DEF tr
  <2>8. ClientNoted'
    BY <2>5, <2>7 DEF TlsInv, ClientNoted, Heard, Tls!Before
  <2>9. AllFinishedLast(client'.pending)
    BY <2>5 DEF TlsInv, FlightGenuine
  <2> QED
    BY <1>1, <2>4, <2>6, <2>8, <2>9, ClientMoves
<1> QED
  BY <1>2, <1>3 DEF Tls!OnServerHello

LEMMA TlsReadFlight ==
  ASSUME TlsInv, Tls!ReadFlight
  PROVE TlsInv'
<1>1. client.pc = "flight" /\ wire # <<>> /\ wire' = Tail(wire) /\ UNCHANGED <<srv, profile, server>>
  BY DEF Tls!ReadFlight
<1>2. CASE Tls!Fail("record")
  BY <1>1, <1>2, ClientFails
<1>3. CASE /\ Tls!Opens(Head(wire)) /\ Tls!Unwraps
           /\ client' = [client EXCEPT !.pending = @ \o Head(wire).halves, !.rSeq = @ + 1]
  <2>1. client \in TlsClients /\ wire \in Seq(TlsRecords) /\ client.pending \in Seq(TlsHalves) /\ client.rSeq + 1 \in Nat
    BY DEF TlsInv, TlsTypes, TlsClients
  <2>2. Head(wire) = wire[1] /\ 1 \in 1 .. Len(wire)
    BY <1>1, <2>1
  <2>3. wire[1].gen = 0
    BY <1>1, <1>3, <2>2 DEF TlsInv, HandshakeKeyed, Tls!Opens
  <2>4. wire[1].halves \in Seq(TlsHalves) /\ AllFinishedLast(wire[1].halves) /\ AllFinishedLast(client.pending)
    BY <2>2, <2>3 DEF TlsInv, FlightGenuine, RecordGenuine
  <2> DEFINE hs == wire[1].halves
             ps == client.pending
             q == ps \o hs
             n == client.rSeq + 1
  <2>5. client' = [client EXCEPT !.pending = q, !.rSeq = n] /\ n \in Nat
    BY <1>3, <2>1, <2>2
  <2> HIDE DEF hs, ps, n
  <2>6. q \in Seq(TlsHalves) /\ AllFinishedLast(q)
    <3>1. ps \in Seq(TlsHalves) /\ hs \in Seq(TlsHalves) /\ AllFinishedLast(hs) /\ AllFinishedLast(ps)
      BY <2>1, <2>4 DEF ps, hs
    <3>2. /\ q \in Seq(TlsHalves) /\ Len(q) = Len(ps) + Len(hs) /\ Len(ps) \in Nat /\ Len(hs) \in Nat
          /\ \A i \in 1 .. Len(q) : q[i] = IF i =< Len(ps) THEN ps[i] ELSE hs[i - Len(ps)]
      BY <3>1
    <3> HIDE DEF q
    <3>3. \A i \in 1 .. Len(q) : i \in 1 .. Len(ps) \/ (~(i =< Len(ps)) /\ i - Len(ps) \in 1 .. Len(hs))
      BY <3>2
    <3>4. ASSUME NEW i \in 1 .. Len(q) PROVE FinishedLast(q[i])
      <4>1. CASE i \in 1 .. Len(ps)
        <5>1. q[i] = ps[i]
          BY <4>1, <3>2
        <5> QED
          BY <4>1, <5>1, <3>1 DEF AllFinishedLast
      <4>2. CASE ~(i =< Len(ps)) /\ i - Len(ps) \in 1 .. Len(hs)
        <5>1. q[i] = hs[i - Len(ps)]
          BY <4>2, <3>2
        <5> QED
          BY <4>2, <5>1, <3>1 DEF AllFinishedLast
      <4> QED
        BY <4>1, <4>2, <3>3
    <3> QED
      BY <3>2, <3>4 DEF AllFinishedLast
  <2> HIDE DEF q
  <2>7. client' \in TlsClients
    BY <2>1, <2>5, <2>6 DEF TlsClients
  <2>8. /\ client'.pc = client.pc /\ client'.pending = q /\ client'.transcript = client.transcript
        /\ client'.cert = client.cert /\ client'.cv = client.cv /\ client'.rGen = client.rGen
    BY <2>1, <2>5 DEF TlsClients
  <2>9. HandshakeKeyed' /\ FinishedAgrees' /\ Tls!EstablishedIsAuthentic'
    BY <1>1, <2>8 DEF TlsInv, HandshakeKeyed, FinishedAgrees, Tls!EstablishedIsAuthentic
  <2>10. ClientNoted'
    BY <2>8 DEF TlsInv, ClientNoted, Heard, Tls!Before
  <2>11. PeerOnly'
    BY <1>1, <1>3, <2>8 DEF TlsInv, PeerOnly, Tls!Unwraps, Tls!Hooked
  <2>12. AllFinishedLast(client'.pending)
    BY <2>6, <2>8
  <2> QED
    BY <1>1, <2>7, <2>9, <2>10, <2>11, <2>12, ClientMoves
<1> QED
  BY <1>2, <1>3 DEF Tls!ReadFlight

\* What a message of the flight does to the client.
LEMMA MessageTaken ==
  ASSUME NEW c \in TlsClients, NEW m \in [t : TlsWords, good : BOOLEAN, over : Seq(TlsWords)], c.pc = "flight"
  PROVE LET d == Tls!OnMessage(c, m)
        IN  /\ d \in TlsClients /\ d.pending = c.pending /\ d.rGen = c.rGen /\ d.wGen = c.wGen /\ d.wSeq = c.wSeq
            /\ d.pc \in {"flight", "failed", "finish"}
            /\ \/ /\ d.transcript = c.transcript /\ d.cert = c.cert /\ d.cv = c.cv
                  /\ d.pc = "finish" => m.t = "fin" /\ m.over = c.transcript
               \/ /\ d.pc = "flight" /\ d.transcript = Append(c.transcript, "ee") /\ d.cert = c.cert /\ d.cv = c.cv
               \/ /\ d.pc = "flight" /\ d.transcript = Append(c.transcript, "cert") /\ d.cv = c.cv
                  /\ profile = "reality" => server = "peer"
               \/ /\ d.pc = "flight" /\ d.transcript = Append(c.transcript, "cv") /\ d.cert = c.cert
                  /\ c.cert # "none"
<1> DEFINE d == Tls!OnMessage(c, m)
           tr(w) == Append(c.transcript, w)
<1>1. tr("ee") \in Seq(TlsWords) /\ tr("cert") \in Seq(TlsWords) /\ tr("cv") \in Seq(TlsWords)
  BY DEF TlsClients, TlsWords
<1>2. \/ d = [c EXCEPT !.pc = "failed"]
      \/ d = c
      \/ d = [c EXCEPT !.ee = TRUE, !.transcript = tr("ee")]
      \/ d = [c EXCEPT !.cert = "verified", !.transcript = tr("cert")] /\ (profile = "reality" => server = "peer")
      \/ d = [c EXCEPT !.cv = TRUE, !.transcript = tr("cv")] /\ c.cert # "none"
      \/ d = [c EXCEPT !.pc = "finish"] /\ m.t = "fin" /\ m.over = c.transcript
  <2>1. CASE m.t = "ee"
    BY <2>1 DEF Tls!OnMessage, Tls!OnEncryptedExtensions
  <2>2. CASE m.t = "cert"
    BY <2>2 DEF Tls!OnMessage, Tls!OnCertificate, Tls!VerifyCertificate
  <2>3. CASE m.t = "cv"
    BY <2>3 DEF Tls!OnMessage, Tls!OnCertificateVerify
  <2>4. CASE m.t = "fin"
    BY <2>4 DEF Tls!OnMessage, Tls!OnFinished, Tls!Proves
  <2>5. CASE m.t = "nst"
    BY <2>5 DEF Tls!OnMessage
  <2>6. CASE m.t \notin {"ee", "cert", "cv", "fin", "nst"}
    BY <2>6 DEF Tls!OnMessage
  <2> QED
    BY <2>1, <2>2, <2>3, <2>4, <2>5, <2>6
<1> HIDE DEF d
<1>3. CASE d = [c EXCEPT !.pc = "failed"]
  <2>1. /\ d \in TlsClients /\ d.pending = c.pending /\ d.rGen = c.rGen /\ d.wGen = c.wGen /\ d.wSeq = c.wSeq /\ d.pc = "failed"
        /\ d.transcript = c.transcript /\ d.cert = c.cert /\ d.cv = c.cv
    BY <1>3 DEF TlsClients
  <2> QED
    BY <2>1 DEF d
<1>4. CASE d = c
  BY <1>4 DEF d
<1>5. CASE d = [c EXCEPT !.ee = TRUE, !.transcript = tr("ee")]
  <2> HIDE DEF tr
  <2>1. /\ d \in TlsClients /\ d.pending = c.pending /\ d.rGen = c.rGen /\ d.wGen = c.wGen /\ d.wSeq = c.wSeq /\ d.pc = c.pc
        /\ d.transcript = tr("ee") /\ d.cert = c.cert /\ d.cv = c.cv
    BY <1>1, <1>5 DEF TlsClients
  <2> QED
    BY <2>1 DEF d, tr
<1>6. CASE /\ d = [c EXCEPT !.cert = "verified", !.transcript = tr("cert")]
           /\ profile = "reality" => server = "peer"
  <2> HIDE DEF tr
  <2>1. /\ d \in TlsClients /\ d.pending = c.pending /\ d.rGen = c.rGen /\ d.wGen = c.wGen /\ d.wSeq = c.wSeq /\ d.pc = c.pc
        /\ d.transcript = tr("cert") /\ d.cv = c.cv
    BY <1>1, <1>6 DEF TlsClients
  <2> QED
    BY <1>6, <2>1 DEF d, tr
<1>7. CASE d = [c EXCEPT !.cv = TRUE, !.transcript = tr("cv")] /\ c.cert # "none"
  <2> HIDE DEF tr
  <2>1. /\ d \in TlsClients /\ d.pending = c.pending /\ d.rGen = c.rGen /\ d.wGen = c.wGen /\ d.wSeq = c.wSeq /\ d.pc = c.pc
        /\ d.transcript = tr("cv") /\ d.cert = c.cert
    BY <1>1, <1>7 DEF TlsClients
  <2> QED
    BY <1>7, <2>1 DEF d, tr
<1>8. CASE d = [c EXCEPT !.pc = "finish"] /\ m.t = "fin" /\ m.over = c.transcript
  <2>1. /\ d \in TlsClients /\ d.pending = c.pending /\ d.rGen = c.rGen /\ d.wGen = c.wGen /\ d.wSeq = c.wSeq /\ d.pc = "finish"
        /\ d.transcript = c.transcript /\ d.cert = c.cert /\ d.cv = c.cv
    BY <1>8 DEF TlsClients
  <2> QED
    BY <1>8, <2>1 DEF d
<1> QED
  BY <1>2, <1>3, <1>4, <1>5, <1>6, <1>7, <1>8

LEMMA TlsHandleMessage ==
  ASSUME TlsInv, Tls!HandleMessage
  PROVE TlsInv'
<1> DEFINE ps == SubSeq(client.pending, 3, Len(client.pending))
           c == [client EXCEPT !.pending = ps]
           m == client.pending[1].m
           d == Tls!OnMessage(c, m)
           w == IF d.end = "-" THEN "message" ELSE d.end
<1>1. client.pc = "flight" /\ Len(client.pending) >= 2 /\ UNCHANGED <<wire, srv, profile, server>>
  BY DEF Tls!HandleMessage
<1>2. client' = [d EXCEPT !.end = w]
  BY DEF Tls!HandleMessage
<1>3. client \in TlsClients /\ client.pending \in Seq(TlsHalves) /\ client.transcript \in Seq(TlsWords)
      /\ AllFinishedLast(client.pending)
  BY DEF TlsInv, TlsTypes, TlsClients, FlightGenuine
<1>4. ps \in Seq(TlsHalves) /\ AllFinishedLast(ps)
  <2>1. ps \in Seq(TlsHalves) /\ \A i \in 1 .. Len(ps) : i + 2 \in 1 .. Len(client.pending) /\ ps[i] = client.pending[i + 2]
    BY <1>1, <1>3
  <2> QED
    BY <2>1, <1>3 DEF AllFinishedLast
<1>5. client.pending[1] \in TlsHalves /\ FinishedLast(client.pending[1]) /\ client.pending # <<>>
  BY <1>1, <1>3 DEF AllFinishedLast
<1>6. m \in [t : TlsWords, good : BOOLEAN, over : Seq(TlsWords)]
      /\ (m.t = "fin" => FlightDone /\ srv.transcript = Append(m.over, "fin"))
  BY <1>5 DEF TlsHalves, FinishedLast
<1> HIDE DEF ps
<1>7. /\ c \in TlsClients /\ c.pending = ps /\ c.pc = "flight" /\ c.transcript = client.transcript
      /\ c.cert = client.cert /\ c.cv = client.cv /\ c.rGen = client.rGen
  BY <1>1, <1>3, <1>4 DEF TlsClients
<1> HIDE DEF c, m
<1>8. /\ d \in TlsClients /\ d.pending = c.pending /\ d.rGen = c.rGen
      /\ d.pc \in {"flight", "failed", "finish"}
      /\ \/ /\ d.transcript = c.transcript /\ d.cert = c.cert /\ d.cv = c.cv
            /\ d.pc = "finish" => m.t = "fin" /\ m.over = c.transcript
         \/ /\ d.pc = "flight" /\ d.transcript = Append(c.transcript, "ee") /\ d.cert = c.cert /\ d.cv = c.cv
         \/ /\ d.pc = "flight" /\ d.transcript = Append(c.transcript, "cert") /\ d.cv = c.cv
            /\ profile = "reality" => server = "peer"
         \/ /\ d.pc = "flight" /\ d.transcript = Append(c.transcript, "cv") /\ d.cert = c.cert
            /\ c.cert # "none"
  BY <1>6, <1>7, MessageTaken
<1> HIDE DEF d
<1>9. w \in {"-", "hello", "echo", "record", "message", "certificate", "idle", "timeout"}
  BY <1>8 DEF TlsClients
<1> HIDE DEF w
<1>10. /\ client' \in TlsClients /\ client'.pending = ps /\ client'.rGen = client.rGen /\ client'.pc = d.pc
       /\ client'.transcript = d.transcript /\ client'.cert = d.cert /\ client'.cv = d.cv
  BY <1>2, <1>7, <1>8, <1>9 DEF TlsClients
<1>11. HandshakeKeyed' /\ Tls!EstablishedIsAuthentic'
  BY <1>1, <1>8, <1>10 DEF TlsInv, HandshakeKeyed, Tls!EstablishedIsAuthentic
<1>12. FinishedAgrees'
  <2>1. client'.pc # "open"
    BY <1>8, <1>10
  <2>2. client'.pc = "finish" => FlightDone /\ srv.transcript = Append(client'.transcript, "fin")
    BY <1>6, <1>7, <1>8, <1>10
  <2> QED
    BY <2>1, <2>2, <1>1 DEF FinishedAgrees, FlightDone
<1>13. ClientNoted'
  <2> DEFINE tr == client.transcript
  <2>1. /\ client.cert # "none" => Heard(tr, "cert")
        /\ client.cv => Tls!Before(tr, "cert", "cv")
    BY DEF TlsInv, ClientNoted
  <2>2. /\ \A x \in {"ee", "cert", "cv"} :
             /\ Heard(tr, "cert") => Heard(Append(tr, x), "cert")
             /\ Tls!Before(tr, "cert", "cv") => Tls!Before(Append(tr, x), "cert", "cv")
        /\ Heard(Append(tr, "cert"), "cert")
        /\ Heard(tr, "cert") => Tls!Before(Append(tr, "cv"), "cert", "cv")
    <3>1. tr \in Seq(TlsWords) /\ {"ee", "cert", "cv"} \subseteq TlsWords
      BY <1>3 DEF TlsWords
    <3> HIDE DEF tr
    <3> QED
      BY <3>1, HeardGrows
  <2>3. /\ d.cert # "none" => Heard(d.transcript, "cert")
        /\ d.cv => Tls!Before(d.transcript, "cert", "cv")
    BY <2>1, <2>2, <1>7, <1>8
  <2> QED
    BY <2>3, <1>10 DEF ClientNoted, Heard, Tls!Before
<1>14. PeerOnly'
  BY <1>1, <1>5, <1>7, <1>8, <1>10 DEF TlsInv, PeerOnly, Tls!Hooked
<1> QED
  BY <1>1, <1>4, <1>10, <1>11, <1>12, <1>13, <1>14, ClientMoves

LEMMA TlsFinish ==
  ASSUME TlsInv, Tls!Finish
  PROVE TlsInv'
<1>1. client.pc = "finish" /\ UNCHANGED <<wire, srv, profile, server>>
  BY DEF Tls!Finish
<1>2. CASE ~Tls!RequireCertificateVerify
  BY <1>1, <1>2, ClientFails DEF Tls!Finish
<1>3. CASE Tls!RequireCertificateVerify
  <2> DEFINE tr == Append(client.transcript, "fin")
  <2>1. client \in TlsClients /\ client.transcript \in Seq(TlsWords) /\ "fin" \in TlsWords
    BY DEF TlsInv, TlsTypes, TlsClients, TlsWords
  <2>2. client' = [client EXCEPT !.pc = "open", !.pending = <<>>, !.transcript = tr, !.rGen = 1, !.rSeq = 0,
                                 !.wGen = 1, !.wSeq = 0]
    BY <1>3 DEF Tls!Finish, Tls!Rekeyed, Tls!ApplicationKey, Tls!HandshakeKey
  <2>3. tr \in Seq(TlsWords) /\ <<>> \in Seq(TlsHalves)
    BY <2>1
  <2>4. tr = srv.transcript /\ FlightDone
    BY <1>1 DEF TlsInv, FinishedAgrees
  <2>5. Tls!Before(tr, "cert", "cv") /\ Tls!Before(tr, "cv", "fin") /\ Heard(tr, "cert")
    <3>1. Tls!Before(client.transcript, "cert", "cv") /\ Heard(client.transcript, "cert")
      BY <1>3 DEF Tls!RequireCertificateVerify, TlsInv, ClientNoted
    <3>2. Heard(client.transcript, "cv")
      BY <2>1, <3>1, HeardGrows
    <3> QED
      BY <2>1, <3>1, <3>2, HeardGrows
  <2> HIDE DEF tr
  <2>6. /\ client' \in TlsClients /\ client'.pc = "open" /\ client'.pending = <<>> /\ client'.transcript = tr
        /\ client'.cert = client.cert /\ client'.cv = client.cv
    BY <2>1, <2>2, <2>3 DEF TlsClients
  <2>7. HandshakeKeyed'
    BY <1>1, <2>6 DEF TlsInv, HandshakeKeyed
  <2>8. ClientNoted'
    BY <2>5, <2>6 DEF ClientNoted, Heard, Tls!Before
  <2>9. PeerOnly'
    BY <1>1, <2>6 DEF TlsInv, PeerOnly, Tls!Hooked
  <2>10. FinishedAgrees'
    BY <1>1, <2>4, <2>6 DEF FinishedAgrees, FlightDone
  <2>11. Tls!Hooked => server = "peer"
    BY <1>3 DEF TlsInv, PeerOnly, Tls!RequireCertificateVerify
  <2>12. Tls!EstablishedIsAuthentic'
    BY <1>1, <2>4, <2>5, <2>6, <2>11 DEF Tls!EstablishedIsAuthentic, Tls!Before, Tls!Hooked
  <2>13. AllFinishedLast(client'.pending)
    BY <2>6 DEF AllFinishedLast
  <2> QED
    BY <1>1, <2>6, <2>7, <2>8, <2>9, <2>10, <2>12, <2>13, ClientMoves
<1> QED
  BY <1>2, <1>3

\* The data phase adds nothing to what the handshake settled.
LEMMA TlsOpenMoves ==
  ASSUME TlsInv, UNCHANGED <<srv, profile, server>>, client.pc = "open", client' \in TlsClients,
         wire' = wire \/ (wire # <<>> /\ wire' = Tail(wire)),
         client'.pc \in {"open", "failed"}, client'.pending = client.pending,
         client'.transcript = client.transcript, client'.cert = client.cert, client'.cv = client.cv
  PROVE TlsInv'
<1>1. HandshakeKeyed' /\ FinishedAgrees'
  BY DEF TlsInv, HandshakeKeyed, FinishedAgrees, FlightDone
<1>2. Tls!EstablishedIsAuthentic'
  BY DEF TlsInv, Tls!EstablishedIsAuthentic, Tls!Hooked, Tls!Before
<1>3. ClientNoted' /\ PeerOnly'
  BY DEF TlsInv, ClientNoted, PeerOnly, Heard, Tls!Before, Tls!Hooked
<1>4. AllFinishedLast(client'.pending)
  BY DEF TlsInv, FlightGenuine
<1> QED
  BY <1>1, <1>2, <1>3, <1>4, ClientMoves

LEMMA TlsReadRecord ==
  ASSUME TlsInv, Tls!ReadRecord
  PROVE TlsInv'
<1>1. client.pc = "open" /\ wire # <<>> /\ wire' = Tail(wire) /\ UNCHANGED <<srv, profile, server>>
  BY DEF Tls!ReadRecord
<1>2. client \in TlsClients /\ client.rSeq + 1 \in Nat /\ client.rGen + 1 \in Nat
  BY DEF TlsInv, TlsTypes, TlsClients
<1> DEFINE n == client.rSeq + 1
           past == [client EXCEPT !.rSeq = n]
           g == client.rGen + 1
<1>3. /\ past \in TlsClients /\ past.pc = "open" /\ past.pending = client.pending
      /\ past.transcript = client.transcript /\ past.cert = client.cert /\ past.cv = client.cv
      /\ past.rGen = client.rGen /\ past.owes \in BOOLEAN
  <2>1. n \in Nat
    BY <1>2
  <2> HIDE DEF n
  <2> QED
    BY <2>1, <1>1, <1>2 DEF TlsClients
<1> HIDE DEF past
<1>4. \/ Tls!Fail("record")
      \/ client' = past
      \/ client' = [past EXCEPT !.closed = TRUE]
      \/ client' = [past EXCEPT !.pc = "failed", !.end = "message"]
      \/ \E due \in BOOLEAN : client' = Tls!OnKeyUpdate(past, due)
  BY DEF Tls!ReadRecord, past
<1>5. CASE Tls!Fail("record")
  BY <1>1, <1>5, ClientFails
<1>6. CASE client' = past
  BY <1>1, <1>3, <1>6, TlsOpenMoves
<1>7. CASE client' = [past EXCEPT !.closed = TRUE]
  <2>1. /\ client' \in TlsClients /\ client'.pc = "open" /\ client'.pending = client.pending
        /\ client'.transcript = client.transcript /\ client'.cert = client.cert /\ client'.cv = client.cv
    BY <1>3, <1>7 DEF TlsClients
  <2> QED
    BY <1>1, <2>1, TlsOpenMoves
<1>8. CASE client' = [past EXCEPT !.pc = "failed", !.end = "message"]
  <2>1. /\ client' \in TlsClients /\ client'.pc = "failed" /\ client'.pending = client.pending
        /\ client'.transcript = client.transcript /\ client'.cert = client.cert /\ client'.cv = client.cv
    BY <1>3, <1>8 DEF TlsClients
  <2> QED
    BY <1>1, <2>1, TlsOpenMoves
<1>9. ASSUME NEW due \in BOOLEAN, client' = Tls!OnKeyUpdate(past, due) PROVE TlsInv'
  <2> DEFINE o == past.owes \/ due
  <2>1. client' = [past EXCEPT !.rGen = g, !.rSeq = 0, !.owes = o]
    BY <1>3, <1>9 DEF Tls!OnKeyUpdate, Tls!NextTrafficSecret, Tls!Rekeyed
  <2>2. o \in BOOLEAN /\ g \in Nat
    BY <1>2, <1>3
  <2> HIDE DEF o, g
  <2>3. /\ client' \in TlsClients /\ client'.pc = "open" /\ client'.pending = client.pending
        /\ client'.transcript = client.transcript /\ client'.cert = client.cert /\ client'.cv = client.cv
    BY <1>3, <2>1, <2>2 DEF TlsClients
  <2> QED
    BY <1>1, <2>3, TlsOpenMoves
<1> QED
  BY <1>4, <1>5, <1>6, <1>7, <1>8, <1>9

LEMMA TlsWriteRecord ==
  ASSUME TlsInv, Tls!WriteRecord
  PROVE TlsInv'
<1>1. client.pc = "open" /\ UNCHANGED <<wire, srv, profile, server>>
  BY DEF Tls!WriteRecord
<1>2. client \in TlsClients
  BY DEF TlsInv, TlsTypes
<1> DEFINE g == client.wGen + 1
           q == client.wSeq + 1
<1>3. \/ client' = [client EXCEPT !.owes = FALSE, !.wGen = g, !.wSeq = 1]
      \/ client' = [client EXCEPT !.wSeq = q]
  BY DEF Tls!WriteRecord
<1>4. g \in Nat /\ q \in Nat
  BY <1>2 DEF TlsClients
<1> HIDE DEF g, q
<1>5. /\ client' \in TlsClients /\ client'.pc = "open" /\ client'.pending = client.pending
      /\ client'.transcript = client.transcript /\ client'.cert = client.cert /\ client'.cv = client.cv
  <2>1. CASE client' = [client EXCEPT !.owes = FALSE, !.wGen = g, !.wSeq = 1]
    BY <2>1, <1>1, <1>2, <1>4 DEF TlsClients
  <2>2. CASE client' = [client EXCEPT !.wSeq = q]
    BY <2>2, <1>1, <1>2, <1>4 DEF TlsClients
  <2> QED
    BY <2>1, <2>2, <1>3
<1> QED
  BY <1>1, <1>5, TlsOpenMoves

LEMMA TlsKept ==
  ASSUME TlsInv, [Tls!Next]_(Tls!vars)
  PROVE TlsInv'
<1>1. CASE Tls!ReadTimesOut
  BY <1>1, ClientFails DEF Tls!ReadTimesOut
<1>2. CASE Tls!HandshakeTimesOut
  BY <1>2, ClientFails DEF Tls!HandshakeTimesOut
<1>3. CASE UNCHANGED Tls!vars
  BY <1>3, TlsStill DEF Tls!vars, TlsParts
<1> QED
  BY <1>1, <1>2, <1>3, TlsOnServerHello, TlsReadFlight, TlsHandleMessage, TlsFinish, TlsReadRecord,
     TlsWriteRecord, TlsServerHello, TlsServerSays, TlsServerFlushes, TlsServerSwitches, TlsServerSends,
     TlsServerReads DEF Tls!Next, Tls!ClientStep

(* A stream of the TLS 1.3 client is handed out only to a server that proved  *)
(* the key of a certificate the profile accepts, and, where REALITY or        *)
(* ShadowTLS hooks the hello, only to the peer and never to the decoy; both   *)
(* ends have then finished over one transcript, whatever the server leaves    *)
(* out, repeats, reorders, splits or forges, however often (`connect`,        *)
(* verify_certificate, require_certificate_verify). What MCState checks in    *)
(* CryptoIsSound of TLS, for any number of deviations, messages and records.  *)
THEOREM EstablishedAlwaysAuthentic == Tls!Spec => []Tls!EstablishedIsAuthentic
<1>1. TlsInv => Tls!EstablishedIsAuthentic
  BY DEF TlsInv
<1> QED
  BY <1>1, TlsStart, TlsKept, PTL DEF Tls!Spec

\* The key and the number a record was sealed with, and those of the next one.
TlsReplies == [gen : Nat, seq : Nat, inner : {"fin", "ku", "data"}, halves : {<<>>}]
Place(r) == <<r.gen, r.seq>>
PlaceAfter(r) == IF r.inner \in {"fin", "ku"} THEN <<r.gen + 1, 0>> ELSE <<r.gen, r.seq + 1>>

\* The records of q follow each other from the place `from` to the place `to`.
SealedInOrder(q, from, to) ==
  /\ q \in Seq(TlsReplies)
  /\ q = <<>> => from = to
  /\ q # <<>> => Place(q[1]) = from /\ PlaceAfter(q[Len(q)]) = to
  /\ \A i \in 1 .. Len(q) - 1 : Place(q[i + 1]) = PlaceAfter(q[i])

LEMMA StepsGrow ==
  ASSUME NEW q, NEW from, NEW to, SealedInOrder(q, from, to), NEW r \in TlsReplies, Place(r) = to
  PROVE SealedInOrder(Append(q, r), from, PlaceAfter(r))
<1> DEFINE l == Append(q, r)
<1>1. q \in Seq(TlsReplies)
  BY DEF SealedInOrder
<1>2. /\ l \in Seq(TlsReplies) /\ Len(l) = Len(q) + 1 /\ Len(q) \in Nat /\ l # <<>>
      /\ \A i \in 1 .. Len(q) : l[i] = q[i]
      /\ l[Len(q) + 1] = r
  BY <1>1
<1> HIDE DEF l
<1>3. Place(l[1]) = from
  <2>1. CASE q = <<>>
    BY <2>1, <1>2 DEF SealedInOrder
  <2>2. CASE q # <<>>
    <3>1. 1 \in 1 .. Len(q)
      BY <2>2, <1>1
    <3> QED
      BY <2>2, <3>1, <1>2 DEF SealedInOrder
  <2> QED
    BY <2>1, <2>2
<1>4. ASSUME NEW i \in 1 .. Len(l) - 1 PROVE Place(l[i + 1]) = PlaceAfter(l[i])
  <2>1. i \in 1 .. Len(q) /\ l[i] = q[i]
    BY <1>2
  <2>2. CASE i = Len(q)
    <3>1. q # <<>>
      BY <2>1, <1>1
    <3> QED
      BY <2>1, <2>2, <3>1, <1>2 DEF SealedInOrder
  <2>3. CASE i # Len(q)
    <3>1. i \in 1 .. Len(q) - 1 /\ i + 1 \in 1 .. Len(q)
      BY <2>1, <2>3, <1>2
    <3>2. l[i + 1] = q[i + 1]
      BY <3>1, <1>2
    <3> QED
      BY <2>1, <3>1, <3>2 DEF SealedInOrder
  <2> QED
    BY <2>2, <2>3
<1>5. PlaceAfter(l[Len(l)]) = PlaceAfter(r)
  BY <1>2
<1>6. SealedInOrder(l, from, PlaceAfter(r))
  BY <1>2, <1>3, <1>4, <1>5 DEF SealedInOrder
<1> QED
  BY <1>6 DEF l

LEMMA StepsShrink ==
  ASSUME NEW q, NEW from, NEW to, SealedInOrder(q, from, to), q # <<>>
  PROVE /\ Head(q) \in TlsReplies /\ Place(Head(q)) = from
        /\ SealedInOrder(Tail(q), PlaceAfter(Head(q)), to)
<1> DEFINE l == Tail(q)
<1>1. q \in Seq(TlsReplies)
  BY DEF SealedInOrder
<1>2. /\ l \in Seq(TlsReplies) /\ Len(l) = Len(q) - 1 /\ Len(q) \in Nat \ {0} /\ Head(q) = q[1]
      /\ Head(q) \in TlsReplies
      /\ \A i \in 1 .. Len(l) : l[i] = q[i + 1]
  BY <1>1
<1> HIDE DEF l
<1>3. l = <<>> => PlaceAfter(Head(q)) = to
  <2> SUFFICES ASSUME l = <<>> PROVE PlaceAfter(Head(q)) = to
    OBVIOUS
  <2>1. Len(q) = 1
    BY <1>2
  <2> QED
    BY <2>1, <1>2 DEF SealedInOrder
<1>4. l # <<>> => Place(l[1]) = PlaceAfter(Head(q)) /\ PlaceAfter(l[Len(l)]) = to
  <2> SUFFICES ASSUME l # <<>> PROVE Place(l[1]) = PlaceAfter(Head(q)) /\ PlaceAfter(l[Len(l)]) = to
    OBVIOUS
  <2>1. Len(l) \in 1 .. Len(l) /\ 1 \in 1 .. Len(l) /\ 1 \in 1 .. Len(q) - 1 /\ Len(l) + 1 = Len(q)
    BY <1>2
  <2>2. l[1] = q[1 + 1] /\ l[Len(l)] = q[Len(q)]
    BY <2>1, <1>2
  <2> QED
    BY <2>1, <2>2, <1>2 DEF SealedInOrder
<1>5. ASSUME NEW i \in 1 .. Len(l) - 1 PROVE Place(l[i + 1]) = PlaceAfter(l[i])
  <2>1. i \in 1 .. Len(l) /\ i + 1 \in 1 .. Len(l) /\ i + 1 \in 1 .. Len(q) - 1
    BY <1>2
  <2>2. l[i] = q[i + 1] /\ l[i + 1] = q[(i + 1) + 1]
    BY <2>1, <1>2
  <2> QED
    BY <2>1, <2>2 DEF SealedInOrder
<1>6. SealedInOrder(l, PlaceAfter(Head(q)), to)
  BY <1>2, <1>3, <1>4, <1>5 DEF SealedInOrder
<1> QED
  BY <1>2, <1>6 DEF l, SealedInOrder

\* What the client has sealed and the server not yet opened leads from where the
\* server reads to where the client writes.
RepliesFollow ==
  /\ SealedInOrder(back, <<srv.rGen, srv.rSeq>>, <<client.wGen, client.wSeq>>)
  /\ client.pc \in {"hello", "flight", "finish"} => client.wGen = 0
  /\ ~srv.failed

LEMMA RepliesStart ==
  ASSUME Tls!Init
  PROVE RepliesFollow
<1>1. back = <<>> /\ back \in Seq(TlsReplies) /\ Len(back) = 0
  BY DEF Tls!Init
<1>2. SealedInOrder(back, <<0, 0>>, <<0, 0>>)
  BY <1>1 DEF SealedInOrder
<1> QED
  BY <1>2 DEF Tls!Init, RepliesFollow, Tls!HandshakeKey

\* Most steps leave the places of both ends alone.
LEMMA RepliesAside ==
  ASSUME RepliesFollow, UNCHANGED back,
         srv'.rGen = srv.rGen, srv'.rSeq = srv.rSeq, srv'.failed = srv.failed,
         client'.wGen = client.wGen, client'.wSeq = client.wSeq,
         client'.pc \in {"hello", "flight", "finish"} => client.pc \in {"hello", "flight", "finish"}
  PROVE RepliesFollow'
BY DEF RepliesFollow

LEMMA RepliesOfFail ==
  ASSUME TlsInv, RepliesFollow, UNCHANGED <<back, srv>>, NEW why, Tls!Fail(why)
  PROVE RepliesFollow'
<1>1. client \in TlsClients /\ client' = [client EXCEPT !.pc = "failed", !.end = why]
  BY DEF TlsInv, TlsTypes, Tls!Fail
<1>2. client'.pc = "failed" /\ client'.wGen = client.wGen /\ client'.wSeq = client.wSeq
  BY <1>1 DEF TlsClients
<1> QED
  BY <1>2, RepliesAside

LEMMA RepliesOfServer ==
  ASSUME TlsInv, RepliesFollow,
         \/ \E e, g : Tls!ServerHello(e, g)
         \/ \E t, g : Tls!ServerSays(t, g)
         \/ \E n : Tls!ServerFlushes(n)
         \/ Tls!ServerSwitches
         \/ \E k, s : Tls!ServerSends(k, s)
  PROVE RepliesFollow'
<1>1. srv \in TlsServers
  BY DEF TlsInv, TlsTypes
<1>2. UNCHANGED <<back, client>>
  BY DEF Tls!ServerHello, Tls!ServerSays, Tls!ServerFlushes, Tls!ServerSwitches, Tls!ServerSends
<1>3. srv'.rGen = srv.rGen /\ srv'.rSeq = srv.rSeq /\ srv'.failed = srv.failed
  <2>1. ASSUME NEW e, NEW g, Tls!ServerHello(e, g)
        PROVE srv'.rGen = srv.rGen /\ srv'.rSeq = srv.rSeq /\ srv'.failed = srv.failed
    BY <1>1, <2>1 DEF Tls!ServerHello, TlsServers
  <2>2. ASSUME NEW t, NEW g, Tls!ServerSays(t, g)
        PROVE srv'.rGen = srv.rGen /\ srv'.rSeq = srv.rSeq /\ srv'.failed = srv.failed
    <3>1. \E o, tr, n, lg, p :
            srv' = [srv EXCEPT !.out = o, !.transcript = tr, !.msgs = n, !.log = lg, !.pc = p]
      BY <2>2 DEF Tls!ServerSays
    <3> QED
      BY <1>1, <3>1 DEF TlsServers
  <2>3. ASSUME NEW n, Tls!ServerFlushes(n)
        PROVE srv'.rGen = srv.rGen /\ srv'.rSeq = srv.rSeq /\ srv'.failed = srv.failed
    BY <1>1, <2>3 DEF Tls!ServerFlushes, TlsServers
  <2>4. ASSUME Tls!ServerSwitches
        PROVE srv'.rGen = srv.rGen /\ srv'.rSeq = srv.rSeq /\ srv'.failed = srv.failed
    BY <1>1, <2>4 DEF Tls!ServerSwitches, TlsServers
  <2>5. ASSUME NEW k, NEW s, Tls!ServerSends(k, s)
        PROVE srv'.rGen = srv.rGen /\ srv'.rSeq = srv.rSeq /\ srv'.failed = srv.failed
    <3>1. \E g, q, a, p : srv' = [srv EXCEPT !.wGen = g, !.wSeq = q, !.asked = a, !.pc = p]
      BY <2>5 DEF Tls!ServerSends
    <3> QED
      BY <1>1, <3>1 DEF TlsServers
  <2> QED
    BY <2>1, <2>2, <2>3, <2>4, <2>5
<1> QED
  BY <1>2, <1>3, RepliesAside

LEMMA RepliesOfReads ==
  ASSUME TlsInv, RepliesFollow, Tls!ServerReads
  PROVE RepliesFollow'
<1> DEFINE r == Head(back)
<1>1. srv \in TlsServers /\ back # <<>> /\ back' = Tail(back) /\ client' = client
  BY DEF TlsInv, TlsTypes, Tls!ServerReads
<1>2. /\ r \in TlsReplies /\ Place(r) = <<srv.rGen, srv.rSeq>>
      /\ SealedInOrder(back', PlaceAfter(r), <<client.wGen, client.wSeq>>)
  BY <1>1, StepsShrink DEF RepliesFollow
<1>3. r.gen = srv.rGen /\ r.seq = srv.rSeq
  BY <1>2 DEF Place
<1> HIDE DEF r
<1>4. srv' = IF r.inner \in {"fin", "ku"} THEN [srv EXCEPT !.rGen = @ + 1, !.rSeq = 0]
             ELSE [srv EXCEPT !.rSeq = @ + 1]
  BY <1>3 DEF Tls!ServerReads, r
<1>5. <<srv'.rGen, srv'.rSeq>> = PlaceAfter(r) /\ srv'.failed = srv.failed
  <2>1. CASE r.inner \in {"fin", "ku"}
    BY <1>1, <1>3, <1>4, <2>1 DEF TlsServers, PlaceAfter
  <2>2. CASE r.inner \notin {"fin", "ku"}
    BY <1>1, <1>3, <1>4, <2>2 DEF TlsServers, PlaceAfter
  <2> QED
    BY <2>1, <2>2
<1> QED
  BY <1>1, <1>2, <1>5 DEF RepliesFollow

LEMMA RepliesOfFinish ==
  ASSUME TlsInv, RepliesFollow, Tls!Finish
  PROVE RepliesFollow'
<1>1. CASE ~Tls!RequireCertificateVerify
  BY <1>1, RepliesOfFail DEF Tls!Finish
<1>2. CASE Tls!RequireCertificateVerify
  <2> DEFINE r == [gen |-> client.wGen, seq |-> client.wSeq, inner |-> "fin", halves |-> <<>>]
  <2>1. client \in TlsClients /\ client.wGen \in Nat /\ client.wSeq \in Nat /\ client.wGen = 0
    BY DEF TlsInv, TlsTypes, TlsClients, RepliesFollow, Tls!Finish
  <2>2. r \in TlsReplies /\ Place(r) = <<client.wGen, client.wSeq>> /\ PlaceAfter(r) = <<1, 0>>
    BY <2>1 DEF TlsReplies, Place, PlaceAfter
  <2>3. back' = Append(back, r) /\ srv' = srv
    BY <1>2 DEF Tls!Finish, Tls!Rec
  <2>4. client' = [client EXCEPT !.pc = "open", !.pending = <<>>, !.transcript = Append(@, "fin"),
                                 !.rGen = 1, !.rSeq = 0, !.wGen = 1, !.wSeq = 0]
    <3>1. /\ Tls!Rekeyed(Tls!ApplicationKey).gen = 1
          /\ Tls!Rekeyed(Tls!ApplicationKey).seq = 0
      BY DEF Tls!Rekeyed, Tls!ApplicationKey, Tls!HandshakeKey
    <3> QED
      BY <1>2, <3>1 DEF Tls!Finish
  <2>5. client'.pc = "open" /\ client'.wGen = 1 /\ client'.wSeq = 0
    BY <2>1, <2>4 DEF TlsClients
  <2> HIDE DEF r
  <2>6. SealedInOrder(back', <<srv.rGen, srv.rSeq>>, <<1, 0>>)
    BY <2>2, <2>3, StepsGrow DEF RepliesFollow
  <2> QED
    BY <2>3, <2>5, <2>6 DEF RepliesFollow
<1> QED
  BY <1>1, <1>2

\* An answer that is owed is sealed under the old key, the data behind it under
\* the new one.
LEMMA RepliesOfWrite ==
  ASSUME TlsInv, RepliesFollow, Tls!WriteRecord
  PROVE RepliesFollow'
<1>1. client \in TlsClients /\ client.wGen \in Nat /\ client.wSeq \in Nat /\ client.pc = "open" /\ srv' = srv
  BY DEF TlsInv, TlsTypes, TlsClients, Tls!WriteRecord
<1>2. SealedInOrder(back, <<srv.rGen, srv.rSeq>>, <<client.wGen, client.wSeq>>) /\ back \in Seq(TlsReplies)
  BY DEF RepliesFollow, SealedInOrder
<1>3. CASE client.owes
  <2> DEFINE a == [gen |-> client.wGen, seq |-> client.wSeq, inner |-> "ku", halves |-> <<>>]
             b == [gen |-> client.wGen + 1, seq |-> 0, inner |-> "data", halves |-> <<>>]
             g == client.wGen + 1
  <2>1. back' = back \o <<a, b>> /\ client' = [client EXCEPT !.owes = FALSE, !.wGen = g, !.wSeq = 1]
    BY <1>3 DEF Tls!WriteRecord, Tls!Rec
  <2>2. /\ a \in TlsReplies /\ Place(a) = <<client.wGen, client.wSeq>>
        /\ b \in TlsReplies /\ Place(b) = PlaceAfter(a) /\ PlaceAfter(b) = <<g, 1>>
    BY <1>1 DEF TlsReplies, Place, PlaceAfter
  <2> HIDE DEF a, b
  <2>3. back' = Append(Append(back, a), b)
    BY <1>2, <2>1, <2>2
  <2>4. SealedInOrder(Append(back, a), <<srv.rGen, srv.rSeq>>, PlaceAfter(a))
    BY <1>2, <2>2, StepsGrow
  <2>5. SealedInOrder(back', <<srv.rGen, srv.rSeq>>, <<g, 1>>)
    BY <2>2, <2>3, <2>4, StepsGrow
  <2> HIDE DEF g
  <2>6. client'.pc = "open" /\ client'.wGen = g /\ client'.wSeq = 1
    BY <1>1, <2>1 DEF TlsClients
  <2> QED
    BY <1>1, <2>5, <2>6 DEF RepliesFollow
<1>4. CASE ~client.owes
  <2> DEFINE a == [gen |-> client.wGen, seq |-> client.wSeq, inner |-> "data", halves |-> <<>>]
             n == client.wSeq + 1
  <2>1. back' = Append(back, a) /\ client' = [client EXCEPT !.wSeq = n]
    BY <1>4 DEF Tls!WriteRecord, Tls!Rec
  <2>2. a \in TlsReplies /\ Place(a) = <<client.wGen, client.wSeq>> /\ PlaceAfter(a) = <<client.wGen, n>>
    BY <1>1 DEF TlsReplies, Place, PlaceAfter
  <2> HIDE DEF a, n
  <2>3. SealedInOrder(back', <<srv.rGen, srv.rSeq>>, <<client.wGen, n>>)
    BY <1>2, <2>1, <2>2, StepsGrow
  <2>4. client'.pc = "open" /\ client'.wGen = client.wGen /\ client'.wSeq = n
    BY <1>1, <2>1 DEF TlsClients
  <2> QED
    BY <1>1, <2>3, <2>4 DEF RepliesFollow
<1> QED
  BY <1>3, <1>4

LEMMA RepliesOfMessage ==
  ASSUME TlsInv, RepliesFollow, Tls!HandleMessage
  PROVE RepliesFollow'
<1> DEFINE ps == SubSeq(client.pending, 3, Len(client.pending))
           c == [client EXCEPT !.pending = ps]
           m == client.pending[1].m
           d == Tls!OnMessage(c, m)
           w == IF d.end = "-" THEN "message" ELSE d.end
<1>1. client.pc = "flight" /\ Len(client.pending) >= 2 /\ UNCHANGED <<back, srv>>
  BY DEF Tls!HandleMessage
<1>2. client' = [d EXCEPT !.end = w]
  BY DEF Tls!HandleMessage
<1>3. client \in TlsClients /\ client.pending \in Seq(TlsHalves)
  BY DEF TlsInv, TlsTypes, TlsClients
<1>4. ps \in Seq(TlsHalves) /\ client.pending[1] \in TlsHalves
  BY <1>1, <1>3
<1>5. m \in [t : TlsWords, good : BOOLEAN, over : Seq(TlsWords)]
  BY <1>4 DEF TlsHalves
<1> HIDE DEF ps
<1>6. c \in TlsClients /\ c.pc = "flight" /\ c.wGen = client.wGen /\ c.wSeq = client.wSeq
  BY <1>1, <1>3, <1>4 DEF TlsClients
<1> HIDE DEF c, m
<1>7. d \in TlsClients /\ d.wGen = c.wGen /\ d.wSeq = c.wSeq
  BY <1>5, <1>6, MessageTaken
<1> HIDE DEF d, w
<1>8. client'.wGen = client.wGen /\ client'.wSeq = client.wSeq
  BY <1>2, <1>6, <1>7 DEF TlsClients
<1> QED
  BY <1>1, <1>8, RepliesAside

LEMMA RepliesOfHandshake ==
  ASSUME TlsInv, RepliesFollow, Tls!OnServerHello \/ Tls!ReadFlight
  PROVE RepliesFollow'
<1>1. client \in TlsClients /\ UNCHANGED <<back, srv>> /\ client.pc \in {"hello", "flight"}
  BY DEF TlsInv, TlsTypes, Tls!OnServerHello, Tls!ReadFlight
<1>2. \/ \E why : Tls!Fail(why)
      \/ \E tr : client' = [client EXCEPT !.pc = "flight", !.transcript = tr]
      \/ \E q, n : client' = [client EXCEPT !.pending = q, !.rSeq = n]
  BY DEF Tls!OnServerHello, Tls!ReadFlight
<1>3. CASE \E why : Tls!Fail(why)
  BY <1>1, <1>3, RepliesOfFail
<1>4. ASSUME NEW tr, client' = [client EXCEPT !.pc = "flight", !.transcript = tr] PROVE RepliesFollow'
  <2>1. client'.wGen = client.wGen /\ client'.wSeq = client.wSeq
    BY <1>1, <1>4 DEF TlsClients
  <2> QED
    BY <1>1, <2>1, RepliesAside
<1>5. ASSUME NEW q, NEW n, client' = [client EXCEPT !.pending = q, !.rSeq = n] PROVE RepliesFollow'
  <2>1. client'.wGen = client.wGen /\ client'.wSeq = client.wSeq
    BY <1>1, <1>5 DEF TlsClients
  <2> QED
    BY <1>1, <2>1, RepliesAside
<1> QED
  BY <1>2, <1>3, <1>4, <1>5

LEMMA RepliesOfRecord ==
  ASSUME TlsInv, RepliesFollow, Tls!ReadRecord
  PROVE RepliesFollow'
<1>1. client \in TlsClients /\ UNCHANGED <<back, srv>> /\ client.pc = "open"
  BY DEF TlsInv, TlsTypes, Tls!ReadRecord
<1> DEFINE n == client.rSeq + 1
           past == [client EXCEPT !.rSeq = n]
<1>2. /\ past.pc = "open" /\ past.wGen = client.wGen /\ past.wSeq = client.wSeq
      /\ past \in TlsClients
  <2>1. n \in Nat
    BY <1>1 DEF TlsClients
  <2> HIDE DEF n
  <2> QED
    BY <2>1, <1>1 DEF TlsClients
<1> HIDE DEF past
<1>3. \/ Tls!Fail("record")
      \/ client' = past
      \/ client' = [past EXCEPT !.closed = TRUE]
      \/ client' = [past EXCEPT !.pc = "failed", !.end = "message"]
      \/ \E o \in BOOLEAN : client' = Tls!OnKeyUpdate(past, o)
  <2>1. \/ Tls!Fail("record")
        \/ client' = past
        \/ client' = [past EXCEPT !.closed = TRUE]
        \/ client' = [past EXCEPT !.pc = "failed", !.end = "message"]
        \/ client' = Tls!OnKeyUpdate(past, Head(wire).halves[1].m.t = "kuAsk")
    BY DEF Tls!ReadRecord, past
  <2> QED
    BY <2>1
<1>4. CASE Tls!Fail("record")
  BY <1>1, <1>4, RepliesOfFail
<1>5. CASE ~Tls!Fail("record")
  <2>1. client'.pc \in {"open", "failed"} /\ client'.wGen = client.wGen /\ client'.wSeq = client.wSeq
    <3>1. CASE client' = past
      BY <3>1, <1>2
    <3>2. CASE client' = [past EXCEPT !.closed = TRUE]
      BY <3>2, <1>2 DEF TlsClients
    <3>3. CASE client' = [past EXCEPT !.pc = "failed", !.end = "message"]
      BY <3>3, <1>2 DEF TlsClients
    <3>4. ASSUME NEW o \in BOOLEAN, client' = Tls!OnKeyUpdate(past, o)
          PROVE client'.pc \in {"open", "failed"} /\ client'.wGen = client.wGen /\ client'.wSeq = client.wSeq
      BY <3>4, <1>2 DEF TlsClients, Tls!OnKeyUpdate
    <3> QED
      BY <3>1, <3>2, <3>3, <3>4, <1>3, <1>5
  <2> QED
    BY <1>1, <2>1, RepliesAside
<1> QED
  BY <1>4, <1>5

LEMMA RepliesKept ==
  ASSUME TlsInv, RepliesFollow, [Tls!Next]_(Tls!vars)
  PROVE RepliesFollow'
<1>1. CASE Tls!ReadTimesOut
  BY <1>1, RepliesOfFail DEF Tls!ReadTimesOut
<1>2. CASE Tls!HandshakeTimesOut
  BY <1>2, RepliesOfFail DEF Tls!HandshakeTimesOut
<1>3. CASE UNCHANGED Tls!vars
  BY <1>3, RepliesAside DEF Tls!vars
<1> QED
  BY <1>1, <1>2, <1>3, RepliesOfHandshake, RepliesOfMessage, RepliesOfFinish, RepliesOfRecord,
     RepliesOfWrite, RepliesOfServer, RepliesOfReads DEF Tls!Next, Tls!ClientStep

(* The server opens every record of the client, which seals it with the next  *)
(* number of the current key: through the Finished under the handshake key,   *)
(* the change to the application keys and the answer to any number of         *)
(* KeyUpdates that come while the client writes (`connect`, key_update and    *)
(* `write` of Tls13Stream, RecordProtector::rekey). One half of what MCState  *)
(* checks as KeysInStep, whatever the server does.                            *)
THEOREM RepliesAlwaysOpen == Tls!Spec => []Tls!RepliesInStep
<1>1. TlsInv /\ RepliesFollow => Tls!RepliesInStep
  BY DEF RepliesFollow, Tls!RepliesInStep
<1>2. TlsInv /\ RepliesFollow /\ [Tls!Next]_(Tls!vars) => TlsInv' /\ RepliesFollow'
  BY TlsKept, RepliesKept
<1>3. Tls!Init => TlsInv /\ RepliesFollow
  BY TlsStart, RepliesStart
<1> QED
  BY <1>1, <1>2, <1>3, PTL DEF Tls!Spec

(***************************************************************************)
(* QuicOutbounds                                                           *)
(***************************************************************************)

Quic == INSTANCE QuicOutbounds

ConnFlags == [made : BOOLEAN, open : BOOLEAN, authed : BOOLEAN]
UsingConn == {"stream", "send", "recv"}

QuicTypes ==
  /\ slot \in {0} \cup Quic!Conns
  /\ conns \in [Quic!Conns -> ConnFlags]
  /\ pc \in [Callers -> {"start", "lock", "drop", "check", "auth", "done", "failed"} \cup UsingConn]
  /\ op \in [Callers -> {"none"} \cup Quic!Ops]
  /\ mine \in [Callers -> {0} \cup Quic!Conns]

\* Only a connection that was made is authenticated, and only one that is
\* authenticated is in the slot or in a caller's hands outside the lock.
AuthedFirst ==
  /\ \A i \in Quic!Conns : conns[i].authed => conns[i].made
  /\ slot # 0 => conns[slot].authed
  /\ \A c \in Callers :
       /\ pc[c] \in UsingConn => mine[c] # 0 /\ conns[mine[c]].authed
       /\ pc[c] = "auth" => mine[c] # 0 /\ conns[mine[c]].made
       /\ pc[c] = "lock" => op[c] \in Quic!Ops
       /\ pc[c] \in {"check", "auth"} => op[c] \in {"tcp", "udp", "connect"}

LEMMA QuicSlots ==
  ASSUME NEW i \in Quic!Conns
  PROVE i # 0
BY DEF Quic!Conns

LEMMA QuicReady ==
  ASSUME NEW c, op[c] \in {"tcp", "udp", "connect"}
  PROVE Quic!Ready(c) \in {"stream", "send", "done"}
BY DEF Quic!Ready

LinkInv == QuicTypes /\ AuthedFirst

LEMMA LinkStart ==
  ASSUME Quic!Init
  PROVE LinkInv
BY DEF Quic!Init, LinkInv, QuicTypes, AuthedFirst, ConnFlags, UsingConn

\* A caller that only moves on, and not to where a connection is used.
LEMMA LinkGoes ==
  ASSUME LinkInv, UNCHANGED <<slot, conns, op, mine>>, NEW c \in Callers, NEW l, Quic!Goto(c, l),
         l \in {"done", "failed"} \/ (l \in UsingConn /\ pc[c] \in UsingConn)
         \/ (l = "drop" /\ pc[c] = "lock")
         \/ (l = "check" /\ pc[c] = "lock" /\ op[c] # "disconnect")
  PROVE LinkInv'
BY DEF LinkInv, QuicTypes, AuthedFirst, Quic!Goto, UsingConn, Quic!Ops

LEMMA LinkCall ==
  ASSUME LinkInv, NEW c \in Callers, Quic!Call(c)
  PROVE LinkInv'
<1>1. PICK o \in Quic!Ops : op' = [op EXCEPT ![c] = o]
  BY DEF Quic!Call, Quic!Supported
<1> QED
  BY <1>1 DEF Quic!Call, Quic!Goto, Quic!link, LinkInv, QuicTypes, AuthedFirst, UsingConn

LEMMA LinkReuse ==
  ASSUME LinkInv, NEW c \in Callers, Quic!Reuse(c)
  PROVE LinkInv'
<1>1. Quic!Ready(c) \in {"stream", "send", "done"}
  BY QuicReady DEF Quic!Reuse, LinkInv, AuthedFirst
<1>2. /\ slot # 0 /\ conns[slot].authed /\ mine' = [mine EXCEPT ![c] = slot] /\ UNCHANGED <<slot, conns, op>>
      /\ pc' = [pc EXCEPT ![c] = Quic!Ready(c)]
  BY DEF Quic!Reuse, Quic!Live, Quic!Goto, LinkInv, AuthedFirst
<1> DEFINE l == Quic!Ready(c)
<1> HIDE DEF l
<1>3. l \in {"stream", "send", "done"} /\ pc' = [pc EXCEPT ![c] = l]
  BY <1>1, <1>2 DEF l
<1> QED
  BY <1>2, <1>3 DEF LinkInv, QuicTypes, AuthedFirst, UsingConn

LEMMA LinkDial ==
  ASSUME LinkInv, NEW c \in Callers, Quic!Dial(c)
  PROVE LinkInv'
<1>1. CASE Quic!Goto(c, "failed") /\ UNCHANGED <<conns, mine>>
  BY <1>1, LinkGoes DEF Quic!Dial
<1>2. ASSUME NEW i \in Quic!Conns, ~conns[i].made,
             conns' = [conns EXCEPT ![i] = [made |-> TRUE, open |-> TRUE, authed |-> FALSE]],
             mine' = [mine EXCEPT ![c] = i], Quic!Goto(c, "auth")
      PROVE LinkInv'
  <2>1. UNCHANGED <<slot, op>> /\ pc[c] = "check" /\ i # 0
    BY QuicSlots DEF Quic!Dial
  <2>2. ~conns[i].authed
    BY <1>2 DEF LinkInv, AuthedFirst
  <2>3. QuicTypes'
    BY <1>2, <2>1 DEF LinkInv, QuicTypes, ConnFlags, Quic!Goto
  <2>4. \A j \in Quic!Conns : conns'[j] = IF j = i THEN [made |-> TRUE, open |-> TRUE, authed |-> FALSE] ELSE conns[j]
    BY <1>2 DEF LinkInv, QuicTypes
  <2>5. \A d \in Callers : /\ pc'[d] = IF d = c THEN "auth" ELSE pc[d]
                           /\ mine'[d] = IF d = c THEN i ELSE mine[d]
    BY <1>2 DEF LinkInv, QuicTypes, Quic!Goto
  <2>6. \A j \in Quic!Conns : /\ conns[j].made => conns'[j].made
                              /\ conns[j].authed => conns'[j].authed
                              /\ conns'[j].authed => conns'[j].made
    BY <2>2, <2>4 DEF LinkInv, AuthedFirst
  <2>7. conns'[i].made
    BY <2>4
  <2>8. AuthedFirst'
    BY <2>1, <2>5, <2>6, <2>7 DEF LinkInv, QuicTypes, AuthedFirst, UsingConn
  <2> QED
    BY <2>3, <2>8 DEF LinkInv
<1> QED
  BY <1>1, <1>2 DEF Quic!Dial

\* A connection that closes keeps the rest of what is known of it.
LEMMA ConnCloses ==
  ASSUME LinkInv, NEW i \in Quic!Conns, conns' = [conns EXCEPT ![i].open = FALSE]
  PROVE /\ conns' \in [Quic!Conns -> ConnFlags]
        /\ \A j \in Quic!Conns : conns'[j].made = conns[j].made /\ conns'[j].authed = conns[j].authed
BY DEF LinkInv, QuicTypes, ConnFlags

LEMMA ConnAuths ==
  ASSUME LinkInv, NEW i \in Quic!Conns, conns' = [conns EXCEPT ![i].authed = TRUE]
  PROVE /\ conns' \in [Quic!Conns -> ConnFlags]
        /\ \A j \in Quic!Conns : conns'[j].made = conns[j].made /\ (conns[j].authed => conns'[j].authed)
        /\ conns'[i].authed /\ \A j \in Quic!Conns : j # i => conns'[j] = conns[j]
BY DEF LinkInv, QuicTypes, ConnFlags

LEMMA LinkAuthenticate ==
  ASSUME LinkInv, NEW c \in Callers, Quic!Authenticate(c)
  PROVE LinkInv'
<1> DEFINE i == mine[c]
           l == Quic!Ready(c)
<1>1. /\ pc[c] = "auth" /\ conns' = [conns EXCEPT ![i].authed = TRUE] /\ slot' = i /\ UNCHANGED <<op, mine>>
      /\ pc' = [pc EXCEPT ![c] = l]
  BY DEF Quic!Authenticate, Quic!HysteriaHello, Quic!Hysteria2Auth, Quic!TuicAuth, Quic!Publish,
     Quic!Goto
<1>2. i \in Quic!Conns /\ conns[i].made /\ i # 0 /\ l \in {"stream", "send", "done"}
  BY <1>1, QuicReady DEF LinkInv, QuicTypes, AuthedFirst
<1> HIDE DEF l
<1>3. /\ conns' \in [Quic!Conns -> ConnFlags]
      /\ \A j \in Quic!Conns : conns'[j].made = conns[j].made /\ (conns[j].authed => conns'[j].authed)
      /\ conns'[i].authed /\ \A j \in Quic!Conns : j # i => conns'[j] = conns[j]
  BY <1>1, <1>2, ConnAuths
<1>4. QuicTypes'
  BY <1>1, <1>2, <1>3 DEF LinkInv, QuicTypes, UsingConn
<1>5. \A d \in Callers : pc'[d] = IF d = c THEN l ELSE pc[d]
  BY <1>1 DEF LinkInv, QuicTypes
<1>6. \A j \in Quic!Conns : conns'[j].authed => conns'[j].made
  BY <1>2, <1>3 DEF LinkInv, AuthedFirst
<1> HIDE DEF i
<1>7. mine[c] = i
  BY DEF i
<1>8. AuthedFirst'
  BY <1>1, <1>2, <1>3, <1>5, <1>6, <1>7 DEF LinkInv, QuicTypes, AuthedFirst, UsingConn
<1> QED
  BY <1>4, <1>8 DEF LinkInv

\* A step that closes a connection, or none, and leads a caller to its end, or none.
LEMMA LinkCloses ==
  ASSUME LinkInv, UNCHANGED <<op, mine>>, slot' = slot \/ slot' = 0,
         conns' = conns \/ \E i \in Quic!Conns : conns' = [conns EXCEPT ![i].open = FALSE],
         pc' = pc \/ \E c \in Callers, l \in {"done", "failed"} : pc' = [pc EXCEPT ![c] = l]
  PROVE LinkInv'
<1>1. /\ conns' \in [Quic!Conns -> ConnFlags]
      /\ \A j \in Quic!Conns : conns'[j].made = conns[j].made /\ conns'[j].authed = conns[j].authed
  BY ConnCloses DEF LinkInv, QuicTypes
<1>2. QuicTypes'
  BY <1>1 DEF LinkInv, QuicTypes
<1>3. \A d \in Callers : pc'[d] = pc[d] \/ pc'[d] \in {"done", "failed"}
  BY DEF LinkInv, QuicTypes
<1>4. AuthedFirst'
  BY <1>1, <1>3 DEF LinkInv, QuicTypes, AuthedFirst, UsingConn
<1> QED
  BY <1>2, <1>4 DEF LinkInv

LEMMA LinkStep ==
  ASSUME LinkInv, NEW c \in Callers, Quic!Call(c) \/ Quic!Step(c) \/ Quic!ServerReplies(c)
  PROVE LinkInv'
<1>1. CASE Quic!TakeSlot(c)
  <2>1. CASE op[c] = "disconnect"
    BY <1>1, <2>1, LinkGoes DEF Quic!TakeSlot
  <2>2. CASE op[c] # "disconnect"
    BY <1>1, <2>2, LinkGoes DEF Quic!TakeSlot
  <2> QED
    BY <2>1, <2>2
<1>2. CASE Quic!Refused(c)
  <2>1. mine[c] \in Quic!Conns
    BY <1>2 DEF Quic!Refused, LinkInv, AuthedFirst, QuicTypes
  <2> QED
    BY <1>2, <2>1, LinkCloses DEF Quic!Refused, Quic!Goto
<1>3. CASE Quic!Disconnect(c)
  <2>1. slot = 0 \/ slot \in Quic!Conns
    BY DEF LinkInv, QuicTypes
  <2> QED
    BY <1>3, <2>1, LinkCloses DEF Quic!Disconnect, Quic!Goto
<1>4. CASE Quic!OpenTcpStream(c)
  BY <1>4, LinkGoes DEF Quic!OpenTcpStream, Quic!link
<1>5. CASE Quic!SendUdpPacket(c)
  <2>1. Quic!Goto(c, "recv") \/ Quic!Goto(c, "failed")
    BY <1>5 DEF Quic!SendUdpPacket
  <2>2. pc[c] \in UsingConn /\ "recv" \in UsingConn
    BY <1>5 DEF Quic!SendUdpPacket, UsingConn
  <2> QED
    BY <1>5, <2>1, <2>2, LinkGoes DEF Quic!SendUdpPacket, Quic!link
<1>6. CASE Quic!RecvUdpPacket(c)
  <2>1. Quic!Goto(c, "recv") \/ Quic!Goto(c, "done")
    BY <1>6 DEF Quic!RecvUdpPacket, Quic!Add
  <2>2. pc[c] \in UsingConn /\ "recv" \in UsingConn
    BY <1>6 DEF Quic!RecvUdpPacket, UsingConn
  <2> QED
    BY <1>6, <2>1, <2>2, LinkGoes DEF Quic!RecvUdpPacket, Quic!link
<1>7. CASE Quic!RecvFails(c)
  BY <1>7, LinkGoes DEF Quic!RecvFails, Quic!link
<1>8. CASE Quic!ServerReplies(c)
  BY <1>8, LinkCloses DEF Quic!ServerReplies, Quic!link
<1> QED
  BY <1>1, <1>2, <1>3, <1>4, <1>5, <1>6, <1>7, <1>8, LinkCall, LinkReuse, LinkDial, LinkAuthenticate
    DEF Quic!Step

LEMMA LinkKept ==
  ASSUME LinkInv, [Quic!Next]_(Quic!vars)
  PROVE LinkInv'
<1>1. CASE Quic!ConnectionDies
  BY <1>1, LinkCloses DEF Quic!ConnectionDies
<1>2. CASE UNCHANGED Quic!vars
  BY <1>2, LinkCloses DEF Quic!vars
<1> QED
  BY <1>1, <1>2, LinkStep DEF Quic!Next

\* The fragments of an entry, and of an answer, are those of one packet.
FragsOfOne ==
  /\ reply = [c \in Callers |-> reply[c]]
  /\ proto = "hysteria2" =>
       /\ \A e \in pending : e = [key |-> e.key, parts |-> e.parts] /\ \A x \in e.parts : x.of = e.key
       /\ \A c \in Callers : \A x, y \in reply[c] : x.of = y.of

LEMMA PartsReplaced ==
  ASSUME NEW e, e = [key |-> e.key, parts |-> e.parts], NEW S, NEW f, f = [e EXCEPT !.parts = S]
  PROVE f = [key |-> f.key, parts |-> f.parts] /\ f.key = e.key /\ f.parts = S
<1>1. e \in [key : {e.key}, parts : {e.parts}]
  OBVIOUS
<1>2. f \in [key : {e.key}, parts : {S}]
  BY <1>1
<1> QED
  BY <1>2

LEMMA FragAdded ==
  ASSUME NEW p, NEW d, proto = "hysteria2",
         \A e \in p : e = [key |-> e.key, parts |-> e.parts] /\ \A x \in e.parts : x.of = e.key
  PROVE LET f == Quic!Insert(Quic!EntryOf(p, Quic!Key(d)), d)
        IN  f = [key |-> f.key, parts |-> f.parts] /\ \A x \in f.parts : x.of = f.key
<1> DEFINE k == Quic!Key(d)
           e == Quic!EntryOf(p, k)
           S == {x \in e.parts : x.frag # d.frag} \cup {[of |-> d.of, frag |-> d.frag]}
           f == Quic!Insert(e, d)
<1>1. k = d.of
  BY DEF Quic!Key
<1>2. e.key = k /\ e = [key |-> e.key, parts |-> e.parts] /\ \A x \in e.parts : x.of = e.key
  <2> HIDE DEF k
  <2>1. CASE \E x \in p : x.key = k
    <3>1. e \in p /\ e.key = k
      BY <2>1 DEF Quic!EntryOf
    <3> HIDE DEF e
    <3> QED
      BY <3>1
  <2>2. CASE ~\E x \in p : x.key = k
    <3>1. e = [key |-> k, parts |-> {}]
      BY <2>2 DEF Quic!EntryOf
    <3> HIDE DEF e
    <3> QED
      BY <3>1
  <2> QED
    BY <2>1, <2>2
<1>3. f = [e EXCEPT !.parts = S]
  BY DEF Quic!Insert
<1>4. \A x \in S : x.of = e.key
  <2> HIDE DEF e, k
  <2> QED BY <1>1, <1>2
<1> HIDE DEF k, e, S, f
<1>5. f = [key |-> f.key, parts |-> f.parts] /\ f.key = e.key /\ f.parts = S
  BY <1>2, <1>3, PartsReplaced
<1>6. \A x \in f.parts : x.of = f.key
  BY <1>4, <1>5
<1> QED
  BY <1>5, <1>6 DEF f, e, k

LEMMA FragsStill ==
  ASSUME FragsOfOne, UNCHANGED <<proto, reply>>, pending' \subseteq pending
  PROVE FragsOfOne'
BY DEF FragsOfOne

LEMMA FragsAdd ==
  ASSUME FragsOfOne, UNCHANGED proto, NEW c \in Callers, NEW d, Quic!Add(c, d)
  PROVE FragsOfOne'
<1>1. PICK p \in Quic!Pruned(pending) :
        LET k == Quic!Key(d)
            e == Quic!EntryOf(p, k)
            f == Quic!Insert(e, d)
        IN  \/ pending' = p /\ UNCHANGED reply
            \/ pending' = p \ {e} /\ reply' = [reply EXCEPT ![c] = f.parts]
            \/ pending' = (p \ {e}) \cup {f} /\ UNCHANGED reply
  BY DEF Quic!Add
<1> DEFINE e == Quic!EntryOf(p, Quic!Key(d))
           f == Quic!Insert(e, d)
<1>2. p \subseteq pending
  BY DEF Quic!Pruned
<1>3. proto = "hysteria2" =>
        (f = [key |-> f.key, parts |-> f.parts] /\ \A x \in f.parts : x.of = f.key)
  <2> SUFFICES ASSUME proto = "hysteria2"
               PROVE f = [key |-> f.key, parts |-> f.parts] /\ \A x \in f.parts : x.of = f.key
    OBVIOUS
  <2>1. \A y \in p : y = [key |-> y.key, parts |-> y.parts] /\ \A x \in y.parts : x.of = y.key
    BY <1>2 DEF FragsOfOne
  <2> QED
    BY <2>1, FragAdded
<1>4. \/ pending' = p /\ UNCHANGED reply
      \/ pending' = p \ {e} /\ reply' = [reply EXCEPT ![c] = f.parts]
      \/ pending' = (p \ {e}) \cup {f} /\ UNCHANGED reply
  BY <1>1
<1> HIDE DEF e, f
<1>5. CASE pending' = p /\ UNCHANGED reply
  BY <1>2, <1>5, FragsStill
<1>6. CASE pending' = p \ {e} /\ reply' = [reply EXCEPT ![c] = f.parts]
  BY <1>2, <1>3, <1>6 DEF FragsOfOne
<1>7. CASE pending' = (p \ {e}) \cup {f} /\ UNCHANGED reply
  BY <1>2, <1>3, <1>7 DEF FragsOfOne
<1> QED
  BY <1>4, <1>5, <1>6, <1>7

LEMMA FragsKept ==
  ASSUME FragsOfOne, [Quic!Next]_(Quic!vars)
  PROVE FragsOfOne'
<1>1. ASSUME NEW c \in Callers, Quic!RecvUdpPacket(c) PROVE FragsOfOne'
  <2>1. PICK d \in arrived :
          IF d.count = 1
          THEN reply' = [reply EXCEPT ![c] = {[of |-> d.of, frag |-> 0]}] /\ UNCHANGED pending
          ELSE Quic!Add(c, d)
    BY <1>1 DEF Quic!RecvUdpPacket
  <2>2. UNCHANGED proto
    BY <1>1 DEF Quic!RecvUdpPacket, Quic!link
  <2>3. CASE d.count = 1
    BY <2>1, <2>2, <2>3 DEF FragsOfOne
  <2>4. CASE d.count # 1
    BY <2>1, <2>2, <2>4, FragsAdd
  <2> QED
    BY <2>3, <2>4
<1>2. ASSUME NEW c \in Callers, Quic!Call(c) \/ Quic!ServerReplies(c) PROVE FragsOfOne'
  BY <1>2, FragsStill DEF Quic!Call, Quic!ServerReplies, Quic!udp, Quic!link
<1>3. ASSUME NEW c \in Callers, Quic!TakeSlot(c) \/ Quic!Reuse(c) \/ Quic!Authenticate(c) \/ Quic!Refused(c)
             \/ Quic!Disconnect(c)
      PROVE FragsOfOne'
  BY <1>3, FragsStill DEF Quic!TakeSlot, Quic!Reuse, Quic!Authenticate, Quic!Refused,
     Quic!Disconnect, Quic!udp
<1>4. ASSUME NEW c \in Callers, Quic!OpenTcpStream(c) \/ Quic!SendUdpPacket(c) \/ Quic!RecvFails(c)
      PROVE FragsOfOne'
  BY <1>4, FragsStill DEF Quic!OpenTcpStream, Quic!SendUdpPacket, Quic!RecvFails, Quic!udp,
     Quic!link
<1>5. ASSUME NEW c \in Callers, Quic!Dial(c) PROVE FragsOfOne'
  BY <1>5, FragsStill DEF Quic!Dial
<1>6. CASE Quic!ConnectionDies
  BY <1>6, FragsStill DEF Quic!ConnectionDies, Quic!udp
<1>7. CASE UNCHANGED Quic!vars
  BY <1>7, FragsStill DEF Quic!vars
<1> QED
  BY <1>1, <1>2, <1>3, <1>4, <1>5, <1>6, <1>7 DEF Quic!Next, Quic!Step

LEMMA AnswerOfOne ==
  ASSUME FragsOfOne
  PROVE Quic!AnswerIsWhole
<1> DEFINE S(c) == {x.of : x \in reply[c]}
<1>1. ASSUME proto = "hysteria2", NEW c \in Callers
      PROVE Cardinality(S(c)) <= 1
  <2>1. \A a, b \in S(c) : a = b
    BY <1>1 DEF FragsOfOne
  <2> HIDE DEF S
  <2>2. CASE S(c) = {}
    BY <2>2, FS_EmptySet
  <2>3. CASE S(c) # {}
    <3>1. PICK a \in S(c) : TRUE
      BY <2>3
    <3>2. S(c) = {a}
      BY <2>1, <3>1
    <3> QED
      BY <3>2, FS_Singleton
  <2> QED
    BY <2>2, <2>3
<1>2. Quic!AnswerIsWhole <=> (proto = "hysteria2" => \A c \in Callers : Cardinality(S(c)) <= 1)
  BY Zenon DEF Quic!AnswerIsWhole, Quic!Cardinality, Cardinality, Quic!IsFiniteSet, IsFiniteSet
<1> HIDE DEF S
<1> QED
  BY <1>1, <1>2

(* No caller of Hysteria, Hysteria 2 or TUIC opens a stream or sends a        *)
(* datagram on a connection that is not authenticated, whoever made it,       *)
(* replaced it or lost it in between, and an answer of Hysteria 2 is made of  *)
(* the fragments of one packet, in whatever order those of several arrive and *)
(* whatever the buffer prunes (get_or_create_connection, FragAssembler::add). *)
(* What MCProtocols checks in QuicIsSound of these outbounds, the byte count  *)
(* of the buffer apart.                                                       *)
THEOREM UseAlwaysAuthenticated == Quic!Spec => [](Quic!UsedAuthenticated /\ Quic!AnswerIsWhole)
<1> DEFINE Inv == LinkInv /\ FragsOfOne
<1>1. Quic!Init => Inv
  <2>1. Quic!Init => FragsOfOne
    BY DEF Quic!Init, FragsOfOne
  <2> QED
    BY <2>1, LinkStart
<1>2. Inv /\ [Quic!Next]_(Quic!vars) => Inv'
  BY LinkKept, FragsKept
<1>3. Inv => Quic!UsedAuthenticated /\ Quic!AnswerIsWhole
  <2>1. LinkInv => Quic!UsedAuthenticated
    BY DEF LinkInv, AuthedFirst, Quic!UsedAuthenticated, UsingConn
  <2> QED
    BY <2>1, AnswerOfOne
<1> QED
  BY <1>1, <1>2, <1>3, PTL DEF Quic!Spec

(***************************************************************************)
(* HttpFetch                                                               *)
(***************************************************************************)

Fetch == INSTANCE HttpFetch

\* Past the CONNECT the connection leads to the URL of this hop, and the answer
\* read is the one of that URL; there is no result before the call ends.
FetchInv ==
  /\ at # "done" => result = None
  /\ at \in {"tls", "request", "body"} => tunnel = url
  /\ at = "body" => reply.from = url
  /\ Fetch!FetchIsSound

LEMMA FetchFails ==
  ASSUME Fetch!Error
  PROVE FetchInv'
BY DEF Fetch!Error, Fetch!Done, FetchInv, Fetch!FetchIsSound

LEMMA FetchTunnels ==
  ASSUME Fetch!FetchAssumption, FetchInv, Fetch!Connect \/ Fetch!TunnelRead \/ Fetch!Tls
  PROVE FetchInv'
<1>1. CASE Fetch!Connect
  BY <1>1, FetchFails DEF Fetch!Connect, FetchInv, Fetch!FetchIsSound, Fetch!FetchAssumption
<1>2. CASE Fetch!TunnelRead
  BY <1>2, FetchFails DEF Fetch!TunnelRead, FetchInv, Fetch!FetchIsSound, Fetch!FetchAssumption
<1>3. CASE Fetch!Tls
  BY <1>3, FetchFails DEF Fetch!Tls, FetchInv, Fetch!FetchIsSound, Fetch!FetchAssumption
<1> QED
  BY <1>1, <1>2, <1>3

LEMMA FetchAnswers ==
  ASSUME Fetch!FetchAssumption, FetchInv, Fetch!Request
  PROVE FetchInv'
<1>1. CASE Fetch!Error
  BY <1>1, FetchFails
<1>2. CASE ~Fetch!Error
  <2>1. PICK r \in Fetch!Replies :
          /\ r.from = tunnel
          /\ reply' = r
          /\ at' = IF r.framing = "length" /\ r.size > MaxBody THEN "done" ELSE "body"
          /\ result' = IF r.framing = "length" /\ r.size > MaxBody THEN "error" ELSE None
    BY <1>2 DEF Fetch!Request
  <2>2. at = "request" /\ url' = url /\ tunnel' = tunnel
    BY DEF Fetch!Request
  <2>3. tunnel = url
    BY <2>2 DEF FetchInv
  <2>4. result' # "ok" /\ at' \in {"done", "body"} /\ (at' = "body" => result' = None)
    BY <2>1 DEF Fetch!FetchAssumption
  <2> QED
    BY <2>1, <2>2, <2>3, <2>4 DEF FetchInv, Fetch!FetchIsSound
<1> QED
  BY <1>1, <1>2

LEMMA FetchReads ==
  ASSUME Fetch!FetchAssumption, FetchInv,
         Fetch!OriginSends \/ Fetch!OriginCloses \/ Fetch!Read \/ Fetch!BodyFails
  PROVE FetchInv'
<1>1. CASE Fetch!Error
  BY <1>1, FetchFails
<1>2. CASE ~Fetch!Error
  <2>1. at = "body" /\ UNCHANGED <<url, tunnel, at, reply, result>>
    BY <1>2 DEF Fetch!OriginSends, Fetch!OriginCloses, Fetch!Read, Fetch!BodyFails
  <2> QED
    BY <2>1 DEF FetchInv, Fetch!FetchIsSound, Fetch!FetchAssumption
<1> QED
  BY <1>1, <1>2

LEMMA FetchEnds ==
  ASSUME Fetch!FetchAssumption, FetchInv, Fetch!Finish
  PROVE FetchInv'
<1>1. at = "body" /\ result = None /\ reply.from = url /\ UNCHANGED <<tunnel, reply, body>>
  BY DEF Fetch!Finish, FetchInv, Fetch!answer
<1>2. CASE reply.class # "redirect"
  <2>1. at' = "done" /\ result' = "ok" /\ url' = url
    BY <1>2 DEF Fetch!Finish, Fetch!Done
  <2>2. reply.class = "empty" \/ reply.framing = "eof" \/ body = reply.size
    BY DEF Fetch!Finish, Fetch!FramedEnd, Fetch!EofEnd
  <2> QED
    BY <1>1, <2>1, <2>2 DEF FetchInv, Fetch!FetchIsSound
<1>3. CASE reply.class = "redirect"
  <2>1. \/ Fetch!Error
        \/ at' = "connect" /\ result' = result
        \/ at' = "done" /\ result' = "too many redirects"
    BY <1>3 DEF Fetch!Finish, Fetch!FollowTo, Fetch!Done
  <2>2. CASE ~Fetch!Error
    BY <1>1, <2>1, <2>2 DEF FetchInv, Fetch!FetchIsSound, Fetch!FetchAssumption
  <2> QED
    BY <2>2, FetchFails
<1> QED
  BY <1>2, <1>3

(* A call that gives out a body gives out the answer of the URL asked last,   *)
(* never one that came over a connection made for an earlier hop, and a body  *)
(* whose framing says how long it is comes whole, whatever the redirects and  *)
(* however the origin's stream ends (proxy_get, proxy_get_once).              *)
(* What MCState checks in InputsAreRead of the HTTP client.                   *)
THEOREM FetchAlwaysSound == ASSUME Fetch!FetchAssumption PROVE Fetch!Spec => []Fetch!FetchIsSound
<1>1. Fetch!Init => FetchInv
  BY DEF Fetch!Init, FetchInv, Fetch!FetchIsSound, Fetch!FetchAssumption
<1>2. FetchInv /\ [Fetch!Next]_(Fetch!vars) => FetchInv'
  <2>1. CASE UNCHANGED Fetch!vars
    BY <2>1 DEF Fetch!vars, FetchInv, Fetch!FetchIsSound
  <2> QED
    BY <2>1, FetchTunnels, FetchAnswers, FetchReads, FetchEnds DEF Fetch!Next
<1>3. FetchInv => Fetch!FetchIsSound
  BY DEF FetchInv
<1> QED
  BY <1>1, <1>2, <1>3, PTL DEF Fetch!Spec

(***************************************************************************)
(* OutboundDialogs                                                         *)
(***************************************************************************)

Dialogs == INSTANCE OutboundDialogs

-----------------------------------------------------------------------------
(* Sequences of units                                                      *)

ReplyWords == {"ok", "no", "v4", "v6", "host", "other", "a", "200", "407", "field", "end",
               "version", "junk", "0", "1", "tunnel", "error", "code", "text",
               "wrapped", "noauth", "userpass", "refused", "yes"}
DialogWords == ReplyWords \cup {Data[i] : i \in 1 .. Len(Data)}
Units == Seq(DialogWords)

LEMMA DataIsUnits ==
  ASSUME Dialogs!DialogsAssumption
  PROVE Data \in Units /\ Len(Data) \in Nat
<1>1. Len(Data) \in Nat /\ Data \in [1 .. Len(Data) -> STRING]
  BY DEF Dialogs!DialogsAssumption
<1>2. Data \in [1 .. Len(Data) -> DialogWords]
  BY <1>1 DEF DialogWords
<1> QED
  BY <1>1, <1>2 DEF Units

LEMMA UnitsJoin ==
  ASSUME NEW a \in Units, NEW b \in Units
  PROVE /\ a \o b \in Units
        /\ Len(a \o b) = Len(a) + Len(b)
        /\ \A i \in 1 .. Len(a) : (a \o b)[i] = a[i]
        /\ \A i \in 1 .. Len(b) : (a \o b)[Len(a) + i] = b[i]
  BY DEF Units

LEMMA UnitsCut ==
  ASSUME NEW a \in Units, NEW m \in Nat, NEW n \in Nat, m >= 1, n <= Len(a)
  PROVE /\ SubSeq(a, m, n) \in Units
        /\ m <= n + 1 => Len(SubSeq(a, m, n)) = n - m + 1
        /\ \A i \in 1 .. Len(SubSeq(a, m, n)) : SubSeq(a, m, n)[i] = a[i + m - 1]
  BY DEF Units

LEMMA UnitsEqual ==
  ASSUME NEW a \in Units, NEW b \in Units, Len(a) = Len(b), \A i \in 1 .. Len(a) : a[i] = b[i]
  PROVE a = b
  BY DEF Units

LEMMA UnitsAssociate ==
  ASSUME NEW a \in Units, NEW b \in Units, NEW c \in Units
  PROVE (a \o b) \o c = a \o (b \o c)
  BY DEF Units

LEMMA UnitsEmpty ==
  ASSUME NEW a \in Units
  PROVE << >> \in Units /\ << >> \o a = a /\ a \o << >> = a
  BY DEF Units

LEMMA UnitsNone ==
  ASSUME NEW a \in Units, Len(a) = 0
  PROVE a = << >>
  BY DEF Units

\* What is behind a reply is left when the reply is taken.
LEMMA UnitsBehind ==
  ASSUME NEW r \in Units, NEW s \in Units
  PROVE SubSeq(r \o s, Len(r) + 1, Len(r \o s)) = s
<1> DEFINE a == r \o s
           c == SubSeq(a, Len(r) + 1, Len(a))
<1>1. a \in Units /\ Len(a) = Len(r) + Len(s) /\ Len(r) \in Nat /\ Len(s) \in Nat
  BY UnitsJoin DEF Units
<1>2. c \in Units /\ Len(c) = Len(s) /\ \A i \in 1 .. Len(c) : c[i] = a[i + (Len(r) + 1) - 1]
  <2> HIDE DEF a
  <2> QED BY <1>1, UnitsCut
<1>3. \A i \in 1 .. Len(s) : a[Len(r) + i] = s[i]
  BY UnitsJoin
<1> HIDE DEF a, c
<1>4. \A i \in 1 .. Len(c) : c[i] = s[i]
  <2> TAKE i \in 1 .. Len(c)
  <2>1. i + (Len(r) + 1) - 1 = Len(r) + i
    BY <1>1
  <2> QED BY <1>2, <1>3, <2>1
<1>5. c = s
  BY <1>2, <1>4, UnitsEqual
<1> QED
  BY <1>5 DEF a, c

\* A segment of a read and the rest of what was there.
LEMMA UnitsSplit ==
  ASSUME NEW a \in Units, NEW n \in Nat, n <= Len(a)
  PROVE /\ SubSeq(a, 1, n) \in Units /\ SubSeq(a, n + 1, Len(a)) \in Units
        /\ SubSeq(a, 1, n) \o SubSeq(a, n + 1, Len(a)) = a
<1> DEFINE u == SubSeq(a, 1, n)
           v == SubSeq(a, n + 1, Len(a))
<1>1. Len(a) \in Nat
  BY DEF Units
<1>2. u \in Units /\ Len(u) = n /\ \A i \in 1 .. n : u[i] = a[i]
  BY <1>1 DEF Units
<1>3. v \in Units /\ Len(v) = Len(a) - n /\ \A i \in 1 .. Len(v) : v[i] = a[n + i]
  BY <1>1 DEF Units
<1> HIDE DEF u, v
<1>4. u \o v \in Units /\ Len(u \o v) = Len(a)
  <2>1. u \o v \in Units /\ Len(u \o v) = Len(u) + Len(v)
    BY <1>2, <1>3, UnitsJoin
  <2> QED BY <1>1, <1>2, <1>3, <2>1
<1>5. \A i \in 1 .. Len(u \o v) : (u \o v)[i] = a[i]
  <2> TAKE i \in 1 .. Len(u \o v)
  <2>1. CASE i <= n
    BY <1>1, <1>2, <1>3, <1>4, <2>1, UnitsJoin
  <2>2. CASE i > n
    <3>1. i - n \in 1 .. Len(v) /\ n + (i - n) = i
      BY <1>1, <1>3, <1>4, <2>2
    <3>2. (u \o v)[n + (i - n)] = v[i - n]
      BY <1>2, <1>3, <3>1, UnitsJoin
    <3> QED BY <1>3, <3>1, <3>2
  <2> QED BY <2>1, <2>2, <1>1
<1>6. u \o v = a
  BY <1>4, <1>5, UnitsEqual
<1> QED
  BY <1>2, <1>3, <1>6 DEF u, v

\* Cutting the front of one part of a whole cuts the front of the whole.
LEMMA UnitsFront ==
  ASSUME NEW a \in Units, NEW b \in Units, NEW n \in Nat, n <= Len(a)
  PROVE SubSeq(a, n + 1, Len(a)) \o b = SubSeq(a \o b, n + 1, Len(a \o b))
<1> DEFINE u == SubSeq(a, 1, n)
           v == SubSeq(a, n + 1, Len(a))
<1>1. u \in Units /\ v \in Units /\ u \o v = a /\ Len(u) = n
  <2>1. Len(u) = n
    BY DEF Units
  <2> QED BY <2>1, UnitsSplit
<1> HIDE DEF u, v
<1>2. v \o b \in Units /\ u \o (v \o b) = a \o b
  <2>1. v \o b \in Units
    BY <1>1, UnitsJoin
  <2>2. (u \o v) \o b = u \o (v \o b)
    BY <1>1, UnitsAssociate
  <2> QED BY <1>1, <2>1, <2>2
<1>3. SubSeq(u \o (v \o b), Len(u) + 1, Len(u \o (v \o b))) = v \o b
  BY <1>1, <1>2, UnitsBehind
<1> QED
  BY <1>1, <1>2, <1>3 DEF v

\* What is said so far, with one unit more.
LEMMA UnitsGrow ==
  ASSUME NEW a \in Units, NEW k \in Nat, k < Len(a)
  PROVE SubSeq(a, 1, k) \o <<a[k + 1]>> = SubSeq(a, 1, k + 1) /\ <<a[k + 1]>> \in Units
  BY DEF Units

LEMMA UnitsPrefix ==
  ASSUME NEW a \in Units, NEW d \in Units, NEW f \in Units, NEW k \in 0 .. Len(a),
         d \o f = SubSeq(a, 1, k)
  PROVE Dialogs!IsPrefix(d, a) /\ f = SubSeq(a, Len(d) + 1, k)
<1>1. Len(d) + Len(f) = k /\ Len(d) \in Nat /\ Len(f) \in Nat
  BY DEF Units
<1>2. \A i \in 1 .. Len(d) : d[i] = a[i]
  BY <1>1 DEF Units
<1>3. \A i \in 1 .. Len(f) : f[i] = a[Len(d) + i]
  <2> TAKE i \in 1 .. Len(f)
  <2>1. (d \o f)[Len(d) + i] = f[i]
    BY UnitsJoin
  <2>2. SubSeq(a, 1, k)[Len(d) + i] = a[Len(d) + i]
    BY <1>1 DEF Units
  <2> QED BY <2>1, <2>2
<1>4. SubSeq(d, 1, Len(d)) = SubSeq(a, 1, Len(d))
  BY <1>1, <1>2 DEF Units
<1>5. f = SubSeq(a, Len(d) + 1, k)
  BY <1>1, <1>3 DEF Units
<1> QED
  BY <1>1, <1>4, <1>5 DEF Dialogs!IsPrefix, Units

-----------------------------------------------------------------------------
(* The invariant                                                           *)

WireNames == Dialogs!Targets \cup {"none", "clipped", "error"}

DialogTypes ==
  /\ conf.protocol \in Dialogs!Kinds /\ conf.target \in Dialogs!Targets
  /\ conf.mode \in {"relay", "probe", "udp"}
  /\ inbox \in Units /\ prefix \in Units /\ delivered \in Units
  /\ said \in 0 .. Len(Data)
  /\ server \in [accepted : BOOLEAN, target : WireNames, owes : Units]
  /\ ~server.accepted => said = 0 /\ server.owes = << >>

OnWire == Dialogs!Wire(conf.protocol, conf.target)

\* A request that is under way or was taken names the target as the encoder of
\* the protocol writes it, and none is sent that the encoder refuses.
RequestIsRight ==
  /\ ask[1] = "request" =>
       ask[2] = OnWire /\ OnWire # "error" /\ conf.protocol # "shadowtls"
  /\ server.accepted =>
       server.target = OnWire /\ OnWire # "error" /\ conf.protocol # "shadowtls"

Spoken == SubSeq(Data, 1, said)
Untouched == ~server.accepted /\ prefix = << >>

\* Nothing to read before anything was asked; one answer to each question.
Quiet == {"new", "dial", "wrap", "request", "connect", "auth"}
Asking == {"wrapping", "method", "granted"}

\* The server has not answered the request; or it has refused it; or it has
\* taken it, and behind the reply comes what the target has said; or it keeps
\* the reply until the target speaks.
Replying ==
  /\ conf.protocol \in Dialogs!Answered
  /\ conf.protocol # "http" => prefix = << >>
  /\ \/ ask[1] = "request" /\ inbox = << >> /\ Untouched
     \/ /\ ask = Dialogs!Nothing /\ ~server.accepted
        /\ prefix \o inbox \in Dialogs!Replies(conf.protocol)[2]
     \/ /\ ask = Dialogs!Nothing /\ server.accepted /\ server.owes = << >>
        /\ \E r \in Dialogs!Replies(conf.protocol)[1] : prefix \o inbox = r \o Spoken
     \/ /\ ask = Dialogs!Nothing /\ server.accepted /\ conf.protocol = "vless" /\ said = 0
        /\ prefix = << >> /\ inbox = << >>
        /\ server.owes \in Dialogs!Replies(conf.protocol)[1]

\* What was handed on, what was read with the head and what waits are what the
\* target has said.
Tunnelling ==
  /\ conf.protocol \in Dialogs!Answered => server.accepted
  /\ ask[1] \in {"request", "nothing"}
  /\ ask[1] = "request" => conf.protocol \notin Dialogs!Answered /\ ~server.accepted
  /\ server.owes = << >>
  /\ delivered \o (prefix \o inbox) = Spoken

DialogStands ==
  /\ pc \in Quiet => ask = Dialogs!Nothing /\ inbox = << >> /\ Untouched
  /\ pc \in Asking => /\ Untouched /\ ask[1] # "request"
                      /\ inbox = << >> \/ (ask = Dialogs!Nothing /\ Len(inbox) = 1)
  /\ pc = "reply" => Replying
  /\ pc \in {"tunnel", "relay"} => Tunnelling
  /\ pc # "relay" => delivered = << >>

DialogInv == DialogTypes /\ RequestIsRight /\ DialogStands

LEMMA DialogStart ==
  ASSUME Dialogs!DialogsAssumption, Dialogs!Init
  PROVE DialogInv
<1>1. conf.protocol \in Dialogs!Kinds /\ conf.target \in Dialogs!Targets /\ conf.mode \in {"relay", "probe", "udp"}
  BY DEF Dialogs!Init, Dialogs!DialogsAssumption
<1>2. DialogTypes
  <2>1. << >> \in Units /\ 0 \in 0 .. Len(Data)
    BY DataIsUnits DEF Units
  <2>2. server \in [accepted : BOOLEAN, target : WireNames, owes : Units] /\ server.owes = << >>
    BY <2>1 DEF Dialogs!Init, WireNames
  <2> QED
    BY <1>1, <2>1, <2>2 DEF Dialogs!Init, DialogTypes
<1>3. RequestIsRight /\ DialogStands
  BY DEF Dialogs!Init, RequestIsRight, DialogStands, Quiet, Asking, Untouched, Dialogs!Nothing
<1> QED
  BY <1>2, <1>3 DEF DialogInv

-----------------------------------------------------------------------------
(* Steps of the client                                                     *)

Astray == {"probe", "answer", "ok", "err"}

\* A client that gave up, or that has its one answer.
LEMMA DialogStrays ==
  ASSUME DialogInv, UNCHANGED <<conf, server, said, delivered>>, prefix' \in Units, inbox' \in Units,
         pc # "relay", pc' \in Astray, ask' = ask \/ ask'[1] # "request"
  PROVE DialogInv'
<1>1. DialogTypes'
  BY DEF DialogInv, DialogTypes
<1>2. RequestIsRight'
  BY DEF DialogInv, RequestIsRight, OnWire
<1>3. DialogStands'
  BY DEF DialogInv, DialogStands, Astray, Quiet, Asking
<1> QED
  BY <1>1, <1>2, <1>3 DEF DialogInv

LEMMA GotoStrays ==
  ASSUME DialogInv, pc # "relay", NEW l \in Astray, Dialogs!Goto(l)
  PROVE DialogInv'
  BY DialogStrays DEF Dialogs!Goto, DialogInv, DialogTypes

LEMMA DialogRests ==
  ASSUME DialogInv, pc \in Quiet \cup Asking, UNCHANGED <<conf, server, said, prefix, delivered>>,
         inbox' = << >>, pc' \in Quiet, ask' = Dialogs!Nothing
  PROVE DialogInv'
<1>1. DialogTypes'
  BY DEF DialogInv, DialogTypes, Units
<1>2. RequestIsRight'
  BY DEF DialogInv, RequestIsRight, OnWire, Dialogs!Nothing
<1>3. delivered = << >> /\ Untouched
  BY DEF DialogInv, DialogStands, Quiet, Asking
<1>4. DialogStands'
  BY <1>3 DEF DialogStands, Quiet, Asking, Untouched
<1> QED
  BY <1>1, <1>2, <1>4 DEF DialogInv

LEMMA DialogInquires ==
  ASSUME DialogInv, pc \in Quiet, UNCHANGED <<conf, server, said, prefix, delivered>>,
         inbox' = << >>, pc' \in Asking, ask'[1] # "request"
  PROVE DialogInv'
<1>1. DialogTypes'
  BY DEF DialogInv, DialogTypes, Units
<1>2. RequestIsRight'
  BY DEF DialogInv, RequestIsRight, OnWire
<1>3. delivered = << >> /\ Untouched
  BY DEF DialogInv, DialogStands, Quiet
<1>4. DialogStands'
  BY <1>3 DEF DialogStands, Quiet, Asking, Untouched
<1> QED
  BY <1>1, <1>2, <1>4 DEF DialogInv

LEMMA QuietHolds ==
  ASSUME DialogInv, pc \in Quiet
  PROVE ask = Dialogs!Nothing /\ inbox = << >> /\ Untouched /\ delivered = << >>
  BY DEF DialogInv, DialogStands, Quiet

LEMMA AskingHolds ==
  ASSUME DialogInv, pc \in Asking, Len(inbox) >= 1
  PROVE ask = Dialogs!Nothing /\ Len(inbox) = 1 /\ SubSeq(inbox, 2, Len(inbox)) = << >> /\ Tail(inbox) = << >>
<1>1. ask = Dialogs!Nothing /\ Len(inbox) = 1 /\ inbox \in Units
  BY DEF DialogInv, DialogStands, DialogTypes, Asking
<1>2. SubSeq(inbox, 2, Len(inbox)) \in Units /\ Len(SubSeq(inbox, 2, Len(inbox))) = 0
  BY <1>1 DEF Units
<1>3. SubSeq(inbox, 2, Len(inbox)) = << >>
  BY <1>2, UnitsNone
<1>4. Tail(inbox) \in Units /\ Len(Tail(inbox)) = 0
  BY <1>1 DEF Units
<1>5. Tail(inbox) = << >>
  BY <1>4, UnitsNone
<1> QED
  BY <1>1, <1>3, <1>5

LEMMA DialogOpens ==
  ASSUME DialogInv,
         \/ Dialogs!New \/ Dialogs!Dial \/ Dialogs!Wrap \/ Dialogs!WrapDone \/ Dialogs!Socks5Hello
         \/ Dialogs!Socks5Method \/ Dialogs!Socks5Auth \/ Dialogs!Socks5Granted
  PROVE DialogInv'
<1>1. CASE Dialogs!New
  <2>1. pc = "new" /\ \E l \in {"dial", "err"} : Dialogs!Goto(l)
    BY <1>1 DEF Dialogs!New
  <2>2. CASE Dialogs!Goto("err")
    BY <2>1, <2>2, GotoStrays DEF Astray
  <2>3. CASE Dialogs!Goto("dial")
    BY <2>1, <2>3, QuietHolds, DialogRests DEF Dialogs!Goto, Quiet
  <2> QED BY <2>1, <2>2, <2>3
<1>2. CASE Dialogs!Dial
  <2>1. CASE Dialogs!Goto("err")
    BY <1>2, <2>1, GotoStrays DEF Astray, Dialogs!Dial
  <2>2. CASE ~Dialogs!Goto("err")
    <3>1. pc \in Quiet /\ pc' \in Quiet /\ UNCHANGED <<conf, ask, inbox, server, said, prefix, delivered>>
      BY <1>2, <2>2 DEF Dialogs!Dial, Quiet
    <3> QED BY <3>1, QuietHolds, DialogRests
  <2> QED BY <2>1, <2>2
<1>3. CASE Dialogs!Wrap
  <2>1. /\ pc \in Quiet /\ pc' \in Asking /\ ask'[1] # "request"
        /\ UNCHANGED <<conf, inbox, server, said, prefix, delivered>>
    BY <1>3 DEF Dialogs!Wrap, Quiet, Asking
  <2> QED BY <2>1, QuietHolds, DialogInquires
<1>4. CASE Dialogs!WrapDone
  <2>1. /\ pc \in Asking /\ pc' \in Quiet /\ Len(inbox) >= 1 /\ inbox' = Tail(inbox)
        /\ UNCHANGED <<conf, ask, server, said, prefix, delivered>>
    BY <1>4 DEF Dialogs!WrapDone, Quiet, Asking
  <2> QED BY <2>1, AskingHolds, DialogRests
<1>5. CASE Dialogs!Socks5Hello \/ Dialogs!Socks5Auth
  <2>1. /\ pc \in Quiet /\ pc' \in Asking /\ ask'[1] # "request"
        /\ UNCHANGED <<conf, inbox, server, said, prefix, delivered>>
    BY <1>5 DEF Dialogs!Socks5Hello, Dialogs!Socks5Auth, Dialogs!Write, Quiet, Asking
  <2> QED BY <2>1, QuietHolds, DialogInquires
<1>6. CASE Dialogs!Socks5Method \/ Dialogs!Socks5Granted
  <2>1. /\ pc \in Asking /\ pc' \in {"connect", "auth", "err"}
        /\ Len(inbox) >= 1 /\ inbox' = SubSeq(inbox, 1 + 1, Len(inbox))
        /\ UNCHANGED <<conf, ask, server, said, prefix, delivered>>
    BY <1>6 DEF Dialogs!Socks5Method, Dialogs!Socks5Granted, Dialogs!Take, Asking
  <2>2. ask = Dialogs!Nothing /\ inbox' = << >>
    BY <2>1, AskingHolds
  <2>3. CASE pc' = "err"
    BY <2>1, <2>2, <2>3, DialogStrays DEF Astray, Asking, DialogInv, DialogTypes, Units
  <2>4. CASE pc' # "err"
    BY <2>1, <2>2, <2>4, DialogRests DEF Quiet
  <2> QED BY <2>3, <2>4
<1> QED
  BY <1>1, <1>2, <1>3, <1>4, <1>5, <1>6

LEMMA DialogAsks ==
  ASSUME Dialogs!DialogsAssumption, DialogInv, Dialogs!SendRequest
  PROVE DialogInv'
<1>1. pc \in Quiet /\ UNCHANGED <<conf, server, said, prefix, delivered, inbox>>
  BY DEF Dialogs!SendRequest, Quiet, Dialogs!Goto, Dialogs!Write
<1>2. ask = Dialogs!Nothing /\ inbox = << >> /\ Untouched /\ delivered = << >>
  BY <1>1, QuietHolds
<1>3. server.owes = << >> /\ said = 0 /\ ~server.accepted
  BY <1>2 DEF DialogInv, DialogTypes, Untouched
<1>4. DialogTypes'
  BY <1>1 DEF DialogInv, DialogTypes
<1>5. << >> \o (<< >> \o << >>) = SubSeq(Data, 1, 0)
  BY DEF Dialogs!DialogsAssumption
<1>6. CASE Dialogs!Goto("err")
  BY <1>1, <1>6, GotoStrays DEF Astray, Quiet
<1>7. CASE conf.protocol = "shadowtls"
  <2>1. pc' = "tunnel" /\ ask' = ask
    BY <1>7 DEF Dialogs!SendRequest, Dialogs!Goto
  <2>2. RequestIsRight'
    BY <1>1, <2>1 DEF DialogInv, RequestIsRight, OnWire
  <2>3. Tunnelling'
    BY <1>1, <1>2, <1>3, <1>5, <1>7, <2>1
       DEF Tunnelling, Spoken, Untouched, Dialogs!Answered, Dialogs!Nothing
  <2> QED
    BY <1>1, <1>2, <1>4, <2>1, <2>2, <2>3 DEF DialogInv, DialogStands, Quiet, Asking
<1>8. CASE conf.protocol # "shadowtls" /\ ~Dialogs!Goto("err")
  <2>1. /\ OnWire # "error" /\ ask' = <<"request", OnWire>>
        /\ pc' = IF conf.protocol \in Dialogs!Answered THEN "reply" ELSE "tunnel"
    BY <1>8 DEF Dialogs!SendRequest, Dialogs!Write, OnWire
  <2>2. ask'[1] = "request" /\ ask'[2] = OnWire /\ OnWire' = OnWire
    BY <1>1, <2>1 DEF OnWire
  <2>3. RequestIsRight'
    BY <1>1, <1>3, <1>8, <2>1, <2>2 DEF RequestIsRight
  <2>4. CASE conf.protocol \in Dialogs!Answered
    BY <1>1, <1>2, <1>4, <2>1, <2>2, <2>3, <2>4
       DEF DialogInv, DialogStands, Quiet, Asking, Replying, Untouched
  <2>5. CASE conf.protocol \notin Dialogs!Answered
    <3>1. Tunnelling'
      BY <1>1, <1>2, <1>3, <1>5, <2>2, <2>5 DEF Tunnelling, Spoken, Untouched
    <3> QED
      BY <1>1, <1>2, <1>4, <2>1, <2>3, <2>5, <3>1 DEF DialogInv, DialogStands, Quiet, Asking
  <2> QED
    BY <2>4, <2>5
<1> QED
  BY <1>6, <1>7, <1>8

-----------------------------------------------------------------------------
(* The replies                                                             *)

LEMMA RepliesOf ==
  /\ Dialogs!Replies("socks5") = Dialogs!Socks5Replies
  /\ Dialogs!Replies("socks4") = Dialogs!Socks4Replies
  /\ Dialogs!Replies("http") = Dialogs!HttpReplies
  /\ Dialogs!Replies("vless") = Dialogs!VlessReplies
  /\ Dialogs!Replies("snell") = Dialogs!SnellReplies
  /\ \A p : p \notin Dialogs!Answered => Dialogs!Replies(p) = <<{<< >>}, {}>>
  BY DEF Dialogs!Replies, Dialogs!Answered

LEMMA RepliesListed ==
  /\ Dialogs!Replies("socks5")[1] = {<<"ok", "v4", "a">>, <<"ok", "v6", "a", "a">>,
                                      <<"ok", "host", "a", "a", "a">>, <<"ok", "other">>}
  /\ Dialogs!Replies("socks5")[2] = {<<"no", "v4", "a">>}
  /\ Dialogs!Replies("socks4")[1] = {<<"ok", "a">>}
  /\ Dialogs!Replies("socks4")[2] = {<<"no", "a">>}
  /\ Dialogs!Replies("http")[1] = {<<"200", "end">>, <<"200", "field", "field", "field", "field", "end">>}
  /\ Dialogs!Replies("http")[2] = {<<"407", "end">>}
  /\ Dialogs!Replies("vless")[1] = {<<"version", "0">>, <<"version", "1", "a">>}
  /\ Dialogs!Replies("vless")[2] = {<<"junk", "0">>}
  /\ Dialogs!Replies("snell")[1] = {<<"tunnel">>}
  /\ Dialogs!Replies("snell")[2] = {<<"error", "code", "text">>}
  BY RepliesOf DEF Dialogs!Socks5Replies, Dialogs!Socks4Replies, Dialogs!HttpReplies,
     Dialogs!VlessReplies,
     Dialogs!SnellReplies

\* Words make a sequence of units.
LEMMA UnitsOfFew ==
  ASSUME NEW a \in DialogWords, NEW b \in DialogWords, NEW c \in DialogWords
  PROVE <<a>> \in Units /\ <<a, b>> \in Units /\ <<a, b, c>> \in Units
  BY DEF Units

LEMMA UnitsOfMany ==
  ASSUME NEW a \in DialogWords, NEW b \in DialogWords, NEW c \in DialogWords,
         NEW d \in DialogWords, NEW e \in DialogWords, NEW f \in DialogWords
  PROVE <<a, b, c, d>> \in Units /\ <<a, b, c, d, e>> \in Units /\ <<a, b, c, d, e, f>> \in Units
  BY DEF Units

LEMMA RepliesAreUnits ==
  ASSUME NEW p \in Dialogs!Kinds
  PROVE /\ \A r \in Dialogs!Replies(p)[1] \cup Dialogs!Replies(p)[2] : r \in Units
        /\ p \notin Dialogs!Answered => Dialogs!Replies(p)[1] = {<< >>} /\ Dialogs!Replies(p)[2] = {}
<1>0. /\ {"ok", "no", "v4", "v6", "host", "other", "a"} \subseteq DialogWords
      /\ {"200", "407", "field", "end", "version", "junk", "0", "1"} \subseteq DialogWords
      /\ {"tunnel", "error", "code", "text"} \subseteq DialogWords
  BY DEF DialogWords, ReplyWords
<1>1. CASE p = "socks5"
  <2>1. /\ <<"ok", "v4", "a">> \in Units /\ <<"ok", "v6", "a", "a">> \in Units
        /\ <<"ok", "host", "a", "a", "a">> \in Units /\ <<"ok", "other">> \in Units
        /\ <<"no", "v4", "a">> \in Units
    BY <1>0, UnitsOfFew, UnitsOfMany, Zenon
  <2> QED
    BY <1>1, <2>1, RepliesListed, Zenon DEF Dialogs!Answered
<1>2. CASE p = "socks4"
  <2>1. <<"ok", "a">> \in Units /\ <<"no", "a">> \in Units
    BY <1>0, UnitsOfFew, UnitsOfMany, Zenon
  <2> QED
    BY <1>2, <2>1, RepliesListed, Zenon DEF Dialogs!Answered
<1>3. CASE p = "http"
  <2>1. /\ <<"200", "end">> \in Units /\ <<"407", "end">> \in Units
        /\ <<"200", "field", "field", "field", "field", "end">> \in Units
    BY <1>0, UnitsOfFew, UnitsOfMany, Zenon
  <2> QED
    BY <1>3, <2>1, RepliesListed, Zenon DEF Dialogs!Answered
<1>4. CASE p = "vless"
  <2>1. <<"version", "0">> \in Units /\ <<"version", "1", "a">> \in Units /\ <<"junk", "0">> \in Units
    BY <1>0, UnitsOfFew, UnitsOfMany, Zenon
  <2> QED
    BY <1>4, <2>1, RepliesListed, Zenon DEF Dialogs!Answered
<1>5. CASE p = "snell"
  <2>1. <<"tunnel">> \in Units /\ <<"error", "code", "text">> \in Units
    BY <1>0, UnitsOfFew, UnitsOfMany, Zenon
  <2> QED
    BY <1>5, <2>1, RepliesListed, Zenon DEF Dialogs!Answered
<1>6. CASE p \notin Dialogs!Answered
  <2>1. Dialogs!Replies(p)[1] = {<< >>} /\ Dialogs!Replies(p)[2] = {}
    BY <1>6, RepliesOf
  <2>2. << >> \in Units
    BY DEF Units
  <2> QED
    BY <2>1, <2>2, Zenon
<1> QED
  BY <1>1, <1>2, <1>3, <1>4, <1>5, <1>6 DEF Dialogs!Answered

LEMMA SpokenIsUnits ==
  ASSUME Dialogs!DialogsAssumption, DialogTypes
  PROVE Spoken \in Units /\ Len(Spoken) = said /\ said \in Nat
<1>1. said \in Nat /\ said <= Len(Data) /\ Data \in Units
  BY DataIsUnits DEF DialogTypes
<1> QED
  BY <1>1, UnitsCut DEF Spoken, Units

\* The tunnel is open behind the reply.
LEMMA DialogTunnels ==
  ASSUME Dialogs!DialogsAssumption, DialogInv, pc = "reply", pc' = "tunnel",
         UNCHANGED <<conf, ask, server, said, delivered>>, ask = Dialogs!Nothing,
         server.accepted, server.owes = << >>, prefix' \in Units, inbox' \in Units,
         prefix' \o inbox' = Spoken
  PROVE DialogInv'
<1>1. DialogTypes' /\ RequestIsRight'
  BY DEF DialogInv, DialogTypes, RequestIsRight, OnWire
<1>2. delivered = << >> /\ Spoken \in Units /\ Spoken' = Spoken
  BY SpokenIsUnits DEF DialogInv, DialogStands, Spoken
<1>3. delivered' \o (prefix' \o inbox') = Spoken'
  BY <1>2, UnitsEmpty
<1>4. Tunnelling'
  BY <1>3 DEF Tunnelling, Dialogs!Nothing
<1>5. DialogStands'
  BY <1>2, <1>4 DEF DialogStands, Quiet, Asking
<1> QED
  BY <1>1, <1>5 DEF DialogInv

LEMMA ReplyTaken ==
  ASSUME Dialogs!DialogsAssumption, DialogInv, pc = "reply", pc' = "tunnel", ask = Dialogs!Nothing,
         server.accepted, server.owes = << >>, prefix = << >>,
         NEW r \in Units, prefix \o inbox = r \o Spoken, NEW n, n = Len(r), Dialogs!Take(n)
  PROVE DialogInv'
<1>1. inbox \in Units /\ Spoken \in Units
  BY SpokenIsUnits DEF DialogInv, DialogTypes
<1>2. inbox = r \o Spoken
  BY <1>1, UnitsEmpty
<1>3. inbox' = Spoken
  BY <1>1, <1>2, UnitsBehind DEF Dialogs!Take
<1>4. prefix' \o inbox' = Spoken /\ prefix' \in Units
  BY <1>1, <1>3, UnitsEmpty DEF Dialogs!Take
<1> QED
  BY <1>1, <1>3, <1>4, DialogTunnels DEF Dialogs!Take

LEMMA TakenIsUnits ==
  ASSUME DialogInv, NEW n \in Nat, Dialogs!Take(n)
  PROVE inbox' \in Units
<1>1. inbox \in Units /\ Len(inbox) >= n /\ inbox' = SubSeq(inbox, n + 1, Len(inbox))
  BY DEF DialogInv, DialogTypes, Dialogs!Take
<1> QED
  BY <1>1, UnitsSplit DEF Units

\* What a client that waits for the reply may find, if there is anything.
Arrived(p) ==
  /\ prefix = << >> /\ inbox \in Units /\ ask = Dialogs!Nothing
  /\ \/ ~server.accepted /\ inbox \in Dialogs!Replies(p)[2]
     \/ /\ server.accepted /\ server.owes = << >>
        /\ \E r \in Dialogs!Replies(p)[1] :
             /\ r \in Units /\ inbox = r \o Spoken /\ Len(inbox) >= Len(r)
             /\ \A i \in 1 .. Len(r) : inbox[i] = r[i]

LEMMA ReplyFound ==
  ASSUME Dialogs!DialogsAssumption, DialogInv, pc = "reply", conf.protocol # "http", Len(inbox) >= 1
  PROVE Arrived(conf.protocol)
<1>1. Replying /\ inbox \in Units /\ Spoken \in Units /\ conf.protocol \in Dialogs!Kinds
  BY SpokenIsUnits DEF DialogInv, DialogStands, DialogTypes
<1>2. prefix = << >> /\ prefix \o inbox = inbox /\ inbox # << >>
  <2>1. inbox # << >>
    OBVIOUS
  <2> QED
    BY <1>1, <2>1, UnitsEmpty DEF Replying
<1>3. CASE ~server.accepted
  BY <1>1, <1>2, <1>3 DEF Replying, Arrived
<1>4. CASE server.accepted
  <2>1. ask = Dialogs!Nothing /\ server.owes = << >>
    BY <1>1, <1>2, <1>4 DEF Replying, Untouched
  <2>2. PICK r \in Dialogs!Replies(conf.protocol)[1] : inbox = r \o Spoken
    BY <1>1, <1>2, <1>4 DEF Replying, Untouched
  <2>3. r \in Units
    BY <1>1, RepliesAreUnits
  <2>4. Len(inbox) >= Len(r) /\ \A i \in 1 .. Len(r) : inbox[i] = r[i]
    BY <1>1, <2>2, <2>3, UnitsJoin DEF Units
  <2> QED
    BY <1>1, <1>2, <1>4, <2>1, <2>2, <2>3, <2>4 DEF Arrived
<1> QED
  BY <1>3, <1>4

LEMMA Socks5Replied ==
  ASSUME Dialogs!DialogsAssumption, DialogInv, Dialogs!Socks5Reply
  PROVE DialogInv'
<1>1. pc = "reply" /\ conf.protocol = "socks5" /\ Len(inbox) >= 2 /\ Len(inbox) >= 1
  BY DEF Dialogs!Socks5Reply, DialogInv, DialogTypes, Units
<1>2. CASE Dialogs!Goto("err")
  BY <1>1, <1>2, GotoStrays DEF Astray
<1>3. CASE ~Dialogs!Goto("err")
  <2>1. /\ inbox[1] = "ok" /\ inbox[2] # "other" /\ pc' = "tunnel"
        /\ Dialogs!Take(2 + Dialogs!Socks5AddressUnits(inbox[2]))
    BY <1>3 DEF Dialogs!Socks5Reply
  <2>2. Arrived("socks5")
    BY <1>1, ReplyFound
  <2>3. inbox \notin Dialogs!Replies("socks5")[2]
    BY <2>1, RepliesListed
  <2>4. PICK r \in Dialogs!Replies("socks5")[1] :
          r \in Units /\ inbox = r \o Spoken /\ \A i \in 1 .. Len(r) : inbox[i] = r[i]
    BY <2>2, <2>3 DEF Arrived
  <2>5. r \in {<<"ok", "v4", "a">>, <<"ok", "v6", "a", "a">>, <<"ok", "host", "a", "a", "a">>, <<"ok", "other">>}
    BY RepliesListed
  <2>6. 2 + Dialogs!Socks5AddressUnits(inbox[2]) = Len(r)
    <3>1. inbox[2] = r[2]
      BY <2>4, <2>5
    <3>2. CASE r = <<"ok", "v4", "a">>
      BY <3>1, <3>2 DEF Dialogs!Socks5AddressUnits
    <3>3. CASE r = <<"ok", "v6", "a", "a">>
      BY <3>1, <3>3 DEF Dialogs!Socks5AddressUnits
    <3>4. CASE r = <<"ok", "host", "a", "a", "a">>
      BY <3>1, <3>4 DEF Dialogs!Socks5AddressUnits
    <3>5. CASE r = <<"ok", "other">>
      BY <2>1, <3>1, <3>5
    <3> QED BY <2>5, <3>2, <3>3, <3>4, <3>5
  <2>7. prefix \o inbox = r \o Spoken
    BY <2>2, <2>4, UnitsEmpty DEF Arrived
  <2> QED
    BY <1>1, <2>1, <2>2, <2>3, <2>4, <2>6, <2>7, ReplyTaken DEF Arrived
<1> QED
  BY <1>2, <1>3

LEMMA Socks4Replied ==
  ASSUME Dialogs!DialogsAssumption, DialogInv, Dialogs!Socks4Reply
  PROVE DialogInv'
<1>1. pc = "reply" /\ conf.protocol = "socks4" /\ Dialogs!Take(2) /\ Len(inbox) >= 2 /\ Len(inbox) >= 1
  BY DEF Dialogs!Socks4Reply, Dialogs!Take, DialogInv, DialogTypes, Units
<1>2. CASE inbox[1] # "ok"
  BY <1>1, <1>2, TakenIsUnits, DialogStrays DEF Astray, Dialogs!Socks4Reply, Dialogs!Take,
     DialogInv, DialogTypes
<1>3. CASE inbox[1] = "ok"
  <2>1. Arrived("socks4")
    BY <1>1, ReplyFound
  <2>2. inbox \notin Dialogs!Replies("socks4")[2]
    BY <1>3, RepliesListed
  <2>3. PICK r \in Dialogs!Replies("socks4")[1] : r \in Units /\ inbox = r \o Spoken
    BY <2>1, <2>2 DEF Arrived
  <2>4. Len(r) = 2
    BY RepliesListed
  <2>5. prefix \o inbox = r \o Spoken /\ pc' = "tunnel"
    BY <1>3, <2>1, <2>3, UnitsEmpty DEF Arrived, Dialogs!Socks4Reply
  <2> QED
    BY <1>1, <2>1, <2>2, <2>3, <2>4, <2>5, ReplyTaken DEF Arrived
<1> QED
  BY <1>2, <1>3

LEMMA VlessReplied ==
  ASSUME Dialogs!DialogsAssumption, DialogInv, Dialogs!VlessReply
  PROVE DialogInv'
<1>1. pc = "reply" /\ conf.protocol = "vless" /\ Len(inbox) >= 2 /\ Len(inbox) >= 1
  BY DEF Dialogs!VlessReply, DialogInv, DialogTypes, Units
<1>2. CASE Dialogs!Goto("err")
  BY <1>1, <1>2, GotoStrays DEF Astray
<1>3. CASE ~Dialogs!Goto("err")
  <2>1. inbox[1] = "version" /\ pc' = "tunnel" /\ Dialogs!Take(IF inbox[2] = "1" THEN 3 ELSE 2)
    BY <1>3 DEF Dialogs!VlessReply
  <2>2. Arrived("vless")
    BY <1>1, ReplyFound
  <2>3. inbox \notin Dialogs!Replies("vless")[2]
    BY <2>1, RepliesListed
  <2>4. PICK r \in Dialogs!Replies("vless")[1] :
          r \in Units /\ inbox = r \o Spoken /\ \A i \in 1 .. Len(r) : inbox[i] = r[i]
    BY <2>2, <2>3 DEF Arrived
  <2>5. r \in {<<"version", "0">>, <<"version", "1", "a">>}
    BY RepliesListed
  <2>6. (IF inbox[2] = "1" THEN 3 ELSE 2) = Len(r)
    <3>1. inbox[2] = r[2]
      BY <2>4, <2>5
    <3> QED BY <2>5, <3>1
  <2>7. prefix \o inbox = r \o Spoken
    BY <2>2, <2>4, UnitsEmpty DEF Arrived
  <2> QED
    BY <1>1, <2>1, <2>2, <2>3, <2>4, <2>6, <2>7, ReplyTaken DEF Arrived
<1> QED
  BY <1>2, <1>3

LEMMA SnellReplied ==
  ASSUME Dialogs!DialogsAssumption, DialogInv, Dialogs!SnellReply
  PROVE DialogInv'
<1> DEFINE n == IF Len(inbox) > 0 /\ inbox[1] = "error" THEN 3 ELSE 1
<1>1. pc = "reply" /\ conf.protocol = "snell" /\ Dialogs!Take(n)
  BY DEF Dialogs!SnellReply
<1>2. n \in Nat /\ Len(inbox) >= 1
  <2>1. inbox \in Units /\ Len(inbox) >= n
    BY <1>1 DEF Dialogs!Take, DialogInv, DialogTypes
  <2> QED
    BY <2>1 DEF Units
<1>3. CASE inbox[1] # "tunnel"
  <2>1. pc' = "err"
    BY <1>3 DEF Dialogs!SnellReply
  <2> HIDE DEF n
  <2> QED
    BY <1>1, <1>2, <2>1, TakenIsUnits, DialogStrays DEF Astray, Dialogs!Take, DialogInv, DialogTypes
<1>4. CASE inbox[1] = "tunnel"
  <2>1. Arrived("snell")
    BY <1>1, <1>2, ReplyFound
  <2>2. inbox \notin Dialogs!Replies("snell")[2]
    BY <1>4, RepliesListed
  <2>3. PICK r \in Dialogs!Replies("snell")[1] : r \in Units /\ inbox = r \o Spoken
    BY <2>1, <2>2 DEF Arrived
  <2>4. Len(r) = n
    BY <1>4, RepliesListed
  <2>5. prefix \o inbox = r \o Spoken /\ pc' = "tunnel"
    BY <1>4, <2>1, <2>3, UnitsEmpty DEF Arrived, Dialogs!SnellReply
  <2> HIDE DEF n
  <2> QED
    BY <1>1, <2>1, <2>2, <2>3, <2>4, <2>5, ReplyTaken DEF Arrived
<1> QED
  BY <1>3, <1>4

-----------------------------------------------------------------------------
(* The head of the HTTP answer                                             *)

\* The least number of a set.
LEMMA LeastOf ==
  ASSUME NEW S \in SUBSET Nat, S # {}
  PROVE Dialogs!Min(S) \in S /\ \A y \in S : Dialogs!Min(S) <= y
<1>1. \E x \in S : \A y \in S : x <= y
  <2>1. PICK x \in S : \A y \in S : <<y, x>> \notin OpToRel(<, Nat)
    BY NatLessThanWellFounded, WFMin
  <2>2. \A y \in S : ~(y < x)
    BY <2>1 DEF OpToRel
  <2> QED
    BY <2>2
<1> QED
  BY <1>1 DEF Dialogs!Min

LEMMA HeadEndIs ==
  ASSUME NEW b \in Units, Dialogs!HeadEnd(b) # 0
  PROVE /\ Dialogs!HeadEnd(b) \in 1 .. Len(b) /\ b[Dialogs!HeadEnd(b)] = "end"
        /\ \A j \in 1 .. Len(b) : b[j] = "end" => Dialogs!HeadEnd(b) <= j
<1> DEFINE I == {i \in 1 .. Len(b) : b[i] = "end"}
<1>1. Dialogs!HeadEnd(b) = IF I # {} THEN Dialogs!Min(I) ELSE 0
  BY DEF Dialogs!HeadEnd, Dialogs!SelectInSeq
<1>2. I # {} /\ I \in SUBSET Nat
  BY <1>1
<1>3. Dialogs!Min(I) \in I /\ \A y \in I : Dialogs!Min(I) <= y
  <2> HIDE DEF I
  <2> QED BY <1>2, LeastOf
<1> QED
  BY <1>1, <1>2, <1>3

\* The first blank line of what was read is that of the answer, whatever the
\* target said behind it.
LEMMA HeadOfReply ==
  ASSUME NEW b \in Units, NEW rest \in Units, NEW s \in Units,
         NEW r \in Dialogs!Replies("http")[1], b \o rest = r \o s, Dialogs!HeadEnd(b) # 0
  PROVE Dialogs!HeadEnd(b) = Len(r) /\ r \in Units /\ Len(r) <= Len(b)
<1> DEFINE k == Dialogs!HeadEnd(b)
<1>1. /\ k \in 1 .. Len(b) /\ b[k] = "end"
      /\ \A j \in 1 .. Len(b) : b[j] = "end" => k <= j
  BY HeadEndIs
<1>2. r \in Units /\ Len(r) \in Nat /\ Len(b) \in Nat
  BY RepliesAreUnits DEF Dialogs!Kinds, Units
<1>3. Len(r) \in 2 .. 6 /\ r[Len(r)] = "end" /\ \A j \in 1 .. Len(r) - 1 : r[j] # "end"
  <2>1. CASE r = <<"200", "end">>
    BY <2>1
  <2>2. CASE r = <<"200", "field", "field", "field", "field", "end">>
    BY <2>2
  <2> QED BY <2>1, <2>2, RepliesListed
<1>4. \A j \in 1 .. Len(b) : b[j] = (r \o s)[j]
  BY UnitsJoin
<1>5. \A j \in 1 .. Len(r) : (r \o s)[j] = r[j]
  BY <1>2, UnitsJoin
<1> HIDE DEF k
<1>6. k >= Len(r)
  BY <1>1, <1>2, <1>3, <1>4, <1>5
<1> DEFINE m == Len(r)
<1>7. m \in Nat /\ m >= 1 /\ m <= k /\ k \in Nat /\ k <= Len(b) /\ r[m] = "end"
  <2>1. r[m] = "end" /\ m \in 2 .. 6 /\ m <= k
    BY <1>3, <1>6
  <2> HIDE DEF m
  <2> QED BY <1>1, <1>2, <2>1
<1>8. m \in 1 .. Len(b) /\ m \in 1 .. Len(r)
  BY <1>2, <1>7
<1>9. b[m] = "end"
  BY <1>4, <1>5, <1>7, <1>8
<1>10. k = m
  <2> HIDE DEF m
  <2> QED BY <1>1, <1>7, <1>8, <1>9
<1> QED
  BY <1>2, <1>7, <1>10 DEF k

LEMMA HeadRead ==
  ASSUME Dialogs!DialogsAssumption, DialogInv, Dialogs!HttpHead
  PROVE DialogInv'
<1>1. /\ pc = "reply" /\ conf.protocol = "http"
      /\ UNCHANGED <<conf, ask, server, said, delivered>>
  BY DEF Dialogs!HttpHead
<1>2. Replying /\ prefix \in Units /\ inbox \in Units /\ Spoken \in Units /\ Len(prefix) \in Nat /\ Len(inbox) \in Nat
  BY <1>1, SpokenIsUnits DEF DialogInv, DialogStands, DialogTypes, Units
<1>3. CASE Dialogs!HeadEnd(prefix) # 0
  <2> DEFINE k == Dialogs!HeadEnd(prefix)
  <2>1. /\ pc' = IF prefix[1] # "200" THEN "err" ELSE IF conf.mode = "probe" THEN "probe" ELSE "tunnel"
        /\ prefix' = SubSeq(prefix, k + 1, Len(prefix)) /\ inbox' = inbox
    BY <1>1, <1>3 DEF Dialogs!HttpHead, Dialogs!Leftover
  <2>2. k \in 1 .. Len(prefix)
    BY <1>2, <1>3, HeadEndIs
  <2> HIDE DEF k
  <2>3. prefix' \in Units /\ inbox' \in Units
    <3>1. k \in Nat /\ k <= Len(prefix)
      BY <1>2, <2>2
    <3> QED BY <1>2, <2>1, <3>1, UnitsSplit
  <2>4. CASE pc' \in Astray
    BY <1>1, <2>3, <2>4, DialogStrays
  <2>5. CASE pc' \notin Astray
    <3>1. prefix[1] = "200" /\ pc' = "tunnel"
      BY <2>1, <2>5 DEF Astray
    <3>2. prefix # << >>
      BY <1>2, <2>2
    <3>3. prefix \o inbox \notin Dialogs!Replies("http")[2]
      <4>1. (prefix \o inbox)[1] = "200"
        BY <1>2, <2>2, <3>1, UnitsJoin
      <4>2. <<"407", "end">>[1] = "407"
        OBVIOUS
      <4> QED BY <4>1, <4>2, RepliesListed
    <3>4. ask = Dialogs!Nothing /\ server.accepted /\ server.owes = << >>
      BY <1>1, <1>2, <3>2, <3>3 DEF Replying, Untouched
    <3>5. PICK r \in Dialogs!Replies("http")[1] : prefix \o inbox = r \o Spoken
      BY <1>1, <1>2, <3>2, <3>3 DEF Replying, Untouched
    <3>6. k = Len(r) /\ r \in Units /\ Len(r) <= Len(prefix) /\ Len(r) \in Nat
      <4>1. Dialogs!HeadEnd(prefix) = Len(r) /\ r \in Units /\ Len(r) <= Len(prefix)
        BY <1>2, <1>3, <3>5, HeadOfReply
      <4> QED BY <4>1 DEF k, Units
    <3>7. prefix' \o inbox' = SubSeq(prefix \o inbox, Len(r) + 1, Len(prefix \o inbox))
      BY <1>2, <2>1, <3>6, UnitsFront
    <3>8. prefix' \o inbox' = Spoken
      BY <1>2, <3>5, <3>6, <3>7, UnitsBehind
    <3> QED
      BY <1>1, <2>3, <3>1, <3>4, <3>8, DialogTunnels
  <2> QED
    BY <2>4, <2>5
<1>4. CASE Dialogs!HeadEnd(prefix) = 0 /\ Len(prefix) >= MaxHead
  <2>1. pc' = "err" /\ UNCHANGED <<prefix, inbox>>
    BY <1>4 DEF Dialogs!HttpHead
  <2> QED
    BY <1>1, <1>2, <2>1, DialogStrays DEF Astray
<1>5. CASE Dialogs!HeadEnd(prefix) = 0 /\ ~(Len(prefix) >= MaxHead)
  <2>1. PICK n \in 1 .. Dialogs!Min({2, Len(inbox)}) :
          /\ prefix' = prefix \o SubSeq(inbox, 1, n)
          /\ inbox' = SubSeq(inbox, n + 1, Len(inbox))
          /\ UNCHANGED pc
    BY <1>5 DEF Dialogs!HttpHead
  <2>2. Dialogs!Min({2, Len(inbox)}) \in {2, Len(inbox)} /\ Dialogs!Min({2, Len(inbox)}) <= Len(inbox)
    <3> DEFINE S == {2, Len(inbox)}
    <3>1. S \in SUBSET Nat /\ S # {} /\ Len(inbox) \in S
      BY <1>2
    <3>2. Dialogs!Min(S) \in S /\ Dialogs!Min(S) <= Len(inbox)
      <4> HIDE DEF S
      <4> QED BY <3>1, LeastOf
    <3> QED BY <3>2
  <2>3. n \in Nat /\ n >= 1 /\ n <= Len(inbox)
    BY <1>2, <2>1, <2>2
  <2> DEFINE u == SubSeq(inbox, 1, n)
             v == SubSeq(inbox, n + 1, Len(inbox))
  <2>4. u \in Units /\ v \in Units /\ u \o v = inbox
    BY <1>2, <2>3, UnitsSplit
  <2>5. prefix' = prefix \o u /\ inbox' = v
    BY <2>1
  <2> HIDE DEF u, v
  <2>6. prefix' \in Units /\ inbox' \in Units /\ prefix' \o inbox' = prefix \o inbox
    <3>1. prefix \o u \in Units
      BY <1>2, <2>4, UnitsJoin
    <3>2. (prefix \o u) \o v = prefix \o (u \o v)
      BY <1>2, <2>4, UnitsAssociate
    <3> QED BY <2>4, <2>5, <3>1, <3>2
  <2>7. DialogTypes' /\ RequestIsRight'
    BY <1>1, <2>6 DEF DialogInv, DialogTypes, RequestIsRight, OnWire
  <2>8. inbox # << >>
    BY <2>3
  <2>9. Replying'
    BY <1>1, <1>2, <2>6, <2>8 DEF Replying, Untouched, Spoken
  <2>10. DialogStands'
    BY <1>1, <2>1, <2>9 DEF DialogInv, DialogStands, Quiet, Asking
  <2> QED
    BY <2>7, <2>10 DEF DialogInv
<1> QED
  BY <1>3, <1>4, <1>5

-----------------------------------------------------------------------------
(* The tunnel                                                              *)

LEMMA TunnelOpens ==
  ASSUME Dialogs!DialogsAssumption, DialogInv, Dialogs!Open
  PROVE DialogInv'
<1>1. pc = "tunnel" /\ conf.mode \in {"relay", "probe", "udp"}
  BY DEF Dialogs!Open, DialogInv, DialogTypes
<1>2. CASE conf.mode = "relay"
  <2>1. Dialogs!Goto("relay")
    BY <1>2 DEF Dialogs!Open
  <2>2. DialogTypes' /\ RequestIsRight' /\ (Tunnelling <=> Tunnelling')
    BY <2>1 DEF Dialogs!Goto, DialogInv, DialogTypes, RequestIsRight, OnWire, Tunnelling, Spoken
  <2> QED
    BY <1>1, <2>1, <2>2 DEF Dialogs!Goto, DialogInv, DialogStands, Quiet, Asking
<1>3. CASE conf.mode = "probe"
  <2>1. Dialogs!Goto("probe")
    BY <1>3 DEF Dialogs!Open
  <2> QED
    BY <1>1, <2>1, GotoStrays DEF Astray
<1>4. CASE conf.mode = "udp"
  <2>1. Dialogs!Write(<<"datagram">>, "answer")
    BY <1>4 DEF Dialogs!Open
  <2>2. ask'[1] # "request" /\ pc' \in Astray /\ UNCHANGED <<conf, server, said, delivered, prefix, inbox>>
    BY <2>1 DEF Dialogs!Write, Astray
  <2> QED
    BY <1>1, <2>2, DialogStrays DEF DialogInv, DialogTypes
<1> QED
  BY <1>1, <1>2, <1>3, <1>4

LEMMA OneAnswerTaken ==
  ASSUME DialogInv, Dialogs!Probe \/ Dialogs!Answer \/ Dialogs!ReadFails
  PROVE DialogInv'
<1>1. pc # "relay"
  BY DEF Dialogs!Probe, Dialogs!Answer, Dialogs!ReadFails, Dialogs!Waiting
<1>2. CASE Dialogs!Goto("err")
  BY <1>1, <1>2, GotoStrays DEF Astray
<1>3. CASE ~Dialogs!Goto("err")
  <2>1. Dialogs!Take(1) /\ pc' = "ok"
    BY <1>3 DEF Dialogs!Probe, Dialogs!Answer, Dialogs!ReadFails
  <2>2. inbox' \in Units
    BY <2>1, TakenIsUnits
  <2> QED
    BY <1>1, <2>1, <2>2, DialogStrays DEF Dialogs!Take, Astray, DialogInv, DialogTypes
<1> QED
  BY <1>2, <1>3

LEMMA TunnelReads ==
  ASSUME Dialogs!DialogsAssumption, DialogInv, Dialogs!PrefixedRead \/ Dialogs!RelayRead
  PROVE DialogInv'
<1>1. pc = "relay" /\ UNCHANGED <<conf, pc, ask, server, said>>
  BY DEF Dialogs!PrefixedRead, Dialogs!RelayRead
<1>2. Tunnelling /\ delivered \in Units /\ prefix \in Units /\ inbox \in Units
  BY <1>1 DEF DialogInv, DialogStands, DialogTypes
<1>3. /\ delivered' \in Units /\ prefix' \in Units /\ inbox' \in Units
      /\ delivered' \o (prefix' \o inbox') = delivered \o (prefix \o inbox)
  <2>1. CASE Dialogs!PrefixedRead
    <3>1. delivered' = delivered \o prefix /\ prefix' = << >> /\ inbox' = inbox
      BY <2>1 DEF Dialogs!PrefixedRead
    <3>2. delivered \o prefix \in Units /\ << >> \in Units /\ << >> \o inbox = inbox
      BY <1>2, UnitsJoin, UnitsEmpty
    <3>3. (delivered \o prefix) \o inbox = delivered \o (prefix \o inbox)
      BY <1>2, UnitsAssociate
    <3> QED
      BY <1>2, <3>1, <3>2, <3>3
  <2>2. CASE Dialogs!RelayRead
    <3>1. delivered' = delivered \o inbox /\ prefix = << >> /\ prefix' = << >> /\ inbox' = << >>
      BY <2>2 DEF Dialogs!RelayRead
    <3>2. delivered \o inbox \in Units /\ << >> \in Units /\ << >> \o inbox = inbox
      BY <1>2, UnitsJoin, UnitsEmpty
    <3>3. << >> \o << >> = << >> /\ (delivered \o inbox) \o << >> = delivered \o inbox
      BY <3>2, UnitsEmpty
    <3> QED
      BY <3>1, <3>2, <3>3
  <2> QED
    BY <2>1, <2>2
<1>4. DialogTypes' /\ RequestIsRight'
  BY <1>1, <1>3 DEF DialogInv, DialogTypes, RequestIsRight, OnWire
<1>5. Tunnelling'
  BY <1>1, <1>2, <1>3 DEF Tunnelling, Spoken
<1> QED
  BY <1>1, <1>4, <1>5 DEF DialogInv, DialogStands, Quiet, Asking

LEMMA ClientKeepsDialog ==
  ASSUME Dialogs!DialogsAssumption, DialogInv, Dialogs!Client
  PROVE DialogInv'
  BY DialogOpens, DialogAsks, Socks5Replied, Socks4Replied, VlessReplied, SnellReplied, HeadRead,
     TunnelOpens, OneAnswerTaken, TunnelReads DEF Dialogs!Client

-----------------------------------------------------------------------------
(* Steps of the server and of the target                                   *)

LEMMA WireIsNamed ==
  ASSUME NEW p \in Dialogs!Kinds \ {"shadowtls"}, NEW t \in Dialogs!Targets
  PROVE /\ Dialogs!Wire(p, t) \in WireNames
        /\ p \notin {"socks5", "vmess", "snell"} /\ Dialogs!Wire(p, t) # "error" => Dialogs!Wire(p, t) = t
  BY DEF Dialogs!Wire, Dialogs!Kinds, Dialogs!Targets, WireNames, Dialogs!TrojanAddress,
     Dialogs!VlessAddress, Dialogs!ShadowsocksAddress, Dialogs!SsrAddress, Dialogs!Socks4Address,
     Dialogs!Socks5Address, Dialogs!VmessAddress, Dialogs!SnellAddress, Dialogs!HttpAuthority

\* An answer to a question before the request.
LEMMA ServerAnswers ==
  ASSUME DialogInv, NEW w \in {"wrapped", "noauth", "userpass", "refused", "yes", "no"},
         ask[1] \in {"wrap", "hello", "auth"}, Dialogs!ServerSends(<<w>>, server)
  PROVE DialogInv'
<1>1. /\ inbox' = inbox \o <<w>> /\ ask' = Dialogs!Nothing /\ server' = server
      /\ UNCHANGED <<conf, pc, said, prefix, delivered>>
  BY DEF Dialogs!ServerSends
<1>2. w \in DialogWords /\ inbox \in Units
  BY DEF DialogWords, ReplyWords, DialogInv, DialogTypes
<1>3. <<w>> \in Units /\ Len(<<w>>) = 1
  BY <1>2, UnitsOfFew
<1>4. inbox' \in Units /\ (inbox = << >> => Len(inbox') = 1)
  BY <1>1, <1>2, <1>3, UnitsJoin
<1>5. DialogTypes' /\ RequestIsRight'
  BY <1>1, <1>4 DEF DialogInv, DialogTypes, RequestIsRight, OnWire, Dialogs!Nothing
<1>6. ask # Dialogs!Nothing /\ ask[1] # "request"
  BY DEF Dialogs!Nothing
<1>7. pc \notin Quiet /\ pc \notin {"reply", "tunnel", "relay"}
  BY <1>6 DEF DialogInv, DialogStands, Replying, Tunnelling
<1>8. pc \in Asking => Untouched /\ inbox = << >>
  BY <1>6 DEF DialogInv, DialogStands
<1>9. DialogStands'
  BY <1>1, <1>4, <1>7, <1>8 DEF DialogInv, DialogStands, Untouched, Dialogs!Nothing
<1> QED
  BY <1>5, <1>9 DEF DialogInv

\* The request is taken, the reply sent now or kept until the target speaks.
LEMMA ServerAccepts ==
  ASSUME Dialogs!DialogsAssumption, DialogInv, ask[1] = "request",
         NEW r \in Dialogs!Replies(conf.protocol)[1], NEW held \in BOOLEAN,
         held => conf.protocol = "vless",
         Dialogs!ServerSends(IF held THEN << >> ELSE r,
                             [accepted |-> TRUE, target |-> ask[2], owes |-> IF held THEN r ELSE << >>])
  PROVE DialogInv'
<1> DEFINE reply1 == IF held THEN << >> ELSE r
           kept == IF held THEN r ELSE << >>
           to == ask[2]
<1>1. /\ inbox' = inbox \o reply1 /\ ask' = Dialogs!Nothing
      /\ server' = [accepted |-> TRUE, target |-> to, owes |-> kept]
      /\ UNCHANGED <<conf, pc, said, prefix, delivered>>
  BY DEF Dialogs!ServerSends
<1>2. conf.protocol \in Dialogs!Kinds /\ r \in Units /\ inbox \in Units /\ << >> \in Units
  BY RepliesAreUnits, UnitsEmpty DEF DialogInv, DialogTypes
<1>3. reply1 \in Units /\ kept \in Units /\ to \in WireNames /\ to = OnWire /\ OnWire # "error"
      /\ conf.protocol # "shadowtls" /\ OnWire' = OnWire
  BY <1>1, <1>2, WireIsNamed DEF DialogInv, DialogTypes, RequestIsRight, OnWire
<1>4. /\ held => reply1 = << >> /\ kept = r
      /\ ~held => reply1 = r /\ kept = << >>
  OBVIOUS
<1> HIDE DEF reply1, kept, to
<1>5. server'.accepted /\ server'.target = to /\ server'.owes = kept
  BY <1>1
<1>6. inbox' \in Units
  BY <1>1, <1>2, <1>3, UnitsJoin
<1>7. DialogTypes'
  <2>1. server' \in [accepted : BOOLEAN, target : WireNames, owes : Units]
    BY <1>1, <1>3
  <2> QED
    BY <1>1, <1>5, <1>6, <2>1 DEF DialogInv, DialogTypes
<1>8. RequestIsRight'
  BY <1>1, <1>3, <1>5 DEF RequestIsRight, Dialogs!Nothing
<1>9. ask # Dialogs!Nothing
  BY DEF Dialogs!Nothing
<1>10. pc \notin Quiet /\ pc \notin Asking
  BY <1>9 DEF DialogInv, DialogStands
<1>11. ASSUME pc = "reply" PROVE Replying'
  <2>1. Replying /\ inbox = << >> /\ Untouched
    BY <1>9, <1>11 DEF DialogInv, DialogStands, Replying
  <2>2. said = 0 /\ Spoken' = << >>
    <3>1. said = 0
      BY <2>1 DEF DialogInv, DialogTypes, Untouched
    <3> QED BY <1>1, <3>1 DEF Spoken, Dialogs!DialogsAssumption
  <2>3. prefix' = << >> /\ prefix' \o inbox' = reply1 /\ inbox' = reply1
    BY <1>1, <1>3, <2>1, UnitsEmpty DEF Untouched
  <2>4. CASE held
    BY <1>1, <1>4, <1>5, <2>1, <2>2, <2>3, <2>4 DEF Replying
  <2>5. CASE ~held
    <3>1. prefix' \o inbox' = r \o Spoken'
      BY <1>2, <1>4, <2>2, <2>3, <2>5, UnitsEmpty
    <3> QED
      BY <1>1, <1>4, <1>5, <2>1, <2>3, <2>5, <3>1 DEF Replying
  <2> QED
    BY <2>4, <2>5
<1>12. ASSUME pc \in {"tunnel", "relay"} PROVE Tunnelling'
  <2>1. Tunnelling /\ conf.protocol \notin Dialogs!Answered
    BY <1>12 DEF DialogInv, DialogStands, Tunnelling
  <2>2. ~held
    BY <2>1 DEF Dialogs!Answered
  <2>3. reply1 = << >> /\ kept = << >>
    BY <1>2, <1>4, <2>1, <2>2, RepliesAreUnits
  <2>4. inbox' = inbox
    BY <1>1, <1>2, <2>3, UnitsEmpty
  <2> QED
    BY <1>1, <1>5, <2>1, <2>3, <2>4 DEF Tunnelling, Spoken, Dialogs!Nothing
<1> QED
  BY <1>1, <1>7, <1>8, <1>10, <1>11, <1>12 DEF DialogInv, DialogStands

LEMMA ServerRefuses ==
  ASSUME Dialogs!DialogsAssumption, DialogInv, ask[1] = "request",
         NEW r \in Dialogs!Replies(conf.protocol)[2], Dialogs!ServerSends(r, server)
  PROVE DialogInv'
<1>1. /\ inbox' = inbox \o r /\ ask' = Dialogs!Nothing
      /\ UNCHANGED <<conf, pc, server, said, prefix, delivered>>
  BY DEF Dialogs!ServerSends
<1>2. conf.protocol \in Dialogs!Kinds /\ r \in Units /\ inbox \in Units
  BY RepliesAreUnits DEF DialogInv, DialogTypes
<1>3. inbox' \in Units
  BY <1>1, <1>2, UnitsJoin
<1>4. DialogTypes' /\ RequestIsRight'
  BY <1>1, <1>3 DEF DialogInv, DialogTypes, RequestIsRight, OnWire, Dialogs!Nothing
<1>5. ask # Dialogs!Nothing /\ conf.protocol \in Dialogs!Answered
  BY <1>2, RepliesAreUnits DEF Dialogs!Nothing
<1>6. pc \notin Quiet /\ pc \notin Asking /\ pc \notin {"tunnel", "relay"}
  BY <1>5 DEF DialogInv, DialogStands, Tunnelling
<1>7. ASSUME pc = "reply" PROVE Replying'
  <2>1. Replying /\ inbox = << >> /\ Untouched
    BY <1>5, <1>7 DEF DialogInv, DialogStands, Replying
  <2>2. prefix' \o inbox' = r /\ prefix' = << >>
    BY <1>1, <1>2, <2>1, UnitsEmpty DEF Untouched
  <2> QED
    BY <1>1, <2>1, <2>2 DEF Replying, Untouched
<1> QED
  BY <1>1, <1>4, <1>6, <1>7 DEF DialogInv, DialogStands

LEMMA TargetKeepsDialog ==
  ASSUME Dialogs!DialogsAssumption, DialogInv, Dialogs!TargetSpeaks
  PROVE DialogInv'
<1> DEFINE d == <<Data[said + 1]>>
           n == said + 1
<1>1. /\ server.accepted /\ said < Len(Data) /\ said' = n
      /\ inbox' = (inbox \o server.owes) \o d
      /\ server' = [server EXCEPT !.owes = << >>]
      /\ UNCHANGED <<conf, pc, ask, prefix, delivered>>
  BY DEF Dialogs!TargetSpeaks
<1>2. /\ said \in Nat /\ n \in 0 .. Len(Data) /\ Spoken \in Units /\ << >> \in Units
      /\ inbox \in Units /\ prefix \in Units /\ server.owes \in Units /\ delivered \in Units
  BY <1>1, DataIsUnits, SpokenIsUnits DEF DialogInv, DialogTypes, Units
<1>3. d \in Units /\ Spoken \o d = Spoken'
  BY <1>1, <1>2, DataIsUnits, UnitsGrow DEF Spoken
<1> HIDE DEF d, n
<1>4. inbox \o server.owes \in Units /\ inbox' \in Units
  <2>1. inbox \o server.owes \in Units
    BY <1>2, UnitsJoin
  <2> QED BY <1>1, <1>3, <2>1, UnitsJoin
<1>5. /\ server'.accepted = server.accepted /\ server'.owes = << >> /\ server'.target = server.target
      /\ server' \in [accepted : BOOLEAN, target : WireNames, owes : Units]
  BY <1>1, <1>2 DEF DialogInv, DialogTypes
<1>6. DialogTypes' /\ RequestIsRight'
  BY <1>1, <1>2, <1>4, <1>5 DEF DialogInv, DialogTypes, RequestIsRight, OnWire
<1>7. pc \notin Quiet /\ pc \notin Asking
  BY <1>1 DEF DialogInv, DialogStands, Untouched
<1>8. ASSUME server.owes = << >>, NEW x \in Units, prefix \o inbox = x
      PROVE prefix' \o inbox' = x \o d
  <2>1. inbox' = inbox \o d
    BY <1>1, <1>2, <1>8, UnitsEmpty
  <2>2. (prefix \o inbox) \o d = prefix \o (inbox \o d)
    <3>1. prefix \in Units /\ inbox \in Units /\ d \in Units
      BY <1>2, <1>3
    <3> QED BY <3>1, UnitsAssociate, Zenon
  <2> QED
    BY <1>1, <1>8, <2>1, <2>2
<1>9. ASSUME pc = "reply" PROVE Replying'
  <2>1. Replying /\ ask = Dialogs!Nothing
    BY <1>1, <1>9 DEF DialogInv, DialogStands, Replying, Untouched
  <2>2. CASE server.owes = << >> /\ \E r \in Dialogs!Replies(conf.protocol)[1] : prefix \o inbox = r \o Spoken
    <3>1. PICK r \in Dialogs!Replies(conf.protocol)[1] : prefix \o inbox = r \o Spoken
      BY <2>2
    <3>2. r \in Units
      BY RepliesAreUnits DEF DialogInv, DialogTypes
    <3>3. r \o Spoken \in Units /\ (r \o Spoken) \o d = r \o (Spoken \o d)
      BY <1>2, <1>3, <3>2, UnitsJoin, UnitsAssociate
    <3>4. prefix' \o inbox' = r \o Spoken'
      BY <1>3, <1>8, <2>2, <3>1, <3>3
    <3> QED
      BY <1>1, <1>5, <2>1, <3>4 DEF Replying
  <2>3. CASE ~(server.owes = << >> /\ \E r \in Dialogs!Replies(conf.protocol)[1] : prefix \o inbox = r \o Spoken)
    <3>1. /\ conf.protocol = "vless" /\ said = 0 /\ prefix = << >> /\ inbox = << >>
          /\ server.owes \in Dialogs!Replies(conf.protocol)[1]
      BY <1>1, <2>1, <2>3 DEF Replying, Untouched
    <3>2. Spoken = << >>
      BY <3>1 DEF Spoken, Dialogs!DialogsAssumption
    <3>3. Spoken' = d
      BY <1>3, <3>2, UnitsEmpty
    <3>4. inbox' = server.owes \o d
      BY <1>1, <1>2, <3>1, UnitsEmpty
    <3>5. prefix' \o inbox' = server.owes \o Spoken'
      BY <1>1, <1>4, <3>1, <3>3, <3>4, UnitsEmpty
    <3> QED
      BY <1>1, <1>5, <2>1, <3>1, <3>5 DEF Replying
  <2> QED
    BY <2>2, <2>3
<1>10. ASSUME pc \in {"tunnel", "relay"} PROVE Tunnelling'
  <2>1. Tunnelling
    BY <1>10 DEF DialogInv, DialogStands
  <2>2. prefix \o inbox \in Units
    BY <1>2, UnitsJoin
  <2>3. prefix' \o inbox' = (prefix \o inbox) \o d
    BY <1>8, <2>1, <2>2 DEF Tunnelling
  <2>4. delivered \o ((prefix \o inbox) \o d) = (delivered \o (prefix \o inbox)) \o d
    <3>1. delivered \in Units /\ prefix \o inbox \in Units /\ d \in Units
      BY <1>2, <1>3, <2>2
    <3> QED BY <3>1, UnitsAssociate, Zenon
  <2> QED
    BY <1>1, <1>3, <1>5, <2>1, <2>3, <2>4 DEF Tunnelling
<1> QED
  BY <1>1, <1>6, <1>7, <1>9, <1>10 DEF DialogInv, DialogStands

LEMMA ServerKeepsDialog ==
  ASSUME Dialogs!DialogsAssumption, DialogInv, Dialogs!Serve
  PROVE DialogInv'
<1>1. CASE ask[1] # "request"
  <2>1. \E w \in {"wrapped", "noauth", "userpass", "refused", "yes", "no"} :
          ask[1] \in {"wrap", "hello", "auth"} /\ Dialogs!ServerSends(<<w>>, server)
    BY <1>1 DEF Dialogs!Serve
  <2> QED
    BY <2>1, ServerAnswers
<1>2. CASE ask[1] = "request"
  <2>1. ask # <<"wrap">> /\ ask # <<"hello">> /\ ask # <<"auth">>
    BY <1>2
  <2>2. CASE \E r \in Dialogs!Replies(conf.protocol)[1] :
               Dialogs!ServerSends(r, [accepted |-> TRUE, target |-> ask[2], owes |-> << >>])
    <3>1. PICK r \in Dialogs!Replies(conf.protocol)[1] :
               Dialogs!ServerSends(r, [accepted |-> TRUE, target |-> ask[2], owes |-> << >>])
      BY <2>2
    <3>2. Dialogs!ServerSends(IF FALSE THEN << >> ELSE r,
                              [accepted |-> TRUE, target |-> ask[2], owes |-> IF FALSE THEN r ELSE << >>])
      BY <3>1
    <3> QED
      BY <1>2, <3>2, ServerAccepts
  <2>3. CASE conf.protocol = "vless" /\ \E r \in Dialogs!Replies(conf.protocol)[1] :
               Dialogs!ServerSends(<< >>, [accepted |-> TRUE, target |-> ask[2], owes |-> r])
    <3>1. PICK r \in Dialogs!Replies(conf.protocol)[1] :
               Dialogs!ServerSends(<< >>, [accepted |-> TRUE, target |-> ask[2], owes |-> r])
      BY <2>3
    <3>2. Dialogs!ServerSends(IF TRUE THEN << >> ELSE r,
                              [accepted |-> TRUE, target |-> ask[2], owes |-> IF TRUE THEN r ELSE << >>])
      BY <3>1
    <3> QED
      BY <1>2, <2>3, <3>2, ServerAccepts
  <2>4. CASE \E r \in Dialogs!Replies(conf.protocol)[2] : Dialogs!ServerSends(r, server)
    BY <1>2, <2>4, ServerRefuses
  <2> QED
    BY <2>1, <2>2, <2>3, <2>4 DEF Dialogs!Serve
<1> QED
  BY <1>1, <1>2

(* The relay of an outbound that waits for the server's word starts only on a *)
(* server that took the request, and hands on what the target said from its   *)
(* first byte: no field of a reply leaks into the stream, and no byte that    *)
(* came with the reply is lost, in whatever pieces the two arrive and         *)
(* whatever the server does. Where the encoder checks the name, the server    *)
(* reaches for the target that was asked (perform_handshake, read_head,       *)
(* read_connect_response and their likes in src/engine/outbound/, and the     *)
(* relays behind them).                                                       *)
(* What MCProtocols checks as DialogIsClean, for every target's data.         *)
THEOREM DialogAlwaysClean ==
  ASSUME Dialogs!DialogsAssumption PROVE Dialogs!Spec => []Dialogs!TunnelIsClean
<1>1. Dialogs!Init => DialogInv
  BY DialogStart
<1>2. DialogInv /\ [Dialogs!Next]_(Dialogs!vars) => DialogInv'
  <2> SUFFICES ASSUME DialogInv, [Dialogs!Next]_(Dialogs!vars) PROVE DialogInv'
    OBVIOUS
  <2>1. CASE Dialogs!ServerCloses \/ UNCHANGED Dialogs!vars
    <3>1. UNCHANGED <<conf, pc, ask, inbox, server, said, prefix, delivered>>
      BY <2>1 DEF Dialogs!ServerCloses, Dialogs!vars
    <3> QED
      BY <3>1 DEF DialogInv, DialogTypes, RequestIsRight, OnWire, DialogStands, Untouched, Replying,
         Tunnelling, Spoken
  <2> QED
    BY <2>1, ClientKeepsDialog, ServerKeepsDialog, TargetKeepsDialog DEF Dialogs!Next
<1>3. DialogInv => Dialogs!TunnelIsClean
  <2> SUFFICES ASSUME DialogInv PROVE Dialogs!TunnelIsClean
    OBVIOUS
  <2>1. pc = "relay" /\ conf.protocol \in Dialogs!Answered => server.accepted
    BY DEF DialogInv, DialogStands, Tunnelling
  <2>2. server.accepted /\ conf.protocol \notin {"socks5", "vmess", "snell"} => server.target = conf.target
    BY WireIsNamed DEF DialogInv, DialogTypes, RequestIsRight, OnWire
  <2>3. /\ Dialogs!IsPrefix(delivered, Data)
        /\ pc = "relay" => prefix \o inbox = SubSeq(Data, Len(delivered) + 1, said)
    <3>1. CASE pc = "relay"
      <4>1. /\ delivered \o (prefix \o inbox) = SubSeq(Data, 1, said) /\ Data \in Units
            /\ delivered \in Units /\ prefix \in Units /\ inbox \in Units /\ said \in 0 .. Len(Data)
        BY <3>1, DataIsUnits DEF DialogInv, DialogStands, DialogTypes, Tunnelling, Spoken
      <4>2. prefix \o inbox \in Units
        BY <4>1, UnitsJoin
      <4> QED
        BY <4>1, <4>2, UnitsPrefix
    <3>2. CASE pc # "relay"
      <4>1. delivered = << >> /\ Data \in Units /\ Len(Data) \in Nat
        BY <3>2, DataIsUnits DEF DialogInv, DialogStands
      <4>2. SubSeq(Data, 1, 0) = << >> /\ SubSeq(<< >>, 1, 0) = << >>
        BY <4>1 DEF Units
      <4> QED
        BY <3>2, <4>1, <4>2 DEF Dialogs!IsPrefix
    <3> QED
      BY <3>1, <3>2
  <2> QED
    BY <2>1, <2>2, <2>3 DEF Dialogs!TunnelIsClean
<1> QED
  BY <1>1, <1>2, <1>3, PTL DEF Dialogs!Spec

==============================================================================
