--------------------------- MODULE ConnectionListener ---------------------------
(***************************************************************************)
(* common/listener.rs: the accept loop, its connection budget (Slots) and  *)
(* the stop protocol.                                                      *)
(*                                                                         *)
(* Actors: the owner (start, stop / Drop), the accept thread, one worker   *)
(* thread per admitted connection, and the clients.  The accept thread     *)
(* blocks in accept() or on the slot condvar, both without a timeout; the  *)
(* cancel hook must release it from either.  The token's own internals are *)
(* CancelToken's subject: here cancel() is the swap followed by the hook.  *)
(***************************************************************************)
EXTENDS Integers, Sequences, FiniteSets

CONSTANTS
  Conns,         \* client connections
  Wake,          \* the connection wake_accept makes to the listener itself
  Budgets,       \* the values of max_sessions a caller passes
  BacklogLimit   \* the kernel's accept backlog

ASSUME ListenerAssumption ==
  /\ Wake \notin Conns
  /\ Budgets \subseteq Nat
  /\ BacklogLimit \in Nat \ {0}

VARIABLES
  opc,        \* owner: "new", "started", "failed", "hookConnect", "hookWake", "join", "stopped"
  apc,        \* accept thread: "off", "check", "accept", "got", "acquire", "parked",
              \*   "admit", "spawn", "leave", "exit"
  inHand,     \* the connection the accept thread has accepted
  cancelled,  \* the CancellationToken
  hooked,     \* start() has registered its cancel hook
  running,    \* ConnectionListener.running
  open,       \* the listening socket exists
  backlog,    \* connections the kernel has completed and nobody accepted
  max,        \* Slots.max
  active,     \* Slots.active
  slotsLock,  \* Slots.wake.0 is held by the accept thread between two steps
  wpc         \* per connection: "none", "queued", "serving", "notify", "closed"

vars ==
  <<opc, apc, inHand, cancelled, hooked, running, open, backlog, max, active, slotsLock, wpc>>
owner == <<opc, hooked>>

Serving == {c \in Conns : wpc[c] = "serving"}

TypeOK ==
  /\ opc \in {"new", "started", "failed", "hookConnect", "hookWake", "join", "stopped"}
  /\ apc \in {"off", "check", "accept", "got", "acquire", "parked", "admit", "spawn",
              "leave", "exit"}
  /\ inHand \in Conns \cup {Wake}
  /\ cancelled \in BOOLEAN
  /\ hooked \in BOOLEAN
  /\ running \in BOOLEAN
  /\ open \in BOOLEAN
  /\ backlog \in Seq(Conns \cup {Wake})
  /\ max \in Nat
  /\ active \in Nat
  /\ slotsLock \in BOOLEAN
  /\ wpc \in [Conns -> {"none", "queued", "serving", "notify", "closed"}]

\* Fault: the budget is taken as given, so a budget of zero admits nobody.
Unclamped(n) == n

\* Slots::new clamps the budget to at least one.
SlotsNew(n) == IF n = 0 THEN 1 ELSE n

Init ==
  /\ opc = "new"
  /\ apc = "off"
  /\ inHand = Wake
  /\ cancelled = FALSE
  /\ hooked = FALSE
  /\ running = FALSE
  /\ open = TRUE
  /\ backlog = <<>>
  /\ max \in {SlotsNew(n) : n \in Budgets}
  /\ active = 0
  /\ slotsLock = FALSE
  /\ wpc = [c \in Conns |-> "none"]

-----------------------------------------------------------------------------
(* The owner                                                               *)

Start ==
  /\ opc = "new"
  /\ opc' = "started"
  /\ hooked' = TRUE
  /\ running' = TRUE
  /\ apc' = "check"
  /\ UNCHANGED <<inHand, cancelled, open, backlog, max, active, slotsLock, wpc>>

\* set_nonblocking fails: the listener has already been taken and is closed.
StartModeError ==
  /\ opc = "new"
  /\ opc' = "failed"
  /\ open' = FALSE
  /\ UNCHANGED <<apc, inHand, cancelled, hooked, running, backlog, max, active, slotsLock, wpc>>

\* The accept thread cannot be spawned: the closure, and with it the listener,
\* is dropped; `running` was stored before the spawn.
StartSpawnError ==
  /\ opc = "new"
  /\ opc' = "failed"
  /\ hooked' = TRUE
  /\ running' = TRUE
  /\ open' = FALSE
  /\ UNCHANGED <<apc, inHand, cancelled, backlog, max, active, slotsLock, wpc>>

\* stop() and Drop: cancel() first.
StopCancel ==
  /\ opc \in {"new", "started", "failed"}
  /\ cancelled' = TRUE
  /\ opc' = IF hooked THEN "hookConnect" ELSE "join"
  /\ UNCHANGED <<apc, inHand, hooked, running, open, backlog, max, active, slotsLock, wpc>>

\* Fault: the hook does not make the wake-up connection.
HookConnectsNowhere ==
  /\ opc = "hookConnect"
  /\ opc' = "hookWake"
  /\ UNCHANGED <<apc, inHand, cancelled, hooked, running, open, backlog, max, active, slotsLock, wpc>>

\* wake_accept: one attempt; it fails when the port is closed, and times out
\* when the backlog is full.
HookConnect ==
  /\ opc = "hookConnect"
  /\ opc' = "hookWake"
  /\ backlog' = IF open /\ Len(backlog) < BacklogLimit THEN Append(backlog, Wake) ELSE backlog
  /\ UNCHANGED <<apc, inHand, cancelled, hooked, running, open, max, active, slotsLock, wpc>>

\* Slots::wake_all, under the mutex.
HookWakeAll ==
  /\ opc = "hookWake"
  /\ ~slotsLock
  /\ opc' = "join"
  /\ apc' = IF apc = "parked" THEN "acquire" ELSE apc
  /\ UNCHANGED <<inHand, cancelled, hooked, running, open, backlog, max, active, slotsLock, wpc>>

\* Fault: stop() returns without joining the accept thread.
StopWithoutJoin ==
  /\ opc = "join"
  /\ opc' = "stopped"
  /\ UNCHANGED <<apc, inHand, cancelled, hooked, running, open, backlog, max, active, slotsLock, wpc>>

StopJoin ==
  /\ opc = "join"
  /\ apc \in {"off", "exit"}
  /\ opc' = "stopped"
  /\ UNCHANGED <<apc, inHand, cancelled, hooked, running, open, backlog, max, active, slotsLock, wpc>>

-----------------------------------------------------------------------------
(* The accept thread                                                       *)

LoopCheck ==
  /\ apc = "check"
  /\ apc' = IF cancelled THEN "leave" ELSE "accept"
  /\ UNCHANGED <<owner, inHand, cancelled, running, open, backlog, max, active, slotsLock, wpc>>

AcceptOk ==
  /\ apc = "accept"
  /\ backlog # <<>>
  /\ inHand' = Head(backlog)
  /\ backlog' = Tail(backlog)
  /\ apc' = "got"
  /\ UNCHANGED <<owner, cancelled, running, open, max, active, slotsLock, wpc>>

\* ConnectionAborted, ConnectionReset, Interrupted, and the paced WouldBlock.
AcceptTransientError ==
  /\ apc = "accept"
  /\ apc' = "check"
  /\ UNCHANGED <<owner, inHand, cancelled, running, open, backlog, max, active, slotsLock, wpc>>

\* Any other error ends the loop, cancelled or not.
AcceptFatalError ==
  /\ apc = "accept"
  /\ apc' = "leave"
  /\ UNCHANGED <<owner, inHand, cancelled, running, open, backlog, max, active, slotsLock, wpc>>

Drop(c) == IF c \in Conns THEN [wpc EXCEPT ![c] = "closed"] ELSE wpc

\* A connection accepted after the cancellation is dropped.
AfterAccept ==
  /\ apc = "got"
  /\ apc' = IF cancelled THEN "leave" ELSE "acquire"
  /\ wpc' = IF cancelled THEN Drop(inHand) ELSE wpc
  /\ UNCHANGED <<owner, inHand, cancelled, running, open, backlog, max, active, slotsLock>>

\* Slots::acquire, the loop condition under the mutex: leave the loop with the
\* mutex, or park and give it back.
AcquireTest ==
  /\ apc = "acquire"
  /\ apc' = IF cancelled \/ active < max THEN "admit" ELSE "parked"
  /\ slotsLock' = (cancelled \/ active < max)
  /\ UNCHANGED <<owner, inHand, cancelled, running, open, backlog, max, active, wpc>>

\* The flag is read again after the loop; the permit is taken only if it is
\* still clear.
AcquireAdmit ==
  /\ apc = "admit"
  /\ slotsLock' = FALSE
  /\ \/ /\ cancelled
        /\ apc' = "leave"
        /\ wpc' = Drop(inHand)
        /\ UNCHANGED active
     \/ /\ ~cancelled
        /\ apc' = "spawn"
        /\ active' = active + 1
        /\ UNCHANGED wpc
  /\ UNCHANGED <<owner, inHand, cancelled, running, open, backlog, max>>

\* The worker owns the permit from here on.  The wake-up connection reaches
\* this point only if the flag was clear when it was accepted, which the hook
\* rules out (theorem WakeNeverServed); nothing in the loop distinguishes it.
SpawnWorker ==
  /\ apc = "spawn"
  /\ apc' = "check"
  /\ inHand \in Conns
  /\ wpc' = [wpc EXCEPT ![inHand] = "serving"]
  /\ UNCHANGED <<owner, inHand, cancelled, running, open, backlog, max, active, slotsLock>>

\* Fault: a failed spawn leaks the permit.
SpawnErrorLeaks ==
  /\ apc = "spawn"
  /\ apc' = "check"
  /\ wpc' = Drop(inHand)
  /\ UNCHANGED <<owner, inHand, cancelled, running, open, backlog, max, active, slotsLock>>

\* A failed spawn drops the closure, which drops the permit and the socket.
SpawnError ==
  /\ apc = "spawn"
  /\ apc' = "check"
  /\ active' = active - 1
  /\ wpc' = Drop(inHand)
  /\ UNCHANGED <<owner, inHand, cancelled, running, open, backlog, slotsLock, max>>

LeaveLoop ==
  /\ apc = "leave"
  /\ apc' = "exit"
  /\ running' = FALSE
  /\ open' = FALSE
  /\ UNCHANGED <<owner, inHand, cancelled, backlog, max, active, slotsLock, wpc>>

AcceptThread ==
  \/ LoopCheck \/ AcceptOk \/ AfterAccept \/ AcquireTest \/ AcquireAdmit
  \/ SpawnWorker \/ LeaveLoop

AcceptFailures == AcceptTransientError \/ AcceptFatalError \/ SpawnError

-----------------------------------------------------------------------------
(* Workers and clients                                                     *)

\* The handler returns or panics: Drop for Slot gives the permit back ...
WorkerEnd(c) ==
  /\ wpc[c] = "serving"
  /\ wpc' = [wpc EXCEPT ![c] = "notify"]
  /\ active' = active - 1
  /\ UNCHANGED <<owner, apc, inHand, cancelled, running, open, backlog, slotsLock, max>>

\* Fault: the permit is given back once more with the notification.
ReleaseTwice(c) ==
  /\ wpc[c] = "notify"
  /\ ~slotsLock
  /\ wpc' = [wpc EXCEPT ![c] = "closed"]
  /\ active' = active - 1
  /\ apc' = IF apc = "parked" THEN "acquire" ELSE apc
  /\ UNCHANGED <<owner, inHand, cancelled, running, open, backlog, slotsLock, max>>

\* ... and then takes the mutex and notifies.
WorkerNotify(c) ==
  /\ wpc[c] = "notify"
  /\ ~slotsLock
  /\ wpc' = [wpc EXCEPT ![c] = "closed"]
  /\ apc' = IF apc = "parked" THEN "acquire" ELSE apc
  /\ UNCHANGED <<owner, inHand, cancelled, running, open, backlog, max, active, slotsLock>>

ClientConnect(c) ==
  /\ wpc[c] = "none"
  /\ open
  /\ Len(backlog) < BacklogLimit
  /\ backlog' = Append(backlog, c)
  /\ wpc' = [wpc EXCEPT ![c] = "queued"]
  /\ UNCHANGED <<owner, apc, inHand, cancelled, running, open, max, active, slotsLock>>

Next ==
  \/ Start \/ StartModeError \/ StartSpawnError
  \/ StopCancel \/ HookConnect \/ HookWakeAll \/ StopJoin
  \/ AcceptThread \/ AcceptFailures
  \/ \E c \in Conns : WorkerEnd(c) \/ WorkerNotify(c) \/ ClientConnect(c)

Spec == Init /\ [][Next]_vars

\* The owner's stop and the accept thread are scheduled.  Handlers are not
\* obliged to return: a tunnel may live for ever.
Fairness ==
  /\ WF_vars(HookConnect) /\ WF_vars(HookWakeAll) /\ WF_vars(StopJoin)
  /\ WF_vars(AcceptThread)
  /\ \A c \in Conns : WF_vars(WorkerNotify(c))

FairSpec == Spec /\ Fairness

-----------------------------------------------------------------------------
(* Properties                                                              *)

Holds == IF apc = "spawn" THEN 1 ELSE 0

\* No permit leaks and none is counted twice: the counter is the number of
\* handlers running plus the permit in the accept thread's hand, and never
\* more than max_sessions (listener.rs:145-147).
SlotsAccounted == active = Cardinality(Serving) + Holds /\ active <= max

\* Once the stop has returned the accept thread is gone and no connection is
\* taken from the backlog or handed to a worker any more.
NothingAfterStop ==
  [][opc = "stopped" => \A c \in Conns : wpc'[c] = "serving" => wpc[c] = "serving"]_vars

\* stop() returns even at the concurrency limit, whatever the handlers do:
\* the hook releases the thread from accept() and from the slot gate.
StopReturns == cancelled ~> opc = "stopped"

\* Every handler returns, and accept() does not fail for ever.
HandlersReturn == SF_vars(AcceptOk) /\ \A c \in Conns : WF_vars(WorkerEnd(c))

\* A client in the backlog is served once handlers make room, unless the
\* listener is stopped, its accept loop dies or the thread cannot be spawned.
QueuedIsServed ==
  HandlersReturn =>
    \A c \in Conns :
      wpc[c] = "queued" /\ apc # "off"
        ~> wpc[c] \in {"serving", "notify", "closed"} \/ cancelled \/ apc = "exit"

\* The listener does what it is there for and lets itself be stopped: a
\* client in its backlog is served, and stop() returns.
ListenerLives == StopReturns /\ QueuedIsServed
=============================================================================
