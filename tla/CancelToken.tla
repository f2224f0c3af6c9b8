------------------------------ MODULE CancelToken ------------------------------
(***************************************************************************)
(* common/cancel.rs: CancellationToken, the one-shot cancellation signal   *)
(* every worker of the engine shares.                                      *)
(*                                                                         *)
(* The token is an atomic flag, a mutex/condvar pair (`wake`, `cond`) for  *)
(* waiters and a mutex-guarded list of hooks.  Each thread below makes one *)
(* call: a canceller calls cancel(), a registrar calls on_cancel() with a  *)
(* hook that is identified with the registrar, a waiter calls              *)
(* wait_cancelled() and a timed waiter calls wait(timeout).  Every atomic  *)
(* access, lock acquisition and condvar operation is a step of its own.    *)
(***************************************************************************)
EXTENDS Naturals, Sequences, FiniteSets

CONSTANTS
  Cancellers,    \* threads that call cancel()
  Registrars,    \* threads that call on_cancel(hook); also names the hook
  Waiters,       \* threads that call wait_cancelled()
  TimedWaiters,  \* threads that call wait(timeout)
  NoThread       \* owner of a free mutex

Threads == Cancellers \cup Registrars \cup Waiters \cup TimedWaiters
AllWaiters == Waiters \cup TimedWaiters

ASSUME DistinctThreads ==
  /\ Cancellers \cap Registrars = {}
  /\ Cancellers \cap AllWaiters = {}
  /\ Registrars \cap AllWaiters = {}
  /\ Waiters \cap TimedWaiters = {}
  /\ NoThread \notin Threads

VARIABLES
  cancelled,   \* Inner.cancelled: AtomicBool
  hooks,       \* Inner.hooks: Vec<Hook>, in registration order
  hooksLock,   \* owner of the mutex around hooks
  wakeLock,    \* owner of the mutex Inner.wake
  taken,       \* the Vec the winning cancel() took out of hooks
  pc,          \* control state of each thread
  ran,         \* history: how often each hook has run
  pushed,      \* history: hooks in the order they were registered
  runLog       \* history: hooks run by cancel(), in order

vars == <<cancelled, hooks, hooksLock, wakeLock, taken, pc, ran, pushed, runLog>>

CancellerStates == {"idle", "notify", "take", "run", "done"}
RegistrarStates == {"idle", "lock", "recheck", "push", "runNow", "done"}
WaiterStates    == {"idle", "lock", "recheck", "park", "parked", "woken", "done"}

TypeOK ==
  /\ cancelled \in BOOLEAN
  /\ hooks \in Seq(Registrars)
  /\ taken \in Seq(Registrars)
  /\ hooksLock \in Registrars \cup {NoThread}
  /\ wakeLock \in Waiters \cup {NoThread}
  /\ pc \in [Threads -> CancellerStates \cup RegistrarStates \cup WaiterStates]
  /\ \A c \in Cancellers : pc[c] \in CancellerStates
  /\ \A r \in Registrars : pc[r] \in RegistrarStates
  /\ \A w \in AllWaiters : pc[w] \in WaiterStates
  /\ ran \in [Registrars -> Nat]
  /\ pushed \in Seq(Registrars)
  /\ runLog \in Seq(Registrars)

Init ==
  /\ cancelled = FALSE
  /\ hooks = <<>>
  /\ taken = <<>>
  /\ hooksLock = NoThread
  /\ wakeLock = NoThread
  /\ pc = [t \in Threads |-> "idle"]
  /\ ran = [r \in Registrars |-> 0]
  /\ pushed = <<>>
  /\ runLog = <<>>

Goto(t, from, to) ==
  /\ pc[t] = from
  /\ pc' = [pc EXCEPT ![t] = to]

-----------------------------------------------------------------------------
(* cancel()                                                                *)

\* The swap elects one winner; every later caller returns at once.
CancelSwap(c) ==
  /\ Goto(c, "idle", IF cancelled THEN "done" ELSE "notify")
  /\ cancelled' = TRUE
  /\ UNCHANGED <<hooks, hooksLock, wakeLock, taken, ran, pushed, runLog>>

\* Fault: cancel() forgets notify_all.
NotifyNobody(c) ==
  /\ Goto(c, "notify", "take")
  /\ wakeLock = NoThread
  /\ UNCHANGED <<cancelled, hooks, hooksLock, wakeLock, taken, ran, pushed, runLog>>

\* Fault: the guard of the wake mutex lives on until the hooks have run.
NotifyKeepsGuard(c) ==
  /\ pc[c] = "notify"
  /\ wakeLock = NoThread
  /\ wakeLock' = c
  /\ pc' = [t \in Threads |->
              IF t = c THEN "take"
              ELSE IF t \in AllWaiters /\ pc[t] = "parked" THEN "woken" ELSE pc[t]]
  /\ UNCHANGED <<cancelled, hooks, hooksLock, taken, ran, pushed, runLog>>

\* Under the wake mutex: notify_all releases every parked waiter.
CancelNotify(c) ==
  /\ pc[c] = "notify"
  /\ wakeLock = NoThread
  /\ pc' = [t \in Threads |->
              IF t = c THEN "take"
              ELSE IF t \in AllWaiters /\ pc[t] = "parked" THEN "woken" ELSE pc[t]]
  /\ UNCHANGED <<cancelled, hooks, hooksLock, wakeLock, taken, ran, pushed, runLog>>

\* Fault: the hooks are copied out and left registered.
TakeByCopy(c) ==
  /\ Goto(c, "take", "run")
  /\ hooksLock = NoThread
  /\ taken' = hooks
  /\ UNCHANGED <<cancelled, hooks, hooksLock, wakeLock, ran, pushed, runLog>>

\* Under the hooks mutex: the list is taken, so no hook can run twice.
CancelTake(c) ==
  /\ Goto(c, "take", "run")
  /\ hooksLock = NoThread
  /\ taken' = hooks
  /\ hooks' = <<>>
  /\ UNCHANGED <<cancelled, hooksLock, wakeLock, ran, pushed, runLog>>

\* The taken hooks run one by one, outside both mutexes.
CancelRunHook(c) ==
  /\ pc[c] = "run"
  /\ taken # <<>>
  /\ ran' = [ran EXCEPT ![Head(taken)] = @ + 1]
  /\ runLog' = Append(runLog, Head(taken))
  /\ taken' = Tail(taken)
  /\ UNCHANGED <<cancelled, hooks, hooksLock, wakeLock, pc, pushed>>

CancelReturn(c) ==
  /\ Goto(c, "run", "done")
  /\ taken = <<>>
  /\ UNCHANGED <<cancelled, hooks, hooksLock, wakeLock, taken, ran, pushed, runLog>>

Cancel(c) ==
  \/ CancelSwap(c) \/ CancelNotify(c) \/ CancelTake(c)
  \/ CancelRunHook(c) \/ CancelReturn(c)

-----------------------------------------------------------------------------
(* on_cancel(hook)                                                         *)

\* First look at the flag, without the lock.
OnCancelCheck(r) ==
  /\ Goto(r, "idle", IF cancelled THEN "runNow" ELSE "lock")
  /\ UNCHANGED <<cancelled, hooks, hooksLock, wakeLock, taken, ran, pushed, runLog>>

OnCancelLock(r) ==
  /\ Goto(r, "lock", "recheck")
  /\ hooksLock = NoThread
  /\ hooksLock' = r
  /\ UNCHANGED <<cancelled, hooks, wakeLock, taken, ran, pushed, runLog>>

\* Fault: on_cancel() does not look at the flag again under the lock.
RecheckDropped(r) ==
  /\ Goto(r, "recheck", "push")
  /\ UNCHANGED <<cancelled, hooks, hooksLock, wakeLock, taken, ran, pushed, runLog>>

\* Fault: the recheck under the lock runs the hook and registers it as well.
RecheckRunsToo(r) ==
  /\ Goto(r, "recheck", "push")
  /\ ran' = [ran EXCEPT ![r] = IF cancelled THEN @ + 1 ELSE @]
  /\ UNCHANGED <<cancelled, hooks, hooksLock, wakeLock, taken, pushed, runLog>>

\* Second look, under the lock: a cancelled token gives the lock back and the
\* caller runs the hook itself.
OnCancelRecheck(r) ==
  /\ Goto(r, "recheck", IF cancelled THEN "runNow" ELSE "push")
  /\ hooksLock' = IF cancelled THEN NoThread ELSE hooksLock
  /\ UNCHANGED <<cancelled, hooks, wakeLock, taken, ran, pushed, runLog>>

OnCancelPush(r) ==
  /\ Goto(r, "push", "done")
  /\ hooks' = Append(hooks, r)
  /\ pushed' = Append(pushed, r)
  /\ hooksLock' = NoThread
  /\ UNCHANGED <<cancelled, wakeLock, taken, ran, runLog>>

OnCancelRunNow(r) ==
  /\ Goto(r, "runNow", "done")
  /\ ran' = [ran EXCEPT ![r] = @ + 1]
  /\ UNCHANGED <<cancelled, hooks, hooksLock, wakeLock, taken, pushed, runLog>>

OnCancel(r) ==
  \/ OnCancelCheck(r) \/ OnCancelLock(r) \/ OnCancelRecheck(r)
  \/ OnCancelPush(r) \/ OnCancelRunNow(r)

-----------------------------------------------------------------------------
(* wait_cancelled()                                                        *)

WaitCheck(w) ==
  /\ Goto(w, "idle", IF cancelled THEN "done" ELSE "lock")
  /\ UNCHANGED <<cancelled, hooks, hooksLock, wakeLock, taken, ran, pushed, runLog>>

WaitLock(w) ==
  /\ Goto(w, "lock", "recheck")
  /\ wakeLock = NoThread
  /\ wakeLock' = w
  /\ UNCHANGED <<cancelled, hooks, hooksLock, taken, ran, pushed, runLog>>

\* Fault: wait_cancelled() parks without reading the flag under the mutex.
ParkWithoutRecheck(w) ==
  /\ Goto(w, "recheck", "park")
  /\ UNCHANGED <<cancelled, hooks, hooksLock, wakeLock, taken, ran, pushed, runLog>>

\* Second look, under the wake mutex.
WaitRecheck(w) ==
  /\ Goto(w, "recheck", IF cancelled THEN "done" ELSE "park")
  /\ wakeLock' = IF cancelled THEN NoThread ELSE wakeLock
  /\ UNCHANGED <<cancelled, hooks, hooksLock, taken, ran, pushed, runLog>>

\* cond.wait: parking gives the mutex back in the same step.
WaitPark(w) ==
  /\ Goto(w, "park", "parked")
  /\ wakeLock' = NoThread
  /\ UNCHANGED <<cancelled, hooks, hooksLock, taken, ran, pushed, runLog>>

\* A woken waiter takes the mutex back, drops it and returns.
WaitReturn(w) ==
  /\ Goto(w, "woken", "done")
  /\ wakeLock = NoThread
  /\ UNCHANGED <<cancelled, hooks, hooksLock, wakeLock, taken, ran, pushed, runLog>>

\* A condition variable may wake its waiter without a notification.
SpuriousWake(w) ==
  /\ Goto(w, "parked", "woken")
  /\ UNCHANGED <<cancelled, hooks, hooksLock, wakeLock, taken, ran, pushed, runLog>>

WaitCancelled(w) ==
  \/ WaitCheck(w) \/ WaitLock(w) \/ WaitRecheck(w) \/ WaitPark(w) \/ WaitReturn(w)

-----------------------------------------------------------------------------
(* wait(timeout)                                                           *)

TimedCheck(w) ==
  /\ Goto(w, "idle", IF cancelled THEN "done" ELSE "lock")
  /\ UNCHANGED <<cancelled, hooks, hooksLock, wakeLock, taken, ran, pushed, runLog>>

\* lock() and wait_timeout() with nothing in between: the flag is not read
\* again before the thread parks.
TimedPark(w) ==
  /\ Goto(w, "lock", "parked")
  /\ wakeLock = NoThread
  /\ UNCHANGED <<cancelled, hooks, hooksLock, wakeLock, taken, ran, pushed, runLog>>

TimedOut(w) ==
  /\ Goto(w, "parked", "woken")
  /\ UNCHANGED <<cancelled, hooks, hooksLock, wakeLock, taken, ran, pushed, runLog>>

TimedReturn(w) ==
  /\ Goto(w, "woken", "done")
  /\ wakeLock = NoThread
  /\ UNCHANGED <<cancelled, hooks, hooksLock, wakeLock, taken, ran, pushed, runLog>>

TimedWait(w) == TimedCheck(w) \/ TimedPark(w) \/ TimedOut(w) \/ TimedReturn(w)

-----------------------------------------------------------------------------
Finished ==
  /\ \A t \in Threads : pc[t] = "done"
  /\ UNCHANGED vars

Next ==
  \/ \E c \in Cancellers : Cancel(c)
  \/ \E r \in Registrars : OnCancel(r)
  \/ \E w \in Waiters : WaitCancelled(w) \/ SpuriousWake(w)
  \/ \E w \in TimedWaiters : TimedWait(w)
  \/ Finished

Spec == Init /\ [][Next]_vars

\* A call that has started keeps being scheduled, a mutex that stays free is
\* granted and a timeout elapses.  Nothing obliges a thread to make its call,
\* and nothing forces a spurious wake-up.
Fairness ==
  /\ \A c \in Cancellers : WF_vars(pc[c] # "idle" /\ Cancel(c))
  /\ \A r \in Registrars : WF_vars(pc[r] # "idle" /\ OnCancel(r))
  /\ \A w \in Waiters : WF_vars(pc[w] # "idle" /\ WaitCancelled(w))
  /\ \A w \in TimedWaiters : WF_vars(pc[w] # "idle" /\ TimedWait(w))

FairSpec == Spec /\ Fairness

-----------------------------------------------------------------------------
(* Properties                                                              *)

\* notify_all has been issued: the winner of the swap is past its notify step.
Notified == cancelled /\ \A c \in Cancellers : pc[c] # "notify"

\* A hook runs at most once, whichever of cancel() and on_cancel() gets to
\* it, in every interleaving of the two flag checks with the swap
\* (cancel.rs:79-124).
HookAtMostOnce == \A r \in Registrars : ran[r] <= 1

\* No hook is lost: once the winning cancel() has returned and on_cancel()
\* has returned, the hook has run.
HookNotLost ==
  \A r \in Registrars :
    /\ cancelled
    /\ \A c \in Cancellers : pc[c] \in {"idle", "done"}
    /\ pc[r] = "done"
    => ran[r] = 1

\* "in registration order": the hooks cancel() has run, the ones it holds and
\* the ones still registered are, in that order, exactly the registrations.
RegistrationOrder == pushed = (runLog \o taken) \o hooks

\* Whichever of cancel() and on_cancel() reaches a hook first, it runs once,
\* not twice and not never, and cancel() runs its hooks in the order in
\* which they were registered.
HooksRunOnce == HookAtMostOnce /\ HookNotLost /\ RegistrationOrder

\* wait_cancelled() cannot sleep through the signal: after notify_all no
\* thread is parked in it (the recheck under the wake mutex, cancel.rs:157-159).
NoLostWakeup == Notified => \A w \in Waiters : pc[w] # "parked"

\* After a cancellation every hook whose on_cancel() call has begun runs, and
\* every call of wait() or wait_cancelled() that has begun returns.
CancelReleasesAll ==
  /\ \A r \in Registrars : cancelled /\ pc[r] # "idle" ~> ran[r] = 1
  /\ \A w \in AllWaiters : cancelled /\ pc[w] # "idle" ~> pc[w] = "done"
=============================================================================
